------------------------------- MODULE Aergia -------------------------------
(***************************************************************************)
(* One aergia process and the cluster around it: the cron firings, the HTTP *)
(* requests with their Unidle goroutines, and the namespace controller, all *)
(* over the same objects, as cmd/main.go starts them; users who post command*)
(* labels, rescale deployments and edit the annotations of ingresses; the   *)
(* kubelet; the informers; and crashes of the process, which lose every     *)
(* goroutine, lock and queue.                                               *)
(*                                                                          *)
(* Spec lets the actors overlap in every way the code allows.  SerialSpec   *)
(* starts an operation only when nothing is in progress: what the code      *)
(* promises of each operation taken alone, from any state that earlier      *)
(* operations, or a crash in the middle of one, leave behind.               *)
(***************************************************************************)
EXTENDS Controller

CONSTANTS
    Postable,       \* the commands users post
    MaxPosts,       \* how many they post
    Rescalable,     \* the deployments that are rescaled while they run
    Annotated,      \* the ingresses whose annotations users edit
    MaxCrashes

ASSUME UserAssumption ==
    /\ Postable \subseteq Commands
    /\ Rescalable \subseteq Deployments
    /\ Annotated \subseteq Ingresses
    /\ MaxPosts \in Nat
    /\ MaxCrashes \in Nat

VARIABLES posts, crashes

processVars == <<idlerVars, unidlerVars, controllerVars>>
vars == <<clusterVars, processVars, posts, crashes>>

TypeOK ==
    /\ ClusterTypeOK
    /\ IdlerTypeOK
    /\ UnidlerTypeOK
    /\ ControllerTypeOK
    /\ posts \in 0 .. MaxPosts
    /\ crashes \in 0 .. MaxCrashes

Init ==
    /\ ClusterInit
    /\ IdlerInit
    /\ UnidlerInit
    /\ ControllerInit
    /\ posts = 0
    /\ crashes = 0

-----------------------------------------------------------------------------
(* The users and the process                                                *)

\* kubectl label namespace n idling.amazee.io/c=true
PostCommand(n, c) ==
    /\ posts < MaxPosts
    /\ c \in Postable \ ns[n].commands
    /\ posts' = posts + 1
    /\ SetNs(n, [idled |-> ns[n].idled, commands |-> ns[n].commands \cup {c}])
    /\ UNCHANGED <<running, depVars, pageVars, processVars, crashes>>

\* A deployment that runs is given another count, by a user or an autoscaler.
Rescale(d, count) ==
    /\ d \in Rescalable
    /\ dep[d].replicas > 0 /\ dep[d].replicas # count
    /\ SetDep(d, [replicas |-> count, watch |-> dep[d].watch, idled |-> dep[d].idled,
                  forceScaled |-> dep[d].forceScaled, target |-> dep[d].target])
    /\ UNCHANGED <<running, pageVars, nsVars, processVars, posts, crashes>>

\* The user's part of an annotation: aergia's item stays.
Annotate(i, r, items) ==
    /\ i \in Annotated /\ items # page[i][r] \ {Ours}
    /\ SetPage(i, [page[i] EXCEPT ![r] = items \cup (@ \cap {Ours})])
    /\ UNCHANGED <<running, depVars, nsVars, processVars, posts, crashes>>

\* The process dies and another takes its place: the informers list everything
\* anew, and every namespace is queued.
Restart ==
    /\ crashes < MaxCrashes
    /\ crashes' = crashes + 1
    /\ idlerPc' = [p \in Idlers |-> "off"]
    /\ idlerNs' = [p \in Idlers |-> AnyNamespace]
    /\ force' = [p \in Idlers |-> "no"]
    /\ snapshot' = [p \in Idlers |-> NoReplicas]
    /\ toPatch' = [p \in Idlers |-> {}]
    /\ patchFrom' = [p \in Idlers |-> NoPages]
    /\ toScale' = [p \in Idlers |-> {}]
    /\ cronTodo' = [c \in Crons |-> {}]
    /\ locks' = {}
    /\ unidlerPc' = [p \in Unidlers |-> "off"]
    /\ unidlerNs' = [p \in Unidlers |-> AnyNamespace]
    /\ wake' = [p \in Unidlers |-> NoReplicas]
    /\ waiting' = [p \in Unidlers |-> {}]
    /\ stripping' = [p \in Unidlers |-> {}]
    /\ stripFrom' = [p \in Unidlers |-> NoPages]
    /\ handling' = "none"
    /\ handlingNs' = AnyNamespace
    /\ depCache' = dep
    /\ pageCache' = page
    /\ nsCache' = ns
    /\ unseen' = {}
    /\ queued' = Namespaces
    /\ UNCHANGED <<dep, page, ns, running, posts>>

-----------------------------------------------------------------------------
(* The system                                                               *)

Request(r, n) == ReceiveRequest(r, n) /\ UNCHANGED <<idlerVars, controllerVars, posts, crashes>>
RequestWork(r) == UnidlerWork(r) /\ UNCHANGED <<idlerVars, controllerVars, posts, crashes>>

CronStart(c) ==
    /\ CronTick(c) \/ \E n \in Namespaces : CronNext(c, n)
    /\ UNCHANGED <<unidlerVars, controllerVars, posts, crashes>>
CronWork(c) == IdlerWork(c) /\ UNCHANGED <<unidlerVars, controllerVars, posts, crashes>>

Reconcile(n) == StartReconcile(n) /\ UNCHANGED <<posts, crashes>>
Controller == ControllerWork /\ UNCHANGED <<posts, crashes>>

Informers ==
    /\ SyncDeployments \/ SyncIngresses \/ SyncNamespaces
    /\ UNCHANGED <<processVars, posts, crashes>>

Kubelet ==
    /\ \E d \in Deployments : PodUp(d) \/ PodDown(d)
    /\ UNCHANGED <<processVars, posts, crashes>>

Start ==
    \/ \E n \in Namespaces, c \in Commands : PostCommand(n, c)
    \/ \E d \in Deployments, count \in 1 .. MaxReplicas : Rescale(d, count)
    \/ \E i \in Annotated, r \in Routers, items \in SUBSET UserItems : Annotate(i, r, items)
    \/ \E r \in Requests, n \in Namespaces : Request(r, n)
    \/ \E c \in Crons : CronStart(c)
    \/ \E n \in Namespaces : Reconcile(n)

Work ==
    \/ \E r \in Requests : RequestWork(r)
    \/ \E c \in Crons : CronWork(c)
    \/ Controller
    \/ Informers
    \/ Kubelet

Next == Start \/ Work \/ Restart

Spec == Init /\ [][Next]_vars

\* Nothing is in progress, and everybody has seen what happened so far.
Quiet ==
    /\ \A p \in Idlers : idlerPc[p] = "off"
    /\ \A p \in Unidlers : unidlerPc[p] = "off"
    /\ handling = "none"
    /\ depCache = dep /\ pageCache = page /\ unseen = {}
    /\ \A d \in Deployments : running[d] <=> dep[d].replicas > 0

SerialNext == (Quiet /\ Start) \/ Work \/ Restart

SerialSpec == Init /\ [][SerialNext]_vars

\* Goroutines run on, the work queue is first-in first-out, informers and the
\* kubelet catch up.  Nobody has to post, request, rescale, fire or crash.
Fairness ==
    /\ \A r \in Requests : WF_vars(RequestWork(r))
    /\ \A c \in Crons : WF_vars(CronWork(c))
    /\ WF_vars(Controller)
    /\ \A n \in Namespaces : SF_vars(Reconcile(n))
    /\ WF_vars(SyncDeployments /\ UNCHANGED <<processVars, posts, crashes>>)
    /\ WF_vars(SyncIngresses /\ UNCHANGED <<processVars, posts, crashes>>)
    /\ WF_vars(SyncNamespaces /\ UNCHANGED <<processVars, posts, crashes>>)
    /\ WF_vars(Kubelet)

FairSpec == Spec /\ Fairness

-----------------------------------------------------------------------------
(* What the locks, the labels and the queue promise                         *)

\* A lock entry never outlives the work it stands for: while a namespace has an
\* entry, some request's Unidle for it is still to run its deferred
\* Locks.Delete.  An entry without one would block every later request.
LockHasHolder == \A n \in locks : \E r \in Requests : Unidling(r, n)

\* However idlers and unidlers interleave, a deployment at zero replicas carries
\* the two labels Unidle selects on, watch and idled: the next Unidle of its
\* namespace finds it.
Recoverable == \A d \in Deployments : dep[d].replicas = 0 => dep[d].watch /\ dep[d].idled

\* n has a command, and nothing is on the way to carry it out.
Forgotten(n) ==
    /\ ns[n].commands # {}
    /\ n \notin queued \cup unseen
    /\ handling = "none" \/ handlingNs # n

\* While patches succeed, no command label is forgotten: a namespace that has
\* one is queued, or being reconciled, or its event is on the way.
CommandTracked == \A n \in Namespaces : ~Forgotten(n)

\* When they do not, a command is forgotten by one step only: the patch that removes
\* a label after its handler fails, and Reconcile returns no error to be retried.
ForgottenByErrorOnly ==
    [][\A n \in Namespaces : ~Forgotten(n) /\ Forgotten(n)' =>
           ClearError /\ n = handlingNs]_vars

-----------------------------------------------------------------------------
(* What an environment looks like                                           *)

\* Some visitors of i are sent to aergia.
Bounced(i) == \E r \in Routers : Ours \in page[i][r]

Down(n) == \E d \in DeploymentsOf(n) : dep[d].replicas = 0

\* A visitor of an environment that is not fully up reaches aergia, whose page
\* starts the unidling: the environment is not dark.
NoDarkEnvironment ==
    \A n \in Namespaces : Down(n) => \A i \in SelectedOf(n) : Paged(i)

\* The pages of an environment come down only when each of its deployments has
\* a pod running.
PageUntilReady ==
    [][\A i \in Ingresses : Paged(i) /\ ~Paged(i)' =>
           \A d \in DeploymentsOf(NamespaceOf[i]) : running[d]]_vars

\* An environment that was force scaled stays down until an unidle command: no
\* request clears the label.
ForceScaledHolds ==
    [][\A d \in Deployments : dep[d].forceScaled /\ ~dep'[d].forceScaled =>
           handling = "unidle"]_vars

\* When nothing is in progress the namespace label tells the truth.
LabelTruth ==
    Quiet => \A n \in Namespaces :
        ns[n].idled <=> \A d \in DeploymentsOf(n) : dep[d].replicas = 0

\* At any time, and wherever earlier operations died: an environment with an ingress
\* of which a deployment sleeps is labelled as idled.
SleepIsLabelled ==
    \A n \in Namespaces : SelectedOf(n) # {} /\ Down(n) => ns[n].idled

\* An Unidle that comes to its end has mended whatever operations that died before
\* left behind: all deployments are up, no visitor is sent to aergia by either
\* router, and the label is gone.
UnidleCompletes ==
    \A p \in Unidlers : unidlerPc[p] = "unlock" =>
        LET n == unidlerNs[p]
        IN  /\ ~Down(n) /\ ~ns[n].idled
            /\ \A i \in IngressesOf(n) : ~Bounced(i)

\* The label of a force command is removed only from an environment that the
\* command did scale down.
ForceObeyed ==
    [][\A n \in Namespaces, c \in {"force-scaled", "force-idled"} :
           c \in ns[n].commands /\ c \notin ns'[n].commands =>
               \A d \in DeploymentsOf(n) :
                   dep[d].replicas = 0 /\ (c = "force-scaled" => dep[d].forceScaled)]_vars

\* nginx and traefik never disagree on whether the visitors of an ingress go to
\* aergia, whatever items of their own users keep in the two annotations.
RoutersAgree ==
    \A i \in Ingresses : Ours \in page[i]["nginx"] <=> Ours \in page[i]["traefik"]

\* Idling and unidling give back to users the items that they put in the
\* annotations: only users change them.  (An empty item may go.)
CodesKept ==
    [][\A i \in Ingresses, r \in Routers :
           \/ page'[i][r] \ {Ours, ""} = page[i][r] \ {Ours, ""}
           \/ \E items \in SUBSET UserItems : Annotate(i, r, items)]_vars

-----------------------------------------------------------------------------
(* What the controller and the environments implement                       *)

Queue == INSTANCE CommandQueue WITH
    posted <- [n \in Namespaces |-> ns[n].commands],
    busy   <- IF handling = "none" THEN {} ELSE {<<handlingNs, handling>>}

\* With an informer that does not lag, the labels of the namespaces behave as the
\* command queue: no step of an idler or an unidler, and no patch that fails or
\* crash between a handler and its label, removes, repeats or reorders a command.
ImplementsQueue == Queue!Spec

RestoredCount(d) ==
    IF dep[d].replicas > 0 THEN dep[d].replicas
    ELSE IF dep[d].target > 0 THEN dep[d].target ELSE 1

Environment == INSTANCE Dormancy WITH
    asleep  <- {d \in Deployments : dep[d].replicas = 0},
    size    <- [d \in Deployments |-> RestoredCount(d)],
    covered <- {n \in Namespaces : \A i \in SelectedOf(n) : Paged(i)}

\* Taken one at a time, idling and unidling put deployments to sleep and wake them
\* as Dormancy says: under pages that stay up until all of them are awake, and
\* with the size they had.
ImplementsDormancy == Environment!Spec

-----------------------------------------------------------------------------
(* What happens eventually                                                  *)

\* Every lock entry is deleted, however the Unidle goes.
LocksReleased == \A n \in Namespaces : n \in locks ~> n \notin locks

\* Every command is taken up and its label removed.
CommandsConsumed ==
    \A n \in Namespaces, c \in Commands : c \in ns[n].commands ~> c \notin ns[n].commands
=============================================================================
