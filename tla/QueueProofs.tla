----------------------------- MODULE QueueProofs -----------------------------
(***************************************************************************)
(* The labels of the namespaces implement the command queue, for every      *)
(* cluster, every number of requests and cron firings, failing calls and    *)
(* crashes, as long as the informer of the namespaces does not lag.         *)
(***************************************************************************)
EXTENDS AergiaProofs

\* The worker reads the labels as they are: what it begins is posted, and comes
\* first.
NamespacesFresh == nsCache = ns /\ unseen = {}

QueueInv == TypeOK /\ NamespacesFresh

\* A step that leaves the commands and the worker alone is no step of the queue.
LEMMA QueueStutter ==
  ASSUME \A n \in Namespaces : ns'[n].commands = ns[n].commands,
         UNCHANGED controllerVars
  PROVE  UNCHANGED Queue!queueVars
BY DEF Queue!queueVars, controllerVars

\* A patch of a namespace changes its commands only if it says so.
LEMMA SetNsQueue ==
  ASSUME QueueInv, "namespaces" \notin Lagging,
         NEW n \in Namespaces, NEW value \in Namespace, SetNs(n, value)
  PROVE  /\ NamespacesFresh'
         /\ \A m \in Namespaces :
                ns'[m].commands = IF m = n THEN value.commands ELSE ns[m].commands
BY DEF QueueInv, TypeOK, ClusterTypeOK, NamespacesFresh, SetNs

\* Neither the idler nor the unidler touches a command.
LEMMA IdlerWorkQueue ==
  ASSUME QueueInv, "namespaces" \notin Lagging,
         NEW p \in Idlers, IdlerWork(p), UNCHANGED controllerVars
  PROVE  NamespacesFresh' /\ UNCHANGED Queue!queueVars
<1>1. CASE LabelIdled(p)
  <2>1. /\ idlerNs[p] \in Namespaces
        /\ [idled |-> TRUE, commands |-> ns[idlerNs[p]].commands] \in Namespace
    BY DEF QueueInv, TypeOK, ClusterTypeOK, IdlerTypeOK, Namespace
  <2>2. SetNs(idlerNs[p], [idled |-> TRUE, commands |-> ns[idlerNs[p]].commands])
    BY <1>1 DEF LabelIdled
  <2>3. NamespacesFresh' /\ \A m \in Namespaces : ns'[m].commands = ns[m].commands
    BY <2>1, <2>2, SetNsQueue
  <2>. QED  BY <2>3, QueueStutter
<1>2. CASE UNCHANGED nsVars
  BY <1>2, QueueStutter DEF nsVars, QueueInv, NamespacesFresh
<1>3. ASSUME NEW d \in Deployments, IdleDeployment(p, d) \/ SkipDeployment(p, d)
      PROVE  UNCHANGED nsVars
  BY <1>3 DEF IdleDeployment, SkipDeployment, clusterVars, nsVars
<1>4. ASSUME NEW i \in Ingresses, PatchIngress(p, i)
      PROVE  UNCHANGED nsVars
  BY <1>4 DEF PatchIngress
<1>. QED
  BY <1>1, <1>2, <1>3, <1>4
  DEF IdlerWork, BuildRunning, ListDeployments, NotIdle, DecideToPatch, DecideToScale, Decide,
      IdlerError, AllScaled, clusterVars, nsVars

LEMMA UnidlerWorkQueue ==
  ASSUME QueueInv, "namespaces" \notin Lagging,
         NEW p \in Unidlers, UnidlerWork(p), UNCHANGED controllerVars
  PROVE  NamespacesFresh' /\ UNCHANGED Queue!queueVars
<1>1. CASE LabelUnidled(p)
  <2>1. /\ unidlerNs[p] \in Namespaces
        /\ [idled |-> FALSE, commands |-> ns[unidlerNs[p]].commands] \in Namespace
    BY DEF QueueInv, TypeOK, ClusterTypeOK, UnidlerTypeOK, Namespace
  <2>2. SetNs(unidlerNs[p], [idled |-> FALSE, commands |-> ns[unidlerNs[p]].commands])
    BY <1>1 DEF LabelUnidled
  <2>3. NamespacesFresh' /\ \A m \in Namespaces : ns'[m].commands = ns[m].commands
    BY <2>1, <2>2, SetNsQueue
  <2>. QED  BY <2>3, QueueStutter
<1>2. CASE UNCHANGED nsVars
  BY <1>2, QueueStutter DEF nsVars, QueueInv, NamespacesFresh
<1>3. ASSUME NEW d \in Deployments,
             WakeDeployment(p, d) \/ WakeError(p, d) \/ PodReady(p, d) \/ GiveUpWaiting(p, d)
      PROVE  UNCHANGED nsVars
  BY <1>3 DEF WakeDeployment, WakeError, PodReady, GiveUpWaiting, clusterVars, nsVars
<1>4. ASSUME NEW i \in Ingresses, StripPage(p, i) \/ StripError(p, i)
      PROVE  UNCHANGED nsVars
  BY <1>4 DEF StripPage, StripError, clusterVars, nsVars
<1>. QED
  BY <1>1, <1>2, <1>3, <1>4
  DEF UnidlerWork, LoadLock, StoreLock, ListWatched, ListWatchedError, ListPages,
      ListPagesError, AllStripped, LabelError, Unlock, clusterVars, nsVars

-----------------------------------------------------------------------------
(* The steps of the queue                                                   *)

LEMMA PostStep ==
  ASSUME QueueInv, "namespaces" \notin Lagging,
         NEW n \in Namespaces, NEW c \in Commands, PostCommand(n, c)
  PROVE  NamespacesFresh' /\ Queue!Post(n, c)
<1>1. [idled |-> ns[n].idled, commands |-> ns[n].commands \cup {c}] \in Namespace
  BY DEF QueueInv, TypeOK, ClusterTypeOK, Namespace
<1>2. /\ NamespacesFresh'
      /\ \A m \in Namespaces :
             ns'[m].commands = IF m = n THEN ns[n].commands \cup {c} ELSE ns[m].commands
  BY <1>1, SetNsQueue DEF PostCommand
<1>3. c \notin ns[n].commands /\ UNCHANGED <<handling, handlingNs>>
  BY DEF PostCommand, processVars, controllerVars
<1>. QED  BY <1>2, <1>3 DEF Queue!Post

LEMMA BeginStep ==
  ASSUME QueueInv, NEW n \in Namespaces, Reconcile(n)
  PROVE  NamespacesFresh' /\ [Queue!Next]_(Queue!queueVars)
<1>. DEFINE c == FirstCommand(ns[n].commands)
<1>1. Take(n)
  BY DEF Reconcile, StartReconcile, ReconcileNothing, ReconcileForce, ReconcileUnidle
<1>2. /\ NamespacesFresh' /\ UNCHANGED ns /\ handling = "none"
      /\ c = FirstCommand(nsCache[n].commands)
  BY <1>1 DEF Take, QueueInv, NamespacesFresh
<1>3. CASE ReconcileNothing(n)
  BY <1>2, <1>3, QueueStutter DEF ReconcileNothing
<1>4. CASE ReconcileForce(n) \/ ReconcileUnidle(n)
  <2>1. c \in Commands /\ handling' = c /\ handlingNs' = n
    BY <1>2, <1>4 DEF ReconcileForce, ReconcileUnidle, Commands
  <2>2. /\ c \in ns[n].commands
        /\ \A other \in ns[n].commands : Queue!Ranks[c] <= Queue!Ranks[other]
    <3>1. ns[n].commands \subseteq Commands
      BY DEF QueueInv, TypeOK, ClusterTypeOK, Namespace
    <3>. QED  BY <2>1, <3>1 DEF FirstCommand, Commands, Queue!Ranks
  <2>3. c # "none"
    BY <2>1 DEF Commands
  <2>4. Queue!Begin(n, c)
    BY <1>2, <2>1, <2>2, <2>3 DEF Queue!Begin
  <2>5. c \in DOMAIN Queue!Ranks
    BY <2>1 DEF Commands, Queue!Ranks
  <2>. QED  BY <1>2, <2>4, <2>5 DEF Queue!Next
<1>. QED  BY <1>3, <1>4 DEF Reconcile, StartReconcile

LEMMA DoneStep ==
  ASSUME QueueInv, "namespaces" \notin Lagging, ClearCommand
  PROVE  NamespacesFresh' /\ Queue!Done(handlingNs, handling)
<1>1. /\ handlingNs \in Namespaces
      /\ [idled |-> ns[handlingNs].idled, commands |-> ns[handlingNs].commands \ {handling}]
             \in Namespace
  BY DEF QueueInv, TypeOK, ClusterTypeOK, ControllerTypeOK, Namespace
<1>2. /\ NamespacesFresh'
      /\ \A m \in Namespaces :
             ns'[m].commands = IF m = handlingNs THEN ns[handlingNs].commands \ {handling}
                                                 ELSE ns[m].commands
  BY <1>1, SetNsQueue DEF ClearCommand
<1>3. handling # "none" /\ handling' = "none"
  BY DEF ClearCommand, HandlerReturned
<1>. QED  BY <1>1, <1>2, <1>3 DEF Queue!Done

LEMMA ControllerStep ==
  ASSUME QueueInv, "namespaces" \notin Lagging, Controller
  PROVE  NamespacesFresh' /\ [Queue!Next]_(Queue!queueVars)
<1>1. CASE IdlerWork(Reconciler) /\ UNCHANGED controllerVars
  BY <1>1, IdlerWorkQueue DEF Idlers
<1>2. CASE UnidlerWork(Reconciler) /\ UNCHANGED controllerVars
  BY <1>2, UnidlerWorkQueue DEF Unidlers
<1>3. CASE ClearCommand
  <2>1. handlingNs \in Namespaces /\ handling \in DOMAIN Queue!Ranks
    BY <1>3 DEF ClearCommand, HandlerReturned, QueueInv, TypeOK, ControllerTypeOK, Commands,
                Queue!Ranks
  <2>2. NamespacesFresh' /\ Queue!Done(handlingNs, handling)
    BY <1>3, DoneStep
  <2>3. \E n \in Namespaces, c \in DOMAIN Queue!Ranks : Queue!Done(n, c)
    BY <2>1, <2>2 DEF Queue!Done
  <2>. QED  BY <2>2, <2>3 DEF Queue!Next
<1>4. CASE ClearError
  <2>1. handling # "none" /\ handling' = "none" /\ UNCHANGED <<ns, nsCache, unseen>>
    BY <1>4 DEF ClearError, HandlerReturned, clusterVars
  <2>2. Queue!Abandon
    BY <2>1 DEF Queue!Abandon
  <2>. QED  BY <2>1, <2>2 DEF Queue!Next, QueueInv, NamespacesFresh
<1>. QED  BY <1>1, <1>2, <1>3, <1>4 DEF Controller, ControllerWork

LEMMA RestartStep ==
  ASSUME QueueInv, Restart
  PROVE  NamespacesFresh' /\ [Queue!Next]_(Queue!queueVars)
<1>1. NamespacesFresh' /\ UNCHANGED ns /\ handling' = "none"
  BY DEF Restart, NamespacesFresh
<1>2. CASE handling = "none"
  BY <1>1, <1>2 DEF Queue!queueVars
<1>3. CASE handling # "none"
  BY <1>1, <1>3 DEF Queue!Next, Queue!Abandon
<1>. QED  BY <1>1, <1>2, <1>3

\* Through every interleaving, failing call and crash, the labels are a queue of
\* commands that only the worker takes from, one command at a time and in order.
THEOREM QueueIsImplemented ==
  ASSUME "namespaces" \notin Lagging
  PROVE  Spec => ImplementsQueue
<1>1. Init => NamespacesFresh /\ Queue!Init
  <2>. SUFFICES ASSUME Init PROVE NamespacesFresh /\ Queue!Init
    OBVIOUS
  <2>1. NamespacesFresh /\ \A n \in Namespaces : ns[n].commands = {}
    BY DEF Init, ClusterInit, InitialCluster, NamespacesFresh
  <2>2. handling = "none"
    BY DEF Init, ControllerInit
  <2>. QED  BY <2>1, <2>2 DEF Queue!Init
<1>2. ASSUME QueueInv, [Next]_vars
      PROVE  NamespacesFresh' /\ [Queue!Next]_(Queue!queueVars)
  <2>. USE <1>2
  <2>1. ASSUME UNCHANGED <<nsVars, controllerVars>>
        PROVE  NamespacesFresh' /\ UNCHANGED Queue!queueVars
    BY <2>1, QueueStutter DEF nsVars, QueueInv, NamespacesFresh
  <2>2. CASE UNCHANGED vars
    BY <2>1, <2>2 DEF vars, clusterVars, processVars, nsVars
  <2>3. ASSUME NEW n \in Namespaces, NEW c \in Commands, PostCommand(n, c)
        PROVE  NamespacesFresh' /\ [Queue!Next]_(Queue!queueVars)
    BY <2>3, PostStep DEF Queue!Next, Queue!Ranks, Commands
  <2>4. ASSUME NEW d \in Deployments, NEW count \in 1 .. MaxReplicas, Rescale(d, count)
        PROVE  UNCHANGED <<nsVars, controllerVars>>
    BY <2>4 DEF Rescale, processVars
  <2>5. ASSUME NEW i \in Ingresses, NEW r \in Routers, NEW items \in SUBSET UserItems,
               Annotate(i, r, items)
        PROVE  UNCHANGED <<nsVars, controllerVars>>
    BY <2>5 DEF Annotate, processVars
  <2>6. ASSUME NEW r \in Requests, NEW n \in Namespaces, Request(r, n)
        PROVE  UNCHANGED <<nsVars, controllerVars>>
    BY <2>6 DEF Request, ReceiveRequest, clusterVars, nsVars
  <2>7. ASSUME NEW c \in Crons, CronStart(c)
        PROVE  UNCHANGED <<nsVars, controllerVars>>
    BY <2>7 DEF CronStart, CronTick, CronNext, clusterVars, nsVars
  <2>8. ASSUME NEW r \in Requests, RequestWork(r)
        PROVE  NamespacesFresh' /\ UNCHANGED Queue!queueVars
    BY <2>8, UnidlerWorkQueue DEF RequestWork, Unidlers
  <2>9. ASSUME NEW c \in Crons, CronWork(c)
        PROVE  NamespacesFresh' /\ UNCHANGED Queue!queueVars
    BY <2>9, IdlerWorkQueue DEF CronWork, Idlers
  <2>10. CASE Informers
    <3>1. ~SyncNamespaces
      BY DEF SyncNamespaces, QueueInv, NamespacesFresh
    <3>. QED
      BY <2>1, <2>10, <3>1 DEF Informers, SyncDeployments, SyncIngresses, processVars
  <2>11. CASE Kubelet
    BY <2>1, <2>11 DEF Kubelet, PodUp, PodDown, processVars
  <2>. QED
    BY <2>1, <2>2, <2>3, <2>4, <2>5, <2>6, <2>7, <2>8, <2>9, <2>10, <2>11, BeginStep,
       ControllerStep, RestartStep, UserAssumption
    DEF Next, Start, Work
<1>. QED
  BY <1>1, <1>2, TypeCorrect, PTL DEF Spec, QueueInv, ImplementsQueue, Queue!Spec
=============================================================================
