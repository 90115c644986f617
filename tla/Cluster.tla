------------------------------ MODULE Cluster ------------------------------
(***************************************************************************)
(* The Kubernetes objects that aergia reads and patches, the caches through *)
(* which it reads them, and the queue of namespace events its controller    *)
(* drains.  Every module of this project works on this state.               *)
(*                                                                          *)
(* A deployment is its replica count and the labels and annotation aergia   *)
(* keeps on it; an ingress is the two annotations through which its routers *)
(* send visitors to aergia: nginx by the custom error 503, traefik by a     *)
(* middleware.  An annotation is the set of the comma-separated items of    *)
(* its value, {} when it is absent and {""} when it is empty; Ours stands   *)
(* for the item that aergia adds.  Labels that are written and never read   *)
(* back (idled-at, the force-idled label of a deployment, the idled label   *)
(* of an ingress) are left out.                                             *)
(*                                                                          *)
(* mgr.GetClient() answers Get and List from informer caches, and Patch     *)
(* goes to the API server.  The cache of a kind in Lagging trails behind    *)
(* the objects by any amount; the others are always up to date.             *)
(***************************************************************************)
EXTENDS Naturals, FiniteSets

CONSTANTS
    Namespaces,
    Deployments,    \* the deployments the idler's selector matches
    Ingresses,
    NamespaceOf,    \* the namespace of every deployment and ingress
    MatchLabels,    \* the pod selector of every deployment
    Selected,       \* the ingresses the idler's selector matches
    MaxReplicas,
    UserItems,      \* the items that users put in the annotations
    Reconciler,     \* the one worker of the namespace controller
    Lagging,        \* the kinds whose informer may lag
    Faulty          \* whether calls to the API server may fail

Kinds == {"deployments", "ingresses", "namespaces"}

ASSUME TopologyAssumption ==
    /\ Namespaces # {}
    /\ NamespaceOf \in [Deployments \cup Ingresses -> Namespaces]
    /\ Selected \subseteq Ingresses
    /\ MaxReplicas \in Nat \ {0}

Routers == {"nginx", "traefik"}
Ours == "503 or the aergia middleware"

\* A user's own 503 cannot be told from aergia's: users do without one.
ASSUME ItemAssumption == Ours \notin UserItems

ASSUME EnvironmentAssumption ==
    /\ Lagging \subseteq Kinds
    /\ Faulty \in BOOLEAN

VARIABLES
    dep,        \* dep[d]: the deployment d
    running,    \* running[d]: the first pod listed for d's selector is Running
    page,       \* page[i][r]: the annotation of ingress i for the router r
    ns,         \* ns[n]: the labels of namespace n
    depCache,
    pageCache,
    nsCache,
    unseen,     \* the namespaces with events the informer has not delivered
    queued      \* the namespaces in the controller's work queue

clusterVars == <<dep, running, page, ns, depCache, pageCache, nsCache, unseen, queued>>
depVars  == <<dep, depCache>>
pageVars == <<page, pageCache>>
nsVars   == <<ns, nsCache, unseen, queued>>

Commands == {"force-scaled", "force-idled", "unidle"}

\* target is the unidle-replicas annotation; 0 stands for one that is absent,
\* not a number, or not positive: Unidle treats them alike.
Deployment ==
    [replicas : 0 .. MaxReplicas, watch : BOOLEAN, idled : BOOLEAN,
     forceScaled : BOOLEAN, target : 0 .. MaxReplicas]

Items == UserItems \cup {"", Ours}
Page == [Routers -> SUBSET Items]

Namespace == [idled : BOOLEAN, commands : SUBSET Commands]

ClusterTypeOK ==
    /\ dep \in [Deployments -> Deployment]
    /\ depCache \in [Deployments -> Deployment]
    /\ running \in [Deployments -> BOOLEAN]
    /\ page \in [Ingresses -> Page]
    /\ pageCache \in [Ingresses -> Page]
    /\ ns \in [Namespaces -> Namespace]
    /\ nsCache \in [Namespaces -> Namespace]
    /\ unseen \subseteq Namespaces
    /\ queued \subseteq Namespaces

DeploymentsOf(n) == {d \in Deployments : NamespaceOf[d] = n}
IngressesOf(n)   == {i \in Ingresses : NamespaceOf[i] = n}
SelectedOf(n)    == IngressesOf(n) \cap Selected

\* What the locals of an actor hold while it is not running.
AnyNamespace == CHOOSE n \in Namespaces : TRUE
NoReplicas   == [d \in Deployments |-> 0]
NoPage       == [r \in Routers |-> {}]
NoPages      == [i \in Ingresses |-> NoPage]

\* Visitors of i are sent to aergia, whichever router they come through.
Paged(i) == \A r \in Routers : Ours \in page[i][r]

-----------------------------------------------------------------------------
(* Patches.  An informer that does not lag delivers the change at once.     *)

SetDep(d, value) ==
    /\ dep' = [dep EXCEPT ![d] = value]
    /\ IF "deployments" \in Lagging THEN UNCHANGED depCache ELSE depCache' = dep'

SetPage(i, value) ==
    /\ page' = [page EXCEPT ![i] = value]
    /\ IF "ingresses" \in Lagging THEN UNCHANGED pageCache ELSE pageCache' = page'

\* Mistaken: predicates that pass only the events that change the idled label.
SetNsFiltered(n, value) ==
    /\ ns' = [ns EXCEPT ![n] = value]
    /\ nsCache' = [nsCache EXCEPT ![n] = value]
    /\ queued' = IF value.idled = ns[n].idled THEN queued ELSE queued \cup {n}
    /\ UNCHANGED unseen

\* Every event of a namespace, whatever changed, puts it in the work queue:
\* the predicates accept them all.
SetNs(n, value) ==
    /\ ns' = [ns EXCEPT ![n] = value]
    /\ IF "namespaces" \in Lagging
       THEN /\ unseen' = unseen \cup {n}
            /\ UNCHANGED <<nsCache, queued>>
       ELSE /\ nsCache' = ns'
            /\ queued' = queued \cup {n}
            /\ UNCHANGED unseen

SyncDeployments ==
    /\ depCache # dep
    /\ depCache' = dep
    /\ UNCHANGED <<dep, running, pageVars, nsVars>>

SyncIngresses ==
    /\ pageCache # page
    /\ pageCache' = page
    /\ UNCHANGED <<page, running, depVars, nsVars>>

SyncNamespaces ==
    /\ unseen # {}
    /\ nsCache' = ns
    /\ queued' = queued \cup unseen
    /\ unseen' = {}
    /\ UNCHANGED <<ns, running, depVars, pageVars>>

-----------------------------------------------------------------------------
(* The kubelet: pods follow the replica count.                              *)

PodUp(d) ==
    /\ dep[d].replicas > 0 /\ ~running[d]
    /\ running' = [running EXCEPT ![d] = TRUE]
    /\ UNCHANGED <<depVars, pageVars, nsVars>>

PodDown(d) ==
    /\ dep[d].replicas = 0 /\ running[d]
    /\ running' = [running EXCEPT ![d] = FALSE]
    /\ UNCHANGED <<depVars, pageVars, nsVars>>

-----------------------------------------------------------------------------
(* Initial states: every namespace is either fresh (running, never idled)   *)
(* or asleep (idled before, with whatever count the annotation holds), and  *)
(* the controller has just started: its informers list every namespace, and *)
(* each one is queued.                                                      *)

FreshDeployment(count) ==
    [replicas |-> count, watch |-> FALSE, idled |-> FALSE,
     forceScaled |-> FALSE, target |-> 0]

AsleepDeployment(target) ==
    [replicas |-> 0, watch |-> TRUE, idled |-> TRUE,
     forceScaled |-> FALSE, target |-> target]

InitialCluster(asleep, count, target, items) ==
    /\ dep = [d \in Deployments |->
                 IF NamespaceOf[d] \in asleep THEN AsleepDeployment(target[d])
                                             ELSE FreshDeployment(count[d])]
    /\ running = [d \in Deployments |-> NamespaceOf[d] \notin asleep]
    /\ page = [i \in Ingresses |-> [r \in Routers |->
                  items[i][r] \cup
                  IF NamespaceOf[i] \in asleep /\ i \in Selected THEN {Ours} ELSE {}]]
    /\ ns = [n \in Namespaces |-> [idled |-> n \in asleep, commands |-> {}]]

ClusterInit ==
    /\ \E asleep \in SUBSET Namespaces,
          count \in [Deployments -> 1 .. MaxReplicas],
          target \in [Deployments -> 0 .. MaxReplicas],
          items \in [Ingresses -> [Routers -> SUBSET UserItems]] :
        InitialCluster(asleep, count, target, items)
    /\ depCache = dep
    /\ pageCache = page
    /\ nsCache = ns
    /\ unseen = {}
    /\ queued = Namespaces
=============================================================================
