---------------------------- MODULE AergiaProofs ----------------------------
(***************************************************************************)
(* What holds of aergia for every cluster, every number of requests and     *)
(* cron firings, and every choice of faults, crashes and slow informers.    *)
(***************************************************************************)
EXTENDS Aergia, TLAPS

-----------------------------------------------------------------------------
(* Types                                                                    *)

LEMMA AnyNamespaceType == AnyNamespace \in Namespaces
  BY TopologyAssumption DEF AnyNamespace

LEMMA NoPagesType == NoPage \in Page /\ NoPages \in [Ingresses -> Page]
  BY DEF NoPage, NoPages, Page

LEMMA SetDepType ==
  ASSUME ClusterTypeOK, NEW d \in Deployments, NEW value \in Deployment, SetDep(d, value)
  PROVE  /\ dep' \in [Deployments -> Deployment]
         /\ depCache' \in [Deployments -> Deployment]
  BY DEF ClusterTypeOK, SetDep

LEMMA SetPageType ==
  ASSUME ClusterTypeOK, NEW i \in Ingresses, NEW value \in Page, SetPage(i, value)
  PROVE  /\ page' \in [Ingresses -> Page]
         /\ pageCache' \in [Ingresses -> Page]
  BY DEF ClusterTypeOK, SetPage

LEMMA SetNsType ==
  ASSUME ClusterTypeOK, NEW n \in Namespaces, NEW value \in Namespace, SetNs(n, value)
  PROVE  /\ ns' \in [Namespaces -> Namespace]
         /\ nsCache' \in [Namespaces -> Namespace]
         /\ unseen' \subseteq Namespaces
         /\ queued' \subseteq Namespaces
  BY DEF ClusterTypeOK, SetNs

\* A call of Return, which ends a run of the idler.
LEMMA ReturnType ==
  ASSUME IdlerTypeOK, NEW p \in Idlers, Return(p)
  PROVE  IdlerTypeOK'
  BY AnyNamespaceType, NoPagesType, TopologyAssumption DEF IdlerTypeOK, Return, NoReplicas

LEMMA IdlerWorkType ==
  ASSUME ClusterTypeOK, IdlerTypeOK, NEW p \in Idlers, IdlerWork(p)
  PROVE  ClusterTypeOK' /\ IdlerTypeOK'
<1>. USE TopologyAssumption
<1>1. CASE BuildRunning(p) \/ NotIdle(p) \/ IdlerError(p) \/ AllScaled(p)
  <2>1. Return(p) /\ UNCHANGED clusterVars
    BY <1>1 DEF BuildRunning, NotIdle, IdlerError, AllScaled
  <2>. QED  BY <2>1, ReturnType DEF ClusterTypeOK, clusterVars
<1>2. CASE ListDeployments(p)
  BY <1>2 DEF ListDeployments, ClusterTypeOK, IdlerTypeOK, clusterVars, Deployment
<1>3. CASE DecideToPatch(p) \/ DecideToScale(p)
  <2>1. /\ IngressesToPatch(idlerNs[p]) \subseteq Ingresses
        /\ Targets(DeploymentsOf(idlerNs[p])) \subseteq Deployments
    BY DEF IngressesToPatch, Targets, SelectedOf, IngressesOf, DeploymentsOf
  <2>2. ClusterTypeOK'
    BY <1>3 DEF DecideToPatch, DecideToScale, Decide, ClusterTypeOK, clusterVars
  <2>3. /\ idlerPc' \in [Idlers -> {"off", "list", "inspect", "patch", "scale"}]
        /\ toPatch' \in [Idlers -> SUBSET Ingresses]
        /\ toScale' \in [Idlers -> SUBSET Deployments]
    <3>1. CASE DecideToPatch(p)
      BY <2>1, <3>1 DEF DecideToPatch, IdlerTypeOK
    <3>2. CASE DecideToScale(p)
      BY <2>1, <3>2 DEF DecideToScale, IdlerTypeOK
    <3>. QED  BY <1>3, <3>1, <3>2
  <2>5. patchFrom' \in [Idlers -> [Ingresses -> Page]]
    <3>1. [i \in Ingresses |->
              IF i \in IngressesToPatch(idlerNs[p]) THEN pageCache[i] ELSE NoPage]
              \in [Ingresses -> Page]
      BY NoPagesType DEF ClusterTypeOK
    <3>. QED  BY <1>3, <3>1 DEF DecideToPatch, DecideToScale, IdlerTypeOK
  <2>4. UNCHANGED <<idlerNs, force, snapshot, cronTodo>>
    BY <1>3 DEF DecideToPatch, DecideToScale, Decide
  <2>. QED
    BY <2>2, <2>3, <2>4, <2>5 DEF IdlerTypeOK
<1>4. ASSUME NEW i \in Ingresses, PatchIngress(p, i)
      PROVE  ClusterTypeOK' /\ IdlerTypeOK'
  <2>1. [r \in Routers |-> AddStatusCode(patchFrom[p][i][r])] \in Page
    <3>1. patchFrom[p][i] \in [Routers -> SUBSET Items] /\ Ours \in Items
      BY DEF IdlerTypeOK, Page, Items
    <3>. QED  BY <3>1 DEF AddStatusCode, Page
  <2>2. ClusterTypeOK'
    BY <1>4, <2>1, SetPageType DEF PatchIngress, ClusterTypeOK, depVars, nsVars
  <2>. QED
    BY <1>4, <2>2, NoPagesType DEF PatchIngress, IdlerTypeOK
<1>5. CASE LabelIdled(p)
  <2>1. [idled |-> TRUE, commands |-> ns[idlerNs[p]].commands] \in Namespace
    BY DEF ClusterTypeOK, IdlerTypeOK, Namespace
  <2>. QED
    BY <1>5, <2>1, SetNsType
    DEF LabelIdled, ClusterTypeOK, IdlerTypeOK, depVars, pageVars, DeploymentsOf
<1>6. ASSUME NEW d \in Deployments, IdleDeployment(p, d)
      PROVE  ClusterTypeOK' /\ IdlerTypeOK'
  <2>1. IdledBy(p, d) \in Deployment
    BY DEF IdledBy, IdleReplicas, ClusterTypeOK, IdlerTypeOK, Deployment
  <2>. QED
    BY <1>6, <2>1, SetDepType DEF IdleDeployment, ClusterTypeOK, IdlerTypeOK, pageVars, nsVars
<1>7. ASSUME NEW d \in Deployments, SkipDeployment(p, d)
      PROVE  ClusterTypeOK' /\ IdlerTypeOK'
  BY <1>7 DEF SkipDeployment, ClusterTypeOK, IdlerTypeOK, clusterVars
<1>. QED
  BY <1>1, <1>2, <1>3, <1>4, <1>5, <1>6, <1>7 DEF IdlerWork

LEMMA UnidlerWorkType ==
  ASSUME ClusterTypeOK, UnidlerTypeOK, NEW p \in Unidlers, UnidlerWork(p)
  PROVE  ClusterTypeOK' /\ UnidlerTypeOK'
<1>. USE DEF UnidlerTypeOK, Goto, InUnidle, stripVars
<1>1. CASE LoadLock(p) \/ StoreLock(p) \/ ListWatchedError(p) \/ ListPagesError(p)
           \/ AllStripped(p) \/ LabelError(p) \/ Unlock(p)
  <2>1. ClusterTypeOK'
    <3>1. UNCHANGED clusterVars
      BY <1>1 DEF LoadLock, StoreLock, ListWatchedError, ListPagesError, AllStripped,
                  LabelError, Unlock
    <3>. QED  BY <3>1 DEF ClusterTypeOK, clusterVars
  <2>2. /\ unidlerPc' \in [Unidlers -> {"off", "load", "store"} \cup InUnidle]
        /\ unidlerNs' \in [Unidlers -> Namespaces]
    <3>1. CASE LoadLock(p) \/ Unlock(p)
      BY <3>1, AnyNamespaceType DEF LoadLock, Unlock, Finish
    <3>2. CASE StoreLock(p) \/ ListWatchedError(p) \/ ListPagesError(p)
      BY <3>2 DEF StoreLock, ListWatchedError, ListPagesError
    <3>3. CASE AllStripped(p) \/ LabelError(p)
      BY <3>3 DEF AllStripped, LabelError
    <3>. QED  BY <1>1, <3>1, <3>2, <3>3
  <2>3. locks' \subseteq Namespaces /\ UNCHANGED <<wake, waiting, stripping, stripFrom>>
    BY <1>1
    DEF LoadLock, StoreLock, ListWatchedError, ListPagesError, AllStripped, LabelError, Unlock
  <2>. QED  BY <2>1, <2>2, <2>3
<1>2. CASE ListWatched(p)
  <2>1. ClusterTypeOK'
    BY <1>2 DEF ListWatched, ClusterTypeOK, clusterVars
  <2>2. \A d \in Deployments : NewReplicas(d) \in 0 .. MaxReplicas
    BY TopologyAssumption DEF NewReplicas, ClusterTypeOK, Deployment
  <2>3. /\ Watched(unidlerNs[p]) \subseteq Deployments
        /\ [d \in Deployments |-> IF d \in ToWake(unidlerNs[p]) THEN NewReplicas(d) ELSE 0]
               \in [Deployments -> 0 .. MaxReplicas]
    BY <2>2, TopologyAssumption DEF Watched, DeploymentsOf
  <2>. QED  BY <1>2, <2>1, <2>3 DEF ListWatched
<1>3. ASSUME NEW d \in Deployments, WakeDeployment(p, d)
      PROVE  ClusterTypeOK' /\ UnidlerTypeOK'
  <2>1. AwakeDeployment(p, d) \in Deployment
    BY DEF AwakeDeployment, ClusterTypeOK, Deployment
  <2>2. ClusterTypeOK'
    BY <1>3, <2>1, SetDepType DEF WakeDeployment, ClusterTypeOK, pageVars, nsVars
  <2>. QED  BY <1>3, <2>2, TopologyAssumption DEF WakeDeployment, Woken
<1>4. ASSUME NEW d \in Deployments, WakeError(p, d) \/ PodReady(p, d) \/ GiveUpWaiting(p, d)
      PROVE  ClusterTypeOK' /\ UnidlerTypeOK'
  <2>1. ClusterTypeOK'
    BY <1>4 DEF WakeError, PodReady, GiveUpWaiting, ClusterTypeOK, clusterVars
  <2>2. CASE WakeError(p, d)
    BY <2>1, <2>2, TopologyAssumption DEF WakeError, Woken
  <2>3. CASE PodReady(p, d) \/ GiveUpWaiting(p, d)
    BY <2>1, <2>3 DEF PodReady, GiveUpWaiting
  <2>. QED  BY <1>4, <2>2, <2>3
<1>5. CASE ListPages(p)
  <2>1. ClusterTypeOK'
    BY <1>5 DEF ListPages, ClusterTypeOK, clusterVars
  <2>2. /\ ToStrip(unidlerNs[p]) \subseteq Ingresses
        /\ [i \in Ingresses |-> IF i \in ToStrip(unidlerNs[p]) THEN pageCache[i] ELSE NoPage]
               \in [Ingresses -> Page]
    BY NoPagesType DEF ToStrip, IngressesOf, ClusterTypeOK
  <2>. QED  BY <1>5, <2>1, <2>2 DEF ListPages
<1>6. ASSUME NEW i \in Ingresses, StripPage(p, i) \/ StripError(p, i)
      PROVE  ClusterTypeOK' /\ UnidlerTypeOK'
  <2>1. /\ stripping' \in [Unidlers -> SUBSET Ingresses]
        /\ stripFrom' \in [Unidlers -> [Ingresses -> Page]]
    <3>1. Forget(p, i)
      BY <1>6 DEF StripPage, StripError
    <3>. QED  BY <3>1, NoPagesType DEF Forget
  <2>2. [r \in Routers |-> Stripped(stripFrom[p][i][r], page[i][r])] \in Page
    <3>1. stripFrom[p][i] \in [Routers -> SUBSET Items] /\ page[i] \in [Routers -> SUBSET Items]
      BY DEF ClusterTypeOK, Page
    <3>. QED  BY <3>1 DEF Stripped, RemoveStatusCode, Page
  <2>3. CASE StripPage(p, i)
    <3>1. ClusterTypeOK'
      BY <2>2, <2>3, SetPageType DEF StripPage, ClusterTypeOK, depVars, nsVars
    <3>. QED  BY <2>1, <2>3, <3>1 DEF StripPage
  <2>4. CASE StripError(p, i)
    BY <2>1, <2>4 DEF StripError, ClusterTypeOK, clusterVars
  <2>. QED  BY <1>6, <2>3, <2>4
<1>7. CASE LabelUnidled(p)
  <2>1. [idled |-> FALSE, commands |-> ns[unidlerNs[p]].commands] \in Namespace
    BY DEF ClusterTypeOK, Namespace
  <2>2. ClusterTypeOK'
    BY <1>7, <2>1, SetNsType DEF LabelUnidled, ClusterTypeOK, depVars, pageVars
  <2>. QED  BY <1>7, <2>2 DEF LabelUnidled
<1>. QED
  BY <1>1, <1>2, <1>3, <1>4, <1>5, <1>6, <1>7 DEF UnidlerWork

LEMMA ControllerType ==
  ASSUME TypeOK, Controller
  PROVE  TypeOK'
<1>1. Reconciler \in Idlers /\ Reconciler \in Unidlers
  BY DEF Idlers, Unidlers
<1>2. CASE IdlerWork(Reconciler) /\ UNCHANGED <<unidlerVars, controllerVars>>
  BY <1>1, <1>2, IdlerWorkType
  DEF Controller, TypeOK, UnidlerTypeOK, unidlerVars, ControllerTypeOK, controllerVars
<1>3. CASE UnidlerWork(Reconciler) /\ UNCHANGED <<idlerVars, controllerVars>>
  BY <1>1, <1>3, UnidlerWorkType
  DEF Controller, TypeOK, IdlerTypeOK, idlerVars, runVars, ControllerTypeOK, controllerVars
<1>4. CASE ClearCommand
  <2>1. [idled |-> ns[handlingNs].idled, commands |-> ns[handlingNs].commands \ {handling}]
            \in Namespace
    BY DEF TypeOK, ClusterTypeOK, ControllerTypeOK, Namespace
  <2>2. ClusterTypeOK'
    BY <1>4, <2>1, SetNsType
    DEF ClearCommand, TypeOK, ClusterTypeOK, ControllerTypeOK, depVars, pageVars
  <2>. QED
    BY <1>4, <2>2, AnyNamespaceType
    DEF ClearCommand, Controller, TypeOK, IdlerTypeOK, idlerVars, runVars, UnidlerTypeOK,
        unidlerVars, ControllerTypeOK
<1>5. CASE ClearError
  BY <1>5, AnyNamespaceType
  DEF ClearError, Controller, TypeOK, ClusterTypeOK, clusterVars, IdlerTypeOK, idlerVars,
      runVars, UnidlerTypeOK, unidlerVars, ControllerTypeOK
<1>. QED
  BY <1>2, <1>3, <1>4, <1>5 DEF Controller, ControllerWork

LEMMA ReconcileType ==
  ASSUME TypeOK, NEW n \in Namespaces, Reconcile(n)
  PROVE  TypeOK'
<1>1. Reconciler \in Idlers /\ Reconciler \in Unidlers
  BY DEF Idlers, Unidlers
<1>2. ASSUME Take(n)
      PROVE  ClusterTypeOK'
  BY <1>2 DEF Take, TypeOK, ClusterTypeOK, depVars, pageVars
<1>3. CASE ReconcileNothing(n)
  BY <1>2, <1>3
  DEF ReconcileNothing, Reconcile, TypeOK, IdlerTypeOK, idlerVars, runVars, UnidlerTypeOK,
      unidlerVars, ControllerTypeOK, controllerVars
<1>4. CASE ReconcileForce(n)
  <2>1. IdlerTypeOK' /\ ControllerTypeOK'
    BY <1>1, <1>4
    DEF ReconcileForce, StartIdler, TypeOK, IdlerTypeOK, ControllerTypeOK, Commands
  <2>. QED
    BY <1>2, <1>4, <2>1
    DEF ReconcileForce, Reconcile, TypeOK, UnidlerTypeOK, unidlerVars
<1>5. CASE ReconcileUnidle(n)
  BY <1>1, <1>2, <1>5
  DEF ReconcileUnidle, Reconcile, TypeOK, IdlerTypeOK, idlerVars, runVars, UnidlerTypeOK,
      Goto, InUnidle, stripVars, ControllerTypeOK, Commands
<1>. QED
  BY <1>3, <1>4, <1>5 DEF Reconcile, StartReconcile

LEMMA RestartType ==
  ASSUME TypeOK, Restart
  PROVE  TypeOK'
<1>. USE AnyNamespaceType, TopologyAssumption, UserAssumption DEF Restart, TypeOK
<1>1. ClusterTypeOK'
  BY DEF ClusterTypeOK
<1>2. IdlerTypeOK'
  BY NoPagesType DEF IdlerTypeOK, NoReplicas
<1>3. UnidlerTypeOK'
  BY NoPagesType DEF UnidlerTypeOK, NoReplicas
<1>4. ControllerTypeOK'
  BY DEF ControllerTypeOK
<1>. QED
  BY <1>1, <1>2, <1>3, <1>4

LEMMA InitType == Init => TypeOK
<1>. SUFFICES ASSUME Init PROVE TypeOK
  OBVIOUS
<1>. USE AnyNamespaceType, TopologyAssumption, UserAssumption DEF Init, TypeOK
<1>1. ClusterTypeOK
  <2>1. PICK asleep \in SUBSET Namespaces,
             count \in [Deployments -> 1 .. MaxReplicas],
             target \in [Deployments -> 0 .. MaxReplicas],
             items \in [Ingresses -> [Routers -> SUBSET UserItems]] :
           InitialCluster(asleep, count, target, items)
    BY Zenon DEF ClusterInit
  <2>2. page \in [Ingresses -> Page]
    <3>1. ASSUME NEW i \in Ingresses, NEW r \in Routers, NEW own \in {{}, {Ours}}
          PROVE  items[i][r] \cup own \in SUBSET Items
      <4>1. items[i] \in [Routers -> SUBSET UserItems]
        OBVIOUS
      <4>. QED  BY <4>1 DEF Items
    <3>. QED  BY <2>1, <3>1 DEF InitialCluster, Page
  <2>3. dep \in [Deployments -> Deployment]
    BY <2>1 DEF InitialCluster, AsleepDeployment, FreshDeployment, Deployment
  <2>4. /\ running \in [Deployments -> BOOLEAN]
        /\ ns \in [Namespaces -> Namespace]
    BY <2>1 DEF InitialCluster, Namespace
  <2>. QED
    BY <2>2, <2>3, <2>4 DEF ClusterInit, ClusterTypeOK
<1>2. IdlerTypeOK
  BY NoPagesType DEF IdlerInit, IdlerTypeOK, NoReplicas
<1>3. UnidlerTypeOK
  BY NoPagesType DEF UnidlerInit, UnidlerTypeOK, NoReplicas
<1>4. ControllerTypeOK
  BY DEF ControllerInit, ControllerTypeOK
<1>. QED
  BY <1>1, <1>2, <1>3, <1>4

LEMMA TypeStep ==
  ASSUME TypeOK, [Next]_vars
  PROVE  TypeOK'
<1>1. CASE UNCHANGED vars
  BY <1>1
  DEF vars, TypeOK, clusterVars, processVars, ClusterTypeOK, IdlerTypeOK, idlerVars,
      runVars, UnidlerTypeOK, unidlerVars, ControllerTypeOK, controllerVars
<1>. DEFINE ClusterOnly == UNCHANGED <<processVars, crashes>>
<1>2. ASSUME ClusterOnly, posts' \in 0 .. MaxPosts, ClusterTypeOK'
      PROVE  TypeOK'
  BY <1>2
  DEF TypeOK, processVars, IdlerTypeOK, idlerVars, runVars, UnidlerTypeOK, unidlerVars,
      ControllerTypeOK, controllerVars
<1>3. ASSUME NEW n \in Namespaces, NEW c \in Commands, PostCommand(n, c)
      PROVE  TypeOK'
  <2>1. [idled |-> ns[n].idled, commands |-> ns[n].commands \cup {c}] \in Namespace
    BY DEF TypeOK, ClusterTypeOK, Namespace
  <2>2. ClusterTypeOK'
    BY <1>3, <2>1, SetNsType DEF PostCommand, TypeOK, ClusterTypeOK, depVars, pageVars
  <2>3. posts' \in 0 .. MaxPosts
    BY <1>3, UserAssumption DEF PostCommand, TypeOK
  <2>. QED  BY <1>2, <1>3, <2>2, <2>3 DEF PostCommand
<1>4. ASSUME NEW d \in Deployments, NEW count \in 1 .. MaxReplicas, Rescale(d, count)
      PROVE  TypeOK'
  <2>. DEFINE rescaled ==
         [replicas |-> count, watch |-> dep[d].watch, idled |-> dep[d].idled,
          forceScaled |-> dep[d].forceScaled, target |-> dep[d].target]
  <2>1. rescaled \in Deployment
    BY TopologyAssumption DEF TypeOK, ClusterTypeOK, Deployment
  <2>2. ClusterTypeOK'
    BY <1>4, <2>1, SetDepType DEF Rescale, TypeOK, ClusterTypeOK, pageVars, nsVars
  <2>. QED  BY <1>2, <1>4, <2>2 DEF Rescale, TypeOK
<1>4a. ASSUME NEW i \in Ingresses, NEW r \in Routers, NEW items \in SUBSET UserItems,
              Annotate(i, r, items)
       PROVE  TypeOK'
  <2>1. [page[i] EXCEPT ![r] = items \cup (@ \cap {Ours})] \in Page
    BY DEF TypeOK, ClusterTypeOK, Page, Items
  <2>2. ClusterTypeOK'
    BY <1>4a, <2>1, SetPageType DEF Annotate, TypeOK, ClusterTypeOK, depVars, nsVars
  <2>. QED  BY <1>2, <1>4a, <2>2 DEF Annotate, TypeOK
<1>5. ASSUME NEW r \in Requests, NEW n \in Namespaces, Request(r, n)
      PROVE  TypeOK'
  BY <1>5
  DEF Request, ReceiveRequest, Goto, Unidlers, InUnidle, stripVars, TypeOK, ClusterTypeOK,
      clusterVars, IdlerTypeOK, idlerVars, runVars, UnidlerTypeOK, ControllerTypeOK, controllerVars
<1>6. ASSUME NEW c \in Crons, CronStart(c)
      PROVE  TypeOK'
  <2>1. ClusterTypeOK' /\ UnidlerTypeOK' /\ ControllerTypeOK'
    BY <1>6
    DEF CronStart, CronTick, CronNext, TypeOK, ClusterTypeOK, clusterVars,
        UnidlerTypeOK, unidlerVars, ControllerTypeOK, controllerVars
  <2>2. IdlerTypeOK'
    <3>1. CASE CronTick(c)
      BY <3>1, IdlerAssumption DEF CronTick, TypeOK, IdlerTypeOK, runVars
    <3>2. ASSUME NEW n \in Namespaces, CronNext(c, n)
          PROVE  IdlerTypeOK'
      BY <3>2 DEF CronNext, StartIdler, Idlers, TypeOK, IdlerTypeOK
    <3>. QED  BY <1>6, <3>1, <3>2 DEF CronStart
  <2>. QED  BY <1>6, <2>1, <2>2 DEF CronStart, TypeOK
<1>7. ASSUME NEW n \in Namespaces, Reconcile(n)
      PROVE  TypeOK'
  BY <1>7, ReconcileType
<1>8. ASSUME NEW r \in Requests, RequestWork(r)
      PROVE  TypeOK'
  BY <1>8, UnidlerWorkType
  DEF RequestWork, Unidlers, TypeOK, IdlerTypeOK, idlerVars, runVars, ControllerTypeOK,
      controllerVars
<1>9. ASSUME NEW c \in Crons, CronWork(c)
      PROVE  TypeOK'
  BY <1>9, IdlerWorkType
  DEF CronWork, Idlers, TypeOK, UnidlerTypeOK, unidlerVars, ControllerTypeOK, controllerVars
<1>10. CASE Controller
  BY <1>10, ControllerType
<1>11. CASE Informers
  <2>1. ClusterTypeOK'
    BY <1>11
    DEF Informers, SyncDeployments, SyncIngresses, SyncNamespaces, TypeOK, ClusterTypeOK,
        depVars, pageVars, nsVars
  <2>. QED  BY <1>2, <1>11, <2>1 DEF Informers, TypeOK
<1>12. CASE Kubelet
  <2>1. PICK d \in Deployments : PodUp(d) \/ PodDown(d)
    BY <1>12 DEF Kubelet
  <2>2. running' \in [Deployments -> BOOLEAN]
    BY <2>1 DEF PodUp, PodDown, TypeOK, ClusterTypeOK
  <2>3. UNCHANGED <<depVars, pageVars, nsVars>>
    BY <2>1 DEF PodUp, PodDown
  <2>4. ClusterTypeOK'
    BY <2>2, <2>3 DEF TypeOK, ClusterTypeOK, depVars, pageVars, nsVars
  <2>. QED  BY <1>2, <1>12, <2>4 DEF Kubelet, TypeOK
<1>13. CASE Restart
  BY <1>13, RestartType
<1>. QED
  BY <1>1, <1>3, <1>4, <1>5, <1>6, <1>7, <1>8, <1>9, <1>10, <1>11, <1>12, <1>13,
     <1>4a, UserAssumption
  DEF Next, Start, Work

\* Every variable keeps its type, in every interleaving of the cron firings, the
\* requests and the controller, through faults and crashes.
THEOREM TypeCorrect == Spec => []TypeOK
BY InitType, TypeStep, PTL DEF Spec

-----------------------------------------------------------------------------
(* Locks                                                                    *)

\* The controller calls Unidle directly: it is never at a step of the handler.
ControllerTakesNoLock == unidlerPc[Reconciler] \notin {"load", "store"}

LockInv == TypeOK /\ LockHasHolder /\ ControllerTakesNoLock

\* A step of one unidler: the others keep their locks, and it keeps its own until
\* it deletes the entry.
LEMMA UnidlerWorkLocks ==
  ASSUME LockInv, NEW p \in Unidlers, UnidlerWork(p)
  PROVE  LockHasHolder' /\ ControllerTakesNoLock'
<1>. USE DEF LockInv, TypeOK, UnidlerTypeOK
<1>1. CASE LoadLock(p)
  BY <1>1, UnidlerAssumption
  DEF LoadLock, Goto, Finish, LockHasHolder, Unidling, InUnidle, Unidlers,
      ControllerTakesNoLock
<1>2. CASE StoreLock(p)
  <2>1. p \in Requests
    BY <1>2 DEF StoreLock, Unidlers, ControllerTakesNoLock
  <2>. QED
    BY <1>2, <2>1, UnidlerAssumption
    DEF StoreLock, Goto, LockHasHolder, Unidling, InUnidle, Unidlers, ControllerTakesNoLock
<1>3. CASE Unlock(p)
  BY <1>3
  DEF Unlock, Goto, Finish, LockHasHolder, Unidling, InUnidle, Unidlers,
      ControllerTakesNoLock
<1>4. ASSUME unidlerPc[p] \in InUnidle, UNCHANGED <<locks, unidlerNs>>,
             \/ UNCHANGED unidlerPc
             \/ \E pc \in InUnidle : Goto(p, pc)
      PROVE  LockHasHolder' /\ ControllerTakesNoLock'
  BY <1>4
  DEF Goto, LockHasHolder, Unidling, InUnidle, Unidlers, ControllerTakesNoLock
<1>5. CASE ListWatched(p) \/ ListWatchedError(p) \/ ListPages(p) \/ ListPagesError(p)
           \/ AllStripped(p) \/ LabelUnidled(p) \/ LabelError(p)
  BY <1>4, <1>5
  DEF ListWatched, ListWatchedError, ListPages, ListPagesError, Polling, AllStripped,
      LabelUnidled, LabelError, InUnidle
<1>6. ASSUME NEW d \in Deployments,
             WakeDeployment(p, d) \/ WakeError(p, d) \/ PodReady(p, d) \/ GiveUpWaiting(p, d)
      PROVE  LockHasHolder' /\ ControllerTakesNoLock'
  BY <1>4, <1>6
  DEF WakeDeployment, WakeError, PodReady, GiveUpWaiting, Polling, InUnidle
<1>7. ASSUME NEW i \in Ingresses, StripPage(p, i) \/ StripError(p, i)
      PROVE  LockHasHolder' /\ ControllerTakesNoLock'
  BY <1>4, <1>7 DEF StripPage, StripError, InUnidle
<1>. QED
  BY <1>1, <1>2, <1>3, <1>5, <1>6, <1>7 DEF UnidlerWork

\* No lock entry is ever left behind: whatever requests race past Load, whoever
\* deletes whose entry, and wherever a call fails, a namespace with an entry has a
\* request that is still to delete it.
THEOREM LocksHeldByRequests == Spec => []LockHasHolder
<1>1. Init => LockHasHolder /\ ControllerTakesNoLock
  BY DEF Init, UnidlerInit, LockHasHolder, ControllerTakesNoLock, Unidlers
<1>2. ASSUME LockInv, [Next]_vars
      PROVE  LockHasHolder' /\ ControllerTakesNoLock'
  <2>. USE <1>2
  <2>1. ASSUME UNCHANGED <<locks, unidlerPc, unidlerNs>>
        PROVE  LockHasHolder' /\ ControllerTakesNoLock'
    BY <2>1 DEF LockInv, LockHasHolder, Unidling, ControllerTakesNoLock
  <2>2. CASE UNCHANGED vars
    BY <2>1, <2>2 DEF vars, processVars, unidlerVars
  <2>3. ASSUME NEW n \in Namespaces, NEW c \in Commands, PostCommand(n, c)
        PROVE  LockHasHolder' /\ ControllerTakesNoLock'
    BY <2>1, <2>3 DEF PostCommand, processVars, unidlerVars
  <2>4. ASSUME NEW d \in Deployments, NEW count \in 1 .. MaxReplicas, Rescale(d, count)
        PROVE  LockHasHolder' /\ ControllerTakesNoLock'
    BY <2>1, <2>4 DEF Rescale, processVars, unidlerVars
  <2>4a. ASSUME NEW i \in Ingresses, NEW r \in Routers, NEW items \in SUBSET UserItems,
                Annotate(i, r, items)
         PROVE  LockHasHolder' /\ ControllerTakesNoLock'
    BY <2>1, <2>4a DEF Annotate, processVars, unidlerVars
  <2>5. ASSUME NEW r \in Requests, NEW n \in Namespaces, Request(r, n)
        PROVE  LockHasHolder' /\ ControllerTakesNoLock'
    BY <2>5, UnidlerAssumption
    DEF Request, ReceiveRequest, Goto, LockInv, TypeOK, UnidlerTypeOK, Unidlers,
        LockHasHolder, Unidling, InUnidle, ControllerTakesNoLock
  <2>6. ASSUME NEW c \in Crons, CronStart(c) \/ CronWork(c)
        PROVE  LockHasHolder' /\ ControllerTakesNoLock'
    BY <2>1, <2>6 DEF CronStart, CronWork, unidlerVars
  <2>7. ASSUME NEW n \in Namespaces, Reconcile(n)
        PROVE  LockHasHolder' /\ ControllerTakesNoLock'
    <3>1. CASE ReconcileNothing(n) \/ ReconcileForce(n)
      BY <2>1, <3>1 DEF ReconcileNothing, ReconcileForce, unidlerVars
    <3>2. CASE ReconcileUnidle(n)
      BY <3>2, UnidlerAssumption
      DEF ReconcileUnidle, Goto, LockInv, TypeOK, UnidlerTypeOK, Unidlers,
          LockHasHolder, Unidling, InUnidle, ControllerTakesNoLock
    <3>. QED  BY <2>7, <3>1, <3>2 DEF Reconcile, StartReconcile
  <2>8. ASSUME NEW r \in Requests, RequestWork(r)
        PROVE  LockHasHolder' /\ ControllerTakesNoLock'
    BY <2>8, UnidlerWorkLocks DEF RequestWork, Unidlers
  <2>9. CASE Controller
    <3>1. CASE UnidlerWork(Reconciler)
      BY <3>1, UnidlerWorkLocks DEF Unidlers
    <3>2. CASE UNCHANGED unidlerVars
      BY <2>1, <3>2 DEF unidlerVars
    <3>. QED
      BY <2>9, <3>1, <3>2 DEF Controller, ControllerWork, ClearCommand, ClearError
  <2>10. CASE Informers \/ Kubelet
    BY <2>1, <2>10 DEF Informers, Kubelet, processVars, unidlerVars
  <2>11. CASE Restart
    BY <2>11 DEF Restart, LockHasHolder, ControllerTakesNoLock, Unidlers
  <2>. QED
    BY <2>2, <2>3, <2>4, <2>4a, <2>5, <2>6, <2>7, <2>8, <2>9, <2>10, <2>11, UserAssumption
    DEF Next, Start, Work
<1>. QED
  BY <1>1, <1>2, TypeCorrect, PTL DEF Spec, LockInv

-----------------------------------------------------------------------------
(* Deployments at zero                                                      *)

\* What a deployment may be changed to: at zero it has the labels Unidle selects.
LEMMA SetDepRecoverable ==
  ASSUME TypeOK, Recoverable, NEW d \in Deployments, NEW value, SetDep(d, value),
         value.replicas = 0 => value.watch /\ value.idled
  PROVE  Recoverable'
BY DEF TypeOK, ClusterTypeOK, Recoverable, SetDep

LEMMA IdlerWorkRecoverable ==
  ASSUME TypeOK, Recoverable, NEW p \in Idlers, IdlerWork(p)
  PROVE  Recoverable'
<1>1. ASSUME UNCHANGED dep
      PROVE  Recoverable'
  BY <1>1 DEF Recoverable
<1>2. ASSUME NEW d \in Deployments, IdleDeployment(p, d)
      PROVE  Recoverable'
  BY <1>2, SetDepRecoverable DEF IdleDeployment, IdledBy
<1>3. ASSUME NEW d \in Deployments, SkipDeployment(p, d)
      PROVE  Recoverable'
  BY <1>1, <1>3 DEF SkipDeployment, clusterVars
<1>4. ASSUME NEW i \in Ingresses, PatchIngress(p, i)
      PROVE  Recoverable'
  BY <1>1, <1>4 DEF PatchIngress, depVars
<1>. QED
  BY <1>1, <1>2, <1>3, <1>4
  DEF IdlerWork, BuildRunning, ListDeployments, NotIdle, DecideToPatch, DecideToScale, Decide,
      LabelIdled, IdlerError, AllScaled, clusterVars, depVars

LEMMA UnidlerWorkRecoverable ==
  ASSUME TypeOK, Recoverable, NEW p \in Unidlers, UnidlerWork(p)
  PROVE  Recoverable'
<1>1. ASSUME UNCHANGED dep
      PROVE  Recoverable'
  BY <1>1 DEF Recoverable
<1>2. ASSUME NEW d \in Deployments, WakeDeployment(p, d)
      PROVE  Recoverable'
  <2>1. AwakeDeployment(p, d).replicas # 0
    BY <1>2 DEF WakeDeployment, AwakeDeployment, TypeOK, UnidlerTypeOK
  <2>. QED
    BY <1>2, <2>1, SetDepRecoverable DEF WakeDeployment
<1>3. ASSUME NEW d \in Deployments, WakeError(p, d) \/ PodReady(p, d) \/ GiveUpWaiting(p, d)
      PROVE  Recoverable'
  BY <1>1, <1>3 DEF WakeError, PodReady, GiveUpWaiting, clusterVars
<1>4. ASSUME NEW i \in Ingresses, StripPage(p, i) \/ StripError(p, i)
      PROVE  Recoverable'
  BY <1>1, <1>4 DEF StripPage, StripError, clusterVars, depVars
<1>. QED
  BY <1>1, <1>2, <1>3, <1>4
  DEF UnidlerWork, LoadLock, StoreLock, ListWatched, ListWatchedError, ListPages,
      ListPagesError, AllStripped, LabelUnidled, LabelError, Unlock, clusterVars, depVars

\* A deployment at zero replicas is always one Unidle finds: idlers and unidlers
\* that race on it, faults and crashes never separate its count from its labels.
THEOREM ZeroIsRecoverable == Spec => []Recoverable
<1>1. Init => Recoverable
  BY DEF Init, ClusterInit, InitialCluster, AsleepDeployment, FreshDeployment, Recoverable
<1>2. ASSUME TypeOK, Recoverable, [Next]_vars
      PROVE  Recoverable'
  <2>. USE <1>2
  <2>1. ASSUME UNCHANGED dep
        PROVE  Recoverable'
    BY <2>1 DEF Recoverable
  <2>2. CASE UNCHANGED vars
    BY <2>1, <2>2 DEF vars, clusterVars
  <2>3. ASSUME NEW n \in Namespaces, NEW c \in Commands, PostCommand(n, c)
        PROVE  Recoverable'
    BY <2>1, <2>3 DEF PostCommand, depVars
  <2>4. ASSUME NEW d \in Deployments, NEW count \in 1 .. MaxReplicas, Rescale(d, count)
        PROVE  Recoverable'
    BY <2>4, SetDepRecoverable, TopologyAssumption DEF Rescale
  <2>4a. ASSUME NEW i \in Ingresses, NEW r \in Routers, NEW items \in SUBSET UserItems,
                Annotate(i, r, items)
         PROVE  Recoverable'
    BY <2>1, <2>4a DEF Annotate, depVars
  <2>5. ASSUME NEW r \in Requests, NEW n \in Namespaces, Request(r, n)
        PROVE  Recoverable'
    BY <2>1, <2>5 DEF Request, ReceiveRequest, clusterVars
  <2>6. ASSUME NEW c \in Crons, CronStart(c)
        PROVE  Recoverable'
    BY <2>1, <2>6 DEF CronStart, CronTick, CronNext, clusterVars
  <2>7. ASSUME NEW n \in Namespaces, Reconcile(n)
        PROVE  Recoverable'
    BY <2>1, <2>7
    DEF Reconcile, StartReconcile, ReconcileNothing, ReconcileForce, ReconcileUnidle, Take,
        depVars
  <2>8. ASSUME NEW r \in Requests, RequestWork(r)
        PROVE  Recoverable'
    BY <2>8, UnidlerWorkRecoverable DEF RequestWork, Unidlers
  <2>9. ASSUME NEW c \in Crons, CronWork(c)
        PROVE  Recoverable'
    BY <2>9, IdlerWorkRecoverable DEF CronWork, Idlers
  <2>10. CASE Controller
    BY <2>1, <2>10, IdlerWorkRecoverable, UnidlerWorkRecoverable
    DEF Controller, ControllerWork, ClearCommand, ClearError, Idlers, Unidlers, clusterVars,
        depVars
  <2>11. CASE Informers \/ Kubelet \/ Restart
    BY <2>1, <2>11
    DEF Informers, SyncDeployments, SyncIngresses, SyncNamespaces, Kubelet, PodUp, PodDown,
        Restart, depVars
  <2>. QED
    BY <2>2, <2>3, <2>4, <2>4a, <2>5, <2>6, <2>7, <2>8, <2>9, <2>10, <2>11, UserAssumption
    DEF Next, Start, Work
<1>. QED
  BY <1>1, <1>2, TypeCorrect, PTL DEF Spec

-----------------------------------------------------------------------------
(* Commands                                                                 *)

\* The cache of a namespace is what the API server holds, unless an event of it is
\* still to be delivered.
NamespaceCacheFresh == \A n \in Namespaces : n \notin unseen => nsCache[n] = ns[n]

CommandInv == TypeOK /\ NamespaceCacheFresh

\* No command is forgotten that was not forgotten before.
NoneForgotten == \A n \in Namespaces : Forgotten(n)' => Forgotten(n)

LEMMA SetNsCommands ==
  ASSUME CommandInv, NEW n \in Namespaces, NEW value \in Namespace, SetNs(n, value),
         UNCHANGED <<handling, handlingNs>> \/ (handling # "none" /\ handlingNs = n)
  PROVE  NoneForgotten /\ NamespaceCacheFresh'
<1>1. /\ ns' = [ns EXCEPT ![n] = value]
      /\ n \in queued' \cup unseen'
      /\ queued \subseteq queued' /\ unseen \subseteq unseen'
  BY DEF SetNs
<1>2. NoneForgotten
  <2>. SUFFICES ASSUME NEW m \in Namespaces, Forgotten(m)'
                PROVE  Forgotten(m)
    BY DEF NoneForgotten
  <2>1. m # n /\ ns'[m] = ns[m]
    BY <1>1 DEF CommandInv, TypeOK, ClusterTypeOK, Forgotten
  <2>. QED  BY <1>1, <2>1 DEF Forgotten
<1>3. NamespaceCacheFresh'
  BY DEF CommandInv, TypeOK, ClusterTypeOK, NamespaceCacheFresh, SetNs
<1>. QED  BY <1>2, <1>3

LEMMA CommandsUnchanged ==
  ASSUME CommandInv, UNCHANGED <<nsVars, controllerVars>>
  PROVE  NoneForgotten /\ NamespaceCacheFresh'
BY DEF CommandInv, nsVars, controllerVars, NoneForgotten, Forgotten, NamespaceCacheFresh

LEMMA IdlerWorkCommands ==
  ASSUME CommandInv, NEW p \in Idlers, IdlerWork(p), UNCHANGED controllerVars
  PROVE  NoneForgotten /\ NamespaceCacheFresh'
<1>1. CASE LabelIdled(p)
  <2>1. /\ idlerNs[p] \in Namespaces
        /\ [idled |-> TRUE, commands |-> ns[idlerNs[p]].commands] \in Namespace
    BY DEF CommandInv, TypeOK, ClusterTypeOK, IdlerTypeOK, Namespace
  <2>. QED  BY <1>1, <2>1, SetNsCommands DEF LabelIdled, controllerVars
<1>2. ASSUME NEW d \in Deployments, IdleDeployment(p, d) \/ SkipDeployment(p, d)
      PROVE  UNCHANGED nsVars
  BY <1>2 DEF IdleDeployment, SkipDeployment, clusterVars, nsVars
<1>3. ASSUME NEW i \in Ingresses, PatchIngress(p, i)
      PROVE  UNCHANGED nsVars
  BY <1>3 DEF PatchIngress
<1>4. CASE UNCHANGED nsVars
  BY <1>4, CommandsUnchanged
<1>. QED
  BY <1>1, <1>2, <1>3, <1>4
  DEF IdlerWork, BuildRunning, ListDeployments, NotIdle, DecideToPatch, DecideToScale, Decide,
      IdlerError, AllScaled, clusterVars, nsVars

LEMMA UnidlerWorkCommands ==
  ASSUME CommandInv, NEW p \in Unidlers, UnidlerWork(p), UNCHANGED controllerVars
  PROVE  NoneForgotten /\ NamespaceCacheFresh'
<1>1. CASE LabelUnidled(p)
  <2>1. /\ unidlerNs[p] \in Namespaces
        /\ [idled |-> FALSE, commands |-> ns[unidlerNs[p]].commands] \in Namespace
    BY DEF CommandInv, TypeOK, ClusterTypeOK, UnidlerTypeOK, Namespace
  <2>. QED  BY <1>1, <2>1, SetNsCommands DEF LabelUnidled, controllerVars
<1>2. ASSUME NEW d \in Deployments,
             WakeDeployment(p, d) \/ WakeError(p, d) \/ PodReady(p, d) \/ GiveUpWaiting(p, d)
      PROVE  UNCHANGED nsVars
  BY <1>2 DEF WakeDeployment, WakeError, PodReady, GiveUpWaiting, clusterVars, nsVars
<1>3. ASSUME NEW i \in Ingresses, StripPage(p, i) \/ StripError(p, i)
      PROVE  UNCHANGED nsVars
  BY <1>3 DEF StripPage, StripError, clusterVars, nsVars
<1>4. CASE UNCHANGED nsVars
  BY <1>4, CommandsUnchanged
<1>. QED
  BY <1>1, <1>2, <1>3, <1>4
  DEF UnidlerWork, LoadLock, StoreLock, ListWatched, ListWatchedError, ListPages,
      ListPagesError, AllStripped, LabelError, Unlock, clusterVars, nsVars

\* Only a patch that fails leaves a command behind that nothing is to carry out.
LEMMA CommandStep ==
  ASSUME CommandInv, [Next]_vars
  PROVE  /\ NamespaceCacheFresh'
         /\ \A n \in Namespaces : Forgotten(n)' =>
                Forgotten(n) \/ (ClearError /\ n = handlingNs)
<1>1. ASSUME UNCHANGED vars
      PROVE  NoneForgotten /\ NamespaceCacheFresh'
  BY <1>1, CommandsUnchanged DEF vars, clusterVars, processVars, nsVars
<1>2. ASSUME NEW n \in Namespaces, NEW c \in Commands, PostCommand(n, c)
      PROVE  NoneForgotten /\ NamespaceCacheFresh'
  <2>1. [idled |-> ns[n].idled, commands |-> ns[n].commands \cup {c}] \in Namespace
    BY DEF CommandInv, TypeOK, ClusterTypeOK, Namespace
  <2>. QED
    BY <1>2, <2>1, SetNsCommands DEF PostCommand, processVars, controllerVars
<1>3. ASSUME NEW d \in Deployments, NEW count \in 1 .. MaxReplicas, Rescale(d, count)
      PROVE  NoneForgotten /\ NamespaceCacheFresh'
  BY <1>3, CommandsUnchanged DEF Rescale, processVars
<1>3a. ASSUME NEW i \in Ingresses, NEW r \in Routers, NEW items \in SUBSET UserItems,
              Annotate(i, r, items)
       PROVE  NoneForgotten /\ NamespaceCacheFresh'
  BY <1>3a, CommandsUnchanged DEF Annotate, processVars
<1>4. ASSUME NEW r \in Requests, NEW n \in Namespaces, Request(r, n)
      PROVE  NoneForgotten /\ NamespaceCacheFresh'
  BY <1>4, CommandsUnchanged DEF Request, ReceiveRequest, clusterVars, nsVars
<1>5. ASSUME NEW c \in Crons, CronStart(c)
      PROVE  NoneForgotten /\ NamespaceCacheFresh'
  BY <1>5, CommandsUnchanged DEF CronStart, CronTick, CronNext, clusterVars, nsVars
<1>6. ASSUME NEW n \in Namespaces, Reconcile(n)
      PROVE  NoneForgotten /\ NamespaceCacheFresh'
  <2>1. Take(n)
    BY <1>6
    DEF Reconcile, StartReconcile, ReconcileNothing, ReconcileForce, ReconcileUnidle
  <2>2. NamespaceCacheFresh'
    BY <2>1 DEF Take, CommandInv, NamespaceCacheFresh
  <2>3. CASE ReconcileNothing(n)
    <3>1. nsCache[n].commands = {}
      BY <2>3
      DEF ReconcileNothing, FirstCommand, CommandInv, TypeOK, ClusterTypeOK, Namespace,
          Commands
    <3>2. n \in unseen \/ ns[n].commands = {}
      BY <3>1 DEF CommandInv, NamespaceCacheFresh
    <3>3. UNCHANGED <<ns, unseen, controllerVars>> /\ queued' = queued \ {n}
      BY <2>3 DEF ReconcileNothing, Take
    <3>4. NoneForgotten
      BY <3>2, <3>3 DEF NoneForgotten, Forgotten, controllerVars
    <3>. QED  BY <2>2, <3>4
  <2>4. CASE ReconcileForce(n) \/ ReconcileUnidle(n)
    <3>1. handling' # "none" /\ handlingNs' = n
      BY <2>4 DEF ReconcileForce, ReconcileUnidle
    <3>2. NoneForgotten
      BY <2>1, <3>1 DEF Take, NoneForgotten, Forgotten
    <3>. QED  BY <2>2, <3>2
  <2>. QED  BY <1>6, <2>3, <2>4 DEF Reconcile, StartReconcile
<1>7. ASSUME NEW r \in Requests, RequestWork(r)
      PROVE  NoneForgotten /\ NamespaceCacheFresh'
  BY <1>7, UnidlerWorkCommands DEF RequestWork, Unidlers
<1>8. ASSUME NEW c \in Crons, CronWork(c)
      PROVE  NoneForgotten /\ NamespaceCacheFresh'
  BY <1>8, IdlerWorkCommands DEF CronWork, Idlers
<1>9. ASSUME ControllerWork, ~ClearError
      PROVE  NoneForgotten /\ NamespaceCacheFresh'
  <2>1. CASE IdlerWork(Reconciler) /\ UNCHANGED controllerVars
    BY <2>1, IdlerWorkCommands DEF Idlers
  <2>2. CASE UnidlerWork(Reconciler) /\ UNCHANGED controllerVars
    BY <2>2, UnidlerWorkCommands DEF Unidlers
  <2>3. CASE ClearCommand
    <3>1. /\ handlingNs \in Namespaces
          /\ [idled |-> ns[handlingNs].idled,
              commands |-> ns[handlingNs].commands \ {handling}] \in Namespace
      BY DEF CommandInv, TypeOK, ClusterTypeOK, ControllerTypeOK, Namespace
    <3>. QED
      BY <2>3, <3>1, SetNsCommands DEF ClearCommand, HandlerReturned
  <2>. QED
    BY <1>9, <2>1, <2>2, <2>3 DEF ControllerWork
<1>9a. ASSUME ClearError
       PROVE  /\ NamespaceCacheFresh'
              /\ \A n \in Namespaces : Forgotten(n)' => Forgotten(n) \/ n = handlingNs
  <2>1. UNCHANGED <<ns, nsCache, queued, unseen>>
    BY <1>9a DEF ClearError, clusterVars
  <2>. QED  BY <2>1 DEF CommandInv, NamespaceCacheFresh, Forgotten
<1>10. ASSUME Informers
       PROVE  NoneForgotten /\ NamespaceCacheFresh'
  <2>1. CASE SyncNamespaces
    <3>1. /\ UNCHANGED <<ns, handling, handlingNs>> /\ nsCache' = ns
          /\ queued' = queued \cup unseen /\ unseen' = {}
      BY <1>10, <2>1 DEF SyncNamespaces, Informers, processVars, controllerVars
    <3>. QED  BY <3>1 DEF NoneForgotten, Forgotten, NamespaceCacheFresh
  <2>. QED
    BY <1>10, <2>1, CommandsUnchanged
    DEF Informers, SyncDeployments, SyncIngresses, processVars
<1>11. ASSUME Kubelet
       PROVE  NoneForgotten /\ NamespaceCacheFresh'
  BY <1>11, CommandsUnchanged DEF Kubelet, PodUp, PodDown, processVars
<1>12. ASSUME Restart
       PROVE  NoneForgotten /\ NamespaceCacheFresh'
  BY <1>12 DEF Restart, NoneForgotten, Forgotten, NamespaceCacheFresh
<1>13. NamespaceCacheFresh' /\ (NoneForgotten \/ ClearError)
  BY <1>1, <1>2, <1>3, <1>3a, <1>4, <1>5, <1>6, <1>7, <1>8, <1>9, <1>9a, <1>10, <1>11, <1>12,
     UserAssumption
  DEF Next, Start, Work, Controller
<1>. QED
  BY <1>9a, <1>13 DEF NoneForgotten

LEMMA CommandInit == Init => CommandTracked /\ NamespaceCacheFresh
  BY DEF Init, ClusterInit, CommandTracked, Forgotten, NamespaceCacheFresh

\* While patches succeed, a posted command is never lost: through the informer, the
\* queue and the worker it is always somewhere, crashes included.
THEOREM CommandsAreTracked ==
  ASSUME ~Faulty
  PROVE  Spec => []CommandTracked
<1>1. ASSUME CommandInv, CommandTracked, [Next]_vars
      PROVE  CommandTracked' /\ NamespaceCacheFresh'
  BY <1>1, CommandStep DEF CommandTracked, ClearError
<1>. QED
  BY <1>1, CommandInit, TypeCorrect, PTL DEF Spec, CommandInv

\* When patches fail: of the many calls of a reconcile, one alone leaves a command
\* without anybody to carry it out, the patch that removes a label; neither a handler
\* that fails, nor a crash, nor an event that is late.
THEOREM OnlyErrorsForget == Spec => ForgottenByErrorOnly
<1>1. ASSUME CommandInv, [Next]_vars
      PROVE  /\ NamespaceCacheFresh'
             /\ [\A n \in Namespaces : ~Forgotten(n) /\ Forgotten(n)' =>
                     ClearError /\ n = handlingNs]_vars
  BY <1>1, CommandStep
<1>. QED
  BY <1>1, CommandInit, TypeCorrect, PTL DEF Spec, CommandInv, ForgottenByErrorOnly

-----------------------------------------------------------------------------
(* Pages before scaling                                                     *)

\* Nobody unidles: no command asks for it, and the worker is not at it.
NobodyUnidles ==
    /\ unidlerPc[Reconciler] = "off"
    /\ \A n \in Namespaces : "unidle" \notin ns[n].commands \cup nsCache[n].commands

\* Once patchIngress is past an ingress its page is up, and a run that has
\* deployments to scale is past them all.
PagesPatched ==
    \A p \in Idlers :
        /\ idlerPc[p] = "patch" => \A i \in SelectedOf(idlerNs[p]) \ toPatch[p] : Paged(i)
        /\ idlerPc[p] = "scale" =>
               \A d \in toScale[p] : \A i \in SelectedOf(NamespaceOf[d]) : Paged(i)

DarkInv == TypeOK /\ NobodyUnidles /\ PagesPatched /\ NoDarkEnvironment

\* Pages only go up, counts only reach zero under a page, and each run is where it
\* was: the invariant holds on.
LEMMA PagesKept ==
  ASSUME DarkInv,
         \A i \in Ingresses : Paged(i) => Paged(i)',
         \A d \in Deployments : dep'[d].replicas = 0 => dep[d].replicas = 0,
         UNCHANGED runVars
  PROVE  PagesPatched' /\ NoDarkEnvironment'
<1>1. PagesPatched'
  BY DEF DarkInv, PagesPatched, SelectedOf, IngressesOf, runVars
<1>2. NoDarkEnvironment'
  BY DEF DarkInv, NoDarkEnvironment, Down, DeploymentsOf, SelectedOf, IngressesOf
<1>. QED  BY <1>1, <1>2

LEMMA SetNsNobodyUnidles ==
  ASSUME DarkInv, NEW n \in Namespaces, NEW value, SetNs(n, value),
         "unidle" \notin value.commands, UNCHANGED unidlerPc
  PROVE  NobodyUnidles'
BY DEF DarkInv, TypeOK, ClusterTypeOK, NobodyUnidles, SetNs

\* A step of one run of the idler, whoever else is at work.
LEMMA IdlerWorkPages ==
  ASSUME TypeOK, PagesPatched, NoDarkEnvironment, "ingress" \notin Skip,
         NEW p \in Idlers, IdlerWork(p)
  PROVE  PagesPatched' /\ NoDarkEnvironment'
<1>. USE DEF TypeOK, IdlerTypeOK
<1>1. ASSUME UNCHANGED <<dep, page>>
      PROVE  NoDarkEnvironment'
  BY <1>1 DEF Paged, NoDarkEnvironment, Down
<1>2. CASE BuildRunning(p) \/ NotIdle(p) \/ IdlerError(p) \/ AllScaled(p)
  <2>1. Return(p) /\ UNCHANGED clusterVars
    BY <1>2 DEF BuildRunning, NotIdle, IdlerError, AllScaled
  <2>2. PagesPatched'
    BY <2>1 DEF Paged, Return, PagesPatched, clusterVars
  <2>. QED  BY <1>1, <2>1, <2>2 DEF clusterVars
<1>3. CASE ListDeployments(p)
  <2>1. PagesPatched'
    BY <1>3 DEF Paged, ListDeployments, PagesPatched, clusterVars
  <2>. QED  BY <1>1, <1>3, <2>1 DEF ListDeployments, clusterVars
<1>4. CASE DecideToPatch(p)
  <2>1. SelectedOf(idlerNs[p]) \ IngressesToPatch(idlerNs[p]) = {}
    BY <1>4 DEF DecideToPatch, IngressesToPatch, Targets
  <2>2. PagesPatched'
    BY <1>4, <2>1 DEF Paged, DecideToPatch, Decide, PagesPatched, clusterVars
  <2>. QED  BY <1>1, <1>4, <2>2 DEF DecideToPatch, Decide, clusterVars
<1>5. CASE DecideToScale(p)
  <2>1. Targets(DeploymentsOf(idlerNs[p])) = {} \/ SelectedOf(idlerNs[p]) = {}
    BY <1>5 DEF DecideToScale, IngressesToPatch, Targets
  <2>2. PagesPatched'
    BY <1>5, <2>1
    DEF Paged, DecideToScale, Decide, PagesPatched, Targets, DeploymentsOf, clusterVars
  <2>. QED  BY <1>1, <1>5, <2>2 DEF DecideToScale, Decide, clusterVars
<1>6. ASSUME NEW i \in Ingresses, PatchIngress(p, i)
      PROVE  PagesPatched' /\ NoDarkEnvironment'
  <2>1. UNCHANGED dep
    BY <1>6 DEF PatchIngress, depVars
  <2>2. \A j \in Ingresses : Paged(j)' <=> j = i \/ Paged(j)
    <3>1. page' = [page EXCEPT ![i] = [r \in Routers |-> AddStatusCode(patchFrom[p][i][r])]]
      BY <1>6 DEF PatchIngress, SetPage
    <3>2. \A r \in Routers : Ours \in AddStatusCode(patchFrom[p][i][r])
      BY DEF AddStatusCode
    <3>. QED  BY <3>1, <3>2 DEF Paged, ClusterTypeOK
  <2>3. PagesPatched'
    BY <1>6, <2>2 DEF PatchIngress, PagesPatched, SelectedOf, IngressesOf
  <2>4. NoDarkEnvironment'
    BY <2>1, <2>2 DEF NoDarkEnvironment, Down, SelectedOf, IngressesOf
  <2>. QED  BY <2>1, <2>3, <2>4
<1>7. CASE LabelIdled(p)
  <2>1. PagesPatched'
    BY <1>7 DEF Paged, LabelIdled, PagesPatched, pageVars, DeploymentsOf
  <2>. QED  BY <1>1, <1>7, <2>1 DEF LabelIdled, pageVars, depVars
<1>8. ASSUME NEW d \in Deployments, IdleDeployment(p, d)
      PROVE  PagesPatched' /\ NoDarkEnvironment'
  <2>1. /\ \A i \in SelectedOf(NamespaceOf[d]) : Paged(i)
        /\ dep' = [dep EXCEPT ![d] = IdledBy(p, d)]
        /\ UNCHANGED page
    BY <1>8 DEF IdleDeployment, PagesPatched, SetDep, pageVars
  <2>2. PagesPatched'
    BY <1>8, <2>1 DEF Paged, IdleDeployment, PagesPatched
  <2>3. NoDarkEnvironment'
    BY <2>1 DEF Paged, NoDarkEnvironment, Down, DeploymentsOf, ClusterTypeOK
  <2>. QED  BY <2>1, <2>2, <2>3
<1>9. ASSUME NEW d \in Deployments, SkipDeployment(p, d)
       PROVE  PagesPatched' /\ NoDarkEnvironment'
  <2>1. PagesPatched'
    BY <1>9 DEF Paged, SkipDeployment, PagesPatched, clusterVars
  <2>. QED  BY <1>1, <1>9, <2>1 DEF SkipDeployment, clusterVars
<1>. QED
  BY <1>2, <1>3, <1>4, <1>5, <1>6, <1>7, <1>8, <1>9 DEF IdlerWork

\* No run of the idler asks for unidling.
LEMMA IdlerWorkNobodyUnidles ==
  ASSUME DarkInv, NEW p \in Idlers, IdlerWork(p), UNCHANGED unidlerVars
  PROVE  NobodyUnidles'
<1>1. CASE LabelIdled(p)
  BY <1>1, SetNsNobodyUnidles
  DEF LabelIdled, DarkInv, TypeOK, IdlerTypeOK, NobodyUnidles, unidlerVars
<1>2. CASE UNCHANGED nsVars
  BY <1>2 DEF DarkInv, NobodyUnidles, nsVars, unidlerVars
<1>3. ASSUME NEW d \in Deployments, IdleDeployment(p, d) \/ SkipDeployment(p, d)
      PROVE  UNCHANGED nsVars
  BY <1>3 DEF IdleDeployment, SkipDeployment, clusterVars, nsVars
<1>4. ASSUME NEW i \in Ingresses, PatchIngress(p, i)
      PROVE  UNCHANGED nsVars
  BY <1>4 DEF PatchIngress
<1>. QED
  BY <1>1, <1>2, <1>3, <1>4
  DEF IdlerWork, BuildRunning, ListDeployments, NotIdle, DecideToPatch, DecideToScale, Decide,
      IdlerError, AllScaled, clusterVars, nsVars

\* Every initial environment that sleeps has its pages.
LEMMA DarkInit == Init => NoDarkEnvironment
<1>. SUFFICES ASSUME Init PROVE NoDarkEnvironment
  OBVIOUS
<1>. PICK asleep \in SUBSET Namespaces,
          count \in [Deployments -> 1 .. MaxReplicas],
          target \in [Deployments -> 0 .. MaxReplicas],
          items \in [Ingresses -> [Routers -> SUBSET UserItems]] :
       InitialCluster(asleep, count, target, items)
  BY Zenon DEF Init, ClusterInit
<1>1. ASSUME NEW d \in Deployments, dep[d].replicas = 0
      PROVE  NamespaceOf[d] \in asleep
  <2>. USE DEF InitialCluster
  <2>1. NamespaceOf[d] \notin asleep => dep[d] = FreshDeployment(count[d])
    OBVIOUS
  <2>2. FreshDeployment(count[d]).replicas = count[d] /\ count[d] # 0
    BY DEF FreshDeployment
  <2>. QED  BY <1>1, <2>1, <2>2
<1>2. ASSUME NEW n \in asleep, NEW i \in SelectedOf(n)
      PROVE  Paged(i)
  BY <1>2 DEF InitialCluster, SelectedOf, IngressesOf, Paged
<1>. QED
  BY <1>1, <1>2 DEF NoDarkEnvironment, Down, DeploymentsOf

\* As long as nobody unidles, idling never leaves an environment dark: however cron
\* firings and forced runs overlap, whatever fails and wherever the process dies, a
\* deployment reaches zero only under the pages of its namespace.
THEOREM IdlingIsNeverDark ==
  ASSUME Requests = {}, "unidle" \notin Postable, "ingress" \notin Skip
  PROVE  Spec => []NoDarkEnvironment
<1>1. Init => NobodyUnidles /\ PagesPatched /\ NoDarkEnvironment
  <2>. SUFFICES ASSUME Init PROVE NobodyUnidles /\ PagesPatched /\ NoDarkEnvironment
    OBVIOUS
  <2>1. NobodyUnidles
    BY DEF Init, ClusterInit, InitialCluster, UnidlerInit, NobodyUnidles, Unidlers
  <2>2. PagesPatched
    BY DEF Init, IdlerInit, PagesPatched
  <2>3. NoDarkEnvironment
    BY DarkInit
  <2>. QED  BY <2>1, <2>2, <2>3
<1>2. ASSUME DarkInv, [Next]_vars
      PROVE  NobodyUnidles' /\ PagesPatched' /\ NoDarkEnvironment'
  <2>. USE <1>2
  <2>1. ASSUME UNCHANGED <<page, dep, runVars>>
        PROVE  PagesPatched' /\ NoDarkEnvironment'
    BY <2>1, PagesKept DEF Paged
  <2>2. ASSUME UNCHANGED <<nsVars, unidlerPc>>
        PROVE  NobodyUnidles'
    BY <2>2 DEF DarkInv, NobodyUnidles, nsVars
  <2>3. CASE UNCHANGED vars
    BY <2>1, <2>2, <2>3 DEF vars, clusterVars, processVars, idlerVars, unidlerVars, nsVars
  <2>4. ASSUME NEW n \in Namespaces, NEW c \in Commands, PostCommand(n, c)
        PROVE  NobodyUnidles' /\ PagesPatched' /\ NoDarkEnvironment'
    <3>1. NobodyUnidles'
      <4>1. "unidle" \notin ns[n].commands \cup {c} /\ UNCHANGED unidlerPc
        BY <2>4 DEF PostCommand, DarkInv, NobodyUnidles, processVars, unidlerVars
      <4>. QED  BY <2>4, <4>1, SetNsNobodyUnidles DEF PostCommand
    <3>. QED  BY <2>1, <2>4, <3>1 DEF PostCommand, depVars, pageVars, processVars, idlerVars
  <2>5. ASSUME NEW d \in Deployments, NEW count \in 1 .. MaxReplicas, Rescale(d, count)
        PROVE  NobodyUnidles' /\ PagesPatched' /\ NoDarkEnvironment'
    <3>1. \A e \in Deployments : dep'[e].replicas = 0 => dep[e].replicas = 0
      BY <2>5, TopologyAssumption DEF Rescale, SetDep, DarkInv, TypeOK, ClusterTypeOK
    <3>. QED
      BY <2>2, <2>5, <3>1, PagesKept
      DEF Paged, Rescale, pageVars, processVars, idlerVars, unidlerVars
  <2>5a. ASSUME NEW i \in Ingresses, NEW r \in Routers, NEW items \in SUBSET UserItems,
                Annotate(i, r, items)
         PROVE  NobodyUnidles' /\ PagesPatched' /\ NoDarkEnvironment'
    <3>1. \A j \in Ingresses : Paged(j) => Paged(j)'
      BY <2>5a DEF Annotate, SetPage, Paged, DarkInv, TypeOK, ClusterTypeOK, Page
    <3>. QED
      BY <2>2, <2>5a, <3>1, PagesKept
      DEF Annotate, depVars, processVars, idlerVars, unidlerVars
  <2>6. ASSUME NEW c \in Crons, CronStart(c)
        PROVE  NobodyUnidles' /\ PagesPatched' /\ NoDarkEnvironment'
    <3>1. CASE CronTick(c)
      BY <2>1, <2>2, <2>6, <3>1 DEF CronStart, CronTick, clusterVars, nsVars, unidlerVars
    <3>2. ASSUME NEW n \in Namespaces, CronNext(c, n)
          PROVE  NobodyUnidles' /\ PagesPatched' /\ NoDarkEnvironment'
      <4>1. PagesPatched'
        BY <3>2
        DEF Paged, CronNext, StartIdler, DarkInv, TypeOK, IdlerTypeOK, Idlers, PagesPatched,
            clusterVars
      <4>2. NoDarkEnvironment'
        BY <3>2 DEF Paged, CronNext, clusterVars, DarkInv, NoDarkEnvironment, Down
      <4>. QED  BY <2>2, <2>6, <3>2, <4>1, <4>2 DEF CronStart, CronNext, clusterVars, nsVars, unidlerVars
    <3>. QED  BY <2>6, <3>1, <3>2 DEF CronStart
  <2>7. ASSUME NEW n \in Namespaces, Reconcile(n)
        PROVE  NobodyUnidles' /\ PagesPatched' /\ NoDarkEnvironment'
    <3>1. Take(n) /\ ~ReconcileUnidle(n)
      BY <2>7
      DEF Reconcile, StartReconcile, ReconcileNothing, ReconcileForce, ReconcileUnidle,
          FirstCommand, DarkInv, NobodyUnidles
    <3>2. UNCHANGED unidlerPc
      BY <2>7, <3>1 DEF Reconcile, StartReconcile, ReconcileNothing, ReconcileForce, unidlerVars
    <3>3. NobodyUnidles'
      BY <3>1, <3>2 DEF Take, DarkInv, NobodyUnidles
    <3>4. NoDarkEnvironment'
      BY <3>1 DEF Paged, Take, depVars, pageVars, DarkInv, NoDarkEnvironment, Down
    <3>5. CASE ReconcileNothing(n)
      BY <2>1, <3>1, <3>3, <3>5 DEF ReconcileNothing, Take, depVars, pageVars, idlerVars
    <3>6. CASE ReconcileForce(n)
      <4>1. PagesPatched'
        BY <3>1, <3>6
        DEF Paged, ReconcileForce, StartIdler, Take, DarkInv, TypeOK, IdlerTypeOK, Idlers,
            PagesPatched, pageVars
      <4>. QED  BY <3>3, <3>4, <4>1
    <3>. QED  BY <2>7, <3>1, <3>5, <3>6 DEF Reconcile, StartReconcile
  <2>8. ASSUME NEW c \in Crons, CronWork(c)
        PROVE  NobodyUnidles' /\ PagesPatched' /\ NoDarkEnvironment'
    BY <2>8, IdlerWorkPages, IdlerWorkNobodyUnidles DEF DarkInv, CronWork, Idlers
  <2>9. CASE Controller
    <3>1. CASE IdlerWork(Reconciler) /\ UNCHANGED unidlerVars
      BY <3>1, IdlerWorkPages, IdlerWorkNobodyUnidles DEF DarkInv, Idlers
    <3>2. ~UnidlerWork(Reconciler)
      BY DEF DarkInv, NobodyUnidles, UnidlerWork, LoadLock, StoreLock, ListWatched,
             ListWatchedError, WakeDeployment, WakeError, PodReady, GiveUpWaiting, ListPages,
             ListPagesError, Polling, StripPage, StripError, AllStripped, LabelUnidled,
             LabelError, Unlock
    <3>3. CASE ClearCommand
      <4>1. handlingNs \in Namespaces /\ UNCHANGED unidlerPc
        BY <3>3 DEF ClearCommand, DarkInv, TypeOK, ControllerTypeOK, unidlerVars
      <4>2. NobodyUnidles'
        BY <3>3, <4>1, SetNsNobodyUnidles DEF ClearCommand, DarkInv, NobodyUnidles
      <4>. QED  BY <2>1, <3>3, <4>2 DEF ClearCommand, depVars, pageVars, idlerVars
    <3>4. CASE ClearError
      BY <2>1, <2>2, <3>4 DEF ClearError, clusterVars, nsVars, idlerVars, unidlerVars
    <3>. QED  BY <2>9, <3>1, <3>2, <3>3, <3>4 DEF Controller, ControllerWork
  <2>10. CASE Informers
    <3>1. NobodyUnidles'
      BY <2>10
      DEF Informers, SyncDeployments, SyncIngresses, SyncNamespaces, nsVars, processVars,
          unidlerVars, DarkInv, NobodyUnidles
    <3>. QED
      BY <2>1, <2>10, <3>1
      DEF Informers, SyncDeployments, SyncIngresses, SyncNamespaces, depVars, pageVars,
          processVars, idlerVars
  <2>11. CASE Kubelet
    BY <2>1, <2>2, <2>11
    DEF Kubelet, PodUp, PodDown, depVars, pageVars, processVars, idlerVars, unidlerVars
  <2>12. CASE Restart
    <3>1. PagesPatched'
      BY <2>12 DEF Restart, PagesPatched
    <3>2. NoDarkEnvironment'
      BY <2>12 DEF Paged, Restart, DarkInv, NoDarkEnvironment, Down
    <3>3. NobodyUnidles'
      BY <2>12 DEF Restart, DarkInv, NobodyUnidles, Unidlers
    <3>. QED  BY <3>1, <3>2, <3>3
  <2>. QED
    BY <2>3, <2>4, <2>5, <2>5a, <2>6, <2>7, <2>8, <2>9, <2>10, <2>11, <2>12, UserAssumption
    DEF Next, Start, Work
<1>. QED
  BY <1>1, <1>2, TypeCorrect, PTL DEF Spec, DarkInv

=============================================================================
