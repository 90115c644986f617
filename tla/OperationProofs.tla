--------------------------- MODULE OperationProofs ---------------------------
(***************************************************************************)
(* Operations taken one at a time: the annotations of the routers, the pages*)
(* of environments that sleep, and the force labels, for every cluster and  *)
(* through every crash.                                                     *)
(***************************************************************************)
EXTENDS SerialProofs

\* What an operation has read of the annotations is what they are.
PagesRead ==
    /\ \A p \in Idlers :
           /\ idlerPc[p] \in {"list", "inspect"} => pageCache = page
           /\ idlerPc[p] = "patch" => \A i \in toPatch[p] : patchFrom[p][i] = page[i]
    /\ \A p \in Unidlers :
           /\ unidlerPc[p] \in {"load", "store", "list", "wake"} => pageCache = page
           /\ unidlerPc[p] = "strip" => \A i \in stripping[p] : stripFrom[p][i] = page[i]

AnnotationInv == TypeOK /\ OneAtATime /\ PagesRead /\ RoutersAgree

\* Once the deployments have been woken, an Unidle's environment is awake, and its
\* pages alone come down.
AwakeInv == TypeOK /\ Recoverable /\ OneAtATime /\ Woke /\ StripsOwn

DarknessInv == PagesPatched /\ NoDarkEnvironment

\* What the worker runs is what it handles.
HandlerAtWork ==
    /\ unidlerPc[Reconciler] # "off" => handling = "unidle"
    /\ idlerPc[Reconciler] # "off" =>
           /\ handling \in {"force-scaled", "force-idled"}
           /\ force[Reconciler] = handling /\ idlerNs[Reconciler] = handlingNs

\* A request passes only where nothing is force scaled.
RequestsHeld ==
    \A r \in Requests : unidlerPc[r] # "off" =>
        \A d \in DeploymentsOf(unidlerNs[r]) : ~dep[d].forceScaled

\* d is as the force command c leaves it.
Forced(d, c) == dep[d].replicas = 0 /\ (c = "force-scaled" => dep[d].forceScaled)

\* A force command has been carried out, but for what its run has still to scale.
ForceDone ==
    handling \in {"force-scaled", "force-idled"} /\ idlerPc[Reconciler] \in {"scale", "off"} =>
        \A d \in DeploymentsOf(handlingNs) :
            (idlerPc[Reconciler] = "scale" /\ d \in toScale[Reconciler]) \/ Forced(d, handling)

\* While the worker is busy, or its label not yet removed, nobody else is at work.
WorkerAlone ==
    handling # "none" =>
        /\ \A c \in Crons : idlerPc[c] = "off"
        /\ \A r \in Requests : unidlerPc[r] = "off"

-----------------------------------------------------------------------------
(* Who moves                                                                *)

\* The worker forgets a command, informers deliver, pods come up and go.
Background ==
    /\ UNCHANGED <<idlerVars, unidlerVars, dep, page>>
    /\ depCache' = depCache \/ depCache' = dep
    /\ pageCache' = pageCache \/ pageCache' = page
    /\ ClearCommand \/ ClearError \/ UNCHANGED <<ns, controllerVars>>

\* A step is one of an operation, the start of one, a crash, or background.
LEMMA SerialStep ==
  ASSUME [SerialNext]_vars
  PROVE  \/ \E p \in Idlers : IdlerWork(p) /\ UNCHANGED <<unidlerVars, controllerVars>>
         \/ \E p \in Unidlers : UnidlerWork(p) /\ UNCHANGED <<idlerVars, controllerVars>>
         \/ Quiet /\ Start
         \/ Restart
         \/ Background
<1>1. CASE UNCHANGED vars
  BY <1>1 DEF vars, clusterVars, processVars, controllerVars, Background
<1>2. CASE \E r \in Requests : RequestWork(r)
  BY <1>2 DEF RequestWork, Unidlers
<1>3. CASE \E c \in Crons : CronWork(c)
  BY <1>3 DEF CronWork, Idlers
<1>4. CASE Controller
  <2>1. CASE ClearCommand
    BY <2>1 DEF ClearCommand, depVars, pageVars, Background
  <2>2. CASE ClearError
    BY <2>2 DEF ClearError, clusterVars, Background
  <2>. QED  BY <1>4, <2>1, <2>2 DEF Controller, ControllerWork, Idlers, Unidlers
<1>5. CASE Informers
  BY <1>5 DEF Informers, SyncDeployments, SyncIngresses, SyncNamespaces, processVars,
              controllerVars, depVars, pageVars, nsVars, Background
<1>6. CASE Kubelet
  BY <1>6 DEF Kubelet, PodUp, PodDown, processVars, controllerVars, depVars, pageVars, nsVars,
              Background
<1>. QED  BY <1>1, <1>2, <1>3, <1>4, <1>5, <1>6 DEF SerialNext, Work

LEMMA IdlerMoves ==
  ASSUME OneAtATime, IdlerTypeOK, NEW p \in Idlers, IdlerWork(p), UNCHANGED unidlerVars
  PROVE  /\ \A q \in Idlers : q # p => idlerPc[q] = "off" /\ idlerPc'[q] = "off"
         /\ \A q \in Unidlers : unidlerPc[q] = "off" /\ unidlerPc'[q] = "off"
         /\ idlerPc[p] # "off"
         /\ OneAtATime'
<1>1. /\ idlerPc[p] # "off"
      /\ \A q \in Idlers : q # p => idlerPc'[q] = idlerPc[q]
  BY DEF IdlerWork, BuildRunning, ListDeployments, NotIdle, Decide, DecideToPatch,
         DecideToScale, PatchIngress, LabelIdled, IdlerError, AllScaled, IdleDeployment,
         SkipDeployment, Return, IdlerTypeOK
<1>2. /\ \A q \in Idlers : q # p => idlerPc[q] = "off" /\ idlerPc'[q] = "off"
      /\ \A q \in Unidlers : unidlerPc[q] = "off" /\ unidlerPc'[q] = "off"
  BY <1>1, IdlerAlone DEF unidlerVars
<1>. QED  BY <1>1, <1>2 DEF OneAtATime

LEMMA UnidlerMoves ==
  ASSUME OneAtATime, UnidlerTypeOK, NEW p \in Unidlers, UnidlerWork(p), UNCHANGED idlerVars
  PROVE  /\ \A q \in Unidlers : q # p => unidlerPc[q] = "off" /\ unidlerPc'[q] = "off"
         /\ \A q \in Idlers : idlerPc[q] = "off" /\ idlerPc'[q] = "off"
         /\ unidlerPc[p] # "off" /\ unidlerPc'[p] \notin {"load"}
         /\ OneAtATime'
<1>1. /\ unidlerPc[p] # "off" /\ unidlerPc'[p] \notin {"load"}
      /\ \A q \in Unidlers : q # p => unidlerPc'[q] = unidlerPc[q]
  BY DEF UnidlerWork, LoadLock, StoreLock, ListWatched, ListWatchedError, WakeDeployment,
         WakeError, PodReady, GiveUpWaiting, ListPages, ListPagesError, StripPage, StripError,
         AllStripped, LabelUnidled, LabelError, Unlock, Finish, Polling, Goto, UnidlerTypeOK
<1>2. /\ \A q \in Unidlers : q # p => unidlerPc[q] = "off" /\ unidlerPc'[q] = "off"
      /\ \A q \in Idlers : idlerPc[q] = "off" /\ idlerPc'[q] = "off"
  BY <1>1 DEF OneAtATime, idlerVars, runVars
<1>. QED  BY <1>1, <1>2 DEF OneAtATime

\* An operation starts at its beginning, and the objects stay as they are; or a user
\* changes them, and nobody moves.
StartsAtBeginning ==
    /\ \A q \in Idlers : idlerPc'[q] \in {"off", "list"}
    /\ \A q \in Unidlers : unidlerPc'[q] \in {"off", "load", "list"}
    /\ OneAtATime'
    /\ UNCHANGED <<dep, depCache, page, pageCache, ns>> \/ UNCHANGED processVars

LEMMA StartMoves ==
  ASSUME TypeOK, Quiet, Start
  PROVE  StartsAtBeginning
<1>. USE DEF TypeOK, IdlerTypeOK, UnidlerTypeOK, Goto
<1>1. /\ \A q \in Idlers : idlerPc[q] = "off"
      /\ \A q \in Unidlers : unidlerPc[q] = "off"
  BY DEF Quiet
<1>2. ASSUME UNCHANGED processVars
      PROVE  StartsAtBeginning
  BY <1>1, <1>2 DEF StartsAtBeginning, processVars, idlerVars, runVars, unidlerVars, OneAtATime
<1>3. ASSUME UNCHANGED <<dep, depCache, page, pageCache, ns, unidlerPc>>, NEW p \in Idlers,
             idlerPc'[p] \in {"off", "list"}, \A q \in Idlers : q # p => idlerPc'[q] = "off"
      PROVE  StartsAtBeginning
  BY <1>1, <1>3 DEF StartsAtBeginning, OneAtATime
<1>4. ASSUME UNCHANGED <<dep, depCache, page, pageCache, ns, idlerPc>>, NEW p \in Unidlers,
             unidlerPc'[p] \in {"off", "load", "list"},
             \A q \in Unidlers : q # p => unidlerPc'[q] = "off"
      PROVE  StartsAtBeginning
  BY <1>1, <1>4 DEF StartsAtBeginning, OneAtATime
<1>5. ASSUME NEW n \in Namespaces, NEW c \in Commands, PostCommand(n, c)
      PROVE  StartsAtBeginning
  BY <1>2, <1>5 DEF PostCommand
<1>6. ASSUME NEW d \in Deployments, NEW count \in 1 .. MaxReplicas, Rescale(d, count)
      PROVE  StartsAtBeginning
  BY <1>2, <1>6 DEF Rescale
<1>7. ASSUME NEW i \in Annotated, NEW r \in Routers, NEW items \in SUBSET UserItems,
             Annotate(i, r, items)
      PROVE  StartsAtBeginning
  BY <1>2, <1>7 DEF Annotate
<1>8. ASSUME NEW r \in Requests, NEW n \in Namespaces, Request(r, n)
      PROVE  StartsAtBeginning
  <2>1. /\ UNCHANGED <<dep, depCache, page, pageCache, ns, idlerPc>>
        /\ unidlerPc'[r] = "load" /\ \A q \in Unidlers : q # r => unidlerPc'[q] = "off"
    BY <1>1, <1>8 DEF Request, ReceiveRequest, clusterVars, idlerVars, runVars, Unidlers
  <2>. QED  BY <1>4, <2>1 DEF Unidlers
<1>9. ASSUME NEW c \in Crons, CronStart(c)
      PROVE  StartsAtBeginning
  <2>1. UNCHANGED <<dep, depCache, page, pageCache, ns, unidlerPc>>
    BY <1>9 DEF CronStart, CronTick, CronNext, clusterVars, unidlerVars
  <2>2. idlerPc'[c] \in {"off", "list"} /\ \A q \in Idlers : q # c => idlerPc'[q] = "off"
    <3>1. CASE CronTick(c)
      BY <1>1, <3>1 DEF CronTick, runVars, Idlers
    <3>2. CASE \E n \in Namespaces : CronNext(c, n)
      BY <1>1, <3>2 DEF CronNext, StartIdler, Idlers
    <3>. QED  BY <1>9, <3>1, <3>2 DEF CronStart
  <2>. QED  BY <1>3, <2>1, <2>2 DEF Idlers
<1>10. ASSUME NEW n \in Namespaces, Reconcile(n)
       PROVE  StartsAtBeginning
  <2>1. UNCHANGED <<dep, depCache, page, pageCache, ns>>
    BY <1>10 DEF Reconcile, StartReconcile, ReconcileNothing, ReconcileForce, ReconcileUnidle,
                 Take, depVars, pageVars
  <2>2. CASE ReconcileNothing(n)
    BY <1>2, <2>2 DEF ReconcileNothing, processVars
  <2>3. CASE ReconcileForce(n)
    <3>1. /\ UNCHANGED unidlerPc
          /\ idlerPc'[Reconciler] = "list"
          /\ \A q \in Idlers : q # Reconciler => idlerPc'[q] = "off"
      BY <1>1, <2>3 DEF ReconcileForce, StartIdler, unidlerVars, Idlers
    <3>. QED  BY <1>3, <2>1, <3>1 DEF Idlers
  <2>4. CASE ReconcileUnidle(n)
    <3>1. /\ UNCHANGED idlerPc
          /\ unidlerPc'[Reconciler] = "list"
          /\ \A q \in Unidlers : q # Reconciler => unidlerPc'[q] = "off"
      BY <1>1, <2>4 DEF ReconcileUnidle, idlerVars, runVars, Unidlers
    <3>. QED  BY <1>4, <2>1, <3>1 DEF Unidlers
  <2>. QED  BY <1>10, <2>2, <2>3, <2>4 DEF Reconcile, StartReconcile
<1>. QED  BY <1>5, <1>6, <1>7, <1>8, <1>9, <1>10 DEF Start

LEMMA RestartMoves ==
  ASSUME Restart
  PROVE  /\ \A q \in Idlers : idlerPc'[q] = "off"
         /\ \A q \in Unidlers : unidlerPc'[q] = "off"
         /\ OneAtATime' /\ handling' = "none"
         /\ UNCHANGED <<dep, page, ns>>
  BY DEF Restart, OneAtATime

LEMMA OneAtATimeStep ==
  ASSUME TypeOK, OneAtATime, [SerialNext]_vars
  PROVE  OneAtATime'
<1>. USE DEF TypeOK
<1>1. CASE \E p \in Idlers : IdlerWork(p) /\ UNCHANGED unidlerVars
  BY <1>1, IdlerMoves
<1>2. CASE \E p \in Unidlers : UnidlerWork(p) /\ UNCHANGED idlerVars
  BY <1>2, UnidlerMoves
<1>3. CASE Quiet /\ Start
  BY <1>3, StartMoves DEF StartsAtBeginning
<1>4. CASE Restart
  BY <1>4, RestartMoves
<1>5. CASE Background
  BY <1>5 DEF Background, OneAtATime, idlerVars, runVars, unidlerVars
<1>. QED  BY <1>1, <1>2, <1>3, <1>4, <1>5, SerialStep

-----------------------------------------------------------------------------
(* Pages and annotations                                                    *)

\* Of what users put in the annotations, nothing comes or goes.
ItemsKept ==
    \A i \in Ingresses, r \in Routers : page'[i][r] \ {Ours, ""} = page[i][r] \ {Ours, ""}

LEMMA IdlerAnnotations ==
  ASSUME AnnotationInv, NEW p \in Idlers, IdlerWork(p), UNCHANGED unidlerVars
  PROVE  PagesRead' /\ RoutersAgree' /\ ItemsKept
<1>. USE DEF AnnotationInv, TypeOK, IdlerTypeOK
<1>1. /\ \A q \in Idlers : q # p => idlerPc'[q] = "off"
      /\ \A q \in Unidlers : unidlerPc'[q] = "off"
      /\ idlerPc[p] # "off"
  BY IdlerMoves
<1>2. ASSUME UNCHANGED page
      PROVE  RoutersAgree' /\ ItemsKept
  BY <1>2 DEF RoutersAgree, ItemsKept
<1>3. CASE BuildRunning(p) \/ NotIdle(p) \/ IdlerError(p) \/ AllScaled(p)
  <2>1. idlerPc'[p] = "off" /\ UNCHANGED page
    BY <1>3 DEF BuildRunning, NotIdle, IdlerError, AllScaled, Return, clusterVars
  <2>. QED  BY <1>1, <1>2, <2>1 DEF PagesRead
<1>4. CASE ListDeployments(p)
  <2>1. /\ idlerPc[p] = "list" /\ idlerPc'[p] = "inspect"
        /\ UNCHANGED <<page, pageCache>>
    BY <1>4 DEF ListDeployments, clusterVars
  <2>. QED  BY <1>1, <1>2, <2>1 DEF PagesRead
<1>5. CASE DecideToPatch(p)
  <2>1. /\ idlerPc[p] = "inspect" /\ idlerPc'[p] = "patch"
        /\ UNCHANGED <<page, pageCache>>
        /\ \A i \in toPatch'[p] : patchFrom'[p][i] = pageCache[i]
    BY <1>5 DEF DecideToPatch, Decide, clusterVars, IngressesToPatch, Targets, SelectedOf,
                IngressesOf
  <2>. QED  BY <1>1, <1>2, <2>1 DEF PagesRead
<1>6. CASE DecideToScale(p) \/ LabelIdled(p)
  <2>1. idlerPc'[p] = "scale" /\ UNCHANGED page
    BY <1>6 DEF DecideToScale, Decide, LabelIdled, clusterVars, pageVars
  <2>. QED  BY <1>1, <1>2, <2>1 DEF PagesRead
<1>7. ASSUME NEW i \in Ingresses, PatchIngress(p, i)
      PROVE  PagesRead' /\ RoutersAgree' /\ ItemsKept
  <2>1. /\ idlerPc[p] = "patch" /\ i \in toPatch[p]
        /\ UNCHANGED idlerPc
        /\ page' = [page EXCEPT ![i] = [r \in Routers |-> AddStatusCode(patchFrom[p][i][r])]]
        /\ toPatch'[p] = toPatch[p] \ {i}
        /\ \A j \in Ingresses : j # i => patchFrom'[p][j] = patchFrom[p][j]
    BY <1>7 DEF PatchIngress, SetPage
  <2>2. /\ \A j \in Ingresses : j # i => page'[j] = page[j]
        /\ \A r \in Routers : page'[i][r] = AddStatusCode(page[i][r])
    BY <2>1 DEF PagesRead, ClusterTypeOK
  <2>3. \A r \in Routers :
           /\ Ours \in page'[i][r]
           /\ page'[i][r] \ {Ours, ""} = page[i][r] \ {Ours, ""}
    BY <2>2 DEF AddStatusCode
  <2>4. PagesRead'
    <3>1. \A j \in toPatch'[p] : j \in toPatch[p] /\ j \in Ingresses /\ j # i
      BY <2>1
    <3>2. \A j \in toPatch'[p] : patchFrom'[p][j] = page'[j]
      BY <2>1, <2>2, <3>1 DEF PagesRead
    <3>. QED  BY <1>1, <2>1, <3>2 DEF PagesRead
  <2>5. RoutersAgree' /\ ItemsKept
    BY <2>2, <2>3 DEF RoutersAgree, ItemsKept, Routers
  <2>. QED  BY <2>4, <2>5
<1>8. ASSUME NEW d \in Deployments, IdleDeployment(p, d) \/ SkipDeployment(p, d)
      PROVE  PagesRead' /\ RoutersAgree' /\ ItemsKept
  <2>1. idlerPc'[p] = "scale" /\ UNCHANGED page
    BY <1>8 DEF IdleDeployment, SkipDeployment, clusterVars, pageVars
  <2>. QED  BY <1>1, <1>2, <2>1 DEF PagesRead
<1>. QED  BY <1>3, <1>4, <1>5, <1>6, <1>7, <1>8 DEF IdlerWork

LEMMA UnidlerAnnotations ==
  ASSUME AnnotationInv, NEW p \in Unidlers, UnidlerWork(p), UNCHANGED idlerVars
  PROVE  PagesRead' /\ RoutersAgree' /\ ItemsKept
<1>. USE DEF AnnotationInv, TypeOK, UnidlerTypeOK, Goto
<1>1. /\ \A q \in Unidlers : q # p => unidlerPc'[q] = "off"
      /\ \A q \in Idlers : idlerPc'[q] = "off"
  BY UnidlerMoves
<1>2. ASSUME UNCHANGED page
      PROVE  RoutersAgree' /\ ItemsKept
  BY <1>2 DEF RoutersAgree, ItemsKept
\* Before it lists the ingresses, and after it has patched them.
<1>3. ASSUME UNCHANGED page,
             \/ unidlerPc'[p] \in {"off", "label", "unlock"}
             \/ /\ unidlerPc[p] \in {"load", "store", "list", "wake"}
                /\ unidlerPc'[p] \in {"store", "list", "wake"}
                /\ UNCHANGED pageCache
      PROVE  PagesRead' /\ RoutersAgree' /\ ItemsKept
  <2>1. PagesRead'
    BY <1>1, <1>3 DEF PagesRead
  <2>. QED  BY <1>2, <1>3, <2>1
<1>4. CASE LoadLock(p) \/ StoreLock(p) \/ ListWatched(p) \/ ListWatchedError(p)
  BY <1>3, <1>4 DEF LoadLock, StoreLock, ListWatched, ListWatchedError, Finish, clusterVars
<1>5. ASSUME NEW d \in Deployments,
             WakeDeployment(p, d) \/ WakeError(p, d) \/ PodReady(p, d) \/ GiveUpWaiting(p, d)
      PROVE  PagesRead' /\ RoutersAgree' /\ ItemsKept
  BY <1>3, <1>5
  DEF WakeDeployment, WakeError, PodReady, GiveUpWaiting, Polling, clusterVars, pageVars
<1>6. CASE ListPagesError(p) \/ AllStripped(p) \/ LabelUnidled(p) \/ LabelError(p) \/ Unlock(p)
  BY <1>3, <1>6
  DEF ListPagesError, AllStripped, LabelUnidled, LabelError, Unlock, Finish, clusterVars, pageVars
<1>7. CASE ListPages(p)
  <2>1. /\ unidlerPc[p] = "wake" /\ unidlerPc'[p] = "strip"
        /\ UNCHANGED <<page, pageCache>>
        /\ \A i \in stripping'[p] : stripFrom'[p][i] = pageCache[i]
    BY <1>7 DEF ListPages, Polling, clusterVars, ToStrip, IngressesOf
  <2>. QED  BY <1>1, <1>2, <2>1 DEF PagesRead
<1>8. ASSUME NEW i \in Ingresses, StripPage(p, i)
      PROVE  PagesRead' /\ RoutersAgree' /\ ItemsKept
  <2>1. /\ unidlerPc[p] = "strip" /\ i \in stripping[p]
        /\ UNCHANGED unidlerPc
        /\ page' = [page EXCEPT ![i] =
               [r \in Routers |-> Stripped(stripFrom[p][i][r], page[i][r])]]
        /\ stripping'[p] = stripping[p] \ {i}
        /\ \A j \in Ingresses : j # i => stripFrom'[p][j] = stripFrom[p][j]
    BY <1>8 DEF StripPage, SetPage, Forget
  <2>2. /\ \A j \in Ingresses : j # i => page'[j] = page[j]
        /\ \A r \in Routers : page'[i][r] = Stripped(page[i][r], page[i][r])
    BY <2>1 DEF PagesRead, ClusterTypeOK
  <2>3. \A r \in Routers : page'[i][r] = page[i][r] \ {Ours}
    BY <2>2 DEF Stripped, RemoveStatusCode
  <2>4. PagesRead'
    BY <1>1, <2>1, <2>2 DEF PagesRead
  <2>5. RoutersAgree' /\ ItemsKept
    BY <2>2, <2>3 DEF RoutersAgree, ItemsKept, Routers
  <2>. QED  BY <2>4, <2>5
<1>9. ASSUME NEW i \in Ingresses, StripError(p, i)
      PROVE  PagesRead' /\ RoutersAgree' /\ ItemsKept
  <2>1. /\ UNCHANGED <<page, unidlerPc>> /\ unidlerPc[p] = "strip"
        /\ stripping'[p] = stripping[p] \ {i}
        /\ \A j \in Ingresses : j # i => stripFrom'[p][j] = stripFrom[p][j]
    BY <1>9 DEF StripError, Forget, clusterVars
  <2>2. PagesRead'
    BY <1>1, <2>1 DEF PagesRead
  <2>. QED  BY <1>2, <2>1, <2>2
<1>. QED  BY <1>4, <1>5, <1>6, <1>7, <1>8, <1>9 DEF UnidlerWork

LEMMA StartAnnotations ==
  ASSUME AnnotationInv, Quiet, Start
  PROVE  /\ PagesRead' /\ RoutersAgree'
         /\ \/ ItemsKept
            \/ \E i \in Annotated, r \in Routers, items \in SUBSET UserItems : Annotate(i, r, items)
<1>. USE DEF AnnotationInv, TypeOK
<1>1. StartsAtBeginning
  BY StartMoves
<1>2. pageCache = page
  BY DEF Quiet
<1>3. CASE UNCHANGED <<page, pageCache>>
  BY <1>1, <1>2, <1>3 DEF StartsAtBeginning, PagesRead, RoutersAgree, ItemsKept
<1>4. ASSUME NEW i \in Annotated, NEW r \in Routers, NEW items \in SUBSET UserItems,
             Annotate(i, r, items)
      PROVE  PagesRead' /\ RoutersAgree'
  <2>1. i \in Ingresses /\ Ours \notin items
    BY UserAssumption, ItemAssumption
  <2>2. /\ page' = [page EXCEPT ![i] = [page[i] EXCEPT ![r] = items \cup (@ \cap {Ours})]]
        /\ \A q \in Idlers : idlerPc'[q] = "off"
        /\ \A q \in Unidlers : unidlerPc'[q] = "off"
    BY <1>4 DEF Annotate, SetPage, processVars, idlerVars, runVars, unidlerVars, Quiet
  <2>3. \A j \in Ingresses, s \in Routers : Ours \in page'[j][s] <=> Ours \in page[j][s]
    BY <2>1, <2>2 DEF ClusterTypeOK, Page
  <2>. QED  BY <2>2, <2>3 DEF PagesRead, RoutersAgree, Routers
<1>5. CASE ~ \E i \in Annotated, r \in Routers, items \in SUBSET UserItems :
               Annotate(i, r, items)
  <2>1. \/ \E n \in Namespaces, c \in Commands : PostCommand(n, c)
        \/ \E d \in Deployments, count \in 1 .. MaxReplicas : Rescale(d, count)
        \/ \E r \in Requests, n \in Namespaces : Request(r, n)
        \/ \E c \in Crons : CronStart(c)
        \/ \E n \in Namespaces : Reconcile(n)
    BY <1>5 DEF Start
  <2>2. UNCHANGED pageVars
    BY <2>1 DEF PostCommand, Rescale, Request, ReceiveRequest, CronStart, CronTick, CronNext,
                Reconcile, StartReconcile, ReconcileNothing, ReconcileForce, ReconcileUnidle,
                Take, clusterVars, pageVars
  <2>. QED  BY <1>3, <2>2 DEF pageVars
<1>. QED  BY <1>4, <1>5

LEMMA AnnotationStep ==
  ASSUME AnnotationInv, [SerialNext]_vars
  PROVE  /\ PagesRead' /\ RoutersAgree'
         /\ \/ ItemsKept
            \/ \E i \in Annotated, r \in Routers, items \in SUBSET UserItems : Annotate(i, r, items)
<1>. USE DEF AnnotationInv, TypeOK
<1>1. CASE \E p \in Idlers : IdlerWork(p) /\ UNCHANGED unidlerVars
  BY <1>1, IdlerMoves, IdlerAnnotations
<1>2. CASE \E p \in Unidlers : UnidlerWork(p) /\ UNCHANGED idlerVars
  BY <1>2, UnidlerMoves, UnidlerAnnotations
<1>3. CASE Quiet /\ Start
  BY <1>3, StartMoves, StartAnnotations DEF StartsAtBeginning
<1>4. CASE Restart
  BY <1>4, RestartMoves DEF PagesRead, RoutersAgree, ItemsKept
<1>5. CASE Background
  BY <1>5 DEF Background, OneAtATime, PagesRead, RoutersAgree, ItemsKept, idlerVars, runVars,
              unidlerVars, stripVars
<1>. QED  BY <1>1, <1>2, <1>3, <1>4, <1>5, SerialStep

LEMMA AnnotationInit == Init => OneAtATime /\ PagesRead /\ RoutersAgree
<1>. SUFFICES ASSUME Init PROVE OneAtATime /\ PagesRead /\ RoutersAgree
  OBVIOUS
<1>. PICK asleep \in SUBSET Namespaces,
          count \in [Deployments -> 1 .. MaxReplicas],
          target \in [Deployments -> 0 .. MaxReplicas],
          items \in [Ingresses -> [Routers -> SUBSET UserItems]] :
       InitialCluster(asleep, count, target, items)
  BY Zenon DEF Init, ClusterInit
<1>1. OneAtATime /\ PagesRead
  BY DEF Init, IdlerInit, UnidlerInit, OneAtATime, PagesRead
<1>2. ASSUME NEW i \in Ingresses, NEW r \in Routers
      PROVE  Ours \in page[i][r] <=> NamespaceOf[i] \in asleep /\ i \in Selected
  BY ItemAssumption DEF InitialCluster
<1>. QED  BY <1>1, <1>2 DEF RoutersAgree, Routers

\* RoutersAgree, for every cluster: when operations are taken one at a time, both
\* routers of an ingress send its visitors to aergia or neither does, whatever users
\* keep in the annotations, however the informers lag, whichever calls fail and
\* wherever the process dies.
THEOREM RoutersStayAgreed == SerialSpec => []RoutersAgree
<1>1. ASSUME TypeOK, OneAtATime, PagesRead, RoutersAgree, [SerialNext]_vars
      PROVE  OneAtATime' /\ PagesRead' /\ RoutersAgree'
  BY <1>1, OneAtATimeStep, AnnotationStep DEF AnnotationInv
<1>. QED  BY <1>1, AnnotationInit, SerialIsAergia, TypeCorrect, PTL DEF SerialSpec

\* CodesKept, for every cluster: under the same conditions, idling and unidling give
\* users back what they put in the annotations.
THEOREM UserItemsStay == SerialSpec => CodesKept
<1>1. ASSUME TypeOK, OneAtATime, PagesRead, RoutersAgree, [SerialNext]_vars
      PROVE  OneAtATime' /\ PagesRead' /\ RoutersAgree'
  BY <1>1, OneAtATimeStep, AnnotationStep DEF AnnotationInv
<1>2. ASSUME TypeOK, OneAtATime, PagesRead, RoutersAgree, [SerialNext]_vars
      PROVE  [\A i \in Ingresses, r \in Routers :
                 \/ page'[i][r] \ {Ours, ""} = page[i][r] \ {Ours, ""}
                 \/ \E items \in SUBSET UserItems : Annotate(i, r, items)]_vars
  <2>1. CASE ItemsKept
    BY <2>1 DEF ItemsKept
  <2>2. CASE ~ItemsKept
    <3>1. PICK j \in Annotated, s \in Routers, items \in SUBSET UserItems : Annotate(j, s, items)
      BY <1>2, <2>2, AnnotationStep DEF AnnotationInv
    <3>2. page' = [page EXCEPT ![j] = [page[j] EXCEPT ![s] = items \cup (@ \cap {Ours})]]
      BY <3>1 DEF Annotate, SetPage
    <3>3. \A i \in Ingresses, r \in Routers : i # j \/ r # s => page'[i][r] = page[i][r]
      BY <1>2, <3>2 DEF TypeOK, ClusterTypeOK, Page
    <3>. QED  BY <3>1, <3>3
  <2>. QED  BY <2>1, <2>2
<1>. QED
  BY <1>1, <1>2, AnnotationInit, SerialIsAergia, TypeCorrect, PTL DEF SerialSpec, CodesKept

-----------------------------------------------------------------------------
(* Darkness                                                                 *)

\* An Unidle takes pages down only in an environment that it has woken.
LEMMA UnidlerAwake ==
  ASSUME AwakeInv, ~Faulty, NEW p \in Unidlers, UnidlerWork(p), UNCHANGED idlerVars
  PROVE  Woke' /\ StripsOwn' /\ (NoDarkEnvironment => NoDarkEnvironment')
<1>. USE DEF AwakeInv, TypeOK, UnidlerTypeOK, Goto
<1>1. /\ \A q \in Unidlers : q # p => unidlerPc'[q] = "off"
      /\ unidlerPc[p] # "off"
  BY UnidlerMoves
<1>2. ASSUME UNCHANGED <<dep, page>>
      PROVE  NoDarkEnvironment => NoDarkEnvironment'
  BY <1>2 DEF NoDarkEnvironment, Down, Paged
<1>3. CASE LoadLock(p) \/ StoreLock(p)
  <2>1. /\ unidlerPc[p] \in {"load", "store"} /\ unidlerPc'[p] \in {"off", "store", "list"}
        /\ UNCHANGED <<dep, depCache, page>>
    BY <1>3 DEF LoadLock, StoreLock, Finish, clusterVars
  <2>. QED  BY <1>1, <1>2, <2>1 DEF Woke, StripsOwn
<1>4. CASE LabelUnidled(p) \/ Unlock(p)
  <2>1. unidlerPc'[p] \in {"unlock", "off"} /\ UNCHANGED <<dep, page>>
    BY <1>4 DEF LabelUnidled, Unlock, Finish, clusterVars, depVars, pageVars
  <2>. QED  BY <1>1, <1>2, <2>1 DEF Woke, StripsOwn
<1>5. CASE ListWatched(p)
  <2>1. /\ unidlerPc'[p] = "wake" /\ UNCHANGED <<dep, page, unidlerNs>>
        /\ depCache = dep
    BY <1>5 DEF ListWatched, clusterVars, Woke
  <2>2. ASSUME NEW d \in Deployments
        PROVE  wake'[p][d] = IF d \in ToWake(unidlerNs[p]) THEN NewReplicas(d) ELSE 0
    BY <1>5 DEF ListWatched
  <2>3. ASSUME NEW d \in Deployments
        PROVE  NewReplicas(d) > 0
    BY DEF NewReplicas, ClusterTypeOK, Deployment
  <2>4. ASSUME NEW d \in Deployments
        PROVE  /\ wake'[p][d] > 0 => NamespaceOf[d] = unidlerNs[p]
               /\ NamespaceOf[d] = unidlerNs[p] => dep[d].replicas # 0 \/ wake'[p][d] > 0
    BY <2>1, <2>2, <2>3 DEF ToWake, Watched, DeploymentsOf, Recoverable
  <2>. QED  BY <1>1, <1>2, <2>1, <2>4 DEF Woke, StripsOwn
<1>6. ASSUME NEW d \in Deployments, WakeDeployment(p, d)
      PROVE  Woke' /\ StripsOwn' /\ (NoDarkEnvironment => NoDarkEnvironment')
  <2>1. /\ unidlerPc[p] = "wake" /\ wake[p][d] > 0
        /\ UNCHANGED <<unidlerPc, unidlerNs, page>>
        /\ dep' = [dep EXCEPT ![d] = AwakeDeployment(p, d)]
        /\ AwakeDeployment(p, d).replicas = wake[p][d]
        /\ wake' = [wake EXCEPT ![p] = [wake[p] EXCEPT ![d] = 0]]
    BY <1>6 DEF WakeDeployment, SetDep, Woken, AwakeDeployment, pageVars
  <2>2. /\ dep'[d].replicas # 0
        /\ \A e \in Deployments : e # d => dep'[e] = dep[e] /\ wake'[p][e] = wake[p][e]
        /\ wake'[p][d] = 0
    BY <2>1 DEF ClusterTypeOK
  <2>3. Woke' /\ StripsOwn'
    <3>1. ASSUME NEW e \in Deployments
          PROVE  /\ wake'[p][e] > 0 => NamespaceOf[e] = unidlerNs[p]
                 /\ NamespaceOf[e] = unidlerNs[p] => dep'[e].replicas # 0 \/ wake'[p][e] > 0
      BY <2>1, <2>2 DEF Woke
    <3>2. \A q \in Unidlers : unidlerPc'[q] # "off" => q = p
      BY <1>1
    <3>3. unidlerPc'[p] = "wake" /\ unidlerNs'[p] = unidlerNs[p]
      BY <2>1
    <3>. QED  BY ONLY <3>1, <3>2, <3>3 DEF Woke, StripsOwn
  <2>4. NoDarkEnvironment => NoDarkEnvironment'
    <3>1. \A n \in Namespaces : Down(n)' => Down(n)
      BY <2>2 DEF Down, DeploymentsOf
    <3>2. \A i \in Ingresses : Paged(i) => Paged(i)'
      BY <2>1 DEF Paged
    <3>. QED  BY <3>1, <3>2 DEF NoDarkEnvironment, SelectedOf, IngressesOf
  <2>. QED  BY <2>3, <2>4
<1>7. ASSUME NEW d \in Deployments, PodReady(p, d) \/ GiveUpWaiting(p, d)
      PROVE  Woke' /\ StripsOwn' /\ (NoDarkEnvironment => NoDarkEnvironment')
  <2>1. UNCHANGED <<unidlerPc, unidlerNs, wake, stripping, dep, depCache, page>>
    BY <1>7 DEF PodReady, GiveUpWaiting, clusterVars, stripVars
  <2>. QED  BY <1>2, <2>1 DEF Woke, StripsOwn, DeploymentsOf, IngressesOf
<1>8. CASE ListPages(p)
  <2>1. /\ unidlerPc[p] = "wake" /\ wake[p] = NoReplicas /\ unidlerPc'[p] = "strip"
        /\ UNCHANGED <<unidlerNs, dep, page>>
        /\ stripping'[p] \subseteq IngressesOf(unidlerNs[p])
    BY <1>8 DEF ListPages, Polling, ToStrip, clusterVars
  <2>2. \A d \in DeploymentsOf(unidlerNs[p]) : dep[d].replicas # 0
    BY <2>1 DEF Woke, DeploymentsOf, NoReplicas
  <2>. QED  BY <1>1, <1>2, <2>1, <2>2 DEF Woke, StripsOwn, DeploymentsOf, IngressesOf
<1>9. ASSUME NEW i \in Ingresses, StripPage(p, i)
      PROVE  Woke' /\ StripsOwn' /\ (NoDarkEnvironment => NoDarkEnvironment')
  <2>1. /\ unidlerPc[p] = "strip" /\ i \in stripping[p]
        /\ UNCHANGED <<unidlerPc, unidlerNs, dep>>
        /\ \A j \in Ingresses : j # i => page'[j] = page[j]
        /\ stripping'[p] \subseteq stripping[p]
    BY <1>9 DEF StripPage, SetPage, Forget, depVars, ClusterTypeOK
  <2>2. /\ NamespaceOf[i] = unidlerNs[p]
        /\ \A d \in DeploymentsOf(NamespaceOf[i]) : dep[d].replicas # 0
    BY <2>1 DEF StripsOwn, Woke, IngressesOf
  <2>3. Woke' /\ StripsOwn'
    <3>1. /\ \A d \in DeploymentsOf(unidlerNs[p]) : dep'[d].replicas # 0
          /\ stripping'[p] \subseteq IngressesOf(unidlerNs[p])
      BY <2>1 DEF StripsOwn, Woke
    <3>2. \A q \in Unidlers : unidlerPc'[q] # "off" => q = p
      BY <1>1
    <3>3. unidlerPc'[p] = "strip" /\ unidlerNs'[p] = unidlerNs[p]
      BY <2>1
    <3>. QED  BY ONLY <3>1, <3>2, <3>3 DEF Woke, StripsOwn, DeploymentsOf, IngressesOf
  <2>4. ASSUME NoDarkEnvironment, NEW n \in Namespaces, Down(n)', NEW j \in SelectedOf(n)
        PROVE  Paged(j)'
    <3>1. Down(n) /\ n # NamespaceOf[i]
      BY <2>1, <2>2, <2>4 DEF Down, DeploymentsOf
    <3>2. j \in Ingresses /\ j # i /\ Paged(j)
      BY <2>4, <3>1 DEF NoDarkEnvironment, SelectedOf, IngressesOf
    <3>. QED  BY <2>1, <3>2 DEF Paged
  <2>5. NoDarkEnvironment => NoDarkEnvironment'
    BY <2>4 DEF NoDarkEnvironment, SelectedOf, IngressesOf
  <2>. QED  BY <2>3, <2>5
<1>10. CASE AllStripped(p)
  <2>1. /\ unidlerPc[p] = "strip" /\ unidlerPc'[p] = "label"
        /\ UNCHANGED <<unidlerNs, dep, page>>
    BY <1>10 DEF AllStripped, clusterVars
  <2>. QED  BY <1>1, <1>2, <2>1 DEF Woke, StripsOwn, DeploymentsOf
<1>11. /\ ~ListWatchedError(p) /\ ~ListPagesError(p) /\ ~LabelError(p)
       /\ \A d \in Deployments : ~WakeError(p, d)
       /\ \A i \in Ingresses : ~StripError(p, i)
  BY DEF ListWatchedError, ListPagesError, LabelError, WakeError, StripError
<1>. QED
  BY <1>3, <1>4, <1>5, <1>6, <1>7, <1>8, <1>9, <1>10, <1>11 DEF UnidlerWork

\* What users change leaves every environment as dark as it was.
LEMMA StartDarkness ==
  ASSUME AwakeInv, Quiet, Start
  PROVE  Woke' /\ StripsOwn' /\ PagesPatched' /\ (NoDarkEnvironment => NoDarkEnvironment')
<1>. USE DEF AwakeInv, TypeOK
<1>1. StartsAtBeginning /\ depCache = dep
  BY StartMoves DEF Quiet
<1>2. StripsOwn' /\ PagesPatched'
  BY <1>1 DEF StartsAtBeginning, StripsOwn, PagesPatched
<1>3. CASE UNCHANGED <<dep, depCache, page>>
  BY <1>1, <1>2, <1>3 DEF StartsAtBeginning, Woke, NoDarkEnvironment, Down, Paged
<1>4. CASE UNCHANGED processVars /\ Start
  <2>1. Woke'
    BY <1>4 DEF Quiet, Woke, processVars, unidlerVars
  <2>2. \A d \in Deployments : dep'[d].replicas = 0 => dep[d].replicas = 0
    <3>1. ASSUME NEW d \in Deployments, NEW count \in 1 .. MaxReplicas, Rescale(d, count)
          PROVE  \A e \in Deployments : dep'[e].replicas = 0 => dep[e].replicas = 0
      BY <3>1, TopologyAssumption DEF Rescale, SetDep, ClusterTypeOK
    <3>2. CASE ~ \E d \in Deployments, count \in 1 .. MaxReplicas : Rescale(d, count)
      <4>1. UNCHANGED dep
        BY <3>2 DEF Start, PostCommand, Annotate, Request, ReceiveRequest, CronStart, CronTick,
                    CronNext, Reconcile, StartReconcile, ReconcileNothing, ReconcileForce,
                    ReconcileUnidle, Take, clusterVars, depVars
      <4>. QED  BY <4>1
    <3>. QED  BY <3>1, <3>2
  <2>3. \A i \in Ingresses : Paged(i) => Paged(i)'
    <3>1. ASSUME NEW i \in Annotated, NEW r \in Routers, NEW items \in SUBSET UserItems,
                 Annotate(i, r, items)
          PROVE  \A j \in Ingresses : Paged(j) => Paged(j)'
      BY <3>1 DEF Annotate, SetPage, Paged, ClusterTypeOK, Page
    <3>2. CASE ~ \E i \in Annotated, r \in Routers, items \in SUBSET UserItems :
                   Annotate(i, r, items)
      <4>1. UNCHANGED page
        BY <3>2 DEF Start, PostCommand, Rescale, Request, ReceiveRequest, CronStart, CronTick,
                    CronNext, Reconcile, StartReconcile, ReconcileNothing, ReconcileForce,
                    ReconcileUnidle, Take, clusterVars, pageVars
      <4>. QED  BY <4>1 DEF Paged
    <3>. QED  BY <3>1, <3>2
  <2>4. NoDarkEnvironment => NoDarkEnvironment'
    BY <2>2, <2>3 DEF NoDarkEnvironment, Down, DeploymentsOf, SelectedOf, IngressesOf
  <2>. QED  BY <1>2, <2>1, <2>4
<1>. QED  BY <1>1, <1>3, <1>4 DEF StartsAtBeginning

\* Whatever happens next, an Unidle has woken what it is past.
LEMMA AwakeStep ==
  ASSUME AwakeInv, ~Faulty, [SerialNext]_vars
  PROVE  OneAtATime' /\ Woke' /\ StripsOwn'
<1>. USE DEF AwakeInv, TypeOK
<1>1. ASSUME NEW p \in Idlers, IdlerWork(p), UNCHANGED unidlerVars
      PROVE  OneAtATime' /\ Woke' /\ StripsOwn'
  <2>1. OneAtATime' /\ \A q \in Unidlers : unidlerPc'[q] = "off"
    BY <1>1, IdlerMoves
  <2>. QED  BY <2>1 DEF Woke, StripsOwn
<1>2. ASSUME NEW p \in Unidlers, UnidlerWork(p), UNCHANGED idlerVars
      PROVE  OneAtATime' /\ Woke' /\ StripsOwn'
  BY <1>2, UnidlerMoves, UnidlerAwake
<1>3. CASE Quiet /\ Start
  BY <1>3, StartMoves, StartDarkness DEF StartsAtBeginning
<1>4. CASE Restart
  BY <1>4, RestartMoves DEF Woke, StripsOwn
<1>5. CASE Background
  <2>1. UNCHANGED <<idlerPc, unidlerPc, unidlerNs, wake, stripping, dep>>
    BY <1>5 DEF Background, idlerVars, runVars, unidlerVars, stripVars
  <2>2. depCache' = depCache \/ depCache' = dep
    BY <1>5 DEF Background
  <2>. QED  BY <2>1, <2>2 DEF OneAtATime, Woke, StripsOwn, DeploymentsOf, IngressesOf
<1>. QED  BY <1>1, <1>2, <1>3, <1>4, <1>5, SerialStep

\* Nor is an environment dark then.
LEMMA DarknessStep ==
  ASSUME AwakeInv, DarknessInv, ~Faulty, "ingress" \notin Skip, [SerialNext]_vars
  PROVE  PagesPatched' /\ NoDarkEnvironment'
<1>. USE DEF DarknessInv, AwakeInv, TypeOK
<1>1. ASSUME NEW p \in Idlers, IdlerWork(p), UNCHANGED unidlerVars
      PROVE  PagesPatched' /\ NoDarkEnvironment'
  BY <1>1, IdlerWorkPages
<1>2. ASSUME NEW p \in Unidlers, UnidlerWork(p), UNCHANGED idlerVars
      PROVE  PagesPatched' /\ NoDarkEnvironment'
  <2>1. \A q \in Idlers : idlerPc'[q] = "off"
    BY <1>2, UnidlerMoves
  <2>2. PagesPatched'
    BY <2>1 DEF PagesPatched
  <2>. QED  BY <1>2, <2>2, UnidlerAwake
<1>3. CASE Quiet /\ Start
  BY <1>3, StartDarkness
<1>4. CASE Restart
  BY <1>4, RestartMoves DEF PagesPatched, NoDarkEnvironment, Down, Paged
<1>5. CASE Background
  <2>1. UNCHANGED <<idlerPc, idlerNs, toPatch, toScale, dep, page>>
    BY <1>5 DEF Background, idlerVars, runVars
  <2>. QED
    BY <2>1 DEF PagesPatched, NoDarkEnvironment, Down, Paged, DeploymentsOf, SelectedOf, IngressesOf
<1>. QED  BY <1>1, <1>2, <1>3, <1>4, <1>5, SerialStep

LEMMA AwakeInit == Init => OneAtATime /\ Woke /\ StripsOwn
  BY DEF Init, IdlerInit, UnidlerInit, OneAtATime, Woke, StripsOwn

\* NoDarkEnvironment, for every cluster: taken one at a time, idling and unidling
\* leave no environment dark, however the informers lag, whatever users do, whichever
\* polls are given up and wherever the process dies.
THEOREM SerialIsNeverDark ==
  ASSUME ~Faulty, "ingress" \notin Skip
  PROVE  SerialSpec => []NoDarkEnvironment
<1>1. Init => PagesPatched /\ NoDarkEnvironment
  BY DarkInit DEF Init, IdlerInit, PagesPatched
<1>2. ASSUME TypeOK, Recoverable, OneAtATime, Woke, StripsOwn, PagesPatched, NoDarkEnvironment,
             [SerialNext]_vars
      PROVE  OneAtATime' /\ Woke' /\ StripsOwn' /\ PagesPatched' /\ NoDarkEnvironment'
  BY <1>2, AwakeStep, DarknessStep DEF DarknessInv, AwakeInv
<1>. QED
  BY <1>1, <1>2, AwakeInit, SerialIsAergia, TypeCorrect, ZeroIsRecoverable, PTL DEF SerialSpec

-----------------------------------------------------------------------------
(* The label of what sleeps                                                 *)

\* A run that scales an environment with ingresses has labelled it.
ScalesLabelled ==
    \A p \in Idlers : idlerPc[p] = "scale" =>
        /\ toScale[p] \subseteq DeploymentsOf(idlerNs[p])
        /\ toScale[p] = {} \/ SelectedOf(idlerNs[p]) = {} \/ ns[idlerNs[p]].idled

SleepLabelInv == ScalesLabelled /\ SleepIsLabelled

\* Nothing falls asleep, and no label is taken off.
LEMMA SleepLabelKept ==
  ASSUME SleepIsLabelled,
         \A d \in Deployments : dep'[d].replicas = 0 => dep[d].replicas = 0,
         \A n \in Namespaces : ns[n].idled => ns'[n].idled
  PROVE  SleepIsLabelled'
BY DEF SleepIsLabelled, Down, DeploymentsOf

LEMMA IdlerLabels ==
  ASSUME AwakeInv, SleepLabelInv, "ingress" \notin Skip,
         NEW p \in Idlers, IdlerWork(p), UNCHANGED unidlerVars
  PROVE  SleepLabelInv'
<1>. USE DEF AwakeInv, SleepLabelInv, TypeOK, IdlerTypeOK
<1>1. /\ \A q \in Idlers : q # p => idlerPc'[q] = "off"
      /\ idlerNs[p] \in Namespaces
  BY IdlerMoves
<1>1a. \A q \in Idlers : idlerPc'[q] = "scale" => q = p
  BY <1>1
<1>2. CASE BuildRunning(p) \/ NotIdle(p) \/ IdlerError(p) \/ AllScaled(p)
  <2>1. idlerPc'[p] = "off" /\ UNCHANGED <<dep, ns>>
    BY <1>2 DEF BuildRunning, NotIdle, IdlerError, AllScaled, Return, clusterVars
  <2>. QED  BY <1>1, <2>1, SleepLabelKept DEF ScalesLabelled
<1>3. CASE ListDeployments(p) \/ DecideToPatch(p) \/ \E i \in Ingresses : PatchIngress(p, i)
  <2>1. idlerPc'[p] # "scale" /\ UNCHANGED <<dep, ns>>
    BY <1>3
    DEF ListDeployments, DecideToPatch, Decide, PatchIngress, clusterVars, depVars, nsVars
  <2>. QED  BY <1>1, <2>1, SleepLabelKept DEF ScalesLabelled
<1>4. CASE DecideToScale(p)
  <2>1. /\ UNCHANGED <<dep, ns, idlerNs>>
        /\ toScale'[p] = Targets(DeploymentsOf(idlerNs[p]))
        /\ Targets(SelectedOf(idlerNs[p])) = {}
    BY <1>4 DEF DecideToScale, Decide, IngressesToPatch, clusterVars
  <2>2. /\ toScale'[p] \subseteq DeploymentsOf(idlerNs[p])
        /\ toScale'[p] = {} \/ SelectedOf(idlerNs[p]) = {}
    BY <2>1 DEF Targets
  <2>3. idlerNs'[p] = idlerNs[p]
    BY <2>1
  <2>4. ScalesLabelled'
    BY ONLY <1>1a, <2>2, <2>3 DEF ScalesLabelled, DeploymentsOf, SelectedOf, IngressesOf
  <2>. QED  BY <2>1, <2>4, SleepLabelKept
<1>5. CASE LabelIdled(p)
  <2>1. /\ UNCHANGED <<dep, idlerNs>>
        /\ toScale'[p] = DeploymentsOf(idlerNs[p])
        /\ \A n \in Namespaces : ns'[n].idled <=> ns[n].idled \/ n = idlerNs[p]
    BY <1>1, <1>5 DEF LabelIdled, SetNs, depVars, ClusterTypeOK
  <2>2. toScale'[p] = DeploymentsOf(idlerNs'[p]) /\ ns'[idlerNs'[p]].idled
    BY <1>1, <2>1
  <2>3. ScalesLabelled'
    BY ONLY <1>1a, <2>2 DEF ScalesLabelled, DeploymentsOf, SelectedOf, IngressesOf
  <2>. QED  BY <2>1, <2>3, SleepLabelKept
<1>6. ASSUME NEW d \in Deployments, IdleDeployment(p, d) \/ SkipDeployment(p, d)
      PROVE  SleepLabelInv'
  <2>1. /\ idlerPc[p] = "scale" /\ d \in toScale[p]
        /\ toScale'[p] = toScale[p] \ {d}
        /\ \A e \in Deployments : e # d => dep'[e] = dep[e]
        /\ UNCHANGED <<ns, idlerNs>>
    BY <1>6 DEF IdleDeployment, SkipDeployment, SetDep, clusterVars, nsVars, ClusterTypeOK
  <2>2. NamespaceOf[d] = idlerNs[p] /\ (SelectedOf(idlerNs[p]) = {} \/ ns[idlerNs[p]].idled)
    BY <2>1 DEF ScalesLabelled, DeploymentsOf
  <2>3. ScalesLabelled'
    <3>1. /\ toScale'[p] \subseteq DeploymentsOf(idlerNs[p]) /\ idlerNs'[p] = idlerNs[p]
          /\ SelectedOf(idlerNs[p]) = {} \/ ns'[idlerNs[p]].idled
      BY <2>1, <2>2 DEF ScalesLabelled
    <3>. QED  BY ONLY <1>1a, <3>1 DEF ScalesLabelled, DeploymentsOf, SelectedOf, IngressesOf
  <2>4. ASSUME NEW n \in Namespaces, SelectedOf(n) # {}, Down(n)'
        PROVE  ns[n].idled
    <3>1. n = idlerNs[p] \/ Down(n)
      BY <2>1, <2>2, <2>4 DEF Down, DeploymentsOf
    <3>. QED  BY <2>2, <2>4, <3>1 DEF SleepIsLabelled
  <2>5. SleepIsLabelled'
    BY <2>1, <2>4 DEF SleepIsLabelled, SelectedOf, IngressesOf
  <2>. QED  BY <2>3, <2>5
<1>. QED  BY <1>2, <1>3, <1>4, <1>5, <1>6 DEF IdlerWork

LEMMA UnidlerLabels ==
  ASSUME AwakeInv, SleepLabelInv, ~Faulty,
         NEW p \in Unidlers, UnidlerWork(p), UNCHANGED idlerVars
  PROVE  SleepLabelInv'
<1>. USE DEF AwakeInv, SleepLabelInv, TypeOK, UnidlerTypeOK
<1>1. \A q \in Idlers : idlerPc'[q] = "off"
  BY UnidlerMoves
<1>2. ScalesLabelled'
  BY <1>1 DEF ScalesLabelled
<1>3. CASE LabelUnidled(p)
  <2>1. /\ unidlerPc[p] = "label" /\ unidlerNs[p] \in Namespaces
        /\ UNCHANGED dep
        /\ \A n \in Namespaces : n # unidlerNs[p] => ns'[n] = ns[n]
    BY <1>3 DEF LabelUnidled, SetNs, depVars, ClusterTypeOK
  <2>2. \A n \in Namespaces : Down(n)' => Down(n) /\ n # unidlerNs[p]
    BY <2>1 DEF Woke, Down, DeploymentsOf
  <2>. QED  BY <1>2, <2>1, <2>2 DEF SleepIsLabelled, SelectedOf, IngressesOf
<1>4. ASSUME NEW d \in Deployments, WakeDeployment(p, d)
      PROVE  SleepLabelInv'
  <2>1. /\ wake[p][d] > 0 /\ UNCHANGED ns
        /\ dep' = [dep EXCEPT ![d] = AwakeDeployment(p, d)]
        /\ AwakeDeployment(p, d).replicas = wake[p][d]
    BY <1>4 DEF WakeDeployment, SetDep, AwakeDeployment, nsVars
  <2>2. \A e \in Deployments : dep'[e].replicas = 0 => dep[e].replicas = 0
    BY <2>1 DEF ClusterTypeOK
  <2>. QED  BY <1>2, <2>1, <2>2, SleepLabelKept
<1>5. CASE ~LabelUnidled(p) /\ \A d \in Deployments : ~WakeDeployment(p, d)
  <2>1. UNCHANGED <<dep, ns>>
    BY <1>5
    DEF UnidlerWork, LoadLock, StoreLock, ListWatched, ListWatchedError, WakeError, PodReady,
        GiveUpWaiting, ListPages, ListPagesError, StripPage, StripError, AllStripped, LabelError,
        Unlock, clusterVars, depVars, nsVars
  <2>. QED  BY <1>2, <2>1, SleepLabelKept
<1>. QED  BY <1>3, <1>4, <1>5

LEMMA StartLabels ==
  ASSUME AwakeInv, SleepLabelInv, Quiet, Start
  PROVE  SleepLabelInv'
<1>. USE DEF AwakeInv, SleepLabelInv, TypeOK
<1>1. ScalesLabelled'
  BY StartMoves DEF StartsAtBeginning, ScalesLabelled
<1>2. ASSUME NEW n \in Namespaces, NEW c \in Commands, PostCommand(n, c)
      PROVE  SleepLabelInv'
  <2>1. UNCHANGED dep /\ \A m \in Namespaces : ns'[m].idled = ns[m].idled
    BY <1>2 DEF PostCommand, SetNs, depVars, ClusterTypeOK
  <2>. QED  BY <1>1, <2>1, SleepLabelKept
<1>3. ASSUME NEW d \in Deployments, NEW count \in 1 .. MaxReplicas, Rescale(d, count)
      PROVE  SleepLabelInv'
  <2>1. UNCHANGED ns /\ \A e \in Deployments : dep'[e].replicas = 0 => dep[e].replicas = 0
    BY <1>3, TopologyAssumption DEF Rescale, SetDep, nsVars, ClusterTypeOK
  <2>. QED  BY <1>1, <2>1, SleepLabelKept
<1>4. CASE UNCHANGED <<dep, ns>>
  BY <1>1, <1>4, SleepLabelKept
<1>5. CASE \/ \E i \in Annotated, r \in Routers, items \in SUBSET UserItems : Annotate(i, r, items)
           \/ \E r \in Requests, n \in Namespaces : Request(r, n)
           \/ \E c \in Crons : CronStart(c)
           \/ \E n \in Namespaces : Reconcile(n)
  BY <1>4, <1>5
  DEF Annotate, Request, ReceiveRequest, CronStart, CronTick, CronNext, Reconcile, StartReconcile,
      ReconcileNothing, ReconcileForce, ReconcileUnidle, Take, clusterVars, depVars, nsVars
<1>. QED  BY <1>2, <1>3, <1>5 DEF Start

LEMMA SleepLabelStep ==
  ASSUME AwakeInv, SleepLabelInv, ~Faulty, "ingress" \notin Skip, [SerialNext]_vars
  PROVE  SleepLabelInv'
<1>1. CASE \E p \in Idlers : IdlerWork(p) /\ UNCHANGED unidlerVars
  BY <1>1, IdlerLabels
<1>2. CASE \E p \in Unidlers : UnidlerWork(p) /\ UNCHANGED idlerVars
  BY <1>2, UnidlerLabels
<1>3. CASE Quiet /\ Start
  BY <1>3, StartLabels
<1>4. CASE Restart
  BY <1>4, RestartMoves, SleepLabelKept DEF SleepLabelInv, ScalesLabelled
<1>5. CASE Background
  <2>. USE DEF AwakeInv, SleepLabelInv, TypeOK
  <2>1. UNCHANGED <<idlerPc, idlerNs, toScale, dep>>
    BY <1>5 DEF Background, idlerVars, runVars
  <2>2. \A n \in Namespaces : ns'[n].idled = ns[n].idled
    BY <1>5 DEF Background, ClearCommand, ClearError, SetNs, clusterVars, ClusterTypeOK,
                ControllerTypeOK
  <2>3. ScalesLabelled'
    BY <2>1, <2>2 DEF ScalesLabelled, IdlerTypeOK, DeploymentsOf, SelectedOf, IngressesOf
  <2>. QED  BY <2>1, <2>2, <2>3, SleepLabelKept
<1>. QED  BY <1>1, <1>2, <1>3, <1>4, <1>5, SerialStep

\* SleepIsLabelled, for every cluster: taken one at a time, the idler labels before
\* it scales and the unidler takes the label off last, so that a crash anywhere in
\* between leaves the label on whatever sleeps.
THEOREM SleepStaysLabelled ==
  ASSUME ~Faulty, "ingress" \notin Skip
  PROVE  SerialSpec => []SleepIsLabelled
<1>1. Init => SleepLabelInv
  <2>. SUFFICES ASSUME Init PROVE SleepLabelInv
    OBVIOUS
  <2>. PICK asleep \in SUBSET Namespaces,
            count \in [Deployments -> 1 .. MaxReplicas],
            target \in [Deployments -> 0 .. MaxReplicas],
            items \in [Ingresses -> [Routers -> SUBSET UserItems]] :
         InitialCluster(asleep, count, target, items)
    BY Zenon DEF Init, ClusterInit
  <2>1. ScalesLabelled
    BY DEF Init, IdlerInit, ScalesLabelled
  <2>2. ASSUME NEW d \in Deployments, dep[d].replicas = 0
        PROVE  NamespaceOf[d] \in asleep
    BY <2>2, TopologyAssumption DEF InitialCluster, FreshDeployment
  <2>3. \A n \in Namespaces : ns[n].idled <=> n \in asleep
    BY DEF InitialCluster
  <2>. QED  BY <2>1, <2>2, <2>3 DEF SleepLabelInv, SleepIsLabelled, Down, DeploymentsOf
<1>2. ASSUME TypeOK, Recoverable, OneAtATime, Woke, StripsOwn, SleepLabelInv, [SerialNext]_vars
      PROVE  OneAtATime' /\ Woke' /\ StripsOwn' /\ SleepLabelInv'
  BY <1>2, AwakeStep, SleepLabelStep DEF AwakeInv
<1>3. SleepLabelInv => SleepIsLabelled
  BY DEF SleepLabelInv
<1>. QED
  BY <1>1, <1>2, <1>3, AwakeInit, SerialIsAergia, TypeCorrect, ZeroIsRecoverable, PTL DEF SerialSpec

-----------------------------------------------------------------------------
(* What an Unidle mends                                                     *)

\* An Unidle is done with the pages that it has not still to strip; when it has
\* taken the label off as well, its deployments run.
Mended ==
    \A p \in Unidlers :
        /\ unidlerPc[p] = "strip" =>
               \A i \in IngressesOf(unidlerNs[p]) \ stripping[p] : ~Bounced(i)
        /\ unidlerPc[p] \in {"label", "unlock"} =>
               \A i \in IngressesOf(unidlerNs[p]) : ~Bounced(i)
        /\ unidlerPc[p] = "unlock" => ~Down(unidlerNs[p]) /\ ~ns[unidlerNs[p]].idled

MendInv == AnnotationInv /\ AwakeInv /\ Mended

LEMMA UnidlerMends ==
  ASSUME MendInv, ~Faulty, NEW p \in Unidlers, UnidlerWork(p), UNCHANGED idlerVars
  PROVE  Mended'
<1>. USE DEF MendInv, AnnotationInv, AwakeInv, TypeOK, UnidlerTypeOK, Goto
<1>1. /\ \A q \in Unidlers : q # p => unidlerPc'[q] = "off"
      /\ unidlerNs[p] \in Namespaces
  BY UnidlerMoves
<1>2. \A q \in Unidlers : unidlerPc'[q] # "off" => q = p
  BY <1>1
<1>3. ASSUME unidlerPc'[p] \in {"off", "store", "list", "wake"}
      PROVE  Mended'
  BY ONLY <1>2, <1>3 DEF Mended
<1>4. ASSUME NEW d \in Deployments, WakeDeployment(p, d) \/ PodReady(p, d) \/ GiveUpWaiting(p, d)
      PROVE  Mended'
  <2>1. unidlerPc'[p] = "wake"
    BY <1>4 DEF WakeDeployment, PodReady, GiveUpWaiting, Polling
  <2>. QED  BY <1>3, <2>1
<1>5. CASE LoadLock(p) \/ StoreLock(p) \/ ListWatched(p) \/ Unlock(p)
  <2>1. unidlerPc'[p] \in {"off", "store", "list", "wake"}
    BY <1>5 DEF LoadLock, StoreLock, ListWatched, Unlock, Finish
  <2>. QED  BY <1>3, <2>1
<1>6. CASE ListPages(p)
  <2>1. /\ unidlerPc[p] = "wake" /\ unidlerPc'[p] = "strip"
        /\ UNCHANGED <<page, unidlerNs>>
        /\ stripping'[p] = ToStrip(unidlerNs[p])
    BY <1>6 DEF ListPages, Polling, clusterVars
  <2>2. pageCache = page
    BY <2>1 DEF PagesRead
  <2>3. ASSUME NEW i \in IngressesOf(unidlerNs[p]), i \notin stripping'[p]
        PROVE  ~Bounced(i)'
    <3>1. i \in IngressesOf(unidlerNs[p]) /\ i \notin ToStrip(unidlerNs[p])
      BY <2>1, <2>3
    <3>2. page[i] = NoPage
      BY <2>2, <3>1 DEF ToStrip
    <3>. QED  BY <2>1, <3>2 DEF Bounced, NoPage
  <2>4. unidlerPc'[p] = "strip" /\ unidlerNs'[p] = unidlerNs[p]
    BY <2>1
  <2>. QED  BY ONLY <1>2, <2>3, <2>4 DEF Mended, IngressesOf
<1>7. ASSUME NEW i \in Ingresses, StripPage(p, i)
      PROVE  Mended'
  <2>1. /\ unidlerPc[p] = "strip" /\ i \in stripping[p]
        /\ UNCHANGED <<unidlerPc, unidlerNs>>
        /\ page' = [page EXCEPT ![i] =
               [r \in Routers |-> Stripped(stripFrom[p][i][r], page[i][r])]]
        /\ stripping'[p] = stripping[p] \ {i}
    BY <1>7 DEF StripPage, SetPage, Forget
  <2>2. /\ \A j \in Ingresses : j # i => page'[j] = page[j]
        /\ \A r \in Routers : page'[i][r] = Stripped(page[i][r], page[i][r])
    BY <2>1 DEF PagesRead, ClusterTypeOK
  <2>3. ~Bounced(i)'
    BY <2>2 DEF Bounced, Stripped, RemoveStatusCode
  <2>4. ASSUME NEW j \in IngressesOf(unidlerNs[p]), j \notin stripping'[p]
        PROVE  ~Bounced(j)'
    <3>1. \A k \in IngressesOf(unidlerNs[p]) \ stripping[p] : ~Bounced(k)
      BY <2>1 DEF Mended
    <3>2. CASE j = i
      BY <2>3, <3>2
    <3>3. CASE j # i
      <4>1. j \notin stripping[p] /\ page'[j] = page[j]
        BY <2>1, <2>2, <2>4, <3>3 DEF IngressesOf
      <4>. QED  BY <3>1, <4>1 DEF Bounced
    <3>. QED  BY <3>2, <3>3
  <2>5. unidlerPc'[p] = "strip" /\ unidlerNs'[p] = unidlerNs[p]
    BY <2>1
  <2>. QED  BY ONLY <1>2, <2>4, <2>5 DEF Mended, IngressesOf
<1>8. CASE AllStripped(p)
  <2>1. /\ unidlerPc[p] = "strip" /\ stripping[p] = {} /\ unidlerPc'[p] = "label"
        /\ UNCHANGED <<page, unidlerNs>>
    BY <1>8 DEF AllStripped, clusterVars
  <2>2. \A i \in IngressesOf(unidlerNs[p]) : ~Bounced(i)'
    BY <2>1 DEF Mended, Bounced
  <2>3. unidlerPc'[p] = "label" /\ unidlerNs'[p] = unidlerNs[p]
    BY <2>1
  <2>. QED  BY ONLY <1>2, <2>2, <2>3 DEF Mended, IngressesOf
<1>9. CASE LabelUnidled(p)
  <2>1. /\ unidlerPc[p] = "label" /\ unidlerPc'[p] = "unlock"
        /\ UNCHANGED <<page, dep, unidlerNs>>
        /\ ~ns'[unidlerNs[p]].idled
    BY <1>1, <1>9 DEF LabelUnidled, SetNs, depVars, pageVars, ClusterTypeOK
  <2>2. \A i \in IngressesOf(unidlerNs[p]) : ~Bounced(i)'
    BY <2>1 DEF Mended, Bounced
  <2>3. ~Down(unidlerNs[p])'
    BY <2>1 DEF Woke, Down, DeploymentsOf
  <2>4. unidlerPc'[p] = "unlock" /\ unidlerNs'[p] = unidlerNs[p]
    BY <2>1
  <2>. QED  BY ONLY <1>2, <2>1, <2>2, <2>3, <2>4 DEF Mended, IngressesOf, Down, DeploymentsOf
<1>10. /\ ~ListWatchedError(p) /\ ~ListPagesError(p) /\ ~LabelError(p)
       /\ \A d \in Deployments : ~WakeError(p, d)
       /\ \A i \in Ingresses : ~StripError(p, i)
  BY DEF ListWatchedError, ListPagesError, LabelError, WakeError, StripError
<1>. QED
  BY <1>4, <1>5, <1>6, <1>7, <1>8, <1>9, <1>10 DEF UnidlerWork

LEMMA MendStep ==
  ASSUME MendInv, ~Faulty, [SerialNext]_vars
  PROVE  Mended'
<1>. USE DEF MendInv, AwakeInv, TypeOK
<1>1. ASSUME NEW p \in Idlers, IdlerWork(p), UNCHANGED unidlerVars
      PROVE  Mended'
  <2>1. \A q \in Unidlers : unidlerPc'[q] = "off"
    BY <1>1, IdlerMoves
  <2>. QED  BY <2>1 DEF Mended
<1>2. CASE \E p \in Unidlers : UnidlerWork(p) /\ UNCHANGED idlerVars
  BY <1>2, UnidlerMends
<1>3. CASE Quiet /\ Start
  <2>1. \A q \in Unidlers : unidlerPc'[q] \in {"off", "load", "list"}
    BY <1>3, StartMoves DEF StartsAtBeginning
  <2>. QED  BY <2>1 DEF Mended
<1>4. CASE Restart
  BY <1>4, RestartMoves DEF Mended
<1>5. CASE Background
  <2>1. UNCHANGED <<unidlerPc, unidlerNs, stripping, dep, page>>
    BY <1>5 DEF Background, unidlerVars, stripVars
  <2>2. \A n \in Namespaces : ns'[n].idled = ns[n].idled
    BY <1>5 DEF Background, ClearCommand, ClearError, SetNs, clusterVars, ClusterTypeOK,
                ControllerTypeOK
  <2>3. /\ \A i \in Ingresses : Bounced(i)' <=> Bounced(i)
        /\ \A n \in Namespaces : Down(n)' <=> Down(n)
    BY <2>1 DEF Bounced, Down, DeploymentsOf
  <2>. QED  BY <2>1, <2>2, <2>3 DEF Mended, UnidlerTypeOK, IngressesOf
<1>. QED  BY <1>1, <1>2, <1>3, <1>4, <1>5, SerialStep

\* UnidleCompletes, for every cluster: taken one at a time, an Unidle that gets to its
\* end leaves nothing of what earlier operations left half done, wherever they died,
\* whatever users keep in the annotations and whichever polls are given up.
THEOREM UnidleMends ==
  ASSUME ~Faulty
  PROVE  SerialSpec => []UnidleCompletes
<1>1. Init => Mended
  BY DEF Init, UnidlerInit, Mended
<1>2. ASSUME TypeOK, Recoverable, OneAtATime, Woke, StripsOwn, PagesRead, RoutersAgree, Mended,
             [SerialNext]_vars
      PROVE  OneAtATime' /\ Woke' /\ StripsOwn' /\ PagesRead' /\ RoutersAgree' /\ Mended'
  BY <1>2, AwakeStep, AnnotationStep, MendStep DEF AwakeInv, AnnotationInv, MendInv
<1>3. Mended => UnidleCompletes
  BY DEF Mended, UnidleCompletes
<1>. QED
  BY <1>1, <1>2, <1>3, AwakeInit, AnnotationInit, SerialIsAergia, TypeCorrect, ZeroIsRecoverable,
     PTL
  DEF SerialSpec

-----------------------------------------------------------------------------
(* The force labels                                                         *)

\* A request gets past checkForceScaled only where it is right to, and by the time
\* it wakes a deployment nothing has changed.
HeldInv == AwakeInv /\ HandlerAtWork /\ RequestsHeld

LEMMA HandlerStart ==
  ASSUME HandlerAtWork, TypeOK, Quiet, Start
  PROVE  HandlerAtWork'
<1>. USE DEF TypeOK, IdlerTypeOK, UnidlerTypeOK, Goto
<1>1. /\ \A q \in Idlers : idlerPc[q] = "off"
      /\ \A q \in Unidlers : unidlerPc[q] = "off"
      /\ Reconciler \in Idlers /\ Reconciler \in Unidlers
  BY DEF Quiet, Idlers, Unidlers
<1>2. CASE idlerPc'[Reconciler] = "off" /\ unidlerPc'[Reconciler] = "off"
  BY <1>2 DEF HandlerAtWork
<1>3. CASE \E n \in Namespaces : ReconcileForce(n)
  BY <1>1, <1>3 DEF ReconcileForce, StartIdler, HandlerAtWork, unidlerVars
<1>4. CASE \E n \in Namespaces : ReconcileUnidle(n)
  BY <1>1, <1>4 DEF ReconcileUnidle, HandlerAtWork, idlerVars, runVars
<1>5. CASE \E r \in Requests, n \in Namespaces : Request(r, n)
  <2>1. idlerPc'[Reconciler] = "off" /\ unidlerPc'[Reconciler] = "off"
    BY <1>1, <1>5, UnidlerAssumption DEF Request, ReceiveRequest, idlerVars, runVars
  <2>. QED  BY <1>2, <2>1
<1>6. CASE \E c \in Crons : CronStart(c)
  <2>1. idlerPc'[Reconciler] = "off" /\ unidlerPc'[Reconciler] = "off"
    BY <1>1, <1>6, IdlerAssumption
    DEF CronStart, CronTick, CronNext, StartIdler, runVars, unidlerVars
  <2>. QED  BY <1>2, <2>1
<1>7. CASE UNCHANGED <<idlerPc, unidlerPc>>
  BY <1>1, <1>2, <1>7
<1>8. CASE \/ \E n \in Namespaces, c \in Commands : PostCommand(n, c)
           \/ \E d \in Deployments, count \in 1 .. MaxReplicas : Rescale(d, count)
           \/ \E i \in Annotated, r \in Routers, items \in SUBSET UserItems : Annotate(i, r, items)
           \/ \E n \in Namespaces : ReconcileNothing(n)
  BY <1>7, <1>8
  DEF PostCommand, Rescale, Annotate, ReconcileNothing, processVars, idlerVars, runVars, unidlerVars
<1>. QED
  BY <1>3, <1>4, <1>5, <1>6, <1>8 DEF Start, Reconcile, StartReconcile

LEMMA HandlerStep ==
  ASSUME HandlerAtWork, OneAtATime, TypeOK, [SerialNext]_vars
  PROVE  HandlerAtWork'
<1>. USE DEF TypeOK
<1>1. Reconciler \in Idlers /\ Reconciler \in Unidlers
  BY DEF Idlers, Unidlers
<1>2. ASSUME NEW p \in Idlers, IdlerWork(p), UNCHANGED <<unidlerVars, controllerVars>>
      PROVE  HandlerAtWork'
  <2>1. /\ \A q \in Idlers : q # p => idlerPc'[q] = "off"
        /\ \A q \in Unidlers : unidlerPc'[q] = "off"
        /\ idlerPc[p] # "off"
    BY <1>2, IdlerMoves
  <2>2. idlerPc'[p] = "off" \/ UNCHANGED <<idlerNs, force>>
    BY <1>2 DEF IdlerWork, BuildRunning, ListDeployments, NotIdle, Decide, DecideToPatch,
       DecideToScale, PatchIngress, LabelIdled, IdlerError, AllScaled, IdleDeployment,
       SkipDeployment, Return, IdlerTypeOK
  <2>. QED  BY <1>1, <1>2, <2>1, <2>2 DEF HandlerAtWork, controllerVars
<1>3. ASSUME NEW p \in Unidlers, UnidlerWork(p), UNCHANGED <<idlerVars, controllerVars>>
      PROVE  HandlerAtWork'
  <2>1. /\ \A q \in Unidlers : q # p => unidlerPc'[q] = "off"
        /\ \A q \in Idlers : idlerPc'[q] = "off"
        /\ unidlerPc[p] # "off"
    BY <1>3, UnidlerMoves
  <2>. QED  BY <1>1, <1>3, <2>1 DEF HandlerAtWork, controllerVars
<1>4. CASE Quiet /\ Start
  BY <1>4, HandlerStart
<1>5. CASE Restart
  BY <1>1, <1>5, RestartMoves DEF HandlerAtWork
<1>6. CASE Background
  <2>1. UNCHANGED <<idlerPc, idlerNs, force, unidlerPc>>
    BY <1>6 DEF Background, idlerVars, runVars, unidlerVars
  <2>2. CASE ClearCommand \/ ClearError
    BY <2>1, <2>2 DEF ClearCommand, ClearError, HandlerReturned, HandlerAtWork
  <2>3. CASE UNCHANGED controllerVars
    BY <2>1, <2>3 DEF HandlerAtWork, controllerVars
  <2>. QED  BY <1>6, <2>2, <2>3 DEF Background
<1>. QED  BY <1>2, <1>3, <1>4, <1>5, <1>6, SerialStep

\* No deployment becomes force scaled, or ceases to be, but by one patch of the idler
\* or the unidler.
LEMMA HeldStep ==
  ASSUME HeldInv, ~Faulty, [SerialNext]_vars
  PROVE  /\ RequestsHeld'
         /\ \A d \in Deployments : dep[d].forceScaled /\ ~dep'[d].forceScaled =>
                handling = "unidle"
<1>. USE DEF HeldInv, AwakeInv, TypeOK, UnidlerTypeOK, Goto
<1>1. Requests \subseteq Unidlers /\ Reconciler \in Unidlers
  BY DEF Unidlers
<1>2. ASSUME NEW p \in Idlers, IdlerWork(p), UNCHANGED unidlerVars
      PROVE  /\ RequestsHeld'
             /\ \A d \in Deployments : dep[d].forceScaled => dep'[d].forceScaled
  <2>1. \A q \in Unidlers : unidlerPc'[q] = "off"
    BY <1>2, IdlerMoves
  <2>2. RequestsHeld'
    BY <1>1, <2>1 DEF RequestsHeld
  <2>3. ASSUME NEW d \in Deployments, IdleDeployment(p, d)
        PROVE  \A e \in Deployments : dep[e].forceScaled => dep'[e].forceScaled
    BY <2>3 DEF IdleDeployment, SetDep, IdledBy, ClusterTypeOK
  <2>4. CASE ~ \E d \in Deployments : IdleDeployment(p, d)
    <3>1. UNCHANGED dep
      BY <1>2, <2>4 DEF IdlerWork, BuildRunning, ListDeployments, NotIdle, Decide, DecideToPatch,
         DecideToScale, PatchIngress, LabelIdled, IdlerError, AllScaled, SkipDeployment,
         clusterVars, depVars
    <3>. QED  BY <2>2, <3>1
  <2>. QED  BY <2>2, <2>3, <2>4
<1>3. ASSUME NEW p \in Unidlers, UnidlerWork(p), UNCHANGED <<idlerVars, controllerVars>>
      PROVE  /\ RequestsHeld'
             /\ \A d \in Deployments : dep[d].forceScaled /\ ~dep'[d].forceScaled =>
                    handling = "unidle"
  <2>1. /\ \A q \in Unidlers : q # p => unidlerPc'[q] = "off"
        /\ unidlerPc[p] # "off"
    BY <1>3, UnidlerMoves
  <2>2. unidlerPc'[p] = "off" \/ unidlerNs'[p] = unidlerNs[p]
    BY <1>3 DEF UnidlerWork, LoadLock, StoreLock, ListWatched, ListWatchedError, WakeDeployment,
       WakeError, PodReady, GiveUpWaiting, ListPages, ListPagesError, StripPage, StripError,
       AllStripped, LabelUnidled, LabelError, Unlock, Finish
  <2>3. ASSUME NEW d \in Deployments, WakeDeployment(p, d)
        PROVE  /\ \A e \in Deployments : e # d => dep'[e] = dep[e]
               /\ NamespaceOf[d] = unidlerNs[p] /\ ~dep'[d].forceScaled
    BY <2>3 DEF WakeDeployment, SetDep, AwakeDeployment, Woke, ClusterTypeOK
  <2>4. CASE ~ \E d \in Deployments : WakeDeployment(p, d)
    <3>1. UNCHANGED dep
      BY <1>3, <2>4
      DEF UnidlerWork, LoadLock, StoreLock, ListWatched, ListWatchedError, WakeError, PodReady,
          GiveUpWaiting, ListPages, ListPagesError, StripPage, StripError, AllStripped,
          LabelUnidled, LabelError, Unlock, clusterVars, depVars
    <3>2. RequestsHeld'
      BY <1>1, <2>1, <2>2, <3>1 DEF RequestsHeld, DeploymentsOf
    <3>. QED  BY <3>1, <3>2
  <2>5. CASE \E d \in Deployments : WakeDeployment(p, d)
    <3>. PICK d \in Deployments : WakeDeployment(p, d)
      BY <2>5
    <3>1. \A e \in Deployments : dep'[e].forceScaled => dep[e].forceScaled
      BY <2>3
    <3>2. RequestsHeld'
      BY <1>1, <2>1, <2>2, <3>1 DEF RequestsHeld, DeploymentsOf
    <3>3. CASE p \in Requests
      BY <2>1, <2>3, <3>2, <3>3 DEF RequestsHeld, DeploymentsOf
    <3>4. CASE p = Reconciler
      BY <2>1, <3>2, <3>4 DEF HandlerAtWork
    <3>. QED  BY <3>2, <3>3, <3>4 DEF Unidlers
  <2>. QED  BY <2>4, <2>5
<1>4. CASE Quiet /\ Start
  <2>1. depCache = dep /\ \A q \in Unidlers : unidlerPc[q] = "off"
    BY <1>4 DEF Quiet
  <2>2. ASSUME NEW r \in Requests, NEW n \in Namespaces, Request(r, n)
        PROVE  RequestsHeld' /\ UNCHANGED dep
    <3>1. /\ \A d \in DeploymentsOf(n) : ~dep[d].forceScaled
          /\ unidlerNs'[r] = n /\ UNCHANGED dep
          /\ \A q \in Unidlers : q # r => unidlerPc'[q] = "off"
      BY <1>1, <2>1, <2>2 DEF Request, ReceiveRequest, ForceScaled, clusterVars
    <3>. QED  BY <1>1, <3>1 DEF RequestsHeld, DeploymentsOf
  <2>3. ASSUME NEW d \in Deployments, NEW count \in 1 .. MaxReplicas, Rescale(d, count)
        PROVE  /\ RequestsHeld'
               /\ \A e \in Deployments : dep'[e].forceScaled = dep[e].forceScaled
    <3>1. UNCHANGED unidlerPc
      BY <2>3 DEF Rescale, processVars, unidlerVars
    <3>2. RequestsHeld'
      BY <1>1, <2>1, <3>1 DEF RequestsHeld
    <3>. QED  BY <2>3, <3>2 DEF Rescale, SetDep, ClusterTypeOK
  <2>4. CASE \/ \E n \in Namespaces, c \in Commands : PostCommand(n, c)
             \/ \E i \in Annotated, r \in Routers, items \in SUBSET UserItems : Annotate(i, r, items)
             \/ \E c \in Crons : CronStart(c)
             \/ \E n \in Namespaces : Reconcile(n)
    <3>1. UNCHANGED dep /\ \A r \in Requests : unidlerPc'[r] = "off"
      BY <1>1, <2>1, <2>4, UnidlerAssumption
      DEF PostCommand, Annotate, CronStart, CronTick, CronNext, Reconcile, StartReconcile,
          ReconcileNothing, ReconcileForce, ReconcileUnidle, Take, processVars, unidlerVars,
          clusterVars, depVars
    <3>. QED  BY <3>1 DEF RequestsHeld
  <2>. QED  BY <1>4, <2>2, <2>3, <2>4 DEF Start
<1>5. CASE Restart
  BY <1>1, <1>5, RestartMoves DEF RequestsHeld
<1>6. CASE Background
  BY <1>6 DEF Background, RequestsHeld, DeploymentsOf, unidlerVars
<1>. QED  BY <1>2, <1>3, <1>4, <1>5, <1>6, SerialStep

\* ForceScaledHolds, for every cluster: taken one at a time, nothing but an unidle
\* command wakes what was force scaled, wherever the process dies.
THEOREM ForceScaledStays ==
  ASSUME ~Faulty
  PROVE  SerialSpec => ForceScaledHolds
<1>1. Init => HandlerAtWork /\ RequestsHeld
  BY DEF Init, IdlerInit, UnidlerInit, HandlerAtWork, RequestsHeld, Idlers, Unidlers
<1>2. ASSUME TypeOK, Recoverable, OneAtATime, Woke, StripsOwn, HandlerAtWork, RequestsHeld,
             [SerialNext]_vars
      PROVE  /\ OneAtATime' /\ Woke' /\ StripsOwn' /\ HandlerAtWork' /\ RequestsHeld'
             /\ [\A d \in Deployments : dep[d].forceScaled /\ ~dep'[d].forceScaled =>
                     handling = "unidle"]_vars
  BY <1>2, AwakeStep, HandlerStep, HeldStep DEF HeldInv, AwakeInv
<1>. QED
  BY <1>1, <1>2, AwakeInit, SerialIsAergia, TypeCorrect, ZeroIsRecoverable, PTL
  DEF SerialSpec, ForceScaledHolds

\* A forced run does not end before it has scaled everything.
ForceInv == TypeOK /\ OneAtATime /\ HandlerAtWork /\ WorkerAlone /\ ForceDone

LEMMA WorkerAloneStep ==
  ASSUME TypeOK, OneAtATime, WorkerAlone, [SerialNext]_vars
  PROVE  WorkerAlone'
<1>. USE DEF TypeOK
<1>1. ASSUME NEW p \in Idlers, IdlerWork(p), UNCHANGED <<unidlerVars, controllerVars>>
      PROVE  WorkerAlone'
  <2>1. /\ \A q \in Idlers : q # p => idlerPc'[q] = "off"
        /\ \A q \in Unidlers : unidlerPc'[q] = "off"
        /\ idlerPc[p] # "off"
    BY <1>1, IdlerMoves
  <2>. QED  BY <1>1, <2>1 DEF WorkerAlone, controllerVars, Idlers, Unidlers
<1>2. ASSUME NEW p \in Unidlers, UnidlerWork(p), UNCHANGED <<idlerVars, controllerVars>>
      PROVE  WorkerAlone'
  <2>1. /\ \A q \in Unidlers : q # p => unidlerPc'[q] = "off"
        /\ \A q \in Idlers : idlerPc'[q] = "off"
        /\ unidlerPc[p] # "off"
    BY <1>2, UnidlerMoves
  <2>. QED  BY <1>2, <2>1 DEF WorkerAlone, controllerVars, Idlers, Unidlers
<1>3. CASE Quiet /\ Start
  <2>1. /\ \A q \in Idlers : idlerPc[q] = "off"
        /\ \A q \in Unidlers : unidlerPc[q] = "off"
        /\ handling = "none"
    BY <1>3 DEF Quiet
  <2>2. ASSUME NEW n \in Namespaces, Reconcile(n)
        PROVE  WorkerAlone'
    <3>1. /\ \A c \in Crons : idlerPc'[c] = idlerPc[c]
          /\ \A r \in Requests : unidlerPc'[r] = unidlerPc[r]
      <4>. Crons \subseteq Idlers \ {Reconciler} /\ Requests \subseteq Unidlers \ {Reconciler}
        BY IdlerAssumption, UnidlerAssumption DEF Idlers, Unidlers
      <4>1. CASE ReconcileNothing(n)
        BY <4>1 DEF ReconcileNothing, idlerVars, runVars, unidlerVars
      <4>2. CASE ReconcileForce(n)
        BY <4>2 DEF ReconcileForce, StartIdler, unidlerVars, IdlerTypeOK
      <4>3. CASE ReconcileUnidle(n)
        BY <4>3 DEF ReconcileUnidle, Goto, idlerVars, runVars, UnidlerTypeOK
      <4>. QED  BY <2>2, <4>1, <4>2, <4>3 DEF Reconcile, StartReconcile
    <3>. QED  BY <2>1, <3>1 DEF WorkerAlone, Idlers, Unidlers
  <2>3. CASE ~ \E n \in Namespaces : Reconcile(n)
    <3>1. UNCHANGED handling
      BY <1>3, <2>3
      DEF Start, PostCommand, Rescale, Annotate, Request, CronStart, processVars, controllerVars
    <3>. QED  BY <2>1, <3>1 DEF WorkerAlone
  <2>. QED  BY <2>2, <2>3
<1>4. CASE Restart
  BY <1>4, RestartMoves DEF WorkerAlone
<1>5. CASE Background
  <2>1. UNCHANGED <<idlerPc, unidlerPc>>
    BY <1>5 DEF Background, idlerVars, runVars, unidlerVars
  <2>2. handling' = "none" \/ handling' = handling
    BY <1>5 DEF Background, ClearCommand, ClearError, controllerVars
  <2>. QED  BY <2>1, <2>2 DEF WorkerAlone
<1>. QED  BY <1>1, <1>2, <1>3, <1>4, <1>5, SerialStep

\* The worker's run for a force command, which has no way to end early.
LEMMA IdlerForce ==
  ASSUME ForceInv, ~Faulty, ~DryRun, "builds" \in Skip,
         IdlerWork(Reconciler), UNCHANGED controllerVars, handling \in {"force-scaled", "force-idled"}
  PROVE  ForceDone'
<1>. USE DEF ForceInv, TypeOK, IdlerTypeOK
<1>1. Reconciler \in Idlers
  BY DEF Idlers
<1>2. idlerPc[Reconciler] # "off" /\ UNCHANGED <<handling, handlingNs>>
  BY DEF IdlerWork, BuildRunning, ListDeployments, NotIdle, Decide, DecideToPatch, DecideToScale,
         PatchIngress, LabelIdled, IdlerError, AllScaled, IdleDeployment, SkipDeployment,
         controllerVars
<1>3. force[Reconciler] = handling /\ idlerNs[Reconciler] = handlingNs
  BY <1>2 DEF HandlerAtWork
<1>4. ~BuildRunning(Reconciler) /\ ~NotIdle(Reconciler) /\ ~IdlerError(Reconciler)
  BY <1>3 DEF BuildRunning, NotIdle, IdlerError
<1>5. CASE ListDeployments(Reconciler)
  BY <1>1, <1>5 DEF ListDeployments, ForceDone
<1>6. CASE DecideToPatch(Reconciler)
  BY <1>1, <1>6 DEF DecideToPatch, ForceDone
<1>7. CASE DecideToScale(Reconciler) \/ LabelIdled(Reconciler)
  <2>1. idlerPc'[Reconciler] = "scale" /\ toScale'[Reconciler] = DeploymentsOf(handlingNs)
    BY <1>1, <1>3, <1>7 DEF DecideToScale, LabelIdled, Targets
  <2>. QED  BY <1>2, <2>1 DEF ForceDone, DeploymentsOf
<1>8. ASSUME NEW i \in Ingresses, PatchIngress(Reconciler, i)
      PROVE  ForceDone'
  BY <1>8 DEF PatchIngress, ForceDone
<1>9. CASE AllScaled(Reconciler)
  <2>1. /\ idlerPc[Reconciler] = "scale" /\ toScale[Reconciler] = {}
        /\ UNCHANGED dep
    BY <1>9 DEF AllScaled, clusterVars, depVars
  <2>2. \A d \in DeploymentsOf(handlingNs) : Forced(d, handling)
    BY <2>1 DEF ForceDone
  <2>. QED  BY <1>2, <2>1, <2>2 DEF ForceDone, Forced, DeploymentsOf
<1>10. ASSUME NEW d \in Deployments, IdleDeployment(Reconciler, d) \/ SkipDeployment(Reconciler, d)
       PROVE  ForceDone'
  <2>1. /\ idlerPc[Reconciler] = "scale" /\ UNCHANGED idlerPc
        /\ dep' = [dep EXCEPT ![d] = IdledBy(Reconciler, d)]
        /\ toScale'[Reconciler] = toScale[Reconciler] \ {d}
    BY <1>1, <1>10 DEF IdleDeployment, SkipDeployment, SetDep
  <2>2. Forced(d, handling)'
    BY <1>2, <1>3, <2>1 DEF Forced, IdledBy, ClusterTypeOK
  <2>3. \A e \in Deployments : e # d /\ Forced(e, handling) => Forced(e, handling)'
    BY <1>2, <2>1 DEF Forced, ClusterTypeOK
  <2>4. ASSUME NEW e \in DeploymentsOf(handlingNs)
        PROVE  e \in toScale'[Reconciler] \/ Forced(e, handling)'
    <3>1. e \in Deployments
      BY DEF DeploymentsOf
    <3>2. e \in toScale[Reconciler] \/ Forced(e, handling)
      BY <2>1 DEF ForceDone
    <3>. QED  BY <2>1, <2>2, <2>3, <3>1, <3>2
  <2>. QED  BY <1>2, <2>1, <2>4 DEF ForceDone, DeploymentsOf
<1>. QED  BY <1>4, <1>5, <1>6, <1>7, <1>8, <1>9, <1>10 DEF IdlerWork

LEMMA ForceStep ==
  ASSUME ForceInv, ~Faulty, ~DryRun, "builds" \in Skip, [SerialNext]_vars
  PROVE  ForceDone'
<1>. USE DEF ForceInv, TypeOK, IdlerTypeOK, UnidlerTypeOK
<1>. Reconciler \in Idlers /\ Reconciler \in Unidlers
  BY DEF Idlers, Unidlers
<1>. DEFINE Busy == handling \in {"force-scaled", "force-idled"}
<1>1. ASSUME NEW p \in Idlers, IdlerWork(p), UNCHANGED <<unidlerVars, controllerVars>>
      PROVE  ForceDone'
  <2>1. CASE ~Busy
    BY <1>1, <2>1 DEF ForceDone, controllerVars
  <2>2. CASE Busy
    <3>1. idlerPc[p] # "off"
      BY <1>1, IdlerMoves
    <3>2. p = Reconciler
      BY <2>2, <3>1 DEF WorkerAlone, Idlers
    <3>. QED  BY <1>1, <2>2, <3>2, IdlerForce
  <2>. QED  BY <2>1, <2>2
<1>2. ASSUME NEW p \in Unidlers, UnidlerWork(p), UNCHANGED <<idlerVars, controllerVars>>
      PROVE  ForceDone'
  <2>1. unidlerPc[p] # "off"
    BY <1>2, UnidlerMoves
  <2>2. ~Busy
    BY <2>1 DEF WorkerAlone, HandlerAtWork, Unidlers
  <2>. QED  BY <1>2, <2>2 DEF ForceDone, controllerVars
<1>3. CASE Quiet /\ Start
  <2>1. handling = "none"
    BY <1>3 DEF Quiet
  <2>2. ASSUME NEW n \in Namespaces, ReconcileForce(n)
        PROVE  ForceDone'
    BY <2>2 DEF ReconcileForce, StartIdler, ForceDone
  <2>3. CASE ~ \E n \in Namespaces : ReconcileForce(n)
    <3>1. handling' \in {"none", "unidle"}
      BY <1>3, <2>1, <2>3
      DEF Start, PostCommand, Rescale, Annotate, Request, CronStart, processVars, controllerVars,
          Reconcile, StartReconcile, ReconcileNothing, ReconcileUnidle
    <3>. QED  BY <3>1 DEF ForceDone
  <2>. QED  BY <2>2, <2>3
<1>4. CASE Restart
  BY <1>4, RestartMoves DEF ForceDone
<1>5. CASE Background
  <2>1. UNCHANGED <<idlerPc, toScale, dep>>
    BY <1>5 DEF Background, idlerVars, runVars
  <2>2. CASE ClearCommand \/ ClearError
    BY <2>2 DEF ClearCommand, ClearError, ForceDone
  <2>3. CASE UNCHANGED controllerVars
    BY <2>1, <2>3 DEF ForceDone, Forced, DeploymentsOf, controllerVars
  <2>. QED  BY <1>5, <2>2, <2>3 DEF Background
<1>. QED  BY <1>1, <1>2, <1>3, <1>4, <1>5, SerialStep

LEMMA SetNsKeepsCommands ==
  ASSUME TypeOK, NEW m \in Namespaces, NEW value, SetNs(m, value),
         ns[m].commands \subseteq value.commands
  PROVE  \A n \in Namespaces : ns[n].commands \subseteq ns'[n].commands
BY DEF TypeOK, ClusterTypeOK, SetNs

\* The labels of commands go by ClearCommand alone, one at a time.
LEMMA CommandsStay ==
  ASSUME TypeOK, [SerialNext]_vars, NEW n \in Namespaces, NEW c \in Commands,
         c \in ns[n].commands, c \notin ns'[n].commands
  PROVE  ClearCommand /\ n = handlingNs /\ c = handling
<1>. USE DEF TypeOK
<1>1. ns' # ns
  OBVIOUS
<1>2. ASSUME NEW p \in Idlers, IdlerWork(p)
      PROVE  FALSE
  <2>1. LabelIdled(p)
    BY <1>1, <1>2
    DEF IdlerWork, BuildRunning, ListDeployments, NotIdle, Decide, DecideToPatch, DecideToScale,
        PatchIngress, IdlerError, AllScaled, IdleDeployment, SkipDeployment, clusterVars, nsVars
  <2>2. idlerNs[p] \in Namespaces
    BY DEF IdlerTypeOK
  <2>. QED  BY <2>1, <2>2, SetNsKeepsCommands DEF LabelIdled
<1>3. ASSUME NEW p \in Unidlers, UnidlerWork(p)
      PROVE  FALSE
  <2>1. LabelUnidled(p)
    BY <1>1, <1>3
    DEF UnidlerWork, LoadLock, StoreLock, ListWatched, ListWatchedError, WakeDeployment,
        WakeError, PodReady, GiveUpWaiting, ListPages, ListPagesError, StripPage, StripError,
        AllStripped, LabelError, Unlock, clusterVars, nsVars
  <2>2. unidlerNs[p] \in Namespaces
    BY DEF UnidlerTypeOK
  <2>. QED  BY <2>1, <2>2, SetNsKeepsCommands DEF LabelUnidled
<1>4. ASSUME Start
      PROVE  FALSE
  <2>1. PICK m \in Namespaces, posted \in Commands : PostCommand(m, posted)
    BY <1>1, <1>4
    DEF Start, Rescale, Annotate, Request, ReceiveRequest, CronStart, CronTick, CronNext,
        Reconcile, StartReconcile, ReconcileNothing, ReconcileForce, ReconcileUnidle, Take,
        clusterVars, nsVars
  <2>. QED  BY <2>1, SetNsKeepsCommands DEF PostCommand
<1>5. ASSUME Restart
      PROVE  FALSE
  BY <1>1, <1>5, RestartMoves
<1>6. CASE Background
  <2>1. ClearCommand
    BY <1>1, <1>6 DEF Background, ClearError, clusterVars
  <2>. QED  BY <2>1 DEF ClearCommand, SetNs, ClusterTypeOK, ControllerTypeOK
<1>. QED  BY <1>2, <1>3, <1>4, <1>5, <1>6, SerialStep

\* ForceObeyed, for every cluster: taken one at a time, and where builds are not
\* looked for, a force command loses its label only when it has been carried out,
\* wherever the process dies.
THEOREM ForceIsObeyed ==
  ASSUME ~Faulty, ~DryRun, "builds" \in Skip
  PROVE  SerialSpec => ForceObeyed
<1>. DEFINE Obeyed ==
       \A n \in Namespaces, c \in {"force-scaled", "force-idled"} :
           c \in ns[n].commands /\ c \notin ns'[n].commands =>
               \A d \in DeploymentsOf(n) : Forced(d, c)
<1>1. Init => OneAtATime /\ HandlerAtWork /\ WorkerAlone /\ ForceDone
  BY DEF Init, IdlerInit, UnidlerInit, ControllerInit, OneAtATime, HandlerAtWork, WorkerAlone,
         ForceDone, Idlers, Unidlers
<1>2. ASSUME ForceInv, [SerialNext]_vars
      PROVE  OneAtATime' /\ HandlerAtWork' /\ WorkerAlone' /\ ForceDone'
  BY <1>2, OneAtATimeStep, HandlerStep, WorkerAloneStep, ForceStep DEF ForceInv
<1>3. ASSUME ForceInv, [SerialNext]_vars
      PROVE  Obeyed
  <2>. SUFFICES ASSUME NEW n \in Namespaces, NEW c \in {"force-scaled", "force-idled"},
                       c \in ns[n].commands, c \notin ns'[n].commands
                PROVE  \A d \in DeploymentsOf(n) : Forced(d, c)
    OBVIOUS
  <2>1. ClearCommand /\ n = handlingNs /\ c = handling
    BY <1>3, CommandsStay DEF ForceInv, Commands
  <2>. QED  BY <1>3, <2>1 DEF ForceInv, ForceDone, ClearCommand, HandlerReturned
<1>4. ASSUME TypeOK, OneAtATime, HandlerAtWork, WorkerAlone, ForceDone, [SerialNext]_vars
      PROVE  /\ OneAtATime' /\ HandlerAtWork' /\ WorkerAlone' /\ ForceDone'
             /\ [\A n \in Namespaces, c \in {"force-scaled", "force-idled"} :
                    c \in ns[n].commands /\ c \notin ns'[n].commands =>
                        \A d \in DeploymentsOf(n) :
                            dep[d].replicas = 0 /\ (c = "force-scaled" => dep[d].forceScaled)]_vars
  BY <1>2, <1>3, <1>4 DEF ForceInv, Forced
<1>. QED
  BY <1>1, <1>4, SerialIsAergia, TypeCorrect, PTL DEF SerialSpec, ForceObeyed
=============================================================================
