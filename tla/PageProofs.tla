----------------------------- MODULE PageProofs -----------------------------
(***************************************************************************)
(* The annotations and pages of ingresses while operations overlap in every *)
(* way, for every cluster, every number of requests, cron firings and       *)
(* commands, failing calls, crashes and lagging informers: what users put   *)
(* in the annotations stays, and the two routers agree, except where a read *)
(* that has become stale is written back.  The second half is about the     *)
(* unidlers alone: when nobody idles, however many of them overlap, the     *)
(* routers agree whatever users write, no environment is dark, each Unidle  *)
(* that ends leaves its environment up and reachable, and pages stay up     *)
(* until the pods run.                                                      *)
(***************************************************************************)
EXTENDS AergiaProofs

-----------------------------------------------------------------------------
(* Who writes annotations                                                   *)

\* What an idler or an unidler has still to write back is what it had, or what its
\* cache holds now.
CopiesRead ==
    /\ \A p \in Idlers : \A i \in toPatch'[p] :
           \/ i \in toPatch[p] /\ patchFrom'[p][i] = patchFrom[p][i]
           \/ patchFrom'[p][i] = pageCache[i]
    /\ \A p \in Unidlers : \A i \in stripping'[p] :
           \/ i \in stripping[p] /\ stripFrom'[p][i] = stripFrom[p][i]
           \/ stripFrom'[p][i] = pageCache[i]

CacheFollows == pageCache' = pageCache \/ pageCache' = page \/ pageCache' = page'

\* The three writers of an annotation.
Patched(p, i) ==
    /\ idlerPc[p] = "patch" /\ i \in toPatch[p]
    /\ page' = [page EXCEPT ![i] = [r \in Routers |-> AddStatusCode(patchFrom[p][i][r])]]

Stripping(p, i) ==
    /\ unidlerPc[p] = "strip" /\ i \in stripping[p]
    /\ page' = [page EXCEPT ![i] = [r \in Routers |-> Stripped(stripFrom[p][i][r], page[i][r])]]

Edited == \E i \in Annotated, r \in Routers, items \in SUBSET UserItems : Annotate(i, r, items)

PageMove ==
    \/ UNCHANGED page
    \/ \E p \in Idlers, i \in Ingresses : Patched(p, i)
    \/ \E p \in Unidlers, i \in Ingresses : Stripping(p, i)
    \/ Edited

LEMMA IdlerPages ==
  ASSUME TypeOK, NEW p \in Idlers, IdlerWork(p), UNCHANGED unidlerVars
  PROVE  CopiesRead /\ CacheFollows /\ PageMove
<1>. USE DEF TypeOK, IdlerTypeOK
<1>1. \A q \in Unidlers : stripping'[q] = stripping[q] /\ stripFrom'[q] = stripFrom[q]
  BY DEF unidlerVars, stripVars
<1>2. ASSUME UNCHANGED pageVars,
             \A q \in Idlers : toPatch'[q] = {} \/ (toPatch'[q] = toPatch[q] /\ patchFrom'[q] = patchFrom[q])
      PROVE  CopiesRead /\ CacheFollows /\ PageMove
  BY <1>1, <1>2 DEF CopiesRead, CacheFollows, PageMove, pageVars
<1>3. CASE BuildRunning(p) \/ NotIdle(p) \/ IdlerError(p) \/ AllScaled(p)
  BY <1>2, <1>3 DEF BuildRunning, NotIdle, IdlerError, AllScaled, Return, clusterVars, pageVars
<1>4. CASE ListDeployments(p) \/ DecideToScale(p) \/ LabelIdled(p)
  BY <1>2, <1>4 DEF ListDeployments, DecideToScale, Decide, LabelIdled, clusterVars, pageVars
<1>5. ASSUME NEW d \in Deployments, IdleDeployment(p, d) \/ SkipDeployment(p, d)
      PROVE  CopiesRead /\ CacheFollows /\ PageMove
  BY <1>2, <1>5 DEF IdleDeployment, SkipDeployment, clusterVars, pageVars
<1>6. CASE DecideToPatch(p)
  <2>1. UNCHANGED pageVars
    BY <1>6 DEF DecideToPatch, Decide, clusterVars, pageVars
  <2>2. \A i \in toPatch'[p] : patchFrom'[p][i] = pageCache[i]
    BY <1>6 DEF DecideToPatch, IngressesToPatch, Targets, SelectedOf, IngressesOf
  <2>3. \A q \in Idlers : q # p => toPatch'[q] = toPatch[q] /\ patchFrom'[q] = patchFrom[q]
    BY <1>6 DEF DecideToPatch
  <2>4. CopiesRead
    BY ONLY <1>1, <2>2, <2>3 DEF CopiesRead
  <2>. QED  BY <2>1, <2>4 DEF CacheFollows, PageMove, pageVars
<1>7. ASSUME NEW i \in Ingresses, PatchIngress(p, i)
      PROVE  CopiesRead /\ CacheFollows /\ PageMove
  <2>1. /\ idlerPc[p] = "patch" /\ i \in toPatch[p]
        /\ page' = [page EXCEPT ![i] = [r \in Routers |-> AddStatusCode(patchFrom[p][i][r])]]
        /\ pageCache' = pageCache \/ pageCache' = page'
        /\ toPatch'[p] = toPatch[p] \ {i}
        /\ \A j \in Ingresses : j # i => patchFrom'[p][j] = patchFrom[p][j]
    BY <1>7 DEF PatchIngress, SetPage
  <2>2. \A q \in Idlers : q # p => toPatch'[q] = toPatch[q] /\ patchFrom'[q] = patchFrom[q]
    BY <1>7 DEF PatchIngress
  <2>3. toPatch[p] \subseteq Ingresses
    OBVIOUS
  <2>4. \A j \in toPatch'[p] : j \in toPatch[p] /\ patchFrom'[p][j] = patchFrom[p][j]
    BY <2>1, <2>3
  <2>5. CopiesRead
    BY ONLY <1>1, <2>2, <2>4 DEF CopiesRead
  <2>. QED  BY <2>1, <2>5 DEF CacheFollows, PageMove, Patched
<1>. QED  BY <1>3, <1>4, <1>5, <1>6, <1>7 DEF IdlerWork

LEMMA UnidlerPages ==
  ASSUME TypeOK, NEW p \in Unidlers, UnidlerWork(p), UNCHANGED idlerVars
  PROVE  CopiesRead /\ CacheFollows /\ PageMove
<1>. USE DEF TypeOK, UnidlerTypeOK
<1>1. \A q \in Idlers : toPatch'[q] = toPatch[q] /\ patchFrom'[q] = patchFrom[q]
  BY DEF idlerVars, runVars
<1>2. ASSUME UNCHANGED <<pageVars, stripVars>>
      PROVE  CopiesRead /\ CacheFollows /\ PageMove
  BY <1>1, <1>2 DEF CopiesRead, CacheFollows, PageMove, pageVars, stripVars
<1>3. CASE LoadLock(p) \/ StoreLock(p) \/ ListWatched(p) \/ ListWatchedError(p)
  BY <1>2, <1>3 DEF LoadLock, StoreLock, ListWatched, ListWatchedError, clusterVars, pageVars
<1>4. CASE ListPagesError(p) \/ AllStripped(p) \/ LabelUnidled(p) \/ LabelError(p) \/ Unlock(p)
  BY <1>2, <1>4 DEF ListPagesError, AllStripped, LabelUnidled, LabelError, Unlock, clusterVars, pageVars
<1>5. ASSUME NEW d \in Deployments,
             WakeDeployment(p, d) \/ WakeError(p, d) \/ PodReady(p, d) \/ GiveUpWaiting(p, d)
      PROVE  CopiesRead /\ CacheFollows /\ PageMove
  BY <1>2, <1>5 DEF WakeDeployment, WakeError, PodReady, GiveUpWaiting, clusterVars, pageVars
<1>6. CASE ListPages(p)
  <2>1. UNCHANGED pageVars
    BY <1>6 DEF ListPages, clusterVars, pageVars
  <2>2. \A i \in stripping'[p] : stripFrom'[p][i] = pageCache[i]
    BY <1>6 DEF ListPages, ToStrip, IngressesOf
  <2>3. \A q \in Unidlers : q # p => stripping'[q] = stripping[q] /\ stripFrom'[q] = stripFrom[q]
    BY <1>6 DEF ListPages
  <2>4. CopiesRead
    BY ONLY <1>1, <2>2, <2>3 DEF CopiesRead
  <2>. QED  BY <2>1, <2>4 DEF CacheFollows, PageMove, pageVars
<1>7. ASSUME NEW i \in Ingresses, StripPage(p, i) \/ StripError(p, i)
      PROVE  CopiesRead /\ CacheFollows /\ PageMove
  <2>1. /\ toPatch' = toPatch /\ stripping'[p] = stripping[p] \ {i}
        /\ \A j \in Ingresses : j # i => stripFrom'[p][j] = stripFrom[p][j]
    BY <1>7 DEF StripPage, StripError, Forget, idlerVars, runVars
  <2>2. \A q \in Unidlers : q # p => stripping'[q] = stripping[q] /\ stripFrom'[q] = stripFrom[q]
    BY <1>7 DEF StripPage, StripError, Forget
  <2>3. stripping[p] \subseteq Ingresses
    OBVIOUS
  <2>4. \A j \in stripping'[p] : j \in stripping[p] /\ stripFrom'[p][j] = stripFrom[p][j]
    BY <2>1, <2>3
  <2>5. CopiesRead
    BY ONLY <1>1, <2>2, <2>4 DEF CopiesRead
  <2>6. CacheFollows /\ PageMove
    BY <1>7 DEF StripPage, StripError, SetPage, clusterVars, CacheFollows, PageMove, Stripping
  <2>. QED  BY <2>5, <2>6
<1>. QED  BY <1>3, <1>4, <1>5, <1>6, <1>7 DEF UnidlerWork

\* However the actors overlap, an annotation is written from a copy that was read, and
\* every copy was read from what the annotation has been.
LEMMA PageStep ==
  ASSUME TypeOK, [Next]_vars
  PROVE  CopiesRead /\ CacheFollows /\ PageMove
<1>1. ASSUME UNCHANGED <<idlerVars, unidlerVars, pageVars>>
      PROVE  CopiesRead /\ CacheFollows /\ PageMove
  BY <1>1
  DEF idlerVars, runVars, unidlerVars, stripVars, pageVars, CopiesRead, CacheFollows, PageMove
<1>2. ASSUME UNCHANGED <<toPatch, patchFrom, stripVars, pageVars>>
      PROVE  CopiesRead /\ CacheFollows /\ PageMove
  BY <1>2 DEF stripVars, pageVars, CopiesRead, CacheFollows, PageMove
<1>3. CASE UNCHANGED vars
  BY <1>1, <1>3 DEF vars, clusterVars, processVars, pageVars
<1>4. CASE \/ \E n \in Namespaces, c \in Commands : PostCommand(n, c)
           \/ \E d \in Deployments, count \in 1 .. MaxReplicas : Rescale(d, count)
           \/ Kubelet
  BY <1>1, <1>4 DEF PostCommand, Rescale, Kubelet, PodUp, PodDown, processVars
<1>5. CASE Edited
  <2>1. UNCHANGED <<idlerVars, unidlerVars>> /\ (pageCache' = pageCache \/ pageCache' = page')
    BY <1>5 DEF Edited, Annotate, SetPage, processVars
  <2>. QED
    BY <1>5, <2>1
    DEF idlerVars, runVars, unidlerVars, stripVars, CopiesRead, CacheFollows, PageMove
<1>6. ASSUME NEW r \in Requests, NEW n \in Namespaces, Request(r, n)
      PROVE  CopiesRead /\ CacheFollows /\ PageMove
  BY <1>2, <1>6 DEF Request, ReceiveRequest, idlerVars, runVars, clusterVars, pageVars
<1>6a. ASSUME NEW c \in Crons, CronStart(c)
       PROVE  CopiesRead /\ CacheFollows /\ PageMove
  <2>1. UNCHANGED <<toPatch, patchFrom, pageVars>>
    BY <1>6a DEF CronStart, CronTick, CronNext, StartIdler, runVars, clusterVars, pageVars
  <2>2. UNCHANGED stripVars
    BY <1>6a DEF CronStart, unidlerVars, stripVars
  <2>. QED  BY <1>2, <2>1, <2>2
<1>7. ASSUME NEW n \in Namespaces, Reconcile(n)
      PROVE  CopiesRead /\ CacheFollows /\ PageMove
  <2>1. CASE ReconcileNothing(n)
    BY <1>1, <2>1 DEF ReconcileNothing, Take
  <2>2. CASE ReconcileForce(n)
    <3>1. UNCHANGED <<toPatch, patchFrom, pageVars>>
      BY <2>2 DEF ReconcileForce, StartIdler, Take
    <3>2. UNCHANGED stripVars
      BY <2>2 DEF ReconcileForce, unidlerVars, stripVars
    <3>. QED  BY <1>2, <3>1, <3>2
  <2>3. CASE ReconcileUnidle(n)
    BY <1>2, <2>3 DEF ReconcileUnidle, Take, idlerVars, runVars
  <2>. QED  BY <1>7, <2>1, <2>2, <2>3 DEF Reconcile, StartReconcile
<1>8. CASE \/ \E r \in Requests : RequestWork(r)
           \/ \E c \in Crons : CronWork(c)
  BY <1>8, IdlerPages, UnidlerPages DEF RequestWork, CronWork, Idlers, Unidlers
<1>9. CASE Controller
  <2>1. CASE ClearCommand \/ ClearError
    BY <1>1, <2>1 DEF ClearCommand, ClearError, clusterVars, pageVars
  <2>. QED
    BY <1>9, <2>1, IdlerPages, UnidlerPages DEF Controller, ControllerWork, Idlers, Unidlers
<1>10. CASE Informers
  <2>1. CASE SyncIngresses
    BY <1>10, <2>1
    DEF Informers, SyncIngresses, processVars, idlerVars, runVars, unidlerVars, stripVars,
        CopiesRead, CacheFollows, PageMove
  <2>. QED
    BY <1>1, <1>10, <2>1 DEF Informers, SyncDeployments, SyncNamespaces, processVars
<1>11. CASE Restart
  BY <1>11 DEF Restart, CopiesRead, CacheFollows, PageMove
<1>. QED
  BY <1>3, <1>4, <1>5, <1>6, <1>6a, <1>7, <1>8, <1>9, <1>10, <1>11 DEF Next, Start, Work, Edited

-----------------------------------------------------------------------------
(* What users put in the annotations                                        *)

\* Two values of an annotation hold the same items of users.
SameItems(a, b) == \A r \in Routers : a[r] \ {Ours, ""} = b[r] \ {Ours, ""}

\* Every copy of an annotation holds the items that users have put there.
CopiesKeepItems ==
    /\ \A i \in Ingresses : SameItems(pageCache[i], page[i])
    /\ \A p \in Idlers : \A i \in toPatch[p] : SameItems(patchFrom[p][i], page[i])
    /\ \A p \in Unidlers : \A i \in stripping[p] : SameItems(stripFrom[p][i], page[i])

LEMMA ItemsStep ==
  ASSUME TypeOK, CopiesKeepItems, Annotated = {}, [Next]_vars
  PROVE  CopiesKeepItems' /\ \A i \in Ingresses : SameItems(page'[i], page[i])
<1>. USE DEF TypeOK, ClusterTypeOK
<1>1. CopiesRead /\ CacheFollows /\ PageMove
  BY PageStep
<1>2. \A i \in Ingresses : SameItems(page'[i], page[i])
  <2>1. CASE UNCHANGED page
    BY <2>1 DEF SameItems
  <2>2. ASSUME NEW p \in Idlers, NEW i \in Ingresses, Patched(p, i)
        PROVE  \A j \in Ingresses : SameItems(page'[j], page[j])
    <3>1. SameItems(patchFrom[p][i], page[i])
      BY <2>2 DEF Patched, CopiesKeepItems
    <3>2. \A j \in Ingresses : j # i => page'[j] = page[j]
      BY <2>2 DEF Patched
    <3>3. \A r \in Routers : page'[i][r] = AddStatusCode(patchFrom[p][i][r])
      BY <2>2 DEF Patched
    <3>4. SameItems(page'[i], page[i])
      BY <3>1, <3>3 DEF AddStatusCode, SameItems
    <3>. QED  BY <3>2, <3>4 DEF SameItems
  <2>3. ASSUME NEW p \in Unidlers, NEW i \in Ingresses, Stripping(p, i)
        PROVE  \A j \in Ingresses : SameItems(page'[j], page[j])
    <3>1. SameItems(stripFrom[p][i], page[i])
      BY <2>3 DEF Stripping, CopiesKeepItems
    <3>2. \A j \in Ingresses : j # i => page'[j] = page[j]
      BY <2>3 DEF Stripping
    <3>3. \A r \in Routers : page'[i][r] = Stripped(stripFrom[p][i][r], page[i][r])
      BY <2>3 DEF Stripping
    <3>4. SameItems(page'[i], page[i])
      BY <3>1, <3>3 DEF Stripped, RemoveStatusCode, SameItems
    <3>. QED  BY <3>2, <3>4 DEF SameItems
  <2>4. ~Edited
    BY DEF Edited
  <2>. QED  BY <1>1, <2>1, <2>2, <2>3, <2>4 DEF PageMove
<1>3. \A copy : \A i \in Ingresses : SameItems(copy, page[i]) => SameItems(copy, page'[i])
  BY <1>2 DEF SameItems
<1>4. \A i \in Ingresses : SameItems(pageCache'[i], page'[i])
  <2>1. \A i \in Ingresses : pageCache'[i] \in {pageCache[i], page[i], page'[i]}
    BY <1>1 DEF CacheFollows
  <2>2. \A i \in Ingresses : SameItems(page[i], page[i]) /\ SameItems(page'[i], page'[i])
    BY DEF SameItems
  <2>. QED  BY <1>3, <2>1, <2>2 DEF CopiesKeepItems
<1>5. ASSUME NEW p \in Idlers, NEW i \in toPatch'[p]
      PROVE  SameItems(patchFrom'[p][i], page'[i])
  <2>1. i \in Ingresses
    BY TypeStep, <1>5 DEF IdlerTypeOK
  <2>2. SameItems(patchFrom'[p][i], page[i])
    BY <1>1, <2>1 DEF CopiesRead, CopiesKeepItems
  <2>. QED  BY <1>3, <2>1, <2>2
<1>6. ASSUME NEW p \in Unidlers, NEW i \in stripping'[p]
      PROVE  SameItems(stripFrom'[p][i], page'[i])
  <2>1. i \in Ingresses
    BY TypeStep, <1>6 DEF UnidlerTypeOK
  <2>2. SameItems(stripFrom'[p][i], page[i])
    BY <1>1, <2>1 DEF CopiesRead, CopiesKeepItems
  <2>. QED  BY <1>3, <2>1, <2>2
<1>7. CopiesKeepItems'
  BY ONLY <1>4, <1>5, <1>6 DEF CopiesKeepItems, SameItems
<1>. QED  BY <1>2, <1>7

\* CodesKept, however the actors overlap: where users leave the annotations alone,
\* idlers and unidlers that overlap, fail, read old copies and die between reading and
\* writing give back every item that users put there before.
THEOREM UserItemsSurviveOverlap ==
  ASSUME Annotated = {}
  PROVE  Spec => CodesKept
<1>1. Init => CopiesKeepItems
  BY DEF Init, ClusterInit, IdlerInit, UnidlerInit, CopiesKeepItems, SameItems
<1>2. ASSUME TypeOK, CopiesKeepItems, [Next]_vars
      PROVE  /\ CopiesKeepItems'
             /\ [\A i \in Ingresses, r \in Routers :
                    \/ page'[i][r] \ {Ours, ""} = page[i][r] \ {Ours, ""}
                    \/ \E items \in SUBSET UserItems : Annotate(i, r, items)]_vars
  BY <1>2, ItemsStep DEF SameItems
<1>. QED  BY <1>1, <1>2, TypeCorrect, PTL DEF Spec, CodesKept

-----------------------------------------------------------------------------
(* The two routers                                                          *)

\* The value of an annotation that nobody but aergia writes.
Uniform(value) == value["nginx"] = value["traefik"] /\ value["nginx"] \subseteq {Ours}

AllUniform ==
    /\ \A i \in Ingresses : Uniform(page[i]) /\ Uniform(pageCache[i])
    /\ \A p \in Idlers : \A i \in toPatch[p] : Uniform(patchFrom[p][i])
    /\ \A p \in Unidlers : \A i \in stripping[p] : Uniform(stripFrom[p][i])

LEMMA UniformStep ==
  ASSUME TypeOK, AllUniform, UserItems = {}, [Next]_vars
  PROVE  AllUniform'
<1>. USE DEF TypeOK, ClusterTypeOK
<1>1. CopiesRead /\ CacheFollows /\ PageMove
  BY PageStep
<1>2. \A i \in Ingresses : Uniform(page'[i])
  <2>1. CASE UNCHANGED page
    BY <2>1 DEF AllUniform
  <2>2. ASSUME NEW p \in Idlers, NEW i \in Ingresses, Patched(p, i)
        PROVE  \A j \in Ingresses : Uniform(page'[j])
    <3>1. Uniform(patchFrom[p][i])
      BY <2>2 DEF Patched, AllUniform
    <3>2. \A j \in Ingresses : j # i => page'[j] = page[j]
      BY <2>2 DEF Patched
    <3>3. \A r \in Routers : page'[i][r] = AddStatusCode(patchFrom[p][i][r])
      BY <2>2 DEF Patched
    <3>4. Uniform(page'[i])
      BY <3>1, <3>3 DEF AddStatusCode, Uniform, Routers
    <3>. QED  BY <3>2, <3>4 DEF AllUniform
  <2>3. ASSUME NEW p \in Unidlers, NEW i \in Ingresses, Stripping(p, i)
        PROVE  \A j \in Ingresses : Uniform(page'[j])
    <3>1. Uniform(stripFrom[p][i]) /\ Uniform(page[i])
      BY <2>3 DEF Stripping, AllUniform
    <3>2. \A j \in Ingresses : j # i => page'[j] = page[j]
      BY <2>3 DEF Stripping
    <3>3. \A r \in Routers : page'[i][r] = Stripped(stripFrom[p][i][r], page[i][r])
      BY <2>3 DEF Stripping
    <3>4. Uniform(page'[i])
      BY <3>1, <3>3 DEF Stripped, RemoveStatusCode, Uniform, Routers
    <3>. QED  BY <3>2, <3>4 DEF AllUniform
  <2>4. ASSUME NEW i \in Annotated, NEW r \in Routers, NEW items \in SUBSET UserItems,
               Annotate(i, r, items)
        PROVE  FALSE
    <3>1. page[i][r] \ {Ours} = {}
      BY UserAssumption, <2>4 DEF AllUniform, Uniform, Routers
    <3>. QED  BY <2>4, <3>1 DEF Annotate
  <2>. QED  BY <1>1, <2>1, <2>2, <2>3, <2>4 DEF PageMove, Edited
<1>3. \A i \in Ingresses : Uniform(pageCache'[i])
  <2>1. \A i \in Ingresses : pageCache'[i] \in {pageCache[i], page[i], page'[i]}
    BY <1>1 DEF CacheFollows
  <2>. QED  BY <1>2, <2>1 DEF AllUniform
<1>4. ASSUME NEW p \in Idlers, NEW i \in toPatch'[p]
      PROVE  Uniform(patchFrom'[p][i])
  <2>1. i \in Ingresses
    BY TypeStep, <1>4 DEF IdlerTypeOK
  <2>. QED  BY <1>1, <2>1 DEF CopiesRead, AllUniform
<1>5. ASSUME NEW p \in Unidlers, NEW i \in stripping'[p]
      PROVE  Uniform(stripFrom'[p][i])
  <2>1. i \in Ingresses
    BY TypeStep, <1>5 DEF UnidlerTypeOK
  <2>. QED  BY <1>1, <2>1 DEF CopiesRead, AllUniform
<1>. QED  BY ONLY <1>2, <1>3, <1>4, <1>5 DEF AllUniform, Uniform

\* RoutersAgree, however the actors overlap, where users keep no items of their own in
\* the annotations: a patch of an idler and one of an unidler leave both routers, or
\* neither, sending visitors to aergia, in whatever order and from whatever copies
\* they write.  (With items of users it takes one actor at a time, or unidlers alone.)
THEOREM RoutersAgreeWithoutItems ==
  ASSUME UserItems = {}
  PROVE  Spec => []RoutersAgree
<1>1. Init => AllUniform
  <2>. SUFFICES ASSUME Init PROVE AllUniform
    OBVIOUS
  <2>. PICK asleep \in SUBSET Namespaces,
            count \in [Deployments -> 1 .. MaxReplicas],
            target \in [Deployments -> 0 .. MaxReplicas],
            items \in [Ingresses -> [Routers -> SUBSET UserItems]] :
         InitialCluster(asleep, count, target, items)
    BY Zenon DEF Init, ClusterInit
  <2>1. \A i \in Ingresses, r \in Routers : items[i][r] = {}
    OBVIOUS
  <2>2. \A i \in Ingresses : Uniform(page[i])
    BY <2>1 DEF InitialCluster, Uniform, Routers
  <2>. QED  BY <2>2 DEF Init, ClusterInit, IdlerInit, UnidlerInit, AllUniform
<1>2. TypeOK /\ AllUniform /\ [Next]_vars => AllUniform'
  BY UniformStep
<1>3. AllUniform => RoutersAgree
  BY DEF AllUniform, Uniform, RoutersAgree
<1>. QED  BY <1>1, <1>2, <1>3, TypeCorrect, PTL DEF Spec

-----------------------------------------------------------------------------
(* Unidlers alone                                                           *)

OnlyUnidlers == Crons = {} /\ Postable \subseteq {"unidle"}

\* No idler is at work, and no command asks for one.
NobodyIdles ==
    /\ idlerPc[Reconciler] = "off"
    /\ \A n \in Namespaces : ns[n].commands \cup nsCache[n].commands \subseteq {"unidle"}

LEMMA SetNsNobodyIdles ==
  ASSUME TypeOK, NobodyIdles, NEW n \in Namespaces, NEW value, SetNs(n, value),
         value.commands \subseteq {"unidle"}, UNCHANGED idlerPc
  PROVE  NobodyIdles'
  BY DEF TypeOK, ClusterTypeOK, NobodyIdles, SetNs

\* Nothing else of the process runs.
LEMMA NoIdlerWork ==
  ASSUME NobodyIdles
  PROVE  ~IdlerWork(Reconciler)
  BY DEF NobodyIdles, IdlerWork, BuildRunning, ListDeployments, NotIdle, DecideToPatch,
         DecideToScale, Decide, PatchIngress, LabelIdled, IdlerError, AllScaled,
         IdleDeployment, SkipDeployment

LEMMA NobodyIdlesStep ==
  ASSUME TypeOK, NobodyIdles, OnlyUnidlers, [Next]_vars
  PROVE  NobodyIdles'
<1>. USE DEF TypeOK
<1>1. ASSUME UNCHANGED <<nsVars, idlerPc>>
      PROVE  NobodyIdles'
  BY <1>1 DEF NobodyIdles, nsVars
<1>2. CASE UNCHANGED vars
  BY <1>1, <1>2 DEF vars, clusterVars, processVars, idlerVars, runVars, nsVars
<1>3. ASSUME NEW n \in Namespaces, NEW c \in Commands, PostCommand(n, c)
      PROVE  NobodyIdles'
  <2>1. ns[n].commands \cup {c} \subseteq {"unidle"}
    BY <1>3 DEF PostCommand, OnlyUnidlers, NobodyIdles
  <2>2. UNCHANGED idlerPc
    BY <1>3 DEF PostCommand, processVars, idlerVars, runVars
  <2>. QED  BY <1>3, <2>1, <2>2, SetNsNobodyIdles DEF PostCommand
<1>4. CASE \/ \E d \in Deployments, count \in 1 .. MaxReplicas : Rescale(d, count)
           \/ \E i \in Ingresses, r \in Routers, items \in SUBSET UserItems : Annotate(i, r, items)
           \/ Kubelet
  BY <1>1, <1>4
  DEF Rescale, Annotate, Kubelet, PodUp, PodDown, processVars, idlerVars, runVars
<1>5. ASSUME NEW r \in Requests, NEW n \in Namespaces, Request(r, n)
      PROVE  NobodyIdles'
  BY <1>1, <1>5 DEF Request, ReceiveRequest, clusterVars, nsVars, idlerVars, runVars
<1>6. ASSUME NEW p \in Unidlers, UnidlerWork(p), UNCHANGED idlerVars
      PROVE  NobodyIdles'
  <2>1. UNCHANGED idlerPc
    BY <1>6 DEF idlerVars, runVars
  <2>2. CASE LabelUnidled(p)
    <3>1. unidlerNs[p] \in Namespaces /\ ns[unidlerNs[p]].commands \subseteq {"unidle"}
      BY DEF UnidlerTypeOK, NobodyIdles
    <3>. QED  BY <2>1, <2>2, <3>1, SetNsNobodyIdles DEF LabelUnidled
  <2>3. CASE ~LabelUnidled(p)
    <3>1. UNCHANGED nsVars
      BY <1>6, <2>3
      DEF UnidlerWork, LoadLock, StoreLock, ListWatched, ListWatchedError, WakeDeployment,
          WakeError, PodReady, GiveUpWaiting, ListPages, ListPagesError, StripPage, StripError,
          AllStripped, LabelError, Unlock, clusterVars, nsVars
    <3>. QED  BY <1>1, <2>1, <3>1
  <2>. QED  BY <2>2, <2>3
<1>7. CASE Controller
  <2>1. CASE UnidlerWork(Reconciler) /\ UNCHANGED idlerVars
    BY <1>6, <2>1 DEF Unidlers
  <2>2. CASE ClearCommand
    <3>1. /\ handlingNs \in Namespaces
          /\ ns[handlingNs].commands \ {handling} \subseteq {"unidle"}
      BY DEF ControllerTypeOK, NobodyIdles
    <3>2. UNCHANGED idlerPc
      BY <2>2 DEF ClearCommand, idlerVars, runVars
    <3>. QED  BY <2>2, <3>1, <3>2, SetNsNobodyIdles DEF ClearCommand
  <2>3. CASE ClearError
    BY <1>1, <2>3 DEF ClearError, clusterVars, nsVars, idlerVars, runVars
  <2>. QED  BY <1>7, <2>1, <2>2, <2>3, NoIdlerWork DEF Controller, ControllerWork
<1>8. ASSUME NEW n \in Namespaces, Reconcile(n)
      PROVE  NobodyIdles'
  <2>1. FirstCommand(nsCache[n].commands) \in {"unidle", "none"}
    BY DEF NobodyIdles, FirstCommand
  <2>2. Take(n) /\ UNCHANGED idlerVars
    BY <1>8, <2>1
    DEF Reconcile, StartReconcile, ReconcileNothing, ReconcileForce, ReconcileUnidle
  <2>. QED  BY <2>2 DEF Take, NobodyIdles, idlerVars, runVars
<1>9. CASE Informers
  <2>1. UNCHANGED <<ns, idlerPc>> /\ (nsCache' = nsCache \/ nsCache' = ns)
    BY <1>9 DEF Informers, SyncDeployments, SyncIngresses, SyncNamespaces, nsVars, processVars,
                idlerVars, runVars
  <2>. QED  BY <2>1 DEF NobodyIdles
<1>10. CASE Restart
  BY <1>10 DEF Restart, NobodyIdles, Idlers
<1>11. CASE \E r \in Requests : RequestWork(r)
  BY <1>6, <1>11 DEF RequestWork, Unidlers
<1>. QED
  BY <1>2, <1>3, <1>4, <1>5, <1>7, <1>8, <1>9, <1>10, <1>11, UserAssumption
  DEF Next, Start, Work, OnlyUnidlers

LEMMA NobodyIdlesInit == Init => NobodyIdles
BY DEF Init, IdlerInit, Idlers, ClusterInit, InitialCluster, NobodyIdles

\* Both routers send visitors to aergia, or neither does.
Agree(value) == Ours \in value["nginx"] <=> Ours \in value["traefik"]

\* The routers agree in every copy of an annotation, and what sends visitors to aergia
\* does so in every copy: what an Unidle strips without aergia's item has none.
CopiesAgree ==
    /\ \A i \in Ingresses :
           /\ Agree(page[i]) /\ Agree(pageCache[i])
           /\ \A r \in Routers : Ours \in page[i][r] => Ours \in pageCache[i][r]
    /\ \A p \in Unidlers : \A i \in stripping[p] :
           /\ Agree(stripFrom[p][i])
           /\ \A r \in Routers : Ours \in page[i][r] => Ours \in stripFrom[p][i][r]

\* A step takes aergia's item out of both annotations of an ingress, or leaves it.
LEMMA UnidlersPageMove ==
  ASSUME TypeOK, NobodyIdles, OnlyUnidlers, CopiesAgree, [Next]_vars
  PROVE  \A i \in Ingresses :
            /\ Agree(page'[i])
            /\ \A r \in Routers : Ours \in page'[i][r] => Ours \in page[i][r]
<1>. USE DEF TypeOK, ClusterTypeOK
<1>1. PageMove
  BY PageStep
<1>2. CASE UNCHANGED page
  BY <1>2 DEF CopiesAgree
<1>3. ASSUME NEW p \in Idlers, NEW i \in Ingresses, Patched(p, i)
      PROVE  FALSE
  BY <1>3 DEF Patched, NobodyIdles, OnlyUnidlers, Idlers
<1>4. ASSUME NEW p \in Unidlers, NEW i \in Ingresses, Stripping(p, i)
      PROVE  \A j \in Ingresses :
                /\ Agree(page'[j])
                /\ \A r \in Routers : Ours \in page'[j][r] => Ours \in page[j][r]
  <2>1. /\ \A r \in Routers : page'[i][r] = Stripped(stripFrom[p][i][r], page[i][r])
        /\ \A j \in Ingresses : j # i => page'[j] = page[j]
    BY <1>4 DEF Stripping
  <2>2. \A r \in Routers : Ours \in page[i][r] => Ours \in stripFrom[p][i][r]
    BY <1>4 DEF Stripping, CopiesAgree
  <2>3. \A r \in Routers : Ours \notin page'[i][r]
    BY <2>1, <2>2 DEF Stripped, RemoveStatusCode
  <2>4. Agree(page'[i])
    BY <2>3 DEF Agree, Routers
  <2>. QED  BY <2>1, <2>3, <2>4 DEF CopiesAgree
<1>5. ASSUME NEW i \in Annotated, NEW r \in Routers, NEW items \in SUBSET UserItems,
             Annotate(i, r, items)
      PROVE  \A j \in Ingresses :
                /\ Agree(page'[j])
                /\ \A q \in Routers : Ours \in page'[j][q] => Ours \in page[j][q]
  <2>1. i \in Ingresses /\ Ours \notin items
    BY UserAssumption, ItemAssumption
  <2>2. page' = [page EXCEPT ![i] = [page[i] EXCEPT ![r] = items \cup (@ \cap {Ours})]]
    BY <1>5 DEF Annotate, SetPage
  <2>3. \A q \in Routers : Ours \in page'[i][q] <=> Ours \in page[i][q]
    BY <2>1, <2>2 DEF Page
  <2>4. Agree(page'[i])
    BY <2>1, <2>3 DEF Agree, Routers, CopiesAgree
  <2>5. \A j \in Ingresses : j # i => page'[j] = page[j]
    BY <2>1, <2>2
  <2>. QED  BY <2>3, <2>4, <2>5 DEF CopiesAgree
<1>. QED  BY <1>1, <1>2, <1>3, <1>4, <1>5 DEF PageMove, Edited

LEMMA UnidlersAgreeStep ==
  ASSUME TypeOK, NobodyIdles, OnlyUnidlers, CopiesAgree, [Next]_vars
  PROVE  CopiesAgree'
<1>1. \A i \in Ingresses :
         /\ Agree(page'[i])
         /\ \A r \in Routers : Ours \in page'[i][r] => Ours \in page[i][r]
  BY UnidlersPageMove
<1>2. CopiesRead /\ CacheFollows
  BY PageStep
<1>3. ASSUME NEW i \in Ingresses
      PROVE  /\ Agree(pageCache'[i])
             /\ \A r \in Routers : Ours \in page'[i][r] => Ours \in pageCache'[i][r]
  <2>1. pageCache'[i] \in {pageCache[i], page[i], page'[i]}
    BY <1>2 DEF CacheFollows
  <2>. QED  BY <1>1, <2>1 DEF CopiesAgree
<1>4. ASSUME NEW p \in Unidlers, NEW i \in stripping'[p]
      PROVE  /\ Agree(stripFrom'[p][i])
             /\ \A r \in Routers : Ours \in page'[i][r] => Ours \in stripFrom'[p][i][r]
  <2>1. i \in Ingresses
    BY TypeStep, <1>4 DEF TypeOK, UnidlerTypeOK
  <2>2. \/ i \in stripping[p] /\ stripFrom'[p][i] = stripFrom[p][i]
        \/ stripFrom'[p][i] = pageCache[i]
    BY <1>2 DEF CopiesRead
  <2>. QED  BY <1>1, <2>1, <2>2 DEF CopiesAgree
<1>. QED  BY ONLY <1>1, <1>3, <1>4 DEF CopiesAgree, Agree

LEMMA UnidlersCopies ==
  ASSUME OnlyUnidlers
  PROVE  Spec => [](TypeOK /\ NobodyIdles /\ CopiesAgree)
<1>1. Init => CopiesAgree
  <2>. SUFFICES ASSUME Init PROVE CopiesAgree
    OBVIOUS
  <2>. PICK asleep \in SUBSET Namespaces,
            count \in [Deployments -> 1 .. MaxReplicas],
            target \in [Deployments -> 0 .. MaxReplicas],
            items \in [Ingresses -> [Routers -> SUBSET UserItems]] :
         InitialCluster(asleep, count, target, items)
    BY Zenon DEF Init, ClusterInit
  <2>1. \A i \in Ingresses, r \in Routers : Ours \notin items[i][r]
    BY ItemAssumption
  <2>2. \A i \in Ingresses, r \in Routers :
           Ours \in page[i][r] <=> NamespaceOf[i] \in asleep /\ i \in Selected
    BY <2>1 DEF InitialCluster
  <2>3. \A i \in Ingresses : Agree(page[i])
    BY <2>2 DEF Agree, Routers
  <2>. QED  BY <2>3 DEF Init, ClusterInit, UnidlerInit, CopiesAgree
<1>2. TypeOK /\ NobodyIdles /\ CopiesAgree /\ [Next]_vars => NobodyIdles' /\ CopiesAgree'
  BY NobodyIdlesStep, UnidlersAgreeStep
<1>. QED  BY <1>1, <1>2, NobodyIdlesInit, TypeCorrect, PTL DEF Spec

\* RoutersAgree, for unidlers alone and whatever users write: however many Unidles of
\* a namespace overlap, from whatever old copies they strip and whichever of their
\* patches fail, no ingress is left with one router that sends visitors to aergia.
THEOREM UnidlersAgree ==
  ASSUME OnlyUnidlers
  PROVE  Spec => []RoutersAgree
<1>. CopiesAgree => RoutersAgree
  BY DEF CopiesAgree, Agree, RoutersAgree
<1>. QED  BY UnidlersCopies, PTL

\* The cache knows of every deployment that is asleep.
AsleepKnown == \A d \in Deployments : dep[d].replicas = 0 => depCache[d] = dep[d]

\* Nothing falls asleep, and the cache of the deployments follows.
DeploymentMove ==
    /\ \A d \in Deployments : dep'[d].replicas = 0 => dep'[d] = dep[d]
    /\ depCache' = depCache \/ depCache' = dep \/ depCache' = dep'

\* What an Unidle is not about to wake is awake, and once it strips all is, and it
\* strips the ingresses of its own namespace.
Awakens(p) ==
    /\ unidlerPc[p] = "wake" =>
           \A d \in DeploymentsOf(unidlerNs[p]) : dep[d].replicas = 0 => wake[p][d] > 0
    /\ unidlerPc[p] = "strip" =>
           /\ \A d \in DeploymentsOf(unidlerNs[p]) : dep[d].replicas # 0
           /\ stripping[p] \subseteq IngressesOf(unidlerNs[p])

UnidlesAwaken == \A p \in Unidlers : Awakens(p)

\* The other actors keep their place.
LEMMA OthersStay ==
  ASSUME TypeOK, NEW p \in Unidlers, UnidlerWork(p), NEW q \in Unidlers, q # p
  PROVE  /\ unidlerPc'[q] = unidlerPc[q] /\ unidlerNs'[q] = unidlerNs[q]
         /\ wake'[q] = wake[q] /\ stripping'[q] = stripping[q]
<1>. USE DEF TypeOK, UnidlerTypeOK
<1>1. CASE LoadLock(p) \/ StoreLock(p) \/ ListWatched(p) \/ ListWatchedError(p)
  BY <1>1 DEF LoadLock, StoreLock, ListWatched, ListWatchedError, Goto, Finish, stripVars
<1>2. ASSUME NEW d \in Deployments,
             WakeDeployment(p, d) \/ WakeError(p, d) \/ PodReady(p, d) \/ GiveUpWaiting(p, d)
      PROVE  /\ unidlerPc'[q] = unidlerPc[q] /\ unidlerNs'[q] = unidlerNs[q]
             /\ wake'[q] = wake[q] /\ stripping'[q] = stripping[q]
  BY <1>2 DEF WakeDeployment, WakeError, Woken, PodReady, GiveUpWaiting, stripVars
<1>3. CASE ListPages(p) \/ ListPagesError(p) \/ AllStripped(p)
  BY <1>3 DEF ListPages, ListPagesError, AllStripped, Goto, stripVars
<1>4. ASSUME NEW i \in Ingresses, StripPage(p, i) \/ StripError(p, i)
      PROVE  /\ unidlerPc'[q] = unidlerPc[q] /\ unidlerNs'[q] = unidlerNs[q]
             /\ wake'[q] = wake[q] /\ stripping'[q] = stripping[q]
  BY <1>4 DEF StripPage, StripError, Forget
<1>5. CASE LabelUnidled(p) \/ LabelError(p) \/ Unlock(p)
  BY <1>5 DEF LabelUnidled, LabelError, Unlock, Goto, Finish, stripVars
<1>. QED  BY <1>1, <1>2, <1>3, <1>4, <1>5 DEF UnidlerWork

\* An actor takes a step of its Unidle, or starts or stops, or keeps its place.
LEMMA UnidlerTurns ==
  ASSUME TypeOK, [Next]_vars, NEW p \in Unidlers
  PROVE  \/ UnidlerWork(p)
         \/ unidlerPc'[p] \in {"off", "load", "list"}
         \/ /\ unidlerPc'[p] = unidlerPc[p] /\ unidlerNs'[p] = unidlerNs[p]
            /\ wake'[p] = wake[p] /\ stripping'[p] = stripping[p]
<1>. DEFINE Stays == /\ unidlerPc'[p] = unidlerPc[p] /\ unidlerNs'[p] = unidlerNs[p]
                     /\ wake'[p] = wake[p] /\ stripping'[p] = stripping[p]
<1>1. ASSUME UNCHANGED unidlerVars
      PROVE  Stays
  BY <1>1 DEF unidlerVars, stripVars
<1>2. ASSUME NEW q \in Unidlers, UnidlerWork(q)
      PROVE  UnidlerWork(p) \/ Stays
  BY <1>2, OthersStay
<1>. HIDE DEF Stays
<1>3. CASE UNCHANGED vars
  <2>1. UNCHANGED unidlerVars
    BY <1>3 DEF vars, processVars
  <2>. QED  BY <1>1, <2>1 DEF Stays
<1>4. CASE \/ \E n \in Namespaces, c \in Commands : PostCommand(n, c)
           \/ \E d \in Deployments, count \in 1 .. MaxReplicas : Rescale(d, count)
           \/ \E i \in Ingresses, r \in Routers, items \in SUBSET UserItems : Annotate(i, r, items)
           \/ \E c \in Crons : CronStart(c)
           \/ \E c \in Crons : CronWork(c)
           \/ Kubelet \/ Informers
  <2>1. UNCHANGED unidlerVars
    BY <1>4
    DEF PostCommand, Rescale, Annotate, CronStart, CronWork, Kubelet, Informers, processVars
  <2>. QED  BY <1>1, <2>1 DEF Stays
<1>5. ASSUME NEW r \in Requests, NEW n \in Namespaces, Request(r, n)
      PROVE  unidlerPc'[p] = "load" \/ Stays
  <2>1. /\ unidlerPc' = [unidlerPc EXCEPT ![r] = "load"]
        /\ unidlerNs' = [unidlerNs EXCEPT ![r] = n]
        /\ UNCHANGED <<wake, stripping>>
    BY <1>5 DEF Request, ReceiveRequest, Goto, stripVars
  <2>. QED  BY <2>1 DEF TypeOK, UnidlerTypeOK, Stays
<1>6. CASE \E r \in Requests : RequestWork(r)
  BY <1>2, <1>6 DEF RequestWork, Unidlers, Stays
<1>7. CASE Controller
  <2>1. UnidlerWork(Reconciler) \/ UNCHANGED unidlerVars
    BY <1>7 DEF Controller, ControllerWork, ClearCommand, ClearError
  <2>. QED  BY <1>1, <1>2, <2>1 DEF Unidlers, Stays
<1>8. ASSUME NEW n \in Namespaces, Reconcile(n)
      PROVE  unidlerPc'[p] = "list" \/ Stays
  <2>1. CASE ReconcileUnidle(n)
    <3>1. /\ unidlerPc' = [unidlerPc EXCEPT ![Reconciler] = "list"]
          /\ unidlerNs' = [unidlerNs EXCEPT ![Reconciler] = n]
          /\ UNCHANGED <<wake, stripping>>
      BY <2>1 DEF ReconcileUnidle, Goto, stripVars
    <3>. QED  BY <3>1 DEF TypeOK, UnidlerTypeOK, Stays
  <2>2. CASE UNCHANGED unidlerVars
    BY <1>1, <2>2
  <2>. QED
    BY <1>8, <2>1, <2>2 DEF Reconcile, StartReconcile, ReconcileNothing, ReconcileForce
<1>9. CASE Restart
  BY <1>9 DEF Restart
<1>. QED
  BY <1>3, <1>4, <1>5, <1>6, <1>7, <1>8, <1>9, UserAssumption DEF Next, Start, Work, Stays

LEMMA UnidlerWorkDeployments ==
  ASSUME TypeOK, NEW p \in Unidlers, UnidlerWork(p)
  PROVE  DeploymentMove
<1>1. ASSUME UNCHANGED depVars
      PROVE  DeploymentMove
  BY <1>1 DEF depVars, DeploymentMove
<1>2. CASE LoadLock(p) \/ StoreLock(p) \/ ListWatched(p) \/ ListWatchedError(p)
  BY <1>1, <1>2 DEF LoadLock, StoreLock, ListWatched, ListWatchedError, clusterVars, depVars
<1>3. ASSUME NEW d \in Deployments, WakeDeployment(p, d)
      PROVE  DeploymentMove
  <2>1. /\ dep' = [dep EXCEPT ![d] = AwakeDeployment(p, d)]
        /\ depCache' = depCache \/ depCache' = dep'
        /\ AwakeDeployment(p, d).replicas = wake[p][d] /\ wake[p][d] > 0
    BY <1>3 DEF WakeDeployment, SetDep, AwakeDeployment
  <2>2. dep'[d].replicas # 0
    BY <2>1 DEF TypeOK, ClusterTypeOK, UnidlerTypeOK
  <2>3. \A e \in Deployments : e # d => dep'[e] = dep[e]
    BY <2>1
  <2>. QED  BY <2>1, <2>2, <2>3 DEF DeploymentMove
<1>4. ASSUME NEW d \in Deployments,
             WakeError(p, d) \/ PodReady(p, d) \/ GiveUpWaiting(p, d)
      PROVE  DeploymentMove
  BY <1>1, <1>4 DEF WakeError, PodReady, GiveUpWaiting, clusterVars, depVars
<1>5. CASE ListPages(p) \/ ListPagesError(p) \/ AllStripped(p)
  BY <1>1, <1>5 DEF ListPages, ListPagesError, AllStripped, clusterVars, depVars
<1>6. ASSUME NEW i \in Ingresses, StripPage(p, i) \/ StripError(p, i)
      PROVE  DeploymentMove
  BY <1>1, <1>6 DEF StripPage, StripError, clusterVars, depVars
<1>7. CASE LabelUnidled(p) \/ LabelError(p) \/ Unlock(p)
  BY <1>1, <1>7 DEF LabelUnidled, LabelError, Unlock, clusterVars, depVars
<1>. QED  BY <1>2, <1>3, <1>4, <1>5, <1>6, <1>7 DEF UnidlerWork

LEMMA DeploymentStep ==
  ASSUME TypeOK, NobodyIdles, OnlyUnidlers, [Next]_vars
  PROVE  DeploymentMove
<1>1. ASSUME UNCHANGED depVars
      PROVE  DeploymentMove
  BY <1>1 DEF depVars, DeploymentMove
<1>2. CASE UNCHANGED vars
  BY <1>1, <1>2 DEF vars, clusterVars, depVars
<1>3. CASE \/ \E n \in Namespaces, c \in Commands : PostCommand(n, c)
           \/ \E i \in Ingresses, r \in Routers, items \in SUBSET UserItems : Annotate(i, r, items)
           \/ Kubelet
  BY <1>1, <1>3 DEF PostCommand, Annotate, Kubelet, PodUp, PodDown
<1>4. ASSUME NEW d \in Deployments, NEW count \in 1 .. MaxReplicas, Rescale(d, count)
      PROVE  DeploymentMove
  <2>1. \A e \in Deployments : e # d => dep'[e] = dep[e]
    BY <1>4 DEF Rescale, SetDep, TypeOK, ClusterTypeOK
  <2>2. dep'[d].replicas = count /\ count # 0
    BY <1>4 DEF Rescale, SetDep, TypeOK, ClusterTypeOK
  <2>3. depCache' = depCache \/ depCache' = dep'
    BY <1>4 DEF Rescale, SetDep
  <2>. QED  BY <2>1, <2>2, <2>3 DEF DeploymentMove
<1>5. ASSUME NEW r \in Requests, NEW n \in Namespaces, Request(r, n)
      PROVE  DeploymentMove
  BY <1>1, <1>5 DEF Request, ReceiveRequest, clusterVars, depVars
<1>6. CASE \E r \in Requests : RequestWork(r)
  BY <1>6, UnidlerWorkDeployments DEF RequestWork, Unidlers
<1>7. CASE Controller
  <2>1. CASE UnidlerWork(Reconciler)
    BY <2>1, UnidlerWorkDeployments DEF Unidlers
  <2>2. CASE ClearCommand \/ ClearError
    BY <1>1, <2>2 DEF ClearCommand, ClearError, clusterVars, depVars
  <2>. QED  BY <1>7, <2>1, <2>2, NoIdlerWork DEF Controller, ControllerWork
<1>8. CASE \E n \in Namespaces : Reconcile(n)
  BY <1>1, <1>8
  DEF Reconcile, StartReconcile, ReconcileNothing, ReconcileForce, ReconcileUnidle, Take
<1>9. CASE Informers
  BY <1>1, <1>9 DEF Informers, SyncDeployments, SyncIngresses, SyncNamespaces, DeploymentMove
<1>10. CASE Restart
  BY <1>10 DEF Restart, DeploymentMove
<1>. QED
  BY <1>2, <1>3, <1>4, <1>5, <1>6, <1>7, <1>8, <1>9, <1>10, UserAssumption
  DEF Next, Start, Work, OnlyUnidlers

LEMMA UnidlerWorkAwakens ==
  ASSUME TypeOK, Recoverable, AsleepKnown, UnidlesAwaken, ~Faulty,
         NEW p \in Unidlers, UnidlerWork(p)
  PROVE  Awakens(p)'
<1>. USE DEF TypeOK, UnidlerTypeOK
<1>. DEFINE n == unidlerNs[p]
<1>1. \A d \in Deployments : dep'[d].replicas = 0 => dep[d].replicas = 0
  BY UnidlerWorkDeployments DEF DeploymentMove
<1>2. ASSUME unidlerPc'[p] = unidlerPc[p], unidlerNs'[p] = unidlerNs[p], wake'[p] = wake[p],
             stripping'[p] \subseteq stripping[p]
      PROVE  Awakens(p)'
  BY ONLY UnidlesAwaken, <1>1, <1>2 DEF UnidlesAwaken, Awakens, DeploymentsOf, IngressesOf
<1>3. CASE LoadLock(p) \/ StoreLock(p) \/ AllStripped(p) \/ LabelUnidled(p) \/ Unlock(p)
  <2>1. unidlerPc'[p] \notin {"wake", "strip"}
    BY <1>3 DEF LoadLock, StoreLock, AllStripped, LabelUnidled, Unlock, Goto, Finish
  <2>. QED  BY <2>1 DEF Awakens
<1>4. CASE ListWatched(p)
  <2>1. unidlerPc'[p] = "wake" /\ unidlerNs'[p] = n /\ dep' = dep
    BY <1>4 DEF ListWatched, Goto, clusterVars
  <2>2. ASSUME NEW d \in DeploymentsOf(n), dep[d].replicas = 0
        PROVE  wake'[p][d] > 0
    <3>1. d \in ToWake(n)
      BY <2>2 DEF ToWake, Watched, DeploymentsOf, AsleepKnown, Recoverable
    <3>2. wake'[p][d] = NewReplicas(d)
      BY <1>4, <3>1 DEF ListWatched, DeploymentsOf
    <3>3. depCache[d].target \in Nat
      BY DEF ClusterTypeOK, Deployment, DeploymentsOf
    <3>. QED  BY <3>2, <3>3 DEF NewReplicas
  <2>. QED  BY <2>1, <2>2 DEF Awakens, DeploymentsOf
<1>5. ASSUME NEW e \in Deployments, WakeDeployment(p, e)
      PROVE  Awakens(p)'
  <2>1. /\ unidlerPc[p] = "wake" /\ unidlerPc' = unidlerPc /\ unidlerNs' = unidlerNs
        /\ dep' = [dep EXCEPT ![e] = AwakeDeployment(p, e)]
        /\ wake' = [wake EXCEPT ![p] = [wake[p] EXCEPT ![e] = 0]]
        /\ wake[p][e] > 0
    BY <1>5 DEF WakeDeployment, SetDep, Woken
  <2>2. dep'[e].replicas # 0
    BY <2>1 DEF AwakeDeployment, ClusterTypeOK
  <2>3. \A d \in Deployments : d # e => wake'[p][d] = wake[p][d]
    BY <2>1
  <2>. QED  BY <1>1, <2>1, <2>2, <2>3 DEF UnidlesAwaken, Awakens, DeploymentsOf
<1>6. ASSUME NEW e \in Deployments, PodReady(p, e) \/ GiveUpWaiting(p, e)
      PROVE  Awakens(p)'
  BY <1>2, <1>6 DEF PodReady, GiveUpWaiting, stripVars
<1>7. CASE ListPages(p)
  <2>1. /\ unidlerPc[p] = "wake" /\ unidlerPc'[p] = "strip" /\ unidlerNs'[p] = n
        /\ \A d \in Deployments : wake[p][d] = 0
        /\ dep' = dep /\ stripping'[p] = ToStrip(n)
    BY <1>7 DEF ListPages, Polling, NoReplicas, Goto, clusterVars
  <2>2. \A d \in DeploymentsOf(n) : dep[d].replicas # 0
    BY <2>1 DEF UnidlesAwaken, Awakens, DeploymentsOf
  <2>3. ToStrip(n) \subseteq IngressesOf(n)
    BY DEF ToStrip
  <2>. QED  BY ONLY <2>1, <2>2, <2>3 DEF Awakens, DeploymentsOf, IngressesOf
<1>8. ASSUME NEW i \in Ingresses, StripPage(p, i)
      PROVE  Awakens(p)'
  BY <1>2, <1>8 DEF StripPage, Forget
<1>9. /\ ~ListWatchedError(p) /\ ~ListPagesError(p) /\ ~LabelError(p)
      /\ \A d \in Deployments : ~WakeError(p, d)
      /\ \A i \in Ingresses : ~StripError(p, i)
  BY DEF ListWatchedError, ListPagesError, LabelError, WakeError, StripError
<1>. QED  BY <1>3, <1>4, <1>5, <1>6, <1>7, <1>8, <1>9 DEF UnidlerWork

AwakeningInv ==
    TypeOK /\ NobodyIdles /\ Recoverable /\ AsleepKnown /\ UnidlesAwaken /\ NoDarkEnvironment

LEMMA AwakeningStep ==
  ASSUME AwakeningInv, OnlyUnidlers, ~Faulty, [Next]_vars
  PROVE  UnidlesAwaken'
<1>. USE DEF AwakeningInv
<1>. SUFFICES ASSUME NEW p \in Unidlers PROVE Awakens(p)'
  BY DEF UnidlesAwaken
<1>1. \A d \in Deployments : dep'[d].replicas = 0 => dep[d].replicas = 0
  BY DeploymentStep DEF DeploymentMove
<1>2. CASE UnidlerWork(p)
  BY <1>2, UnidlerWorkAwakens
<1>3. CASE unidlerPc'[p] \in {"off", "load", "list"}
  BY <1>3 DEF Awakens
<1>4. CASE /\ unidlerPc'[p] = unidlerPc[p] /\ unidlerNs'[p] = unidlerNs[p]
           /\ wake'[p] = wake[p] /\ stripping'[p] = stripping[p]
  BY ONLY UnidlesAwaken, <1>1, <1>4 DEF UnidlesAwaken, Awakens, DeploymentsOf, IngressesOf
<1>. QED  BY <1>2, <1>3, <1>4, UnidlerTurns

LEMMA UnidlersCover ==
  ASSUME AwakeningInv, OnlyUnidlers, [Next]_vars
  PROVE  NoDarkEnvironment'
<1>. USE DEF AwakeningInv, TypeOK, ClusterTypeOK
<1>1. \A d \in Deployments : dep'[d].replicas = 0 => dep[d].replicas = 0
  BY DeploymentStep DEF DeploymentMove
<1>2. ASSUME NEW n \in Namespaces, Down(n)'
      PROVE  Down(n)
  BY <1>1, <1>2 DEF Down, DeploymentsOf
<1>3. ASSUME NEW i \in Ingresses, Paged(i), Down(NamespaceOf[i])
      PROVE  Paged(i)'
  <2>1. ASSUME NEW p \in Idlers, NEW j \in Ingresses, Patched(p, j)
        PROVE  FALSE
    BY <2>1 DEF Patched, NobodyIdles, OnlyUnidlers, Idlers
  <2>2. ASSUME NEW p \in Unidlers, NEW j \in Ingresses, Stripping(p, j)
        PROVE  Paged(i)'
    <3>1. /\ \A d \in DeploymentsOf(unidlerNs[p]) : dep[d].replicas # 0
          /\ j \in IngressesOf(unidlerNs[p])
      BY <2>2 DEF Stripping, UnidlesAwaken, Awakens
    <3>2. j # i
      BY <1>3, <3>1 DEF Down, IngressesOf
    <3>. QED  BY <1>3, <2>2, <3>2 DEF Stripping, Paged
  <2>3. ASSUME NEW j \in Annotated, NEW r \in Routers, NEW items \in SUBSET UserItems,
               Annotate(j, r, items)
        PROVE  Paged(i)'
    BY <1>3, <2>3, UserAssumption DEF Annotate, SetPage, Paged, Page
  <2>. QED  BY <1>3, <2>1, <2>2, <2>3, PageStep DEF PageMove, Edited, Paged
<1>4. ASSUME NEW n \in Namespaces, Down(n)', NEW i \in SelectedOf(n)
      PROVE  Paged(i)'
  <2>1. i \in Ingresses /\ NamespaceOf[i] = n /\ Paged(i) /\ Down(n)
    BY <1>2, <1>4 DEF NoDarkEnvironment, SelectedOf, IngressesOf
  <2>. QED  BY <1>3, <2>1
<1>. QED  BY <1>4 DEF NoDarkEnvironment, SelectedOf, IngressesOf

LEMMA UnidlersAwaken ==
  ASSUME OnlyUnidlers, ~Faulty
  PROVE  Spec => []AwakeningInv
<1>1. Init => AsleepKnown /\ UnidlesAwaken /\ NoDarkEnvironment
  <2>1. Init => AsleepKnown
    BY DEF Init, ClusterInit, AsleepKnown
  <2>2. Init => UnidlesAwaken
    BY DEF Init, UnidlerInit, UnidlesAwaken, Awakens
  <2>. QED  BY <2>1, <2>2, DarkInit
<1>2. ASSUME AwakeningInv, [Next]_vars
      PROVE  NobodyIdles' /\ AsleepKnown' /\ UnidlesAwaken' /\ NoDarkEnvironment'
  <2>1. NobodyIdles'
    BY <1>2, NobodyIdlesStep DEF AwakeningInv
  <2>2. AsleepKnown'
    BY <1>2, DeploymentStep DEF AwakeningInv, AsleepKnown, DeploymentMove
  <2>3. UnidlesAwaken' /\ NoDarkEnvironment'
    BY <1>2, AwakeningStep, UnidlersCover
  <2>. QED  BY <2>1, <2>2, <2>3
<1>. QED
  BY <1>1, <1>2, NobodyIdlesInit, TypeCorrect, ZeroIsRecoverable, PTL DEF Spec, AwakeningInv

\* NoDarkEnvironment, for unidlers alone: however many Unidles of a namespace overlap,
\* whether their polls time out, and wherever the process dies, no page comes down while
\* a deployment behind it sleeps.  What an Unidle is not about to wake was awake when it
\* listed the deployments, old as its copy of them was, and nothing puts it to sleep.
THEOREM UnidlersNeverDark ==
  ASSUME OnlyUnidlers, ~Faulty
  PROVE  Spec => []NoDarkEnvironment
BY UnidlersAwaken, PTL DEF AwakeningInv

\* How far an Unidle that takes pages down has come: what it is not to strip any more
\* bounces nobody, in the end nothing does, all is awake, and the label is gone.
Mends(p) ==
    /\ unidlerPc[p] = "strip" =>
           \A i \in IngressesOf(unidlerNs[p]) \ stripping[p] : ~Bounced(i)
    /\ unidlerPc[p] \in {"label", "unlock"} =>
           /\ \A d \in DeploymentsOf(unidlerNs[p]) : dep[d].replicas # 0
           /\ \A i \in IngressesOf(unidlerNs[p]) : ~Bounced(i)
    /\ unidlerPc[p] = "unlock" => ~ns[unidlerNs[p]].idled

UnidlesMend == \A p \in Unidlers : Mends(p)

MendingInv == AwakeningInv /\ CopiesAgree /\ UnidlesMend

\* Nobody labels a namespace as idled.
LEMMA LabelStep ==
  ASSUME TypeOK, NobodyIdles, OnlyUnidlers, [Next]_vars
  PROVE  \A n \in Namespaces : ns'[n].idled => ns[n].idled
<1>. USE DEF TypeOK
<1>1. ASSUME NEW n \in Namespaces, NEW value, SetNs(n, value), value.idled => ns[n].idled
      PROVE  \A m \in Namespaces : ns'[m].idled => ns[m].idled
  BY <1>1 DEF SetNs, ClusterTypeOK
<1>2. ASSUME NEW p \in Unidlers, UnidlerWork(p)
      PROVE  \A n \in Namespaces : ns'[n].idled => ns[n].idled
  <2>1. CASE LabelUnidled(p)
    BY <1>1, <2>1 DEF LabelUnidled, UnidlerTypeOK
  <2>2. CASE ~LabelUnidled(p)
    BY <1>2, <2>2
    DEF UnidlerWork, LoadLock, StoreLock, ListWatched, ListWatchedError, WakeDeployment,
        WakeError, PodReady, GiveUpWaiting, ListPages, ListPagesError, StripPage, StripError,
        AllStripped, LabelError, Unlock, clusterVars, nsVars
  <2>. QED  BY <2>1, <2>2
<1>3. ASSUME NEW n \in Namespaces, NEW c \in Commands, PostCommand(n, c)
      PROVE  \A m \in Namespaces : ns'[m].idled => ns[m].idled
  BY <1>1, <1>3 DEF PostCommand
<1>4. CASE \/ \E d \in Deployments, count \in 1 .. MaxReplicas : Rescale(d, count)
           \/ \E i \in Ingresses, r \in Routers, items \in SUBSET UserItems : Annotate(i, r, items)
           \/ \E r \in Requests, n \in Namespaces : Request(r, n)
           \/ \E n \in Namespaces : Reconcile(n)
           \/ Kubelet \/ Restart \/ UNCHANGED vars
  BY <1>4
  DEF Rescale, Annotate, Request, ReceiveRequest, Reconcile, StartReconcile, ReconcileNothing,
      ReconcileForce, ReconcileUnidle, Take, Kubelet, PodUp, PodDown, Restart, nsVars,
      clusterVars, vars
<1>5. CASE Informers
  BY <1>5 DEF Informers, SyncDeployments, SyncIngresses, SyncNamespaces, nsVars
<1>6. CASE \E r \in Requests : RequestWork(r)
  BY <1>2, <1>6 DEF RequestWork, Unidlers
<1>7. CASE Controller
  <2>1. CASE ClearCommand
    BY <1>1, <2>1 DEF ClearCommand, ControllerTypeOK
  <2>2. CASE ClearError
    BY <2>2 DEF ClearError, clusterVars
  <2>. QED  BY <1>2, <1>7, <2>1, <2>2, NoIdlerWork DEF Controller, ControllerWork, Unidlers
<1>. QED
  BY <1>3, <1>4, <1>5, <1>6, <1>7, UserAssumption DEF Next, Start, Work, OnlyUnidlers

LEMMA MendingStep ==
  ASSUME MendingInv, OnlyUnidlers, ~Faulty, [Next]_vars, NEW p \in Unidlers
  PROVE  Mends(p)'
<1>. USE DEF MendingInv, AwakeningInv, UnidlesMend, TypeOK, UnidlerTypeOK
<1>. DEFINE n == unidlerNs[p]
<1>1. \A d \in Deployments : dep'[d].replicas = 0 => dep[d].replicas = 0
  BY DeploymentStep DEF DeploymentMove
<1>2. \A i \in Ingresses : ~Bounced(i) => ~Bounced(i)'
  BY UnidlersPageMove DEF Bounced
<1>3. \A m \in Namespaces : ns'[m].idled => ns[m].idled
  BY LabelStep
<1>4. CASE unidlerPc'[p] \notin {"strip", "label", "unlock"}
  BY <1>4 DEF Mends
<1>5. CASE /\ unidlerPc'[p] = unidlerPc[p] /\ unidlerNs'[p] = unidlerNs[p]
           /\ stripping'[p] = stripping[p]
  <2>. n \in Namespaces
    OBVIOUS
  <2>. QED
    BY ONLY Mends(p), n \in Namespaces, <1>1, <1>2, <1>3, <1>5
    DEF Mends, DeploymentsOf, IngressesOf
<1>6. CASE UnidlerWork(p)
  <2>1. CASE LoadLock(p) \/ StoreLock(p) \/ ListWatched(p) \/ Unlock(p)
    <3>1. unidlerPc'[p] \in {"off", "store", "list", "wake"}
      BY <2>1 DEF LoadLock, StoreLock, ListWatched, Unlock, Goto, Finish
    <3>. QED  BY <1>4, <3>1
  <2>2. ASSUME NEW d \in Deployments, WakeDeployment(p, d) \/ PodReady(p, d) \/ GiveUpWaiting(p, d)
        PROVE  Mends(p)'
    <3>1. unidlerPc[p] = "wake" /\ unidlerPc' = unidlerPc
      BY <2>2 DEF WakeDeployment, PodReady, GiveUpWaiting, Polling
    <3>. QED  BY <1>4, <3>1
  <2>3. CASE ListPages(p)
    <3>1. /\ unidlerPc'[p] = "strip" /\ unidlerNs'[p] = n
          /\ stripping'[p] = ToStrip(n)
      BY <2>3 DEF ListPages, Goto
    <3>2. ASSUME NEW i \in IngressesOf(n) \ ToStrip(n)
          PROVE  ~Bounced(i)
      <4>1. i \in Ingresses /\ \A r \in Routers : pageCache[i][r] = {}
        BY DEF ToStrip, IngressesOf, NoPage
      <4>. QED  BY <4>1 DEF CopiesAgree, Bounced
    <3>3. \A i \in IngressesOf(n) \ ToStrip(n) : ~Bounced(i)'
      BY <1>2, <3>2 DEF IngressesOf
    <3>. QED  BY ONLY <3>1, <3>3 DEF Mends, IngressesOf
  <2>4. ASSUME NEW i \in Ingresses, StripPage(p, i)
        PROVE  Mends(p)'
    <3>1. /\ unidlerPc[p] = "strip" /\ i \in stripping[p]
          /\ unidlerPc'[p] = "strip" /\ unidlerNs'[p] = n
          /\ stripping'[p] = stripping[p] \ {i}
          /\ page' = [page EXCEPT ![i] =
                         [r \in Routers |-> Stripped(stripFrom[p][i][r], page[i][r])]]
      BY <2>4 DEF StripPage, SetPage, Forget
    <3>2. \A r \in Routers : Ours \in page[i][r] => Ours \in stripFrom[p][i][r]
      BY <3>1 DEF CopiesAgree
    <3>3. \A r \in Routers : page'[i][r] = Stripped(stripFrom[p][i][r], page[i][r])
      BY <3>1 DEF ClusterTypeOK
    <3>4. ~Bounced(i)'
      BY <3>2, <3>3 DEF Bounced, Stripped, RemoveStatusCode
    <3>5. \A j \in IngressesOf(n) \ stripping[p] : ~Bounced(j)'
      BY <1>2, <3>1 DEF Mends, IngressesOf
    <3>. QED  BY ONLY <3>1, <3>4, <3>5 DEF Mends, IngressesOf
  <2>5. CASE AllStripped(p)
    <3>1. /\ unidlerPc[p] = "strip" /\ stripping[p] = {}
          /\ unidlerPc'[p] = "label" /\ unidlerNs'[p] = n
      BY <2>5 DEF AllStripped, Goto
    <3>2. \A d \in DeploymentsOf(n) : dep'[d].replicas # 0
      BY <1>1, <3>1 DEF UnidlesAwaken, Awakens, DeploymentsOf
    <3>3. \A i \in IngressesOf(n) : ~Bounced(i)'
      BY <1>2, <3>1 DEF Mends, IngressesOf
    <3>. QED  BY ONLY <3>1, <3>2, <3>3 DEF Mends, IngressesOf, DeploymentsOf
  <2>6. CASE LabelUnidled(p)
    <3>1. /\ unidlerPc[p] = "label" /\ unidlerPc'[p] = "unlock" /\ unidlerNs'[p] = n
          /\ ~ns'[n].idled
      BY <2>6 DEF LabelUnidled, SetNs, Goto, ClusterTypeOK
    <3>2. \A d \in DeploymentsOf(n) : dep'[d].replicas # 0
      BY <1>1, <3>1 DEF Mends, DeploymentsOf
    <3>3. \A i \in IngressesOf(n) : ~Bounced(i)'
      BY <1>2, <3>1 DEF Mends, IngressesOf
    <3>. QED  BY ONLY <3>1, <3>2, <3>3 DEF Mends, IngressesOf, DeploymentsOf
  <2>7. /\ ~ListWatchedError(p) /\ ~ListPagesError(p) /\ ~LabelError(p)
        /\ \A d \in Deployments : ~WakeError(p, d)
        /\ \A i \in Ingresses : ~StripError(p, i)
    BY DEF ListWatchedError, ListPagesError, LabelError, WakeError, StripError
  <2>. QED  BY <1>6, <2>1, <2>2, <2>3, <2>4, <2>5, <2>6, <2>7 DEF UnidlerWork
<1>. QED  BY <1>4, <1>5, <1>6, UnidlerTurns

\* UnidleCompletes, for unidlers alone: of several Unidles of a namespace that overlap,
\* over old copies of its ingresses and deployments, each one that gets to its end
\* leaves everything up, nobody bounced and no label, whatever the others still do and
\* whatever a crash cut short.
THEOREM UnidlersMend ==
  ASSUME OnlyUnidlers, ~Faulty
  PROVE  Spec => []UnidleCompletes
<1>1. Init => UnidlesMend
  BY DEF Init, UnidlerInit, UnidlesMend, Mends
<1>2. MendingInv /\ [Next]_vars => UnidlesMend'
  BY MendingStep DEF UnidlesMend
<1>3. Spec => [](AwakeningInv /\ CopiesAgree)
  BY UnidlersAwaken, UnidlersCopies, PTL
<1>4. MendingInv => UnidleCompletes
  BY DEF MendingInv, UnidlesMend, Mends, UnidleCompletes, Down
<1>. QED  BY <1>1, <1>2, <1>3, <1>4, PTL DEF Spec, MendingInv

-----------------------------------------------------------------------------
(* Pages wait for pods                                                      *)

OnlyUnidling ==
    /\ OnlyUnidlers
    /\ ~Faulty /\ ~PollTimeout
    /\ \A d, e \in Deployments : MatchLabels[d] = MatchLabels[e] => d = e

\* A pod that runs is wanted, and a deployment without one is on the list of every
\* Unidle, whichever copy of it that Unidle reads.
PodsKnown ==
    \A d \in Deployments :
        /\ running[d] => dep[d].replicas > 0
        /\ running[d] \/ (dep[d].watch /\ depCache[d].watch)

\* What an Unidle does not wait for any more runs, and it strips the ingresses of
\* its own namespace.
UnidleWaits ==
    \A p \in Unidlers :
        /\ unidlerPc[p] = "wake" =>
               \A d \in DeploymentsOf(unidlerNs[p]) \ waiting[p] : running[d]
        /\ unidlerPc[p] = "strip" =>
               /\ \A d \in DeploymentsOf(unidlerNs[p]) : running[d]
               /\ stripping[p] \subseteq IngressesOf(unidlerNs[p])

ReadyInv == TypeOK /\ NobodyIdles /\ PodsKnown /\ UnidleWaits

LEMMA ReadyInit == Init => PodsKnown /\ UnidleWaits
<1>. SUFFICES ASSUME Init PROVE PodsKnown /\ UnidleWaits
  OBVIOUS
<1>. PICK asleep \in SUBSET Namespaces,
          count \in [Deployments -> 1 .. MaxReplicas],
          target \in [Deployments -> 0 .. MaxReplicas],
          items \in [Ingresses -> [Routers -> SUBSET UserItems]] :
       InitialCluster(asleep, count, target, items)
  BY Zenon DEF Init, ClusterInit
<1>2. ASSUME NEW d \in Deployments
      PROVE  /\ running[d] => dep[d].replicas > 0
             /\ running[d] \/ (dep[d].watch /\ depCache[d].watch)
  <2>. USE DEF InitialCluster
  <2>1. running[d] <=> NamespaceOf[d] \notin asleep
    OBVIOUS
  <2>2. CASE NamespaceOf[d] \in asleep
    <3>1. dep[d] = AsleepDeployment(target[d]) /\ depCache = dep
      BY <2>2 DEF Init, ClusterInit
    <3>. QED  BY <2>1, <2>2, <3>1 DEF AsleepDeployment
  <2>3. CASE NamespaceOf[d] \notin asleep
    <3>1. dep[d] = FreshDeployment(count[d])
      BY <2>3
    <3>2. dep[d].replicas = count[d] /\ count[d] > 0
      BY <3>1, TopologyAssumption DEF FreshDeployment
    <3>. QED  BY <2>1, <2>3, <3>2
  <2>. QED  BY <2>2, <2>3
<1>3. UnidleWaits
  BY DEF Init, UnidlerInit, UnidleWaits
<1>. QED  BY <1>2, <1>3 DEF PodsKnown

\* A patch of a deployment that keeps the watch label and wants pods.
LEMMA SetDepKnown ==
  ASSUME TypeOK, PodsKnown, NEW d \in Deployments, NEW value, SetDep(d, value),
         value.replicas > 0, value.watch = dep[d].watch, UNCHANGED running
  PROVE  PodsKnown'
  BY DEF SetDep, PodsKnown, TypeOK, ClusterTypeOK

\* A step of one Unidle.
LEMMA UnidlerWorkReady ==
  ASSUME ReadyInv, OnlyUnidling, NEW p \in Unidlers, UnidlerWork(p), UNCHANGED idlerVars
  PROVE  PodsKnown' /\ UnidleWaits'
<1>. USE DEF ReadyInv, TypeOK, UnidlerTypeOK, OnlyUnidling, Goto
<1>2. ASSUME UNCHANGED <<dep, depCache, running>>
      PROVE  PodsKnown'
  BY <1>2 DEF PodsKnown
<1>3. CASE LoadLock(p) \/ StoreLock(p) \/ AllStripped(p) \/ Unlock(p)
  <2>1. unidlerPc'[p] \notin {"wake", "strip"} /\ UNCHANGED <<running, waiting, stripping>>
    BY <1>3 DEF LoadLock, StoreLock, AllStripped, Unlock, Finish, clusterVars, stripVars
  <2>2. \A q \in Unidlers \ {p} :
            unidlerPc'[q] = unidlerPc[q] /\ unidlerNs'[q] = unidlerNs[q]
    BY <1>3 DEF LoadLock, StoreLock, AllStripped, Unlock, Finish
  <2>3. UnidleWaits'
    <3>1. \A q \in Unidlers : unidlerPc'[q] \in {"wake", "strip"} =>
              unidlerPc'[q] = unidlerPc[q] /\ unidlerNs'[q] = unidlerNs[q]
      BY <2>1, <2>2
    <3>2. UNCHANGED <<running, waiting, stripping>>
      BY <2>1
    <3>. QED  BY ONLY UnidleWaits, <3>1, <3>2 DEF UnidleWaits, DeploymentsOf, IngressesOf
  <2>. QED
    BY <1>2, <1>3, <2>3 DEF LoadLock, StoreLock, AllStripped, Unlock, clusterVars
<1>4. CASE ListWatched(p)
  <2>1. \A d \in DeploymentsOf(unidlerNs[p]) \ Watched(unidlerNs[p]) : running[d]
    BY DEF Watched, DeploymentsOf, PodsKnown
  <2>2. UnidleWaits'
    BY <1>4, <2>1 DEF ListWatched, UnidleWaits, clusterVars, stripVars
  <2>. QED  BY <1>2, <1>4, <2>2 DEF ListWatched, clusterVars
<1>5. ASSUME NEW d \in Deployments, WakeDeployment(p, d)
      PROVE  PodsKnown' /\ UnidleWaits'
  <2>1. PodsKnown'
    BY <1>5, SetDepKnown DEF WakeDeployment, AwakeDeployment
  <2>2. UnidleWaits'
    BY <1>5 DEF WakeDeployment, UnidleWaits, stripVars
  <2>. QED  BY <2>1, <2>2
<1>6. ASSUME NEW d \in Deployments, PodReady(p, d)
      PROVE  PodsKnown' /\ UnidleWaits'
  <2>1. running[d]
    BY <1>6 DEF PodReady, HasRunningPod
  <2>2. UnidleWaits'
    BY <1>6, <2>1 DEF PodReady, UnidleWaits, clusterVars, stripVars
  <2>. QED  BY <1>2, <1>6, <2>2 DEF PodReady, clusterVars
<1>7. CASE ListPages(p)
  <2>1. \A d \in DeploymentsOf(unidlerNs[p]) : running[d]
    BY <1>7 DEF ListPages, Polling, UnidleWaits
  <2>2. ToStrip(unidlerNs[p]) \subseteq IngressesOf(unidlerNs[p])
    BY DEF ToStrip
  <2>3. UnidleWaits'
    BY <1>7, <2>1, <2>2 DEF ListPages, UnidleWaits, clusterVars
  <2>. QED  BY <1>2, <1>7, <2>3 DEF ListPages, clusterVars
<1>8. ASSUME NEW i \in Ingresses, StripPage(p, i)
      PROVE  PodsKnown' /\ UnidleWaits'
  <2>1. UnidleWaits'
    BY <1>8 DEF StripPage, Forget, UnidleWaits
  <2>. QED  BY <1>2, <1>8, <2>1 DEF StripPage, depVars
<1>9. CASE LabelUnidled(p)
  <2>1. UnidleWaits'
    BY <1>9 DEF LabelUnidled, UnidleWaits, stripVars
  <2>. QED  BY <1>2, <1>9, <2>1 DEF LabelUnidled, depVars
<1>10. /\ ~ListWatchedError(p) /\ ~ListPagesError(p) /\ ~LabelError(p)
       /\ \A d \in Deployments : ~WakeError(p, d) /\ ~GiveUpWaiting(p, d)
       /\ \A i \in Ingresses : ~StripError(p, i)
  BY DEF ListWatchedError, ListPagesError, LabelError, WakeError, GiveUpWaiting, StripError
<1>. QED
  BY <1>3, <1>4, <1>5, <1>6, <1>7, <1>8, <1>9, <1>10 DEF UnidlerWork

LEMMA ReadyStep ==
  ASSUME ReadyInv, OnlyUnidling, [Next]_vars
  PROVE  PodsKnown' /\ UnidleWaits'
<1>. USE DEF ReadyInv
<1>1. ASSUME UNCHANGED <<dep, depCache, running>>
      PROVE  PodsKnown'
  BY <1>1 DEF PodsKnown
<1>3. ASSUME UNCHANGED <<running, unidlerVars>>
      PROVE  UnidleWaits'
  BY <1>3 DEF UnidleWaits, unidlerVars, stripVars
<1>4. ASSUME NEW n \in Namespaces, NEW c \in Commands, PostCommand(n, c)
      PROVE  PodsKnown' /\ UnidleWaits'
  BY <1>1, <1>3, <1>4 DEF PostCommand, depVars, processVars
<1>5. ASSUME NEW d \in Deployments, NEW count \in 1 .. MaxReplicas, Rescale(d, count)
      PROVE  PodsKnown' /\ UnidleWaits'
  <2>1. PodsKnown'
    BY <1>5, SetDepKnown, TopologyAssumption DEF Rescale
  <2>. QED  BY <1>3, <1>5, <2>1 DEF Rescale, processVars
<1>6. ASSUME NEW i \in Ingresses, NEW r \in Routers, NEW items \in SUBSET UserItems,
             Annotate(i, r, items)
      PROVE  PodsKnown' /\ UnidleWaits'
  BY <1>1, <1>3, <1>6 DEF Annotate, depVars, processVars
<1>7. ASSUME NEW r \in Requests, NEW n \in Namespaces, Request(r, n)
      PROVE  PodsKnown' /\ UnidleWaits'
  <2>1. UNCHANGED <<dep, depCache, running>>
    BY <1>7 DEF Request, ReceiveRequest, clusterVars
  <2>2. UnidleWaits'
    BY <1>7
    DEF Request, ReceiveRequest, Goto, TypeOK, UnidlerTypeOK, UnidleWaits, clusterVars, stripVars
  <2>. QED  BY <1>1, <2>1, <2>2
<1>8. ASSUME NEW r \in Requests, RequestWork(r)
      PROVE  PodsKnown' /\ UnidleWaits'
  BY <1>8, UnidlerWorkReady DEF RequestWork, Unidlers
<1>9. CASE Controller
  <2>1. CASE UnidlerWork(Reconciler) /\ UNCHANGED idlerVars
    BY <2>1, UnidlerWorkReady DEF Unidlers
  <2>2. CASE ClearCommand
    BY <1>1, <1>3, <2>2 DEF ClearCommand, depVars
  <2>. QED
    BY <1>9, <2>1, <2>2, NoIdlerWork DEF Controller, ControllerWork, ClearError, OnlyUnidling
<1>10. ASSUME NEW n \in Namespaces, Reconcile(n)
       PROVE  PodsKnown' /\ UnidleWaits'
  <2>1. FirstCommand(nsCache[n].commands) \in {"unidle", "none"}
    BY DEF NobodyIdles, FirstCommand
  <2>2. Take(n) /\ (UNCHANGED unidlerVars \/ ReconcileUnidle(n))
    BY <1>10, <2>1
    DEF Reconcile, StartReconcile, ReconcileNothing, ReconcileForce, ReconcileUnidle
  <2>4. UNCHANGED <<dep, depCache, running>>
    BY <2>2 DEF Take, depVars
  <2>5. UnidleWaits'
    <3>1. CASE UNCHANGED unidlerVars
      BY <1>3, <2>4, <3>1
    <3>2. CASE ReconcileUnidle(n)
      BY <2>4, <3>2
      DEF ReconcileUnidle, Goto, TypeOK, UnidlerTypeOK, UnidleWaits, stripVars
    <3>. QED  BY <2>2, <3>1, <3>2
  <2>. QED  BY <1>1, <2>4, <2>5
<1>11. CASE Informers
  <2>1. PodsKnown'
    BY <1>11
    DEF Informers, SyncDeployments, SyncIngresses, SyncNamespaces, depVars, PodsKnown
  <2>. QED
    BY <1>3, <1>11, <2>1
    DEF Informers, SyncDeployments, SyncIngresses, SyncNamespaces, processVars
<1>12. CASE Kubelet
  <2>1. PICK d \in Deployments : PodUp(d) \/ PodDown(d)
    BY <1>12 DEF Kubelet
  <2>2. PodUp(d)
    BY <2>1 DEF PodDown, PodsKnown
  <2>3. UNCHANGED <<dep, depCache, unidlerVars>>
    BY <1>12, <2>2 DEF Kubelet, PodUp, depVars, processVars
  <2>4. /\ running' = [running EXCEPT ![d] = TRUE]
        /\ dep[d].replicas > 0
    BY <2>2 DEF PodUp
  <2>5. running' \in [Deployments -> BOOLEAN] /\ \A e \in Deployments : running[e] => running'[e]
    BY <2>4 DEF TypeOK, ClusterTypeOK
  <2>6. PodsKnown'
    BY <2>3, <2>4 DEF PodsKnown, TypeOK, ClusterTypeOK
  <2>7. UnidleWaits'
    BY <2>3, <2>5 DEF UnidleWaits, unidlerVars, stripVars, DeploymentsOf
  <2>. QED  BY <2>6, <2>7
<1>13. CASE Restart
  BY <1>13 DEF Restart, PodsKnown, UnidleWaits
<1>14. CASE UNCHANGED vars
  BY <1>1, <1>3, <1>14 DEF vars, clusterVars, processVars
<1>. QED
  BY <1>4, <1>5, <1>6, <1>7, <1>8, <1>9, <1>10, <1>11, <1>12, <1>13, <1>14, UserAssumption
  DEF Next, Start, Work, OnlyUnidling, OnlyUnidlers

\* Only an Unidle takes a page down.
LEMMA PageTakenDown ==
  ASSUME ReadyInv, OnlyUnidling, [Next]_vars, NEW i \in Ingresses, Paged(i), ~Paged(i)'
  PROVE  \E p \in Unidlers : StripPage(p, i)
<1>. USE DEF ReadyInv
<1>1. ASSUME UNCHANGED page
      PROVE  FALSE
  BY <1>1 DEF Paged
<1>2. ASSUME NEW j \in Ingresses, NEW r \in Routers, NEW items \in SUBSET UserItems,
             Annotate(j, r, items)
      PROVE  FALSE
  BY <1>2 DEF Annotate, SetPage, Paged, TypeOK, ClusterTypeOK, Page
<1>3. ASSUME NEW p \in Unidlers, UnidlerWork(p)
      PROVE  \E q \in Unidlers : StripPage(q, i)
  <2>1. ASSUME NEW j \in Ingresses, StripPage(p, j)
        PROVE  j = i
    BY <2>1 DEF StripPage, SetPage, Paged, TypeOK, ClusterTypeOK
  <2>2. (\A j \in Ingresses : ~StripPage(p, j)) => UNCHANGED page
    BY <1>3
    DEF UnidlerWork, LoadLock, StoreLock, ListWatched, ListWatchedError, WakeDeployment,
        WakeError, PodReady, GiveUpWaiting, ListPages, ListPagesError, StripError, AllStripped,
        LabelUnidled, LabelError, Unlock, clusterVars, pageVars
  <2>. QED  BY <1>1, <2>1, <2>2
<1>4. ASSUME NEW n \in Namespaces, NEW c \in Commands, PostCommand(n, c)
      PROVE  FALSE
  BY <1>1, <1>4 DEF PostCommand, pageVars
<1>5. ASSUME NEW d \in Deployments, NEW count \in 1 .. MaxReplicas, Rescale(d, count)
      PROVE  FALSE
  BY <1>1, <1>5 DEF Rescale, pageVars
<1>6. ASSUME NEW r \in Requests, NEW n \in Namespaces, Request(r, n)
      PROVE  FALSE
  BY <1>1, <1>6 DEF Request, ReceiveRequest, clusterVars
<1>7. ASSUME NEW n \in Namespaces, Reconcile(n)
      PROVE  FALSE
  BY <1>1, <1>7
  DEF Reconcile, StartReconcile, ReconcileNothing, ReconcileForce, ReconcileUnidle, Take,
      pageVars
<1>8. CASE Informers \/ Kubelet \/ Restart \/ UNCHANGED vars
  BY <1>1, <1>8
  DEF Informers, SyncDeployments, SyncIngresses, SyncNamespaces, Kubelet, PodUp, PodDown,
      Restart, vars, clusterVars, pageVars
<1>9. CASE Controller
  <2>1. CASE ClearCommand \/ ClearError
    BY <1>1, <2>1 DEF ClearCommand, ClearError, clusterVars, pageVars
  <2>2. CASE UnidlerWork(Reconciler)
    BY <1>3, <2>2 DEF Unidlers
  <2>. QED  BY <1>9, <2>1, <2>2, NoIdlerWork DEF Controller, ControllerWork
<1>10. ASSUME NEW r \in Requests, RequestWork(r)
       PROVE  \E q \in Unidlers : StripPage(q, i)
  BY <1>3, <1>10 DEF RequestWork, Unidlers
<1>. QED
  BY <1>2, <1>4, <1>5, <1>6, <1>7, <1>8, <1>9, <1>10, UserAssumption
  DEF Next, Start, Work, OnlyUnidling, OnlyUnidlers

(***************************************************************************)
(* The pages of an environment come down only when each of its deployments  *)
(* has a pod running, however many Unidles are at it and wherever the       *)
(* process dies (Unidle, hasRunningPod, removeCodeFromIngress).             *)
(***************************************************************************)
THEOREM PagesWaitForPods ==
  ASSUME OnlyUnidling
  PROVE  Spec => PageUntilReady
<1>1. ASSUME ReadyInv, [Next]_vars
      PROVE  [\A i \in Ingresses : Paged(i) /\ ~Paged(i)' =>
                  \A d \in DeploymentsOf(NamespaceOf[i]) : running[d]]_vars
  <2>. SUFFICES ASSUME NEW i \in Ingresses, Paged(i), ~Paged(i)'
                PROVE  \A d \in DeploymentsOf(NamespaceOf[i]) : running[d]
    OBVIOUS
  <2>1. PICK p \in Unidlers : StripPage(p, i)
    BY <1>1, PageTakenDown
  <2>2. unidlerPc[p] = "strip" /\ i \in stripping[p]
    BY <2>1 DEF StripPage
  <2>3. NamespaceOf[i] = unidlerNs[p]
    BY <1>1, <2>2 DEF ReadyInv, UnidleWaits, IngressesOf
  <2>. QED  BY <1>1, <2>2, <2>3 DEF ReadyInv, UnidleWaits
<1>2. ReadyInv /\ [Next]_vars => NobodyIdles' /\ PodsKnown' /\ UnidleWaits'
  BY ReadyStep, NobodyIdlesStep DEF ReadyInv, OnlyUnidling
<1>3. Spec => []ReadyInv
  BY <1>2, ReadyInit, NobodyIdlesInit, TypeCorrect, PTL DEF Spec, ReadyInv
<1>. QED  BY <1>1, <1>3, PTL DEF Spec, PageUntilReady
=============================================================================
