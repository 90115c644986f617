--------------------------- MODULE DormancyProofs ---------------------------
(***************************************************************************)
(* Operations taken one at a time: the deployments of every cluster sleep   *)
(* and wake as Dormancy says, however the informers lag.                    *)
(***************************************************************************)
EXTENDS SerialProofs

\* No command starts a run of the idler: forcing an environment that is idled
\* already forgets the size it had.
OnlyUnidleLabels ==
    \A n \in Namespaces : ns[n].commands \cup nsCache[n].commands \subseteq {"unidle"}
Unforced == \A p \in Idlers : force[p] = "no"

\* A run finds the deployments as the last operation left them, and reads them so.
\* One that idles found none at zero, and what it has still to scale is as read.
Remembered ==
    \A p \in Idlers :
        /\ idlerPc[p] \in {"list", "inspect"} =>
               depCache = dep /\ \A d \in Deployments : running[d] <=> dep[d].replicas > 0
        /\ idlerPc[p] = "inspect" =>
               \A d \in DeploymentsOf(idlerNs[p]) : snapshot[p][d] = dep[d].replicas
        /\ idlerPc[p] = "patch" =>
               \A d \in DeploymentsOf(idlerNs[p]) :
                   snapshot[p][d] = dep[d].replicas /\ dep[d].replicas # 0
        /\ idlerPc[p] = "scale" =>
               \A d \in toScale[p] :
                   snapshot[p][d] = dep[d].replicas /\ dep[d].replicas # 0

\* What an Unidle is about to wake is asleep, and gets the size it had.
Restored ==
    \A p \in Unidlers : unidlerPc[p] = "wake" =>
        \A d \in Deployments : wake[p][d] > 0 =>
            dep[d].replicas = 0 /\ wake[p][d] = RestoredCount(d)

SleepParts ==
    OnlyUnidleLabels /\ Unforced /\ Remembered /\ Restored /\ StripsOwn /\ PagesPatched
SleepInv == LabelInv /\ SleepParts

-----------------------------------------------------------------------------
(* Steps of the abstract environment                                        *)

\* Counts, sizes and pages stay: nothing happens.
LEMMA DormancyStutter ==
  ASSUME UNCHANGED dep, \A i \in Ingresses : Paged(i)' <=> Paged(i)
  PROVE  UNCHANGED Environment!dormancyVars
<1>1. \A d \in Deployments : RestoredCount(d)' = RestoredCount(d)
  BY DEF RestoredCount
<1>2. \A n \in Namespaces :
         (\A i \in SelectedOf(n) : Paged(i))' <=> \A i \in SelectedOf(n) : Paged(i)
  BY DEF SelectedOf, IngressesOf
<1>. QED  BY <1>1, <1>2 DEF Environment!dormancyVars

\* One deployment is patched, and no ingress.
LEMMA DeploymentStep ==
  ASSUME TypeOK, NEW d \in Deployments, NEW value, dep' = [dep EXCEPT ![d] = value],
         UNCHANGED page
  PROVE  /\ \A e \in Deployments : e # d => dep'[e] = dep[e] /\ RestoredCount(e)' = RestoredCount(e)
         /\ dep'[d] = value
         /\ UNCHANGED {n \in Namespaces : \A i \in SelectedOf(n) : Paged(i)}
<1>1. dep'[d] = value /\ \A e \in Deployments : e # d => dep'[e] = dep[e]
  BY DEF TypeOK, ClusterTypeOK
<1>2. UNCHANGED {n \in Namespaces : \A i \in SelectedOf(n) : Paged(i)}
  BY DEF SelectedOf, IngressesOf, Paged
<1>. QED  BY <1>1, <1>2 DEF RestoredCount

\* A run that scales puts a deployment to sleep under its pages.
LEMMA SleepStep ==
  ASSUME SleepInv, NEW p \in Idlers, NEW d \in Deployments, IdleDeployment(p, d)
  PROVE  Environment!Sleep(d)
<1>. USE DEF SleepInv, SleepParts, LabelInv, LabelParts
<1>1. /\ idlerPc[p] = "scale" /\ d \in toScale[p]
      /\ dep' = [dep EXCEPT ![d] = IdledBy(p, d)]
      /\ UNCHANGED page
  BY DEF IdleDeployment, SetDep, pageVars
<1>2. /\ \A i \in SelectedOf(NamespaceOf[d]) : Paged(i)
      /\ snapshot[p][d] = dep[d].replicas /\ dep[d].replicas # 0
  BY <1>1 DEF PagesPatched, Remembered
<1>3. NamespaceOf[d] \in Namespaces /\ dep[d].replicas \in Nat
  BY TopologyAssumption DEF TypeOK, ClusterTypeOK, Deployment
<1>4. RestoredCount(d)' = RestoredCount(d) /\ dep'[d].replicas = 0
  <2>1. dep'[d] = IdledBy(p, d)
    BY <1>1, DeploymentStep
  <2>2. dep'[d].replicas = 0 /\ dep'[d].target = dep[d].replicas /\ dep[d].replicas > 0
    BY <1>2, <1>3, <2>1 DEF IdledBy, IdleReplicas
  <2>. QED  BY <2>2 DEF RestoredCount
<1>5. UNCHANGED [e \in Deployments |-> RestoredCount(e)]
  BY <1>1, <1>4, DeploymentStep
<1>6. {e \in Deployments : dep'[e].replicas = 0} =
          {e \in Deployments : dep[e].replicas = 0} \cup {d}
  BY <1>1, <1>4, DeploymentStep
<1>7. UNCHANGED {n \in Namespaces : \A i \in SelectedOf(n) : Paged(i)}
  BY <1>1, DeploymentStep
<1>. QED  BY <1>2, <1>3, <1>5, <1>6, <1>7 DEF Environment!Sleep

\* An Unidle that wakes a deployment gives it the size it had.
LEMMA WakeStep ==
  ASSUME SleepInv, NEW p \in Unidlers, NEW d \in Deployments, WakeDeployment(p, d)
  PROVE  Environment!Wake(d)
<1>. USE DEF SleepInv, SleepParts, LabelInv, LabelParts
<1>1. /\ unidlerPc[p] = "wake" /\ wake[p][d] > 0
      /\ dep' = [dep EXCEPT ![d] = AwakeDeployment(p, d)]
      /\ UNCHANGED page
  BY DEF WakeDeployment, SetDep, pageVars
<1>2. wake[p][d] = RestoredCount(d) /\ wake[p][d] \in Nat
  BY <1>1 DEF Restored, TypeOK, UnidlerTypeOK
<1>3. RestoredCount(d)' = RestoredCount(d) /\ dep'[d].replicas # 0
  <2>1. dep'[d] = AwakeDeployment(p, d)
    BY <1>1, DeploymentStep
  <2>2. dep'[d].replicas = wake[p][d]
    BY <2>1 DEF AwakeDeployment
  <2>. QED  BY <1>1, <1>2, <2>2 DEF RestoredCount
<1>4. UNCHANGED [e \in Deployments |-> RestoredCount(e)]
  BY <1>1, <1>3, DeploymentStep
<1>5. {e \in Deployments : dep'[e].replicas = 0} =
          {e \in Deployments : dep[e].replicas = 0} \ {d}
  BY <1>1, <1>3, DeploymentStep
<1>6. UNCHANGED {n \in Namespaces : \A i \in SelectedOf(n) : Paged(i)}
  BY <1>1, DeploymentStep
<1>. QED  BY <1>4, <1>5, <1>6 DEF Environment!Wake

\* A deployment that runs is given another size.
LEMMA ResizeStep ==
  ASSUME TypeOK, NEW d \in Deployments, NEW count \in 1 .. MaxReplicas, Rescale(d, count)
  PROVE  Environment!Resize(d, count)
<1>1. /\ dep[d].replicas > 0
      /\ dep' = [dep EXCEPT ![d] =
             [replicas |-> count, watch |-> dep[d].watch, idled |-> dep[d].idled,
              forceScaled |-> dep[d].forceScaled, target |-> dep[d].target]]
      /\ UNCHANGED page
  BY DEF Rescale, SetDep, pageVars
<1>2. dep'[d].replicas = count /\ RestoredCount(d)' = count /\ count # 0
  <2>1. dep'[d] = [replicas |-> count, watch |-> dep[d].watch, idled |-> dep[d].idled,
                   forceScaled |-> dep[d].forceScaled, target |-> dep[d].target]
    BY <1>1, DeploymentStep
  <2>2. dep'[d].replicas = count /\ count > 0
    BY <2>1, TopologyAssumption
  <2>. QED  BY <2>2 DEF RestoredCount
<1>3. dep[d].replicas # 0
  BY <1>1 DEF TypeOK, ClusterTypeOK, Deployment
<1>4. [e \in Deployments |-> RestoredCount(e)]' =
          [[e \in Deployments |-> RestoredCount(e)] EXCEPT ![d] = count]
  BY <1>1, <1>2, DeploymentStep
<1>5. {e \in Deployments : dep'[e].replicas = 0} = {e \in Deployments : dep[e].replicas = 0}
  BY <1>1, <1>2, <1>3, DeploymentStep
<1>6. UNCHANGED {n \in Namespaces : \A i \in SelectedOf(n) : Paged(i)}
  BY <1>1, DeploymentStep
<1>. QED  BY <1>3, <1>4, <1>5, <1>6 DEF Environment!Resize

\* One ingress goes under its page: its namespace may be covered now.
LEMMA CoverStep ==
  ASSUME NEW i \in Ingresses, UNCHANGED dep,
         \A j \in Ingresses : Paged(j)' <=> j = i \/ Paged(j)
  PROVE  Environment!Cover(NamespaceOf[i]) \/ UNCHANGED Environment!dormancyVars
<1>1. NamespaceOf[i] \in Namespaces
  BY TopologyAssumption
<1>2. \A d \in Deployments : RestoredCount(d)' = RestoredCount(d)
  BY DEF RestoredCount
<1>3. \A n \in Namespaces : n # NamespaceOf[i] =>
         ((\A j \in SelectedOf(n) : Paged(j))' <=> \A j \in SelectedOf(n) : Paged(j))
  BY DEF SelectedOf, IngressesOf
<1>4. (\A j \in SelectedOf(NamespaceOf[i]) : Paged(j)) =>
          (\A j \in SelectedOf(NamespaceOf[i]) : Paged(j))'
  BY DEF SelectedOf, IngressesOf
<1>5. CASE (\A j \in SelectedOf(NamespaceOf[i]) : Paged(j))' /\
           ~ \A j \in SelectedOf(NamespaceOf[i]) : Paged(j)
  <2>1. {n \in Namespaces : \A j \in SelectedOf(n) : Paged(j)}' =
            {n \in Namespaces : \A j \in SelectedOf(n) : Paged(j)} \cup {NamespaceOf[i]}
    BY <1>1, <1>3, <1>5
  <2>. QED  BY <1>2, <2>1 DEF Environment!Cover
<1>6. CASE (\A j \in SelectedOf(NamespaceOf[i]) : Paged(j))' <=>
           \A j \in SelectedOf(NamespaceOf[i]) : Paged(j)
  BY <1>1, <1>2, <1>3, <1>6 DEF Environment!dormancyVars
<1>. QED  BY <1>4, <1>5, <1>6

\* One ingress may lose its page, in a namespace that is awake.
LEMMA UncoverStep ==
  ASSUME NEW i \in Ingresses, UNCHANGED dep,
         \A d \in DeploymentsOf(NamespaceOf[i]) : dep[d].replicas # 0,
         \A j \in Ingresses : j # i => (Paged(j)' <=> Paged(j)),
         Paged(i)' => Paged(i)
  PROVE  Environment!Uncover(NamespaceOf[i]) \/ UNCHANGED Environment!dormancyVars
<1>1. NamespaceOf[i] \in Namespaces
  BY TopologyAssumption
<1>2. \A d \in Deployments : RestoredCount(d)' = RestoredCount(d)
  BY DEF RestoredCount
<1>3. \A n \in Namespaces : n # NamespaceOf[i] =>
         ((\A j \in SelectedOf(n) : Paged(j))' <=> \A j \in SelectedOf(n) : Paged(j))
  BY DEF SelectedOf, IngressesOf
<1>4. (\A j \in SelectedOf(NamespaceOf[i]) : Paged(j))' =>
          \A j \in SelectedOf(NamespaceOf[i]) : Paged(j)
  BY DEF SelectedOf, IngressesOf
<1>5. CASE (\A j \in SelectedOf(NamespaceOf[i]) : Paged(j)) /\
           ~ (\A j \in SelectedOf(NamespaceOf[i]) : Paged(j))'
  <2>1. {n \in Namespaces : \A j \in SelectedOf(n) : Paged(j)}' =
            {n \in Namespaces : \A j \in SelectedOf(n) : Paged(j)} \ {NamespaceOf[i]}
    BY <1>1, <1>3, <1>5
  <2>2. {d \in {e \in Deployments : dep[e].replicas = 0} : NamespaceOf[d] = NamespaceOf[i]} = {}
    BY DEF DeploymentsOf
  <2>. QED  BY <1>2, <2>1, <2>2 DEF Environment!Uncover, Environment!Asleep
<1>6. CASE (\A j \in SelectedOf(NamespaceOf[i]) : Paged(j))' <=>
           \A j \in SelectedOf(NamespaceOf[i]) : Paged(j)
  BY <1>1, <1>2, <1>3, <1>6 DEF Environment!dormancyVars
<1>. QED  BY <1>4, <1>5, <1>6

-----------------------------------------------------------------------------
(* Steps of the system                                                      *)

\* A patch of a namespace that adds no command to force idling.
LEMMA SetNsOnlyUnidle ==
  ASSUME TypeOK, OnlyUnidleLabels, NEW n \in Namespaces, NEW value, SetNs(n, value),
         value.commands \subseteq {"unidle"}
  PROVE  OnlyUnidleLabels'
BY DEF TypeOK, ClusterTypeOK, OnlyUnidleLabels, SetNs

\* A step of a run of the idler: of the others, none is at work.
LEMMA IdlerWorkDormancy ==
  ASSUME SleepInv, Undisturbed, NEW p \in Idlers, IdlerWork(p), UNCHANGED unidlerVars
  PROVE  SleepParts' /\ [Environment!Next]_(Environment!dormancyVars)
<1>. USE DEF SleepInv, SleepParts, LabelInv, LabelParts, TypeOK, IdlerTypeOK
<1>1. /\ idlerPc[p] # "off"
      /\ \A q \in Unidlers : unidlerPc[q] = "off" /\ unidlerPc'[q] = "off"
      /\ \A q \in Idlers : q # p => idlerPc[q] = "off"
  <2>1. idlerPc[p] # "off"
    BY DEF IdlerWork, BuildRunning, ListDeployments, NotIdle, Decide, DecideToPatch,
           DecideToScale, PatchIngress, LabelIdled, IdlerError, AllScaled, IdleDeployment,
           SkipDeployment
  <2>. QED  BY <2>1, IdlerAlone DEF unidlerVars
<1>2. Restored' /\ StripsOwn'
  BY <1>1 DEF Restored, StripsOwn
<1>3. ASSUME UNCHANGED nsVars
      PROVE  OnlyUnidleLabels'
  BY <1>3 DEF OnlyUnidleLabels, nsVars
<1>4. CASE BuildRunning(p) \/ NotIdle(p) \/ AllScaled(p)
  <2>1. Return(p) /\ UNCHANGED clusterVars
    BY <1>4 DEF BuildRunning, NotIdle, AllScaled
  <2>2. /\ \A q \in Idlers : idlerPc'[q] = "off"
        /\ UNCHANGED <<dep, page>>
        /\ Unforced'
    BY <1>1, <2>1 DEF Return, clusterVars, Unforced
  <2>3. Remembered' /\ PagesPatched'
    BY <2>2 DEF Remembered, PagesPatched
  <2>. QED  BY <1>2, <1>3, <2>1, <2>2, <2>3, DormancyStutter DEF clusterVars, nsVars, Paged
<1>5. CASE ListDeployments(p)
  <2>1. /\ idlerPc[p] = "list" /\ idlerPc'[p] = "inspect"
        /\ \A q \in Idlers : q # p => idlerPc'[q] = "off"
        /\ UNCHANGED <<idlerNs, force, dep, depCache, running, page, nsVars>>
        /\ \A d \in DeploymentsOf(idlerNs[p]) : snapshot'[p][d] = depCache[d].replicas
    BY <1>1, <1>5 DEF ListDeployments, clusterVars, nsVars, DeploymentsOf
  <2>2. Remembered'
    BY <2>1 DEF Remembered, DeploymentsOf
  <2>3. Unforced' /\ PagesPatched'
    BY <2>1 DEF Unforced, PagesPatched
  <2>. QED  BY <1>2, <1>3, <2>1, <2>2, <2>3, DormancyStutter DEF Paged
<1>6. CASE DecideToPatch(p)
  <2>1. /\ idlerPc[p] = "inspect" /\ idlerPc'[p] = "patch" /\ HasPods(p)
        /\ \A q \in Idlers : q # p => idlerPc'[q] = "off"
        /\ UNCHANGED <<idlerNs, force, snapshot, dep, page, nsVars>>
        /\ toPatch'[p] = IngressesToPatch(idlerNs[p])
    BY <1>1, <1>6 DEF DecideToPatch, Decide, clusterVars, nsVars, Unforced
  <2>2. idlerNs[p] \in Namespaces
    OBVIOUS
  <2>3. Truthful(idlerNs[p])
    BY <1>1, <2>1, <2>2 DEF TruthfulOrBusy, Scaling, Waking
  <2>4. PICK d \in DeploymentsOf(idlerNs[p]) : running[d] \/ snapshot[p][d] > 0
    BY <2>1 DEF HasPods
  <2>5. dep[d].replicas # 0
    <3>1. d \in Deployments
      BY <2>4 DEF DeploymentsOf
    <3>2. dep[d].replicas > 0
      BY <2>1, <2>4, <3>1 DEF Remembered
    <3>. QED  BY <3>2
  <2>6. \A e \in DeploymentsOf(idlerNs[p]) :
            snapshot[p][e] = dep[e].replicas /\ dep[e].replicas # 0
    BY <2>1, <2>3, <2>4, <2>5 DEF Truthful, Remembered
  <2>7. Remembered'
    BY <2>1, <2>6 DEF Remembered, DeploymentsOf
  <2>8. SelectedOf(idlerNs[p]) \ toPatch'[p] = {}
    BY <2>1 DEF IngressesToPatch, Targets, Undisturbed
  <2>9. Unforced' /\ PagesPatched'
    BY <2>1, <2>8 DEF Unforced, PagesPatched, SelectedOf, IngressesOf
  <2>. QED  BY <1>2, <1>3, <2>1, <2>7, <2>9, DormancyStutter DEF Paged
<1>7. ~DecideToScale(p)
  BY DEF DecideToScale, IngressesToPatch, Targets, Undisturbed
<1>8. ASSUME NEW i \in Ingresses, PatchIngress(p, i)
      PROVE  SleepParts' /\ [Environment!Next]_(Environment!dormancyVars)
  <2>1. /\ idlerPc[p] = "patch"
        /\ UNCHANGED <<idlerPc, idlerNs, force, snapshot, dep, nsVars>>
        /\ toPatch'[p] = toPatch[p] \ {i}
    BY <1>8 DEF PatchIngress, depVars
  <2>2. \A j \in Ingresses : Paged(j)' <=> j = i \/ Paged(j)
    <3>1. page' = [page EXCEPT ![i] = [r \in Routers |-> AddStatusCode(patchFrom[p][i][r])]]
      BY <1>8 DEF PatchIngress, SetPage
    <3>2. \A r \in Routers : Ours \in AddStatusCode(patchFrom[p][i][r])
      BY DEF AddStatusCode
    <3>. QED  BY <3>1, <3>2 DEF Paged, ClusterTypeOK
  <2>3. PagesPatched'
    BY <1>1, <2>1, <2>2 DEF PagesPatched, SelectedOf, IngressesOf
  <2>4. Remembered' /\ Unforced'
    <3>1. \A d \in DeploymentsOf(idlerNs[p]) :
              snapshot'[p][d] = dep'[d].replicas /\ dep'[d].replicas # 0
      BY <2>1 DEF Remembered
    <3>2. Remembered'
      <4>1. \A q \in Idlers : idlerPc'[q] # "off" => q = p
        BY <1>1, <2>1
      <4>2. idlerPc'[p] = "patch" /\ idlerNs'[p] = idlerNs[p]
        BY <2>1
      <4>. QED  BY ONLY <3>1, <4>1, <4>2 DEF Remembered, DeploymentsOf
    <3>. QED  BY <2>1, <3>2 DEF Unforced
  <2>5. Environment!Cover(NamespaceOf[i]) \/ UNCHANGED Environment!dormancyVars
    BY <2>1, <2>2, CoverStep
  <2>6. NamespaceOf[i] \in Namespaces
    BY TopologyAssumption
  <2>. QED  BY <1>2, <1>3, <2>1, <2>3, <2>4, <2>5, <2>6 DEF Environment!Next
<1>9. CASE LabelIdled(p)
  <2>1. /\ idlerPc[p] = "patch" /\ toPatch[p] = {} /\ idlerPc'[p] = "scale"
        /\ \A q \in Idlers : q # p => idlerPc'[q] = "off"
        /\ UNCHANGED <<idlerNs, force, snapshot, dep, page>>
        /\ toScale'[p] = DeploymentsOf(idlerNs[p])
        /\ SetNs(idlerNs[p], [idled |-> TRUE, commands |-> ns[idlerNs[p]].commands])
    BY <1>1, <1>9 DEF LabelIdled, depVars, pageVars
  <2>2. OnlyUnidleLabels'
    BY <2>1, SetNsOnlyUnidle DEF OnlyUnidleLabels
  <2>3. Remembered' /\ Unforced'
    <3>1. \A d \in toScale'[p] : snapshot'[p][d] = dep'[d].replicas /\ dep'[d].replicas # 0
      BY <2>1 DEF Remembered
    <3>2. Remembered'
      BY <2>1, <3>1 DEF Remembered
    <3>. QED  BY <2>1, <3>2 DEF Unforced
  <2>4. PagesPatched'
    <3>1. \A j \in SelectedOf(idlerNs[p]) : Paged(j)
      BY <2>1 DEF PagesPatched
    <3>2. \A d \in toScale'[p] : SelectedOf(NamespaceOf[d])' = SelectedOf(idlerNs[p])
      BY <2>1 DEF DeploymentsOf, SelectedOf, IngressesOf
    <3>3. \A d \in toScale'[p] : \A j \in SelectedOf(NamespaceOf[d])' : Paged(j)'
      BY <2>1, <3>1, <3>2 DEF Paged
    <3>. QED  BY <2>1, <3>3 DEF PagesPatched
  <2>. QED  BY <1>2, <2>1, <2>2, <2>3, <2>4, DormancyStutter DEF Paged
<1>10. ASSUME NEW d \in Deployments, IdleDeployment(p, d)
       PROVE  SleepParts' /\ [Environment!Next]_(Environment!dormancyVars)
  <2>1. /\ idlerPc[p] = "scale"
        /\ UNCHANGED <<idlerPc, idlerNs, force, snapshot, page, nsVars>>
        /\ toScale'[p] = toScale[p] \ {d}
        /\ \A e \in Deployments : e # d => dep'[e] = dep[e]
    BY <1>10 DEF IdleDeployment, SetDep, pageVars, ClusterTypeOK
  <2>2. Remembered' /\ Unforced'
    <3>1. \A e \in toScale'[p] : snapshot'[p][e] = dep'[e].replicas /\ dep'[e].replicas # 0
      BY <2>1 DEF Remembered
    <3>2. Remembered'
      BY <1>1, <2>1, <3>1 DEF Remembered
    <3>. QED  BY <2>1, <3>2 DEF Unforced
  <2>3. PagesPatched'
    <3>1. \A e \in toScale'[p] : \A i \in SelectedOf(NamespaceOf[e]) : Paged(i)
      BY <2>1 DEF PagesPatched
    <3>2. \A q \in Idlers : idlerPc'[q] # "off" => q = p
      BY <1>1, <2>1
    <3>3. idlerPc'[p] = "scale" /\ UNCHANGED page
      BY <2>1
    <3>. QED  BY ONLY <3>1, <3>2, <3>3 DEF PagesPatched, SelectedOf, IngressesOf, Paged
  <2>. QED  BY <1>2, <1>3, <1>10, <2>1, <2>2, <2>3, SleepStep DEF Environment!Next
<1>11. ~IdlerError(p) /\ \A d \in Deployments : ~SkipDeployment(p, d)
  BY DEF IdlerError, SkipDeployment, Undisturbed
<1>. QED
  BY <1>4, <1>5, <1>6, <1>7, <1>8, <1>9, <1>10, <1>11 DEF IdlerWork

\* A step of an Unidle: no run of the idler is in progress.
LEMMA UnidlerWorkDormancy ==
  ASSUME SleepInv, Undisturbed, NEW p \in Unidlers, UnidlerWork(p), UNCHANGED idlerVars
  PROVE  SleepParts' /\ [Environment!Next]_(Environment!dormancyVars)
<1>. USE DEF SleepInv, SleepParts, LabelInv, LabelParts, TypeOK, UnidlerTypeOK, Goto
<1>1. /\ unidlerPc[p] # "off"
      /\ \A q \in Unidlers : q # p => unidlerPc[q] = "off" /\ unidlerPc'[q] = "off"
      /\ \A q \in Idlers : idlerPc[q] = "off" /\ idlerPc'[q] = "off"
  <2>1. /\ unidlerPc[p] # "off"
        /\ \A q \in Unidlers : q # p => unidlerPc'[q] = unidlerPc[q]
    BY DEF UnidlerWork, LoadLock, StoreLock, ListWatched, ListWatchedError, WakeDeployment,
           WakeError, PodReady, GiveUpWaiting, ListPages, ListPagesError, StripPage, StripError,
           AllStripped, LabelUnidled, LabelError, Unlock, Finish, Polling
  <2>. QED  BY <2>1, UnidlerAlone
<1>2. Unforced' /\ Remembered' /\ PagesPatched'
  BY <1>1 DEF Unforced, Remembered, PagesPatched, idlerVars, runVars
<1>3. ASSUME UNCHANGED nsVars
      PROVE  OnlyUnidleLabels'
  BY <1>3 DEF OnlyUnidleLabels, nsVars
<1>4. ASSUME UNCHANGED <<dep, page>>
      PROVE  UNCHANGED Environment!dormancyVars
  BY <1>4, DormancyStutter DEF Paged
\* A step that leaves the cluster alone and does not list the deployments.
<1>5. ASSUME UNCHANGED clusterVars, unidlerPc'[p] = "wake" => UNCHANGED <<unidlerPc, wake>>,
             StripsOwn'
      PROVE  SleepParts' /\ [Environment!Next]_(Environment!dormancyVars)
  <2>1. Restored'
    BY <1>1, <1>5 DEF Restored, RestoredCount, clusterVars
  <2>. QED  BY <1>2, <1>3, <1>4, <1>5, <2>1 DEF clusterVars, nsVars
<1>6. CASE LoadLock(p) \/ StoreLock(p) \/ ListPages(p) \/ AllStripped(p) \/ Unlock(p)
  <2>1. UNCHANGED clusterVars /\ unidlerPc'[p] # "wake"
    BY <1>6 DEF LoadLock, StoreLock, ListPages, AllStripped, Unlock, Finish
  <2>2. unidlerPc'[p] = "strip" =>
            unidlerNs'[p] = unidlerNs[p] /\ stripping'[p] \subseteq IngressesOf(unidlerNs[p])
    BY <1>6 DEF LoadLock, StoreLock, ListPages, AllStripped, Unlock, Finish, ToStrip
  <2>3. StripsOwn'
    BY <1>1, <2>2 DEF StripsOwn, IngressesOf
  <2>. QED  BY <1>5, <2>1, <2>3
<1>7. ASSUME NEW d \in Deployments, PodReady(p, d) \/ GiveUpWaiting(p, d)
      PROVE  SleepParts' /\ [Environment!Next]_(Environment!dormancyVars)
  <2>1. UNCHANGED <<unidlerPc, wake, unidlerNs, stripping>> /\ UNCHANGED clusterVars
    BY <1>7 DEF PodReady, GiveUpWaiting, stripVars
  <2>2. StripsOwn'
    BY <2>1 DEF StripsOwn, IngressesOf
  <2>. QED  BY <1>5, <2>1, <2>2
<1>8. CASE ListWatched(p)
  <2>1. UNCHANGED clusterVars /\ depCache = dep
    BY <1>8 DEF ListWatched, Woke
  <2>2. ASSUME NEW d \in Deployments, wake'[p][d] > 0
        PROVE  dep'[d].replicas = 0 /\ wake'[p][d] = RestoredCount(d)'
    <3>1. wake'[p][d] = IF d \in ToWake(unidlerNs[p]) THEN NewReplicas(d) ELSE 0
      BY <1>8 DEF ListWatched
    <3>2. d \in ToWake(unidlerNs[p]) /\ wake'[p][d] = NewReplicas(d)
      BY <2>2, <3>1
    <3>3. dep[d].replicas = 0
      BY <2>1, <3>2 DEF ToWake
    <3>4. NewReplicas(d) = RestoredCount(d)
      BY <2>1, <3>3 DEF NewReplicas, RestoredCount
    <3>. QED  BY <2>1, <3>2, <3>3, <3>4 DEF RestoredCount, clusterVars
  <2>3. Restored' /\ StripsOwn'
    BY <1>1, <1>8, <2>2 DEF Restored, StripsOwn, ListWatched
  <2>. QED  BY <1>2, <1>3, <1>4, <2>1, <2>3 DEF clusterVars, nsVars
<1>9. ASSUME NEW d \in Deployments, WakeDeployment(p, d)
      PROVE  SleepParts' /\ [Environment!Next]_(Environment!dormancyVars)
  <2>1. /\ unidlerPc[p] = "wake"
        /\ UNCHANGED <<unidlerPc, nsVars>>
        /\ dep' = [dep EXCEPT ![d] = AwakeDeployment(p, d)] /\ UNCHANGED page
        /\ wake'[p][d] = 0
        /\ \A e \in Deployments : e # d => wake'[p][e] = wake[p][e]
    BY <1>9 DEF WakeDeployment, SetDep, Woken, pageVars
  <2>2. ASSUME NEW e \in Deployments, wake'[p][e] > 0
        PROVE  dep'[e].replicas = 0 /\ wake'[p][e] = RestoredCount(e)'
    <3>1. e # d /\ wake[p][e] > 0 /\ wake'[p][e] = wake[p][e]
      BY <2>1, <2>2
    <3>2. dep'[e] = dep[e] /\ RestoredCount(e)' = RestoredCount(e)
      BY <2>1, <3>1, DeploymentStep
    <3>. QED  BY <2>1, <3>1, <3>2 DEF Restored
  <2>3. Restored' /\ StripsOwn'
    BY <1>1, <2>1, <2>2 DEF Restored, StripsOwn
  <2>. QED  BY <1>2, <1>3, <1>9, <2>1, <2>3, WakeStep DEF Environment!Next
<1>10. ASSUME NEW i \in Ingresses, StripPage(p, i)
       PROVE  SleepParts' /\ [Environment!Next]_(Environment!dormancyVars)
  <2>1. /\ unidlerPc[p] = "strip" /\ i \in stripping[p]
        /\ UNCHANGED <<unidlerPc, dep, nsVars>>
        /\ page' = [page EXCEPT ![i] =
               [r \in Routers |-> Stripped(stripFrom[p][i][r], page[i][r])]]
    BY <1>10 DEF StripPage, SetPage, depVars
  <2>2. \A r \in Routers :
           Ours \in Stripped(stripFrom[p][i][r], page[i][r]) => Ours \in page[i][r]
    BY DEF Stripped, RemoveStatusCode
  <2>3. /\ \A j \in Ingresses : j # i => (Paged(j)' <=> Paged(j))
        /\ Paged(i)' => Paged(i)
    BY <2>1, <2>2 DEF Paged, ClusterTypeOK
  <2>4. Restored' /\ StripsOwn'
    <3>1. unidlerNs' = unidlerNs /\ stripping'[p] \subseteq stripping[p]
      BY <1>10 DEF StripPage, Forget
    <3>. QED  BY <1>1, <2>1, <3>1 DEF Restored, StripsOwn, IngressesOf
  <2>5. NamespaceOf[i] \in Namespaces
    BY TopologyAssumption
  <2>6. \A d \in DeploymentsOf(NamespaceOf[i]) : dep[d].replicas # 0
    <3>1. NamespaceOf[i] = unidlerNs[p]
      BY <2>1 DEF StripsOwn, IngressesOf
    <3>. QED  BY <2>1, <3>1 DEF Woke
  <2>7. Environment!Uncover(NamespaceOf[i]) \/ UNCHANGED Environment!dormancyVars
    BY <2>1, <2>3, <2>6, UncoverStep
  <2>. QED  BY <1>2, <1>3, <2>1, <2>4, <2>5, <2>7 DEF Environment!Next
<1>11. CASE LabelUnidled(p)
  <2>1. /\ unidlerPc'[p] = "unlock" /\ UNCHANGED <<dep, page>> /\ unidlerNs[p] \in Namespaces
        /\ SetNs(unidlerNs[p], [idled |-> FALSE, commands |-> ns[unidlerNs[p]].commands])
    BY <1>11 DEF LabelUnidled, depVars, pageVars
  <2>2. OnlyUnidleLabels'
    BY <2>1, SetNsOnlyUnidle DEF OnlyUnidleLabels
  <2>3. Restored' /\ StripsOwn'
    BY <1>1, <2>1 DEF Restored, StripsOwn
  <2>. QED  BY <1>2, <1>4, <2>1, <2>2, <2>3
<1>12. /\ ~ListWatchedError(p) /\ ~ListPagesError(p) /\ ~LabelError(p)
       /\ \A d \in Deployments : ~WakeError(p, d)
       /\ \A i \in Ingresses : ~StripError(p, i)
  BY DEF ListWatchedError, ListPagesError, LabelError, WakeError, StripError, Undisturbed
<1>. QED
  BY <1>6, <1>7, <1>8, <1>9, <1>10, <1>11, <1>12 DEF UnidlerWork

\* An operation starts while nothing is in progress.
LEMMA StartDormancy ==
  ASSUME SleepInv, Postable \subseteq {"unidle"}, Quiet, Start
  PROVE  SleepParts' /\ [Environment!Next]_(Environment!dormancyVars)
<1>. USE DEF SleepInv, SleepParts, LabelInv, LabelParts, TypeOK
<1>1. /\ \A p \in Idlers : idlerPc[p] = "off"
      /\ \A p \in Unidlers : unidlerPc[p] = "off"
      /\ depCache = dep /\ \A d \in Deployments : running[d] <=> dep[d].replicas > 0
  BY DEF Quiet
<1>2. ASSUME \A p \in Idlers : idlerPc'[p] \in {"off", "list"},
             \A p \in Unidlers : unidlerPc'[p] \in {"off", "load", "list"},
             \/ UNCHANGED <<dep, depCache, running>>
             \/ \A p \in Idlers : idlerPc'[p] = "off"
      PROVE  Remembered' /\ Restored' /\ StripsOwn' /\ PagesPatched'
  BY <1>1, <1>2 DEF Remembered, Restored, StripsOwn, PagesPatched
<1>3. ASSUME UNCHANGED nsVars
      PROVE  OnlyUnidleLabels'
  BY <1>3 DEF OnlyUnidleLabels, nsVars
<1>4. ASSUME UNCHANGED <<dep, page>>
      PROVE  UNCHANGED Environment!dormancyVars
  BY <1>4, DormancyStutter DEF Paged
<1>5. ASSUME UNCHANGED processVars
      PROVE  Unforced' /\ Remembered' /\ Restored' /\ StripsOwn' /\ PagesPatched'
  <2>1. UNCHANGED <<force, idlerPc, unidlerPc>>
    BY <1>5 DEF processVars, idlerVars, runVars, unidlerVars
  <2>. QED  BY <1>1, <1>2, <2>1 DEF Unforced
<1>6. ASSUME NEW n \in Namespaces, NEW c \in Commands, PostCommand(n, c)
      PROVE  SleepParts' /\ [Environment!Next]_(Environment!dormancyVars)
  <2>1. /\ UNCHANGED <<dep, page>> /\ UNCHANGED processVars
        /\ SetNs(n, [idled |-> ns[n].idled, commands |-> ns[n].commands \cup {c}])
        /\ c = "unidle"
    BY <1>6 DEF PostCommand, depVars, pageVars
  <2>2. OnlyUnidleLabels'
    BY <2>1, SetNsOnlyUnidle DEF OnlyUnidleLabels
  <2>. QED  BY <1>4, <1>5, <2>1, <2>2
<1>7. ASSUME NEW d \in Deployments, NEW count \in 1 .. MaxReplicas, Rescale(d, count)
      PROVE  SleepParts' /\ [Environment!Next]_(Environment!dormancyVars)
  BY <1>3, <1>5, <1>7, ResizeStep DEF Rescale, Environment!Next
<1>8. ASSUME NEW i \in Annotated, NEW r \in Routers, NEW items \in SUBSET UserItems,
             Annotate(i, r, items)
      PROVE  SleepParts' /\ [Environment!Next]_(Environment!dormancyVars)
  <2>1. i \in Ingresses /\ Ours \notin items
    BY UserAssumption, ItemAssumption
  <2>2. /\ UNCHANGED <<dep, nsVars>> /\ UNCHANGED processVars
        /\ page' = [page EXCEPT ![i] = [page[i] EXCEPT ![r] = items \cup (@ \cap {Ours})]]
    BY <1>8 DEF Annotate, SetPage, depVars
  <2>3. \A j \in Ingresses : Paged(j)' <=> Paged(j)
    BY <2>1, <2>2 DEF Paged, ClusterTypeOK, Page
  <2>. QED  BY <1>3, <1>5, <2>2, <2>3, DormancyStutter
<1>9. ASSUME NEW r \in Requests, NEW n \in Namespaces, Request(r, n)
      PROVE  SleepParts' /\ [Environment!Next]_(Environment!dormancyVars)
  <2>1. UNCHANGED clusterVars /\ UNCHANGED <<idlerPc, force>>
    BY <1>9 DEF Request, ReceiveRequest, idlerVars, runVars
  <2>2. \A p \in Unidlers : unidlerPc'[p] \in {"off", "load", "list"}
    BY <1>1, <1>9 DEF Request, ReceiveRequest, Goto, UnidlerTypeOK
  <2>. QED  BY <1>1, <1>2, <1>3, <1>4, <2>1, <2>2 DEF clusterVars, nsVars, Unforced
<1>10. ASSUME NEW c \in Crons, CronStart(c)
       PROVE  SleepParts' /\ [Environment!Next]_(Environment!dormancyVars)
  <2>1. UNCHANGED clusterVars /\ UNCHANGED unidlerPc
    BY <1>10 DEF CronStart, CronTick, CronNext, unidlerVars
  <2>2. /\ \A p \in Idlers : idlerPc'[p] \in {"off", "list"}
        /\ Unforced'
    <3>1. CASE CronTick(c)
      BY <1>1, <3>1 DEF CronTick, runVars, Unforced
    <3>2. CASE \E n \in Namespaces : CronNext(c, n)
      BY <1>1, <3>2 DEF CronNext, StartIdler, IdlerTypeOK, Unforced
    <3>. QED  BY <1>10, <3>1, <3>2 DEF CronStart
  <2>. QED  BY <1>1, <1>2, <1>3, <1>4, <2>1, <2>2 DEF clusterVars, nsVars
<1>11. ASSUME NEW n \in Namespaces, Reconcile(n)
       PROVE  SleepParts' /\ [Environment!Next]_(Environment!dormancyVars)
  <2>1. ~ReconcileForce(n)
    BY DEF ReconcileForce, FirstCommand, OnlyUnidleLabels
  <2>2. /\ UNCHANGED <<dep, depCache, running, page, ns, nsCache>>
        /\ UNCHANGED idlerVars
    BY <1>11, <2>1
    DEF Reconcile, StartReconcile, ReconcileNothing, ReconcileUnidle, Take, depVars, pageVars
  <2>3. \A p \in Unidlers : unidlerPc'[p] \in {"off", "load", "list"}
    <3>1. CASE ReconcileNothing(n)
      BY <1>1, <3>1 DEF ReconcileNothing, unidlerVars
    <3>2. CASE ReconcileUnidle(n)
      BY <1>1, <3>2 DEF ReconcileUnidle, Goto, UnidlerTypeOK
    <3>. QED  BY <1>11, <2>1, <3>1, <3>2 DEF Reconcile, StartReconcile
  <2>4. OnlyUnidleLabels' /\ Unforced' /\ \A p \in Idlers : idlerPc'[p] = "off"
    BY <1>1, <2>2 DEF OnlyUnidleLabels, Unforced, idlerVars, runVars
  <2>. QED  BY <1>2, <1>4, <2>2, <2>3, <2>4
<1>. QED
  BY <1>6, <1>7, <1>8, <1>9, <1>10, <1>11 DEF Start

LEMMA WorkDormancy ==
  ASSUME SleepInv, Undisturbed, Work
  PROVE  SleepParts' /\ [Environment!Next]_(Environment!dormancyVars)
<1>. USE DEF SleepInv, SleepParts, LabelInv, LabelParts, TypeOK
<1>1. ASSUME NEW r \in Requests, RequestWork(r)
      PROVE  SleepParts' /\ [Environment!Next]_(Environment!dormancyVars)
  BY <1>1, UnidlerWorkDormancy DEF RequestWork, Unidlers
<1>2. ASSUME NEW c \in Crons, CronWork(c)
      PROVE  SleepParts' /\ [Environment!Next]_(Environment!dormancyVars)
  BY <1>2, IdlerWorkDormancy DEF CronWork, Idlers
\* What no operation takes part in.
<1>3. ASSUME UNCHANGED <<idlerVars, unidlerVars, dep, page>>, OnlyUnidleLabels', Remembered'
      PROVE  SleepParts' /\ [Environment!Next]_(Environment!dormancyVars)
  <2>1. Unforced' /\ Restored' /\ StripsOwn'
    BY <1>3 DEF Unforced, Restored, RestoredCount, StripsOwn, IngressesOf, idlerVars, runVars,
                unidlerVars, stripVars
  <2>2. PagesPatched'
    BY <1>3 DEF PagesPatched, SelectedOf, IngressesOf, Paged, idlerVars, runVars
  <2>. QED  BY <1>3, <2>1, <2>2, DormancyStutter DEF Paged
<1>4. CASE Controller
  <2>1. Reconciler \in Idlers /\ Reconciler \in Unidlers
    BY DEF Idlers, Unidlers
  <2>2. CASE ClearCommand
    <3>1. /\ UNCHANGED <<idlerVars, unidlerVars, dep, depCache, running, page>>
          /\ SetNs(handlingNs, [idled    |-> ns[handlingNs].idled,
                                commands |-> ns[handlingNs].commands \ {handling}])
          /\ handlingNs \in Namespaces
      BY <2>2 DEF ClearCommand, depVars, pageVars, ControllerTypeOK
    <3>2. OnlyUnidleLabels'
      BY <3>1, SetNsOnlyUnidle DEF OnlyUnidleLabels
    <3>3. Remembered'
      BY <3>1 DEF Remembered, DeploymentsOf, idlerVars, runVars
    <3>. QED  BY <1>3, <3>1, <3>2, <3>3
  <2>3. ~ClearError
    BY DEF ClearError, Undisturbed
  <2>. QED
    BY <1>4, <2>1, <2>2, <2>3, IdlerWorkDormancy, UnidlerWorkDormancy
    DEF Controller, ControllerWork
<1>5. CASE Informers
  <2>1. /\ UNCHANGED <<idlerVars, unidlerVars, dep, running, page, ns>>
        /\ depCache' = depCache \/ depCache' = dep
        /\ nsCache' = nsCache \/ nsCache' = ns
    BY <1>5 DEF Informers, SyncDeployments, SyncIngresses, SyncNamespaces, processVars,
                depVars, pageVars, nsVars
  <2>2. OnlyUnidleLabels'
    BY <2>1 DEF OnlyUnidleLabels
  <2>3. Remembered'
    BY <2>1 DEF Remembered, DeploymentsOf, idlerVars, runVars
  <2>. QED  BY <1>3, <2>1, <2>2, <2>3
<1>6. CASE Kubelet
  <2>1. UNCHANGED <<idlerVars, unidlerVars, dep, depCache, page, ns, nsCache>>
    BY <1>6 DEF Kubelet, PodUp, PodDown, processVars, depVars, pageVars, nsVars
  <2>2. OnlyUnidleLabels'
    BY <2>1 DEF OnlyUnidleLabels
  <2>3. ASSUME NEW p \in Idlers, idlerPc[p] \in {"list", "inspect"}
        PROVE  FALSE
    BY <1>6, <2>3 DEF Kubelet, PodUp, PodDown, Remembered, ClusterTypeOK, Deployment
  <2>4. Remembered'
    BY <2>1, <2>3 DEF Remembered, DeploymentsOf, idlerVars, runVars
  <2>. QED  BY <1>3, <2>1, <2>2, <2>4
<1>. QED  BY <1>1, <1>2, <1>4, <1>5, <1>6 DEF Work

LEMMA SleepInit == Init => SleepParts /\ Environment!Init
<1>. SUFFICES ASSUME Init PROVE SleepParts /\ Environment!Init
  OBVIOUS
<1>. PICK asleep \in SUBSET Namespaces,
          count \in [Deployments -> 1 .. MaxReplicas],
          target \in [Deployments -> 0 .. MaxReplicas],
          items \in [Ingresses -> [Routers -> SUBSET UserItems]] :
       InitialCluster(asleep, count, target, items)
  BY Zenon DEF Init, ClusterInit
<1>1. SleepParts
  BY DEF Init, ClusterInit, InitialCluster, IdlerInit, UnidlerInit, SleepParts,
         OnlyUnidleLabels, Unforced, Remembered, Restored, StripsOwn, PagesPatched
<1>2. ASSUME NEW d \in Deployments
      PROVE  RestoredCount(d) \in 1 .. MaxReplicas
  <2>1. dep[d].replicas \in 0 .. MaxReplicas /\ dep[d].target \in 0 .. MaxReplicas
    BY InitType DEF TypeOK, ClusterTypeOK, Deployment
  <2>. QED  BY <2>1, TopologyAssumption DEF RestoredCount
<1>3. ASSUME NEW d \in Deployments, dep[d].replicas = 0
      PROVE  \A i \in SelectedOf(NamespaceOf[d]) : Paged(i)
  <2>. USE DEF InitialCluster
  <2>1. NamespaceOf[d] \notin asleep => dep[d] = FreshDeployment(count[d])
    OBVIOUS
  <2>2. FreshDeployment(count[d]).replicas = count[d] /\ count[d] # 0
    BY DEF FreshDeployment
  <2>3. NamespaceOf[d] \in asleep
    BY <1>3, <2>1, <2>2
  <2>. QED  BY <2>3 DEF SelectedOf, IngressesOf, Paged
<1>4. \A d \in Deployments : NamespaceOf[d] \in Namespaces
  BY TopologyAssumption
<1>. QED  BY <1>1, <1>2, <1>3, <1>4 DEF Environment!Init

\* ImplementsDormancy, for every cluster: when operations are taken one at a time,
\* calls succeed, nobody dies and no command forces idling, idling and unidling are
\* steps of Dormancy or none: deployments sleep only under pages that stay up until
\* all of them are awake, and wake with the size they had.
THEOREM DormancyIsImplemented ==
  ASSUME Undisturbed, Postable \subseteq {"unidle"}
  PROVE  SerialSpec => ImplementsDormancy
<1>1. Init => LabelParts /\ SleepParts /\ Environment!Init
  BY LabelInit, SleepInit
<1>2. ASSUME TypeOK, Recoverable, LabelParts, SleepParts, [SerialNext]_vars
      PROVE  LabelParts' /\ SleepParts' /\ [Environment!Next]_(Environment!dormancyVars)
  <2>1. LabelParts'
    BY <1>2, LabelStep DEF LabelInv
  <2>2. CASE UNCHANGED vars
    <3>1. UNCHANGED <<idlerPc, idlerNs, force, snapshot, toPatch, toScale, unidlerPc, unidlerNs,
                      wake, stripping, dep, depCache, running, page, ns, nsCache>>
      BY <2>2 DEF vars, processVars, idlerVars, runVars, unidlerVars, stripVars, clusterVars
    <3>2. SleepParts'
      BY <1>2, <3>1
      DEF SleepParts, OnlyUnidleLabels, Unforced, Remembered, Restored, RestoredCount, StripsOwn,
          PagesPatched, Paged, DeploymentsOf, SelectedOf, IngressesOf
    <3>. QED  BY <2>1, <3>1, <3>2, DormancyStutter DEF Paged
  <2>3. ~Restart
    BY <1>2 DEF Restart, Undisturbed, TypeOK
  <2>. QED
    BY <1>2, <2>1, <2>2, <2>3, StartDormancy, WorkDormancy DEF SerialNext, SleepInv, LabelInv
<1>. QED
  BY <1>1, <1>2, SerialIsAergia, TypeCorrect, ZeroIsRecoverable, PTL
  DEF SerialSpec, ImplementsDormancy, Environment!Spec
=============================================================================
