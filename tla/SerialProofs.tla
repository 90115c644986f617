---------------------------- MODULE SerialProofs ----------------------------
(***************************************************************************)
(* Operations taken one at a time: the label of a namespace tells whether   *)
(* it is idled, for every cluster, and however the informers lag.           *)
(***************************************************************************)
EXTENDS AergiaProofs

\* Calls succeed, nobody dies, and the idler patches the ingresses, of which every
\* namespace has one, as it has a deployment.
Undisturbed ==
    /\ ~Faulty /\ MaxCrashes = 0 /\ ~DryRun /\ "ingress" \notin Skip
    /\ \A n \in Namespaces : SelectedOf(n) # {} /\ DeploymentsOf(n) # {}

\* One operation is in progress at most.
OneAtATime ==
    /\ \A p, q \in Idlers : idlerPc[p] # "off" /\ idlerPc[q] # "off" => p = q
    /\ \A p, q \in Unidlers : unidlerPc[p] # "off" /\ unidlerPc[q] # "off" => p = q
    /\ \A p \in Idlers, q \in Unidlers : idlerPc[p] = "off" \/ unidlerPc[q] = "off"

\* The label of n is true of each of its deployments.
Truthful(n) ==
    \A d \in DeploymentsOf(n) : dep[d].replicas = 0 <=> ns[n].idled

Scaling(p, n) == idlerPc[p] = "scale" /\ idlerNs[p] = n
Waking(p, n) == unidlerPc[p] \in {"wake", "strip", "label"} /\ unidlerNs[p] = n

\* The label of a namespace is true unless its deployments are being scaled.
TruthfulOrBusy ==
    \A n \in Namespaces :
        \/ Truthful(n)
        \/ \E p \in Idlers : Scaling(p, n)
        \/ \E p \in Unidlers : Waking(p, n)

\* A run that scales has labelled the namespace, and what it is past is at zero.
Scaled ==
    \A p \in Idlers : idlerPc[p] = "scale" =>
        /\ ns[idlerNs[p]].idled
        /\ toScale[p] \subseteq DeploymentsOf(idlerNs[p])
        /\ \A d \in DeploymentsOf(idlerNs[p]) \ toScale[p] : dep[d].replicas = 0

\* An Unidle lists the deployments as they are, and what it is past runs.
Woke ==
    \A p \in Unidlers :
        /\ unidlerPc[p] \in {"load", "store", "list"} => depCache = dep
        /\ unidlerPc[p] = "wake" =>
               \A d \in Deployments :
                   /\ wake[p][d] > 0 => NamespaceOf[d] = unidlerNs[p]
                   /\ NamespaceOf[d] = unidlerNs[p] => dep[d].replicas # 0 \/ wake[p][d] > 0
        /\ unidlerPc[p] \in {"strip", "label"} =>
               \A d \in DeploymentsOf(unidlerNs[p]) : dep[d].replicas # 0

\* An Unidle strips the ingresses of its own namespace.
StripsOwn ==
    \A p \in Unidlers : unidlerPc[p] = "strip" => stripping[p] \subseteq IngressesOf(unidlerNs[p])

LabelParts == OneAtATime /\ TruthfulOrBusy /\ Scaled /\ Woke
LabelInv == TypeOK /\ Recoverable /\ LabelParts

\* Operations taken one at a time are behaviours of the system.
THEOREM SerialIsAergia == SerialSpec => Spec
<1>1. [SerialNext]_vars => [Next]_vars
  BY DEF SerialNext, Next
<1>. QED  BY <1>1, PTL DEF SerialSpec, Spec

LEMMA LabelInit == Init => LabelParts
<1>. SUFFICES ASSUME Init PROVE LabelParts
  OBVIOUS
<1>. PICK asleep \in SUBSET Namespaces,
          count \in [Deployments -> 1 .. MaxReplicas],
          target \in [Deployments -> 0 .. MaxReplicas],
          items \in [Ingresses -> [Routers -> SUBSET UserItems]] :
       InitialCluster(asleep, count, target, items)
  BY Zenon DEF Init, ClusterInit
<1>1. OneAtATime /\ Scaled /\ Woke
  BY DEF Init, IdlerInit, UnidlerInit, OneAtATime, Scaled, Woke
<1>2. ASSUME NEW n \in Namespaces, NEW d \in DeploymentsOf(n)
      PROVE  dep[d].replicas = 0 <=> ns[n].idled
  <2>. USE DEF InitialCluster
  <2>1. d \in Deployments /\ NamespaceOf[d] = n
    BY DEF DeploymentsOf
  <2>2. ns[n].idled <=> n \in asleep
    OBVIOUS
  <2>3. CASE n \in asleep
    <3>1. dep[d] = AsleepDeployment(target[d])
      BY <2>1, <2>3
    <3>. QED  BY <2>2, <2>3, <3>1 DEF AsleepDeployment
  <2>4. CASE n \notin asleep
    <3>1. dep[d] = FreshDeployment(count[d]) /\ count[d] # 0
      BY <2>1, <2>4, TopologyAssumption
    <3>. QED  BY <2>2, <2>4, <3>1 DEF FreshDeployment
  <2>. QED  BY <2>3, <2>4
<1>. QED  BY <1>1, <1>2 DEF LabelParts, TruthfulOrBusy, Truthful

-----------------------------------------------------------------------------
(* A run of the idler                                                       *)

\* Nobody else is at work.
LEMMA IdlerAlone ==
  ASSUME OneAtATime, NEW p \in Idlers, idlerPc[p] # "off"
  PROVE  /\ \A q \in Idlers : q # p => idlerPc[q] = "off"
         /\ \A q \in Unidlers : unidlerPc[q] = "off"
  BY DEF OneAtATime

\* What a run does before it scales, or when it ends without scaling.
LEMMA IdlerKeepsTruth ==
  ASSUME LabelInv, NEW p \in Idlers, idlerPc[p] \in {"list", "inspect", "patch"},
         idlerPc'[p] # "scale", \A q \in Idlers : q # p => idlerPc'[q] = idlerPc[q],
         UNCHANGED <<dep, ns, unidlerVars>>
  PROVE  LabelParts'
<1>. USE DEF LabelInv, LabelParts
<1>1. /\ \A q \in Idlers : q # p => idlerPc[q] = "off" /\ idlerPc'[q] = "off"
      /\ \A q \in Unidlers : unidlerPc[q] = "off" /\ unidlerPc'[q] = "off"
  BY IdlerAlone DEF unidlerVars
<1>2. \A q \in Idlers : idlerPc[q] # "scale" /\ idlerPc'[q] # "scale"
  BY <1>1
<1>3. OneAtATime' /\ Scaled' /\ Woke'
  BY <1>1, <1>2 DEF OneAtATime, Scaled, Woke
<1>4. TruthfulOrBusy'
  BY <1>1, <1>2 DEF TruthfulOrBusy, Truthful, Scaling, Waking, DeploymentsOf
<1>. QED  BY <1>3, <1>4

LEMMA IdlerWorkTruth ==
  ASSUME LabelInv, Undisturbed, NEW p \in Idlers, IdlerWork(p), UNCHANGED unidlerVars
  PROVE  LabelParts'
<1>. USE DEF LabelInv, LabelParts, TypeOK, IdlerTypeOK
<1>1. CASE BuildRunning(p) \/ NotIdle(p)
  <2>1. idlerPc[p] \in {"list", "inspect"} /\ Return(p) /\ UNCHANGED clusterVars
    BY <1>1 DEF BuildRunning, NotIdle
  <2>. QED  BY <2>1, IdlerKeepsTruth DEF Return, clusterVars
<1>2. CASE ListDeployments(p)
  BY <1>2, IdlerKeepsTruth DEF ListDeployments, clusterVars
<1>3. CASE DecideToPatch(p)
  BY <1>3, IdlerKeepsTruth DEF DecideToPatch, Decide, clusterVars
<1>4. ~DecideToScale(p)
  BY DEF DecideToScale, IngressesToPatch, Targets, Undisturbed
<1>5. ASSUME NEW i \in Ingresses, PatchIngress(p, i)
      PROVE  LabelParts'
  BY <1>5, IdlerKeepsTruth DEF PatchIngress, depVars, nsVars
<1>6. CASE LabelIdled(p)
  <2>1. /\ \A q \in Idlers : q # p => idlerPc[q] = "off" /\ idlerPc'[q] = "off"
        /\ \A q \in Unidlers : unidlerPc[q] = "off" /\ unidlerPc'[q] = "off"
    BY <1>6, IdlerAlone DEF LabelIdled, unidlerVars
  <2>2. /\ idlerPc[p] = "patch" /\ idlerPc'[p] = "scale"
        /\ idlerNs'[p] = idlerNs[p] /\ idlerNs[p] \in Namespaces
        /\ toScale'[p] = DeploymentsOf(idlerNs[p])
        /\ dep' = dep
        /\ \A n \in Namespaces : ns'[n].idled = IF n = idlerNs[p] THEN TRUE ELSE ns[n].idled
    BY <1>6 DEF LabelIdled, SetNs, depVars, ClusterTypeOK
  <2>3. OneAtATime' /\ Woke'
    BY <2>1, <2>2 DEF OneAtATime, Woke
  <2>4. Scaled'
    <3>1. ns'[idlerNs'[p]].idled
      BY <2>2
    <3>2. /\ toScale'[p] \subseteq DeploymentsOf(idlerNs'[p])
          /\ DeploymentsOf(idlerNs'[p]) \ toScale'[p] = {}
      BY <2>2
    <3>3. \A q \in Idlers : idlerPc'[q] = "scale" => q = p
      BY <2>1
    <3>. QED  BY ONLY <3>1, <3>2, <3>3 DEF Scaled
  <2>5. ASSUME NEW n \in Namespaces
        PROVE  Truthful(n)' \/ Scaling(p, n)'
    <3>1. CASE n = idlerNs[p]
      BY <2>2, <3>1 DEF Scaling
    <3>2. CASE n # idlerNs[p]
      <4>1. Truthful(n)
        BY <2>1, <2>2 DEF TruthfulOrBusy, Scaling, Waking
      <4>. QED  BY <2>2, <3>2, <4>1 DEF Truthful, DeploymentsOf
    <3>. QED  BY <3>1, <3>2
  <2>. QED  BY <2>3, <2>4, <2>5 DEF TruthfulOrBusy
<1>7. ASSUME NEW d \in Deployments, IdleDeployment(p, d)
      PROVE  LabelParts'
  <2>1. /\ \A q \in Idlers : q # p => idlerPc[q] = "off" /\ idlerPc'[q] = "off"
        /\ \A q \in Unidlers : unidlerPc[q] = "off" /\ unidlerPc'[q] = "off"
    BY <1>7, IdlerAlone DEF IdleDeployment, unidlerVars
  <2>2. /\ idlerPc[p] = "scale" /\ d \in toScale[p]
        /\ UNCHANGED <<idlerPc, idlerNs, ns>>
        /\ toScale'[p] = toScale[p] \ {d}
        /\ dep' = [dep EXCEPT ![d] = IdledBy(p, d)]
        /\ IdledBy(p, d).replicas = 0
    BY <1>7 DEF IdleDeployment, IdledBy, SetDep, nsVars
  <2>3. /\ idlerNs[p] \in Namespaces /\ NamespaceOf[d] = idlerNs[p]
        /\ ns[idlerNs[p]].idled
    BY <2>2 DEF Scaled, DeploymentsOf
  <2>4. OneAtATime' /\ Woke'
    BY <2>1, <2>2 DEF OneAtATime, Woke
  <2>5. Scaled'
    <3>1. \A e \in DeploymentsOf(idlerNs[p]) \ (toScale[p] \ {d}) : dep'[e].replicas = 0
      <4>1. dep'[d].replicas = 0 /\ \A e \in Deployments : e # d => dep'[e] = dep[e]
        BY <2>2 DEF ClusterTypeOK
      <4>2. \A e \in DeploymentsOf(idlerNs[p]) \ toScale[p] :
                e \in Deployments /\ dep[e].replicas = 0
        BY <2>2 DEF Scaled, DeploymentsOf
      <4>. QED  BY ONLY <4>1, <4>2
    <3>2. toScale'[p] \subseteq DeploymentsOf(idlerNs[p])
      BY <2>2 DEF Scaled
    <3>3. /\ ns'[idlerNs'[p]].idled
          /\ toScale'[p] \subseteq DeploymentsOf(idlerNs'[p])
          /\ \A e \in DeploymentsOf(idlerNs'[p]) \ toScale'[p] : dep'[e].replicas = 0
      BY <2>2, <2>3, <3>1, <3>2
    <3>4. \A q \in Idlers : idlerPc'[q] = "scale" => q = p
      BY <2>1
    <3>. QED  BY ONLY <3>3, <3>4 DEF Scaled, DeploymentsOf
  <2>6. ASSUME NEW n \in Namespaces
        PROVE  Truthful(n)' \/ Scaling(p, n)'
    <3>1. CASE n = idlerNs[p]
      BY <2>2, <3>1 DEF Scaling
    <3>2. CASE n # idlerNs[p]
      <4>1. Truthful(n)
        BY <2>1, <2>2, <3>2 DEF TruthfulOrBusy, Scaling, Waking
      <4>. QED  BY <2>2, <2>3, <3>2, <4>1 DEF Truthful, DeploymentsOf, ClusterTypeOK
    <3>. QED  BY <3>1, <3>2
  <2>. QED  BY <2>4, <2>5, <2>6 DEF TruthfulOrBusy
<1>8. CASE AllScaled(p)
  <2>1. /\ \A q \in Idlers : q # p => idlerPc[q] = "off" /\ idlerPc'[q] = "off"
        /\ \A q \in Unidlers : unidlerPc[q] = "off" /\ unidlerPc'[q] = "off"
    BY <1>8, IdlerAlone DEF AllScaled, Return, unidlerVars
  <2>2. /\ idlerPc[p] = "scale" /\ toScale[p] = {} /\ idlerPc'[p] = "off"
        /\ UNCHANGED <<dep, ns>>
    BY <1>8 DEF AllScaled, Return, clusterVars
  <2>3. OneAtATime' /\ Woke' /\ Scaled'
    BY <2>1, <2>2 DEF OneAtATime, Woke, Scaled
  <2>4. ASSUME NEW n \in Namespaces
        PROVE  Truthful(n)
    <3>1. CASE n = idlerNs[p]
      BY <2>2, <3>1 DEF Scaled, Truthful
    <3>2. CASE n # idlerNs[p]
      BY <2>1, <3>2 DEF TruthfulOrBusy, Scaling, Waking
    <3>. QED  BY <3>1, <3>2
  <2>5. TruthfulOrBusy'
    BY <2>2, <2>4 DEF TruthfulOrBusy, Truthful, DeploymentsOf
  <2>. QED  BY <2>3, <2>5
<1>9. ~IdlerError(p) /\ \A d \in Deployments : ~SkipDeployment(p, d)
  BY DEF IdlerError, SkipDeployment, Undisturbed
<1>. QED
  BY <1>1, <1>2, <1>3, <1>4, <1>5, <1>6, <1>7, <1>8, <1>9 DEF IdlerWork

-----------------------------------------------------------------------------
(* An Unidle                                                                *)

\* What leaves the actors where they are and the labels as true as they were.
LEMMA NothingMoves ==
  ASSUME LabelInv,
         UNCHANGED <<idlerPc, idlerNs, toScale, unidlerPc, unidlerNs, wake>>,
         \A d \in Deployments : dep'[d].replicas = 0 <=> dep[d].replicas = 0,
         \A n \in Namespaces : ns'[n].idled <=> ns[n].idled,
         (\A p \in Unidlers : unidlerPc[p] = "off") \/ (depCache = dep => depCache' = dep')
  PROVE  LabelParts'
<1>. USE DEF LabelInv, LabelParts, TypeOK, IdlerTypeOK, UnidlerTypeOK
<1>1. OneAtATime'
  BY DEF OneAtATime
<1>2. TruthfulOrBusy'
  <2>1. ASSUME NEW n \in Namespaces, Truthful(n)
        PROVE  Truthful(n)'
    BY <2>1 DEF Truthful, DeploymentsOf
  <2>2. ASSUME NEW n \in Namespaces, NEW p \in Idlers, Scaling(p, n)
        PROVE  Scaling(p, n)'
    BY <2>2 DEF Scaling
  <2>3. ASSUME NEW n \in Namespaces, NEW p \in Unidlers, Waking(p, n)
        PROVE  Waking(p, n)'
    BY <2>3 DEF Waking
  <2>. QED  BY <2>1, <2>2, <2>3 DEF TruthfulOrBusy
<1>3. Scaled'
  BY DEF Scaled, DeploymentsOf
<1>4. Woke'
  BY DEF Woke, DeploymentsOf
<1>. QED  BY <1>1, <1>2, <1>3, <1>4

\* Nobody else is at work, and nobody else starts.
LEMMA UnidlerAlone ==
  ASSUME LabelInv, NEW p \in Unidlers, unidlerPc[p] # "off", UNCHANGED idlerVars,
         \A q \in Unidlers : q # p => unidlerPc'[q] = unidlerPc[q]
  PROVE  /\ \A q \in Idlers : idlerPc[q] = "off" /\ idlerPc'[q] = "off"
         /\ \A q \in Unidlers : q # p => unidlerPc[q] = "off" /\ unidlerPc'[q] = "off"
         /\ OneAtATime' /\ Scaled'
<1>1. /\ \A q \in Idlers : idlerPc[q] = "off" /\ idlerPc'[q] = "off"
      /\ \A q \in Unidlers : q # p => unidlerPc[q] = "off" /\ unidlerPc'[q] = "off"
  BY DEF LabelInv, LabelParts, OneAtATime, idlerVars, runVars
<1>. QED  BY <1>1 DEF OneAtATime, Scaled

\* A step of an Unidle that wakes nothing and does not touch the label.
LEMMA UnidlerKeepsTruth ==
  ASSUME LabelInv, NEW p \in Unidlers, unidlerPc[p] \notin {"off", "wake", "strip", "label"},
         \A q \in Unidlers : q # p => unidlerPc'[q] = unidlerPc[q],
         Woke', UNCHANGED <<dep, ns, idlerVars>>
  PROVE  LabelParts'
<1>1. /\ \A q \in Idlers : idlerPc[q] = "off"
      /\ \A q \in Unidlers : q # p => unidlerPc[q] = "off"
      /\ OneAtATime' /\ Scaled'
  BY UnidlerAlone
<1>2. ASSUME NEW n \in Namespaces
      PROVE  Truthful(n)
  BY <1>1 DEF LabelInv, LabelParts, TruthfulOrBusy, Scaling, Waking
<1>3. TruthfulOrBusy'
  BY <1>2 DEF TruthfulOrBusy, Truthful, DeploymentsOf
<1>. QED  BY <1>1, <1>3 DEF LabelParts

LEMMA UnidlerWorkTruth ==
  ASSUME LabelInv, Undisturbed, NEW p \in Unidlers, UnidlerWork(p), UNCHANGED idlerVars
  PROVE  LabelParts'
<1>. USE DEF LabelInv, LabelParts, TypeOK, UnidlerTypeOK, Goto
<1>1. CASE LoadLock(p) \/ StoreLock(p)
  <2>1. /\ unidlerPc[p] \in {"load", "store"} /\ unidlerPc'[p] \in {"off", "store", "list"}
        /\ \A q \in Unidlers : q # p => unidlerPc'[q] = unidlerPc[q]
        /\ UNCHANGED <<dep, ns, depCache>>
    BY <1>1 DEF LoadLock, StoreLock, Finish, clusterVars
  <2>2. Woke'
    BY <2>1, UnidlerAlone DEF Woke
  <2>. QED  BY <2>1, <2>2, UnidlerKeepsTruth
<1>2. CASE Unlock(p)
  <2>1. /\ unidlerPc[p] = "unlock" /\ unidlerPc'[p] = "off"
        /\ \A q \in Unidlers : q # p => unidlerPc'[q] = unidlerPc[q]
        /\ UNCHANGED <<dep, ns, depCache>>
    BY <1>2 DEF Unlock, Finish, clusterVars
  <2>2. Woke'
    BY <2>1, UnidlerAlone DEF Woke
  <2>. QED  BY <2>1, <2>2, UnidlerKeepsTruth
<1>3. CASE ListWatched(p)
  <2>1. /\ unidlerPc[p] = "list" /\ unidlerPc'[p] = "wake"
        /\ \A q \in Unidlers : q # p => unidlerPc'[q] = unidlerPc[q]
        /\ UNCHANGED <<dep, ns, depCache, unidlerNs>>
        /\ depCache = dep
    BY <1>3 DEF ListWatched, clusterVars, Woke
  <2>2. ASSUME NEW d \in Deployments
        PROVE  wake'[p][d] = IF d \in ToWake(unidlerNs[p]) THEN NewReplicas(d) ELSE 0
    BY <1>3 DEF ListWatched
  <2>3. ASSUME NEW d \in Deployments
        PROVE  NewReplicas(d) > 0
    BY DEF NewReplicas, ClusterTypeOK, Deployment
  <2>3a. \A d \in Deployments : d \in ToWake(unidlerNs[p]) <=>
             /\ NamespaceOf[d] = unidlerNs[p]
             /\ dep[d].watch /\ dep[d].idled /\ dep[d].replicas = 0
    BY ONLY <2>1 DEF ToWake, Watched, DeploymentsOf
  <2>3b. \A d \in Deployments : wake'[p][d] > 0 <=> d \in ToWake(unidlerNs[p])
    BY ONLY <2>2, <2>3
  <2>4. ASSUME NEW d \in Deployments
        PROVE  /\ wake'[p][d] > 0 => NamespaceOf[d] = unidlerNs[p]
               /\ NamespaceOf[d] = unidlerNs[p] => dep[d].replicas # 0 \/ wake'[p][d] > 0
    BY <2>3a, <2>3b DEF Recoverable
  <2>5. Woke'
    BY <2>1, <2>4, UnidlerAlone DEF Woke
  <2>. QED  BY <2>1, <2>5, UnidlerKeepsTruth
<1>4. ASSUME NEW d \in Deployments, WakeDeployment(p, d)
      PROVE  LabelParts'
  <2>1. /\ unidlerPc[p] = "wake" /\ wake[p][d] > 0
        /\ UNCHANGED <<unidlerPc, unidlerNs, ns>>
        /\ dep' = [dep EXCEPT ![d] = AwakeDeployment(p, d)]
        /\ AwakeDeployment(p, d).replicas = wake[p][d]
        /\ wake' = [wake EXCEPT ![p] = [wake[p] EXCEPT ![d] = 0]]
    BY <1>4 DEF WakeDeployment, SetDep, Woken, AwakeDeployment, nsVars
  <2>2. /\ NamespaceOf[d] = unidlerNs[p] /\ unidlerNs[p] \in Namespaces
        /\ dep'[d].replicas # 0
        /\ \A e \in Deployments : e # d => dep'[e] = dep[e] /\ wake'[p][e] = wake[p][e]
        /\ wake'[p][d] = 0
    BY <2>1 DEF Woke, ClusterTypeOK
  <2>3. /\ \A q \in Idlers : idlerPc[q] = "off"
        /\ \A q \in Unidlers : q # p => unidlerPc[q] = "off" /\ unidlerPc'[q] = "off"
        /\ OneAtATime' /\ Scaled'
    BY <2>1, UnidlerAlone
  <2>4. Woke'
    BY <2>1, <2>2, <2>3 DEF Woke
  <2>5. ASSUME NEW n \in Namespaces
        PROVE  Truthful(n)' \/ Waking(p, n)'
    <3>1. CASE n = unidlerNs[p]
      BY <2>1, <3>1 DEF Waking
    <3>2. CASE n # unidlerNs[p]
      <4>1. Truthful(n)
        BY <2>1, <2>3, <3>2 DEF TruthfulOrBusy, Scaling, Waking
      <4>. QED  BY <2>1, <2>2, <3>2, <4>1 DEF Truthful, DeploymentsOf
    <3>. QED  BY <3>1, <3>2
  <2>. QED  BY <2>3, <2>4, <2>5 DEF TruthfulOrBusy
<1>5. ASSUME NEW d \in Deployments, PodReady(p, d) \/ GiveUpWaiting(p, d)
      PROVE  LabelParts'
  <2>1. UNCHANGED <<unidlerPc, unidlerNs, wake, dep, ns, depCache>>
    BY <1>5 DEF PodReady, GiveUpWaiting, clusterVars
  <2>. QED  BY <2>1, NothingMoves DEF idlerVars, runVars
<1>6. ASSUME NEW i \in Ingresses, StripPage(p, i)
      PROVE  LabelParts'
  <2>1. UNCHANGED <<unidlerPc, unidlerNs, wake, dep, ns, depCache>>
    BY <1>6 DEF StripPage, depVars, nsVars
  <2>. QED  BY <2>1, NothingMoves DEF idlerVars, runVars
<1>7. CASE ListPages(p) \/ AllStripped(p)
  <2>1. /\ unidlerPc[p] \in {"wake", "strip"} /\ unidlerPc'[p] \in {"strip", "label"}
        /\ unidlerPc[p] = "wake" => wake[p] = NoReplicas
        /\ \A q \in Unidlers : q # p => unidlerPc'[q] = unidlerPc[q]
        /\ UNCHANGED <<dep, ns, unidlerNs>>
    BY <1>7 DEF ListPages, AllStripped, Polling, clusterVars
  <2>2. /\ \A q \in Idlers : idlerPc[q] = "off"
        /\ \A q \in Unidlers : q # p => unidlerPc[q] = "off" /\ unidlerPc'[q] = "off"
        /\ OneAtATime' /\ Scaled'
    BY <2>1, UnidlerAlone
  <2>3. \A d \in DeploymentsOf(unidlerNs[p]) : dep[d].replicas # 0
    <3>1. CASE unidlerPc[p] = "wake"
      BY <2>1, <3>1 DEF Woke, DeploymentsOf, NoReplicas
    <3>2. CASE unidlerPc[p] = "strip"
      BY <3>2 DEF Woke
    <3>. QED  BY <2>1, <3>1, <3>2
  <2>4. Woke'
    BY <2>1, <2>2, <2>3 DEF Woke, DeploymentsOf
  <2>5. ASSUME NEW n \in Namespaces
        PROVE  Truthful(n)' \/ Waking(p, n)'
    <3>1. Truthful(n) \/ Waking(p, n)
      BY <2>2 DEF TruthfulOrBusy, Scaling, Waking
    <3>. QED  BY <2>1, <3>1 DEF Truthful, Waking, DeploymentsOf
  <2>. QED  BY <2>2, <2>4, <2>5 DEF TruthfulOrBusy
<1>8. CASE LabelUnidled(p)
  <2>1. /\ unidlerPc[p] = "label" /\ unidlerPc'[p] = "unlock"
        /\ unidlerNs[p] \in Namespaces
        /\ \A q \in Unidlers : q # p => unidlerPc'[q] = unidlerPc[q]
        /\ UNCHANGED <<dep, unidlerNs>>
        /\ ~ns'[unidlerNs[p]].idled
        /\ \A n \in Namespaces : n # unidlerNs[p] => ns'[n] = ns[n]
    BY <1>8 DEF LabelUnidled, SetNs, depVars, ClusterTypeOK
  <2>2. /\ \A q \in Idlers : idlerPc[q] = "off"
        /\ \A q \in Unidlers : q # p => unidlerPc[q] = "off" /\ unidlerPc'[q] = "off"
        /\ OneAtATime' /\ Scaled'
    BY <2>1, UnidlerAlone
  <2>3. Woke'
    BY <2>1, <2>2 DEF Woke
  <2>4. ASSUME NEW n \in Namespaces
        PROVE  Truthful(n)'
    <3>1. CASE n = unidlerNs[p]
      <4>1. \A d \in DeploymentsOf(n) : dep[d].replicas # 0
        BY <2>1, <3>1 DEF Woke
      <4>. QED  BY <2>1, <3>1, <4>1 DEF Truthful, DeploymentsOf
    <3>2. CASE n # unidlerNs[p]
      <4>1. Truthful(n)
        BY <2>1, <2>2, <3>2 DEF TruthfulOrBusy, Scaling, Waking
      <4>. QED  BY <2>1, <3>2, <4>1 DEF Truthful, DeploymentsOf
    <3>. QED  BY <3>1, <3>2
  <2>. QED  BY <2>2, <2>3, <2>4 DEF TruthfulOrBusy
<1>9. /\ ~ListWatchedError(p) /\ ~ListPagesError(p) /\ ~LabelError(p)
      /\ \A d \in Deployments : ~WakeError(p, d)
      /\ \A i \in Ingresses : ~StripError(p, i)
  BY DEF ListWatchedError, ListPagesError, LabelError, WakeError, StripError, Undisturbed
<1>. QED
  BY <1>1, <1>2, <1>3, <1>4, <1>5, <1>6, <1>7, <1>8, <1>9 DEF UnidlerWork

-----------------------------------------------------------------------------
(* The system                                                               *)

\* An operation starts while nothing is in progress.
LEMMA StartTruth ==
  ASSUME LabelInv, Quiet, Start
  PROVE  LabelParts'
<1>. USE DEF LabelInv, LabelParts, TypeOK
<1>1. /\ \A p \in Idlers : idlerPc[p] = "off"
      /\ \A p \in Unidlers : unidlerPc[p] = "off"
      /\ depCache = dep
  BY DEF Quiet
<1>2. ASSUME NEW n \in Namespaces
      PROVE  Truthful(n)
  BY <1>1 DEF TruthfulOrBusy, Scaling, Waking
\* One actor leaves "off", for the beginning of its operation.
<1>3. ASSUME UNCHANGED <<dep, ns, depCache, unidlerPc>>, NEW p \in Idlers,
             \A q \in Idlers : q # p => idlerPc'[q] = "off",
             idlerPc'[p] \in {"off", "list"}
      PROVE  LabelParts'
  <2>1. OneAtATime' /\ Scaled' /\ Woke'
    BY <1>1, <1>3 DEF OneAtATime, Scaled, Woke
  <2>2. TruthfulOrBusy'
    BY <1>2, <1>3 DEF TruthfulOrBusy, Truthful, DeploymentsOf
  <2>. QED  BY <2>1, <2>2
<1>4. ASSUME UNCHANGED <<dep, ns, depCache, idlerPc>>, NEW p \in Unidlers,
             \A q \in Unidlers : q # p => unidlerPc'[q] = "off",
             unidlerPc'[p] \in {"off", "load", "list"}
      PROVE  LabelParts'
  <2>1. OneAtATime' /\ Scaled' /\ Woke'
    BY <1>1, <1>4 DEF OneAtATime, Scaled, Woke
  <2>2. TruthfulOrBusy'
    BY <1>2, <1>4 DEF TruthfulOrBusy, Truthful, DeploymentsOf
  <2>. QED  BY <2>1, <2>2
<1>5. ASSUME NEW n \in Namespaces, NEW c \in Commands, PostCommand(n, c)
      PROVE  LabelParts'
  <2>1. UNCHANGED <<idlerPc, idlerNs, toScale, unidlerPc, unidlerNs, wake, dep, depCache>>
    BY <1>5 DEF PostCommand, processVars, idlerVars, runVars, unidlerVars, depVars
  <2>2. \A m \in Namespaces : ns'[m].idled <=> ns[m].idled
    BY <1>5 DEF PostCommand, SetNs, ClusterTypeOK
  <2>. QED  BY <2>1, <2>2, NothingMoves
<1>6. ASSUME NEW d \in Deployments, NEW count \in 1 .. MaxReplicas, Rescale(d, count)
      PROVE  LabelParts'
  <2>1. UNCHANGED <<idlerPc, idlerNs, toScale, unidlerPc, unidlerNs, wake, ns>>
    BY <1>6 DEF Rescale, processVars, idlerVars, runVars, unidlerVars, nsVars
  <2>2. \A e \in Deployments : dep'[e].replicas = 0 <=> dep[e].replicas = 0
    BY <1>6, TopologyAssumption DEF Rescale, SetDep, ClusterTypeOK, Deployment
  <2>. QED  BY <1>1, <2>1, <2>2, NothingMoves
<1>7. ASSUME NEW i \in Annotated, NEW r \in Routers, NEW items \in SUBSET UserItems,
             Annotate(i, r, items)
      PROVE  LabelParts'
  <2>1. UNCHANGED <<idlerPc, idlerNs, toScale, unidlerPc, unidlerNs, wake, dep, depCache, ns>>
    BY <1>7 DEF Annotate, processVars, idlerVars, runVars, unidlerVars, depVars, nsVars
  <2>. QED  BY <2>1, NothingMoves
<1>8. ASSUME NEW r \in Requests, NEW n \in Namespaces, Request(r, n)
      PROVE  LabelParts'
  <2>1. r \in Unidlers
    BY DEF Unidlers
  <2>2. /\ UNCHANGED <<dep, ns, depCache, idlerPc>>
        /\ \A q \in Unidlers : q # r => unidlerPc'[q] = "off"
        /\ unidlerPc'[r] = "load"
    BY <1>1, <1>8, <2>1
    DEF Request, ReceiveRequest, Goto, UnidlerTypeOK, clusterVars, idlerVars, runVars
  <2>. QED  BY <1>4, <2>1, <2>2
<1>9. ASSUME NEW c \in Crons, CronStart(c)
      PROVE  LabelParts'
  <2>1. c \in Idlers
    BY DEF Idlers
  <2>2. /\ UNCHANGED <<dep, ns, depCache, unidlerPc>>
        /\ \A q \in Idlers : q # c => idlerPc'[q] = "off"
        /\ idlerPc'[c] \in {"off", "list"}
    <3>1. CASE CronTick(c) /\ UNCHANGED unidlerVars
      BY <1>1, <2>1, <3>1 DEF CronTick, runVars, clusterVars, unidlerVars
    <3>2. ASSUME NEW n \in Namespaces, CronNext(c, n), UNCHANGED unidlerVars
          PROVE  /\ UNCHANGED <<dep, ns, depCache, unidlerPc>>
                 /\ \A q \in Idlers : q # c => idlerPc'[q] = "off"
                 /\ idlerPc'[c] \in {"off", "list"}
      BY <1>1, <2>1, <3>2 DEF CronNext, StartIdler, IdlerTypeOK, clusterVars, unidlerVars
    <3>. QED  BY <1>9, <3>1, <3>2 DEF CronStart
  <2>. QED  BY <1>3, <2>1, <2>2
<1>10. ASSUME NEW n \in Namespaces, Reconcile(n)
       PROVE  LabelParts'
  <2>1. Reconciler \in Idlers /\ Reconciler \in Unidlers
    BY DEF Idlers, Unidlers
  <2>2. UNCHANGED <<dep, ns, depCache>>
    BY <1>10
    DEF Reconcile, StartReconcile, ReconcileNothing, ReconcileForce, ReconcileUnidle, Take, depVars
  <2>3. CASE ReconcileNothing(n)
    <3>1. UNCHANGED <<idlerPc, idlerNs, toScale, unidlerPc, unidlerNs, wake>>
      BY <2>3 DEF ReconcileNothing, idlerVars, runVars, unidlerVars
    <3>. QED  BY <2>2, <3>1, NothingMoves
  <2>4. CASE ReconcileForce(n)
    <3>1. /\ unidlerPc' = unidlerPc
          /\ \A q \in Idlers : q # Reconciler => idlerPc'[q] = "off"
          /\ idlerPc'[Reconciler] = "list"
      BY <1>1, <2>1, <2>4 DEF ReconcileForce, StartIdler, IdlerTypeOK, unidlerVars
    <3>. QED  BY <1>3, <2>1, <2>2, <3>1
  <2>5. CASE ReconcileUnidle(n)
    <3>1. /\ idlerPc' = idlerPc
          /\ \A q \in Unidlers : q # Reconciler => unidlerPc'[q] = "off"
          /\ unidlerPc'[Reconciler] = "list"
      BY <1>1, <2>1, <2>5 DEF ReconcileUnidle, Goto, UnidlerTypeOK, idlerVars, runVars
    <3>. QED  BY <1>4, <2>1, <2>2, <3>1
  <2>. QED  BY <1>10, <2>3, <2>4, <2>5 DEF Reconcile, StartReconcile
<1>. QED
  BY <1>5, <1>6, <1>7, <1>8, <1>9, <1>10 DEF Start

LEMMA WorkTruth ==
  ASSUME LabelInv, Undisturbed, Work
  PROVE  LabelParts'
<1>1. ASSUME NEW r \in Requests, RequestWork(r)
      PROVE  LabelParts'
  BY <1>1, UnidlerWorkTruth DEF RequestWork, Unidlers
<1>2. ASSUME NEW c \in Crons, CronWork(c)
      PROVE  LabelParts'
  BY <1>2, IdlerWorkTruth DEF CronWork, Idlers
<1>3. CASE Controller
  <2>1. Reconciler \in Idlers /\ Reconciler \in Unidlers
    BY DEF Idlers, Unidlers
  <2>2. CASE ClearCommand
    <3>1. UNCHANGED <<idlerPc, idlerNs, toScale, unidlerPc, unidlerNs, wake, dep, depCache>>
      BY <2>2 DEF ClearCommand, idlerVars, runVars, unidlerVars, depVars
    <3>2. \A m \in Namespaces : ns'[m].idled <=> ns[m].idled
      BY <2>2 DEF ClearCommand, SetNs, LabelInv, TypeOK, ClusterTypeOK, ControllerTypeOK
    <3>. QED  BY <3>1, <3>2, NothingMoves
  <2>3. ~ClearError
    BY DEF ClearError, Undisturbed
  <2>. QED
    BY <1>3, <2>1, <2>2, <2>3, IdlerWorkTruth, UnidlerWorkTruth DEF Controller, ControllerWork
<1>4. CASE Informers
  <2>1. /\ UNCHANGED <<idlerPc, idlerNs, toScale, unidlerPc, unidlerNs, wake, dep, ns>>
        /\ depCache' = depCache \/ depCache' = dep
    BY <1>4 DEF Informers, SyncDeployments, SyncIngresses, SyncNamespaces,
                processVars, idlerVars, runVars, unidlerVars, depVars, nsVars
  <2>. QED  BY <2>1, NothingMoves
<1>5. CASE Kubelet
  <2>1. UNCHANGED <<idlerPc, idlerNs, toScale, unidlerPc, unidlerNs, wake, dep, depCache, ns>>
    BY <1>5 DEF Kubelet, PodUp, PodDown,
                processVars, idlerVars, runVars, unidlerVars, depVars, nsVars
  <2>. QED  BY <2>1, NothingMoves
<1>. QED  BY <1>1, <1>2, <1>3, <1>4, <1>5 DEF Work

\* The invariant holds on, whatever happens next.
LEMMA LabelStep ==
  ASSUME LabelInv, Undisturbed, [SerialNext]_vars
  PROVE  LabelParts'
<1>1. CASE UNCHANGED vars
  <2>1. UNCHANGED <<idlerPc, idlerNs, toScale, unidlerPc, unidlerNs, wake, dep, depCache, ns>>
    BY <1>1 DEF vars, processVars, idlerVars, runVars, unidlerVars, clusterVars
  <2>. QED  BY <2>1, NothingMoves
<1>2. ~Restart
  BY DEF Restart, Undisturbed, LabelInv, TypeOK
<1>. QED  BY <1>1, <1>2, StartTruth, WorkTruth DEF SerialNext

\* LabelTruth, for every cluster: when operations are taken one at a time, calls
\* succeed and nobody dies, a namespace in which nothing is in progress is
\* labelled idled exactly if all its deployments are at zero, however the
\* informers lag, and whichever of them decided what was scaled.
THEOREM LabelTells ==
  ASSUME Undisturbed
  PROVE  SerialSpec => []LabelTruth
<1>1. Init => LabelParts
  BY LabelInit
<1>2. ASSUME TypeOK, Recoverable, LabelParts, [SerialNext]_vars
      PROVE  LabelParts'
  BY <1>2, LabelStep DEF LabelInv
<1>3. LabelParts => LabelTruth
  <2>. SUFFICES ASSUME LabelParts, Quiet, NEW n \in Namespaces
       PROVE  ns[n].idled <=> \A d \in DeploymentsOf(n) : dep[d].replicas = 0
    BY DEF LabelTruth
  <2>1. Truthful(n)
    BY DEF LabelParts, TruthfulOrBusy, Scaling, Waking, Quiet
  <2>2. DeploymentsOf(n) # {}
    BY DEF Undisturbed
  <2>. QED  BY <2>1, <2>2 DEF Truthful
<1>. QED
  BY <1>1, <1>2, <1>3, SerialIsAergia, TypeCorrect, ZeroIsRecoverable, PTL DEF SerialSpec
=============================================================================
