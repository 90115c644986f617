------------------------------- MODULE Idler -------------------------------
(***************************************************************************)
(* The service idler: KubernetesServiceIdler with patchIngress and          *)
(* idleDeployments, and ServiceIdler, the cron job that runs it over every  *)
(* namespace with automatic idling.                                         *)
(*                                                                          *)
(* A run belongs to an actor: a firing of the cron (cron jobs run in        *)
(* goroutines of their own, so two firings may overlap) or the reconciler,  *)
(* which runs it for a force command.  A run lists the deployments once and *)
(* acts on that snapshot at the end: after the Prometheus queries, and after*)
(* each ingress has been patched.  Every call to the API server is a step.  *)
(***************************************************************************)
EXTENDS Cluster

CONSTANTS
    Crons,          \* firings of the cron job that may overlap
    AutoIdled,      \* the namespaces whose labels ask for automatic idling
    Skip,           \* the skip flags of the selectors file: "builds", "ingress"
    DryRun

ASSUME IdlerAssumption ==
    /\ Reconciler \notin Crons
    /\ AutoIdled \subseteq Namespaces
    /\ Skip \subseteq {"builds", "ingress"}
    /\ DryRun \in BOOLEAN

Idlers == Crons \cup {Reconciler}

VARIABLES
    idlerPc,    \* where each run is
    idlerNs,    \* the namespace it is about
    force,      \* "no", "force-idled" or "force-scaled"
    snapshot,   \* the replica counts of the deployments it listed
    toPatch,    \* the ingresses it has still to patch
    patchFrom,  \* patchFrom[p][i]: the annotations it read of those
    toScale,    \* the deployments it has still to scale
    cronTodo    \* the namespaces a cron firing has still to look at

runVars == <<idlerPc, idlerNs, force, snapshot, toPatch, patchFrom, toScale>>
idlerVars == <<runVars, cronTodo>>

IdlerTypeOK ==
    /\ idlerPc \in [Idlers -> {"off", "list", "inspect", "patch", "scale"}]
    /\ idlerNs \in [Idlers -> Namespaces]
    /\ force \in [Idlers -> {"no", "force-idled", "force-scaled"}]
    /\ snapshot \in [Idlers -> [Deployments -> 0 .. MaxReplicas]]
    /\ toPatch \in [Idlers -> SUBSET Ingresses]
    /\ patchFrom \in [Idlers -> [Ingresses -> Page]]
    /\ toScale \in [Idlers -> SUBSET Deployments]
    /\ cronTodo \in [Crons -> SUBSET Namespaces]

IdlerInit ==
    /\ idlerPc = [p \in Idlers |-> "off"]
    /\ idlerNs = [p \in Idlers |-> AnyNamespace]
    /\ force = [p \in Idlers |-> "no"]
    /\ snapshot = [p \in Idlers |-> NoReplicas]
    /\ toPatch = [p \in Idlers |-> {}]
    /\ patchFrom = [p \in Idlers |-> NoPages]
    /\ toScale = [p \in Idlers |-> {}]
    /\ cronTodo = [c \in Crons |-> {}]

\* What a dry run would change, it logs.
Targets(S) == IF DryRun THEN {} ELSE S

\* Locals of the run are dropped when it returns.
Return(p) ==
    /\ idlerPc' = [idlerPc EXCEPT ![p] = "off"]
    /\ idlerNs' = [idlerNs EXCEPT ![p] = AnyNamespace]
    /\ force' = [force EXCEPT ![p] = "no"]
    /\ snapshot' = [snapshot EXCEPT ![p] = NoReplicas]
    /\ toPatch' = [toPatch EXCEPT ![p] = {}]
    /\ patchFrom' = [patchFrom EXCEPT ![p] = NoPages]
    /\ toScale' = [toScale EXCEPT ![p] = {}]
    /\ UNCHANGED cronTodo

-----------------------------------------------------------------------------
(* ServiceIdler                                                             *)

\* A call of KubernetesServiceIdler; the caller says what happens to cronTodo.
StartIdler(p, n, f) ==
    /\ idlerPc' = [idlerPc EXCEPT ![p] = "list"]
    /\ idlerNs' = [idlerNs EXCEPT ![p] = n]
    /\ force' = [force EXCEPT ![p] = f]
    /\ UNCHANGED <<snapshot, toPatch, patchFrom, toScale>>

\* The cron fires and lists the namespaces.
CronTick(p) ==
    /\ idlerPc[p] = "off" /\ cronTodo[p] = {} /\ AutoIdled # {}
    /\ cronTodo' = [cronTodo EXCEPT ![p] = AutoIdled]
    /\ UNCHANGED <<runVars, clusterVars>>

CronNext(p, n) ==
    /\ idlerPc[p] = "off" /\ n \in cronTodo[p]
    /\ cronTodo' = [cronTodo EXCEPT ![p] = @ \ {n}]
    /\ StartIdler(p, n, "no")
    /\ UNCHANGED clusterVars

-----------------------------------------------------------------------------
(* KubernetesServiceIdler                                                   *)

\* A running or pending build ends the run, a forced one included.
BuildRunning(p) ==
    /\ idlerPc[p] = "list" /\ "builds" \notin Skip
    /\ Return(p)
    /\ UNCHANGED clusterVars

ListDeployments(p) ==
    /\ idlerPc[p] = "list"
    /\ snapshot' = [snapshot EXCEPT ![p] =
           [d \in Deployments |->
               IF NamespaceOf[d] = idlerNs[p] THEN depCache[d].replicas ELSE 0]]
    /\ idlerPc' = [idlerPc EXCEPT ![p] = "inspect"]
    /\ UNCHANGED <<idlerNs, force, toPatch, patchFrom, toScale, cronTodo, clusterVars>>

\* A pod can be old enough only if there is one: the deployment asks for it,
\* or the kubelet has not stopped it yet.  Its age is not modelled.
HasPods(p) ==
    \E d \in DeploymentsOf(idlerNs[p]) : running[d] \/ snapshot[p][d] > 0

\* Young pods, hits in the interval, or Prometheus out of reach.
NotIdle(p) ==
    /\ idlerPc[p] = "inspect" /\ force[p] = "no"
    /\ Return(p)
    /\ UNCHANGED clusterVars

\* patchIngress lists the ingresses, unless the selectors file skips it.
IngressesToPatch(n) == IF "ingress" \in Skip THEN {} ELSE Targets(SelectedOf(n))

\* The pods are old and Prometheus counted no hits, or the run is forced.
Decide(p) ==
    /\ idlerPc[p] = "inspect"
    /\ force[p] # "no" \/ HasPods(p)
    /\ UNCHANGED <<idlerNs, force, snapshot, cronTodo, clusterVars>>

DecideToPatch(p) ==
    /\ Decide(p)
    /\ IngressesToPatch(idlerNs[p]) # {}
    /\ toPatch' = [toPatch EXCEPT ![p] = IngressesToPatch(idlerNs[p])]
    /\ patchFrom' = [patchFrom EXCEPT ![p] =
           [i \in Ingresses |->
               IF i \in IngressesToPatch(idlerNs[p]) THEN pageCache[i] ELSE NoPage]]
    /\ idlerPc' = [idlerPc EXCEPT ![p] = "patch"]
    /\ UNCHANGED toScale

\* There is no ingress to patch: the namespace is not labelled either.
DecideToScale(p) ==
    /\ Decide(p)
    /\ IngressesToPatch(idlerNs[p]) = {}
    /\ toScale' = [toScale EXCEPT ![p] = Targets(DeploymentsOf(idlerNs[p]))]
    /\ idlerPc' = [idlerPc EXCEPT ![p] = "scale"]
    /\ UNCHANGED <<toPatch, patchFrom>>

-----------------------------------------------------------------------------
(* patchIngress                                                             *)

\* Mistaken: the list is replaced by the code.
AddStatusCodeAlone(items) == {Ours}

AddStatusCode(items) == IF items \subseteq {""} THEN {Ours} ELSE items \cup {Ours}

\* The patch writes both annotations whole, from what was listed.
PatchIngress(p, i) ==
    /\ idlerPc[p] = "patch" /\ i \in toPatch[p]
    /\ SetPage(i, [r \in Routers |-> AddStatusCode(patchFrom[p][i][r])])
    /\ toPatch' = [toPatch EXCEPT ![p] = @ \ {i}]
    /\ patchFrom' = [patchFrom EXCEPT ![p] = [patchFrom[p] EXCEPT ![i] = NoPage]]
    /\ UNCHANGED <<idlerPc, idlerNs, force, snapshot, toScale, cronTodo>>
    /\ UNCHANGED <<running, depVars, nsVars>>

\* Every listed ingress is patched: the namespace is labelled.
LabelIdled(p) ==
    /\ idlerPc[p] = "patch" /\ toPatch[p] = {}
    /\ SetNs(idlerNs[p], [idled |-> TRUE, commands |-> ns[idlerNs[p]].commands])
    /\ toScale' = [toScale EXCEPT ![p] = DeploymentsOf(idlerNs[p])]
    /\ idlerPc' = [idlerPc EXCEPT ![p] = "scale"]
    /\ UNCHANGED <<idlerNs, force, snapshot, toPatch, patchFrom, cronTodo>>
    /\ UNCHANGED <<running, depVars, pageVars>>

\* Mistaken: an error of patchIngress is logged and the run goes on.
IdlerErrorIgnored(p) ==
    /\ Faulty /\ idlerPc[p] = "patch"
    /\ idlerPc' = [idlerPc EXCEPT ![p] = "scale"]
    /\ toScale' = [toScale EXCEPT ![p] = DeploymentsOf(idlerNs[p])]
    /\ UNCHANGED <<idlerNs, force, snapshot, toPatch, patchFrom, cronTodo, clusterVars>>

\* Listing the deployments or the ingresses, or patching an ingress or the
\* namespace, fails: the run ends where it is.
IdlerError(p) ==
    /\ Faulty /\ idlerPc[p] \in {"list", "inspect", "patch"}
    /\ Return(p)
    /\ UNCHANGED clusterVars

-----------------------------------------------------------------------------
(* idleDeployments                                                          *)

\* Mistaken: the default is never overridden.
IdleReplicasOne(r) == 1

IdleReplicas(r) == IF r > 0 THEN r ELSE 1

\* Mistaken: the watch label is left to whoever set it before.
IdledByUnwatched(p, d) ==
    [replicas |-> 0, watch |-> dep[d].watch, idled |-> TRUE,
     forceScaled |-> dep[d].forceScaled \/ force[p] = "force-scaled",
     target |-> IdleReplicas(snapshot[p][d])]

IdledBy(p, d) ==
    [replicas |-> 0, watch |-> TRUE, idled |-> TRUE,
     forceScaled |-> dep[d].forceScaled \/ force[p] = "force-scaled",
     target |-> IdleReplicas(snapshot[p][d])]

IdleDeployment(p, d) ==
    /\ idlerPc[p] = "scale" /\ d \in toScale[p]
    /\ SetDep(d, IdledBy(p, d))
    /\ toScale' = [toScale EXCEPT ![p] = @ \ {d}]
    /\ UNCHANGED <<idlerPc, idlerNs, force, snapshot, toPatch, patchFrom, cronTodo>>
    /\ UNCHANGED <<running, pageVars, nsVars>>

\* A patch that fails is logged and the others are tried.
SkipDeployment(p, d) ==
    /\ Faulty /\ idlerPc[p] = "scale" /\ d \in toScale[p]
    /\ toScale' = [toScale EXCEPT ![p] = @ \ {d}]
    /\ UNCHANGED <<idlerPc, idlerNs, force, snapshot, toPatch, patchFrom, cronTodo>>
    /\ UNCHANGED clusterVars

AllScaled(p) ==
    /\ idlerPc[p] = "scale" /\ toScale[p] = {}
    /\ Return(p)
    /\ UNCHANGED clusterVars

\* What a run does once it has started.
IdlerWork(p) ==
    \/ BuildRunning(p) \/ ListDeployments(p) \/ NotIdle(p)
    \/ DecideToPatch(p) \/ DecideToScale(p)
    \/ \E i \in Ingresses : PatchIngress(p, i)
    \/ LabelIdled(p) \/ IdlerError(p) \/ AllScaled(p)
    \/ \E d \in Deployments : IdleDeployment(p, d) \/ SkipDeployment(p, d)
=============================================================================
