------------------------------ MODULE CLIIdler ------------------------------
(***************************************************************************)
(* The CLI idler: CLIIdler and kubernetesCLI, which scale the deployments   *)
(* of command line pods to zero when nobody works in them.                  *)
(*                                                                          *)
(* It shares no object with the service idler, whose selectors leave these  *)
(* deployments out, and nothing of aergia scales them up again: users do.   *)
(* Users start and end processes in the pods, builds run in the namespaces, *)
(* and the kubelet makes the pods follow the replica counts, of which only  *)
(* zero matters here.  The caches are read as if they were up to date.      *)
(*                                                                          *)
(* Lists come in no order: an informer's list is that of a Go map.          *)
(***************************************************************************)
EXTENDS Naturals, FiniteSets

CONSTANTS
    Namespaces,
    AutoIdled,      \* the namespaces with both autoidle labels at "1"
    Deployments,    \* the deployments that the CLI selector matches
    Pods,           \* the pods that it matches
    Owner,          \* the deployment of every pod
    NamespaceOf,    \* the namespace of every deployment
    WithCrons,      \* the deployments with a CRONJOBS variable that is not empty
    Mute,           \* the pods whose shell prints nothing at all
    ProcessCounts,  \* how many processes users run in a pod
    Firings,        \* the firings of the cron that may be at work at once
    Skip,           \* the checks turned off: "builds", "crons", "processes"
    DryRun,
    Faulty          \* whether calls to the API server may fail

ASSUME CLIAssumption ==
    /\ AutoIdled \subseteq Namespaces
    /\ Owner \in [Pods -> Deployments]
    /\ NamespaceOf \in [Deployments -> Namespaces]
    /\ WithCrons \subseteq Deployments
    /\ Mute \subseteq Pods
    /\ ProcessCounts \subseteq Nat
    /\ DryRun \in BOOLEAN /\ Faulty \in BOOLEAN

VARIABLES
    up,             \* the deployments that are not at zero
    pods,           \* the pods that exist
    processes,      \* processes[p]: the children of process 0 of p, but the first two
    building,       \* the namespaces with a build pod in phase Running
    cliPc,          \* where each firing is
    namespacesTodo, \* what is left of its three loops
    deploymentsTodo,
    podsTodo,
    deployment      \* {} or the one deployment it looks at

userVars == <<up, pods, processes, building>>
loopVars == <<namespacesTodo, deploymentsTodo, podsTodo, deployment>>
cliVars  == <<userVars, cliPc, loopVars>>

CLITypeOK ==
    /\ up \subseteq Deployments
    /\ pods \subseteq Pods
    /\ processes \in [Pods -> ProcessCounts \cup {0}]
    /\ building \subseteq Namespaces
    /\ cliPc \in [Firings -> {"off", "namespaces", "deployments", "pods", "scale"}]
    /\ namespacesTodo \in [Firings -> SUBSET Namespaces]
    /\ deploymentsTodo \in [Firings -> SUBSET Deployments]
    /\ podsTodo \in [Firings -> SUBSET Pods]
    /\ deployment \in [Firings -> {{}} \cup {{d} : d \in Deployments}]
    /\ \A c \in Firings : deployment[c] = {} <=> cliPc[c] \notin {"pods", "scale"}

CLIInit ==
    /\ up = Deployments
    /\ pods = Pods
    /\ processes \in [Pods -> ProcessCounts]
    /\ building \in SUBSET Namespaces
    /\ cliPc = [c \in Firings |-> "off"]
    /\ namespacesTodo = [c \in Firings |-> {}]
    /\ deploymentsTodo = [c \in Firings |-> {}]
    /\ podsTodo = [c \in Firings |-> {}]
    /\ deployment = [c \in Firings |-> {}]

At(c, pc) == cliPc[c] = pc
Jump(c, pc) == cliPc' = [cliPc EXCEPT ![c] = pc]

-----------------------------------------------------------------------------
(* Users, builds and the kubelet                                            *)

Work(p, count) ==
    /\ p \in pods /\ processes[p] # count
    /\ processes' = [processes EXCEPT ![p] = count]
    /\ UNCHANGED <<up, pods, building, cliPc, loopVars>>

Build(n) ==
    /\ building' = IF n \in building THEN building \ {n} ELSE building \cup {n}
    /\ UNCHANGED <<up, pods, processes, cliPc, loopVars>>

ScaleUp(d) ==
    /\ d \notin up
    /\ up' = up \cup {d}
    /\ UNCHANGED <<pods, processes, building, cliPc, loopVars>>

\* A pod ends with its processes, and another of the same name stands for the next.
FollowReplicas(p) ==
    /\ (p \in pods) # (Owner[p] \in up)
    /\ pods' = IF Owner[p] \in up THEN pods \cup {p} ELSE pods \ {p}
    /\ processes' = [processes EXCEPT ![p] = 0]
    /\ UNCHANGED <<up, building, cliPc, loopVars>>

-----------------------------------------------------------------------------
(* CLIIdler                                                                 *)

Fire(c) ==
    /\ At(c, "off")
    /\ namespacesTodo' = [namespacesTodo EXCEPT ![c] = AutoIdled]
    /\ Jump(c, "namespaces")
    /\ UNCHANGED <<userVars, deploymentsTodo, podsTodo, deployment>>

AllNamespaces(c) ==
    /\ At(c, "namespaces") /\ namespacesTodo[c] = {}
    /\ Jump(c, "off")
    /\ UNCHANGED <<userVars, loopVars>>

-----------------------------------------------------------------------------
(* kubernetesCLI                                                            *)

PickNamespace(c, n) ==
    /\ At(c, "namespaces") /\ n \in namespacesTodo[c]
    /\ namespacesTodo' = [namespacesTodo EXCEPT ![c] = @ \ {n}]

\* A build pod that is pending is not looked for.
SkipBuilding(c, n) ==
    /\ "builds" \notin Skip /\ n \in building
    /\ PickNamespace(c, n)
    /\ UNCHANGED <<userVars, cliPc, deploymentsTodo, podsTodo, deployment>>

\* A list of builds that fails is logged, and the namespace is idled.  The
\* deployments at zero are listed too: replicas is compared with a new pointer.
EnterNamespace(c, n) ==
    /\ "builds" \in Skip \/ n \notin building \/ Faulty
    /\ PickNamespace(c, n)
    /\ deploymentsTodo' = [deploymentsTodo EXCEPT ![c] = {d \in Deployments : NamespaceOf[d] = n}]
    /\ Jump(c, "deployments")
    /\ UNCHANGED <<userVars, podsTodo, deployment>>

EnterError(c, n) ==
    /\ Faulty
    /\ PickNamespace(c, n)
    /\ UNCHANGED <<userVars, cliPc, deploymentsTodo, podsTodo, deployment>>

PickDeployment(c, d) ==
    /\ At(c, "deployments") /\ d \in deploymentsTodo[c]
    /\ deploymentsTodo' = [deploymentsTodo EXCEPT ![c] = @ \ {d}]

\* Mistaken: the flag is read the other way round.
HasCronsInverted(d) == "crons" \in Skip /\ d \in WithCrons

HasCrons(d) == "crons" \notin Skip /\ d \in WithCrons

SkipDeployment(c, d) ==
    /\ HasCrons(d) \/ Faulty
    /\ PickDeployment(c, d)
    /\ UNCHANGED <<userVars, cliPc, namespacesTodo, podsTodo, deployment>>

\* All the pods of the namespace are listed, whichever deployment they are of.
EnterDeployment(c, d) ==
    /\ ~HasCrons(d)
    /\ PickDeployment(c, d)
    /\ podsTodo' = [podsTodo EXCEPT ![c] =
           {p \in pods : NamespaceOf[Owner[p]] = NamespaceOf[d]}]
    /\ deployment' = [deployment EXCEPT ![c] = {d}]
    /\ Jump(c, "pods")
    /\ UNCHANGED <<userVars, namespacesTodo>>

AllDeployments(c) ==
    /\ At(c, "deployments") /\ deploymentsTodo[c] = {}
    /\ Jump(c, "namespaces")
    /\ UNCHANGED <<userVars, loopVars>>

PickPod(c, p) ==
    /\ At(c, "pods") /\ p \in podsTodo[c]
    /\ podsTodo' = [podsTodo EXCEPT ![c] = @ \ {p}]
    /\ UNCHANGED <<namespacesTodo, deploymentsTodo>>

\* Mistaken: the shell that counts is counted.
ProcessCountShell(p) == IF "processes" \in Skip THEN 0 ELSE (processes[p] + 1) % 10

\* The last character of what the shell prints.
ProcessCount(p) == IF "processes" \in Skip THEN 0 ELSE processes[p] % 10

\* The pod can be asked, or need not be.
Answers(p) == "processes" \in Skip \/ (p \in pods /\ p \notin Mute)

BusyPod(c, p) ==
    /\ Answers(p) /\ ProcessCount(p) > 0
    /\ PickPod(c, p)
    /\ UNCHANGED <<userVars, cliPc, deployment>>

IdlePod(c, p) ==
    /\ Answers(p) /\ ProcessCount(p) = 0
    /\ PickPod(c, p)
    /\ IF DryRun THEN UNCHANGED cliPc ELSE Jump(c, "scale")
    /\ UNCHANGED <<userVars, deployment>>

\* Mistaken: an exec that fails leaves the count at zero.
ExecErrorIdles(c, p) ==
    /\ "processes" \notin Skip
    /\ p \notin pods \/ Faulty
    /\ PickPod(c, p)
    /\ Jump(c, "scale")
    /\ UNCHANGED <<userVars, deployment>>

\* The other pods are not looked at for this deployment.
ExecError(c, p) ==
    /\ "processes" \notin Skip
    /\ p \notin pods \/ Faulty
    /\ At(c, "pods") /\ p \in podsTodo[c]
    /\ podsTodo' = [podsTodo EXCEPT ![c] = {}]
    /\ UNCHANGED <<userVars, cliPc, namespacesTodo, deploymentsTodo, deployment>>

\* The last character of nothing: cron recovers from the panic, and the firing
\* has ended for all the namespaces that were left.
Panic(c, p) ==
    /\ "processes" \notin Skip
    /\ p \in pods \cap Mute
    /\ At(c, "pods") /\ p \in podsTodo[c]
    /\ namespacesTodo' = [namespacesTodo EXCEPT ![c] = {}]
    /\ deploymentsTodo' = [deploymentsTodo EXCEPT ![c] = {}]
    /\ podsTodo' = [podsTodo EXCEPT ![c] = {}]
    /\ deployment' = [deployment EXCEPT ![c] = {}]
    /\ Jump(c, "off")
    /\ UNCHANGED userVars

Scale(c) ==
    /\ At(c, "scale")
    /\ up' = up \ deployment[c]
    /\ Jump(c, "pods")
    /\ UNCHANGED <<pods, processes, building, loopVars>>

ScaleError(c) ==
    /\ Faulty /\ At(c, "scale")
    /\ Jump(c, "pods")
    /\ UNCHANGED <<userVars, loopVars>>

\* Mistaken: the deployment is not forgotten.
AllPodsKept(c) ==
    /\ At(c, "pods") /\ podsTodo[c] = {}
    /\ Jump(c, "deployments")
    /\ UNCHANGED <<userVars, loopVars>>

AllPods(c) ==
    /\ At(c, "pods") /\ podsTodo[c] = {}
    /\ deployment' = [deployment EXCEPT ![c] = {}]
    /\ Jump(c, "deployments")
    /\ UNCHANGED <<userVars, namespacesTodo, deploymentsTodo, podsTodo>>

-----------------------------------------------------------------------------
(* The system                                                               *)

FiringWork(c) ==
    \/ AllNamespaces(c) \/ AllDeployments(c) \/ AllPods(c) \/ Scale(c) \/ ScaleError(c)
    \/ \E n \in Namespaces : SkipBuilding(c, n) \/ EnterNamespace(c, n) \/ EnterError(c, n)
    \/ \E d \in Deployments : SkipDeployment(c, d) \/ EnterDeployment(c, d)
    \/ \E p \in Pods : BusyPod(c, p) \/ IdlePod(c, p) \/ ExecError(c, p) \/ Panic(c, p)

CLINext ==
    \/ \E p \in Pods : FollowReplicas(p) \/ \E count \in ProcessCounts : Work(p, count)
    \/ \E n \in Namespaces : Build(n)
    \/ \E d \in Deployments : ScaleUp(d)
    \/ \E c \in Firings : Fire(c) \/ FiringWork(c)

CLISpec == CLIInit /\ [][CLINext]_cliVars

\* The cron fires again and again, and a firing goes on; a random order brings
\* every namespace, deployment and pod first from time to time, and a call does
\* not fail for ever; the kubelet catches up.  Users and builds need do nothing.
CLIFairness ==
    /\ \A p \in Pods : WF_cliVars(FollowReplicas(p))
    /\ \A c \in Firings :
           /\ WF_cliVars(Fire(c))
           /\ WF_cliVars(FiringWork(c))
           /\ \A n \in Namespaces : SF_cliVars(EnterNamespace(c, n))
           /\ \A d \in Deployments : SF_cliVars(EnterDeployment(c, d))
           /\ \A p \in Pods : SF_cliVars(deployment[c] = {Owner[p]} /\ IdlePod(c, p))
           /\ \A d \in Deployments : SF_cliVars(deployment[c] = {d} /\ Scale(c))

FairCLISpec == CLISpec /\ CLIFairness

-----------------------------------------------------------------------------
(* What users may expect                                                    *)

\* A deployment with cron jobs stays up (the CRONJOBS variable).
CronsStayUp == "crons" \notin Skip => WithCrons \subseteq up

\* While users have between one and nine processes in every pod, no deployment is
\* scaled down, whichever calls fail.
BusyStaysUp ==
    [](\A p \in pods : processes[p] \in 1 .. 9) => [](up = Deployments)

\* A pod whose processes are counted as none has none.
IdleHasNoProcess ==
    [][\A c \in Firings : At(c, "pods") /\ At(c, "scale")' =>
           \E p \in podsTodo[c] : processes[p] = 0]_cliVars

\* A pod that is left alone for good does not keep its deployment up for ever,
\* though other pods of the namespace fail, or stop a firing with a panic.
IdleScaledDown ==
    \A p \in Pods :
        LET d == Owner[p]
            alone == /\ p \in pods => processes[p] = 0
                     /\ NamespaceOf[d] \notin building
        IN  d \notin WithCrons /\ p \notin Mute /\ NamespaceOf[d] \in AutoIdled =>
                (<>[]alone => []<>(d \notin up))
=============================================================================
