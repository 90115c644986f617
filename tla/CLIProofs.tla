----------------------------- MODULE CLIProofs ------------------------------
(***************************************************************************)
(* What holds of the CLI idler for every set of namespaces, deployments,    *)
(* pods and overlapping firings, whichever calls fail.                      *)
(***************************************************************************)
EXTENDS CLIIdler, TLAPS

LEMMA CLIInitType == CLIInit => CLITypeOK
  BY CLIAssumption DEF CLIInit, CLITypeOK

LEMMA FiringWorkType ==
  ASSUME CLITypeOK, NEW c \in Firings, FiringWork(c)
  PROVE  CLITypeOK'
<1>. USE DEF CLITypeOK, At, Jump, userVars, loopVars
<1>1. CASE AllNamespaces(c) \/ AllDeployments(c)
  BY <1>1 DEF AllNamespaces, AllDeployments
<1>2. CASE AllPods(c)
  BY <1>2 DEF AllPods
<1>3. CASE Scale(c) \/ ScaleError(c)
  BY <1>3 DEF Scale, ScaleError
<1>4. ASSUME NEW n \in Namespaces, SkipBuilding(c, n) \/ EnterError(c, n)
      PROVE  CLITypeOK'
  BY <1>4 DEF SkipBuilding, EnterError, PickNamespace
<1>5. ASSUME NEW n \in Namespaces, EnterNamespace(c, n)
      PROVE  CLITypeOK'
  BY <1>5 DEF EnterNamespace, PickNamespace
<1>6. ASSUME NEW d \in Deployments, SkipDeployment(c, d)
      PROVE  CLITypeOK'
  BY <1>6 DEF SkipDeployment, PickDeployment
<1>7. ASSUME NEW d \in Deployments, EnterDeployment(c, d)
      PROVE  CLITypeOK'
  BY <1>7 DEF EnterDeployment, PickDeployment
<1>8. ASSUME NEW p \in Pods, BusyPod(c, p) \/ IdlePod(c, p) \/ ExecError(c, p)
      PROVE  CLITypeOK'
  BY <1>8 DEF BusyPod, IdlePod, ExecError, PickPod
<1>9. ASSUME NEW p \in Pods, Panic(c, p)
      PROVE  CLITypeOK'
  BY <1>9 DEF Panic
<1>. QED
  BY <1>1, <1>2, <1>3, <1>4, <1>5, <1>6, <1>7, <1>8, <1>9 DEF FiringWork

LEMMA CLINextType ==
  ASSUME CLITypeOK, [CLINext]_cliVars
  PROVE  CLITypeOK'
<1>. USE DEF CLITypeOK
<1>1. ASSUME NEW p \in Pods, NEW count \in ProcessCounts, Work(p, count)
      PROVE  CLITypeOK'
  BY <1>1 DEF Work, loopVars
<1>2. ASSUME NEW p \in Pods, FollowReplicas(p)
      PROVE  CLITypeOK'
  BY <1>2 DEF FollowReplicas, loopVars
<1>3. ASSUME NEW n \in Namespaces, Build(n)
      PROVE  CLITypeOK'
  BY <1>3 DEF Build, loopVars
<1>4. ASSUME NEW d \in Deployments, ScaleUp(d)
      PROVE  CLITypeOK'
  BY <1>4 DEF ScaleUp, loopVars
<1>5. ASSUME NEW c \in Firings, Fire(c)
      PROVE  CLITypeOK'
  BY <1>5, CLIAssumption DEF Fire, At, Jump, userVars
<1>6. CASE UNCHANGED cliVars
  BY <1>6 DEF cliVars, userVars, loopVars
<1>. QED
  BY <1>1, <1>2, <1>3, <1>4, <1>5, <1>6, FiringWorkType DEF CLINext

(***************************************************************************)
(* Every variable keeps its type: a firing looks at one deployment, which   *)
(* it has picked, exactly while it is at its pods (kubernetesCLI).          *)
(***************************************************************************)
THEOREM CLITypeCorrect == CLISpec => []CLITypeOK
  BY CLIInitType, CLINextType, PTL DEF CLISpec

-----------------------------------------------------------------------------
(* Cron jobs                                                                *)

\* No firing looks at the pods of a deployment with cron jobs, and so none scales it.
CronInv == "crons" \notin Skip =>
    /\ WithCrons \subseteq up
    /\ \A c \in Firings : deployment[c] \cap WithCrons = {}

(***************************************************************************)
(* A deployment with cron jobs stays up, whatever its pods answer and       *)
(* whichever calls fail (the CRONJOBS variable).                            *)
(***************************************************************************)
THEOREM CronJobsStayUp == CLISpec => []CronsStayUp
<1>1. CLIInit => CronInv
  BY CLIAssumption DEF CLIInit, CronInv
<1>2. ASSUME CLITypeOK, CronInv, [CLINext]_cliVars
      PROVE  CronInv'
  <2>. SUFFICES ASSUME "crons" \notin Skip
                PROVE  CronInv'
    BY DEF CronInv
  <2>0. /\ WithCrons \subseteq up
        /\ \A c \in Firings : deployment[c] \cap WithCrons = {}
    BY <1>2 DEF CronInv
  <2>1. ASSUME NEW c \in Firings, Scale(c)
        PROVE  CronInv'
    BY <2>0, <2>1 DEF Scale, CronInv, loopVars
  <2>2. ASSUME NEW c \in Firings, NEW d \in Deployments, EnterDeployment(c, d)
        PROVE  CronInv'
    <3>1. d \notin WithCrons /\ deployment' = [deployment EXCEPT ![c] = {d}] /\ up' = up
      BY <2>2 DEF EnterDeployment, HasCrons, userVars
    <3>. QED  BY <1>2, <2>0, <3>1 DEF CLITypeOK, CronInv
  <2>3. ASSUME NEW c \in Firings,
               AllPods(c) \/ \E p \in Pods : Panic(c, p)
        PROVE  CronInv'
    <3>1. deployment' = [deployment EXCEPT ![c] = {}] /\ up' = up
      BY <2>3 DEF AllPods, Panic, userVars
    <3>. QED  BY <1>2, <2>0, <3>1 DEF CLITypeOK, CronInv
  <2>4. ASSUME NEW d \in Deployments, ScaleUp(d)
        PROVE  CronInv'
    BY <2>0, <2>4 DEF ScaleUp, CronInv, loopVars
  <2>5. CASE UNCHANGED <<up, deployment>>
    BY <2>0, <2>5 DEF CronInv
  <2>6. ASSUME NEW c \in Firings, FiringWork(c)
        PROVE  CronInv'
    <3>1. CASE AllNamespaces(c) \/ AllDeployments(c) \/ ScaleError(c)
      BY <2>5, <3>1 DEF AllNamespaces, AllDeployments, ScaleError, userVars, loopVars
    <3>2. ASSUME NEW n \in Namespaces, SkipBuilding(c, n) \/ EnterNamespace(c, n) \/ EnterError(c, n)
          PROVE  CronInv'
      BY <2>5, <3>2 DEF SkipBuilding, EnterNamespace, EnterError, userVars
    <3>3. ASSUME NEW d \in Deployments, SkipDeployment(c, d)
          PROVE  CronInv'
      BY <2>5, <3>3 DEF SkipDeployment, userVars
    <3>4. ASSUME NEW p \in Pods, BusyPod(c, p) \/ IdlePod(c, p) \/ ExecError(c, p)
          PROVE  CronInv'
      BY <2>5, <3>4 DEF BusyPod, IdlePod, ExecError, userVars
    <3>. QED
      BY <2>1, <2>2, <2>3, <2>6, <3>1, <3>2, <3>3, <3>4 DEF FiringWork
  <2>7. ASSUME NEW p \in Pods, FollowReplicas(p) \/ \E count \in ProcessCounts : Work(p, count)
        PROVE  CronInv'
    BY <2>5, <2>7 DEF FollowReplicas, Work, loopVars
  <2>8. CASE \/ \E n \in Namespaces : Build(n)
             \/ \E c \in Firings : Fire(c)
             \/ UNCHANGED cliVars
    BY <2>5, <2>8 DEF Build, Fire, cliVars, userVars, loopVars
  <2>. QED  BY <1>2, <2>4, <2>6, <2>7, <2>8 DEF CLINext
<1>3. CronInv => CronsStayUp
  BY DEF CronInv, CronsStayUp
<1>. QED  BY <1>1, <1>2, <1>3, CLITypeCorrect, PTL DEF CLISpec

-----------------------------------------------------------------------------
(* Processes                                                                *)

\* A count of one digit is read as it is.
LEMMA OneDigit == \A k \in 0 .. 9 : k % 10 = k
  OBVIOUS

\* The steps by which a firing comes to scale, and those that scale.
LEMMA FiringScales ==
  ASSUME CLITypeOK, NEW c \in Firings, FiringWork(c)
  PROVE  /\ up' = up \/ Scale(c)
         /\ \A f \in Firings : cliPc[f] # "scale" =>
                cliPc'[f] # "scale" \/ (f = c /\ \E p \in Pods : IdlePod(c, p))
<1>. USE DEF CLITypeOK, At, Jump, userVars
<1>1. CASE AllNamespaces(c) \/ AllDeployments(c) \/ AllPods(c)
  BY <1>1 DEF AllNamespaces, AllDeployments, AllPods
<1>2. CASE Scale(c) \/ ScaleError(c)
  BY <1>2 DEF Scale, ScaleError
<1>3. ASSUME NEW n \in Namespaces, SkipBuilding(c, n) \/ EnterNamespace(c, n) \/ EnterError(c, n)
      PROVE  up' = up /\ \A f \in Firings : cliPc[f] # "scale" => cliPc'[f] # "scale"
  BY <1>3 DEF SkipBuilding, EnterNamespace, EnterError
<1>4. ASSUME NEW d \in Deployments, SkipDeployment(c, d) \/ EnterDeployment(c, d)
      PROVE  up' = up /\ \A f \in Firings : cliPc[f] # "scale" => cliPc'[f] # "scale"
  BY <1>4 DEF SkipDeployment, EnterDeployment
<1>5. ASSUME NEW p \in Pods, BusyPod(c, p) \/ ExecError(c, p) \/ Panic(c, p)
      PROVE  up' = up /\ \A f \in Firings : cliPc[f] # "scale" => cliPc'[f] # "scale"
  BY <1>5 DEF BusyPod, ExecError, Panic
<1>6. ASSUME NEW p \in Pods, IdlePod(c, p)
      PROVE  up' = up /\ \A f \in Firings : f # c => cliPc'[f] = cliPc[f]
  BY <1>6 DEF IdlePod
<1>. QED
  BY <1>1, <1>2, <1>3, <1>4, <1>5, <1>6 DEF FiringWork

\* What the users, the builds, the kubelet and the cron do scales nothing down.
LEMMA OthersScaleNothing ==
  ASSUME CLITypeOK, [CLINext]_cliVars, \A c \in Firings : ~FiringWork(c)
  PROVE  /\ up \subseteq up'
         /\ \A f \in Firings : cliPc'[f] = "scale" => cliPc[f] = "scale"
<1>. USE DEF CLITypeOK, At, Jump, userVars, loopVars
<1>1. ASSUME NEW p \in Pods, FollowReplicas(p) \/ \E count \in ProcessCounts : Work(p, count)
      PROVE  UNCHANGED <<up, cliPc>>
  BY <1>1 DEF FollowReplicas, Work
<1>2. ASSUME NEW n \in Namespaces, Build(n)
      PROVE  UNCHANGED <<up, cliPc>>
  BY <1>2 DEF Build
<1>3. ASSUME NEW d \in Deployments, ScaleUp(d)
      PROVE  up \subseteq up' /\ UNCHANGED cliPc
  BY <1>3 DEF ScaleUp
<1>4. ASSUME NEW c \in Firings, Fire(c)
      PROVE  /\ up' = up
             /\ \A f \in Firings : cliPc'[f] = "scale" => cliPc[f] = "scale"
  BY <1>4 DEF Fire
<1>5. CASE UNCHANGED cliVars
  BY <1>5 DEF cliVars
<1>. QED  BY <1>1, <1>2, <1>3, <1>4, <1>5 DEF CLINext

Busy == \A p \in pods : processes[p] \in 1 .. 9

\* No firing is about to scale, and nothing has been scaled.
AllUp == up = Deployments /\ \A c \in Firings : cliPc[c] # "scale"

(***************************************************************************)
(* While users work in every pod nothing is scaled down, whichever calls    *)
(* fail, though builds come and go, firings overlap and panic, and a firing *)
(* counts the processes one pod at a time: kubernetesCLI scales only after  *)
(* a count that it took and that ends in 0.                                 *)
(***************************************************************************)
THEOREM BusyPodsStayUp ==
  ASSUME "processes" \notin Skip
  PROVE  CLISpec => BusyStaysUp
<1>1. CLIInit => AllUp
  BY DEF CLIInit, AllUp
<1>2. ASSUME CLITypeOK, AllUp, Busy, [CLINext]_cliVars
      PROVE  AllUp'
  <2>1. ASSUME NEW c \in Firings, NEW p \in Pods, IdlePod(c, p)
        PROVE  FALSE
    <3>1. p \in pods /\ processes[p] % 10 = 0
      BY <2>1 DEF IdlePod, Answers, ProcessCount
    <3>2. processes[p] \in 1 .. 9
      BY <1>2, <3>1 DEF Busy
    <3>. QED  BY <3>1, <3>2, OneDigit
  <2>2. ASSUME NEW c \in Firings, FiringWork(c)
        PROVE  AllUp'
    <3>1. ~Scale(c)
      BY <1>2 DEF Scale, At, AllUp
    <3>. QED  BY <1>2, <2>1, <2>2, <3>1, FiringScales DEF AllUp
  <2>3. CASE \A c \in Firings : ~FiringWork(c)
    <3>1. up' \subseteq Deployments
      BY <1>2, CLINextType DEF CLITypeOK
    <3>. QED  BY <1>2, <2>3, <3>1, OthersScaleNothing DEF AllUp
  <2>. QED  BY <2>2, <2>3
<1>3. AllUp => up = Deployments
  BY DEF AllUp
<1>. QED  BY <1>1, <1>2, <1>3, CLITypeCorrect, PTL DEF CLISpec, BusyStaysUp, Busy

(***************************************************************************)
(* A pod whose processes are counted as none has none, as long as nobody    *)
(* runs more than nine: what busy_cli shows is the digit, and the digit     *)
(* alone (the last character of what the shell prints).                     *)
(***************************************************************************)
THEOREM OneDigitIsCounted ==
  ASSUME ProcessCounts \subseteq 0 .. 9, "processes" \notin Skip
  PROVE  CLISpec => IdleHasNoProcess
<1>1. ASSUME CLITypeOK, [CLINext]_cliVars,
             NEW c \in Firings, At(c, "pods"), At(c, "scale")'
      PROVE  \E p \in podsTodo[c] : processes[p] = 0
  <2>1. cliPc[c] # "scale" /\ cliPc'[c] = "scale"
    BY <1>1 DEF At
  <2>2. PICK f \in Firings : FiringWork(f)
    BY <1>1, <2>1, OthersScaleNothing
  <2>3. PICK p \in Pods : IdlePod(c, p)
    BY <1>1, <2>1, <2>2, FiringScales
  <2>4. p \in podsTodo[c] /\ processes[p] % 10 = 0
    BY <2>3 DEF IdlePod, PickPod, Answers, ProcessCount
  <2>5. processes[p] \in 0 .. 9
    <3>1. processes[p] \in ProcessCounts \cup {0}
      BY <1>1 DEF CLITypeOK
    <3>2. CASE processes[p] \in ProcessCounts
      BY <3>2
    <3>3. CASE processes[p] = 0
      BY <3>3
    <3>. QED  BY <3>1, <3>2, <3>3
  <2>. QED  BY <2>4, <2>5, OneDigit
<1>2. ASSUME CLITypeOK, [CLINext]_cliVars
      PROVE  [\A c \in Firings : At(c, "pods") /\ At(c, "scale")' =>
                 \E p \in podsTodo[c] : processes[p] = 0]_cliVars
  BY <1>1, <1>2
<1>. QED  BY <1>2, CLITypeCorrect, PTL DEF CLISpec, IdleHasNoProcess
=============================================================================
