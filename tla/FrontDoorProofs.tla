-------------------------- MODULE FrontDoorProofs --------------------------
(***************************************************************************)
(* What holds of the visitors of aergia for every set of rules, visitors    *)
(* and environments.  FrontDoor only restricts how requests come to be, so  *)
(* all that AergiaProofs says of the safety of Spec holds behind it.        *)
(***************************************************************************)
EXTENDS FrontDoor, AergiaProofs

LEMMA EnvironsType ==
  ASSUME NEW v \in Visitors
  PROVE  Environs(v) \in Namespaces
  BY VisitorAssumption, TopologyAssumption DEF Environs

\* A request either leaves everything behind the door alone, or goes on to the lock.
LEMMA HandlerStep ==
  ASSUME NEW r \in Requests, NEW verifier, NEW response, IngressHandler(r, verifier, response)
  PROVE  \/ UNCHANGED vars
         \/ /\ Request(r, Environs(AskedBy[r]))
            /\ Admits(Lookup(AskedBy[r]), AskedBy[r])
            /\ Verified(AskedBy[r], verifier)
  BY DEF IngressHandler, LookupError, Deny, ServeForced, RequireVerification, Allow

\* What a visitor sets off, in the terms of Aergia.
LEMMA VisitorStep ==
  ASSUME NEW r \in Requests, Load(r) \/ Fetch(r)
  PROVE  \/ UNCHANGED vars
         \/ /\ Request(r, Environs(AskedBy[r]))
            /\ MayUnidle(AskedBy[r])
<1>1. CASE Load(r)
  <2>1. PICK response \in Pages : IngressHandler(r, {}, response)
    BY <1>1 DEF Load
  <2>2. Verified(AskedBy[r], {}) => ~MustVerify(AskedBy[r])
    BY DEF Verified
  <2>. QED  BY <2>1, <2>2, HandlerStep DEF MayUnidle
<1>2. CASE Fetch(r)
  <2>1. PICK response \in Pages : IngressHandler(r, tab[AskedBy[r]].verifier, response)
    BY <1>2 DEF Fetch
  <2>2. AskedBy[r] \in Scripted
    BY <1>2 DEF Fetch
  <2>. QED  BY <2>1, <2>2, HandlerStep DEF MayUnidle
<1>. QED  BY <1>1, <1>2

LEMMA RequestIsNext ==
  ASSUME NEW r \in Requests, NEW n \in Namespaces, Request(r, n)
  PROVE  Next
  BY DEF Next, Start

LEMMA BehindIsNext ==
  ASSUME Behind
  PROVE  Next
  BY DEF Behind, Next, Start

LEMMA RequestEnvirons ==
  ASSUME NEW r \in Requests
  PROVE  Environs(AskedBy[r]) \in Namespaces
  BY EnvironsType, VisitorAssumption

(***************************************************************************)
(* Every behaviour in front of aergia is one of Aergia: the theorems of     *)
(* AergiaProofs and QueueProofs hold of it (ingressHandler, main).          *)
(***************************************************************************)
THEOREM FrontDoorIsAergia == FrontSpec => Spec
<1>1. FrontInit => Init
  BY DEF FrontInit
<1>2. ASSUME [FrontNext]_allVars
      PROVE  [Next]_vars
  <2>1. ASSUME NEW r \in Requests, Load(r) \/ Fetch(r)
        PROVE  [Next]_vars
    BY <2>1, VisitorStep, RequestIsNext, RequestEnvirons
  <2>2. ASSUME NEW v \in Visitors, LoadApp(v)
        PROVE  UNCHANGED vars
    BY <2>2 DEF LoadApp
  <2>3. CASE Behind
    BY <2>3, BehindIsNext
  <2>4. CASE RestartWithSecret
    BY <2>4 DEF RestartWithSecret, Next
  <2>5. CASE UNCHANGED allVars
    BY <2>5 DEF allVars
  <2>. QED  BY <1>2, <2>1, <2>2, <2>3, <2>4, <2>5 DEF FrontNext
<1>. QED  BY <1>1, <1>2, PTL DEF FrontSpec, Spec

-----------------------------------------------------------------------------
(* Types                                                                    *)

(***************************************************************************)
(* Every variable keeps its type: a page of a visitor is one of the         *)
(* templates, and its verifier is a signature under one of the secrets.     *)
(***************************************************************************)
THEOREM FrontTypeCorrect == FrontSpec => []FrontTypeOK
<1>. DEFINE TabType == /\ tab \in [Visitors -> [shows : Pages, verifier : SUBSET Verifiers]]
                       /\ secret \in Secrets
                       /\ rules \in RuleSets
<1>1. FrontInit => TabType
  BY DEF FrontInit, Pages
<1>2. ASSUME TabType, [FrontNext]_allVars
      PROVE  TabType'
  <2>1. ASSUME NEW v \in Visitors
        PROVE  Signature(v) \in SUBSET Verifiers
    BY <1>2, <2>1, EnvironsType DEF Signature, Verifiers
  <2>2. ASSUME NEW r \in Requests, Load(r)
        PROVE  TabType'
    <3>1. AskedBy[r] \in Visitors
      BY VisitorAssumption
    <3>2. Signature(AskedBy[r]) \in SUBSET Verifiers
      BY <3>1, <2>1
    <3>3. PICK response \in Pages :
             tab' = [tab EXCEPT ![AskedBy[r]] =
                        [shows    |-> response,
                         verifier |-> IF response = "unidle"
                                      THEN Signature(AskedBy[r]) ELSE {}]]
      BY <2>2 DEF Load
    <3>4. UNCHANGED <<secret, rules>>
      BY <2>2 DEF Load
    <3>. QED  BY <1>2, <3>2, <3>3, <3>4
  <2>3. ASSUME NEW r \in Requests, Fetch(r)
        PROVE  TabType'
    BY <1>2, <2>3, VisitorAssumption DEF Fetch
  <2>4. ASSUME NEW v \in Visitors, LoadApp(v)
        PROVE  TabType'
    BY <1>2, <2>4 DEF LoadApp, Pages
  <2>5. CASE Behind \/ RestartWithSecret \/ UNCHANGED allVars
    BY <1>2, <2>5 DEF Behind, RestartWithSecret, allVars, frontVars
  <2>. QED  BY <1>2, <2>2, <2>3, <2>4, <2>5 DEF FrontNext
<1>3. FrontSpec => []TypeOK
  BY FrontDoorIsAergia, TypeCorrect, PTL
<1>4. FrontSpec => []TabType
  BY <1>1, <1>2, PTL DEF FrontSpec
<1>5. TypeOK /\ TabType => FrontTypeOK
  BY DEF FrontTypeOK
<1>. QED  BY <1>3, <1>4, <1>5, PTL

-----------------------------------------------------------------------------
(* Who starts an Unidle                                                     *)

\* Nothing but a request of its own brings an actor of the unidler to life, except
\* the reconciler.
LEMMA UnidlerWorkOff ==
  ASSUME UnidlerTypeOK, NEW p \in Unidlers, UnidlerWork(p), NEW q \in Unidlers,
         unidlerPc[q] = "off"
  PROVE  unidlerPc'[q] = "off"
<1>. USE DEF UnidlerTypeOK, Goto, Finish
<1>1. ASSUME q # p
      PROVE  unidlerPc'[q] = unidlerPc[q]
  BY <1>1
  DEF UnidlerWork, LoadLock, StoreLock, ListWatched, ListWatchedError, WakeDeployment,
      WakeError, PodReady, GiveUpWaiting, ListPages, ListPagesError, StripPage, StripError,
      AllStripped, LabelUnidled, LabelError, Unlock
<1>2. CASE q = p
  BY <1>2
  DEF UnidlerWork, LoadLock, StoreLock, ListWatched, ListWatchedError, WakeDeployment,
      WakeError, PodReady, GiveUpWaiting, Polling, ListPages, ListPagesError, StripPage,
      StripError, AllStripped, LabelUnidled, LabelError, Unlock
<1>. QED  BY <1>1, <1>2

LEMMA StaysOff ==
  ASSUME TypeOK, Behind \/ Restart, NEW r \in Requests, unidlerPc[r] = "off"
  PROVE  unidlerPc'[r] = "off"
<1>. USE DEF TypeOK
<1>0. r \in Unidlers /\ r # Reconciler /\ Reconciler \in Unidlers
  BY UnidlerAssumption DEF Unidlers
<1>1. ASSUME NEW q \in Requests, RequestWork(q)
      PROVE  unidlerPc'[r] = "off"
  <2>1. q \in Unidlers /\ UnidlerWork(q)
    BY <1>1 DEF RequestWork, Unidlers
  <2>. QED  BY <1>0, <2>1, UnidlerWorkOff
<1>2. CASE Controller
  <2>1. CASE UnidlerWork(Reconciler)
    BY <1>0, <2>1, UnidlerWorkOff
  <2>2. CASE UNCHANGED unidlerVars
    BY <2>2 DEF unidlerVars
  <2>. QED
    BY <1>2, <2>1, <2>2 DEF Controller, ControllerWork, ClearCommand, ClearError
<1>3. ASSUME NEW n \in Namespaces, Reconcile(n)
      PROVE  unidlerPc'[r] = "off"
  BY <1>0, <1>3
  DEF Reconcile, StartReconcile, ReconcileNothing, ReconcileForce, ReconcileUnidle, Goto,
      unidlerVars, UnidlerTypeOK
<1>4. CASE Restart
  BY <1>0, <1>4 DEF Restart
<1>5. CASE \/ \E n \in Namespaces, c \in Commands : PostCommand(n, c)
           \/ \E d \in Deployments, count \in 1 .. MaxReplicas : Rescale(d, count)
           \/ \E i \in Annotated, q \in Routers, items \in SUBSET UserItems : Annotate(i, q, items)
           \/ Informers \/ Kubelet
  BY <1>5
  DEF PostCommand, Rescale, Annotate, Informers, Kubelet, processVars, unidlerVars
<1>6. ASSUME NEW c \in Crons, CronStart(c) \/ CronWork(c)
      PROVE  unidlerPc'[r] = "off"
  BY <1>6 DEF CronStart, CronWork, unidlerVars
<1>. QED
  BY <1>1, <1>2, <1>3, <1>4, <1>5, <1>6 DEF Behind, Work

\* A request that is not off is the one that a visitor has just sent, or was under way.
LEMMA UnidleStep ==
  ASSUME TypeOK, [FrontNext]_allVars, NEW r \in Requests, unidlerPc'[r] # "off"
  PROVE  unidlerPc[r] # "off" \/ MayUnidle(AskedBy[r])
<1>1. ASSUME NEW q \in Requests, Load(q) \/ Fetch(q)
      PROVE  unidlerPc[r] # "off" \/ MayUnidle(AskedBy[r])
  <2>1. CASE UNCHANGED vars
    BY <2>1 DEF vars, processVars, unidlerVars
  <2>2. CASE Request(q, Environs(AskedBy[q])) /\ MayUnidle(AskedBy[q])
    <3>1. unidlerPc' = [unidlerPc EXCEPT ![q] = "load"]
      BY <2>2 DEF Request, ReceiveRequest, Goto
    <3>2. q = r \/ unidlerPc'[r] = unidlerPc[r]
      BY <3>1 DEF TypeOK, UnidlerTypeOK, Unidlers
    <3>. QED  BY <2>2, <3>2
  <2>. QED  BY <1>1, <2>1, <2>2, VisitorStep
<1>2. CASE UNCHANGED vars
  BY <1>2 DEF vars, processVars, unidlerVars
<1>3. CASE Behind \/ RestartWithSecret
  BY <1>3, StaysOff DEF RestartWithSecret
<1>. QED  BY <1>1, <1>2, <1>3 DEF FrontNext, LoadApp, allVars

\* What decides whether a visitor may unidle does not change.
LEMMA RulesStay ==
  ASSUME [FrontNext]_allVars
  PROVE  rules' = rules
  BY DEF FrontNext, Load, Fetch, LoadApp, Behind, RestartWithSecret, allVars, frontVars

(***************************************************************************)
(* Where verification is required, a visitor without scripts never starts   *)
(* an Unidle, and one that is not admitted never does either                *)
(* (verifyRequest, checkAccess): a request is admitted and verified when it *)
(* leaves "off", and what decides it does not change.                       *)
(***************************************************************************)
THEOREM OnlyBrowsersUnidle == FrontSpec => []OnlyForBrowsers
<1>1. FrontInit => OnlyForBrowsers
  BY DEF FrontInit, Init, UnidlerInit, OnlyForBrowsers, Unidlers
<1>2. ASSUME TypeOK, OnlyForBrowsers, [FrontNext]_allVars
      PROVE  OnlyForBrowsers'
  <2>1. ASSUME NEW r \in Requests, unidlerPc'[r] # "off"
        PROVE  MayUnidle(AskedBy[r])
    BY <1>2, <2>1, UnidleStep DEF OnlyForBrowsers
  <2>2. ASSUME NEW r \in Requests
        PROVE  MayUnidle(AskedBy[r])' <=> MayUnidle(AskedBy[r])
    BY <1>2, RulesStay DEF MayUnidle, Admits, Lookup, MustVerify
  <2>. QED  BY <2>1, <2>2 DEF OnlyForBrowsers
<1>3. FrontSpec => []TypeOK
  BY FrontDoorIsAergia, TypeCorrect, PTL
<1>. QED  BY <1>1, <1>2, <1>3, PTL DEF FrontSpec

-----------------------------------------------------------------------------
(* The lists                                                                *)

\* One list, looked up in three places, as the code does it and as it is meant.
LEMMA EffectiveIsInnermost ==
  ASSUME NEW key, NEW places, NEW items
  PROVE  Effective(key, places[1], places[2], places[3]) \cap items # {} <=>
             \E j \in 1 .. 3 :
                 /\ key \in DOMAIN places[j] /\ places[j][key] \cap items # {}
                 /\ \A k \in 1 .. j - 1 : key \notin DOMAIN places[k]
<1>. DEFINE there(j) == key \in DOMAIN places[j]
            hits(j) == places[j][key] \cap items # {}
<1>1. (\E j \in 1 .. 3 : there(j) /\ hits(j) /\ \A k \in 1 .. j - 1 : ~there(k)) <=>
          \/ there(1) /\ hits(1)
          \/ ~there(1) /\ there(2) /\ hits(2)
          \/ ~there(1) /\ ~there(2) /\ there(3) /\ hits(3)
  <2>. HIDE DEF there, hits
  <2>1. \A j \in 1 .. 3 : j = 1 \/ j = 2 \/ j = 3
    OBVIOUS
  <2>2. /\ \A k \in 1 .. 1 - 1 : FALSE
        /\ \A k \in 1 .. 2 - 1 : k = 1
        /\ \A k \in 1 .. 3 - 1 : k = 1 \/ k = 2
        /\ 1 \in 1 .. 2 - 1 /\ 1 \in 1 .. 3 - 1 /\ 2 \in 1 .. 3 - 1
        /\ 1 \in 1 .. 3 /\ 2 \in 1 .. 3 /\ 3 \in 1 .. 3
    OBVIOUS
  <2>. QED  BY <2>1, <2>2
<1>. QED  BY <1>1 DEF Effective

(***************************************************************************)
(* The lists around the ingress that a visitor opens apply to it, if every  *)
(* visitor comes through nginx, which names the ingress in a header         *)
(* (ingressHandler, checkAccess).  Through traefik they do not.             *)
(***************************************************************************)
THEOREM RulesApplyBehindNginx ==
  ASSUME \A v \in Visitors : Through[v] = "nginx"
  PROVE  FrontSpec => []IngressRulesApply
<1>1. ASSUME NEW v \in Visitors, RulesDeny(v)
      PROVE  ~Admits(Lookup(v), v)
  <2>. DEFINE ingress == rules.ingress[Entry[v]]
              namespace == rules.namespace[Environs(v)]
              places == <<ingress, namespace, rules.global>>
              listed(key, items) ==
                  \E j \in 1 .. 3 :
                      /\ key \in DOMAIN places[j] /\ places[j][key] \cap items # {}
                      /\ \A k \in 1 .. j - 1 : key \notin DOMAIN places[k]
              list(key) == Effective(key, ingress, namespace, rules.global)
              addresses == ClientIPs(Client[v])
  <2>1. Lookup(v) # {} /\ (CHOOSE i \in Lookup(v) : TRUE) = Entry[v]
    BY DEF Lookup
  <2>2. Admits(Lookup(v), v) <=> CheckAccess(ingress, namespace, rules.global, Client[v])
    BY <2>1 DEF Admits
  <2>3. ASSUME NEW key, NEW items
        PROVE  listed(key, items) <=> list(key) \cap items # {}
    <3>1. places[1] = ingress /\ places[2] = namespace /\ places[3] = rules.global
      OBVIOUS
    <3>. HIDE DEF places, ingress, namespace
    <3>2. listed(key, items) <=>
              Effective(key, places[1], places[2], places[3]) \cap items # {}
      BY EffectiveIsInnermost
    <3>. QED  BY <3>1, <3>2
  <2>4. \/ listed("ip-block-list", addresses)
        \/ /\ listed("blocked-agents", {Client[v].agent} \ {""})
           /\ ~listed("ip-allow-list", addresses)
    BY <1>1 DEF RulesDeny
  <2>. HIDE DEF listed, list, ingress, namespace
  <2>5. \/ list("ip-block-list") \cap addresses # {}
        \/ /\ list("blocked-agents") \cap ({Client[v].agent} \ {""}) # {}
           /\ list("ip-allow-list") \cap addresses = {}
    BY <2>3, <2>4
  <2>6. \/ CheckIPList(list("ip-block-list"), Client[v])
        \/ /\ CheckAgents(list("blocked-agents"), Client[v])
           /\ ~CheckIPList(list("ip-allow-list"), Client[v])
    BY <2>5 DEF CheckIPList, CheckAgents
  <2>. QED  BY <2>2, <2>6 DEF CheckAccess, list
<1>2. OnlyForBrowsers => IngressRulesApply
  BY <1>1, VisitorAssumption DEF OnlyForBrowsers, MayUnidle, IngressRulesApply
<1>. QED  BY <1>2, OnlyBrowsersUnidle, PTL
=============================================================================
