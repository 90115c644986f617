----------------------------- MODULE FrontDoor ------------------------------
(***************************************************************************)
(* The visitors in front of Aergia, and the whole of ingressHandler: which  *)
(* ingress a request is about, whether its sender may unidle (Access), the  *)
(* verification of requests, and the page that is served.                   *)
(*                                                                          *)
(* A visitor is a browser tab, or a bot, that opens the host of one ingress *)
(* through one router.  As long as the environment is not up, the router    *)
(* lets aergia answer.  The page unidle.html reloads itself, and where      *)
(* verification is required it carries a verifier that its script sends     *)
(* back; forced.html, error.html and the empty answer do neither.           *)
(*                                                                          *)
(* A verifier is modelled by what it signs and the secret it is signed      *)
(* with.  Headers, status codes, formats and metrics are left out.          *)
(***************************************************************************)
EXTENDS Aergia, Access

CONSTANTS
    Visitors,
    AskedBy,            \* the visitor that sends each request
    Entry,              \* the ingress each visitor opens
    Through,            \* the router it comes through
    Client,             \* what the headers of its requests say of it
    Scripted,           \* the visitors that run the scripts of a page
    VerifiedUnidling,   \* the flag --verified-unidling
    Secrets,            \* the values --verify-secret may have
    RuleSets            \* the access rules to consider

ASSUME VisitorAssumption ==
    /\ AskedBy \in [Requests -> Visitors]
    /\ Entry \in [Visitors -> Ingresses]
    /\ Through \in [Visitors -> Routers]
    /\ Scripted \subseteq Visitors
    /\ VerifiedUnidling \in BOOLEAN

VARIABLES
    tab,        \* tab[v]: the page visitor v has before it, and its verifier
    secret,     \* h.VerifiedSecret
    rules       \* the global lists, those of each namespace and ingress, and the
                \* objects whose annotation disables the verification

frontVars == <<tab, secret, rules>>

Pages == {"nothing", "unidle", "forced", "error", "app"}
Verifiers == Namespaces \X Secrets

FrontTypeOK ==
    /\ TypeOK
    /\ tab \in [Visitors -> [shows : Pages, verifier : SUBSET Verifiers]]
    /\ secret \in Secrets
    /\ rules \in RuleSets

FrontInit ==
    /\ Init
    /\ tab = [v \in Visitors |-> [shows |-> "nothing", verifier |-> {}]]
    /\ secret \in Secrets
    /\ rules \in RuleSets

Environs(v) == NamespaceOf[Entry[v]]

Up(n) == \A d \in DeploymentsOf(n) : running[d]

\* The router gets no answer from the environment, and asks aergia for one.
ReachesAergia(v) == ~Up(Environs(v)) /\ Ours \in page[Entry[v]][Through[v]]

-----------------------------------------------------------------------------
(* ingressHandler                                                           *)

\* Mistaken: the host is compared for every router.
LookupByHost(v) == {}

\* nginx names the ingress in a header.  The middleware of traefik gives a URL,
\* whose host is compared with the single letters of the hosts of the ingresses:
\* no ingress is found, and the handler goes on with an empty one.
Lookup(v) == IF Through[v] = "nginx" THEN {Entry[v]} ELSE {}

\* checkAccess, for a request about the ingresses found (one, or none).
Admits(found, v) ==
    CheckAccess(IF found = {} THEN NoLists ELSE rules.ingress[CHOOSE i \in found : TRUE],
                rules.namespace[Environs(v)], rules.global, Client[v])

\* verifyRequest has a verifier to ask for.
MustVerify(v) ==
    /\ VerifiedUnidling
    /\ Lookup(v) \cap rules.exempt = {}
    /\ Environs(v) \notin rules.exempt

\* Mistaken: the page comes without a verifier.
SignatureMissing(v) == {}

\* hmacSigner, in the page that is served.
Signature(v) == IF MustVerify(v) THEN {<<Environs(v), secret>>} ELSE {}

\* Mistaken: a request without the header is not rejected.
VerifiedWithoutHeader(v, verifier) ==
    MustVerify(v) => verifier \subseteq {<<Environs(v), secret>>}

\* hmacVerifier, on the header that the request carries.
Verified(v, verifier) == MustVerify(v) => <<Environs(v), secret>> \in verifier

\* A Get or a List fails: an error page, or an empty answer.
LookupError(response) == Faulty /\ response = "error" /\ UNCHANGED vars

Deny(v, response) ==
    /\ ~Admits(Lookup(v), v)
    /\ response = "error"
    /\ UNCHANGED vars

ServeForced(v, response) ==
    /\ Admits(Lookup(v), v)
    /\ ForceScaled(Environs(v))
    /\ response = "forced"
    /\ UNCHANGED vars

RequireVerification(v, verifier, response) ==
    /\ Admits(Lookup(v), v) /\ ~Verified(v, verifier)
    /\ ~ForceScaled(Environs(v)) \/ Faulty
    /\ response = "unidle"
    /\ UNCHANGED vars

\* The request goes on to the lock: ReceiveRequest asks for force-scaled.
Allow(r, verifier, response) ==
    /\ Admits(Lookup(AskedBy[r]), AskedBy[r]) /\ Verified(AskedBy[r], verifier)
    /\ response = "unidle"
    /\ Request(r, Environs(AskedBy[r]))

IngressHandler(r, verifier, response) ==
    \/ LookupError(response)
    \/ Deny(AskedBy[r], response)
    \/ ServeForced(AskedBy[r], response)
    \/ RequireVerification(AskedBy[r], verifier, response)
    \/ Allow(r, verifier, response)

-----------------------------------------------------------------------------
(* The visitors                                                             *)

\* A tab is opened, or reloads.
Load(r) ==
    LET v == AskedBy[r]
    IN  /\ ReachesAergia(v)
        /\ \E response \in Pages :
               /\ IngressHandler(r, {}, response)
               /\ tab' = [tab EXCEPT ![v] =
                      [shows    |-> response,
                       verifier |-> IF response = "unidle" THEN Signature(v) ELSE {}]]
        /\ UNCHANGED <<secret, rules>>

\* The meta refresh of unidle.html.
Refresh(r) == tab[AskedBy[r]].shows = "unidle" /\ Load(r)

\* The script of unidle.html sends the verifier back, and ignores the answer.
Fetch(r) ==
    LET v == AskedBy[r]
    IN  /\ v \in Scripted /\ tab[v].verifier # {}
        /\ ReachesAergia(v)
        /\ \E response \in Pages : IngressHandler(r, tab[v].verifier, response)
        /\ tab' = [tab EXCEPT ![v] = [shows |-> tab[v].shows, verifier |-> {}]]
        /\ UNCHANGED <<secret, rules>>

\* The environment answers.
LoadApp(v) ==
    /\ Up(Environs(v))
    /\ tab' = [tab EXCEPT ![v] = [shows |-> "app", verifier |-> {}]]
    /\ UNCHANGED <<vars, secret, rules>>

-----------------------------------------------------------------------------
(* The system                                                               *)

\* The next process may be given another secret.
RestartWithSecret == Restart /\ secret' \in Secrets /\ UNCHANGED <<tab, rules>>

\* What goes on behind the door.
Behind ==
    /\ \/ \E n \in Namespaces, c \in Commands : PostCommand(n, c)
       \/ \E d \in Deployments, count \in 1 .. MaxReplicas : Rescale(d, count)
       \/ \E i \in Annotated, r \in Routers, items \in SUBSET UserItems : Annotate(i, r, items)
       \/ \E c \in Crons : CronStart(c)
       \/ \E n \in Namespaces : Reconcile(n)
       \/ Work
    /\ UNCHANGED frontVars

FrontNext ==
    \/ \E r \in Requests : Load(r) \/ Fetch(r)
    \/ \E v \in Visitors : LoadApp(v)
    \/ Behind
    \/ RestartWithSecret

allVars == <<vars, frontVars>>

FrontSpec == FrontInit /\ [][FrontNext]_allVars

\* A tab that reloads keeps reloading and its script runs; nobody has to open one.
FrontFairness ==
    /\ \A r \in Requests : WF_allVars(Refresh(r)) /\ WF_allVars(Fetch(r))
    /\ \A v \in Visitors : WF_allVars(tab[v].shows = "unidle" /\ LoadApp(v))
    /\ \A r \in Requests : WF_allVars(RequestWork(r) /\ UNCHANGED frontVars)
    /\ WF_allVars(Controller /\ UNCHANGED frontVars)
    /\ WF_allVars(SyncDeployments /\ UNCHANGED <<processVars, posts, crashes, frontVars>>)
    /\ WF_allVars(Kubelet /\ UNCHANGED frontVars)

FairFrontSpec == FrontSpec /\ FrontFairness

-----------------------------------------------------------------------------
(* What visitors may expect                                                 *)

\* The visitors that aergia lets unidle: admitted by the lists it looks at, and
\* able to answer where verification is required.
MayUnidle(v) == Admits(Lookup(v), v) /\ (MustVerify(v) => v \in Scripted)

\* Where verification is required, a visitor that runs no scripts never starts an
\* Unidle, whatever it opens and however often (verifyRequest, unidle.html).
OnlyForBrowsers == \A r \in Requests : unidlerPc[r] # "off" => MayUnidle(AskedBy[r])

\* The lists of the ingress, then those of the namespace, then the global ones deny
\* v: the innermost place that has a list overrides the others.
RulesDeny(v) ==
    LET places == <<rules.ingress[Entry[v]], rules.namespace[Environs(v)], rules.global>>
        listed(key, items) ==
            \E j \in 1 .. 3 :
                /\ key \in DOMAIN places[j] /\ places[j][key] \cap items # {}
                /\ \A k \in 1 .. j - 1 : key \notin DOMAIN places[k]
        addresses == ClientIPs(Client[v])
    IN  \/ listed("ip-block-list", addresses)
        \/ /\ listed("blocked-agents", {Client[v].agent} \ {""})
           /\ ~listed("ip-allow-list", addresses)

\* A visitor never starts an Unidle against the lists of the ingress it opens, and of
\* what is around that ingress (the lookup of the ingress, checkAccess).
IngressRulesApply == \A r \in Requests : unidlerPc[r] # "off" => ~RulesDeny(AskedBy[r])

\* A visitor that may unidle and waits on the page gets to see its environment,
\* though the process crashes, and comes back with another secret, meanwhile.
VisitorServed ==
    \A v \in Visitors :
        tab[v].shows = "unidle" /\ MayUnidle(v) ~> tab[v].shows = "app"
=============================================================================
