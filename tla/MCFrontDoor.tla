---------------------------- MODULE MCFrontDoor -----------------------------
(* Small sets of visitors and rules for TLC.                                *)
EXTENDS FrontDoor, MCAergia

\* Each visitor has one request at a time.
OwnRequest == [r \in Requests |-> r]
OwnIngress == CHOOSE entry \in [Visitors -> Ingresses] :
                  \A i \in Ingresses : \E v \in Visitors : entry[v] = i
ByNginx == [v \in Visitors |-> "nginx"]
ByTraefik == [v \in Visitors |-> "traefik"]

Browser == [trueClientIP |-> "", forwarded |-> {"1.2.3.4", "10.0.0.1"}, agent |-> "firefox"]
Browsers == [v \in Visitors |-> Browser]

\* Lists that deny the browser of this module, by the address of its proxy or by
\* its agent, and lists that let it in.
BlockProxy == [key \in {"ip-block-list"} |-> {"10.0.0.1"}]
BlockNobody == [key \in {"ip-block-list"} |-> {""}]
AllowClient == [key \in {"ip-allow-list"} |-> {"1.2.3.4"}]
BlockAgent == [key \in {"blocked-agents"} |-> {"firefox"}]

RulesOf(global, namespace, ingress, exempt) ==
    [global |-> global, namespace |-> [n \in Namespaces |-> namespace],
     ingress |-> [i \in Ingresses |-> ingress], exempt |-> exempt]

\* An ingress that blocks everybody; an address that is let in though its agent is
\* blocked; no lists at all, and an ingress that needs no verification; and a
\* namespace that overrides the global list and needs no verification.
BlockingRules == {RulesOf(NoLists, NoLists, BlockProxy, {})}
RequestRules == BlockingRules \cup {RulesOf(BlockAgent, AllowClient, NoLists, {})}
SomeRules == RequestRules \cup
    {RulesOf(NoLists, NoLists, NoLists, {OwnIngress[CHOOSE v \in Visitors : v \notin Scripted]}),
     RulesOf(BlockProxy, BlockNobody, NoLists, Namespaces)}
=============================================================================
