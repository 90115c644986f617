------------------------------- MODULE Access -------------------------------
(***************************************************************************)
(* Who may unidle an environment: checkAccess over the block and allow      *)
(* lists, which are annotations of the ingress and of the namespace, and    *)
(* the global files.                                                        *)
(*                                                                          *)
(* The lists of one place are a function from the keys that are there.  An  *)
(* IP list is the set of its items; a list of agents is the set of the user *)
(* agents that one of its patterns matches.  A client is what the headers   *)
(* say of it: its True-Client-IP and its User-Agent, "" when they are       *)
(* missing, and the items of X-Forwarded-For, {""} when it is missing.      *)
(***************************************************************************)
Keys == {"ip-block-list", "ip-allow-list", "blocked-agents", "allowed-agents"}

NoLists == [key \in {} |-> {}]

\* The first place that has the key counts, and the others do not add to it.
Effective(key, ingress, namespace, global) ==
    IF key \in DOMAIN ingress THEN ingress[key]
    ELSE IF key \in DOMAIN namespace THEN namespace[key]
    ELSE IF key \in DOMAIN global THEN global[key]
    ELSE {}

\* True-Client-IP is looked at alone when it is there.
ClientIPs(client) ==
    IF client.trueClientIP # "" THEN {client.trueClientIP} ELSE client.forwarded

CheckIPList(list, client) == ClientIPs(client) \cap list # {}

CheckAgents(list, client) == client.agent # "" /\ client.agent \in list

\* A blocked IP is denied, then an allowed one admitted whatever its agent.  The
\* allowed agents make no difference, and no allow list denies anyone.
CheckAccess(ingress, namespace, global, client) ==
    LET list(key) == Effective(key, ingress, namespace, global)
    IN  /\ ~CheckIPList(list("ip-block-list"), client)
        /\ \/ CheckIPList(list("ip-allow-list"), client)
           \/ ~CheckAgents(list("blocked-agents"), client)
=============================================================================
