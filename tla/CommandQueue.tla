---------------------------- MODULE CommandQueue ----------------------------
(***************************************************************************)
(* What the namespace controller promises of command labels.  A command     *)
(* stays posted until the worker has been busy with it; the worker takes    *)
(* the posted commands of a namespace by rank, one at a time; and a command *)
(* it abandons, because the process died or the label could not be removed, *)
(* is still posted.  Whether the command had its effect is not its business.*)
(***************************************************************************)
EXTENDS Naturals

CONSTANT Namespaces

Ranks == [c \in {"force-scaled", "force-idled", "unidle"} |->
             IF c = "force-scaled" THEN 1 ELSE IF c = "force-idled" THEN 2 ELSE 3]

VARIABLES
    posted,     \* posted[n]: the commands that wait on namespace n
    busy        \* {} or the one <<namespace, command>> at work

queueVars == <<posted, busy>>

Init ==
    /\ posted = [n \in Namespaces |-> {}]
    /\ busy = {}

Post(n, c) ==
    /\ c \notin posted[n]
    /\ posted' = [posted EXCEPT ![n] = @ \cup {c}]
    /\ UNCHANGED busy

Begin(n, c) ==
    /\ busy = {}
    /\ c \in posted[n]
    /\ \A other \in posted[n] : Ranks[c] <= Ranks[other]
    /\ busy' = {<<n, c>>}
    /\ UNCHANGED posted

Done(n, c) ==
    /\ <<n, c>> \in busy
    /\ posted' = [posted EXCEPT ![n] = @ \ {c}]
    /\ busy' = {}

Abandon ==
    /\ busy # {}
    /\ busy' = {}
    /\ UNCHANGED posted

Next ==
    \/ \E n \in Namespaces, c \in DOMAIN Ranks : Post(n, c) \/ Begin(n, c) \/ Done(n, c)
    \/ Abandon

Spec == Init /\ [][Next]_queueVars
=============================================================================
