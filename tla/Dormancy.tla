------------------------------ MODULE Dormancy ------------------------------
(***************************************************************************)
(* What aergia promises of an environment: its deployments go to sleep and  *)
(* wake up, without forgetting their size, and only while its visitors are  *)
(* sent to aergia, which is what wakes them.                                *)
(***************************************************************************)
EXTENDS Naturals

CONSTANTS Namespaces, Deployments, NamespaceOf, MaxReplicas

VARIABLES
    asleep,     \* the deployments at zero replicas
    size,       \* size[d]: the replicas d has, or will have when it wakes up
    covered     \* the namespaces whose visitors are all sent to aergia

dormancyVars == <<asleep, size, covered>>

Asleep(n) == {d \in asleep : NamespaceOf[d] = n}

Init ==
    /\ asleep \subseteq Deployments
    /\ size \in [Deployments -> 1 .. MaxReplicas]
    /\ covered \subseteq Namespaces
    /\ \A d \in asleep : NamespaceOf[d] \in covered

Sleep(d) ==
    /\ NamespaceOf[d] \in covered
    /\ asleep' = asleep \cup {d}
    /\ UNCHANGED <<size, covered>>

Wake(d) ==
    /\ asleep' = asleep \ {d}
    /\ UNCHANGED <<size, covered>>

Cover(n) ==
    /\ covered' = covered \cup {n}
    /\ UNCHANGED <<asleep, size>>

Uncover(n) ==
    /\ Asleep(n) = {}
    /\ covered' = covered \ {n}
    /\ UNCHANGED <<asleep, size>>

Resize(d, count) ==
    /\ d \notin asleep
    /\ size' = [size EXCEPT ![d] = count]
    /\ UNCHANGED <<asleep, covered>>

Next ==
    \/ \E d \in Deployments : Sleep(d) \/ Wake(d)
    \/ \E n \in Namespaces : Cover(n) \/ Uncover(n)
    \/ \E d \in Deployments, count \in 1 .. MaxReplicas : Resize(d, count)

Spec == Init /\ [][Next]_dormancyVars
=============================================================================
