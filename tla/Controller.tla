----------------------------- MODULE Controller -----------------------------
(***************************************************************************)
(* The namespace controller (IdlingReconciler): one worker takes a namespace*)
(* from the work queue, reads it from the cache, runs the idler or the      *)
(* unidler for the first command label it finds, and removes that label.    *)
(* The handlers return nothing, so the label is removed whatever they did,  *)
(* and a reconcile is never retried.                                        *)
(***************************************************************************)
EXTENDS Idler, Unidler

VARIABLES
    handling,   \* the command the worker is busy with, or "none"
    handlingNs  \* the namespace it is about

controllerVars == <<handling, handlingNs>>

ControllerTypeOK ==
    /\ handling \in Commands \cup {"none"}
    /\ handlingNs \in Namespaces

ControllerInit ==
    /\ handling = "none"
    /\ handlingNs = AnyNamespace

\* Mistaken: the unidle label is not looked for.
FirstForceCommand(commands) ==
    IF "force-scaled" \in commands THEN "force-scaled"
    ELSE IF "force-idled" \in commands THEN "force-idled"
    ELSE "none"

\* Mistaken: the labels are looked for in another order.
FirstCommandReversed(commands) ==
    IF "unidle" \in commands THEN "unidle"
    ELSE IF "force-idled" \in commands THEN "force-idled"
    ELSE IF "force-scaled" \in commands THEN "force-scaled"
    ELSE "none"

\* The order in which Reconcile looks for the labels.
FirstCommand(commands) ==
    IF "force-scaled" \in commands THEN "force-scaled"
    ELSE IF "force-idled" \in commands THEN "force-idled"
    ELSE IF "unidle" \in commands THEN "unidle"
    ELSE "none"

\* The worker takes n from the queue.  The cache may hold an older n.
Take(n) ==
    /\ handling = "none" /\ n \in queued
    /\ queued' = queued \ {n}
    /\ UNCHANGED <<ns, nsCache, unseen, running, depVars, pageVars>>

ReconcileNothing(n) ==
    /\ Take(n)
    /\ FirstCommand(nsCache[n].commands) = "none"
    /\ UNCHANGED <<controllerVars, idlerVars, unidlerVars>>

ReconcileForce(n) ==
    LET c == FirstCommand(nsCache[n].commands)
    IN  /\ Take(n)
        /\ c \in {"force-scaled", "force-idled"}
        /\ handling' = c
        /\ handlingNs' = n
        /\ StartIdler(Reconciler, n, c)
        /\ UNCHANGED <<cronTodo, unidlerVars>>

\* Unidle is called directly: no checkForceScaled, and no lock.
ReconcileUnidle(n) ==
    /\ Take(n)
    /\ FirstCommand(nsCache[n].commands) = "unidle"
    /\ handling' = "unidle"
    /\ handlingNs' = n
    /\ Goto(Reconciler, "list")
    /\ unidlerNs' = [unidlerNs EXCEPT ![Reconciler] = n]
    /\ UNCHANGED <<locks, wake, waiting, stripVars, idlerVars>>

\* Mistaken: the label is removed while the idler is at work.
HandlerStarted == handling # "none" /\ unidlerPc[Reconciler] = "off"

HandlerReturned ==
    /\ handling # "none"
    /\ idlerPc[Reconciler] = "off" /\ unidlerPc[Reconciler] = "off"

ClearCommand ==
    /\ HandlerReturned
    /\ SetNs(handlingNs, [idled    |-> ns[handlingNs].idled,
                          commands |-> ns[handlingNs].commands \ {handling}])
    /\ handling' = "none"
    /\ handlingNs' = AnyNamespace
    /\ UNCHANGED <<running, depVars, pageVars, idlerVars, unidlerVars>>

\* The patch fails: it is logged, and Reconcile returns no error.
ClearError ==
    /\ Faulty /\ HandlerReturned
    /\ handling' = "none"
    /\ handlingNs' = AnyNamespace
    /\ UNCHANGED <<clusterVars, idlerVars, unidlerVars>>

StartReconcile(n) == ReconcileNothing(n) \/ ReconcileForce(n) \/ ReconcileUnidle(n)

ControllerWork ==
    \/ IdlerWork(Reconciler) /\ UNCHANGED <<unidlerVars, controllerVars>>
    \/ UnidlerWork(Reconciler) /\ UNCHANGED <<idlerVars, controllerVars>>
    \/ ClearCommand \/ ClearError
=============================================================================
