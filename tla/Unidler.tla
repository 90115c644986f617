------------------------------ MODULE Unidler ------------------------------
(***************************************************************************)
(* The unidler: the part of the HTTP handler that starts an Unidle, the     *)
(* per-namespace locks it takes, and Unidle itself with hasRunningPod and   *)
(* removeCodeFromIngress.                                                   *)
(*                                                                          *)
(* An actor is an HTTP request together with the goroutine it may spawn, or *)
(* the reconciler, which calls Unidle without going through the handler.    *)
(* A request of this module is one the handler has admitted and verified    *)
(* for a namespace that exists.                                             *)
(***************************************************************************)
EXTENDS Cluster

CONSTANTS
    Requests,
    PollTimeout     \* whether 90 seconds of polling for a pod may run out

ASSUME UnidlerAssumption ==
    /\ Reconciler \notin Requests
    /\ PollTimeout \in BOOLEAN

Unidlers == Requests \cup {Reconciler}

VARIABLES
    locks,      \* h.Locks: the namespaces with an entry
    unidlerPc,  \* where each actor is
    unidlerNs,  \* the namespace it is about
    wake,       \* wake[p][d]: the replicas to give d; 0 once there is nothing to do
    waiting,    \* the deployments whose pods it has still to see running
    stripping,  \* the ingresses it has still to patch
    stripFrom   \* stripFrom[p][i]: the annotations it read of those

stripVars == <<stripping, stripFrom>>
unidlerVars == <<locks, unidlerPc, unidlerNs, wake, waiting, stripping, stripFrom>>

InUnidle == {"list", "wake", "strip", "label", "unlock"}

UnidlerTypeOK ==
    /\ locks \subseteq Namespaces
    /\ unidlerPc \in [Unidlers -> {"off", "load", "store"} \cup InUnidle]
    /\ unidlerNs \in [Unidlers -> Namespaces]
    /\ wake \in [Unidlers -> [Deployments -> 0 .. MaxReplicas]]
    /\ waiting \in [Unidlers -> SUBSET Deployments]
    /\ stripping \in [Unidlers -> SUBSET Ingresses]
    /\ stripFrom \in [Unidlers -> [Ingresses -> Page]]

UnidlerInit ==
    /\ locks = {}
    /\ unidlerPc = [p \in Unidlers |-> "off"]
    /\ unidlerNs = [p \in Unidlers |-> AnyNamespace]
    /\ wake = [p \in Unidlers |-> NoReplicas]
    /\ waiting = [p \in Unidlers |-> {}]
    /\ stripping = [p \in Unidlers |-> {}]
    /\ stripFrom = [p \in Unidlers |-> NoPages]

Goto(p, pc) == unidlerPc' = [unidlerPc EXCEPT ![p] = pc]

\* The actor is done: the handler answered, or Unidle returned.
Finish(p) ==
    /\ Goto(p, "off")
    /\ unidlerNs' = [unidlerNs EXCEPT ![p] = AnyNamespace]

Unidling(p, n) == unidlerPc[p] \in InUnidle /\ unidlerNs[p] = n

-----------------------------------------------------------------------------
(* ingressHandler                                                           *)

\* Mistaken: scaled only if every deployment is.
ForceScaledEverywhere(n) == \A d \in DeploymentsOf(n) : depCache[d].forceScaled

\* checkForceScaled: the answer is no when the deployments cannot be listed.
ForceScaled(n) == \E d \in DeploymentsOf(n) : depCache[d].forceScaled

ReceiveRequest(r, n) ==
    /\ unidlerPc[r] = "off"
    /\ ~ForceScaled(n) \/ Faulty
    /\ Goto(r, "load")
    /\ unidlerNs' = [unidlerNs EXCEPT ![r] = n]
    /\ UNCHANGED <<locks, wake, waiting, stripVars, clusterVars>>

\* h.Locks.Load: a request that finds the entry only serves the page.
LoadLock(r) ==
    /\ unidlerPc[r] = "load"
    /\ IF unidlerNs[r] \in locks
       THEN Finish(r)
       ELSE Goto(r, "store") /\ UNCHANGED unidlerNs
    /\ UNCHANGED <<locks, wake, waiting, stripVars, clusterVars>>

\* h.Locks.LoadOrStore, whose result is dropped, then go h.Unidle.
StoreLock(r) ==
    /\ unidlerPc[r] = "store"
    /\ locks' = locks \cup {unidlerNs[r]}
    /\ Goto(r, "list")
    /\ UNCHANGED <<unidlerNs, wake, waiting, stripVars, clusterVars>>

-----------------------------------------------------------------------------
(* Unidle: the deployments                                                  *)

\* Mistaken: the annotation is taken as it is, or one too many.
NewReplicasUnchecked(d) == depCache[d].target
NewReplicasOver(d) == depCache[d].target + 1

NewReplicas(d) == IF depCache[d].target > 0 THEN depCache[d].target ELSE 1

\* Mistaken: only the deployments this Unidle scales are waited for.
WatchedAsleep(n) == {d \in DeploymentsOf(n) : depCache[d].watch /\ depCache[d].idled}

Watched(n) == {d \in DeploymentsOf(n) : depCache[d].watch}

\* Mistaken: what was force scaled is left to its command.
ToWakeUnforced(n) ==
    {d \in Watched(n) : depCache[d].idled /\ depCache[d].replicas = 0 /\ ~depCache[d].forceScaled}

ToWake(n) == {d \in Watched(n) : depCache[d].idled /\ depCache[d].replicas = 0}

ListWatched(p) ==
    /\ unidlerPc[p] = "list"
    /\ wake' = [wake EXCEPT ![p] =
           [d \in Deployments |-> IF d \in ToWake(unidlerNs[p]) THEN NewReplicas(d) ELSE 0]]
    /\ waiting' = [waiting EXCEPT ![p] = Watched(unidlerNs[p])]
    /\ Goto(p, "wake")
    /\ UNCHANGED <<locks, unidlerNs, stripVars, clusterVars>>

\* Mistaken: the lock is not deleted on the early return.
ListWatchedErrorLocked(p) ==
    /\ Faulty /\ unidlerPc[p] = "list"
    /\ Finish(p)
    /\ UNCHANGED <<locks, wake, waiting, stripVars, clusterVars>>

ListWatchedError(p) ==
    /\ Faulty /\ unidlerPc[p] = "list"
    /\ Goto(p, "unlock")
    /\ UNCHANGED <<locks, unidlerNs, wake, waiting, stripVars, clusterVars>>

AwakeDeployment(p, d) ==
    [replicas |-> wake[p][d], watch |-> dep[d].watch, idled |-> FALSE,
     forceScaled |-> FALSE, target |-> dep[d].target]

Woken(p, d) == wake' = [wake EXCEPT ![p] = [wake[p] EXCEPT ![d] = 0]]

WakeDeployment(p, d) ==
    /\ unidlerPc[p] = "wake" /\ wake[p][d] > 0
    /\ SetDep(d, AwakeDeployment(p, d))
    /\ Woken(p, d)
    /\ UNCHANGED <<locks, unidlerPc, unidlerNs, waiting, stripVars>>
    /\ UNCHANGED <<running, pageVars, nsVars>>

\* A patch that fails is logged and the others are tried.
WakeError(p, d) ==
    /\ Faulty /\ unidlerPc[p] = "wake" /\ wake[p][d] > 0
    /\ Woken(p, d)
    /\ UNCHANGED <<locks, unidlerPc, unidlerNs, waiting, stripVars, clusterVars>>

\* Every patch has been tried: the pods of the listed deployments are polled.
Polling(p) == unidlerPc[p] = "wake" /\ wake[p] = NoReplicas

\* hasRunningPod lists the pods with d's labels in every namespace, and looks
\* at the first one.
HasRunningPod(d) ==
    \E e \in Deployments : MatchLabels[e] = MatchLabels[d] /\ running[e]

PodReady(p, d) ==
    /\ Polling(p) /\ d \in waiting[p]
    /\ HasRunningPod(d)
    /\ waiting' = [waiting EXCEPT ![p] = @ \ {d}]
    /\ UNCHANGED <<locks, unidlerPc, unidlerNs, wake, stripVars, clusterVars>>

\* Mistaken: polling without a timeout.
GiveUpWaitingOnError(p, d) ==
    /\ Faulty
    /\ Polling(p) /\ d \in waiting[p]
    /\ waiting' = [waiting EXCEPT ![p] = @ \ {d}]
    /\ UNCHANGED <<locks, unidlerPc, unidlerNs, wake, stripVars, clusterVars>>

\* The poll times out, or a Get or List in it fails: logged, and on to the next.
GiveUpWaiting(p, d) ==
    /\ PollTimeout \/ Faulty
    /\ Polling(p) /\ d \in waiting[p]
    /\ waiting' = [waiting EXCEPT ![p] = @ \ {d}]
    /\ UNCHANGED <<locks, unidlerPc, unidlerNs, wake, stripVars, clusterVars>>

-----------------------------------------------------------------------------
(* Unidle: the ingresses and the namespace                                  *)

\* Only the ingresses with an annotation are patched, ours or not.
ToStrip(n) == {i \in IngressesOf(n) : pageCache[i] # NoPage}

ListPages(p) ==
    /\ Polling(p) /\ waiting[p] = {}
    /\ stripping' = [stripping EXCEPT ![p] = ToStrip(unidlerNs[p])]
    /\ stripFrom' = [stripFrom EXCEPT ![p] =
           [i \in Ingresses |-> IF i \in ToStrip(unidlerNs[p]) THEN pageCache[i] ELSE NoPage]]
    /\ Goto(p, "strip")
    /\ UNCHANGED <<locks, unidlerNs, wake, waiting, clusterVars>>

\* removeCodeFromIngress returns without an error: Unidle goes on.
ListPagesError(p) ==
    /\ Faulty /\ Polling(p) /\ waiting[p] = {}
    /\ Goto(p, "label")
    /\ UNCHANGED <<locks, unidlerNs, wake, waiting, stripVars, clusterVars>>

RemoveStatusCode(items) == items \ {Ours}

\* Mistaken: a list that has become empty is not deleted.
StrippedNever(read, present) ==
    IF RemoveStatusCode(read) = {} THEN present ELSE RemoveStatusCode(read)

\* What the patch makes of an annotation: it leaves one alone whose list did not
\* change, and deletes one that has become empty or was absent when it was read.
Stripped(read, present) ==
    IF RemoveStatusCode(read) = read /\ read # {} THEN present ELSE RemoveStatusCode(read)

\* The ingress is done with: its annotations are forgotten.
Forget(p, i) ==
    /\ stripping' = [stripping EXCEPT ![p] = @ \ {i}]
    /\ stripFrom' = [stripFrom EXCEPT ![p] = [stripFrom[p] EXCEPT ![i] = NoPage]]

StripPage(p, i) ==
    /\ unidlerPc[p] = "strip" /\ i \in stripping[p]
    /\ SetPage(i, [r \in Routers |-> Stripped(stripFrom[p][i][r], page[i][r])])
    /\ Forget(p, i)
    /\ UNCHANGED <<locks, unidlerPc, unidlerNs, wake, waiting>>
    /\ UNCHANGED <<running, depVars, nsVars>>

StripError(p, i) ==
    /\ Faulty /\ unidlerPc[p] = "strip" /\ i \in stripping[p]
    /\ Forget(p, i)
    /\ UNCHANGED <<locks, unidlerPc, unidlerNs, wake, waiting, clusterVars>>

AllStripped(p) ==
    /\ unidlerPc[p] = "strip" /\ stripping[p] = {}
    /\ Goto(p, "label")
    /\ UNCHANGED <<locks, unidlerNs, wake, waiting, stripVars, clusterVars>>

\* Mistaken: the labels are replaced, not patched.
LabelUnidledReplacing(p) ==
    /\ unidlerPc[p] = "label"
    /\ SetNs(unidlerNs[p], [idled |-> FALSE, commands |-> {}])
    /\ Goto(p, "unlock")
    /\ UNCHANGED <<locks, unidlerNs, wake, waiting, stripVars>>
    /\ UNCHANGED <<running, depVars, pageVars>>

LabelUnidled(p) ==
    /\ unidlerPc[p] = "label"
    /\ SetNs(unidlerNs[p], [idled |-> FALSE, commands |-> ns[unidlerNs[p]].commands])
    /\ Goto(p, "unlock")
    /\ UNCHANGED <<locks, unidlerNs, wake, waiting, stripVars>>
    /\ UNCHANGED <<running, depVars, pageVars>>

LabelError(p) ==
    /\ Faulty /\ unidlerPc[p] = "label"
    /\ Goto(p, "unlock")
    /\ UNCHANGED <<locks, unidlerNs, wake, waiting, stripVars, clusterVars>>

\* The deferred h.Locks.Delete, whoever stored the entry.
Unlock(p) ==
    /\ unidlerPc[p] = "unlock"
    /\ locks' = locks \ {unidlerNs[p]}
    /\ Finish(p)
    /\ UNCHANGED <<wake, waiting, stripVars, clusterVars>>

\* What an actor does once it has started.
UnidlerWork(p) ==
    \/ LoadLock(p) \/ StoreLock(p)
    \/ ListWatched(p) \/ ListWatchedError(p)
    \/ \E d \in Deployments :
           WakeDeployment(p, d) \/ WakeError(p, d) \/ PodReady(p, d) \/ GiveUpWaiting(p, d)
    \/ ListPages(p) \/ ListPagesError(p)
    \/ \E i \in Ingresses : StripPage(p, i) \/ StripError(p, i)
    \/ AllStripped(p) \/ LabelUnidled(p) \/ LabelError(p) \/ Unlock(p)
=============================================================================
