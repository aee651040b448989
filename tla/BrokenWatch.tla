---------------------------- MODULE BrokenWatch ----------------------------
(***************************************************************************)
(* ExternalModelReconciler with reads from the API server and a watch that *)
(* may break: Get may then be ahead of the informer, and read a version    *)
(* the informer never shows.  A history variable remembers those versions. *)
(***************************************************************************)
EXTENDS ExternalModelReconciler

VARIABLE
  skipped  \* skipped[k]: versions of k the informer has left out since the process started

watchVars == <<vars, skipped>>

WatchInit == Init /\ skipped = [k \in Resources |-> {}]

\* A list after a broken watch leaves out what lies between the version the informer had
\* and the one it gets; the first list of a process is none after a broken watch.
LeftOut(k) ==
  IF cached[k] = 0 \/ cached'[k] = 0 THEN {} ELSE cached[k] + 1 .. cached'[k] - 1

WatchNext ==
  /\ Next
  /\ skipped' = [k \in Resources |->
                   IF cached'[k] = 0 THEN {} ELSE skipped[k] \cup LeftOut(k)]

WatchSpec == WatchInit /\ [][WatchNext]_watchVars /\ Fairness

\* Version i of k is none the informer can tell anything of: it has yet to come to it, or
\* has left it out on its way to the deletion of k.
Unseen(k, i) ==
  \/ i > cached[k]
  \/ Known(k) = Absent /\ i \in skipped[k]

\* An event is never lost, whatever Get reads: an entry that differs from the object the
\* informer holds is one of a version the informer has not shown, or the key is on the queue,
\* or a Reconcile call is under way that will read, or has read, an object that is not
\* outdated.
OutdatedEntryIsScheduled ==
  \A k \in Resources :
    cached[k] # 0 /\ models[NameOf(k)] # ValueOf(k, Known(k)) =>
      \/ Unseen(k, applied[k])
      \/ k \in dirty
      \/ \E w \in Workers :
           /\ working[w] = k
           /\ \/ got[w] = 0
              \/ ValueOf(k, history[k][got[w]]) = ValueOf(k, Known(k))
              \/ Unseen(k, got[w])

\* Once the resources stop changing, the store holds what their last versions ask for, with
\* one exception: the entry of a deleted resource may stay if Get has read it in a version
\* the informer has left out.  Nothing else can be wrong in the end: no live model is missing
\* or outdated, and no deleted one stays that the informer has shown.
OnlyLeftOutVersionsLinger ==
  <>[](\A k \in Resources :
         \/ models[NameOf(k)] = ValueOf(k, Latest(k))
         \/ Latest(k) = Absent /\ applied[k] \in skipped[k])
=============================================================================
