------------------------- MODULE ControllerRuntime -------------------------
(***************************************************************************)
(* The part of Kubernetes and controller-runtime the reconcilers of        *)
(* src/pkg/plugins run under.  None of it is code of this repository: it   *)
(* is modelled from how model-provider-resolver and apikey-injection use   *)
(* it (a controller built by ReconcilerBuilder().For(obj).Complete(r), the *)
(* client.Reader handed to the reconciler).                                *)
(*                                                                         *)
(*   - the API server keeps for every resource a history of versions;      *)
(*   - the informer has seen a prefix of it (cached) and turns what it     *)
(*     sees into events, which put the resource's key on the workqueue;    *)
(*   - the workqueue holds a key at most once (dirty), and hands it to no  *)
(*     second worker while one is on it; a key added meanwhile is handed   *)
(*     out again afterwards;                                               *)
(*   - a Reconcile call first reads the object, then changes the store,    *)
(*     and anything may happen between the two;                            *)
(*   - an error returned by Reconcile puts the key back on the queue (the  *)
(*     delay of the back-off is not modelled: any delay may pass before a  *)
(*     key is dequeued).                                                   *)
(***************************************************************************)
EXTENDS Naturals, Sequences

CONSTANTS
  Resources,     \* namespaced names, <<namespace, name>>
  Objects,       \* the versions a resource that exists may have
  Absent,        \* the "version" of a resource that does not exist
  Workers,       \* the goroutines of a controller (MaxConcurrentReconciles)
  Idle,          \* the key of a worker that has none
  CachedReads,   \* TRUE: Get reads the informer's cache; FALSE: the API server
  Relists,       \* TRUE: a broken watch may be resumed by a new list
  MaxVersions,   \* bounds on the versions of each resource
  MaxRestarts    \* bound on the restarts of the process

ASSUME RuntimeAssumption ==
  /\ Absent \notin Objects
  /\ Idle \notin Resources
  /\ CachedReads \in BOOLEAN
  /\ Relists \in BOOLEAN
  /\ MaxVersions \in [Resources -> Nat \ {0}]
  /\ MaxRestarts \in Nat

VARIABLES
  history,    \* history[k]: the versions of k in the API server, oldest first
  cached,     \* cached[k]: the version the informer holds, 0 before its first list
  dirty,      \* the keys waiting on the workqueue
  working,    \* working[w]: the key worker w reconciles, or Idle
  got,        \* got[w]: the version worker w's Get returned, 0 before it returns
  applied,    \* history variable: the version of k the reconciler last acted upon
              \* since the process started, 0 for none
  restarts    \* how many times the process has restarted

runtimeVars == <<history, cached, dirty, working, got, applied, restarts>>

RuntimeTypeOK ==
  /\ history \in [Resources -> Seq(Objects \cup {Absent})]
  /\ cached \in [Resources -> Nat]
  /\ dirty \subseteq Resources
  /\ working \in [Workers -> Resources \cup {Idle}]
  /\ got \in [Workers -> Nat]
  /\ applied \in [Resources -> Nat]
  /\ restarts \in Nat

RuntimeInit ==
  /\ history \in [Resources -> {<<o>> : o \in Objects \cup {Absent}}]
  /\ cached = [k \in Resources |-> 0]
  /\ dirty = {}
  /\ working = [w \in Workers |-> Idle]
  /\ got = [w \in Workers |-> 0]
  /\ applied = [k \in Resources |-> 0]
  /\ restarts = 0

Latest(k) == history[k][Len(history[k])]

\* The object the informer last knew for k.
Known(k) == IF cached[k] = 0 THEN Absent ELSE history[k][cached[k]]

\* The versions the informer may see next: the first list returns the current
\* one, the watch the next one, and a new list after a broken watch any later one.
Deliverable(k) ==
  {i \in cached[k] + 1 .. Len(history[k]) :
     IF cached[k] = 0 THEN i = Len(history[k]) ELSE Relists \/ i = cached[k] + 1}

\* The resource k gets the version o.
Publish(k, o) ==
  /\ Len(history[k]) < MaxVersions[k]
  /\ history' = [history EXCEPT ![k] = Append(@, o)]
  /\ UNCHANGED <<cached, dirty, working, got, applied, restarts>>

\* The informer replaces its copy of k by version i and, when the event is
\* accepted, puts k on the workqueue.
Observe(k, i, accepted) ==
  /\ cached' = [cached EXCEPT ![k] = i]
  /\ dirty' = IF accepted THEN dirty \cup {k} ELSE dirty
  /\ UNCHANGED <<history, working, got, applied, restarts>>

\* A worker takes a key nobody else works on.
Dequeue(w, k) ==
  /\ working[w] = Idle
  /\ k \in dirty
  /\ \A v \in Workers : working[v] # k
  /\ dirty' = dirty \ {k}
  /\ working' = [working EXCEPT ![w] = k]
  /\ UNCHANGED <<history, cached, got, applied, restarts>>

\* The client.Reader answers the Get of worker w.
Read(w) ==
  /\ working[w] # Idle
  /\ got[w] = 0
  /\ got' = [got EXCEPT ![w] = IF CachedReads THEN cached[working[w]]
                                              ELSE Len(history[working[w]])]
  /\ UNCHANGED <<history, cached, dirty, working, applied, restarts>>

\* The Reconcile call of worker w returns nil: it has acted upon the object it read.
Return(w) ==
  /\ working' = [working EXCEPT ![w] = Idle]
  /\ got' = [got EXCEPT ![w] = 0]
  /\ applied' = [applied EXCEPT ![working[w]] = got[w]]
  /\ UNCHANGED <<history, cached, dirty, restarts>>

\* The Reconcile call of worker w returns an error: the key is queued again.
ReturnError(w) ==
  /\ working' = [working EXCEPT ![w] = Idle]
  /\ got' = [got EXCEPT ![w] = 0]
  /\ dirty' = dirty \cup {working[w]}
  /\ UNCHANGED <<history, cached, applied, restarts>>

\* The process stops and is started again: the informer lists anew, and the
\* queue and the calls in flight are gone.
RuntimeRestart ==
  /\ restarts < MaxRestarts
  /\ restarts' = restarts + 1
  /\ cached' = [k \in Resources |-> 0]
  /\ dirty' = {}
  /\ working' = [w \in Workers |-> Idle]
  /\ got' = [w \in Workers |-> 0]
  /\ applied' = [k \in Resources |-> 0]
  /\ UNCHANGED history
=============================================================================
