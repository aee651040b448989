----------------------------- MODULE StoreView -----------------------------
(***************************************************************************)
(* What a plugin of the gateway may assume of the store its reconciler     *)
(* keeps.  Every resource has a history of versions, each of which stands  *)
(* for a value (Nothing when the version must not be served, a member of   *)
(* Rejects when the reconciler refuses it).  The store shows, for each,    *)
(* nothing at all or the value of one version; it may skip versions and    *)
(* lag behind, but it only ever moves to the same or to a later version.   *)
(* The process may restart, and then it forgets everything.                *)
(*                                                                         *)
(* modelInfoStore (ExternalModelReconciler.tla) and secretStore            *)
(* (SecretReconciler.tla) are shown to implement this specification.       *)
(***************************************************************************)
EXTENDS Naturals, Sequences

CONSTANTS
  Keys,      \* the resources
  Values,    \* what a version may stand for
  Nothing,   \* the value of a version that must not be served
  Rejects    \* the marks of the versions the reconciler refuses to store

VARIABLES
  history,   \* history[k]: the values of the versions of k, oldest first
  applied,   \* applied[k]: the version the store shows, 0 for none
  view       \* view[k]: the value the store shows

vars == <<history, applied, view>>

Init ==
  /\ history \in [Keys -> {<<v>> : v \in Values \cup {Nothing} \cup Rejects}]
  /\ applied = [k \in Keys |-> 0]
  /\ view = [k \in Keys |-> Nothing]

\* The resource k gets a new version.
Publish(k) ==
  /\ \E v \in Values \cup {Nothing} \cup Rejects :
       history' = [history EXCEPT ![k] = Append(@, v)]
  /\ UNCHANGED <<applied, view>>

\* The store takes over version i of k.
Apply(k, i) ==
  /\ i >= applied[k]
  /\ history[k][i] \notin Rejects
  /\ applied' = [applied EXCEPT ![k] = i]
  /\ view' = [view EXCEPT ![k] = history[k][i]]
  /\ UNCHANGED history

\* The process restarts with an empty store.
Forget ==
  /\ applied' = [k \in Keys |-> 0]
  /\ view' = [k \in Keys |-> Nothing]
  /\ UNCHANGED history

Next ==
  \/ \E k \in Keys : Publish(k)
  \/ \E k \in Keys : \E i \in DOMAIN history[k] : Apply(k, i)
  \/ Forget

Spec == Init /\ [][Next]_vars

-----------------------------------------------------------------------------

LatestValue(k) == history[k][Len(history[k])]

\* Once the resources stop changing, the store settles on their last versions;
\* a resource whose last version is refused may keep showing an older one.
Converges ==
  <>[](\A k \in Keys : LatestValue(k) \notin Rejects => view[k] = LatestValue(k))
=============================================================================
