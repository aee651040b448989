---------------------- MODULE SecretReconciler_proofs ----------------------
(***************************************************************************)
(* Proofs about SecretReconciler, for any Secrets, workers and bounds.     *)
(***************************************************************************)
EXTENDS SecretReconciler, ControllerRuntime_proofs, SequenceTheorems

\* The entry of a Secret is the value of the version last acted upon.
StoreShowsApplied ==
  \A k \in Resources :
    data[k] = IF applied[k] = 0 THEN NoCredentials ELSE ValueOf(history[k][applied[k]])

Inv ==
  /\ TypeOK
  /\ RuntimeInv
  /\ StoreShowsApplied

-----------------------------------------------------------------------------
(* The data of a Secret.                                                   *)

\* The three ends of Reconcile match the three cases of ValueOf.
LEMMA ValueOfCases ==
  ASSUME NEW o \in Objects \cup {Absent}
  PROVE  /\ ~Managed(o) => ValueOf(o) = NoCredentials
         /\ Managed(o) /\ Storable(o) =>
              ValueOf(o) = NonEmptyFields(o) /\ ValueOf(o) \in Credentials
         /\ Managed(o) /\ ~Storable(o) => ValueOf(o) = Refused
         /\ ValueOf(o) \in Credentials \cup {NoCredentials} \cup {Refused}
<1>1. ~Managed(o) => ValueOf(o) = NoCredentials
  BY DEF Managed, HasManagedLabel, ValueOf
<1>2. ASSUME Managed(o)
      PROVE  /\ Storable(o) =>
                  ValueOf(o) = NonEmptyFields(o) /\ ValueOf(o) \in Credentials
             /\ ~Storable(o) => ValueOf(o) = Refused
  <2> DEFINE F == {g \in Fields : o.data[g] \in FieldValues}
  <2>1. o.data \in [Fields -> FieldValues \cup {EmptyValue, NoField}]
    BY <1>2, SecretAssumption DEF Managed, Secret
  <2>2. \A g \in Fields : o.data[g] \in FieldValues <=> o.data[g] \notin {EmptyValue, NoField}
    BY <2>1, SecretAssumption
  <2>3. NonEmptyFields(o) = [f \in F |-> o.data[f]]
    BY <2>2 DEF NonEmptyFields
  <2>4. Storable(o) <=> F # {}
    BY <2>3 DEF Storable
  <2>5. F = {} <=> \A f \in Fields : o.data[f] \in {EmptyValue, NoField}
    BY <2>2
  <2>6. ValueOf(o) = IF F = {} THEN Refused ELSE [f \in F |-> o.data[f]]
    BY <1>2, <2>5 DEF ValueOf, Managed, HasManagedLabel
  <2>7. F # {} => [f \in F |-> o.data[f]] \in Credentials
    <3>1. [f \in F |-> o.data[f]] \in [F -> FieldValues] /\ F \in SUBSET Fields
      OBVIOUS
    <3>2. QED
      BY <3>1 DEF Credentials
  <2>8. QED
    BY <2>3, <2>4, <2>6, <2>7
<1>3. QED
  BY <1>1, <1>2

-----------------------------------------------------------------------------
(* The invariant.                                                          *)

LEMMA NextIsRuntimeNext ==
  ASSUME RuntimeInv, [Next]_vars
  PROVE  [RuntimeNext]_runtimeVars
<1>1. ASSUME NEW k \in Resources, ApiChange(k)
      PROVE  RuntimeNext
  <2>1. Successors(Latest(k)) \subseteq Objects \cup {Absent}
    BY DEF Successors
  <2>2. QED
    BY <1>1, <2>1 DEF ApiChange, RuntimeNext
<1>2. ASSUME NEW k \in Resources, Deliver(k)
      PROVE  RuntimeNext
  <2>1. PICK i \in Deliverable(k) : Observe(k, i, EventAccepted(Known(k), history[k][i]))
    BY <1>2 DEF Deliver
  <2>2. \E a \in BOOLEAN : Observe(k, i, a)
    BY <2>1 DEF Observe
  <2>3. QED
    BY <2>2 DEF RuntimeNext
<1>3. ASSUME NEW w \in Workers, GetFails(w) \/ AddOrUpdateFails(w)
      PROVE  RuntimeNext
  <2>1. working[w] # Idle
    BY <1>3 DEF GetFails, AddOrUpdateFails, RuntimeInv, IndicesInRange
  <2>2. QED
    BY <1>3, <2>1 DEF GetFails, AddOrUpdateFails, RuntimeNext
<1>4. ASSUME NEW w \in Workers, RemoveSecret(w) \/ AddOrUpdate(w)
      PROVE  RuntimeNext
  BY <1>4 DEF RemoveSecret, AddOrUpdate, RuntimeNext
<1>5. QED
  BY <1>1, <1>2, <1>3, <1>4
     DEF Next, vars, RuntimeNext, runtimeVars, StartReconcile, GetObject, Restart

\* What a worker that has read an object works on.
LEMMA ObjectRead ==
  ASSUME Inv, NEW w \in Workers, got[w] # 0
  PROVE  /\ working[w] \in Resources
         /\ got[w] \in 1 .. Len(history[working[w]])
         /\ Object(w) \in Objects \cup {Absent}
<1>1. working[w] \in Resources /\ working[w] # Idle
  BY RuntimeAssumption DEF Inv, RuntimeInv, RuntimeTypeOK, IndicesInRange
<1>2. got[w] \in 1 .. Len(history[working[w]])
  BY <1>1 DEF Inv, RuntimeInv, RuntimeTypeOK, IndicesInRange
<1>3. QED
  BY <1>1, <1>2 DEF Inv, RuntimeInv, RuntimeTypeOK, Object

\* The two ways a call ends without an error write the value of the object it read.
LEMMA CallEnds ==
  ASSUME Inv, NEW w \in Workers, RemoveSecret(w) \/ AddOrUpdate(w)
  PROVE  /\ got[w] # 0
         /\ data' = [data EXCEPT ![working[w]] = ValueOf(Object(w))]
         /\ applied' = [applied EXCEPT ![working[w]] = got[w]]
         /\ ValueOf(Object(w)) \in Credentials \cup {NoCredentials}
         /\ UNCHANGED <<history, cached, dirty>>
         /\ working' = [working EXCEPT ![w] = Idle]
         /\ got' = [got EXCEPT ![w] = 0]
<1>1. got[w] # 0
  BY DEF RemoveSecret, AddOrUpdate
<1>2. Object(w) \in Objects \cup {Absent}
  BY <1>1, ObjectRead
<1>3. QED
  BY <1>1, <1>2, ValueOfCases DEF RemoveSecret, AddOrUpdate, Delete, Store, Return

\* The store and the versions acted upon change when a call ends and on a restart.
LEMMA StoreSteps ==
  ASSUME [Next]_vars
  PROVE  \/ UNCHANGED <<data, applied>>
         \/ \E w \in Workers : RemoveSecret(w) \/ AddOrUpdate(w)
         \/ Restart
  BY DEF Next, vars, runtimeVars, ApiChange, Publish, Deliver, Observe, StartReconcile,
         Dequeue, GetObject, Read, GetFails, AddOrUpdateFails, ReturnError

LEMMA InvInit == Init => Inv
<1> SUFFICES ASSUME Init PROVE Inv
  OBVIOUS
<1>1. RuntimeInv
  BY RuntimeInvInit DEF Init
<1>2. QED
  BY <1>1 DEF Init, Inv, TypeOK, RuntimeInv, RuntimeInit, NewSecretStore, StoreShowsApplied

\* A new version leaves the earlier ones where they are.
LEMMA VersionsStay ==
  ASSUME Inv, [Next]_vars, NEW k \in Resources, NEW i \in 1 .. Len(history[k])
  PROVE  i \in 1 .. Len(history'[k]) /\ history'[k][i] = history[k][i]
<1>1. RuntimeTypeOK /\ [RuntimeNext]_runtimeVars
  BY NextIsRuntimeNext DEF Inv, RuntimeInv
<1>2. QED
  BY <1>1, HistoryGrows

LEMMA InvStep == Inv /\ [Next]_vars => Inv'
<1> SUFFICES ASSUME Inv, [Next]_vars PROVE Inv'
  OBVIOUS
<1>1. RuntimeInv'
  BY NextIsRuntimeNext, RuntimeInvStep DEF Inv
<1>2. RuntimeTypeOK' /\ RuntimeTypeOK
  BY <1>1 DEF Inv, RuntimeInv
<1> DEFINE DataOK == data \in [Resources -> Credentials \cup {NoCredentials}]
<1>3. DataOK /\ StoreShowsApplied
  BY DEF Inv, TypeOK
<1>4. ASSUME UNCHANGED <<data, applied>>
      PROVE  DataOK' /\ StoreShowsApplied'
  <2>1. ASSUME NEW k \in Resources, applied[k] # 0
        PROVE  history'[k][applied[k]] = history[k][applied[k]]
    <3>1. applied[k] \in 1 .. Len(history[k])
      BY <2>1 DEF Inv, RuntimeInv, RuntimeTypeOK, IndicesInRange
    <3>2. QED
      BY <3>1, VersionsStay
  <2>2. QED
    BY <1>3, <1>4, <2>1 DEF StoreShowsApplied
<1>5. ASSUME NEW w \in Workers, RemoveSecret(w) \/ AddOrUpdate(w)
      PROVE  DataOK' /\ StoreShowsApplied'
  <2>1. /\ got[w] # 0
        /\ data' = [data EXCEPT ![working[w]] = ValueOf(Object(w))]
        /\ applied' = [applied EXCEPT ![working[w]] = got[w]]
        /\ ValueOf(Object(w)) \in Credentials \cup {NoCredentials}
        /\ UNCHANGED history
    BY <1>5, CallEnds
  <2>2. working[w] \in Resources
    BY <2>1, ObjectRead
  <2>3. applied \in [Resources -> Nat]
    BY <1>2 DEF RuntimeTypeOK
  <2>4. QED
    BY <1>3, <2>1, <2>2, <2>3 DEF StoreShowsApplied, Object
<1>6. ASSUME Restart
      PROVE  DataOK' /\ StoreShowsApplied'
  BY <1>6 DEF Restart, RuntimeRestart, StoreShowsApplied
<1>7. DataOK' /\ StoreShowsApplied'
  BY <1>4, <1>5, <1>6, StoreSteps
<1>8. QED
  BY <1>1, <1>2, <1>7 DEF Inv, TypeOK

LEMMA InvAlways == Spec => []Inv
  BY InvInit, InvStep, PTL DEF Spec

\* Whatever clients, events and workers do, no stored entry is empty or has an empty field.
THEOREM TypeCorrect == Spec => []TypeOK
<1>1. Inv => TypeOK
  BY DEF Inv
<1>2. QED
  BY <1>1, InvAlways, PTL

-----------------------------------------------------------------------------
(* Refinement.                                                             *)

Shown == Credentials \cup {NoCredentials} \cup {Refused}

LEMMA ValueHistoryAppends ==
  ASSUME Inv, NEW k \in Resources, NEW o \in Objects \cup {Absent}, Publish(k, o)
  PROVE  ValueHistory' = [ValueHistory EXCEPT ![k] = Append(@, ValueOf(o))]
<1>0. RuntimeTypeOK
  BY DEF Inv, RuntimeInv
<1>1. /\ history' \in [Resources -> Seq(Objects \cup {Absent})]
      /\ Len(history'[k]) = Len(history[k]) + 1
      /\ history'[k][Len(history[k]) + 1] = o
      /\ \A i \in 1 .. Len(history[k]) : history'[k][i] = history[k][i]
      /\ \A j \in Resources : j # k => history'[j] = history[j]
  BY <1>0, PublishAppends
<1> DEFINE old == ValueHistory[k]
           new == ValueHistory'[k]
<1>2. /\ history[k] \in Seq(Objects \cup {Absent})
      /\ history'[k] \in Seq(Objects \cup {Absent})
  BY <1>0, <1>1 DEF RuntimeTypeOK
<1>3. /\ old = [i \in 1 .. Len(history[k]) |-> ValueOf(history[k][i])]
      /\ new = [i \in 1 .. Len(history'[k]) |-> ValueOf(history'[k][i])]
  BY <1>2 DEF ValueHistory
<1>4. /\ \A i \in 1 .. Len(history[k]) : ValueOf(history[k][i]) \in Shown
      /\ \A i \in 1 .. Len(history'[k]) : ValueOf(history'[k][i]) \in Shown
  BY <1>2, ValueOfCases DEF Shown
<1>5. Len(history[k]) \in Nat /\ Len(history'[k]) \in Nat
  BY <1>2
<1>6. old \in Seq(Shown) /\ Len(old) = Len(history[k])
  BY <1>3, <1>4, <1>5
<1>7. new \in Seq(Shown) /\ Len(new) = Len(history'[k])
  BY <1>3, <1>4, <1>5
<1>8. ValueOf(o) \in Shown
  BY ValueOfCases DEF Shown
<1>9. new = Append(old, ValueOf(o))
  <2>1. /\ Append(old, ValueOf(o)) \in Seq(Shown)
        /\ Len(Append(old, ValueOf(o))) = Len(old) + 1
        /\ \A i \in 1 .. Len(old) : Append(old, ValueOf(o))[i] = old[i]
        /\ Append(old, ValueOf(o))[Len(old) + 1] = ValueOf(o)
    BY <1>6, <1>8, AppendProperties
  <2>2. ASSUME NEW i \in 1 .. Len(new)
        PROVE  new[i] = Append(old, ValueOf(o))[i]
    <3>1. CASE i = Len(old) + 1
      BY <1>1, <1>3, <1>5, <1>6, <1>7, <2>1, <3>1
    <3>2. CASE i # Len(old) + 1
      <4>1. i \in 1 .. Len(old)
        BY <1>1, <1>5, <1>6, <1>7, <3>2
      <4>2. old[i] = ValueOf(history[k][i]) /\ new[i] = ValueOf(history'[k][i])
        BY <1>3, <1>6, <1>7, <4>1
      <4>3. QED
        BY <1>1, <1>6, <2>1, <4>1, <4>2
    <3>3. QED
      BY <3>1, <3>2
  <2>3. Len(new) = Len(Append(old, ValueOf(o)))
    BY <1>1, <1>6, <1>7, <2>1
  <2>4. QED
    BY <1>7, <2>1, <2>2, <2>3, SeqEqual
<1>10. \A j \in Resources : j # k => ValueHistory'[j] = ValueHistory[j]
  BY <1>1 DEF ValueHistory
<1>11. ValueHistory' = [ValueHistory EXCEPT ![k] = new]
  BY <1>10 DEF ValueHistory
<1>12. QED
  BY <1>9, <1>11

LEMMA ViewInit == Init => View!Init
<1> SUFFICES ASSUME Init PROVE View!Init
  OBVIOUS
<1>1. ASSUME NEW k \in Resources
      PROVE  ValueHistory[k] \in {<<v>> : v \in Credentials \cup {NoCredentials} \cup {Refused}}
  <2>1. PICK o \in Objects \cup {Absent} : history[k] = <<o>>
    BY DEF Init, RuntimeInit
  <2>2. ValueHistory[k] = [i \in 1 .. 1 |-> ValueOf(o)]
    BY <2>1 DEF ValueHistory
  <2>3. [i \in 1 .. 1 |-> ValueOf(o)] = <<ValueOf(o)>>
    OBVIOUS
  <2>4. QED
    BY <2>2, <2>3, ValueOfCases
<1>2. ValueHistory = [k \in Resources |-> ValueHistory[k]]
  BY DEF ValueHistory
<1>3. QED
  BY <1>1, <1>2 DEF Init, RuntimeInit, NewSecretStore, View!Init

LEMMA ViewStep == Inv /\ [Next]_vars => [View!Next]_View!vars
<1> SUFFICES ASSUME Inv, [Next]_vars
             PROVE  [View!Next]_View!vars
  OBVIOUS
<1>1. ASSUME NEW k \in Resources, ApiChange(k)
      PROVE  View!Next
  <2>1. PICK o \in Successors(Latest(k)) : Publish(k, o)
    BY <1>1 DEF ApiChange
  <2>2. o \in Objects \cup {Absent}
    BY DEF Successors
  <2>3. ValueHistory' = [ValueHistory EXCEPT ![k] = Append(@, ValueOf(o))]
    BY <2>1, <2>2, ValueHistoryAppends
  <2>4. ValueOf(o) \in Credentials \cup {NoCredentials} \cup {Refused}
    BY <2>2, ValueOfCases
  <2>5. UNCHANGED <<applied, data>>
    BY <1>1, <2>1 DEF ApiChange, Publish
  <2>6. QED
    BY <2>3, <2>4, <2>5 DEF View!Next, View!Publish
<1>2. ASSUME NEW w \in Workers, RemoveSecret(w) \/ AddOrUpdate(w)
      PROVE  View!Next
  <2> DEFINE k == working[w]
             i == got[w]
  <2>1. /\ i # 0
        /\ data' = [data EXCEPT ![k] = ValueOf(Object(w))]
        /\ applied' = [applied EXCEPT ![k] = i]
        /\ ValueOf(Object(w)) \in Credentials \cup {NoCredentials}
        /\ UNCHANGED history
    BY <1>2, CallEnds
  <2>2. k \in Resources /\ i \in 1 .. Len(history[k])
    BY <2>1, ObjectRead
  <2>3. applied[k] <= i
    BY <2>1 DEF Inv, RuntimeInv, ReadsNeverRunBack
  <2>4. ValueHistory[k][i] = ValueOf(Object(w)) /\ i \in DOMAIN ValueHistory[k]
    <3>1. history[k] \in Seq(Objects \cup {Absent})
      BY <2>2 DEF Inv, TypeOK, RuntimeTypeOK
    <3>2. QED
      BY <2>2, <3>1 DEF ValueHistory, Object
  <2>5. ValueOf(Object(w)) \notin {Refused}
    BY <2>1, SecretAssumption
  <2>6. UNCHANGED ValueHistory
    BY <2>1 DEF ValueHistory
  <2>7. View!Apply(k, i)
    BY <2>1, <2>3, <2>4, <2>5, <2>6 DEF View!Apply
  <2>8. QED
    BY <2>2, <2>4, <2>7 DEF View!Next
<1>3. ASSUME Restart
      PROVE  View!Next
  BY <1>3 DEF Restart, RuntimeRestart, ValueHistory, View!Next, View!Forget
<1>4. ASSUME UNCHANGED <<history, applied, data>>
      PROVE  UNCHANGED View!vars
  BY <1>4 DEF View!vars, ValueHistory
<1>5. QED
  BY <1>1, <1>2, <1>3, <1>4
     DEF Next, vars, runtimeVars, Deliver, Observe, StartReconcile, Dequeue, GetObject,
         Read, GetFails, AddOrUpdateFails, ReturnError

\* The plugin may read the store as StoreView promises it: for every Secret nothing, or
\* all the fields of one of its versions, and never an earlier version after a later one,
\* though failed calls are retried and several workers run.
THEOREM StoreImplementsView == Spec => ImplementsView
  BY InvAlways, ViewInit, ViewStep, PTL DEF Spec, ImplementsView, View!Spec

-----------------------------------------------------------------------------
(* The predicate.  A call in flight that read an outdated value has its key *)
(* queued again: this is what makes StaleEntryIsScheduled inductive.        *)

OutdatedReadIsQueued ==
  \A w \in Workers :
    got[w] # 0 /\ ValueOf(Object(w)) # ValueOf(Known(working[w])) => working[w] \in dirty

\* An event the predicate drops is one between two versions that must not be served.
LEMMA DroppedEvent ==
  ASSUME NEW old \in Objects \cup {Absent}, NEW new \in Objects \cup {Absent},
         ~EventAccepted(old, new)
  PROVE  ValueOf(old) = NoCredentials /\ ValueOf(new) = NoCredentials
  BY DEF EventAccepted, HasManagedLabel, ValueOf

ScheduledInv == OutdatedReadIsQueued /\ StaleEntryIsScheduled

LEMMA ScheduledStep ==
  ASSUME CachedReads
  PROVE  Inv /\ ScheduledInv /\ [Next]_vars => ScheduledInv'
<1> SUFFICES ASSUME Inv, ScheduledInv, [Next]_vars PROVE ScheduledInv'
  OBVIOUS
<1> USE RuntimeAssumption
<1>0. /\ RuntimeTypeOK /\ IndicesInRange /\ OneWorkerPerKey /\ ReadsNeverRunBack
      /\ StoreShowsApplied
  BY DEF Inv, RuntimeInv
<1>i. Inv'
  BY InvStep
<1>k. \A k \in Resources :
        /\ Known(k) \in Objects \cup {Absent}
        /\ cached[k] # 0 => cached[k] \in 1 .. Len(history[k])
  BY <1>0 DEF Known, RuntimeTypeOK, IndicesInRange
<1>w. \A w \in Workers : got[w] # 0 =>
        working[w] \in Resources /\ got[w] <= cached[working[w]] /\ cached[working[w]] # 0
  BY <1>0, ObjectRead DEF ReadsNeverRunBack, RuntimeTypeOK
\* What holds of every step that leaves the versions and the calls in flight alone,
\* keeps the queue and the store, and changes no known value.
<1> DEFINE Queued(k) ==
             /\ \A w \in Workers :
                  got[w] # 0 /\ working[w] = k /\ ValueOf(Object(w)) # ValueOf(Known(k))
                    => k \in dirty
             /\ cached[k] # 0 /\ data[k] # ValueOf(Known(k)) =>
                  \/ k \in dirty
                  \/ \E w \in Workers :
                       /\ working[w] = k
                       /\ got[w] = 0 \/ ValueOf(Object(w)) = ValueOf(Known(k))
<1>q. \A k \in Resources : Queued(k)
  BY DEF ScheduledInv, OutdatedReadIsQueued, StaleEntryIsScheduled
<1>1. SUFFICES ASSUME NEW k \in Resources PROVE Queued(k)'
  <2>1. \A w \in Workers : got'[w] # 0 => working'[w] \in Resources
    BY <1>i, RuntimeAssumption DEF Inv, RuntimeInv, RuntimeTypeOK, IndicesInRange
  <2>2. QED
    BY <1>1, <2>1 DEF ScheduledInv, OutdatedReadIsQueued, StaleEntryIsScheduled
<1>2. Queued(k)
  BY <1>q
<1>3. ASSUME NEW j \in Resources, ApiChange(j)
      PROVE  Queued(k)'
  <2>1. UNCHANGED <<cached, dirty, working, got, applied, data>>
    BY <1>3 DEF ApiChange, Publish
  <2>2. Known(k)' = Known(k)
    BY <1>k, <2>1, VersionsStay DEF Known
  <2>3. \A w \in Workers : got[w] # 0 => Object(w)' = Object(w)
    BY <2>1, ObjectRead, VersionsStay DEF Object
  <2>4. QED
    BY <1>2, <2>1, <2>2, <2>3
<1>4. ASSUME NEW j \in Resources, Deliver(j)
      PROVE  Queued(k)'
  <2>1. PICK i \in Deliverable(j) : Observe(j, i, EventAccepted(Known(j), history[j][i]))
    BY <1>4 DEF Deliver
  <2>2. /\ UNCHANGED <<history, working, got, applied, data>>
        /\ cached' = [cached EXCEPT ![j] = i]
        /\ dirty \subseteq dirty'
        /\ EventAccepted(Known(j), history[j][i]) => j \in dirty'
    BY <1>4, <2>1 DEF Deliver, Observe
  <2>3. \A w \in Workers : Object(w)' = Object(w)
    BY <2>2 DEF Object
  <2>4. CASE k # j
    <3>1. cached'[k] = cached[k] /\ Known(k)' = Known(k)
      BY <1>0, <2>2, <2>4 DEF Known, RuntimeTypeOK
    <3>2. QED
      BY <1>2, <2>2, <2>3, <3>1
  <2>5. CASE k = j
    <3>1. /\ i \in 1 .. Len(history[k]) /\ cached'[k] = i
          /\ history[k][i] \in Objects \cup {Absent}
      BY <1>0, <2>2, <2>5 DEF RuntimeTypeOK, Deliverable
    <3>2. Known(k)' = history[k][i]
      BY <2>2, <3>1 DEF Known
    <3>3. CASE EventAccepted(Known(k), history[k][i])
      BY <2>2, <2>5, <3>3
    <3>4. CASE ~EventAccepted(Known(k), history[k][i])
      <4>1. ValueOf(Known(k)) = NoCredentials /\ ValueOf(Known(k)') = NoCredentials
        BY <1>k, <3>1, <3>2, <3>4, DroppedEvent
      <4>2. CASE cached[k] = 0
        <5>1. data[k] = NoCredentials
          BY <1>0, <4>2 DEF ReadsNeverRunBack, RuntimeTypeOK, StoreShowsApplied
        <5>2. \A w \in Workers : ~(got[w] # 0 /\ working[w] = k)
          BY <1>w, <4>2
        <5>3. QED
          BY <2>2, <4>1, <5>1, <5>2
      <4>3. CASE cached[k] # 0
        BY <1>2, <2>2, <2>3, <4>1, <4>3
      <4>4. QED
        BY <4>2, <4>3
    <3>5. QED
      BY <3>3, <3>4
  <2>6. QED
    BY <2>4, <2>5
<1>5. ASSUME NEW w \in Workers, NEW j \in Resources, StartReconcile(w, j)
      PROVE  Queued(k)'
  <2>1. /\ UNCHANGED <<history, cached, got, data>>
        /\ working[w] = Idle /\ \A v \in Workers : working[v] # j
        /\ dirty' = dirty \ {j}
        /\ working' = [working EXCEPT ![w] = j]
    BY <1>5 DEF StartReconcile, Dequeue
  <2>2. Known(k)' = Known(k) /\ got[w] = 0
    BY <1>0, <2>1 DEF Known, IndicesInRange
  <2>3. working'[w] = j /\ \A v \in Workers \ {w} : working'[v] = working[v]
    BY <1>0, <2>1 DEF RuntimeTypeOK
  <2>4. \A v \in Workers \ {w} : Object(v)' = Object(v)
    BY <2>1, <2>3 DEF Object
  <2>5. CASE k = j
    BY <2>1, <2>2, <2>3, <2>5
  <2>6. CASE k # j
    BY <1>2, <2>1, <2>2, <2>3, <2>4, <2>6
  <2>7. QED
    BY <2>5, <2>6
<1>6. ASSUME NEW w \in Workers, GetObject(w)
      PROVE  Queued(k)'
  <2>1. /\ UNCHANGED <<history, cached, dirty, working, data>>
        /\ working[w] # Idle /\ got[w] = 0
        /\ got' = [got EXCEPT ![w] = cached[working[w]]]
    BY <1>6 DEF GetObject, Read
  <2>2. working[w] \in Resources /\ cached[working[w]] \in Nat
    BY <1>0, <2>1 DEF RuntimeTypeOK
  <2>3. Known(k)' = Known(k)
    BY <2>1 DEF Known
  <2>4. got'[w] = cached[working[w]] /\ \A v \in Workers \ {w} : got'[v] = got[v]
    BY <1>0, <2>1, <2>2 DEF RuntimeTypeOK
  <2>5. \A v \in Workers \ {w} : Object(v)' = Object(v)
    BY <2>1, <2>4 DEF Object
  <2>6. working[w] = k /\ got'[w] # 0 => Object(w)' = Known(k)'
    BY <2>1, <2>4 DEF Object, Known
  <2>7. QED
    BY <1>2, <2>1, <2>3, <2>4, <2>5, <2>6
<1>7. ASSUME NEW w \in Workers, GetFails(w) \/ AddOrUpdateFails(w)
      PROVE  Queued(k)'
  <2>1. /\ UNCHANGED <<history, cached, data>>
        /\ working' = [working EXCEPT ![w] = Idle]
        /\ got' = [got EXCEPT ![w] = 0]
        /\ dirty' = dirty \cup {working[w]}
    BY <1>7 DEF GetFails, AddOrUpdateFails, ReturnError
  <2>2. Known(k)' = Known(k)
    BY <2>1 DEF Known
  <2>3. /\ working'[w] = Idle /\ got'[w] = 0
        /\ \A v \in Workers \ {w} :
             working'[v] = working[v] /\ got'[v] = got[v] /\ Object(v)' = Object(v)
    BY <1>0, <2>1 DEF RuntimeTypeOK, Object
  <2>4. QED
    BY <1>2, <2>1, <2>2, <2>3
<1>8. ASSUME NEW w \in Workers, RemoveSecret(w) \/ AddOrUpdate(w)
      PROVE  Queued(k)'
  <2>1. /\ got[w] # 0
        /\ UNCHANGED <<history, cached, dirty>>
        /\ data' = [data EXCEPT ![working[w]] = ValueOf(Object(w))]
        /\ working' = [working EXCEPT ![w] = Idle]
        /\ got' = [got EXCEPT ![w] = 0]
    BY <1>8, CallEnds
  <2>2. Known(k)' = Known(k) /\ working[w] \in Resources
    BY <1>w, <2>1 DEF Known
  <2>3. /\ working'[w] = Idle /\ got'[w] = 0
        /\ \A v \in Workers \ {w} :
             working'[v] = working[v] /\ got'[v] = got[v] /\ Object(v)' = Object(v)
    BY <1>0, <2>1 DEF RuntimeTypeOK, Object
  <2>4. data \in [Resources -> Credentials \cup {NoCredentials}]
    BY DEF Inv, TypeOK
  <2>5. CASE working[w] = k
    <3>1. data'[k] = ValueOf(Object(w))
      BY <2>1, <2>2, <2>4, <2>5
    <3>2. ValueOf(Object(w)) # ValueOf(Known(k)) => k \in dirty
      BY <1>2, <2>1, <2>5
    <3>3. \A v \in Workers : working'[v] # k
      BY <1>0, <2>2, <2>3, <2>5 DEF OneWorkerPerKey
    <3>4. QED
      BY <2>1, <2>2, <3>1, <3>2, <3>3
  <2>6. CASE working[w] # k
    <3>1. data'[k] = data[k]
      BY <2>1, <2>2, <2>4, <2>6
    <3>2. QED
      BY <1>2, <2>1, <2>2, <2>3, <2>6, <3>1
  <2>7. QED
    BY <2>5, <2>6
<1>9. ASSUME Restart
      PROVE  Queued(k)'
  BY <1>9 DEF Restart, RuntimeRestart
<1>10. ASSUME UNCHANGED vars
       PROVE  Queued(k)'
  <2>1. UNCHANGED <<history, cached, dirty, working, got, data>>
    BY <1>10 DEF vars, runtimeVars
  <2>2. Known(k)' = Known(k) /\ \A w \in Workers : Object(w)' = Object(w)
    BY <2>1 DEF Known, Object
  <2>3. QED
    BY <1>2, <2>1, <2>2
<1>11. QED
  BY <1>3, <1>4, <1>5, <1>6, <1>7, <1>8, <1>9, <1>10 DEF Next

\* With cached reads (the default of the manager's client for Secrets) the predicate
\* drops no event the store needs: an entry that differs from the Secret the informer
\* holds is always about to be corrected, for any number of Secrets and workers, and
\* after any label change, deletion, re-creation, relist or restart.
THEOREM NoNeededEventIsDropped == CachedReads => (Spec => []StaleEntryIsScheduled)
<1> SUFFICES ASSUME CachedReads PROVE Spec => []StaleEntryIsScheduled
  OBVIOUS
<1>1. Init => ScheduledInv
  BY DEF Init, RuntimeInit, ScheduledInv, OutdatedReadIsQueued, StaleEntryIsScheduled
<1>2. Inv /\ ScheduledInv /\ [Next]_vars => ScheduledInv'
  BY ScheduledStep
<1>3. ScheduledInv => StaleEntryIsScheduled
  BY DEF ScheduledInv
<1>4. QED
  BY <1>1, <1>2, <1>3, InvAlways, PTL DEF Spec

-----------------------------------------------------------------------------
(* What NoNeededEventIsDropped comes to when everything has been done.     *)

\* No version is ever forgotten.
LEMMA StartedAlways == Spec => []HistoriesStarted
<1>1. Init => HistoriesStarted
  <2> SUFFICES ASSUME Init, NEW k \in Resources
               PROVE  Len(history[k]) > 0
    BY DEF HistoriesStarted
  <2>1. PICK o \in Objects \cup {Absent} : history[k] = <<o>>
    BY DEF Init, RuntimeInit
  <2>2. QED
    BY <2>1
<1>2. Inv /\ HistoriesStarted /\ [Next]_vars => HistoriesStarted'
  <2> SUFFICES ASSUME Inv, HistoriesStarted, [Next]_vars, NEW k \in Resources
               PROVE  Len(history'[k]) > 0
    BY DEF HistoriesStarted
  <2>1. RuntimeTypeOK /\ [RuntimeNext]_runtimeVars
    BY NextIsRuntimeNext DEF Inv, RuntimeInv
  <2>2. Len(history[k]) \in Nat /\ Len(history'[k]) \in Nat /\ Len(history[k]) <= Len(history'[k])
    BY <2>1, HistoryGrows
  <2>3. QED
    BY <2>2 DEF HistoriesStarted
<1>3. QED
  BY <1>1, <1>2, InvAlways, PTL DEF Spec

\* The informer has seen the last version of k, and no work on k is waiting or under way.
AtRest(k) ==
  /\ cached[k] = Len(history[k])
  /\ k \notin dirty
  /\ \A w \in Workers : working[w] # k

RestingEntriesAreCurrent ==
  \A k \in Resources : AtRest(k) => data[k] = ValueOf(Latest(k))

\* The safety half of StoreConverges: a reconciler that has nothing left to do for a Secret
\* has the credentials of its last version, and none if that is deleted or has lost its
\* label, though the predicate drops events and the informer skips versions. For a Secret that
\* addOrUpdate refuses there is always something left to do.
THEOREM RestingStoreIsRight == CachedReads => (Spec => []RestingEntriesAreCurrent)
<1> SUFFICES ASSUME CachedReads PROVE Spec => []RestingEntriesAreCurrent
  OBVIOUS
<1>1. ASSUME HistoriesStarted, StaleEntryIsScheduled
      PROVE  RestingEntriesAreCurrent
  <2> SUFFICES ASSUME NEW k \in Resources, AtRest(k)
               PROVE  data[k] = ValueOf(Latest(k))
    BY DEF RestingEntriesAreCurrent
  <2>1. Len(history[k]) > 0
    BY <1>1 DEF HistoriesStarted
  <2>2. cached[k] # 0 /\ Known(k) = Latest(k)
    BY <2>1 DEF AtRest, Known, Latest
  <2>3. QED
    BY <1>1, <2>2 DEF StaleEntryIsScheduled, AtRest
<1>2. Spec => []StaleEntryIsScheduled
  BY NoNeededEventIsDropped
<1>3. QED
  BY <1>1, <1>2, StartedAlways, PTL
=============================================================================
