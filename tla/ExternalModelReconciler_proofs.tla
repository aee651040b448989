------------------- MODULE ExternalModelReconciler_proofs -------------------
(***************************************************************************)
(* Proofs about ExternalModelReconciler, for any resources, objects,       *)
(* workers and bounds, with cached and with live reads.                    *)
(***************************************************************************)
EXTENDS BrokenWatch, ControllerRuntime_proofs, SequenceTheorems

\* A resource is tracked under its own name only.
TrackedUnderOwnName ==
  \A k \in Resources : modelRefKeyToModel[k] \in {NoModel, NameOf(k)}

\* What the store shows for k when names are unique.
StoreShowsApplied ==
  \A k \in Resources :
    /\ models[NameOf(k)] = IF applied[k] = 0 THEN NoInfo
                                             ELSE ValueOf(k, history[k][applied[k]])
    /\ models[NameOf(k)] # NoInfo => modelRefKeyToModel[k] = NameOf(k)

Inv ==
  /\ TypeOK
  /\ RuntimeInv
  /\ TrackedUnderOwnName

-----------------------------------------------------------------------------
(* The data of a resource.                                                 *)

LEMMA KeyParts ==
  ASSUME NEW k \in Resources
  PROVE  NamespaceOf(k) \in Namespaces /\ NameOf(k) \in Names
  BY ModelAssumption DEF NamespaceOf, NameOf

\* An object that is not withdrawn makes a well-formed entry.
LEMMA InfoOfType ==
  ASSUME NEW k \in Resources, NEW o \in Objects \cup {Absent}, ~Withdrawn(o)
  PROVE  InfoOf(k, o) \in ModelInfo
<1>1. /\ o.provider \in Providers
      /\ o.credentialName \in CredentialNames \cup {Unset}
      /\ o.credentialNamespace \in Namespaces \cup {Unset}
  BY ModelAssumption DEF Withdrawn, ExternalModel
<1>2. NamespaceOf(k) \in Namespaces
  BY KeyParts
<1>3. Unset \notin Namespaces
  BY ModelAssumption
<1>4. CASE o.credentialName = Unset
  BY <1>1, <1>4 DEF InfoOf, ModelInfo
<1>5. CASE o.credentialName # Unset /\ o.credentialNamespace = Unset
  BY <1>1, <1>2, <1>3, <1>5 DEF InfoOf, ModelInfo
<1>6. CASE o.credentialName # Unset /\ o.credentialNamespace # Unset
  BY <1>1, <1>6 DEF InfoOf, ModelInfo
<1>7. QED
  BY <1>4, <1>5, <1>6

\* Reconcile computes the value of the object it read.
LEMMA ValueOfCases ==
  ASSUME NEW k \in Resources, NEW o \in Objects \cup {Absent}
  PROVE  /\ ValueOf(k, o) = IF Withdrawn(o) THEN NoInfo ELSE InfoOf(k, o)
         /\ ValueOf(k, o) \in ModelInfo \cup {NoInfo}
<1>1. ValueOf(k, o) = IF Withdrawn(o) THEN NoInfo ELSE InfoOf(k, o)
  BY DEF ValueOf, Withdrawn, InfoOf
<1>2. QED
  BY <1>1, InfoOfType

-----------------------------------------------------------------------------
(* Types and the runtime's invariant.                                      *)

\* The reconciler uses the runtime as RuntimeNext says.
LEMMA NextIsRuntimeNext ==
  ASSUME RuntimeInv, [Next]_vars
  PROVE  [RuntimeNext]_runtimeVars
<1>1. ASSUME NEW k \in Resources, ApiChange(k)
      PROVE  RuntimeNext
  <2>1. Successors(Latest(k)) \subseteq Objects \cup {Absent}
    BY DEF Successors
  <2>2. QED
    BY <1>1, <2>1 DEF ApiChange, RuntimeNext
<1>2. ASSUME NEW k \in Resources, Deliver(k)
      PROVE  RuntimeNext
  <2>1. PICK i \in Deliverable(k) :
          Observe(k, i, ~(Known(k) = Absent /\ history[k][i] = Absent))
    BY <1>2 DEF Deliver
  <2>2. DEFINE a == ~(Known(k) = Absent /\ history[k][i] = Absent)
  <2>3. a \in BOOLEAN
    OBVIOUS
  <2>4. Observe(k, i, a)
    BY <2>1
  <2>5. QED
    BY <2>3, <2>4 DEF RuntimeNext
<1>3. ASSUME NEW w \in Workers, GetFails(w)
      PROVE  RuntimeNext
  BY <1>3 DEF GetFails, RuntimeNext
<1>4. ASSUME NEW w \in Workers, UpdateStore(w)
      PROVE  RuntimeNext
  BY <1>4 DEF UpdateStore, RuntimeNext
<1>5. QED
  BY <1>1, <1>2, <1>3, <1>4
     DEF Next, vars, RuntimeNext, runtimeVars, StartReconcile, GetObject, Restart

LEMMA InvInit == Init => Inv
<1> SUFFICES ASSUME Init PROVE Inv
  OBVIOUS
<1>1. RuntimeInv
  BY RuntimeInvInit DEF Init
<1>2. TypeOK
  BY <1>1 DEF Init, TypeOK, RuntimeInv, NewModelInfoStore
<1>3. TrackedUnderOwnName
  BY DEF Init, NewModelInfoStore, TrackedUnderOwnName
<1>4. QED
  BY <1>1, <1>2, <1>3 DEF Inv

\* What UpdateStore works on: the key of a resource and one of its versions.
LEMMA UpdateStoreReads ==
  ASSUME Inv, NEW w \in Workers, got[w] # 0
  PROVE  /\ working[w] \in Resources
         /\ got[w] \in 1 .. Len(history[working[w]])
         /\ history[working[w]][got[w]] \in Objects \cup {Absent}
<1>1. working[w] \in Resources
  BY DEF Inv, RuntimeInv, RuntimeTypeOK, IndicesInRange
<1>2. working[w] # Idle
  BY <1>1, RuntimeAssumption
<1>3. got[w] \in 1 .. Len(history[working[w]])
  BY <1>1, <1>2 DEF Inv, RuntimeInv, RuntimeTypeOK, IndicesInRange
<1>4. QED
  BY <1>1, <1>3 DEF Inv, RuntimeInv, RuntimeTypeOK

LEMMA InvStep == Inv /\ [Next]_vars => Inv'
<1> SUFFICES ASSUME Inv, [Next]_vars PROVE Inv'
  OBVIOUS
<1>1. RuntimeInv'
  BY NextIsRuntimeNext, RuntimeInvStep DEF Inv
<1>2. RuntimeTypeOK'
  BY <1>1 DEF RuntimeInv
<1> DEFINE StoreOK == /\ models \in [Names -> ModelInfo \cup {NoInfo}]
                      /\ modelRefKeyToModel \in [Resources -> Names \cup {NoModel}]
                      /\ TrackedUnderOwnName
<1>3. StoreOK
  BY DEF Inv, TypeOK
<1>4. ASSUME UNCHANGED storeVars
      PROVE  StoreOK'
  BY <1>3, <1>4 DEF storeVars, TrackedUnderOwnName
<1>5. ASSUME NEW w \in Workers, UpdateStore(w)
      PROVE  StoreOK'
  <2> DEFINE k == working[w]
             o == history[k][got[w]]
  <2>1. got[w] # 0
    BY <1>5 DEF UpdateStore
  <2>2. k \in Resources /\ o \in Objects \cup {Absent}
    BY <2>1, UpdateStoreReads
  <2>3. NameOf(k) \in Names
    BY <2>2, KeyParts
  <2>4. CASE Withdrawn(o)
    <3>1. DeleteByResource(k)
      BY <1>5, <2>4 DEF UpdateStore
    <3>2. QED
      BY <1>3, <1>4, <2>2, <3>1 DEF DeleteByResource, TrackedUnderOwnName
  <2>5. CASE ~Withdrawn(o)
    <3>1. SetModelInfo(NameOf(k), InfoOf(k, o), k)
      BY <1>5, <2>5 DEF UpdateStore
    <3>2. InfoOf(k, o) \in ModelInfo
      BY <2>2, <2>5, InfoOfType
    <3>3. QED
      BY <1>3, <2>2, <2>3, <3>1, <3>2 DEF SetModelInfo, TrackedUnderOwnName
  <2>6. QED
    BY <2>4, <2>5
<1>6. ASSUME Restart
      PROVE  StoreOK'
  BY <1>6 DEF Restart, TrackedUnderOwnName
<1>7. StoreOK'
  BY <1>4, <1>5, <1>6 DEF Next, vars, ApiChange, Deliver, StartReconcile, GetObject, GetFails
<1>8. QED
  BY <1>1, <1>2, <1>7 DEF Inv, TypeOK

LEMMA InvAlways == Spec => []Inv
  BY InvInit, InvStep, PTL DEF Spec

\* Whatever clients, events and workers do, every entry of the store names a provider
\* and has both parts of its credential reference or none.
THEOREM TypeCorrect == Spec => []TypeOK
<1>1. Inv => TypeOK
  BY DEF Inv
<1>2. QED
  BY <1>1, InvAlways, PTL

-----------------------------------------------------------------------------
(* Ownership.  EntriesAreOwned is inductive beside Inv.                    *)

\* A new version leaves the value of every earlier one as it is.
LEMMA ValuesStay ==
  ASSUME Inv, [Next]_vars, NEW k \in Resources, NEW i \in 1 .. Len(history[k])
  PROVE  /\ i \in 1 .. Len(history'[k])
         /\ ValueOf(k, history'[k][i]) = ValueOf(k, history[k][i])
<1>1. RuntimeTypeOK /\ [RuntimeNext]_runtimeVars
  BY NextIsRuntimeNext DEF Inv, RuntimeInv
<1>2. /\ Len(history[k]) \in Nat /\ Len(history'[k]) \in Nat
      /\ Len(history[k]) <= Len(history'[k])
      /\ history'[k][i] = history[k][i]
  BY <1>1, HistoryGrows
<1>3. QED
  BY <1>2

\* The store and the versions acted upon change in UpdateStore and Restart only.
LEMMA StoreSteps ==
  ASSUME [Next]_vars
  PROVE  \/ UNCHANGED <<models, modelRefKeyToModel, applied>>
         \/ \E w \in Workers : UpdateStore(w)
         \/ Restart
  BY DEF Next, vars, runtimeVars, storeVars, ApiChange, Publish, Deliver, Observe,
         StartReconcile, Dequeue, GetObject, Read, GetFails, ReturnError

Owns(k, n) ==
  /\ modelRefKeyToModel[k] = n
  /\ applied[k] \in 1 .. Len(history[k])
  /\ models[n] = ValueOf(k, history[k][applied[k]])

LEMMA OwnedMeansOwns ==
  ASSUME Inv
  PROVE  EntriesAreOwned <=>
           \A n \in Names : models[n] # NoInfo => \E k \in Resources : Owns(k, n)
<1>1. \A k \in Resources : DOMAIN history[k] = 1 .. Len(history[k])
  BY DEF Inv, RuntimeInv, RuntimeTypeOK
<1>2. QED
  BY <1>1 DEF EntriesAreOwned, Owns

LEMMA OwnedStep == Inv /\ EntriesAreOwned /\ [Next]_vars => EntriesAreOwned'
<1> SUFFICES ASSUME Inv, EntriesAreOwned, [Next]_vars
             PROVE  EntriesAreOwned'
  OBVIOUS
<1> SUFFICES ASSUME NEW n \in Names, models'[n] # NoInfo
             PROVE  \E k \in Resources : Owns(k, n)'
  <2>1. Inv'
    BY InvStep
  <2>2. /\ history' \in [Resources -> Seq(Objects \cup {Absent})]
    BY <2>1 DEF Inv, RuntimeInv, RuntimeTypeOK
  <2>3. \A k \in Resources : DOMAIN history'[k] = 1 .. Len(history'[k])
    BY <2>2
  <2>4. QED
    BY <2>3 DEF EntriesAreOwned, Owns
<1>1. models[n] # NoInfo => \E k \in Resources : Owns(k, n)
  BY OwnedMeansOwns
\* An owner whose own entry, tracking and version stay is an owner afterwards.
<1>2. ASSUME NEW k \in Resources, Owns(k, n), models'[n] = models[n],
             modelRefKeyToModel'[k] = modelRefKeyToModel[k], applied'[k] = applied[k]
      PROVE  Owns(k, n)'
  BY <1>2, ValuesStay DEF Owns
<1>3. CASE UNCHANGED <<models, modelRefKeyToModel, applied>>
  BY <1>1, <1>2, <1>3
<1>4. ASSUME NEW w \in Workers, UpdateStore(w)
      PROVE  \E k \in Resources : Owns(k, n)'
  <2> DEFINE k == working[w]
             o == history[k][got[w]]
  <2>1. got[w] # 0
    BY <1>4 DEF UpdateStore
  <2>2. /\ k \in Resources /\ got[w] \in 1 .. Len(history[k])
        /\ o \in Objects \cup {Absent}
    BY <2>1, UpdateStoreReads
  <2>3. /\ applied' = [applied EXCEPT ![k] = got[w]]
        /\ UNCHANGED history
    BY <1>4 DEF UpdateStore, Return
  <2>4. applied \in [Resources -> Nat] /\ models \in [Names -> ModelInfo \cup {NoInfo}]
        /\ modelRefKeyToModel \in [Resources -> Names \cup {NoModel}]
    BY DEF Inv, TypeOK, RuntimeTypeOK
  <2>5. NameOf(k) \in Names /\ NameOf(k) # NoModel
    BY <2>2, KeyParts, ModelAssumption
  <2>6. modelRefKeyToModel[k] \in {NoModel, NameOf(k)}
    BY <2>2 DEF Inv, TrackedUnderOwnName
  <2>7. CASE Withdrawn(o)
    <3>1. DeleteByResource(k)
      BY <1>4, <2>7 DEF UpdateStore
    <3>2. modelRefKeyToModel[k] # NoModel => n # NameOf(k)
      BY <2>4, <2>6, <3>1 DEF DeleteByResource
    <3>3. models'[n] = models[n]
      BY <2>4, <2>6, <3>1, <3>2 DEF DeleteByResource, storeVars
    <3>4. PICK j \in Resources : Owns(j, n)
      BY <1>1, <3>3
    <3>5. n # NoModel
      BY ModelAssumption
    <3>6. j # k
      BY <2>6, <3>2, <3>4, <3>5 DEF Owns
    <3>7. modelRefKeyToModel'[j] = modelRefKeyToModel[j] /\ applied'[j] = applied[j]
      BY <2>3, <2>4, <3>1, <3>6 DEF DeleteByResource, storeVars
    <3>8. QED
      BY <1>2, <3>3, <3>4, <3>7
  <2>8. CASE ~Withdrawn(o)
    <3>1. SetModelInfo(NameOf(k), InfoOf(k, o), k)
      BY <1>4, <2>8 DEF UpdateStore
    <3>2. InfoOf(k, o) = ValueOf(k, o)
      BY <2>2, <2>8, ValueOfCases
    <3>3. CASE n = NameOf(k)
      BY <2>2, <2>3, <2>4, <2>5, <3>1, <3>2, <3>3 DEF SetModelInfo, Owns
    <3>4. CASE n # NameOf(k)
      <4>1. models'[n] = models[n]
        BY <2>4, <3>1, <3>4 DEF SetModelInfo
      <4>2. PICK j \in Resources : Owns(j, n)
        BY <1>1, <4>1
      <4>3. j # k
        BY <2>6, <3>4, <4>2, ModelAssumption DEF Owns
      <4>4. modelRefKeyToModel'[j] = modelRefKeyToModel[j] /\ applied'[j] = applied[j]
        BY <2>3, <2>4, <3>1, <4>3 DEF SetModelInfo
      <4>5. QED
        BY <1>2, <4>1, <4>2, <4>4
    <3>5. QED
      BY <3>3, <3>4
  <2>9. QED
    BY <2>7, <2>8
<1>5. CASE Restart
  BY <1>5 DEF Restart
<1>6. QED
  BY <1>3, <1>4, <1>5, StoreSteps

\* No entry outlives the resource that owns it, even when resources of different
\* namespaces share a name.
THEOREM OwnershipHolds == Spec => []EntriesAreOwned
<1>1. Init => EntriesAreOwned
  BY DEF Init, NewModelInfoStore, EntriesAreOwned
<1>2. QED
  BY <1>1, OwnedStep, InvAlways, PTL DEF Spec

-----------------------------------------------------------------------------
(* Refinement.  With unique names the store shows, for every resource, the *)
(* value of the version last acted upon; so it implements StoreView.       *)

LEMMA ShowsStep ==
  ASSUME UniqueNames
  PROVE  Inv /\ StoreShowsApplied /\ [Next]_vars => StoreShowsApplied'
<1> SUFFICES ASSUME Inv, StoreShowsApplied, [Next]_vars
             PROVE  StoreShowsApplied'
  OBVIOUS
<1> DEFINE Shows(k) ==
             /\ models[NameOf(k)] = IF applied[k] = 0 THEN NoInfo
                                      ELSE ValueOf(k, history[k][applied[k]])
             /\ models[NameOf(k)] # NoInfo => modelRefKeyToModel[k] = NameOf(k)
<1>1. SUFFICES ASSUME NEW k \in Resources PROVE Shows(k)'
  BY DEF StoreShowsApplied
<1>2. Shows(k)
  BY DEF StoreShowsApplied
<1>3. applied[k] \in Nat /\ applied[k] <= Len(history[k]) /\ Len(history[k]) \in Nat
  BY DEF Inv, RuntimeInv, RuntimeTypeOK, IndicesInRange
<1>4. ASSUME models'[NameOf(k)] = models[NameOf(k)], applied'[k] = applied[k],
             modelRefKeyToModel'[k] = modelRefKeyToModel[k]
      PROVE  Shows(k)'
  <2>1. CASE applied[k] = 0
    BY <1>2, <1>4, <2>1
  <2>2. CASE applied[k] # 0
    <3>1. ValueOf(k, history'[k][applied[k]]) = ValueOf(k, history[k][applied[k]])
      BY <1>3, <2>2, ValuesStay
    <3>2. QED
      BY <1>2, <1>4, <2>2, <3>1
  <2>3. QED
    BY <2>1, <2>2
<1>5. CASE UNCHANGED <<models, modelRefKeyToModel, applied>>
  BY <1>4, <1>5
<1>6. ASSUME NEW w \in Workers, UpdateStore(w)
      PROVE  Shows(k)'
  <2> DEFINE r == working[w]
             o == history[r][got[w]]
  <2>1. got[w] # 0
    BY <1>6 DEF UpdateStore
  <2>2. r \in Resources /\ o \in Objects \cup {Absent}
    BY <2>1, UpdateStoreReads
  <2>3. /\ applied' = [applied EXCEPT ![r] = got[w]]
        /\ UNCHANGED history
    BY <1>6 DEF UpdateStore, Return
  <2>4. /\ applied \in [Resources -> Nat]
        /\ models \in [Names -> ModelInfo \cup {NoInfo}]
        /\ modelRefKeyToModel \in [Resources -> Names \cup {NoModel}]
    BY DEF Inv, TypeOK, RuntimeTypeOK
  <2>5. NameOf(r) \in Names /\ NameOf(r) # NoModel /\ NameOf(k) \in Names
    BY <2>2, KeyParts, ModelAssumption
  <2>6. modelRefKeyToModel[r] \in {NoModel, NameOf(r)}
    BY <2>2 DEF Inv, TrackedUnderOwnName
  <2>7. k # r => NameOf(k) # NameOf(r)
    BY <2>2 DEF UniqueNames
  <2>8. CASE Withdrawn(o)
    <3>1. DeleteByResource(r)
      BY <1>6, <2>8 DEF UpdateStore
    <3>2. ValueOf(r, o) = NoInfo
      BY <2>2, <2>8, ValueOfCases
    <3>3. CASE k = r
      <4>1. models'[NameOf(k)] = NoInfo
        BY <1>2, <2>4, <2>5, <2>6, <3>1, <3>3 DEF DeleteByResource, storeVars
      <4>2. QED
        BY <2>1, <2>2, <2>3, <2>4, <3>2, <3>3, <4>1
    <3>4. CASE k # r
      <4>1. /\ models'[NameOf(k)] = models[NameOf(k)]
            /\ modelRefKeyToModel'[k] = modelRefKeyToModel[k]
        BY <2>4, <2>5, <2>6, <2>7, <3>1, <3>4 DEF DeleteByResource, storeVars
      <4>2. QED
        BY <1>4, <2>3, <2>4, <3>4, <4>1
    <3>5. QED
      BY <3>3, <3>4
  <2>9. CASE ~Withdrawn(o)
    <3>1. SetModelInfo(NameOf(r), InfoOf(r, o), r)
      BY <1>6, <2>9 DEF UpdateStore
    <3>2. InfoOf(r, o) = ValueOf(r, o)
      BY <2>2, <2>9, ValueOfCases
    <3>3. CASE k = r
      BY <2>1, <2>2, <2>3, <2>4, <2>5, <3>1, <3>2, <3>3 DEF SetModelInfo
    <3>4. CASE k # r
      <4>1. /\ models'[NameOf(k)] = models[NameOf(k)]
            /\ modelRefKeyToModel'[k] = modelRefKeyToModel[k]
        BY <2>4, <2>5, <2>7, <3>1, <3>4 DEF SetModelInfo
      <4>2. QED
        BY <1>4, <2>3, <2>4, <3>4, <4>1
    <3>5. QED
      BY <3>3, <3>4
  <2>10. QED
    BY <2>8, <2>9
<1>7. CASE Restart
  BY <1>7, KeyParts DEF Restart, RuntimeRestart
<1>8. QED
  BY <1>5, <1>6, <1>7, StoreSteps

\* The values of the versions grow by the value of the new version.
LEMMA ValueHistoryAppends ==
  ASSUME Inv, NEW k \in Resources, NEW o \in Objects \cup {Absent}, Publish(k, o)
  PROVE  ValueHistory' = [ValueHistory EXCEPT ![k] = Append(@, ValueOf(k, o))]
<1>0. RuntimeTypeOK
  BY DEF Inv, RuntimeInv
<1>1. /\ history' \in [Resources -> Seq(Objects \cup {Absent})]
      /\ Len(history'[k]) = Len(history[k]) + 1
      /\ history'[k][Len(history[k]) + 1] = o
      /\ \A i \in 1 .. Len(history[k]) : history'[k][i] = history[k][i]
      /\ \A j \in Resources : j # k => history'[j] = history[j]
  BY <1>0, PublishAppends
<1> DEFINE V == ModelInfo \cup {NoInfo}
           old == ValueHistory[k]
           new == ValueHistory'[k]
<1>2. /\ history[k] \in Seq(Objects \cup {Absent})
      /\ history'[k] \in Seq(Objects \cup {Absent})
  BY <1>0, <1>1 DEF RuntimeTypeOK
<1>3. /\ old = [i \in 1 .. Len(history[k]) |-> ValueOf(k, history[k][i])]
      /\ new = [i \in 1 .. Len(history'[k]) |-> ValueOf(k, history'[k][i])]
  BY <1>2 DEF ValueHistory
<1>4. /\ \A i \in 1 .. Len(history[k]) : ValueOf(k, history[k][i]) \in V
      /\ \A i \in 1 .. Len(history'[k]) : ValueOf(k, history'[k][i]) \in V
  BY <1>2, ValueOfCases
<1>5. Len(history[k]) \in Nat /\ Len(history'[k]) \in Nat
  BY <1>2
<1>6. old \in Seq(V) /\ Len(old) = Len(history[k])
  BY <1>3, <1>4, <1>5
<1>7. new \in Seq(V) /\ Len(new) = Len(history'[k])
  BY <1>3, <1>4, <1>5
<1>8. ValueOf(k, o) \in V
  BY ValueOfCases
<1>9. new = Append(old, ValueOf(k, o))
  <2>1. /\ Append(old, ValueOf(k, o)) \in Seq(V)
        /\ Len(Append(old, ValueOf(k, o))) = Len(old) + 1
        /\ \A i \in 1 .. Len(old) : Append(old, ValueOf(k, o))[i] = old[i]
        /\ Append(old, ValueOf(k, o))[Len(old) + 1] = ValueOf(k, o)
    BY <1>6, <1>8, AppendProperties
  <2>2. ASSUME NEW i \in 1 .. Len(new)
        PROVE  new[i] = Append(old, ValueOf(k, o))[i]
    <3>1. CASE i = Len(old) + 1
      BY <1>1, <1>3, <1>5, <1>6, <1>7, <2>1, <3>1
    <3>2. CASE i # Len(old) + 1
      <4>1. i \in 1 .. Len(old)
        BY <1>1, <1>5, <1>6, <1>7, <3>2
      <4>2. old[i] = ValueOf(k, history[k][i]) /\ new[i] = ValueOf(k, history'[k][i])
        BY <1>3, <1>6, <1>7, <4>1
      <4>3. QED
        BY <1>1, <1>6, <2>1, <4>1, <4>2
    <3>3. QED
      BY <3>1, <3>2
  <2>3. Len(new) = Len(Append(old, ValueOf(k, o)))
    BY <1>1, <1>6, <1>7, <2>1
  <2>4. QED
    BY <1>7, <2>1, <2>2, <2>3, SeqEqual
<1>10. \A j \in Resources : j # k => ValueHistory'[j] = ValueHistory[j]
  BY <1>1 DEF ValueHistory
<1>11. ValueHistory' = [ValueHistory EXCEPT ![k] = new]
  BY <1>10 DEF ValueHistory
<1>12. QED
  BY <1>9, <1>11

LEMMA ViewInit == Init => View!Init
<1> SUFFICES ASSUME Init PROVE View!Init
  OBVIOUS
<1>1. ASSUME NEW k \in Resources
      PROVE  \E v \in ModelInfo \cup {NoInfo} \cup {} : ValueHistory[k] = <<v>>
  <2>1. PICK o \in Objects \cup {Absent} : history[k] = <<o>>
    BY DEF Init, RuntimeInit
  <2>2. ValueHistory[k] = [i \in 1 .. 1 |-> ValueOf(k, o)]
    BY <2>1 DEF ValueHistory
  <2>3. [i \in 1 .. 1 |-> ValueOf(k, o)] = <<ValueOf(k, o)>>
    OBVIOUS
  <2>4. QED
    BY <2>2, <2>3, ValueOfCases
<1>2. ValueHistory \in [Resources -> {<<v>> : v \in ModelInfo \cup {NoInfo} \cup {}}]
  <2>1. \A k \in Resources :
          ValueHistory[k] \in {<<v>> : v \in ModelInfo \cup {NoInfo} \cup {}}
    BY <1>1
  <2>2. ValueHistory = [k \in Resources |-> ValueHistory[k]]
    BY DEF ValueHistory
  <2>3. QED
    BY <2>1, <2>2
<1>3. Served = [k \in Resources |-> NoInfo]
  BY KeyParts DEF Init, NewModelInfoStore, Served
<1>4. applied = [k \in Resources |-> 0]
  BY DEF Init, RuntimeInit
<1>5. QED
  BY <1>2, <1>3, <1>4 DEF View!Init

LEMMA ViewStep ==
  ASSUME UniqueNames
  PROVE  Inv /\ StoreShowsApplied /\ [Next]_vars => [View!Next]_View!vars
<1> SUFFICES ASSUME Inv, StoreShowsApplied, [Next]_vars
             PROVE  [View!Next]_View!vars
  OBVIOUS
<1>0. Inv' /\ StoreShowsApplied'
  BY InvStep, ShowsStep
<1>1. ASSUME NEW k \in Resources, ApiChange(k)
      PROVE  View!Next
  <2>1. PICK o \in Successors(Latest(k)) : Publish(k, o)
    BY <1>1 DEF ApiChange
  <2>2. o \in Objects \cup {Absent}
    BY DEF Successors
  <2>3. ValueHistory' = [ValueHistory EXCEPT ![k] = Append(@, ValueOf(k, o))]
    BY <2>1, <2>2, ValueHistoryAppends
  <2>4. ValueOf(k, o) \in ModelInfo \cup {NoInfo} \cup {}
    BY <2>2, ValueOfCases
  <2>5. UNCHANGED <<applied, Served>>
    BY <1>1, <2>1 DEF ApiChange, Publish, storeVars, Served
  <2>6. View!Publish(k)
    BY <2>3, <2>4, <2>5 DEF View!Publish
  <2>7. QED
    BY <2>6 DEF View!Next
<1>2. ASSUME NEW w \in Workers, UpdateStore(w)
      PROVE  View!Next
  <2> DEFINE k == working[w]
             i == got[w]
             o == history[k][i]
  <2>1. i # 0
    BY <1>2 DEF UpdateStore
  <2>2. k \in Resources /\ i \in 1 .. Len(history[k]) /\ o \in Objects \cup {Absent}
    BY <2>1, UpdateStoreReads
  <2>3. /\ applied' = [applied EXCEPT ![k] = i]
        /\ UNCHANGED history
    BY <1>2 DEF UpdateStore, Return
  <2>4. applied[k] <= i
    BY <2>1 DEF Inv, RuntimeInv, ReadsNeverRunBack
  <2>5. applied \in [Resources -> Nat]
    BY DEF Inv, TypeOK, RuntimeTypeOK
  <2>6. ValueHistory[k][i] = ValueOf(k, o) /\ i \in DOMAIN ValueHistory[k]
    <3>1. history[k] \in Seq(Objects \cup {Absent})
      BY <2>2 DEF Inv, TypeOK, RuntimeTypeOK
    <3>2. QED
      BY <2>2, <3>1 DEF ValueHistory
  <2>7. ValueOf(k, o) \notin {}
    OBVIOUS
  <2>8. Served' = [Served EXCEPT ![k] = ValueOf(k, o)]
    <3>1. \A j \in Resources : j # k => Served'[j] = Served[j]
      <4>1. TAKE j \in Resources
      <4>2. HAVE j # k
      <4>3. applied'[j] = applied[j]
        BY <2>2, <2>3, <2>5, <4>2
      <4>4. QED
        BY <1>0, <2>3, <4>3 DEF StoreShowsApplied, Served
    <3>2. Served'[k] = ValueOf(k, o)
      BY <1>0, <2>1, <2>2, <2>3, <2>5 DEF StoreShowsApplied, Served
    <3>3. QED
      BY <2>2, <3>1, <3>2 DEF Served
  <2>9. UNCHANGED ValueHistory
    BY <2>3 DEF ValueHistory
  <2>10. View!Apply(k, i)
    BY <2>2, <2>3, <2>4, <2>6, <2>7, <2>8, <2>9 DEF View!Apply
  <2>11. QED
    BY <2>2, <2>6, <2>10 DEF View!Next
<1>3. ASSUME Restart
      PROVE  View!Next
  <2>1. Served' = [k \in Resources |-> NoInfo]
    BY <1>3, KeyParts DEF Restart, Served
  <2>2. /\ applied' = [k \in Resources |-> 0]
        /\ UNCHANGED history
    BY <1>3 DEF Restart, RuntimeRestart
  <2>3. UNCHANGED ValueHistory
    BY <2>2 DEF ValueHistory
  <2>4. QED
    BY <2>1, <2>2, <2>3 DEF View!Next, View!Forget
<1>4. ASSUME UNCHANGED <<history, applied, models>>
      PROVE  UNCHANGED View!vars
  BY <1>4 DEF View!vars, ValueHistory, Served
<1>5. QED
  BY <1>1, <1>2, <1>3, <1>4
     DEF Next, vars, runtimeVars, storeVars, Deliver, Observe, StartReconcile, Dequeue,
         GetObject, Read, GetFails, ReturnError

LEMMA ShownAlways ==
  ASSUME UniqueNames
  PROVE  Spec => []StoreShowsApplied
<1>1. Init => StoreShowsApplied
  BY KeyParts DEF Init, RuntimeInit, NewModelInfoStore, StoreShowsApplied
<1>2. Inv /\ StoreShowsApplied /\ [Next]_vars => StoreShowsApplied'
  BY ShowsStep
<1>3. QED
  BY <1>1, <1>2, InvAlways, PTL DEF Spec

\* With unique model names the plugin may read the store as StoreView promises it: for
\* every ExternalModel nothing, or what one of its versions asks for, and never an
\* earlier version after a later one, for any number of workers and resources.
THEOREM StoreImplementsView == UniqueNames => (Spec => ImplementsView)
<1> SUFFICES ASSUME UniqueNames PROVE Spec => ImplementsView
  OBVIOUS
<1>1. Inv /\ StoreShowsApplied /\ [Next]_vars => [View!Next]_View!vars
  BY ViewStep
<1>2. QED
  BY <1>1, ShownAlways, InvAlways, ViewInit, PTL DEF Spec, ImplementsView, View!Spec

-----------------------------------------------------------------------------
(* Events, in BrokenWatch: reads from the cache or from the API server,    *)
(* and a watch that may break.  A call in flight that has read an outdated *)
(* object has its key queued again: this is what makes                     *)
(* OutdatedEntryIsScheduled inductive.                                     *)

Object(w) == history[working[w]][got[w]]

\* Version i of k is not outdated: it asks for what the object of the informer asks for, or
\* the informer has not shown it.
UpToDate(k, i) == ValueOf(k, history[k][i]) = ValueOf(k, Known(k)) \/ Unseen(k, i)

\* The same after the step, of a version that is read or applied before or after it.
StaysUpToDate(k, i) ==
  LET known == IF cached'[k] = 0 THEN Absent ELSE history'[k][cached'[k]]
  IN  \/ ValueOf(k, history'[k][i]) = ValueOf(k, known)
      \/ i > cached'[k]
      \/ known = Absent /\ i \in skipped'[k]

OutdatedReadIsQueued ==
  \A w \in Workers : got[w] # 0 => working[w] \in dirty \/ UpToDate(working[w], got[w])

\* There is no work on a resource the informer has not listed since the process started.
UnlistedIsIdle ==
  \A k \in Resources : cached[k] = 0 =>
    k \notin dirty /\ applied[k] = 0 /\ \A w \in Workers : working[w] # k

\* What has been left out are versions.
LeftOutAreVersions == \A k \in Resources : 0 \notin skipped[k]

ScheduledInv ==
  UnlistedIsIdle /\ LeftOutAreVersions /\ OutdatedReadIsQueued /\ OutdatedEntryIsScheduled

LEMMA VersionStays ==
  ASSUME Inv, [Next]_vars, NEW k \in Resources, NEW i \in 1 .. Len(history[k])
  PROVE  history'[k][i] = history[k][i]
<1>1. RuntimeTypeOK /\ [RuntimeNext]_runtimeVars
  BY NextIsRuntimeNext DEF Inv, RuntimeInv
<1>2. QED
  BY <1>1, HistoryGrows

LEMMA UnlistedStep == Inv /\ UnlistedIsIdle /\ [Next]_vars => UnlistedIsIdle'
<1> SUFFICES ASSUME Inv, UnlistedIsIdle, [Next]_vars, NEW k \in Resources, cached'[k] = 0
             PROVE  k \notin dirty' /\ applied'[k] = 0 /\ \A w \in Workers : working'[w] # k
  BY DEF UnlistedIsIdle
<1>0. RuntimeTypeOK /\ IndicesInRange /\ [RuntimeNext]_runtimeVars
  BY NextIsRuntimeNext DEF Inv, RuntimeInv
<1>1. CASE RuntimeRestart
  BY <1>1, RuntimeAssumption DEF RuntimeRestart
<1>2. ASSUME NEW j \in Resources, NEW i \in Deliverable(j), NEW a \in BOOLEAN, Observe(j, i, a)
      PROVE  /\ cached[k] = 0 /\ k # j
             /\ UNCHANGED <<applied, working>> /\ dirty' \subseteq dirty \cup {j}
  <2>1. i \in Nat /\ i # 0
    BY <1>0 DEF Deliverable, RuntimeTypeOK
  <2>2. cached' = [cached EXCEPT ![j] = i]
    BY <1>2 DEF Observe
  <2>3. k # j /\ cached[k] = 0
    BY <1>0, <2>1, <2>2 DEF RuntimeTypeOK
  <2>4. QED
    BY <1>2, <2>3 DEF Observe
<1>3. CASE \E j \in Resources : \E i \in Deliverable(j) : \E a \in BOOLEAN : Observe(j, i, a)
  BY <1>2, <1>3 DEF UnlistedIsIdle
<1>4. CASE UNCHANGED cached
  <2>1. k \notin dirty /\ applied[k] = 0 /\ \A w \in Workers : working[w] # k
    BY <1>4 DEF UnlistedIsIdle
  <2>2. ASSUME NEW j \in Resources, NEW w \in Workers, Dequeue(w, j)
        PROVE  k \notin dirty' /\ applied'[k] = 0 /\ \A v \in Workers : working'[v] # k
    BY <1>0, <2>1, <2>2 DEF Dequeue, RuntimeTypeOK
  <2>3. ASSUME NEW w \in Workers, Return(w) \/ (working[w] # Idle /\ ReturnError(w))
        PROVE  k \notin dirty' /\ applied'[k] = 0 /\ \A v \in Workers : working'[v] # k
    <3>1. working[w] # k /\ k # Idle
      BY <2>1, RuntimeAssumption
    <3>2. QED
      BY <1>0, <2>1, <2>3, <3>1 DEF Return, ReturnError, RuntimeTypeOK
  <2>4. CASE UNCHANGED <<dirty, applied, working>>
    BY <2>1, <2>4
  <2>5. QED
    BY <1>0, <1>1, <1>3, <2>2, <2>3, <2>4 DEF RuntimeNext, runtimeVars, Publish, Read
<1>5. QED
  BY <1>0, <1>1, <1>3, <1>4
     DEF RuntimeNext, runtimeVars, Publish, Dequeue, Read, Return, ReturnError

\* What the informer does to the versions it holds: nothing, or it queues the key, or it
\* goes from one deletion to a later one and leaves out what lies between.
LEMMA InformerSteps ==
  ASSUME Inv, [WatchNext]_watchVars, NEW k \in Resources, cached[k] # 0, cached'[k] # 0
  PROVE  \/ /\ cached'[k] = cached[k] /\ Known(k)' = Known(k)
            /\ skipped[k] \subseteq skipped'[k]
         \/ k \in dirty' /\ UNCHANGED <<history, working, got, applied, models>>
         \/ /\ Known(k) = Absent /\ Known(k)' = Absent
            /\ history'[k][cached'[k]] = Absent
            /\ skipped[k] \cup (cached[k] + 1 .. cached'[k] - 1) \subseteq skipped'[k]
            /\ UNCHANGED <<history, working, got, applied, models>>
<1> USE RuntimeAssumption
<1>0. RuntimeTypeOK /\ IndicesInRange /\ [Next]_vars
  BY DEF Inv, RuntimeInv, WatchNext, watchVars
<1>1. cached[k] \in 1 .. Len(history[k])
  BY <1>0 DEF RuntimeTypeOK, IndicesInRange
<1>2. skipped'[k] = skipped[k] \/ skipped'[k] = skipped[k] \cup (cached[k] + 1 .. cached'[k] - 1)
  BY DEF WatchNext, watchVars, LeftOut
<1>3. CASE cached'[k] = cached[k]
  <2>1. history'[k][cached[k]] = history[k][cached[k]]
    BY <1>0, <1>1, VersionStays
  <2>2. QED
    BY <1>2, <1>3, <2>1 DEF Known
<1>4. CASE cached'[k] # cached[k]
  <2>1. PICK j \in Resources : Deliver(j)
    <3>1. cached' # cached
      BY <1>4
    <3>2. ~Restart
      BY DEF Restart, RuntimeRestart
    <3>3. QED
      BY <1>0, <3>1, <3>2
         DEF Next, vars, runtimeVars, ApiChange, Publish, StartReconcile, Dequeue, GetObject,
             Read, GetFails, ReturnError, UpdateStore, Return
  <2>2. PICK i \in Deliverable(j) :
          Observe(j, i, ~(Known(j) = Absent /\ history[j][i] = Absent))
    BY <2>1 DEF Deliver
  <2>3. /\ cached' = [cached EXCEPT ![j] = i]
        /\ UNCHANGED <<history, working, got, applied, models>>
        /\ ~(Known(j) = Absent /\ history[j][i] = Absent) => j \in dirty'
    BY <2>1, <2>2 DEF Deliver, Observe, storeVars
  <2>4. j = k /\ cached'[k] = i
    BY <1>0, <1>4, <2>3 DEF RuntimeTypeOK
  <2>5. CASE Known(k) = Absent /\ history[k][i] = Absent
    <3>1. watchVars' # watchVars
      BY <1>4 DEF watchVars, vars, runtimeVars
    <3>2. skipped'[k] = skipped[k] \cup (cached[k] + 1 .. cached'[k] - 1)
      BY <3>1 DEF WatchNext, LeftOut
    <3>3. Known(k)' = Absent
      BY <2>3, <2>4, <2>5 DEF Known
    <3>4. QED
      BY <2>3, <2>4, <2>5, <3>2, <3>3
  <2>6. QED
    BY <2>3, <2>4, <2>5
<1>5. QED
  BY <1>3, <1>4

\* A version that is not outdated stays so until the informer queues the key.
LEMMA UpToDateStays ==
  ASSUME Inv, [WatchNext]_watchVars, NEW k \in Resources, cached[k] # 0, cached'[k] # 0,
         NEW i \in 1 .. Len(history[k]), UpToDate(k, i)
  PROVE  k \in dirty' \/ StaysUpToDate(k, i)
<1>0. RuntimeTypeOK /\ IndicesInRange /\ [Next]_vars
  BY DEF Inv, RuntimeInv, WatchNext, watchVars
<1>1. history'[k][i] = history[k][i]
  BY <1>0, VersionStays
<1>2. cached[k] \in Nat /\ cached'[k] \in Nat /\ i \in Nat
  BY <1>0, InvStep DEF Inv, RuntimeInv, RuntimeTypeOK
<1>3. CASE cached'[k] = cached[k] /\ Known(k)' = Known(k) /\ skipped[k] \subseteq skipped'[k]
  BY <1>1, <1>3 DEF UpToDate, Unseen, Known, StaysUpToDate
<1>4. CASE /\ Known(k) = Absent /\ Known(k)' = Absent
           /\ history'[k][cached'[k]] = Absent
           /\ skipped[k] \cup (cached[k] + 1 .. cached'[k] - 1) \subseteq skipped'[k]
  <2>1. CASE ValueOf(k, history[k][i]) = ValueOf(k, Known(k))
    BY <1>1, <1>4, <2>1 DEF UpToDate, Known, StaysUpToDate
  <2>2. CASE i \in skipped[k]
    BY <1>4, <2>2 DEF UpToDate, Unseen, Known, StaysUpToDate
  <2>3. CASE i > cached[k]
    <3>1. i > cached'[k] \/ i = cached'[k] \/ i \in cached[k] + 1 .. cached'[k] - 1
      BY <1>2, <2>3
    <3>2. CASE i = cached'[k]
      <4>1. history'[k][i] = Known(k)'
        BY <1>4, <3>2
      <4>2. QED
        BY <4>1 DEF UpToDate, Known, StaysUpToDate
    <3>3. QED
      BY <1>4, <3>1, <3>2 DEF UpToDate, Unseen, Known, StaysUpToDate
  <2>4. QED
    BY <2>1, <2>2, <2>3 DEF UpToDate, Unseen, Known, StaysUpToDate
<1>5. QED
  BY <1>3, <1>4, InformerSteps

LEMMA OutdatedReadStep ==
  Inv /\ UnlistedIsIdle /\ OutdatedReadIsQueued /\ [WatchNext]_watchVars => OutdatedReadIsQueued'
<1> SUFFICES ASSUME Inv, UnlistedIsIdle, OutdatedReadIsQueued, [WatchNext]_watchVars,
                    NEW w \in Workers, got'[w] # 0
             PROVE  working'[w] \in dirty' \/ StaysUpToDate(working'[w], got'[w])
  BY DEF OutdatedReadIsQueued, UpToDate, Unseen, Known, StaysUpToDate
<1> USE RuntimeAssumption
<1>0. RuntimeTypeOK /\ IndicesInRange /\ OneWorkerPerKey /\ [Next]_vars /\ Inv' /\ UnlistedIsIdle'
  BY InvStep, UnlistedStep DEF Inv, RuntimeInv, WatchNext, watchVars
<1>k. PICK k \in Resources : k = working'[w]
  BY <1>0 DEF Inv, RuntimeInv, RuntimeTypeOK, IndicesInRange
<1>1. cached'[k] # 0 /\ cached'[k] \in Nat
  BY <1>0, <1>k DEF UnlistedIsIdle, Inv, RuntimeInv, RuntimeTypeOK
<1>2. CASE got'[w] = got[w] /\ working'[w] = working[w]
  <2>1. got[w] # 0 /\ got[w] \in 1 .. Len(history[k]) /\ cached[k] # 0
    BY <1>0, <1>1, <1>2, <1>k, UpdateStoreReads DEF UnlistedIsIdle
  <2>2. CASE UpToDate(k, got[w])
    BY <1>1, <1>2, <1>k, <2>1, <2>2, UpToDateStays
  <2>3. CASE k \in dirty
    <3>1. \A v \in Workers, j \in Resources : ~(StartReconcile(v, j) /\ j = k)
      BY <1>2, <1>k DEF StartReconcile, Dequeue
    <3>2. ~Restart
      BY DEF Restart, RuntimeRestart
    <3>3. k \in dirty'
      BY <1>0, <2>3, <3>1, <3>2
         DEF Next, vars, runtimeVars, ApiChange, Publish, Deliver, Observe, StartReconcile,
             Dequeue, GetObject, Read, GetFails, ReturnError, UpdateStore, Return
    <3>4. QED
      BY <1>k, <3>3
  <2>4. QED
    BY <1>2, <1>k, <2>1, <2>2, <2>3 DEF OutdatedReadIsQueued
<1>3. CASE ~(got'[w] = got[w] /\ working'[w] = working[w])
  <2>1. GetObject(w)
    <3>1. \A v \in Workers : ~UpdateStore(v) /\ ~GetFails(v)
      BY <1>0, <1>3 DEF UpdateStore, Return, GetFails, ReturnError, RuntimeTypeOK
    <3>2. \A v \in Workers, j \in Resources : ~StartReconcile(v, j)
      BY <1>0, <1>3 DEF StartReconcile, Dequeue, RuntimeTypeOK, IndicesInRange
    <3>3. ~Restart
      BY DEF Restart, RuntimeRestart
    <3>4. PICK v \in Workers : GetObject(v)
      BY <1>0, <1>3, <3>1, <3>2, <3>3
         DEF Next, vars, runtimeVars, ApiChange, Publish, Deliver, Observe
    <3>5. v = w
      BY <1>0, <1>3, <3>4 DEF GetObject, Read, RuntimeTypeOK
    <3>6. QED
      BY <3>4, <3>5
  <2>2. /\ UNCHANGED <<history, cached, working>>
        /\ got'[w] = IF CachedReads THEN cached[k] ELSE Len(history[k])
    BY <1>0, <1>k, <2>1 DEF GetObject, Read, RuntimeTypeOK
  <2>3. cached[k] <= Len(history[k]) /\ cached[k] \in Nat /\ Len(history[k]) \in Nat
    BY <1>0, <1>1 DEF RuntimeTypeOK, IndicesInRange
  <2>4. got'[w] = cached'[k] \/ got'[w] > cached'[k]
    BY <2>2, <2>3
  <2>5. CASE got'[w] = cached'[k]
    BY <1>1, <1>k, <2>5 DEF StaysUpToDate
  <2>6. QED
    BY <1>k, <2>4, <2>5 DEF StaysUpToDate
<1>4. QED
  BY <1>2, <1>3

LEMMA ScheduledStep ==
  ASSUME UniqueNames
  PROVE  Inv /\ StoreShowsApplied /\ ScheduledInv /\ [WatchNext]_watchVars => ScheduledInv'
<1> SUFFICES ASSUME Inv, StoreShowsApplied, ScheduledInv, [WatchNext]_watchVars
             PROVE  ScheduledInv'
  OBVIOUS
<1> USE RuntimeAssumption
<1>0. RuntimeTypeOK /\ IndicesInRange /\ OneWorkerPerKey /\ [Next]_vars
  BY DEF Inv, RuntimeInv, WatchNext, watchVars
<1>v. LeftOutAreVersions'
  BY <1>0 DEF ScheduledInv, LeftOutAreVersions, WatchNext, watchVars, LeftOut, RuntimeTypeOK
<1>i. Inv' /\ UnlistedIsIdle' /\ OutdatedReadIsQueued' /\ StoreShowsApplied'
  BY <1>0, InvStep, UnlistedStep, OutdatedReadStep, ShowsStep DEF ScheduledInv
\* In the end, the version last acted upon is the entry.
<1> DEFINE Cared(k) ==
             \/ k \in dirty
             \/ \E w \in Workers : working[w] = k /\ (got[w] = 0 \/ UpToDate(k, got[w]))
             \/ applied[k] = 0 /\ ValueOf(k, Known(k)) = NoInfo
             \/ applied[k] # 0 /\ UpToDate(k, applied[k])
<1>c. \A k \in Resources : cached[k] # 0 => Cared(k)
  <2> SUFFICES ASSUME NEW k \in Resources, cached[k] # 0 PROVE Cared(k)
    OBVIOUS
  <2>1. models[NameOf(k)] = IF applied[k] = 0 THEN NoInfo ELSE ValueOf(k, history[k][applied[k]])
    BY DEF StoreShowsApplied
  <2>2. ~Unseen(k, 0) \/ applied[k] # 0 \/ ValueOf(k, Known(k)) = NoInfo
    BY <1>0 DEF Unseen, RuntimeTypeOK, ScheduledInv, LeftOutAreVersions
  <2>3. QED
    BY <2>1, <2>2 DEF ScheduledInv, OutdatedEntryIsScheduled, UpToDate
<1>1. SUFFICES ASSUME NEW k \in Resources, cached'[k] # 0 PROVE Cared(k)'
  <2>1. OutdatedEntryIsScheduled'
    BY <1>i, <1>1 DEF OutdatedEntryIsScheduled, StoreShowsApplied, UpToDate, Unseen, Known
  <2>2. QED
    BY <1>i, <1>v, <2>1 DEF ScheduledInv
<1>2. CASE cached[k] = 0
  <2>1. k \notin dirty /\ applied[k] = 0 /\ \A w \in Workers : working[w] # k
    BY <1>2 DEF ScheduledInv, UnlistedIsIdle
  <2>2. PICK j \in Resources : Deliver(j)
    <3>1. cached' # cached /\ ~Restart
      BY <1>1, <1>2 DEF Restart, RuntimeRestart
    <3>2. QED
      BY <1>0, <3>1
         DEF Next, vars, runtimeVars, ApiChange, Publish, StartReconcile, Dequeue, GetObject,
             Read, GetFails, ReturnError, UpdateStore, Return
  <2>3. PICK i \in Deliverable(j) :
          Observe(j, i, ~(Known(j) = Absent /\ history[j][i] = Absent))
    BY <2>2 DEF Deliver
  <2>4. /\ cached' = [cached EXCEPT ![j] = i]
        /\ UNCHANGED <<history, applied>>
        /\ ~(Known(j) = Absent /\ history[j][i] = Absent) => j \in dirty'
    BY <2>2, <2>3 DEF Deliver, Observe
  <2>5. j = k /\ cached'[k] = i
    BY <1>0, <1>1, <1>2, <2>4 DEF RuntimeTypeOK
  <2>6. CASE Known(k) = Absent /\ history[k][i] = Absent
    <3>1. Known(k)' = Absent
      BY <1>1, <2>4, <2>5, <2>6 DEF Known
    <3>2. QED
      BY <2>1, <2>4, <3>1 DEF ValueOf
  <2>7. QED
    BY <2>4, <2>5, <2>6
<1>3. CASE cached[k] # 0
  <2>1. Cared(k)
    BY <1>3, <1>c
  <2>2. CASE k \in dirty
    <3>1. CASE k \in dirty'
      BY <3>1
    <3>2. CASE k \notin dirty'
      <4>1. ~Restart
        BY <1>1 DEF Restart, RuntimeRestart
      <4>2. PICK w \in Workers, j \in Resources : StartReconcile(w, j)
        BY <1>0, <2>2, <3>2, <4>1
           DEF Next, vars, runtimeVars, ApiChange, Publish, Deliver, Observe, GetObject, Read,
               GetFails, ReturnError, UpdateStore, Return
      <4>3. j = k /\ working'[w] = k /\ got'[w] = 0
        BY <1>0, <2>2, <3>2, <4>2 DEF StartReconcile, Dequeue, RuntimeTypeOK, IndicesInRange
      <4>4. QED
        BY <4>3
    <3>3. QED
      BY <3>1, <3>2
  <2>3. ASSUME NEW w \in Workers, working[w] = k, got[w] = 0 \/ UpToDate(k, got[w])
        PROVE  Cared(k)'
    <3>1. CASE working'[w] = k
      <4>1. CASE got'[w] = 0
        BY <3>1, <4>1
      <4>2. CASE got'[w] # 0
        BY <1>i, <3>1, <4>2 DEF OutdatedReadIsQueued
      <4>3. QED
        BY <4>1, <4>2
    <3>2. CASE working'[w] # k
      <4>1. k # Idle /\ ~Restart
        BY <1>1 DEF Restart, RuntimeRestart
      <4>2. UpdateStore(w) \/ GetFails(w)
        <5>1. PICK v \in Workers :
                \/ UpdateStore(v) \/ GetFails(v)
                \/ \E j \in Resources : StartReconcile(v, j)
          BY <1>0, <2>3, <3>2, <4>1
             DEF Next, vars, runtimeVars, ApiChange, Publish, Deliver, Observe, GetObject, Read
        <5>2. ~(\E j \in Resources : StartReconcile(v, j))
          BY <1>0, <2>3, <3>2, <4>1 DEF StartReconcile, Dequeue, RuntimeTypeOK
        <5>3. v = w
          BY <1>0, <2>3, <3>2, <5>1, <5>2
             DEF UpdateStore, Return, GetFails, ReturnError, RuntimeTypeOK
        <5>4. QED
          BY <5>1, <5>2, <5>3
      <4>3. CASE GetFails(w)
        BY <2>3, <4>3 DEF GetFails, ReturnError
      <4>4. CASE UpdateStore(w)
        <5>1. /\ got[w] # 0 /\ applied' = [applied EXCEPT ![k] = got[w]]
          BY <2>3, <4>4 DEF UpdateStore, Return
        <5>2. applied'[k] = got[w]
          BY <1>0, <5>1 DEF RuntimeTypeOK
        <5>3. got[w] \in 1 .. Len(history[k]) /\ UpToDate(k, got[w])
          BY <2>3, <5>1, UpdateStoreReads
        <5>4. k \in dirty' \/ StaysUpToDate(k, got[w])
          BY <1>1, <1>3, <5>3, UpToDateStays
        <5>5. QED
          BY <5>1, <5>2, <5>4 DEF UpToDate, Unseen, Known, StaysUpToDate
      <4>5. QED
        BY <4>2, <4>3, <4>4
    <3>3. QED
      BY <3>1, <3>2
  <2>4. ASSUME \/ applied[k] = 0 /\ ValueOf(k, Known(k)) = NoInfo
               \/ applied[k] # 0 /\ UpToDate(k, applied[k])
        PROVE  Cared(k)'
    <3>1. CASE applied'[k] # applied[k]
      <4>1. ~Restart
        BY <1>1 DEF Restart, RuntimeRestart
      <4>2. PICK w \in Workers : UpdateStore(w)
        BY <1>0, <3>1, <4>1, StoreSteps
      <4>3. working[w] = k /\ got[w] # 0
        BY <1>0, <3>1, <4>2, UpdateStoreReads DEF UpdateStore, Return, RuntimeTypeOK
      <4>4. CASE UpToDate(k, got[w])
        BY <2>3, <4>3, <4>4
      <4>5. CASE k \in dirty
        BY <4>2, <4>5 DEF UpdateStore, Return
      <4>6. QED
        BY <4>3, <4>4, <4>5 DEF ScheduledInv, OutdatedReadIsQueued
    <3>2. CASE applied'[k] = applied[k]
      <4>1. CASE applied[k] = 0 /\ ValueOf(k, Known(k)) = NoInfo
        <5>1. \/ k \in dirty'
              \/ Known(k)' = Known(k)
              \/ Known(k)' = Absent
          BY <1>1, <1>3, InformerSteps
        <5>2. ValueOf(k, Absent) = NoInfo
          BY DEF ValueOf
        <5>3. QED
          BY <3>2, <4>1, <5>1, <5>2
      <4>2. CASE applied[k] # 0 /\ UpToDate(k, applied[k])
        <5>1. applied[k] \in 1 .. Len(history[k])
          BY <1>0, <4>2 DEF RuntimeTypeOK, IndicesInRange
        <5>2. k \in dirty' \/ StaysUpToDate(k, applied[k])
          BY <1>1, <1>3, <4>2, <5>1, UpToDateStays
        <5>3. QED
          BY <3>2, <4>2, <5>2 DEF UpToDate, Unseen, Known, StaysUpToDate
      <4>3. QED
        BY <2>4, <4>1, <4>2
    <3>3. QED
      BY <3>1, <3>2
  <2>5. QED
    BY <2>1, <2>2, <2>3, <2>4
<1>4. QED
  BY <1>2, <1>3

LEMMA WatchImplementsSpec == WatchSpec => Spec
<1>1. WatchInit => Init
  BY DEF WatchInit
<1>2. [WatchNext]_watchVars => [Next]_vars
  BY DEF WatchNext, watchVars
<1>3. QED
  BY <1>1, <1>2, PTL DEF WatchSpec, Spec

LEMMA ScheduledAlways ==
  ASSUME UniqueNames
  PROVE  WatchSpec => []ScheduledInv
<1>1. WatchInit => ScheduledInv
  <2> SUFFICES ASSUME WatchInit PROVE ScheduledInv
    OBVIOUS
  <2>1. /\ cached = [k \in Resources |-> 0] /\ applied = [k \in Resources |-> 0]
        /\ dirty = {} /\ working = [w \in Workers |-> Idle] /\ got = [w \in Workers |-> 0]
    BY DEF WatchInit, Init, RuntimeInit
  <2>2. LeftOutAreVersions
    BY DEF WatchInit, LeftOutAreVersions
  <2>3. QED
    BY <2>1, <2>2, RuntimeAssumption
       DEF ScheduledInv, UnlistedIsIdle, OutdatedReadIsQueued, OutdatedEntryIsScheduled
<1>2. Inv /\ StoreShowsApplied /\ ScheduledInv /\ [WatchNext]_watchVars => ScheduledInv'
  BY ScheduledStep
<1>3. QED
  BY <1>1, <1>2, WatchImplementsSpec, InvAlways, ShownAlways, PTL DEF WatchSpec

\* With unique names an event is never lost, be the reads of the reconciler cached or live:
\* an entry that differs from the ExternalModel the informer holds is about to be corrected,
\* or was read ahead of the informer, for any number of resources and workers, and after any
\* failing Get, broken watch or restart.
THEOREM NoEventIsLost == UniqueNames => (WatchSpec => []OutdatedEntryIsScheduled)
<1> SUFFICES ASSUME UniqueNames PROVE WatchSpec => []OutdatedEntryIsScheduled
  OBVIOUS
<1>1. ScheduledInv => OutdatedEntryIsScheduled
  BY DEF ScheduledInv
<1>2. QED
  BY <1>1, ScheduledAlways, PTL

-----------------------------------------------------------------------------
(* What NoEventIsLost comes to when everything has been said and done.     *)

\* No version is ever forgotten.
LEMMA StartedAlways == Spec => []HistoriesStarted
<1>1. Init => HistoriesStarted
  <2> SUFFICES ASSUME Init, NEW k \in Resources
               PROVE  Len(history[k]) > 0
    BY DEF HistoriesStarted
  <2>1. PICK o \in Objects \cup {Absent} : history[k] = <<o>>
    BY DEF Init, RuntimeInit
  <2>2. QED
    BY <2>1
<1>2. Inv /\ HistoriesStarted /\ [Next]_vars => HistoriesStarted'
  <2> SUFFICES ASSUME Inv, HistoriesStarted, [Next]_vars, NEW k \in Resources
               PROVE  Len(history'[k]) > 0
    BY DEF HistoriesStarted
  <2>1. RuntimeTypeOK /\ [RuntimeNext]_runtimeVars
    BY NextIsRuntimeNext DEF Inv, RuntimeInv
  <2>2. Len(history[k]) \in Nat /\ Len(history'[k]) \in Nat /\ Len(history[k]) <= Len(history'[k])
    BY <2>1, HistoryGrows
  <2>3. QED
    BY <2>2 DEF HistoriesStarted
<1>3. QED
  BY <1>1, <1>2, InvAlways, PTL DEF Spec

\* The informer has seen the last version of k, and no work on k is waiting or under way.
AtRest(k) ==
  /\ cached[k] = Len(history[k])
  /\ k \notin dirty
  /\ \A w \in Workers : working[w] # k

RestingEntriesAreCurrent ==
  \A k \in Resources : AtRest(k) =>
    \/ models[NameOf(k)] = ValueOf(k, Latest(k))
    \/ Latest(k) = Absent /\ applied[k] \in skipped[k]

\* The safety half of OnlyLeftOutVersionsLinger: a reconciler that has nothing left to do has
\* the store right, but for the entry of a deleted model that Get has read in a version the
\* informer has left out. No failed Get, relist, restart or overtaken read leaves another
\* outdated entry behind.
THEOREM RestingStoreIsRight ==
  UniqueNames => (WatchSpec => []RestingEntriesAreCurrent)
<1> SUFFICES ASSUME UniqueNames PROVE WatchSpec => []RestingEntriesAreCurrent
  OBVIOUS
<1>1. ASSUME Inv, HistoriesStarted, OutdatedEntryIsScheduled
      PROVE  RestingEntriesAreCurrent
  <2> SUFFICES ASSUME NEW k \in Resources, AtRest(k)
               PROVE  \/ models[NameOf(k)] = ValueOf(k, Latest(k))
                      \/ Latest(k) = Absent /\ applied[k] \in skipped[k]
    BY DEF RestingEntriesAreCurrent
  <2>1. Len(history[k]) > 0
    BY <1>1 DEF HistoriesStarted
  <2>2. cached[k] # 0 /\ Known(k) = Latest(k)
    BY <2>1 DEF AtRest, Known, Latest
  <2>3. ~(applied[k] > cached[k])
    BY <1>1 DEF AtRest, Inv, RuntimeInv, RuntimeTypeOK, IndicesInRange
  <2>4. QED
    BY <1>1, <2>2, <2>3 DEF OutdatedEntryIsScheduled, Unseen, AtRest
<1>2. QED
  BY <1>1, NoEventIsLost, WatchImplementsSpec, InvAlways, StartedAlways, PTL
=============================================================================
