-------------------------- MODULE SecretReconciler --------------------------
(***************************************************************************)
(* src/pkg/plugins/apikey-injection: the secretReconciler and the          *)
(* secretStore it keeps.  The controller is built with                     *)
(* managedLabelPredicate, so only some events reach the workqueue, and     *)
(* addOrUpdate refuses a Secret without a non-empty field: Reconcile then  *)
(* returns the error, and the key is retried.                              *)
(*                                                                         *)
(* The steps of a Reconcile call are those of ExternalModelReconciler.     *)
(***************************************************************************)
EXTENDS ControllerRuntime

CONSTANTS
  Fields,         \* names of the data fields of a Secret
  FieldValues,    \* non-empty values of a field
  EmptyValue,     \* the value of a field of length 0
  NoField,        \* a field the Secret does not have
  NoCredentials,  \* no entry in the store
  Refused         \* mark of a version addOrUpdate refuses (properties only)

Secret ==
  [deleting : BOOLEAN,
   managed  : BOOLEAN,    \* the label bbr-managed is "true"
   data     : [Fields -> FieldValues \cup {EmptyValue, NoField}]]

\* What the plugin relies on: an entry has at least one field, and no empty one.
Credentials == UNION {[F -> FieldValues] : F \in (SUBSET Fields) \ {{}}}

ASSUME SecretAssumption ==
  /\ Objects \subseteq Secret
  /\ EmptyValue \notin FieldValues
  /\ NoField \notin FieldValues
  /\ NoCredentials \notin Credentials
  /\ Refused \notin Credentials \cup {NoCredentials}

VARIABLE data     \* secretStore.data

vars == <<runtimeVars, data>>

-----------------------------------------------------------------------------
(* The predicate.                                                          *)

HasManagedLabel(o) == o # Absent /\ o.managed

MutEventAcceptedByNew(old, new) ==
  IF new = Absent THEN HasManagedLabel(old) ELSE HasManagedLabel(new)

\* CreateFunc looks at the new object, DeleteFunc at the old one, UpdateFunc at both;
\* where there is no object there is no label.
EventAccepted(old, new) == HasManagedLabel(old) \/ HasManagedLabel(new)

-----------------------------------------------------------------------------
(* The store.                                                              *)

NewSecretStore == data = [k \in Resources |-> NoCredentials]

MutNonEmptyFieldsKeepsAll(o) ==
  [f \in {g \in Fields : o.data[g] # NoField} |-> o.data[f]]

\* The fields addOrUpdate copies.
NonEmptyFields(o) ==
  [f \in {g \in Fields : o.data[g] \notin {EmptyValue, NoField}} |-> o.data[f]]

\* addOrUpdate refuses a Secret without data and one whose fields are all empty.
Storable(o) == DOMAIN NonEmptyFields(o) # {}

MutStoreMergesFields(k, o) ==
  LET old == IF data[k] = NoCredentials THEN <<>> ELSE data[k]
      new == NonEmptyFields(o)
  IN  data' = [data EXCEPT ![k] =
                 [f \in DOMAIN old \cup DOMAIN new |->
                    IF f \in DOMAIN new THEN new[f] ELSE old[f]]]

\* The successful end of addOrUpdate: the whole entry is replaced.
Store(k, o) == data' = [data EXCEPT ![k] = NonEmptyFields(o)]

Delete(k) == data' = [data EXCEPT ![k] = NoCredentials]

-----------------------------------------------------------------------------

Init == RuntimeInit /\ NewSecretStore

\* The versions that may follow version o: a Secret is not created with a deletion
\* timestamp, and never loses the one it has.
Successors(o) ==
  ({Absent} \ {o}) \cup
  {p \in Objects \ {o} : IF o = Absent THEN ~p.deleting ELSE o.deleting => p.deleting}

\* A client creates, updates, relabels or deletes the Secret k.
ApiChange(k) ==
  /\ \E o \in Successors(Latest(k)) : Publish(k, o)
  /\ UNCHANGED data

\* The informer sees a version of k; the predicate decides whether k is queued.
Deliver(k) ==
  /\ \E i \in Deliverable(k) : Observe(k, i, EventAccepted(Known(k), history[k][i]))
  /\ UNCHANGED data

StartReconcile(w, k) ==
  /\ Dequeue(w, k)
  /\ UNCHANGED data

GetObject(w) ==
  /\ Read(w)
  /\ UNCHANGED data

\* Get fails with an error other than NotFound, and Reconcile returns it.
GetFails(w) ==
  /\ working[w] # Idle /\ got[w] = 0
  /\ ReturnError(w)
  /\ UNCHANGED data

\* The object worker w has read.
Object(w) == history[working[w]][got[w]]

MutManagedIgnoresLabel(o) == o # Absent /\ ~o.deleting

\* Reconcile removes the entry of every other object.
Managed(o) == o # Absent /\ ~o.deleting /\ HasManagedLabel(o)

RemoveSecret(w) ==
  /\ got[w] # 0
  /\ ~Managed(Object(w))
  /\ Delete(working[w])
  /\ Return(w)

AddOrUpdate(w) ==
  /\ got[w] # 0
  /\ Managed(Object(w))
  /\ Storable(Object(w))
  /\ Store(working[w], Object(w))
  /\ Return(w)

MutAddOrUpdateFailsInPlace(w) ==
  /\ got[w] # 0
  /\ Managed(Object(w))
  /\ ~Storable(Object(w))
  /\ got' = [got EXCEPT ![w] = 0]
  /\ UNCHANGED <<history, cached, dirty, working, applied, restarts, data>>

\* addOrUpdate returns an error before it reaches the map, which stays as it is.
AddOrUpdateFails(w) ==
  /\ got[w] # 0
  /\ Managed(Object(w))
  /\ ~Storable(Object(w))
  /\ ReturnError(w)
  /\ UNCHANGED data

Restart ==
  /\ RuntimeRestart
  /\ data' = [k \in Resources |-> NoCredentials]

Next ==
  \/ \E k \in Resources : ApiChange(k) \/ Deliver(k)
  \/ \E w \in Workers, k \in Resources : StartReconcile(w, k)
  \/ \E w \in Workers :
       GetObject(w) \/ GetFails(w) \/ RemoveSecret(w) \/ AddOrUpdate(w) \/ AddOrUpdateFails(w)
  \/ Restart

(* As for ExternalModelReconciler: events arrive, the queue is fair to every *)
(* key even while others are retried for ever, calls end, and the errors of  *)
(* Get are transient.  The errors of addOrUpdate are not: they last as long  *)
(* as the Secret stays empty.                                                *)
Fairness ==
  /\ \A k \in Resources : WF_vars(Deliver(k))
  /\ \A k \in Resources : SF_vars(\E w \in Workers : StartReconcile(w, k))
  /\ \A k \in Resources :
       SF_vars(\E w \in Workers : working[w] = k /\ GetObject(w))
  /\ \A w \in Workers :
       WF_vars(RemoveSecret(w) \/ AddOrUpdate(w) \/ AddOrUpdateFails(w))
  /\ \A w \in Workers : WF_vars(GetObject(w) \/ GetFails(w))

Spec == Init /\ [][Next]_vars

FairSpec == Spec /\ Fairness

-----------------------------------------------------------------------------
(* Properties.                                                             *)

\* Every stored entry has at least one field and no empty one (the generators of auth/
\* copy a field into a header without looking at its length again).
TypeOK ==
  /\ RuntimeTypeOK
  /\ data \in [Resources -> Credentials \cup {NoCredentials}]

\* What a version of a Secret lets the gateway use.
ValueOf(o) ==
  IF o = Absent \/ o.deleting \/ ~o.managed THEN NoCredentials
  ELSE IF \A f \in Fields : o.data[f] \in {EmptyValue, NoField} THEN Refused
  ELSE [f \in {g \in Fields : o.data[g] \in FieldValues} |-> o.data[f]]

\* A credential the cluster has withdrawn is on its way out of the store: while the
\* entry differs from the Secret the informer holds, the key is on the queue, or a call is
\* under way that will read, or has read, an object of the same value; one that addOrUpdate
\* refuses is retried for ever.  The predicate may drop events; it must not drop these.
StaleEntryIsScheduled ==
  \A k \in Resources :
    cached[k] # 0 /\ data[k] # ValueOf(Known(k)) =>
      \/ k \in dirty
      \/ \E w \in Workers :
           /\ working[w] = k
           /\ got[w] = 0 \/ ValueOf(Object(w)) = ValueOf(Known(k))

\* The test of addOrUpdate asserts "store should not contain entry when AddOrUpdate
\* fails" (store_test.go:230).
NoEntryAfterFailure ==
  [][\A w \in Workers : AddOrUpdateFails(w) => data'[working[w]] = NoCredentials]_vars

ValueHistory ==
  [k \in Resources |-> [i \in DOMAIN history[k] |-> ValueOf(history[k][i])]]

View ==
  INSTANCE StoreView WITH
    Keys     <- Resources,
    Values   <- Credentials,
    Nothing  <- NoCredentials,
    Rejects  <- {Refused},
    history  <- ValueHistory,
    view     <- data

\* The store shows for every Secret nothing or all the non-empty fields of one version,
\* never fields of two, and never goes back to an earlier version.
ImplementsView == View!Spec

\* Once the Secrets stop changing, the store holds the credentials of their last
\* versions, and none of a Secret that was deleted, is being deleted or has lost its
\* label; a Secret left without data may keep the credentials of an earlier version.
StoreConverges == View!Converges
=============================================================================
