---------------------- MODULE ExternalModelReconciler ----------------------
(***************************************************************************)
(* src/pkg/plugins/model-provider-resolver: the externalModelReconciler    *)
(* and the modelInfoStore it keeps.  The store is keyed by the NAME of an  *)
(* ExternalModel (the model name of an inference request); a second map    *)
(* remembers which resource stored which name.                             *)
(*                                                                         *)
(* A Reconcile call is three steps (the workqueue hands out the key, Get   *)
(* returns an object, the store is changed under its lock); changes of the *)
(* resource, events, other workers and a restart may come between them.    *)
(***************************************************************************)
EXTENDS ControllerRuntime

CONSTANTS
  Namespaces, Names,   \* of the ExternalModel resources
  Providers,           \* non-empty values of spec.provider
  CredentialNames,     \* non-empty values of spec.credentialRef.name
  Unset,               \* the empty string
  NoInfo, NoModel      \* no entry in models, in modelRefKeyToModel

ExternalModel ==
  [deleting            : BOOLEAN,
   provider            : Providers \cup {Unset},
   credentialName      : CredentialNames \cup {Unset},
   credentialNamespace : Namespaces \cup {Unset}]

\* What the plugin relies on in a stored entry: a provider, and a namespace
\* exactly when there is a credential name.
ModelInfo ==
  {info \in [provider               : Providers,
             credentialRefName      : CredentialNames \cup {Unset},
             credentialRefNamespace : Namespaces \cup {Unset}] :
     info.credentialRefName = Unset <=> info.credentialRefNamespace = Unset}

ASSUME ModelAssumption ==
  /\ Resources \subseteq Namespaces \X Names
  /\ Objects \subseteq ExternalModel
  /\ Unset \notin Providers \cup CredentialNames \cup Namespaces
  /\ NoModel \notin Names \cup ModelInfo \cup {NoInfo}
  /\ NoInfo \notin ModelInfo

VARIABLES
  models,              \* modelInfoStore.models
  modelRefKeyToModel   \* modelInfoStore.modelRefKeyToModel

storeVars == <<models, modelRefKeyToModel>>
vars == <<runtimeVars, storeVars>>

NamespaceOf(k) == k[1]
NameOf(k) == k[2]

-----------------------------------------------------------------------------
(* The store.                                                              *)

NewModelInfoStore ==
  /\ models = [n \in Names |-> NoInfo]
  /\ modelRefKeyToModel = [k \in Resources |-> NoModel]

MutSetModelInfoUntracked(name, info, key) ==
  /\ models' = [models EXCEPT ![name] = info]
  /\ UNCHANGED modelRefKeyToModel

MutSetModelInfoFirstWins(name, info, key) ==
  /\ models' = [models EXCEPT ![name] = IF @ = NoInfo THEN info ELSE @]
  /\ modelRefKeyToModel' = [modelRefKeyToModel EXCEPT ![key] = name]

SetModelInfo(name, info, key) ==
  /\ models' = [models EXCEPT ![name] = info]
  /\ modelRefKeyToModel' = [modelRefKeyToModel EXCEPT ![key] = name]

MutDeleteKeepsEntry(key) ==
  /\ modelRefKeyToModel' = [modelRefKeyToModel EXCEPT ![key] = NoModel]
  /\ UNCHANGED models

DeleteByResource(key) ==
  IF modelRefKeyToModel[key] = NoModel
    THEN UNCHANGED storeVars
    ELSE /\ models' = [models EXCEPT ![modelRefKeyToModel[key]] = NoInfo]
         /\ modelRefKeyToModel' = [modelRefKeyToModel EXCEPT ![key] = NoModel]

-----------------------------------------------------------------------------
(* What Reconcile makes of the object it read.                             *)

MutWithdrawnIgnoresDeletion(o) == o = Absent \/ o.provider = Unset

\* The three early exits that remove the entry.
Withdrawn(o) == o = Absent \/ o.deleting \/ o.provider = Unset

MutInfoOfUndefaulted(k, o) ==
  [provider               |-> o.provider,
   credentialRefName      |-> o.credentialName,
   credentialRefNamespace |-> o.credentialNamespace]

\* The namespace of the credential defaults to the resource's own, and is not
\* read at all without a credential name.
InfoOf(k, o) ==
  LET namespace == IF o.credentialNamespace = Unset THEN NamespaceOf(k)
                                                    ELSE o.credentialNamespace
  IN  [provider               |-> o.provider,
       credentialRefName      |-> o.credentialName,
       credentialRefNamespace |-> IF o.credentialName = Unset THEN Unset ELSE namespace]

-----------------------------------------------------------------------------

Init ==
  /\ RuntimeInit
  /\ NewModelInfoStore

\* The versions that may follow version o of a resource: one is not created with a
\* deletion timestamp, and never loses the one it has.
Successors(o) ==
  ({Absent} \ {o}) \cup
  {p \in Objects \ {o} : IF o = Absent THEN ~p.deleting ELSE o.deleting => p.deleting}

\* A client creates, updates or deletes the resource k.
ApiChange(k) ==
  /\ \E o \in Successors(Latest(k)) : Publish(k, o)
  /\ UNCHANGED storeVars

\* The controller is built without predicates: every event is accepted.  A list
\* that finds nothing where nothing was known raises no event.
Deliver(k) ==
  /\ \E i \in Deliverable(k) :
       Observe(k, i, ~(Known(k) = Absent /\ history[k][i] = Absent))
  /\ UNCHANGED storeVars

StartReconcile(w, k) ==
  /\ Dequeue(w, k)
  /\ UNCHANGED storeVars

GetObject(w) ==
  /\ Read(w)
  /\ UNCHANGED storeVars

MutGetFailsDropped(w) ==
  /\ working[w] # Idle /\ got[w] = 0
  /\ working' = [working EXCEPT ![w] = Idle]
  /\ UNCHANGED <<history, cached, dirty, got, applied, restarts>>
  /\ UNCHANGED storeVars

\* Get fails with an error other than NotFound, and Reconcile returns it.
GetFails(w) ==
  /\ working[w] # Idle /\ got[w] = 0
  /\ ReturnError(w)
  /\ UNCHANGED storeVars

\* The rest of Reconcile, once Get has returned an object or NotFound.
UpdateStore(w) ==
  LET k == working[w]
      o == history[k][got[w]]
  IN  /\ got[w] # 0
      /\ IF Withdrawn(o) THEN DeleteByResource(k)
                         ELSE SetModelInfo(NameOf(k), InfoOf(k, o), k)
      /\ Return(w)

Restart ==
  /\ RuntimeRestart
  /\ models' = [n \in Names |-> NoInfo]
  /\ modelRefKeyToModel' = [k \in Resources |-> NoModel]

Next ==
  \/ \E k \in Resources : ApiChange(k) \/ Deliver(k)
  \/ \E w \in Workers, k \in Resources : StartReconcile(w, k)
  \/ \E w \in Workers : GetObject(w) \/ GetFails(w) \/ UpdateStore(w)
  \/ Restart

(* The informer keeps delivering, a free worker takes a waiting key (the    *)
(* queue is first in first out, so a key that keeps coming back is served   *)
(* in spite of the others: strong fairness), a Reconcile call ends, and the *)
(* errors of Get are transient (strong fairness).  Nothing makes clients    *)
(* change resources or the process restart.                                *)
Fairness ==
  /\ \A k \in Resources : WF_vars(Deliver(k))
  /\ \A k \in Resources : SF_vars(\E w \in Workers : StartReconcile(w, k))
  /\ \A k \in Resources :
       SF_vars(\E w \in Workers : working[w] = k /\ GetObject(w))
  /\ \A w \in Workers : WF_vars(UpdateStore(w))
  /\ \A w \in Workers : WF_vars(GetObject(w) \/ GetFails(w))

Spec == Init /\ [][Next]_vars

FairSpec == Spec /\ Fairness

-----------------------------------------------------------------------------
(* Properties.                                                             *)

\* Every entry of the store is well formed: it names a provider, and the namespace
\* of its credential whenever it names the credential (plugin.go writes both to the
\* CycleState, and apikey-injection fails a request that has only one).
TypeOK ==
  /\ RuntimeTypeOK
  /\ models \in [Names -> ModelInfo \cup {NoInfo}]
  /\ modelRefKeyToModel \in [Resources -> Names \cup {NoModel}]

\* What version o of resource k asks the gateway to serve.
ValueOf(k, o) ==
  IF o = Absent \/ o.deleting \/ o.provider = Unset
    THEN NoInfo
    ELSE [provider               |-> o.provider,
          credentialRefName      |-> o.credentialName,
          credentialRefNamespace |->
            IF o.credentialName # Unset /\ o.credentialNamespace = Unset
              THEN NamespaceOf(k)
              ELSE IF o.credentialName = Unset THEN Unset ELSE o.credentialNamespace]

\* No entry outlives its owner: every entry of models is what some resource asked
\* for in the version last acted upon, and modelRefKeyToModel still leads from that
\* resource to the entry, so that the deletion of the resource will find it.  This
\* holds even when resources of several namespaces share a name.
EntriesAreOwned ==
  \A n \in Names : models[n] # NoInfo =>
    \E k \in Resources :
      /\ modelRefKeyToModel[k] = n
      /\ applied[k] \in DOMAIN history[k]
      /\ models[n] = ValueOf(k, history[k][applied[k]])

\* An event is never lost: while the entry of a resource differs from the object
\* the informer holds, the key is on the queue, or a Reconcile call is under way
\* that will read, or has read, an object with the value the informer holds.
StaleEntryIsScheduled ==
  \A k \in Resources :
    models[NameOf(k)] # ValueOf(k, Known(k)) /\ cached[k] # 0 =>
      \/ k \in dirty
      \/ \E w \in Workers :
           /\ working[w] = k
           /\ got[w] = 0 \/ ValueOf(k, history[k][got[w]]) = ValueOf(k, Known(k))

\* The comment on deleteByResource (model_store.go:65) says it removes the entry
\* that was added by the given resource; so an entry a resource added, and for which
\* it is still tracked, is there.
TrackedEntryPresent ==
  \A k \in Resources :
    modelRefKeyToModel[k] # NoModel => models[modelRefKeyToModel[k]] # NoInfo

\* No two namespaces hold a model of the same name.
UniqueNames == \A j, k \in Resources : NameOf(j) = NameOf(k) => j = k

ValueHistory ==
  [k \in Resources |-> [i \in DOMAIN history[k] |-> ValueOf(k, history[k][i])]]

Served == [k \in Resources |-> models[NameOf(k)]]

\* No version of an ExternalModel is ever refused.
View ==
  INSTANCE StoreView WITH
    Keys     <- Resources,
    Values   <- ModelInfo,
    Nothing  <- NoInfo,
    Rejects  <- {},
    history  <- ValueHistory,
    view     <- Served

\* Under UniqueNames the store implements StoreView: for every resource it shows
\* nothing or the value of one of its versions, and it never goes back to an earlier
\* version, whatever the workers, the events and the changes do.
ImplementsView == View!Spec

\* Once the resources stop changing, the store comes to hold exactly what their last
\* versions ask for: no entry of a deleted model stays, no live model is missing.
StoreConverges == View!Converges
=============================================================================
