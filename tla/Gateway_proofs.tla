--------------------------- MODULE Gateway_proofs ---------------------------
(***************************************************************************)
(* Proofs about Gateway, and about GuardedGateway in the second part, for  *)
(* any requests, models, Secrets and providers, any number of changes, and *)
(* any chain that has the three plugins in their order, whatever others    *)
(* stand between them: what it sends upstream is of one piece, carries no  *)
(* token of the client's, and is answered in the client's format.          *)
(*                                                                         *)
(* The stores enter the proof only through two facts every StoreView has   *)
(* (StoresShowVersions): a model's entry is a version of that model, and   *)
(* a Secret's entry is a version of that Secret.  The rest is an invariant *)
(* per request (Chained), which says what each plugin of the chain has     *)
(* established by the time the request is past it.                         *)
(***************************************************************************)
EXTENDS GuardedGateway, TLAPS

\* The three plugins are in the chain once each, and in this order.
ChainInOrder ==
  /\ Len(Chain) \in Nat
  /\ \E i, j, k \in 1 .. Len(Chain) :
       /\ i < j /\ j < k
       /\ \A n \in 1 .. Len(Chain) :
            /\ Chain[n] = "model-provider-resolver" <=> n = i
            /\ Chain[n] = "api-translation" <=> n = j
            /\ Chain[n] = "apikey-injection" <=> n = k

\* Request r is past the plugin named.
Past(r, name) == \E n \in 1 .. at[r] - 1 : Chain[n] = name

Resolved(r) == Past(r, "model-provider-resolver")
Translated(r) == Past(r, "api-translation")
Injected(r) == Past(r, "apikey-injection")

Versions(history) == {history[i] : i \in DOMAIN history}

ModelVersions == [ExternalModels -> Seq(ModelInfos \cup {NoInfo})]
SecretVersions == [SecretKeys -> Seq(Credentials \cup {NoCredentials} \cup Refused)]

StoresShowVersions ==
  /\ modelHistory \in ModelVersions
  /\ secretHistory \in SecretVersions
  /\ models \in [ExternalModels -> ModelInfos \cup {NoInfo}]
  /\ \A m \in ExternalModels : models[m] # NoInfo => models[m] \in Versions(modelHistory[m])
  /\ DOMAIN secrets = SecretKeys
  /\ \A k \in SecretKeys :
       secrets[k] # NoCredentials => secrets[k] \in Versions(secretHistory[k]) \ Refused

Provider(r) == cycleState[r].provider

\* One version of the model names the provider and the Secret of the CycleState.
Named(r) ==
  /\ model[r] \in ExternalModels
  /\ \E info \in Versions(modelHistory[model[r]]) \ {NoInfo} :
       /\ info.provider = Provider(r)
       /\ info.credentialRefName = cycleState[r].credsName
       /\ info.credentialRefNamespace = cycleState[r].credsNamespace

\* The key in the provider's header is of a version of the Secret of the CycleState.
Keyed(r) ==
  /\ SecretKey(r) \in SecretKeys
  /\ \E c \in Versions(secretHistory[SecretKey(r)]) \cap Credentials :
       ApiKeyField \in DOMAIN c /\ headers[r][AuthHeader[Provider(r)]] = c[ApiKeyField]

\* What holds of request r before, between and after the plugins.
Chained(r) ==
  /\ stage[r] = "new" => at[r] = 1 /\ \A h \in HeaderNames : headers[r][h] = Unset
  /\ Sent(r) => Injected(r)
  /\ ~Resolved(r) => ~External(r)
  /\ External(r) => Named(r)
  /\ ~Injected(r) => \A h \in HeaderNames \ {"authorization"} : headers[r][h] = Unset
  /\ ~Translated(r) \/ ~External(r) => format[r] = OpenAI
  /\ Translated(r) /\ External(r) => Provider(r) \in Supported
  /\ Translated(r) /\ ~Injected(r) /\ External(r) => headers[r]["authorization"] = Unset
  /\ Injected(r) /\ External(r) => Keyed(r)
  /\ Injected(r) /\ External(r) =>
       \A h \in HeaderNames \ {AuthHeader[Provider(r)]} : headers[r][h] = Unset
  /\ Translated(r) /\ External(r) /\ stage[r] # "done" => format[r] = Native(Provider(r))
  /\ stage[r] = "done" => format[r] = OpenAI

Inv ==
  /\ TypeOK
  /\ StoresShowVersions
  /\ \A r \in Requests : Chained(r)

-----------------------------------------------------------------------------

LEMMA AppendKeepsVersions ==
  ASSUME NEW S, NEW h \in Seq(S), NEW v
  PROVE  /\ Versions(h) \subseteq Versions(Append(h, v))
         /\ v \in Versions(Append(h, v))
<1>1. /\ Len(Append(h, v)) = Len(h) + 1
      /\ Append(h, v)[Len(h) + 1] = v
      /\ \A i \in 1 .. Len(h) : Append(h, v)[i] = h[i]
      /\ DOMAIN h = 1 .. Len(h)
      /\ DOMAIN Append(h, v) = 1 .. Len(h) + 1
  <2>1. h \in Seq(S \cup {v}) /\ v \in S \cup {v}
    OBVIOUS
  <2>2. QED
    BY <2>1
<1>2. Len(h) \in Nat
  OBVIOUS
<1>3. QED
  BY <1>1, <1>2 DEF Versions

LEMMA StoresInit == Init => StoresShowVersions
<1> SUFFICES ASSUME Init PROVE StoresShowVersions
  OBVIOUS
<1>1. /\ modelHistory \in [ExternalModels -> {<<v>> : v \in ModelInfos \cup {NoInfo} \cup {}}]
      /\ models = [m \in ExternalModels |-> NoInfo]
  BY DEF Init, Models!Init
<1>2. /\ secretHistory \in
           [SecretKeys -> {<<v>> : v \in Credentials \cup {NoCredentials} \cup Refused}]
      /\ secrets = [k \in SecretKeys |-> NoCredentials]
  BY DEF Init, Secrets!Init
<1>3. modelHistory \in ModelVersions
  <2>1. ASSUME NEW m \in ExternalModels PROVE modelHistory[m] \in Seq(ModelInfos \cup {NoInfo})
    <3>1. PICK v \in ModelInfos \cup {NoInfo} : modelHistory[m] = <<v>>
      BY <1>1
    <3>2. QED
      BY <3>1
  <2>2. QED
    BY <1>1, <2>1 DEF ModelVersions
<1>4. secretHistory \in SecretVersions
  <2>1. ASSUME NEW k \in SecretKeys PROVE secretHistory[k] \in Seq(Credentials \cup {NoCredentials} \cup Refused)
    <3>1. PICK v \in Credentials \cup {NoCredentials} \cup Refused : secretHistory[k] = <<v>>
      BY <1>2
    <3>2. QED
      BY <3>1
  <2>2. QED
    BY <1>2, <2>1 DEF SecretVersions
<1>5. QED
  BY <1>1, <1>2, <1>3, <1>4 DEF StoresShowVersions

\* The versions of a resource only grow.
HistoriesGrow ==
  /\ \A m \in ExternalModels : Versions(modelHistory[m]) \subseteq Versions(modelHistory'[m])
  /\ \A k \in SecretKeys : Versions(secretHistory[k]) \subseteq Versions(secretHistory'[k])

LEMMA ModelStoreStepFacts ==
  ASSUME StoresShowVersions, ModelStoreStep
  PROVE  StoresShowVersions' /\ HistoriesGrow
<1>0. UNCHANGED <<secretHistory, secrets>>
  BY DEF ModelStoreStep
<1>1. ASSUME NEW m \in ExternalModels, Models!Publish(m)
      PROVE  StoresShowVersions' /\ HistoriesGrow
  <2>1. PICK v \in ModelInfos \cup {NoInfo} \cup {} :
          modelHistory' = [modelHistory EXCEPT ![m] = Append(@, v)]
    BY <1>1 DEF Models!Publish
  <2>2. modelHistory[m] \in Seq(ModelInfos \cup {NoInfo})
    BY DEF StoresShowVersions, ModelVersions
  <2>3. modelHistory' \in ModelVersions
    BY <2>1, <2>2 DEF StoresShowVersions, ModelVersions
  <2>4. \A j \in ExternalModels : Versions(modelHistory[j]) \subseteq Versions(modelHistory'[j])
    <3>1. TAKE j \in ExternalModels
    <3>2. CASE j = m
      BY <2>1, <2>2, <3>2, AppendKeepsVersions DEF StoresShowVersions, ModelVersions
    <3>3. CASE j # m
      BY <2>1, <3>3 DEF StoresShowVersions, ModelVersions
    <3>4. QED
      BY <3>2, <3>3
  <2>5. UNCHANGED models
    BY <1>1 DEF Models!Publish
  <2>6. QED
    BY <1>0, <2>3, <2>4, <2>5 DEF StoresShowVersions, HistoriesGrow
<1>2. ASSUME NEW m \in ExternalModels, NEW i \in DOMAIN modelHistory[m], Models!Apply(m, i)
      PROVE  StoresShowVersions' /\ HistoriesGrow
  <2>1. /\ models' = [models EXCEPT ![m] = modelHistory[m][i]]
        /\ UNCHANGED modelHistory
    BY <1>2 DEF Models!Apply
  <2>2. modelHistory[m] \in Seq(ModelInfos \cup {NoInfo})
    BY DEF StoresShowVersions, ModelVersions
  <2>3. modelHistory[m][i] \in ModelInfos \cup {NoInfo}
    BY <2>2
  <2>4. modelHistory[m][i] \in Versions(modelHistory[m])
    BY DEF Versions
  <2>5. QED
    BY <1>0, <2>1, <2>3, <2>4 DEF StoresShowVersions, HistoriesGrow
<1>3. QED
  BY <1>1, <1>2 DEF ModelStoreStep

LEMMA SecretStoreStepFacts ==
  ASSUME StoresShowVersions, SecretStoreStep
  PROVE  StoresShowVersions' /\ HistoriesGrow
<1>0. UNCHANGED <<modelHistory, models>>
  BY DEF SecretStoreStep
<1>1. ASSUME NEW k \in SecretKeys, Secrets!Publish(k)
      PROVE  StoresShowVersions' /\ HistoriesGrow
  <2>1. PICK v \in Credentials \cup {NoCredentials} \cup Refused :
          secretHistory' = [secretHistory EXCEPT ![k] = Append(@, v)]
    BY <1>1 DEF Secrets!Publish
  <2>2. secretHistory[k] \in Seq(Credentials \cup {NoCredentials} \cup Refused)
    BY DEF StoresShowVersions, SecretVersions
  <2>3. secretHistory' \in SecretVersions
    BY <2>1, <2>2 DEF StoresShowVersions, SecretVersions
  <2>4. \A j \in SecretKeys : Versions(secretHistory[j]) \subseteq Versions(secretHistory'[j])
    <3>1. TAKE j \in SecretKeys
    <3>2. CASE j = k
      BY <2>1, <2>2, <3>2, AppendKeepsVersions DEF StoresShowVersions, SecretVersions
    <3>3. CASE j # k
      BY <2>1, <3>3 DEF StoresShowVersions, SecretVersions
    <3>4. QED
      BY <3>2, <3>3
  <2>5. UNCHANGED secrets
    BY <1>1 DEF Secrets!Publish
  <2>6. QED
    BY <1>0, <2>3, <2>4, <2>5 DEF StoresShowVersions, HistoriesGrow
<1>2. ASSUME NEW k \in SecretKeys, NEW i \in DOMAIN secretHistory[k], Secrets!Apply(k, i)
      PROVE  StoresShowVersions' /\ HistoriesGrow
  <2>1. /\ secretHistory[k][i] \notin Refused
        /\ secrets' = [secrets EXCEPT ![k] = secretHistory[k][i]]
        /\ UNCHANGED secretHistory
    BY <1>2 DEF Secrets!Apply
  <2>2. secretHistory[k][i] \in Versions(secretHistory[k]) \ Refused
    BY <2>1 DEF Versions
  <2>3. QED
    BY <1>0, <2>1, <2>2 DEF StoresShowVersions, HistoriesGrow
<1>3. QED
  BY <1>1, <1>2 DEF SecretStoreStep

LEMMA StoresStep ==
  StoresShowVersions /\ [Next]_vars => StoresShowVersions' /\ HistoriesGrow
<1> SUFFICES ASSUME StoresShowVersions, [Next]_vars
             PROVE  StoresShowVersions' /\ HistoriesGrow
  OBVIOUS
<1>1. ASSUME Restart
      PROVE  StoresShowVersions' /\ HistoriesGrow
  <2>1. /\ models' = [m \in ExternalModels |-> NoInfo]
        /\ secrets' = [k \in SecretKeys |-> NoCredentials]
        /\ UNCHANGED <<modelHistory, secretHistory>>
    BY <1>1 DEF Restart, Models!Forget, Secrets!Forget
  <2>2. QED
    BY <2>1 DEF StoresShowVersions, HistoriesGrow
<1>2. ASSUME UNCHANGED storeVars
      PROVE  StoresShowVersions' /\ HistoriesGrow
  BY <1>2 DEF storeVars, StoresShowVersions, HistoriesGrow
<1>3. QED
  BY <1>1, <1>2, ModelStoreStepFacts, SecretStoreStepFacts
     DEF Next, CoreNext, vars, OtherPlugin, Arrive, PluginStep, Resolve, TranslateSkips, Translate, TranslateFails,
         InjectSkips, Inject, InjectFails, Forward, Answer, TranslateResponse

-----------------------------------------------------------------------------

\* The chain of deploy/payload-processing/values.yaml is in this order, and so it is with the
\* guard in front.
LEMMA DeployedChainIsInOrder ==
  ASSUME \/ Chain = <<"body-field-to-header", "model-provider-resolver", "api-translation",
                      "apikey-injection">>
         \/ Chain = <<"body-field-to-header", "nemo-request-guard", "model-provider-resolver",
                      "api-translation", "apikey-injection">>
  PROVE  ChainInOrder
<1>1. CASE Chain = <<"body-field-to-header", "model-provider-resolver", "api-translation",
                     "apikey-injection">>
  <2>1. Len(Chain) = 4
    BY <1>1
  <2>2. \A n \in 1 .. 4 :
          /\ Chain[n] = "model-provider-resolver" <=> n = 2
          /\ Chain[n] = "api-translation" <=> n = 3
          /\ Chain[n] = "apikey-injection" <=> n = 4
    BY <1>1
  <2>3. QED
    BY <2>1, <2>2 DEF ChainInOrder
<1>2. CASE Chain = <<"body-field-to-header", "nemo-request-guard", "model-provider-resolver",
                     "api-translation", "apikey-injection">>
  <2>1. Len(Chain) = 5
    BY <1>2
  <2>2. \A n \in 1 .. 5 :
          /\ Chain[n] = "model-provider-resolver" <=> n = 3
          /\ Chain[n] = "api-translation" <=> n = 4
          /\ Chain[n] = "apikey-injection" <=> n = 5
    BY <1>2
  <2>3. QED
    BY <2>1, <2>2 DEF ChainInOrder
<1>3. QED
  BY <1>1, <1>2

\* Where a request stands says which plugins it is past.
LEMMA PastFacts ==
  ASSUME ChainInOrder, TypeOK, NEW r \in Requests
  PROVE  /\ at[r] = 1 => ~Resolved(r) /\ ~Translated(r) /\ ~Injected(r)
         /\ at[r] > Len(Chain) => Injected(r)
         /\ Injected(r) => Translated(r)
         /\ Translated(r) => Resolved(r)
         /\ AtPlugin(r, "model-provider-resolver") => ~Resolved(r)
         /\ AtPlugin(r, "api-translation") => Resolved(r) /\ ~Translated(r)
         /\ AtPlugin(r, "apikey-injection") => Translated(r) /\ ~Injected(r)
<1>1. at[r] \in 1 .. Len(Chain) + 1 /\ Len(Chain) \in Nat
  BY DEF TypeOK, ChainInOrder
<1>2. PICK i, j, k \in 1 .. Len(Chain) :
        /\ i < j /\ j < k
        /\ \A n \in 1 .. Len(Chain) :
             /\ Chain[n] = "model-provider-resolver" <=> n = i
             /\ Chain[n] = "api-translation" <=> n = j
             /\ Chain[n] = "apikey-injection" <=> n = k
  BY DEF ChainInOrder
<1>3. /\ Resolved(r) <=> i < at[r]
      /\ Translated(r) <=> j < at[r]
      /\ Injected(r) <=> k < at[r]
  BY <1>1, <1>2 DEF Resolved, Translated, Injected, Past
<1>4. /\ AtPlugin(r, "model-provider-resolver") => at[r] = i
      /\ AtPlugin(r, "api-translation") => at[r] = j
      /\ AtPlugin(r, "apikey-injection") => at[r] = k
  BY <1>1, <1>2 DEF AtPlugin
<1>5. QED
  BY <1>1, <1>2, <1>3, <1>4

\* What Resolve writes is typed, and comes from one version of the model.
LEMMA WrittenFacts ==
  ASSUME StoresShowVersions, TypeOK, NEW r \in Requests
  PROVE  \/ InfoFor(r) = NoInfo /\ Written(r) = cycleState[r]
         \/ /\ InfoFor(r) \in ModelInfos
            /\ model[r] \in ExternalModels
            /\ InfoFor(r) \in Versions(modelHistory[model[r]]) \ {NoInfo}
            /\ Written(r) = [model          |-> model[r],
                             provider       |-> InfoFor(r).provider,
                             credsName      |-> InfoFor(r).credentialRefName,
                             credsNamespace |-> InfoFor(r).credentialRefNamespace]
            /\ Written(r).provider # Unset
<1>1. CASE InfoFor(r) = NoInfo
  BY <1>1 DEF Written
<1>2. CASE InfoFor(r) # NoInfo
  <2>1. model[r] \in ExternalModels /\ InfoFor(r) = models[model[r]]
    BY <1>2 DEF InfoFor
  <2>2. InfoFor(r) \in ModelInfos /\ InfoFor(r) \in Versions(modelHistory[model[r]]) \ {NoInfo}
    BY <1>2, <2>1 DEF StoresShowVersions
  <2>3. QED
    BY <1>2, <2>1, <2>2, GatewayAssumption DEF Written
<1>3. QED
  BY <1>1, <1>2

\* What Inject reads is a version of the Secret the CycleState names.
LEMMA CredentialsFacts ==
  ASSUME StoresShowVersions, NEW r \in Requests, CredentialsFor(r) # NoCredentials
  PROVE  /\ SecretKey(r) \in SecretKeys
         /\ CredentialsFor(r) \in Versions(secretHistory[SecretKey(r)]) \cap Credentials
<1>1. SecretKey(r) \in SecretKeys /\ CredentialsFor(r) = secrets[SecretKey(r)]
  BY DEF CredentialsFor
<1>2. CredentialsFor(r) \in Versions(secretHistory[SecretKey(r)]) \ Refused
  BY <1>1 DEF StoresShowVersions
<1>3. secretHistory[SecretKey(r)] \in Seq(Credentials \cup {NoCredentials} \cup Refused)
  BY <1>1 DEF StoresShowVersions, SecretVersions
<1>4. Versions(secretHistory[SecretKey(r)]) \subseteq Credentials \cup {NoCredentials} \cup Refused
  BY <1>3 DEF Versions
<1>5. QED
  BY <1>1, <1>2, <1>4

LEMMA TypeInit == Init => TypeOK
<1> SUFFICES ASSUME Init PROVE TypeOK
  OBVIOUS
<1>1. Len(Chain) \in Nat => 1 \in 1 .. Len(Chain) + 1
  OBVIOUS
<1>2. QED
  BY <1>1 DEF Init, TypeOK
-----------------------------------------------------------------------------

LEMMA TypeStep ==
  ASSUME ChainInOrder
  PROVE  TypeOK /\ StoresShowVersions /\ [Next]_vars => TypeOK'
<1> SUFFICES ASSUME TypeOK, StoresShowVersions, [Next]_vars PROVE TypeOK'
  OBVIOUS
<1>0. Len(Chain) \in Nat
  BY DEF ChainInOrder
<1>1. ASSUME NEW r \in Requests, Arrive(r) PROVE TypeOK'
  BY <1>1 DEF Arrive, TypeOK, HeaderNames
<1>2. ASSUME NEW r \in Requests, Proceed(r), at[r] <= Len(Chain)
      PROVE  /\ stage' \in [Requests -> {"new", "request", "upstream", "response", "done", "failed"}]
             /\ at' \in [Requests -> 1 .. Len(Chain) + 1]
  BY <1>0, <1>2 DEF Proceed, TypeOK
<1>3. ASSUME NEW r \in Requests, Resolve(r) PROVE TypeOK'
  <2>1. cycleState' = [cycleState EXCEPT ![r] = Written(r)]
    BY <1>3 DEF Resolve
  <2>2. cycleState' \in [Requests -> {EmptyCycleState} \cup
          [model : ExternalModels, provider : {i.provider : i \in ModelInfos},
           credsName : {i.credentialRefName : i \in ModelInfos},
           credsNamespace : {i.credentialRefNamespace : i \in ModelInfos}]]
    BY <2>1, WrittenFacts DEF TypeOK
  <2>3. QED
    BY <1>2, <1>3, <2>2 DEF Resolve, AtPlugin, TypeOK
<1>4. ASSUME NEW r \in Requests, Translate(r) PROVE TypeOK'
  <2>1. headers' \in [Requests -> [HeaderNames -> {Unset, ClientToken} \cup Keys]]
    BY <1>4 DEF Translate, TranslateHeaders, TypeOK
  <2>2. Native(cycleState[r].provider) \in {OpenAI, Garbled} \cup Supported
    BY <1>4 DEF Translate, Native
  <2>3. format' \in [Requests -> {OpenAI, Garbled} \cup Supported]
    BY <1>4, <2>2 DEF Translate, TypeOK
  <2>4. QED
    BY <1>2, <1>4, <2>1, <2>3 DEF Translate, AtPlugin, TypeOK
<1>5. ASSUME NEW r \in Requests, Inject(r) PROVE TypeOK'
  <2>1. CredentialsFor(r) \in Credentials /\ ApiKeyField \in DOMAIN CredentialsFor(r)
    BY <1>5, CredentialsFacts DEF Inject, Injectable, Generates
  <2>2. CredentialsFor(r)[ApiKeyField] \in Keys
    BY <2>1 DEF Keys
  <2>3. headers' \in [Requests -> [HeaderNames -> {Unset, ClientToken} \cup Keys]]
    BY <1>5, <2>2 DEF Inject, TypeOK
  <2>4. QED
    BY <1>2, <1>5, <2>3 DEF Inject, AtPlugin, TypeOK
<1>6. ASSUME NEW r \in Requests, TranslateSkips(r) \/ InjectSkips(r) PROVE TypeOK'
  BY <1>2, <1>6 DEF TranslateSkips, InjectSkips, AtPlugin, TypeOK
<1>7. ASSUME NEW r \in Requests, TranslateFails(r) \/ InjectFails(r) PROVE TypeOK'
  BY <1>7 DEF TranslateFails, InjectFails, Fail, TypeOK
<1>13. ASSUME NEW r \in Requests, OtherPlugin(r) PROVE TypeOK'
  <2>1. CASE Proceed(r)
    BY <1>2, <1>13, <2>1 DEF OtherPlugin, TypeOK
  <2>2. CASE Fail(r)
    BY <1>13, <2>2 DEF OtherPlugin, Fail, TypeOK
  <2>3. QED
    BY <1>13, <2>1, <2>2 DEF OtherPlugin
<1>8. ASSUME NEW r \in Requests, Forward(r) \/ Answer(r) PROVE TypeOK'
  BY <1>8 DEF Forward, Answer, TypeOK
<1>9. ASSUME NEW r \in Requests, TranslateResponse(r) PROVE TypeOK'
  <2>1. \A p, f : f \in {OpenAI, Garbled} \cup Supported =>
          TranslateBack(p, f) \in {OpenAI, Garbled} \cup Supported
    BY DEF TranslateBack
  <2>2. QED
    BY <1>9, <2>1 DEF TranslateResponse, TypeOK
<1>10. ASSUME Restart PROVE TypeOK'
  BY <1>10 DEF Restart, TypeOK
<1>11. ASSUME UNCHANGED requestVars PROVE TypeOK'
  BY <1>11 DEF requestVars, TypeOK
<1>12. QED
  BY <1>1, <1>3, <1>4, <1>5, <1>6, <1>7, <1>8, <1>9, <1>10, <1>11,
     <1>13 DEF Next, CoreNext, PluginStep, ModelStoreStep, SecretStoreStep, vars

\* Every request, model, cycle state and header of the gateway has its type, for any
\* number of requests, models and Secrets in such a chain.
THEOREM TypeCorrect == ChainInOrder => (Spec => []TypeOK)
<1> SUFFICES ASSUME ChainInOrder PROVE Spec => []TypeOK
  OBVIOUS
<1>1. TypeOK /\ StoresShowVersions /\ [Next]_vars => TypeOK'
  BY TypeStep
<1>2. QED
  BY <1>1, TypeInit, StoresInit, StoresStep, PTL DEF Spec

-----------------------------------------------------------------------------

\* The step is not one of request q.
Untouched(q) ==
  /\ stage'[q] = stage[q] /\ at'[q] = at[q] /\ model'[q] = model[q]
  /\ cycleState'[q] = cycleState[q] /\ headers'[q] = headers[q] /\ format'[q] = format[q]

PastUnchanged(q) ==
  /\ Resolved(q)' <=> Resolved(q)
  /\ Translated(q)' <=> Translated(q)
  /\ Injected(q)' <=> Injected(q)

LEMMA UntouchedStaysChained ==
  ASSUME HistoriesGrow, NEW q \in Requests, Chained(q), Untouched(q)
  PROVE  Chained(q)'
<1>1. External(q)' <=> External(q)
  BY DEF Untouched, External
<1>2. Named(q) => Named(q)'
  BY DEF Untouched, Named, HistoriesGrow, Provider
<1>3. Keyed(q) => Keyed(q)'
  BY DEF Untouched, Keyed, HistoriesGrow, Provider, SecretKey
<1>4. Sent(q)' <=> Sent(q)
  BY DEF Untouched, Sent
<1>5. PastUnchanged(q)
  BY DEF Untouched, PastUnchanged, Past, Resolved, Translated, Injected
<1>6. QED
  BY <1>1, <1>2, <1>3, <1>4, <1>5 DEF Chained, Untouched, Provider, PastUnchanged

LEMMA ChainedInit == ChainInOrder /\ Init => \A r \in Requests : Chained(r)
<1> SUFFICES ASSUME ChainInOrder, Init, NEW r \in Requests PROVE Chained(r)
  OBVIOUS
<1>1. ~Resolved(r) /\ ~Translated(r) /\ ~Injected(r)
  BY PastFacts, TypeInit DEF Init
<1>2. QED
  BY <1>1 DEF Init, Chained, Sent, External, EmptyCycleState

LEMMA ArriveStep ==
  ASSUME ChainInOrder, TypeOK, NEW r \in Requests, Chained(r), Arrive(r)
  PROVE  Chained(r)' /\ \A q \in Requests \ {r} : Untouched(q)
<1>1. /\ stage'[r] = "request" /\ at[r] = 1 /\ at' = at
      /\ ~Resolved(r) /\ ~Translated(r) /\ ~Injected(r)
      /\ ~Resolved(r)' /\ ~Translated(r)' /\ ~Injected(r)'
  <2>1. stage'[r] = "request" /\ at[r] = 1 /\ at' = at
    BY DEF Arrive, Chained, TypeOK
  <2>2. ~Resolved(r) /\ ~Translated(r) /\ ~Injected(r)
    BY <2>1, PastFacts
  <2>3. QED
    BY <2>1, <2>2 DEF Resolved, Translated, Injected, Past
<1>2. UNCHANGED <<cycleState, format>> /\ ~External(r)
  BY <1>1 DEF Arrive, Chained
<1>3. \A h \in HeaderNames \ {"authorization"} : headers'[r][h] = Unset
  BY DEF Arrive, Chained, TypeOK
<1>4. Chained(r)'
  BY <1>1, <1>2, <1>3 DEF Chained, Sent, External
<1>5. \A q \in Requests \ {r} : Untouched(q)
  BY DEF Arrive, Untouched, TypeOK
<1>6. QED
  BY <1>4, <1>5

\* A plugin lets a request pass.
LEMMA ProceedMovesOn ==
  ASSUME ChainInOrder, TypeOK, NEW r \in Requests, stage[r] = "request",
         at[r] <= Len(Chain), Proceed(r)
  PROVE  /\ stage'[r] = "request"
         /\ \A q \in Requests \ {r} : at'[q] = at[q] /\ stage'[q] = stage[q]
         /\ Resolved(r)' <=> Resolved(r) \/ Chain[at[r]] = "model-provider-resolver"
         /\ Translated(r)' <=> Translated(r) \/ Chain[at[r]] = "api-translation"
         /\ Injected(r)' <=> Injected(r) \/ Chain[at[r]] = "apikey-injection"
<1>1. at \in [Requests -> 1 .. Len(Chain) + 1] /\ Len(Chain) \in Nat
  BY DEF TypeOK, ChainInOrder
<1>2. at' = [at EXCEPT ![r] = @ + 1] /\ stage' = stage
  BY DEF Proceed
<1>3. at'[r] = at[r] + 1 /\ 1 .. at'[r] - 1 = (1 .. at[r] - 1) \cup {at[r]}
  BY <1>1, <1>2
<1>4. QED
  BY <1>1, <1>2, <1>3 DEF Resolved, Translated, Injected, Past

LEMMA ResolveStep ==
  ASSUME ChainInOrder, TypeOK, StoresShowVersions,
         NEW r \in Requests, Chained(r), Resolve(r)
  PROVE  Chained(r)' /\ \A q \in Requests \ {r} : Untouched(q)
<1>1. /\ ~Resolved(r) /\ ~Translated(r) /\ ~Injected(r)
      /\ Resolved(r)' /\ ~Translated(r)' /\ ~Injected(r)' /\ stage'[r] = "request"
      /\ \A q \in Requests \ {r} : at'[q] = at[q] /\ stage'[q] = stage[q]
  BY PastFacts, ProceedMovesOn DEF Resolve, AtPlugin
<1>2. /\ cycleState' = [cycleState EXCEPT ![r] = Written(r)]
      /\ UNCHANGED <<storeVars, model, headers, format>>
  BY DEF Resolve
<1>3. cycleState'[r] = Written(r) /\ \A q \in Requests \ {r} : cycleState'[q] = cycleState[q]
  BY <1>2 DEF TypeOK
<1>4. External(r)' => Named(r)'
  <2>1. CASE InfoFor(r) = NoInfo /\ Written(r) = cycleState[r]
    BY <1>1, <1>3, <2>1 DEF External, Chained
  <2>2. CASE InfoFor(r) # NoInfo
    <3>1. /\ model'[r] \in ExternalModels
          /\ InfoFor(r) \in Versions(modelHistory'[model'[r]]) \ {NoInfo}
          /\ cycleState'[r].provider = InfoFor(r).provider
          /\ cycleState'[r].credsName = InfoFor(r).credentialRefName
          /\ cycleState'[r].credsNamespace = InfoFor(r).credentialRefNamespace
      BY <1>2, <1>3, <2>2, WrittenFacts DEF storeVars
    <3>2. QED
      BY <3>1 DEF Named, Provider
  <2>3. QED
    BY <2>1, <2>2, WrittenFacts
<1>5. Chained(r)'
  BY <1>1, <1>2, <1>4 DEF Chained, Sent
<1>6. \A q \in Requests \ {r} : Untouched(q)
  BY <1>1, <1>2, <1>3 DEF Untouched
<1>7. QED
  BY <1>5, <1>6

LEMMA TranslateStep ==
  ASSUME ChainInOrder, TypeOK, NEW r \in Requests, Chained(r), Translate(r)
  PROVE  Chained(r)' /\ \A q \in Requests \ {r} : Untouched(q)
<1>1. /\ Resolved(r) /\ ~Translated(r) /\ ~Injected(r)
      /\ Resolved(r)' /\ Translated(r)' /\ ~Injected(r)' /\ stage'[r] = "request"
      /\ \A q \in Requests \ {r} : at'[q] = at[q] /\ stage'[q] = stage[q]
  BY PastFacts, ProceedMovesOn DEF Translate, AtPlugin
<1>2. /\ External(r) /\ Provider(r) \in Supported
      /\ format' = [format EXCEPT ![r] = Native(Provider(r))]
      /\ headers' = [headers EXCEPT ![r]["authorization"] = Unset]
      /\ UNCHANGED <<storeVars, model, cycleState>>
  BY DEF Translate, TranslateHeaders, Provider
<1>3. "authorization" \in HeaderNames
  BY DEF HeaderNames
<1>4. /\ format'[r] = Native(Provider(r)) /\ headers'[r]["authorization"] = Unset
      /\ \A h \in HeaderNames \ {"authorization"} : headers'[r][h] = Unset
      /\ \A q \in Requests \ {r} : format'[q] = format[q] /\ headers'[q] = headers[q]
  BY <1>1, <1>2, <1>3 DEF TypeOK, Chained
<1>5. External(r)' /\ Named(r)' /\ Provider(r)' = Provider(r)
  BY <1>2 DEF Chained, External, Named, Provider, storeVars
<1>6. Chained(r)'
  BY <1>1, <1>2, <1>4, <1>5 DEF Chained, Sent
<1>7. \A q \in Requests \ {r} : Untouched(q)
  BY <1>1, <1>2, <1>4 DEF Untouched
<1>8. QED
  BY <1>6, <1>7
LEMMA InjectStep ==
  ASSUME ChainInOrder, TypeOK, StoresShowVersions,
         NEW r \in Requests, Chained(r), Inject(r)
  PROVE  Chained(r)' /\ \A q \in Requests \ {r} : Untouched(q)
<1> DEFINE h == AuthHeader[Provider(r)]
           key == CredentialsFor(r)[ApiKeyField]
<1>1. /\ Resolved(r) /\ Translated(r) /\ ~Injected(r)
      /\ Resolved(r)' /\ Translated(r)' /\ Injected(r)' /\ stage'[r] = "request"
      /\ stage[r] = "request"
      /\ \A q \in Requests \ {r} : at'[q] = at[q] /\ stage'[q] = stage[q]
  BY PastFacts, ProceedMovesOn DEF Inject, AtPlugin
<1>2. /\ External(r) /\ Provider(r) \in Supported
      /\ CredentialsFor(r) # NoCredentials /\ ApiKeyField \in DOMAIN CredentialsFor(r)
      /\ headers' = [headers EXCEPT ![r][h] = key]
      /\ UNCHANGED <<storeVars, model, cycleState, format>>
  BY DEF Inject, Injectable, Generates, Provider
<1>3. h \in HeaderNames
  BY <1>2 DEF HeaderNames
<1>4. headers'[r][h] = key /\ \A q \in Requests \ {r} : headers'[q] = headers[q]
  BY <1>2, <1>3 DEF TypeOK
<1>5. \A g \in HeaderNames \ {h} : headers'[r][g] = Unset
  <2>1. \A g \in HeaderNames : headers[r][g] = Unset
    BY <1>1, <1>2 DEF Chained
  <2>2. QED
    BY <1>2, <1>3, <2>1 DEF TypeOK
<1>6. External(r)' /\ Named(r)' /\ Provider(r)' = Provider(r) /\ SecretKey(r)' = SecretKey(r)
  BY <1>2 DEF Chained, External, Named, Provider, SecretKey, storeVars
<1>7. Keyed(r)'
  <2>1. /\ SecretKey(r) \in SecretKeys
        /\ CredentialsFor(r) \in Versions(secretHistory[SecretKey(r)]) \cap Credentials
    BY <1>2, CredentialsFacts
  <2>2. UNCHANGED secretHistory
    BY <1>2 DEF storeVars
  <2>3. QED
    BY <1>2, <1>4, <1>6, <2>1, <2>2 DEF Keyed
<1>8. Chained(r)'
  BY <1>1, <1>2, <1>5, <1>6, <1>7 DEF Chained, Sent
<1>9. \A q \in Requests \ {r} : Untouched(q)
  BY <1>1, <1>2, <1>4 DEF Untouched
<1>10. QED
  BY <1>8, <1>9

LEMMA SkipStep ==
  ASSUME ChainInOrder, TypeOK, NEW r \in Requests, Chained(r),
         TranslateSkips(r) \/ InjectSkips(r)
  PROVE  Chained(r)' /\ \A q \in Requests \ {r} : Untouched(q)
<1>1. /\ Injected(r) => Injected(r)' /\ stage[r] = "request"
      /\ stage'[r] = "request"
      /\ \A q \in Requests \ {r} : at'[q] = at[q] /\ stage'[q] = stage[q]
  BY ProceedMovesOn DEF TranslateSkips, InjectSkips, AtPlugin
<1>2. ~External(r) /\ UNCHANGED <<model, cycleState, headers, format>>
  BY DEF TranslateSkips, InjectSkips
<1>3. ~External(r)'
  BY <1>2 DEF External
<1>5. Chained(r)'
  BY <1>1, <1>2, <1>3 DEF Chained, Sent
<1>6. \A q \in Requests \ {r} : Untouched(q)
  BY <1>1, <1>2 DEF Untouched
<1>7. QED
  BY <1>5, <1>6

\* A request that fails keeps what its plugins did to it, and is never sent.
LEMMA FailedStaysChained ==
  ASSUME HistoriesGrow, NEW r \in Requests, Chained(r), stage'[r] = "failed",
         at'[r] = at[r], model'[r] = model[r], cycleState'[r] = cycleState[r],
         headers'[r] = headers[r], format'[r] = format[r], stage[r] # "done"
  PROVE  Chained(r)'
<1>1. External(r)' <=> External(r)
  BY DEF External
<1>2. Named(r) => Named(r)'
  BY DEF Named, HistoriesGrow, Provider
<1>3. Keyed(r) => Keyed(r)'
  BY DEF Keyed, HistoriesGrow, Provider, SecretKey
<1>4. PastUnchanged(r)
  BY DEF PastUnchanged, Past, Resolved, Translated, Injected
<1>5. QED
  BY <1>1, <1>2, <1>3, <1>4 DEF Chained, Provider, Sent, PastUnchanged

LEMMA FailStep ==
  ASSUME HistoriesGrow, TypeOK, NEW r \in Requests, Chained(r),
         TranslateFails(r) \/ InjectFails(r)
  PROVE  Chained(r)' /\ \A q \in Requests \ {r} : Untouched(q)
<1>1. /\ stage[r] = "request"
      /\ stage' = [stage EXCEPT ![r] = "failed"]
      /\ UNCHANGED <<at, model, cycleState, headers, format>>
  BY DEF TranslateFails, InjectFails, AtPlugin, Fail
<1>2. stage'[r] = "failed" /\ \A q \in Requests \ {r} : stage'[q] = stage[q]
  BY <1>1 DEF TypeOK
<1>3. Chained(r)'
  BY <1>1, <1>2, FailedStaysChained
<1>4. QED
  BY <1>1, <1>2, <1>3 DEF Untouched

LEMMA UpstreamStep ==
  ASSUME ChainInOrder, TypeOK, NEW r \in Requests, Chained(r), Forward(r) \/ Answer(r)
  PROVE  Chained(r)' /\ \A q \in Requests \ {r} : Untouched(q)
<1>1. /\ stage'[r] \in {"upstream", "response"}
      /\ \A q \in Requests \ {r} : stage'[q] = stage[q]
      /\ UNCHANGED <<storeVars, at, model, cycleState, headers, format>>
  BY DEF Forward, Answer, TypeOK
<1>2. Injected(r) /\ PastUnchanged(r)
  <2>1. CASE Forward(r)
    BY <2>1, PastFacts DEF Forward, PastUnchanged, Past, Resolved, Translated, Injected
  <2>2. CASE Answer(r)
    BY <1>1, <2>2 DEF Answer, Chained, Sent, PastUnchanged, Past, Resolved, Translated, Injected
  <2>3. QED
    BY <2>1, <2>2
<1>3. stage[r] \notin {"new", "done"}
  BY DEF Forward, Answer
<1>4. /\ External(r)' <=> External(r)
      /\ Named(r)' <=> Named(r)
      /\ Keyed(r)' <=> Keyed(r)
      /\ Provider(r)' = Provider(r)
  BY <1>1 DEF External, Named, Keyed, Provider, SecretKey, storeVars
<1>5. Chained(r)'
  BY <1>1, <1>2, <1>3, <1>4, PastFacts DEF Chained, Sent, PastUnchanged
<1>6. QED
  BY <1>1, <1>5 DEF Untouched

\* A plugin of another kind changes nothing but the place of its request.
LEMMA OtherPluginStep ==
  ASSUME ChainInOrder, HistoriesGrow, TypeOK, NEW r \in Requests, Chained(r), OtherPlugin(r)
  PROVE  Chained(r)' /\ \A q \in Requests \ {r} : Untouched(q)
<1>1. stage[r] = "request" /\ UNCHANGED <<storeVars, model, cycleState, headers, format>>
  BY DEF OtherPlugin
<1>2. CASE Proceed(r)
  <2>1. /\ stage'[r] = "request" /\ PastUnchanged(r)
        /\ \A q \in Requests \ {r} : at'[q] = at[q] /\ stage'[q] = stage[q]
    <3>1. /\ stage[r] = "request" /\ at[r] <= Len(Chain)
          /\ Chain[at[r]] # "model-provider-resolver"
          /\ Chain[at[r]] # "api-translation"
          /\ Chain[at[r]] # "apikey-injection"
      BY DEF OtherPlugin
    <3>2. QED
      BY <1>2, <3>1, ProceedMovesOn DEF PastUnchanged
  <2>2. /\ External(r)' <=> External(r)
        /\ Named(r)' <=> Named(r)
        /\ Keyed(r)' <=> Keyed(r)
        /\ Provider(r)' = Provider(r)
    BY <1>1 DEF External, Named, Keyed, Provider, SecretKey, storeVars
  <2>3. Chained(r)'
    BY <1>1, <2>1, <2>2 DEF Chained, Sent, PastUnchanged
  <2>4. QED
    BY <1>1, <2>1, <2>3 DEF Untouched
<1>3. CASE Fail(r)
  <2>1. stage'[r] = "failed" /\ at' = at /\ \A q \in Requests \ {r} : stage'[q] = stage[q]
    BY <1>3 DEF Fail, TypeOK
  <2>2. Chained(r)'
    BY <1>1, <2>1, FailedStaysChained
  <2>3. QED
    BY <1>1, <2>1, <2>2 DEF Untouched
<1>4. QED
  BY <1>2, <1>3 DEF OtherPlugin

LEMMA ResponseStep ==
  ASSUME ChainInOrder, TypeOK, NEW r \in Requests, Chained(r), TranslateResponse(r)
  PROVE  Chained(r)' /\ \A q \in Requests \ {r} : Untouched(q)
<1>1. /\ stage[r] = "response" /\ stage'[r] = "done"
      /\ \A q \in Requests \ {r} : stage'[q] = stage[q] /\ format'[q] = format[q]
      /\ UNCHANGED <<storeVars, at, model, cycleState, headers>>
  BY DEF TranslateResponse, TypeOK
<1>2. Injected(r) /\ Translated(r) /\ Resolved(r) /\ PastUnchanged(r)
  BY <1>1, PastFacts DEF Chained, Sent, PastUnchanged, Past, Resolved, Translated, Injected
<1>3. format'[r] = IF Provider(r) = Unset THEN format[r]
                   ELSE TranslateBack(Provider(r), format[r])
  BY DEF TranslateResponse, ResponseProvider, Provider, TypeOK
<1>4. format'[r] = OpenAI
  <2>1. CASE ~External(r)
    BY <1>3, <2>1 DEF Chained, External, Provider
  <2>2. CASE External(r)
    <3>1. format[r] = Native(Provider(r)) /\ Provider(r) # Unset
      BY <1>1, <1>2, <2>2 DEF Chained, External, Provider
    <3>2. QED
      BY <1>3, <3>1 DEF TranslateBack, Native
  <2>3. QED
    BY <2>1, <2>2
<1>5. /\ External(r)' <=> External(r)
      /\ Named(r)' <=> Named(r)
      /\ Keyed(r)' <=> Keyed(r)
      /\ Provider(r)' = Provider(r)
  BY <1>1 DEF External, Named, Keyed, Provider, SecretKey, storeVars
<1>6. Chained(r)'
  BY <1>1, <1>2, <1>4, <1>5 DEF Chained, Sent, PastUnchanged
<1>7. QED
  BY <1>1, <1>6 DEF Untouched
-----------------------------------------------------------------------------

LEMMA InvInit == ChainInOrder /\ Init => Inv
BY TypeInit, StoresInit, ChainedInit DEF Inv

LEMMA InvStep ==
  ASSUME ChainInOrder
  PROVE  Inv /\ [Next]_vars => Inv'
<1> SUFFICES ASSUME Inv, [Next]_vars PROVE Inv'
  OBVIOUS
<1>1. StoresShowVersions' /\ HistoriesGrow
  BY StoresStep DEF Inv
<1>2. TypeOK'
  BY TypeStep DEF Inv
<1>3. ASSUME NEW r \in Requests, \/ Arrive(r) \/ PluginStep(r) \/ Forward(r) \/ Answer(r)
                                 \/ TranslateResponse(r) \/ OtherPlugin(r)
      PROVE  Chained(r)' /\ \A q \in Requests \ {r} : Untouched(q)
  BY <1>1, <1>3, ArriveStep, ResolveStep, TranslateStep, InjectStep, SkipStep, FailStep,
     UpstreamStep, ResponseStep, OtherPluginStep DEF PluginStep, Inv
<1>4. ASSUME NEW r \in Requests, Chained(r)', \A q \in Requests \ {r} : Untouched(q)
      PROVE  \A q \in Requests : Chained(q)'
  BY <1>1, <1>4, UntouchedStaysChained DEF Inv
<1>5. ASSUME UNCHANGED requestVars
      PROVE  \A q \in Requests : Chained(q)'
  <2>1. \A q \in Requests : Untouched(q)
    BY <1>5 DEF requestVars, Untouched
  <2>2. QED
    BY <1>1, <2>1, UntouchedStaysChained DEF Inv
<1>6. ASSUME Restart
      PROVE  \A q \in Requests : Chained(q)'
  <2>1. TAKE q \in Requests
  <2>2. /\ stage'[q] = IF InFlight(q) THEN "failed" ELSE stage[q]
        /\ UNCHANGED <<at, model, cycleState, headers, format>>
    BY <1>6 DEF Restart
  <2>3. CASE InFlight(q)
    BY <1>1, <2>2, <2>3, FailedStaysChained DEF InFlight, Inv
  <2>4. CASE ~InFlight(q)
    BY <1>1, <2>2, <2>4, UntouchedStaysChained DEF Untouched, Inv
  <2>5. QED
    BY <2>3, <2>4
<1>7. \A q \in Requests : Chained(q)'
  BY <1>3, <1>4, <1>5, <1>6 DEF Next, CoreNext, ModelStoreStep, SecretStoreStep, vars
<1>8. QED
  BY <1>1, <1>2, <1>7 DEF Inv

LEMMA InvAlways == ChainInOrder => (Spec => []Inv)
<1> SUFFICES ASSUME ChainInOrder PROVE Spec => []Inv
  OBVIOUS
<1>1. Inv /\ [Next]_vars => Inv'
  BY InvStep
<1>2. QED
  BY <1>1, InvInit, PTL DEF Spec

\* In such a chain, whatever the stores do between the plugins, a request sent to
\* an external model has the provider, the key, the header and the body of one version
\* of the model and one version of the Secret that version names.
THEOREM SentRequestsAreConsistent == ChainInOrder => (Spec => []SentRequestIsConsistent)
<1> SUFFICES ASSUME ChainInOrder PROVE Spec => []SentRequestIsConsistent
  OBVIOUS
<1>1. Inv => SentRequestIsConsistent
  <2> SUFFICES ASSUME Inv, NEW r \in Requests, Sent(r), External(r)
               PROVE  \E info \in Versions(modelHistory[model[r]]) :
                        LET k == <<info.credentialRefNamespace, info.credentialRefName>>
                            p == info.provider
                        IN  /\ info # NoInfo
                            /\ p = cycleState[r].provider
                            /\ k \in SecretKeys
                            /\ stage[r] = "done" \/ format[r] = Native(p)
                            /\ \E j \in DOMAIN secretHistory[k] :
                                 LET c == secretHistory[k][j]
                                 IN  /\ c \in Credentials /\ ApiKeyField \in DOMAIN c
                                     /\ headers[r][AuthHeader[p]] = c[ApiKeyField]
    BY DEF SentRequestIsConsistent, Versions
  <2>1. /\ Named(r) /\ Keyed(r)
        /\ stage[r] = "done" \/ format[r] = Native(Provider(r))
    BY PastFacts DEF Inv, Chained
  <2>2. PICK info \in Versions(modelHistory[model[r]]) \ {NoInfo} :
          /\ info.provider = Provider(r)
          /\ info.credentialRefName = cycleState[r].credsName
          /\ info.credentialRefNamespace = cycleState[r].credsNamespace
    BY <2>1 DEF Named
  <2>3. <<info.credentialRefNamespace, info.credentialRefName>> = SecretKey(r)
    BY <2>2 DEF SecretKey
  <2>4. PICK j \in DOMAIN secretHistory[SecretKey(r)] :
          /\ secretHistory[SecretKey(r)][j] \in Credentials
          /\ ApiKeyField \in DOMAIN secretHistory[SecretKey(r)][j]
          /\ headers[r][AuthHeader[Provider(r)]] = secretHistory[SecretKey(r)][j][ApiKeyField]
    BY <2>1 DEF Keyed, Versions
  <2>5. SecretKey(r) \in SecretKeys /\ Provider(r) = cycleState[r].provider
    BY <2>1 DEF Keyed, Provider
  <2> WITNESS info \in Versions(modelHistory[model[r]])
  <2>6. QED
    BY <2>1, <2>2, <2>3, <2>4, <2>5
<1>2. QED
  BY <1>1, InvAlways, PTL

\* In such a chain the token of the client never goes to a provider.
THEOREM ClientTokensStay == ChainInOrder => (Spec => []NoForeignCredential)
<1> SUFFICES ASSUME ChainInOrder PROVE Spec => []NoForeignCredential
  OBVIOUS
<1>1. Inv => NoForeignCredential
  BY DEF Inv, Chained, NoForeignCredential, Provider
<1>2. QED
  BY <1>1, InvAlways, PTL

\* In such a chain every client is answered in the format it asked in.
THEOREM ClientsGetOpenAI == ChainInOrder => (Spec => []ClientGetsOpenAI)
<1> SUFFICES ASSUME ChainInOrder PROVE Spec => []ClientGetsOpenAI
  OBVIOUS
<1>1. Inv => ClientGetsOpenAI
  BY DEF Inv, Chained, ClientGetsOpenAI
<1>2. QED
  BY <1>1, InvAlways, PTL
-----------------------------------------------------------------------------
(* The gateway with guards (GuardedGateway): it is a Gateway, so what has  *)
(* been shown of chains in order holds of it; and no request for a model   *)
(* is sent that a guard has not seen, but for the gap the property names.  *)
(*                                                                         *)
(* The invariant (Guarded) is about where a request stands: the guard at a *)
(* place behind it has let its messages pass, or the request names no      *)
(* model, or has been translated before that place.  A guard that skips a  *)
(* request for a model is in the last case: only a translation moves the   *)
(* model out of the body, and the provider it was made for stays the one   *)
(* of the CycleState.                                                      *)

GuardedAt(r, n) ==
  n < at[r] /\ Chain[n] = "nemo-request-guard" /\ model[r] # NoModel =>
    <<r, n>> \in passed \/ ModelIsMovedBefore(r, n)

Guarded(r) == \A n \in 1 .. Len(Chain) : GuardedAt(r, n)

\* What is sent has been at every place of the chain.
SentIsPastAll(r) == Sent(r) => at[r] > Len(Chain)

GuardedInv == Inv /\ \A r \in Requests : Guarded(r) /\ SentIsPastAll(r)

-----------------------------------------------------------------------------

LEMMA GuardIsOtherPlugin ==
  ASSUME NEW r \in Requests, Guard(r)
  PROVE  OtherPlugin(r)
<1>1. Proceed(r) \/ Fail(r)
  BY DEF Guard, GuardSkips, GuardPasses, GuardFails
<1>2. QED
  BY <1>1 DEF Guard, AtGuard, AtPlugin, OtherPlugin

LEMMA GuardedStepIsStep == [GuardedNext]_guardedVars => [Next]_vars
BY GuardIsOtherPlugin DEF GuardedNext, guardedVars, Next

\* A gateway with the guard does what a Gateway may do, in any chain: the theorems about
\* Gateway are theorems about it.
THEOREM GuardedImplementsGateway == GuardedSpec => Spec
<1>1. GuardedInit => Init
  BY DEF GuardedInit
<1>2. QED
  BY <1>1, GuardedStepIsStep, PTL DEF GuardedSpec, Spec

\* The guarded gateway keeps what the requests it sends are made of in one piece.
THEOREM GuardedRequestsAreConsistent ==
  ChainInOrder => (GuardedSpec => []SentRequestIsConsistent)
BY GuardedImplementsGateway, SentRequestsAreConsistent, PTL

-----------------------------------------------------------------------------

\* A guard skips a request for a model only behind the translation that has moved the model.
LEMMA SkippedIsMoved ==
  ASSUME ChainInOrder, TypeOK, NEW r \in Requests, Chained(r), AtGuard(r), GuardSkips(r),
         model[r] # NoModel
  PROVE  ModelIsMovedBefore(r, at[r])
<1>1. format[r] \in Modelless /\ format[r] # OpenAI
  BY GuardAssumption DEF GuardSkips, BodyNamesModel
<1>2. Translated(r) /\ External(r)
  BY <1>1 DEF Chained
<1>3. format[r] = Native(cycleState[r].provider)
  BY <1>2 DEF Chained, Provider, AtGuard, AtPlugin
<1>4. QED
  BY <1>1, <1>2, <1>3 DEF ModelIsMovedBefore, Translated, Past

\* A request goes on by one place, and by the action of the plugin it was at.
LEMMA GoesOn ==
  ASSUME ChainInOrder, TypeOK, [Next]_vars, NEW r \in Requests, at'[r] # at[r]
  PROVE  stage[r] = "request" /\ at[r] <= Len(Chain) /\ at'[r] = at[r] + 1
<1>1. at \in [Requests -> 1 .. Len(Chain) + 1] /\ Len(Chain) \in Nat
  BY DEF TypeOK, ChainInOrder
<1>2. PICK q \in Requests : OtherPlugin(q) \/ PluginStep(q)
  BY DEF Next, CoreNext, vars, requestVars, Arrive, Forward, Answer, TranslateResponse,
         ModelStoreStep, SecretStoreStep, Restart
<1>3. Proceed(q) \/ at' = at
  BY <1>2 DEF PluginStep, OtherPlugin, Resolve, TranslateSkips, Translate, TranslateFails,
              InjectSkips, Inject, InjectFails, Fail
<1>4. stage[q] = "request" /\ at[q] <= Len(Chain)
  BY <1>2 DEF PluginStep, OtherPlugin, Resolve, TranslateSkips, Translate, TranslateFails,
              InjectSkips, Inject, InjectFails, AtPlugin
<1>5. at' = [at EXCEPT ![q] = @ + 1]
  BY <1>3 DEF Proceed
<1>6. QED
  BY <1>1, <1>4, <1>5

\* The model of a request that has arrived does not change.
LEMMA ModelIsKept ==
  ASSUME [Next]_vars, NEW r \in Requests, stage[r] # "new"
  PROVE  model'[r] = model[r]
<1>2. ASSUME NEW q \in Requests, Arrive(q) PROVE model'[r] = model[r]
  BY <1>2 DEF Arrive
<1>3. ASSUME NEW q \in Requests, PluginStep(q) \/ OtherPlugin(q) PROVE UNCHANGED model
  BY <1>3 DEF PluginStep, Resolve, TranslateSkips, Translate, TranslateFails, InjectSkips, Inject,
     InjectFails, OtherPlugin
<1>4. ASSUME NEW q \in Requests, Forward(q) \/ Answer(q) \/ TranslateResponse(q)
      PROVE  UNCHANGED model
  BY <1>4 DEF Forward, Answer, TranslateResponse
<1>5. ASSUME ModelStoreStep \/ SecretStoreStep \/ Restart PROVE UNCHANGED model
  BY <1>5 DEF ModelStoreStep, SecretStoreStep, Restart, requestVars
<1>6. QED
  BY <1>2, <1>3, <1>4, <1>5 DEF Next, CoreNext, vars, requestVars

\* A request is at the resolver once, so that behind the translation its CycleState stays.
LEMMA CycleStateIsKept ==
  ASSUME ChainInOrder, TypeOK, [Next]_vars, NEW r \in Requests, Translated(r)
  PROVE  cycleState'[r] = cycleState[r]
<1>1. at[r] \in 1 .. Len(Chain) + 1 /\ Len(Chain) \in Nat
  BY DEF TypeOK, ChainInOrder
<1>2. ~AtPlugin(r, "model-provider-resolver")
  BY <1>1 DEF AtPlugin, Translated, Past, ChainInOrder
<1>3. ASSUME NEW q \in Requests, Resolve(q) PROVE cycleState'[r] = cycleState[r]
  BY <1>2, <1>3 DEF Resolve
<1>4. ASSUME NEW q \in Requests, PluginStep(q) \/ OtherPlugin(q), ~Resolve(q)
      PROVE  UNCHANGED cycleState
  BY <1>4 DEF PluginStep, TranslateSkips, Translate, TranslateFails, InjectSkips, Inject,
     InjectFails, OtherPlugin
<1>5. ASSUME NEW q \in Requests, Arrive(q) \/ Forward(q) \/ Answer(q) \/ TranslateResponse(q)
      PROVE  UNCHANGED cycleState
  BY <1>5 DEF Arrive, Forward, Answer, TranslateResponse
<1>6. ASSUME ModelStoreStep \/ SecretStoreStep \/ Restart PROVE UNCHANGED cycleState
  BY <1>6 DEF ModelStoreStep, SecretStoreStep, Restart, requestVars
<1>7. QED
  BY <1>3, <1>4, <1>5, <1>6 DEF Next, CoreNext, vars, requestVars

\* A request at a guard goes on by an action of the guard only.
LEMMA GuardTakesIt ==
  ASSUME ChainInOrder, TypeOK, [GuardedNext]_guardedVars, NEW r \in Requests, AtGuard(r),
         at'[r] # at[r]
  PROVE  Guard(r)
<1>1. at \in [Requests -> 1 .. Len(Chain) + 1]
  BY DEF TypeOK
<1>2. ASSUME NEW q \in Requests, q # r, Guard(q) \/ OtherPlugin(q) PROVE FALSE
  BY <1>1, <1>2 DEF Guard, GuardSkips, GuardPasses, GuardFails, OtherPlugin, Proceed, Fail
<1>3. ASSUME CoreNext PROVE FALSE
  <2>1. PICK q \in Requests : PluginStep(q)
    BY <1>3 DEF CoreNext, Arrive, Forward, Answer, TranslateResponse, ModelStoreStep,
       SecretStoreStep, Restart, requestVars
  <2>2. q = r
    BY <1>1, <2>1 DEF PluginStep, Resolve, TranslateSkips, Translate, TranslateFails,
       InjectSkips, Inject, InjectFails, Proceed, Fail
  <2>3. QED
    BY <2>1, <2>2 DEF PluginStep, Resolve, TranslateSkips, Translate, TranslateFails,
       InjectSkips, Inject, InjectFails, AtGuard, AtPlugin
<1>4. ~UNCHANGED guardedVars
  BY DEF guardedVars, vars, requestVars
<1>5. QED
  BY <1>2, <1>3, <1>4 DEF GuardedNext

\* What is sent stays at the end of the chain.
LEMMA SentStep ==
  ASSUME ChainInOrder, TypeOK, [Next]_vars, NEW r \in Requests, SentIsPastAll(r)
  PROVE  SentIsPastAll(r)'
<1>1. stage \in [Requests -> {"new", "request", "upstream", "response", "done", "failed"}]
  BY DEF TypeOK
<1>2. CASE Sent(r)
  <2>1. at'[r] = at[r]
    BY <1>2, GoesOn DEF Sent
  <2>2. QED
    BY <1>2, <2>1 DEF SentIsPastAll
<1>3. CASE ~Sent(r) /\ Sent(r)'
  <2>1. ASSUME NEW q \in Requests, Forward(q) PROVE SentIsPastAll(r)'
    BY <1>1, <1>3, <2>1 DEF Forward, Sent, SentIsPastAll
  <2>2. ASSUME NEW q \in Requests, Arrive(q) \/ Answer(q) \/ TranslateResponse(q) PROVE FALSE
    BY <1>1, <1>3, <2>2 DEF Arrive, Answer, TranslateResponse, Sent
  <2>3. ASSUME NEW q \in Requests, PluginStep(q) \/ OtherPlugin(q) PROVE FALSE
    <3>1. Proceed(q) \/ Fail(q)
      BY <2>3 DEF PluginStep, OtherPlugin, Resolve, TranslateSkips, Translate, TranslateFails,
                  InjectSkips, Inject, InjectFails
    <3>2. QED
      BY <1>1, <1>3, <3>1 DEF Proceed, Fail, Sent
  <2>4. ASSUME ModelStoreStep \/ SecretStoreStep \/ Restart PROVE FALSE
    BY <1>1, <1>3, <2>4 DEF ModelStoreStep, SecretStoreStep, Restart, requestVars, Sent
  <2>5. ~UNCHANGED vars
    BY <1>3 DEF vars, requestVars, Sent
  <2>6. QED
    BY <2>1, <2>2, <2>3, <2>4, <2>5 DEF Next, CoreNext
<1>4. QED
  BY <1>2, <1>3 DEF SentIsPastAll

LEMMA GuardedStep ==
  ASSUME ChainInOrder
  PROVE  GuardedInv /\ [GuardedNext]_guardedVars => GuardedInv'
<1> SUFFICES ASSUME GuardedInv, [GuardedNext]_guardedVars PROVE GuardedInv'
  OBVIOUS
<1>1. [Next]_vars
  BY GuardedStepIsStep
<1>2. Inv'
  BY <1>1, InvStep DEF GuardedInv
<1>3. passed \subseteq passed'
  BY DEF GuardedNext, guardedVars, Guard, GuardSkips, GuardPasses, GuardFails
<1>4. ASSUME NEW r \in Requests, NEW n \in 1 .. Len(Chain),
             n < at'[r], Chain[n] = "nemo-request-guard", model'[r] # NoModel
      PROVE  <<r, n>> \in passed' \/ ModelIsMovedBefore(r, n)'
  <2>0. TypeOK /\ Chained(r) /\ GuardedAt(r, n)
    BY DEF GuardedInv, Inv, Guarded
  <2>1. at \in [Requests -> 1 .. Len(Chain) + 1] /\ Len(Chain) \in Nat
    BY <2>0 DEF TypeOK, ChainInOrder
  <2>2. CASE n < at[r]
    <3>1. model'[r] = model[r]
      BY <1>1, <2>0, <2>1, <2>2, ModelIsKept DEF Chained
    <3>2. ASSUME ModelIsMovedBefore(r, n) PROVE ModelIsMovedBefore(r, n)'
      <4>1. Translated(r)
        BY <2>1, <2>2, <3>2 DEF ModelIsMovedBefore, Translated, Past
      <4>2. cycleState'[r] = cycleState[r]
        BY <1>1, <2>0, <4>1, CycleStateIsKept
      <4>3. QED
        BY <3>2, <4>2 DEF ModelIsMovedBefore, External
    <3>3. QED
      BY <1>3, <1>4, <2>0, <2>2, <3>1, <3>2 DEF GuardedAt
  <2>3. CASE ~(n < at[r])
    <3>1. stage[r] = "request" /\ at'[r] = at[r] + 1
      BY <1>1, <1>4, <2>0, <2>3, GoesOn
    <3>2. n = at[r]
      BY <1>4, <2>1, <2>3, <3>1
    <3>3. AtGuard(r)
      BY <1>4, <3>1, <3>2 DEF AtGuard, AtPlugin
    <3>4. Guard(r)
      BY <2>0, <2>1, <3>1, <3>3, GuardTakesIt
    <3>5. CASE GuardSkips(r)
      <4>1. UNCHANGED <<model, cycleState>>
        BY <3>4 DEF Guard
      <4>2. ModelIsMovedBefore(r, n)
        BY <1>4, <2>0, <3>2, <3>3, <3>5, <4>1, SkippedIsMoved
      <4>3. QED
        BY <4>1, <4>2 DEF ModelIsMovedBefore, External
    <3>6. CASE GuardPasses(r)
      BY <3>2, <3>6 DEF GuardPasses
    <3>7. CASE GuardFails(r)
      BY <2>1, <3>1, <3>7 DEF GuardFails, Fail
    <3>8. QED
      BY <3>4, <3>5, <3>6, <3>7 DEF Guard
  <2>4. QED
    BY <2>2, <2>3
<1>5. ASSUME NEW r \in Requests PROVE SentIsPastAll(r)'
  BY <1>1, SentStep DEF GuardedInv, Inv
<1>6. QED
  BY <1>2, <1>4, <1>5 DEF GuardedInv, Guarded, GuardedAt

\* In a chain in order, whatever other plugins and however many guards it has and where they
\* stand, every request for a model that leaves the gateway has been let pass by every guard,
\* but for a guard behind the translation that has moved the model out of the body.
THEOREM RequestsAreGuarded == ChainInOrder => (GuardedSpec => []SentRequestsAreGuarded)
<1> SUFFICES ASSUME ChainInOrder PROVE GuardedSpec => []SentRequestsAreGuarded
  OBVIOUS
<1>1. GuardedInit => GuardedInv
  <2> SUFFICES ASSUME GuardedInit PROVE GuardedInv
    OBVIOUS
  <2>1. Init /\ Inv
    BY InvInit DEF GuardedInit
  <2>2. ASSUME NEW r \in Requests PROVE Guarded(r) /\ SentIsPastAll(r)
    BY <2>1 DEF Init, Guarded, GuardedAt, SentIsPastAll, Sent
  <2>3. QED
    BY <2>1, <2>2 DEF GuardedInv
<1>2. GuardedInv /\ [GuardedNext]_guardedVars => GuardedInv'
  BY GuardedStep
<1>3. GuardedInv => SentRequestsAreGuarded
  <2> SUFFICES ASSUME GuardedInv, NEW r \in Requests, Sent(r), model[r] # NoModel,
                      NEW n \in 1 .. Len(Chain), Chain[n] = "nemo-request-guard"
               PROVE  <<r, n>> \in passed \/ ModelIsMovedBefore(r, n)
    BY DEF SentRequestsAreGuarded
  <2>1. at[r] \in 1 .. Len(Chain) + 1 /\ Len(Chain) \in Nat /\ at[r] > Len(Chain)
    BY DEF GuardedInv, Inv, TypeOK, ChainInOrder, SentIsPastAll
  <2>2. n < at[r]
    BY <2>1
  <2>3. QED
    BY <2>2 DEF GuardedInv, Guarded, GuardedAt
<1>4. QED
  BY <1>1, <1>2, <1>3, PTL DEF GuardedSpec

\* So a guard before api-translation sees every request for a model.
THEOREM FrontGuardSeesAll ==
  ASSUME ChainInOrder, NEW n \in 1 .. Len(Chain), Chain[n] = "nemo-request-guard",
         \A i \in 1 .. n - 1 : Chain[i] # "api-translation"
  PROVE  GuardedSpec =>
           [](\A r \in Requests : Sent(r) /\ model[r] # NoModel => <<r, n>> \in passed)
<1>1. SentRequestsAreGuarded =>
        \A r \in Requests : Sent(r) /\ model[r] # NoModel => <<r, n>> \in passed
  BY DEF SentRequestsAreGuarded, ModelIsMovedBefore
<1>2. QED
  BY <1>1, RequestsAreGuarded, PTL
=============================================================================
