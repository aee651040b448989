------------------------------ MODULE Gateway ------------------------------
(***************************************************************************)
(* The plugin chain of src/pkg/plugins as deployed (the plugins of         *)
(* deploy/payload-processing/values.yaml): concurrent requests run through *)
(* model-provider-resolver, api-translation and apikey-injection, reach    *)
(* their provider, and the responses come back through api-translation,    *)
(* while the two reconcilers go on changing the stores the plugins read.   *)
(*                                                                         *)
(* A plugin reads a store once, under its lock; between two plugins, and   *)
(* between the request and its response, anything may happen to the        *)
(* stores.  They are StoreViews, which is what ExternalModelReconciler and *)
(* SecretReconciler are shown to implement.                                *)
(*                                                                         *)
(* A chain may have other plugins too: the deployed one starts with        *)
(* body-field-to-header, which is outside this repository, and may have    *)
(* nemo-request-guard (GuardedGateway).  The route Envoy picks is not      *)
(* modelled.                                                               *)
(***************************************************************************)
EXTENDS Naturals, Sequences, FiniteSetsExt

CONSTANTS
  Requests,
  Chain,          \* the plugins of the deployment, in their order
  ExternalModels, \* model names an ExternalModel may have
  OtherModels,    \* model names no ExternalModel has, and no name at all
  ModelInfos,     \* the entries the resolver's store may hold
  NoInfo,
  SecretKeys,     \* <<namespace, name>>
  Credentials,    \* the entries the secret store may hold: fields to values
  NoCredentials,
  Refused,        \* marks of Secrets the injector's reconciler refuses
  Unset,          \* the empty string, a key not written to the CycleState, or no header
  Supported,      \* the providers in the maps of both plugins
  Compatible,     \* those of them that speak the OpenAI format
  Fallible,       \* those whose translator may refuse a body
  AuthHeader,     \* AuthHeader[p]: the header the generator of p sets
  ApiKeyField,    \* apiKeyField of auth/simple_auth_generator.go
  ClientToken,    \* the authorization header of a client
  OpenAI,         \* the format of the bodies a client sends and expects
  Garbled,        \* what a translator makes of a body it was not written for
  MaxChanges      \* bound on the changes of all models and Secrets together

ASSUME GatewayAssumption ==
  /\ Compatible \subseteq Supported
  /\ Fallible \subseteq Supported
  /\ Unset \notin Supported \cup {ClientToken}
  /\ Garbled # OpenAI
  /\ OpenAI \notin Supported \ Compatible
  /\ ExternalModels \cap OtherModels = {}
  /\ MaxChanges \in Nat
  \* The resolver's reconciler stores no entry without a provider.
  /\ NoInfo \notin ModelInfos
  /\ \A info \in ModelInfos : info.provider # Unset
  /\ NoCredentials \notin Credentials

VARIABLES
  modelHistory, modelApplied, models,      \* the resolver's store
  secretHistory, secretApplied, secrets,   \* the injector's store
  stage,       \* how far request r is
  at,          \* the plugin of the chain that sees it next
  model,       \* the model it names
  cycleState,  \* the CycleState of the request and of its response
  headers,     \* the authentication headers
  format       \* the format of the body, of the request or of the response

storeVars == <<modelHistory, modelApplied, models, secretHistory, secretApplied, secrets>>
requestVars == <<stage, at, model, cycleState, headers, format>>
vars == <<storeVars, requestVars>>

Models ==
  INSTANCE StoreView WITH
    Keys <- ExternalModels, Values <- ModelInfos, Nothing <- NoInfo, Rejects <- {},
    history <- modelHistory, applied <- modelApplied, view <- models

Secrets ==
  INSTANCE StoreView WITH
    Keys <- SecretKeys, Values <- Credentials, Nothing <- NoCredentials, Rejects <- Refused,
    history <- secretHistory, applied <- secretApplied, view <- secrets

-----------------------------------------------------------------------------

HeaderNames == {"authorization"} \cup {AuthHeader[p] : p \in Supported}

EmptyCycleState ==
  [model |-> Unset, provider |-> Unset, credsName |-> Unset, credsNamespace |-> Unset]

Init ==
  /\ Models!Init
  /\ Secrets!Init
  /\ stage = [r \in Requests |-> "new"]
  /\ at = [r \in Requests |-> 1]
  /\ model = [r \in Requests |-> Unset]
  /\ cycleState = [r \in Requests |-> EmptyCycleState]
  /\ headers = [r \in Requests |-> [h \in HeaderNames |-> Unset]]
  /\ format = [r \in Requests |-> OpenAI]

\* A client sends a request with its own token, in the OpenAI format.
Arrive(r) ==
  /\ stage[r] = "new"
  /\ stage' = [stage EXCEPT ![r] = "request"]
  /\ \E m \in ExternalModels \cup OtherModels : model' = [model EXCEPT ![r] = m]
  /\ headers' = [headers EXCEPT ![r]["authorization"] = ClientToken]
  /\ UNCHANGED <<storeVars, at, cycleState, format>>

\* The next plugin of request r is the one named.
AtPlugin(r, name) ==
  /\ stage[r] = "request"
  /\ at[r] <= Len(Chain)
  /\ Chain[at[r]] = name

Proceed(r) ==
  /\ at' = [at EXCEPT ![r] = @ + 1]
  /\ UNCHANGED stage

\* A plugin returns an error: the framework answers the client, and the request goes
\* no further.
Fail(r) ==
  /\ stage' = [stage EXCEPT ![r] = "failed"]
  /\ UNCHANGED at

-----------------------------------------------------------------------------
(* model-provider-resolver.                                                *)

\* getModelInfo; a request without a model, or with a model of its own cluster, finds
\* nothing.
InfoFor(r) ==
  IF model[r] \in ExternalModels THEN models[model[r]] ELSE NoInfo

MutWrittenAlways(r) ==
  IF InfoFor(r) = NoInfo THEN [EmptyCycleState EXCEPT !.model = model[r]]
  ELSE [model          |-> model[r],
        provider       |-> InfoFor(r).provider,
        credsName      |-> InfoFor(r).credentialRefName,
        credsNamespace |-> InfoFor(r).credentialRefNamespace]

\* The CycleState after the writes, which leave out what is empty.
Written(r) ==
  IF InfoFor(r) = NoInfo THEN cycleState[r]
  ELSE [model          |-> model[r],
        provider       |-> InfoFor(r).provider,
        credsName      |-> InfoFor(r).credentialRefName,
        credsNamespace |-> InfoFor(r).credentialRefNamespace]

Resolve(r) ==
  /\ AtPlugin(r, "model-provider-resolver")
  /\ cycleState' = [cycleState EXCEPT ![r] = Written(r)]
  /\ Proceed(r)
  /\ UNCHANGED <<storeVars, model, headers, format>>

-----------------------------------------------------------------------------
(* api-translation, request side.                                          *)

External(r) == cycleState[r].provider # Unset

\* The format the translator of p turns a request into, and expects a response in.
Native(p) == IF p \in Compatible THEN OpenAI ELSE p

MutTranslateHeadersKeepsToken(r) == headers

\* RemoveHeader("authorization"), whatever the provider.
TranslateHeaders(r) == [headers EXCEPT ![r]["authorization"] = Unset]

TranslateSkips(r) ==
  /\ AtPlugin(r, "api-translation")
  /\ ~External(r)
  /\ Proceed(r)
  /\ UNCHANGED <<storeVars, model, cycleState, headers, format>>

Translate(r) ==
  LET p == cycleState[r].provider
  IN  /\ AtPlugin(r, "api-translation")
      /\ External(r)
      /\ p \in Supported
      /\ format' = [format EXCEPT ![r] = Native(p)]
      /\ headers' = TranslateHeaders(r)
      /\ Proceed(r)
      /\ UNCHANGED <<storeVars, model, cycleState>>

\* An unsupported provider, or a body its translator refuses.
TranslateFails(r) ==
  /\ AtPlugin(r, "api-translation")
  /\ External(r)
  /\ cycleState[r].provider \notin Supported \ Fallible
  /\ Fail(r)
  /\ UNCHANGED <<storeVars, model, cycleState, headers, format>>

-----------------------------------------------------------------------------
(* apikey-injection.                                                       *)

MutSecretKeyFromStore(r) ==
  IF InfoFor(r) = NoInfo THEN <<cycleState[r].credsNamespace, cycleState[r].credsName>>
  ELSE <<InfoFor(r).credentialRefNamespace, InfoFor(r).credentialRefName>>

SecretKey(r) == <<cycleState[r].credsNamespace, cycleState[r].credsName>>

\* A reference with an empty part is no key, and finds nothing.
CredentialsFor(r) ==
  IF SecretKey(r) \in SecretKeys THEN secrets[SecretKey(r)] ELSE NoCredentials

\* GenerateAuthHeaders makes a header of a Secret that has the field of the key.
Generates(credentials) == ApiKeyField \in DOMAIN credentials

\* The reference is complete, the Secret is in the store, and the provider has a generator,
\* which makes a header of it.
Injectable(r) ==
  /\ CredentialsFor(r) # NoCredentials
  /\ cycleState[r].provider \in Supported
  /\ Generates(CredentialsFor(r))

InjectSkips(r) ==
  /\ AtPlugin(r, "apikey-injection")
  /\ ~External(r)
  /\ Proceed(r)
  /\ UNCHANGED <<storeVars, model, cycleState, headers, format>>

Inject(r) ==
  /\ AtPlugin(r, "apikey-injection")
  /\ External(r)
  /\ Injectable(r)
  /\ headers' = [headers EXCEPT ![r][AuthHeader[cycleState[r].provider]] =
                   CredentialsFor(r)[ApiKeyField]]
  /\ Proceed(r)
  /\ UNCHANGED <<storeVars, model, cycleState, format>>

InjectFails(r) ==
  /\ AtPlugin(r, "apikey-injection")
  /\ External(r)
  /\ ~Injectable(r)
  /\ Fail(r)
  /\ UNCHANGED <<storeVars, model, cycleState, headers, format>>

-----------------------------------------------------------------------------
(* Every other plugin.                                                     *)

\* It lets the request pass or answers the client itself; none of them touches the CycleState
\* or the authentication headers, or writes to the body.
OtherPlugin(r) ==
  /\ stage[r] = "request"
  /\ at[r] <= Len(Chain)
  /\ Chain[at[r]] \notin {"model-provider-resolver", "api-translation", "apikey-injection"}
  /\ Proceed(r) \/ Fail(r)
  /\ UNCHANGED <<storeVars, model, cycleState, headers, format>>

-----------------------------------------------------------------------------
(* The provider, and the way back.                                         *)

\* The chain has let the request pass; it is sent upstream.
Forward(r) ==
  /\ stage[r] = "request"
  /\ at[r] > Len(Chain)
  /\ stage' = [stage EXCEPT ![r] = "upstream"]
  /\ UNCHANGED <<storeVars, at, model, cycleState, headers, format>>

\* The provider answers in the format it was asked in.
Answer(r) ==
  /\ stage[r] = "upstream"
  /\ stage' = [stage EXCEPT ![r] = "response"]
  /\ UNCHANGED <<storeVars, at, model, cycleState, headers, format>>

MutResponseProviderFromStore(r) ==
  IF InfoFor(r) = NoInfo THEN Unset ELSE InfoFor(r).provider

\* ProcessResponse reads the provider from the CycleState of the request.
ResponseProvider(r) == cycleState[r].provider

\* What the translator of p makes of a response; the OpenAI-compatible ones leave the
\* format as it is.
TranslateBack(p, f) ==
  IF p \in Compatible THEN f ELSE IF f = Native(p) THEN OpenAI ELSE Garbled

TranslateResponse(r) ==
  /\ stage[r] = "response"
  /\ stage' = [stage EXCEPT ![r] = "done"]
  /\ format' = [format EXCEPT ![r] =
                  IF ResponseProvider(r) = Unset THEN @
                  ELSE TranslateBack(ResponseProvider(r), @)]
  /\ UNCHANGED <<storeVars, at, model, cycleState, headers>>

-----------------------------------------------------------------------------
(* The stores, and the process.                                            *)

\* The versions after the first ones.
Changes ==
    MapThenSumSet(LAMBDA m : Len(modelHistory[m]) - 1, ExternalModels)
  + MapThenSumSet(LAMBDA k : Len(secretHistory[k]) - 1, SecretKeys)

ModelStoreStep ==
  /\ \E m \in ExternalModels :
       \/ Changes < MaxChanges /\ Models!Publish(m)
       \/ \E i \in DOMAIN modelHistory[m] : Models!Apply(m, i)
  /\ UNCHANGED <<secretHistory, secretApplied, secrets, requestVars>>

SecretStoreStep ==
  /\ \E k \in SecretKeys :
       \/ Changes < MaxChanges /\ Secrets!Publish(k)
       \/ \E i \in DOMAIN secretHistory[k] : Secrets!Apply(k, i)
  /\ UNCHANGED <<modelHistory, modelApplied, models, requestVars>>

InFlight(r) == stage[r] \in {"request", "upstream", "response"}

\* The process restarts: both stores are empty until the informers have listed again,
\* and the requests in flight are lost.
Restart ==
  /\ Models!Forget
  /\ Secrets!Forget
  /\ stage' = [r \in Requests |-> IF InFlight(r) THEN "failed" ELSE stage[r]]
  /\ UNCHANGED <<at, model, cycleState, headers, format>>

PluginStep(r) ==
  \/ Resolve(r)
  \/ TranslateSkips(r) \/ Translate(r) \/ TranslateFails(r)
  \/ InjectSkips(r) \/ Inject(r) \/ InjectFails(r)

CoreNext ==
  \/ \E r \in Requests :
       Arrive(r) \/ PluginStep(r) \/ Forward(r) \/ Answer(r) \/ TranslateResponse(r)
  \/ ModelStoreStep
  \/ SecretStoreStep
  \/ Restart

Next == CoreNext \/ \E r \in Requests : OtherPlugin(r)

Spec == Init /\ [][Next]_vars

-----------------------------------------------------------------------------
(* Properties.                                                             *)

\* What a Secret may hold under some field.
Keys == UNION {{c[f] : f \in DOMAIN c} : c \in Credentials}

Sent(r) == stage[r] \in {"upstream", "response", "done"}

TypeOK ==
  /\ stage \in [Requests -> {"new", "request", "upstream", "response", "done", "failed"}]
  /\ at \in [Requests -> 1 .. Len(Chain) + 1]
  /\ cycleState \in [Requests -> {EmptyCycleState} \cup
       [model : ExternalModels, provider : {i.provider : i \in ModelInfos},
        credsName : {i.credentialRefName : i \in ModelInfos},
        credsNamespace : {i.credentialRefNamespace : i \in ModelInfos}]]
  /\ headers \in [Requests -> [HeaderNames -> {Unset, ClientToken} \cup Keys]]
  /\ format \in [Requests -> {OpenAI, Garbled} \cup Supported]

\* What left the gateway for an external model is of one piece, however the stores changed
\* on its way: there is ONE version of the model that named its provider and its Secret,
\* the key is the one of a version of THAT Secret, it is in the header of THAT provider,
\* and the body is in the format of THAT provider.
SentRequestIsConsistent ==
  \A r \in Requests : Sent(r) /\ External(r) =>
    \E info \in {modelHistory[model[r]][i] : i \in DOMAIN modelHistory[model[r]]} :
      LET k == <<info.credentialRefNamespace, info.credentialRefName>>
          p == info.provider
      IN  /\ info # NoInfo
          /\ p = cycleState[r].provider
          /\ k \in SecretKeys
          /\ stage[r] = "done" \/ format[r] = Native(p)
          /\ \E j \in DOMAIN secretHistory[k] :
               LET c == secretHistory[k][j]
               IN  /\ c \in Credentials /\ ApiKeyField \in DOMAIN c
                   /\ headers[r][AuthHeader[p]] = c[ApiKeyField]

\* A provider never gets the token the client sent to the gateway, and gets no key in
\* another header than its own.
NoForeignCredential ==
  \A r \in Requests : Sent(r) /\ External(r) =>
    \A h \in HeaderNames \ {AuthHeader[cycleState[r].provider]} : headers[r][h] = Unset

\* The client gets an answer in the format it asked in, even when the model has moved to
\* another provider, or was deleted, since the request was sent.
ClientGetsOpenAI ==
  \A r \in Requests : stage[r] = "done" => format[r] = OpenAI
=============================================================================
