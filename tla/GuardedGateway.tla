--------------------------- MODULE GuardedGateway ---------------------------
(***************************************************************************)
(* A Gateway whose chain has the nemo-request-guard plugin of              *)
(* src/pkg/plugins/nemo too.  To Gateway the guard is one more plugin that *)
(* lets a request pass or answers it; here it is remembered which.         *)
(* NemoGuard has the guard's call in detail, and what a verdict is worth.  *)
(* A chain may have several guards: a plugin may be configured more than   *)
(* once, each time with a NeMo service of its own.                         *)
(*                                                                         *)
(* The guard reads the body that the plugins before it have left: it asks  *)
(* for nothing when the body names no model, and the translation to        *)
(* Vertex moves the model's name from the body to the path.                *)
(***************************************************************************)
EXTENDS Gateway

CONSTANTS
  NoModel,    \* the model of a request that names none
  Modelless   \* the providers in whose format the body does not name the model

ASSUME GuardAssumption ==
  /\ NoModel \notin ExternalModels
  /\ OpenAI \notin Modelless

VARIABLE
  passed  \* <<r, n>>: the guard at place n of the chain has let the messages of r pass

guardedVars == <<vars, passed>>

GuardedInit == Init /\ passed = {}

MutBodyNamesModel(r) == cycleState[r].model # Unset /\ format[r] \notin Modelless

\* The guard reads the model from the body.
BodyNamesModel(r) == model[r] # NoModel /\ format[r] \notin Modelless

\* A request for no model is none of an inference.
GuardSkips(r) == ~BodyNamesModel(r) /\ Proceed(r) /\ UNCHANGED passed

\* The body has no messages, or NeMo has nothing against them.
GuardPasses(r) == BodyNamesModel(r) /\ Proceed(r) /\ passed' = passed \cup {<<r, at[r]>>}

\* NeMo blocks it, the messages are malformed, or there is no answer, or one that can not be
\* read.
GuardFails(r) == BodyNamesModel(r) /\ Fail(r) /\ UNCHANGED passed

AtGuard(r) == AtPlugin(r, "nemo-request-guard")

Guard(r) ==
  /\ AtGuard(r)
  /\ GuardSkips(r) \/ GuardPasses(r) \/ GuardFails(r)
  /\ UNCHANGED <<storeVars, model, cycleState, headers, format>>

GuardedNext ==
  \/ \E r \in Requests : Guard(r)
  \/ \E r \in Requests : ~AtGuard(r) /\ OtherPlugin(r) /\ UNCHANGED passed
  \/ CoreNext /\ UNCHANGED passed

GuardedSpec == GuardedInit /\ [][GuardedNext]_guardedVars

\* Before place n the request has been translated for a provider whose format has no model
\* in the body.
ModelIsMovedBefore(r, n) ==
  /\ \E i \in 1 .. n - 1 : Chain[i] = "api-translation"
  /\ External(r)
  /\ Native(cycleState[r].provider) \in Modelless

\* No request for a model leaves the gateway before EVERY guard of the chain has seen its
\* messages and passed them; a guard that can not decide lets nothing pass. There is one gap,
\* and only one: a guard behind api-translation does not see the requests for a provider
\* whose format has no model in the body.
SentRequestsAreGuarded ==
  \A r \in Requests : Sent(r) /\ model[r] # NoModel =>
    \A n \in 1 .. Len(Chain) :
      Chain[n] = "nemo-request-guard" => <<r, n>> \in passed \/ ModelIsMovedBefore(r, n)
=============================================================================
