------------------------------ MODULE NemoGuard ------------------------------
(***************************************************************************)
(* The nemo-request-guard plugin (src/pkg/plugins/nemo): before a request  *)
(* goes on, its last user message is sent to a NeMo Guardrails service,    *)
(* and the request passes when the service answers that it may.            *)
(*                                                                         *)
(* Requests are concurrent; the service may answer late, wrongly or never, *)
(* the connection may break, and the http.Client gives up at its timeout.  *)
(* A message is a role and a text, given as a string or in content parts;  *)
(* NeMo's rails are the set Clean of texts they let pass.                  *)
(***************************************************************************)
EXTENDS Integers, Sequences, SequencesExt

CONSTANTS
  Requests,
  Texts, Clean,      \* what messages may say, and what NeMo lets pass
  NoText,            \* the empty text
  Roles,             \* among them "user"
  NotAnObject,       \* an element of "messages" that is no object
  MaxMessages,       \* bound on the messages of a body
  Configured,        \* the values of timeoutSeconds in the plugin's configuration
  DefaultSeconds,    \* defaultTimeoutSec
  Second,            \* time.Second: a Duration counts much smaller units
  Width              \* the bits of a Duration

ASSUME NemoAssumption ==
  /\ Clean \subseteq Texts \cup {NoText}
  /\ "user" \in Roles
  /\ MaxMessages \in Nat
  /\ Configured \subseteq Int
  /\ Width \in Nat \ {0}
  /\ 2 ^ Width \in Nat \ {0}
  /\ Second \in Nat \ {0}
  /\ DefaultSeconds \in Nat \ {0}
  /\ DefaultSeconds * Second < 2 ^ (Width - 1)

Message == [role : Roles, content : Texts, parts : BOOLEAN]

Bodies ==
  [model : BOOLEAN,     \* the body names a model
   array : BOOLEAN,     \* its messages are an array
   messages : BoundedSeq(Message \cup {NotAnObject}, MaxMessages)]

Replies == {"success", "blocked", "no status", "error status", "cut off or not JSON"}

VARIABLES
  timeout,   \* httpClient.Timeout, 0 for none
  body,      \* the body of a request
  stage,     \* new, called, passed, or the code of the error the plugin returns
  asked,     \* the messages the call carries
  reply,     \* what the service answers, or "none" so far
  elapsed    \* the time since the call was made

vars == <<timeout, body, stage, asked, reply, elapsed>>

-----------------------------------------------------------------------------
(* The configuration.                                                      *)

\* time.Duration(timeoutSeconds) * time.Second, in two's complement.
Duration(seconds) ==
  LET bits == (seconds * Second) % (2 ^ Width)
  IN  IF bits < 2 ^ (Width - 1) THEN bits ELSE bits - 2 ^ Width

MutTimeout(seconds) ==
  IF Duration(seconds) < 0 THEN DefaultSeconds * Second ELSE Duration(seconds)

Timeout(seconds) ==
  IF Duration(seconds) <= 0 THEN DefaultSeconds * Second ELSE Duration(seconds)

-----------------------------------------------------------------------------
(* What is sent to NeMo.                                                   *)

\* A content that is no string counts as empty.
Object(m) == [role |-> m.role, content |-> IF m.parts THEN NoText ELSE m.content]

\* What the loop makes of the messages: one that is no object is skipped.
Objects(messages) ==
  FlattenSeq([i \in DOMAIN messages |->
                IF messages[i] = NotAnObject THEN <<>> ELSE <<Object(messages[i])>>])

IsUser(m) == m.role = "user"

MutExtractMessages(messages) ==
  IF Objects(messages) = <<>> THEN <<>> ELSE <<Last(Objects(messages))>>

\* The last user message, or all messages when there is none.
ExtractMessages(messages) ==
  LET objects == Objects(messages)
      last == SelectLastInSeq(objects, IsUser)
  IN  IF last = 0 THEN objects ELSE <<objects[last]>>

-----------------------------------------------------------------------------

Init ==
  /\ timeout \in {Timeout(s) : s \in Configured}
  /\ body \in [Requests -> Bodies]
  /\ stage = [r \in Requests |-> "new"]
  /\ asked = [r \in Requests |-> <<>>]
  /\ reply = [r \in Requests |-> "none"]
  /\ elapsed = [r \in Requests |-> 0]

Decide(r, outcome) ==
  /\ stage' = [stage EXCEPT ![r] = outcome]
  /\ UNCHANGED <<timeout, body, asked, reply, elapsed>>

\* A request without a model is none of an inference.
PassUnmodelled(r) ==
  /\ stage[r] = "new"
  /\ ~body[r].model
  /\ Decide(r, "passed")

RejectMalformed(r) ==
  /\ stage[r] = "new"
  /\ body[r].model
  /\ ~body[r].array
  /\ Decide(r, "BadRequest")

MutNothingToCheck(b) == FALSE

NothingToCheck(b) == ExtractMessages(b.messages) = <<>>

PassEmpty(r) ==
  /\ stage[r] = "new"
  /\ body[r].model /\ body[r].array
  /\ NothingToCheck(body[r])
  /\ Decide(r, "passed")

Call(r) ==
  /\ stage[r] = "new"
  /\ body[r].model /\ body[r].array
  /\ ~NothingToCheck(body[r])
  /\ stage' = [stage EXCEPT ![r] = "called"]
  /\ asked' = [asked EXCEPT ![r] = ExtractMessages(body[r].messages)]
  /\ UNCHANGED <<timeout, body, reply, elapsed>>

\* The service judges the messages it was sent, or goes wrong.
NemoReplies(r) ==
  /\ asked[r] # <<>>
  /\ reply[r] = "none"
  /\ \E answer \in Replies :
       /\ answer = "success" => \A i \in DOMAIN asked[r] : asked[r][i].content \in Clean
       /\ reply' = [reply EXCEPT ![r] = answer]
  /\ UNCHANGED <<timeout, body, stage, asked, elapsed>>

\* What ProcessRequest makes of an HTTP response.
Verdict(answer) ==
  IF answer \in {"error status", "cut off or not JSON"} THEN "ServiceUnavailable"
  ELSE IF answer = "success" THEN "passed" ELSE "Forbidden"

\* The response has been read before the timeout.
Receive(r) ==
  /\ stage[r] = "called"
  /\ reply[r] # "none"
  /\ Decide(r, Verdict(reply[r]))

\* The connection breaks, or the client of the gateway goes away and the context with it.
CallFails(r) ==
  /\ stage[r] = "called"
  /\ Decide(r, "ServiceUnavailable")

\* The call has run for as long as the http.Client lets it.
TimesOut(r) ==
  /\ stage[r] = "called"
  /\ timeout # 0 /\ elapsed[r] = timeout
  /\ Decide(r, "ServiceUnavailable")

Tick(r) ==
  /\ stage[r] = "called"
  /\ timeout # 0 /\ elapsed[r] < timeout
  /\ elapsed' = [elapsed EXCEPT ![r] = @ + 1]
  /\ UNCHANGED <<timeout, body, stage, asked, reply>>

Next ==
  \E r \in Requests :
    \/ PassUnmodelled(r) \/ RejectMalformed(r) \/ PassEmpty(r) \/ Call(r)
    \/ NemoReplies(r)
    \/ Receive(r) \/ CallFails(r) \/ TimesOut(r)
    \/ Tick(r)

Spec == Init /\ [][Next]_vars

\* The plugin's code runs and time passes; the service need not answer.
FairSpec ==
  /\ Spec
  /\ \A r \in Requests :
       /\ WF_vars(PassUnmodelled(r) \/ RejectMalformed(r) \/ PassEmpty(r) \/ Call(r))
       /\ WF_vars(TimesOut(r))
       /\ WF_vars(Tick(r))

-----------------------------------------------------------------------------
(* Properties.                                                             *)

\* The state has its type; a call always carries messages (NeMo refuses a call without),
\* and none lasts longer than the timeout.
TypeOK ==
  /\ stage \in [Requests ->
       {"new", "called", "passed", "BadRequest", "ServiceUnavailable", "Forbidden"}]
  /\ reply \in [Requests -> Replies \cup {"none"}]
  /\ \A r \in Requests : stage[r] = "called" => asked[r] # <<>>
  /\ \A r \in Requests : elapsed[r] <= timeout

\* The messages whose text matters: the last user message, or all when there is none.
Checked(messages) ==
  LET objects == {i \in DOMAIN messages : messages[i] # NotAnObject}
      user == {i \in objects : IsUser(messages[i])}
  IN  IF user = {} THEN objects ELSE {i \in user : \A j \in user : j <= i}

\* A request passes only when NeMo lets its last user message pass, or all messages when
\* there is none, as far as they are strings: whatever the other messages are, and whatever
\* goes wrong with the call.
PassedRequestsAreClean ==
  \A r \in Requests : stage[r] = "passed" /\ body[r].model /\ body[r].array =>
    \A i \in Checked(body[r].messages) :
      ~body[r].messages[i].parts => body[r].messages[i].content \in Clean

\* The comment of extractMessages: it returns the last user message for the check of the
\* input rail.  What is sent says what that message says.
LastUserMessageIsAsked ==
  \A r \in Requests : asked[r] # <<>> =>
    \A i \in Checked(body[r].messages) :
      \E j \in DOMAIN asked[r] : asked[r][j].content = body[r].messages[i].content

\* Every request is decided: one that NeMo never answers is refused at the timeout, however
\* the plugin is configured.
EveryRequestIsDecided ==
  \A r \in Requests : <>(stage[r] \notin {"new", "called"})
=============================================================================
