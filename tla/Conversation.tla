---------------------------- MODULE Conversation ----------------------------
(***************************************************************************)
(* A client's conversation with one model through the gateway, over        *)
(* several requests.  Neither the gateway nor the providers remember       *)
(* anything of it: the client sends the whole history every time, with the *)
(* answers as the gateway has translated them and the results of the tools *)
(* it has run, and every request is translated anew, for the provider the  *)
(* model then has (ExternalModel may have moved it; see                    *)
(* ExternalModelReconciler and Gateway).                                   *)
(*                                                                         *)
(* The client and the providers are external: the client keeps to the      *)
(* OpenAI protocol (it runs every call of an answer, in any order, before  *)
(* it goes on), and the providers to their own.                            *)
(*                                                                         *)
(* A datum <<t, k>> stands for text k of answer t, for the arguments of    *)
(* its call k, or for the result of that; <<0, k>> for what the client has *)
(* written itself.                                                         *)
(***************************************************************************)
EXTENDS OpenAIChat, FiniteSets

A == INSTANCE AnthropicTranslator
V == INSTANCE VertexTranslator
O == INSTANCE OpenAICompatible

CONSTANTS
  Nothing,     \* no request, no answer
  Clients,     \* the histories clients start with, and the settings they send with each
  Compatible,  \* the providers of the gateway's own format
  Bare,        \* the functions that take no arguments
  MaxRequests, \* bound on the requests
  MaxBlocks    \* bound on the blocks of an answer

\* What the protocol asks of a client: its own messages, one at least, and settings; a choice
\* of a function names it.
Openings == Seq(ChatMessages({0} \X Nat)) \ {<<>>}

Settings ==
  [tools : SUBSET [type : STRING, function : STRING],
   tool_choice : {choice \in [mode : ChoiceModes, name : STRING] :
                    choice.mode = "function" => choice.name # NoName},
   limits : [max_completion_tokens : Int, max_tokens : Int]]

ASSUME ConversationAssumption ==
  /\ {MaxRequests, MaxBlocks} \subseteq Nat
  /\ Compatible \subseteq {"openai", "azure", "bedrock"}
  /\ \A client \in Clients : client.opening \in Openings /\ client.settings \in Settings

Providers == {"anthropic", "vertex"} \cup Compatible

VARIABLES
  opening,   \* the history the client started with
  settings,  \* "tools", "tool_choice" and the two limits of the answer's tokens
  history,   \* the messages of the next request
  requests,  \* how many have been sent
  stage,     \* client, upstream, answered or refused
  provider,  \* the provider last asked, until the client goes on
  wire,      \* the request it was sent
  answer,    \* its answer
  finish,    \* the finish_reason the client got with it
  turns      \* history variable: what the providers have said in the answers so far

vars == <<opening, settings, history, requests, stage, provider, wire, answer, finish, turns>>

Turn == Len(turns) + 1

Init ==
  /\ \E client \in Clients : opening = client.opening /\ settings = client.settings
  /\ history = opening
  /\ requests = 0 /\ stage = "client" /\ provider = "none"
  /\ wire = Nothing /\ answer = Nothing /\ finish = "none" /\ turns = <<>>

-----------------------------------------------------------------------------
(* What is said in an answer, in any of the three forms: its text, and its *)
(* calls, each a name with arguments.                                      *)

TextOf(blocks) ==
  FlattenSeq([i \in DOMAIN blocks |-> IF blocks[i].type = "text" THEN blocks[i].text ELSE <<>>])

AnthropicSays(blocks) ==
  [text |-> TextOf(blocks),
   calls |-> FlattenSeq([i \in DOMAIN blocks |->
               IF blocks[i].type = "tool_use"
                 THEN <<[name |-> blocks[i].name, args |-> blocks[i].input]>> ELSE <<>>])]

VertexSays(parts) ==
  [text |-> TextOf(parts),
   calls |-> FlattenSeq([i \in DOMAIN parts |->
               IF parts[i].type = "functionCall"
                 THEN <<[name |-> parts[i].name, args |-> parts[i].args]>> ELSE <<>>])]

ChatSays(m) ==
  [text |-> [i \in DOMAIN m.content |-> m.content[i].data],
   calls |-> [k \in DOMAIN m.calls |-> [name |-> m.calls[k].name, args |-> m.calls[k].arguments]]]

\* What the provider has said, and whether it was cut off at a limit.
Said ==
  CASE provider = "anthropic" ->
         [says |-> AnthropicSays(answer.content), cut |-> answer.stop_reason = "max_tokens"]
    [] provider = "vertex" ->
         [says |-> VertexSays(Head(answer.candidates).parts),
          cut |-> Head(answer.candidates).finishReason = "MAX_TOKENS"]
    [] provider \in Compatible ->
         [says |-> ChatSays(Head(answer.choices).message),
          cut |-> Head(answer.choices).finish_reason = "length"]

\* The limit the client has set, in half tokens; one of less than a token is none.
ClientLimit ==
  LET limits == settings.limits
  IN  IF limits.max_completion_tokens >= Tokens(1) THEN limits.max_completion_tokens
      ELSE IF limits.max_tokens >= Tokens(1) THEN limits.max_tokens
      ELSE NoLimit

-----------------------------------------------------------------------------
(* The client.                                                             *)

\* The calls of the last answer whose results are not in the history yet.
Pending ==
  LET last == SelectLastInSeq(history, LAMBDA m : m.role = "assistant")
  IN  IF last = 0 \/ turns = <<>> THEN {}
      ELSE {k \in DOMAIN history[last].calls :
              \A i \in last + 1 .. Len(history) :
                history[i].tool_call_id # history[last].calls[k].id}

GoOn ==
  /\ provider' = "none" /\ finish' = "none"
  /\ UNCHANGED <<opening, settings, requests, stage, wire, answer, turns>>

\* A tool ends; tools run at once, and end in any order.
RunTool ==
  /\ stage = "client"
  /\ requests < MaxRequests
  /\ \E k \in Pending :
       LET last == SelectLastInSeq(history, LAMBDA m : m.role = "assistant")
       IN  history' = Append(history,
                        [ChatMessage("tool", StringContent(<<<<Len(turns), k>>>>)) EXCEPT
                           !.tool_call_id = history[last].calls[k].id])
  /\ GoOn

\* An answer without calls is followed by another question.
Ask ==
  /\ stage = "client"
  /\ requests < MaxRequests
  /\ turns # <<>> /\ Last(history).role = "assistant" /\ Last(history).calls = <<>>
  /\ history' = Append(history, ChatMessage("user", StringContent(<<<<0, Turn>>>>)))
  /\ GoOn

-----------------------------------------------------------------------------
(* The gateway.                                                            *)

Accepts(p, messages) ==
  CASE p = "anthropic" -> A!Accepts(messages)
    [] p = "vertex" -> V!Accepts(messages)
    [] p \in Compatible -> O!Accepts(messages)

TranslateRequest(p) ==
  CASE p = "anthropic" -> A!TranslateRequest(history, settings)
    [] p = "vertex" -> V!TranslateRequest(history, settings)
    [] p \in Compatible -> O!TranslateRequest(history, settings)

ReadyToSend ==
  /\ stage = "client"
  /\ requests < MaxRequests
  /\ Pending = {}
  /\ turns # <<>> => Last(history).role # "assistant"
  /\ requests' = requests + 1

Send(p) ==
  /\ ReadyToSend
  /\ Accepts(p, history)
  /\ stage' = "upstream"
  /\ provider' = p
  /\ wire' = TranslateRequest(p)
  /\ UNCHANGED <<opening, settings, history, answer, finish, turns>>

Refuse(p) ==
  /\ ReadyToSend
  /\ ~Accepts(p, history)
  /\ stage' = "refused"
  /\ provider' = p
  /\ UNCHANGED <<opening, settings, history, wire, answer, finish, turns>>

\* The choices the client gets, none for an error.
TranslateResponse ==
  CASE provider = "anthropic" -> A!TranslateResponse(answer)
    [] provider = "vertex" -> V!TranslateResponse(answer)
    [] provider \in Compatible -> O!TranslateResponse(provider, answer).choices

\* The client keeps the first choice; after an error, or an answer with no choice, it may
\* try again.
Receive ==
  /\ stage = "answered"
  /\ stage' = "client"
  /\ IF TranslateResponse = <<>>
       THEN provider' = "none" /\ UNCHANGED <<history, finish, turns>>
       ELSE /\ history' = Append(history, Head(TranslateResponse).message)
            /\ finish' = Head(TranslateResponse).finish_reason
            /\ turns' = Append(turns, Said)
            /\ UNCHANGED provider
  /\ wire' = Nothing /\ answer' = Nothing
  /\ UNCHANGED <<opening, settings, requests>>

-----------------------------------------------------------------------------
(* The providers.  A provider calls no function it was not offered, none   *)
(* at all when calls are off, and one at least when it must; it says no    *)
(* more than its limit of tokens lets it, a block standing for a token.    *)

\* The functions, the choice and the limit of the request on its way.
WireTools ==
  IF provider \in Compatible THEN {t.function : t \in wire.settings.tools} \ {NoName}
  ELSE wire.tools

WireChoice ==
  CASE provider = "anthropic" -> wire.tool_choice
    [] provider = "vertex" -> wire.toolConfig
    [] provider \in Compatible -> wire.settings.tool_choice

\* A limit of less than a token is none, for every provider.
WireLimit ==
  CASE provider = "anthropic" -> Tokens(wire.max_tokens)
    [] provider = "vertex" -> Tokens(wire.generationConfig.maxOutputTokens)
    [] provider \in Compatible -> ClientLimit

Callable ==
  IF WireChoice.mode \in {"NONE", "none"} THEN {}
  ELSE IF WireChoice.name # NoName THEN WireTools \cap {WireChoice.name}
  ELSE WireTools

MustCall == WireChoice.mode \in {"any", "tool", "ANY", "required", "function"}

\* A block of an answer is a text, or the call of a function.
IsText(block) == block = NoName
Calling(blocks) == \E k \in DOMAIN blocks : ~IsText(blocks[k])

\* The datum of block k: the texts and the calls of an answer are counted apart.
DatumOf(blocks, k) ==
  <<Turn, Cardinality({j \in 1 .. k : IsText(blocks[j]) = IsText(blocks[k])})>>

\* Vertex leaves empty arguments out.
ArgumentsOf(blocks, k) ==
  IF blocks[k] \notin Bare THEN Arguments(<<DatumOf(blocks, k)>>)
  ELSE IF provider = "vertex" THEN NoArguments ELSE EmptyObject

AnthropicBlock(blocks, k) ==
  IF IsText(blocks[k])
    THEN A!Block("text", Call(NoId, NoName, NoArguments), <<DatumOf(blocks, k)>>)
    ELSE A!Block("tool_use", Call(DatumOf(blocks, k), blocks[k], ArgumentsOf(blocks, k)), <<>>)

VertexPart(blocks, k) ==
  IF IsText(blocks[k])
    THEN V!Part("text", NoName, NoArguments, <<DatumOf(blocks, k)>>)
    ELSE V!Part("functionCall", blocks[k], ArgumentsOf(blocks, k), <<>>)

\* A message has one text, before its calls; a call the answer was cut off in is not JSON.
CompatibleMessage(blocks, cut) ==
  LET text == FlattenSeq([k \in DOMAIN blocks |->
                IF IsText(blocks[k]) THEN <<DatumOf(blocks, k)>> ELSE <<>>])
      calls == FlattenSeq([k \in DOMAIN blocks |->
                 IF IsText(blocks[k]) THEN <<>>
                 ELSE <<Call(DatumOf(blocks, k), blocks[k],
                             IF cut /\ k = Len(blocks) THEN Malformed
                             ELSE ArgumentsOf(blocks, k))>>])
  IN  [ChatMessage("assistant", StringContent(text)) EXCEPT !.calls = calls]

\* Azure says of a prompt, and of an answer, what its filters found.
CompatibleAnswer(message, finish_reason) ==
  LET filtered == provider = "azure"
  IN  [error |-> FALSE, filtered |-> filtered,
       choices |-> <<[finish_reason |-> finish_reason, message |-> message,
                      filtered |-> filtered]>>]

\* The answer of these blocks; one that is cut off says so, and not whether it calls.
AnswerOf(blocks, cut) ==
  CASE provider = "anthropic" ->
         [error |-> FALSE,
          content |-> [k \in DOMAIN blocks |-> AnthropicBlock(blocks, k)],
          stop_reason |-> IF cut THEN "max_tokens"
                          ELSE IF Calling(blocks) THEN "tool_use" ELSE "end_turn"]
    [] provider = "vertex" ->
         [error |-> FALSE,
          candidates |-> <<[parts |-> [k \in DOMAIN blocks |-> VertexPart(blocks, k)],
                            finishReason |-> IF cut THEN "MAX_TOKENS" ELSE "STOP"]>>]
    [] provider \in Compatible ->
         CompatibleAnswer(CompatibleMessage(blocks, cut),
                          IF cut THEN "length"
                          ELSE IF Calling(blocks) THEN "tool_calls" ELSE "stop")

ReplyFails ==
  /\ stage = "upstream"
  /\ stage' = "answered"
  /\ answer' = [error |-> TRUE, filtered |-> FALSE, choices |-> <<>>]
  /\ UNCHANGED <<opening, settings, history, requests, provider, wire, finish, turns>>

\* Vertex may answer without a candidate, or stop one before it has said anything; a filter
\* of a compatible provider may do so too.
ReplyStopped ==
  /\ stage = "upstream"
  /\ provider # "anthropic"
  /\ stage' = "answered"
  /\ IF provider = "vertex"
       THEN \/ answer' = [error |-> FALSE, candidates |-> <<>>]
            \/ \E reason \in {"SAFETY", "MALFORMED_FUNCTION_CALL"} :
                 answer' = [error |-> FALSE,
                            candidates |-> <<[parts |-> <<>>, finishReason |-> reason]>>]
       ELSE answer' = CompatibleAnswer(ChatMessage("assistant", <<>>), "content_filter")
  /\ UNCHANGED <<opening, settings, history, requests, provider, wire, finish, turns>>

Reply ==
  /\ stage = "upstream"
  /\ stage' = "answered"
  /\ \E blocks \in BoundedSeq({NoName} \cup Callable, MaxBlocks), cut \in BOOLEAN :
       /\ blocks # <<>>
       /\ WireLimit > NoLimit => Tokens(Len(blocks)) <= WireLimit
       /\ MustCall => Calling(blocks) \/ cut
       /\ provider \in Compatible => \A k \in 2 .. Len(blocks) : ~IsText(blocks[k])
       /\ answer' = AnswerOf(blocks, cut)
  /\ UNCHANGED <<opening, settings, history, requests, provider, wire, finish, turns>>

-----------------------------------------------------------------------------

Next ==
  \/ RunTool \/ Ask
  \/ \E p \in Providers : Send(p) \/ Refuse(p)
  \/ ReplyFails \/ ReplyStopped \/ Reply
  \/ Receive

Spec == Init /\ [][Next]_vars

-----------------------------------------------------------------------------
(* Properties.                                                             *)

\* What a message of each format says.
AnthropicMessageSays(m) == AnthropicSays(IF m.blocks = <<>> THEN <<A!TextBlock(m.text)>> ELSE m.blocks)

MessageSays(p, m) ==
  CASE p = "anthropic" -> AnthropicMessageSays(m)
    [] p = "vertex" -> VertexSays(m.parts)
    [] p \in Compatible -> ChatSays(m)

\* The messages of a request to p.
MessagesOf(p, request) == IF p = "vertex" THEN request.contents ELSE request.messages

WireMessages == MessagesOf(provider, wire)

\* Where the answers are in the messages of a request.
AnswerPlaces(messages) ==
  FlattenSeq([i \in 1 .. Len(messages) |->
                IF messages[i].role \in {"assistant", "model"} THEN <<i>> ELSE <<>>])

\* Where the request on its way has answer t of those the client got.
AnswerAt(t) ==
  LET own == AnswerPlaces(WireMessages)
  IN  own[Len(own) - Len(turns) + t]

\* Every variable has its type, a request on its way has a message, and the client sees no
\* field of Azure's own.
TypeOK ==
  /\ stage \in {"client", "upstream", "answered", "refused"}
  /\ requests \in 0 .. MaxRequests
  /\ provider \in Providers \cup {"none"}
  /\ finish \in {"none", "stop", "length", "tool_calls", "content_filter"}
  /\ Len(turns) <= requests
  /\ \A i \in DOMAIN history : A!Translatable(history[i]) \/ history[i] \in Range(opening)
  /\ stage = "upstream" => WireMessages # <<>>
  /\ stage = "answered" /\ provider \in Compatible =>
       \A choice \in Range(TranslateResponse) : ~choice.filtered

\* Arguments left out are an empty object; what is no JSON only a compatible provider gets.
Understood(calls) ==
  [k \in DOMAIN calls |->
     [calls[k] EXCEPT
        !.args = IF @.kind = "absent" \/ (@.kind = "malformed" /\ provider \notin Compatible)
                   THEN EmptyObject ELSE @]]

\* The texts of an answer and its calls, with their arguments, come back, complete and in
\* order, in every later request, whichever provider gave the answer and whichever is asked
\* now. All the calls of an answer that was cut off may be missing, as Anthropic's are; if they
\* are there, the arguments a compatible provider was cut off in are empty for the others.
AnswersAreKept ==
  stage = "upstream" =>
    \A t \in DOMAIN turns :
      LET sent == MessageSays(provider, WireMessages[AnswerAt(t)])
          said == turns[t].says
      IN  /\ sent.text = said.text
          /\ \/ sent.calls = Understood(said.calls)
             \/ turns[t].cut /\ sent.calls = <<>>

\* separateSystemMessages of Vertex correlates the responses of tools by toolCallNames: each
\* has the name of the function whose result it is, though the ids of Vertex's calls are
\* the same in every answer.
ResultsAreNamed ==
  stage = "upstream" /\ provider = "vertex" =>
    \A i \in DOMAIN wire.contents : \A j \in DOMAIN wire.contents[i].parts :
      LET part == wire.contents[i].parts[j]
      IN  part.type = "functionResponse" =>
            \A t \in DOMAIN turns : \A k \in DOMAIN turns[t].says.calls :
              part.text = <<<<t, k>>>> => part.name = turns[t].says.calls[k].name

ToolUses(blocks) ==
  FlattenSeq([i \in DOMAIN blocks |->
                IF blocks[i].type = "tool_use" THEN <<blocks[i]>> ELSE <<>>])

\* appendToolResult: the results of an answer's calls are all of the one message that follows
\* it, each with the id of its own call.
ResultsFollowTheirCalls ==
  stage = "upstream" /\ provider = "anthropic" =>
    \A t \in DOMAIN turns :
      LET calls == ToolUses(wire.messages[AnswerAt(t)].blocks)
          results == wire.messages[AnswerAt(t) + 1].blocks
      IN  calls # <<>> =>
            /\ Len(results) = Len(calls)
            /\ \A k \in DOMAIN calls : \E j \in DOMAIN results :
                 /\ results[j].type = "tool_result"
                 /\ results[j].id = calls[k].id
                 /\ results[j].text = <<<<t, k>>>>

\* What the translators have made of answers, and what a client adds to it, no translator
\* refuses: a conversation is refused only for the messages it was opened with.
OnlyOpeningsAreRefused == stage = "refused" => ~Accepts(provider, opening)

\* The client has just got an answer.
JustAnswered == stage = "client" /\ turns # <<>> /\ Last(history).role = "assistant"

Offered == {tool.function : tool \in settings.tools} \ {NoName}

\* An answer calls what the client's tool_choice lets it call, and calls when it must, if
\* it can and was not stopped early; Anthropic is not told of "none".
ToolChoiceIsObeyed ==
  JustAnswered =>
    LET names == {call.name : call \in Range(Last(history).calls)}
        choice == settings.tool_choice
        says == Last(turns).says
    IN  /\ names \subseteq Offered
        /\ choice.mode = "function" => names \subseteq {choice.name}
        /\ choice.mode = "none" /\ provider # "anthropic" => names = {}
        /\ (/\ choice.mode \in {"required", "function"}
            /\ Offered # {}
            /\ says.text # <<>> \/ says.calls # <<>>
            /\ ~Last(turns).cut) => names # {}

\* The finish_reason says that an answer was cut off exactly when it was, and, from
\* Anthropic, that there are calls exactly when there are.
FinishReasonIsTrue ==
  JustAnswered =>
    /\ finish = "length" <=> Last(turns).cut
    /\ provider = "anthropic" => (finish = "tool_calls" <=> Last(history).calls # <<>>)

\* resolveMaxTokens: no answer is longer than the client allows, whichever provider gives it,
\* and whichever of the two limits, and of what fraction, the client has set.
TokenLimitIsKept ==
  JustAnswered /\ ClientLimit # NoLimit =>
    Tokens(Len(Last(turns).says.text) + Len(Last(turns).says.calls)) <= ClientLimit
=============================================================================
