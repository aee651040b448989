-------------------------- MODULE VertexTranslator --------------------------
(***************************************************************************)
(* translator/vertex: a chat request to a generateContent request, and the *)
(* answer back.  The bodies' model, the rest of generationConfig, usage    *)
(* and error details are not modelled.                                     *)
(*                                                                         *)
(* Vertex has no ids for calls: a functionResponse has the function's      *)
(* name, and the ids of the answer are made up from the calls' places.     *)
(***************************************************************************)
EXTENDS OpenAIChat

Part(type, name, args, text) == [type |-> type, name |-> name, args |-> args, text |-> text]

TextPart(text) == Part("text", NoName, NoArguments, text)
ImagePart(data) == Part("inlineData", NoName, NoArguments, <<data>>)
FunctionCall(call) == Part("functionCall", call.name, ParseArguments(call.arguments), <<>>)
FunctionResponse(name, text) == Part("functionResponse", name, NoArguments, text)

OrEmptyText(parts) == IF parts = <<>> THEN <<TextPart(<<>>)>> ELSE parts

-----------------------------------------------------------------------------
(* The request.                                                            *)

\* Texts and images; an image behind a link is dropped.
ExtractContentParts(m) ==
  OrEmptyText(FlattenSeq([i \in DOMAIN m.content |->
    LET part == m.content[i]
    IN  IF part.type = "text" THEN <<TextPart(<<part.data>>)>>
        ELSE IF part.type = "data URI" THEN <<ImagePart(part.data)>>
        ELSE <<>>]))

BuildAssistantParts(m) ==
  LET text == ExtractContentString(m)
  IN  OrEmptyText((IF text = <<>> THEN <<>> ELSE <<TextPart(text)>>)
                    \o [i \in DOMAIN m.calls |-> FunctionCall(m.calls[i])])

\* The calls of a history, in order.
Calls(history) == FlattenSeq([i \in DOMAIN history |-> history[i].calls])

MutToolCallName(history, i) ==
  LET calls == Calls(history)
      last == SelectLastInSeq(calls, LAMBDA call : call.id = history[i].tool_call_id)
  IN  IF last = 0 \/ history[i].tool_call_id = NoId THEN "unknown" ELSE calls[last].name

\* toolCallNames, when the loop is at message i: what the last call with that id was named.
ToolCallName(history, i) ==
  LET calls == Calls(SubSeq(history, 1, i - 1))
      last == SelectLastInSeq(calls, LAMBDA call :
                call.id # NoId /\ call.id = history[i].tool_call_id)
  IN  IF last = 0 \/ calls[last].name = NoName THEN "unknown" ELSE calls[last].name

\* What the loop makes of message i: nothing of a system message.
Content(history, i) ==
  LET m == history[i]
  IN  IF m.role = "user" THEN <<[role |-> "user", parts |-> ExtractContentParts(m)]>>
      ELSE IF m.role = "assistant" THEN <<[role |-> "model", parts |-> BuildAssistantParts(m)]>>
      ELSE IF m.role \in {"tool", "function"}
        THEN LET name == IF m.role = "tool" THEN ToolCallName(history, i) ELSE m.name
             IN  <<[role |-> "user",
                    parts |-> <<FunctionResponse(name, ExtractContentString(m))>>]>>
      ELSE <<>>

Contents(history) == FlattenSeq([i \in DOMAIN history |-> Content(history, i)])

\* A message of another role, or a function's result that does not name it, is an error.
Translatable(m) ==
  /\ m.role \in SystemRoles \cup {"user", "assistant", "tool", "function"}
  /\ m.role = "function" => m.name # NoName

Accepts(history) ==
  /\ \A i \in DOMAIN history : Translatable(history[i])
  /\ Contents(history) # <<>>

SystemInstruction(history) ==
  LET system == SelectSeq(history, LAMBDA m : m.role \in SystemRoles)
  IN  [i \in DOMAIN system |-> ExtractContentString(system[i])]

TranslateTools(tools) ==
  {t.function : t \in {tool \in tools : tool.type = "function" /\ tool.function # NoName}}

MutTranslateToolChoice(choice) ==
  IF choice.mode = "auto" THEN Choice("AUTO", NoName)
  ELSE IF choice.mode \in {"required", "function"} THEN Choice("ANY", NoName)
  ELSE Choice("absent", NoName)

\* ANY with a name allows that function only.
TranslateToolChoice(choice) ==
  IF choice.mode = "auto" THEN Choice("AUTO", NoName)
  ELSE IF choice.mode = "none" THEN Choice("NONE", NoName)
  ELSE IF choice.mode = "required" THEN Choice("ANY", NoName)
  ELSE IF choice.mode = "function" /\ choice.name # NoName THEN Choice("ANY", choice.name)
  ELSE Choice("absent", NoName)

\* NoLimit leaves maxOutputTokens out.
BuildGenerationConfig(settings) == [maxOutputTokens |-> LimitOf(settings.limits)]

TranslateRequest(history, settings) ==
  [systemInstruction |-> SystemInstruction(history),
   contents |-> Contents(history),
   generationConfig |-> BuildGenerationConfig(settings),
   tools |-> TranslateTools(settings.tools),
   toolConfig |-> TranslateToolChoice(settings.tool_choice)]

-----------------------------------------------------------------------------
(* The answer: an error, or candidates with parts and a finish reason.     *)

ContentFilterReasons ==
  {"SAFETY", "RECITATION", "BLOCKLIST", "PROHIBITED_CONTENT", "SPII", "MODEL_ARMOR",
   "IMAGE_SAFETY", "IMAGE_PROHIBITED_CONTENT", "IMAGE_RECITATION"}

MutMapFinishReason(reason) == reason

MapFinishReason(reason) ==
  IF reason = "MAX_TOKENS" THEN "length"
  ELSE IF reason \in ContentFilterReasons THEN "content_filter"
  ELSE IF reason \in {"MALFORMED_FUNCTION_CALL", "UNEXPECTED_TOOL_CALL"} THEN "tool_calls"
  ELSE "stop"

MutCallId(i) == NoId

\* call_0, call_1, ...
CallId(i) == <<0, i>>

ExtractToolCalls(candidate) ==
  LET made == FlattenSeq([i \in DOMAIN candidate.parts |->
                IF candidate.parts[i].type = "functionCall" THEN <<candidate.parts[i]>> ELSE <<>>])
  IN  [i \in DOMAIN made |-> Call(CallId(i), made[i].name, ToJSONString(made[i].args))]

ExtractText(candidate) ==
  FlattenSeq([i \in DOMAIN candidate.parts |->
                IF candidate.parts[i].type = "text" THEN candidate.parts[i].text ELSE <<>>])

\* The choices of the chat response, one for each candidate.
TranslateCandidates(body) ==
  [i \in DOMAIN body.candidates |->
     [finish_reason |-> MapFinishReason(body.candidates[i].finishReason),
      message |->
        [ChatMessage("assistant", StringContent(ExtractText(body.candidates[i]))) EXCEPT
           !.calls = ExtractToolCalls(body.candidates[i])]]]

TranslateResponse(body) == IF body.error THEN <<>> ELSE TranslateCandidates(body)
=============================================================================
