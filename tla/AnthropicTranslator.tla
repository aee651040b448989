------------------------ MODULE AnthropicTranslator ------------------------
(***************************************************************************)
(* translator/anthropic: a chat request to a request of the Messages API,  *)
(* and the answer back.  The bodies' model, sampling parameters, stop      *)
(* sequences, usage and error details are not modelled.                    *)
(***************************************************************************)
EXTENDS OpenAIChat

-----------------------------------------------------------------------------
(* The request.  A message whose content is a string has no blocks.        *)

Block(type, call, text) ==
  [type |-> type, id |-> call.id, name |-> call.name, input |-> call.arguments, text |-> text]

TextBlock(text) == Block("text", Call(NoId, NoName, NoArguments), text)

ToolUse(call) == Block("tool_use", [call EXCEPT !.arguments = ParseArguments(@)], <<>>)

ToolResult(m) ==
  Block("tool_result", Call(m.tool_call_id, NoName, NoArguments), ExtractContentString(m))

MutBuildAssistantMessage(m) ==
  IF m.calls = <<>>
    THEN [role |-> "assistant", text |-> ExtractContentString(m), blocks |-> <<>>]
    ELSE [role |-> "assistant", text |-> <<>>,
          blocks |-> [i \in DOMAIN m.calls |-> ToolUse(m.calls[i])]]

BuildAssistantMessage(m) ==
  LET text == ExtractContentString(m)
  IN  IF m.calls = <<>>
        THEN [role |-> "assistant", text |-> text, blocks |-> <<>>]
        ELSE [role |-> "assistant", text |-> <<>>,
              blocks |-> (IF text = <<>> THEN <<>> ELSE <<TextBlock(text)>>)
                           \o [i \in DOMAIN m.calls |-> ToolUse(m.calls[i])]]

MutAppendToolResult(messages, result) ==
  Append(messages, [role |-> "user", text |-> <<>>, blocks |-> <<result>>])

\* A result joins the results before it in one message.
AppendToolResult(messages, result) ==
  IF messages # <<>> /\ Last(messages).role = "user" /\ Last(messages).blocks # <<>>
    THEN ReplaceAt(messages, Len(messages),
                   [Last(messages) EXCEPT !.blocks = Append(@, result)])
    ELSE Append(messages, [role |-> "user", text |-> <<>>, blocks |-> <<result>>])

\* One turn of the loop of separateSystemMessages.
AppendMessage(messages, m) ==
  IF m.role = "tool" THEN AppendToolResult(messages, ToolResult(m))
  ELSE IF m.role = "assistant" THEN Append(messages, BuildAssistantMessage(m))
  ELSE IF m.role = "user"
    THEN Append(messages, [role |-> "user", text |-> ExtractContentString(m), blocks |-> <<>>])
  ELSE messages

Messages(history) ==
  LET loop[n \in 0 .. Len(history)] ==
        IF n = 0 THEN <<>> ELSE AppendMessage(loop[n - 1], history[n])
  IN  loop[Len(history)]

\* A message of another role, or a tool's result that names no call, is an error.
Translatable(m) ==
  /\ m.role \in SystemRoles \cup {"user", "assistant", "tool"}
  /\ m.role = "tool" => m.tool_call_id # NoId

Accepts(history) ==
  /\ \A i \in DOMAIN history : Translatable(history[i])
  /\ Messages(history) # <<>>

SystemPrompt(history) ==
  LET system == SelectSeq(history, LAMBDA m : m.role \in SystemRoles)
  IN  [i \in DOMAIN system |-> ExtractContentString(system[i])]

\* A tool without a function object is left out.
TranslateToolDefinitions(tools) ==
  {t.function : t \in {tool \in tools : tool.function # NoName}}

\* "none" is left out, like anything unknown.
TranslateToolChoice(choice) ==
  IF choice.mode = "auto" THEN Choice("auto", NoName)
  ELSE IF choice.mode = "required" THEN Choice("any", NoName)
  ELSE IF choice.mode = "function" THEN Choice("tool", choice.name)
  ELSE Choice("absent", NoName)

DefaultMaxTokens == 4096

ResolveMaxTokens(limits) ==
  IF LimitOf(limits) = NoLimit THEN DefaultMaxTokens ELSE LimitOf(limits)

\* There is no choice between no tools.
TranslateRequest(history, settings) ==
  LET tools == TranslateToolDefinitions(settings.tools)
  IN  [system |-> SystemPrompt(history),
       messages |-> Messages(history),
       max_tokens |-> ResolveMaxTokens(settings.limits),
       tools |-> tools,
       tool_choice |-> IF tools = {} THEN Choice("absent", NoName)
                       ELSE TranslateToolChoice(settings.tool_choice)]

-----------------------------------------------------------------------------
(* The answer: an error, or content blocks and a stop reason.              *)

ExtractContent(body) ==
  FlattenSeq([i \in DOMAIN body.content |->
                IF body.content[i].type = "text" THEN body.content[i].text ELSE <<>>])

ExtractToolCalls(body) ==
  FlattenSeq([i \in DOMAIN body.content |->
                LET block == body.content[i]
                IN  IF block.type = "tool_use"
                      THEN <<Call(block.id, block.name, ToJSONString(block.input))>>
                      ELSE <<>>])

MutMapStopReason(reason) == IF reason = "tool_use" THEN "tool_calls" ELSE "stop"

MapStopReason(reason) ==
  IF reason = "max_tokens" THEN "length"
  ELSE IF reason = "tool_use" THEN "tool_calls"
  ELSE "stop"

\* The choices of the chat response: tool calls only when the model stopped for them.
TranslateResponse(body) ==
  IF body.error THEN <<>>
  ELSE LET finish == MapStopReason(body.stop_reason)
       IN  <<[finish_reason |-> finish,
              message |->
                [ChatMessage("assistant", StringContent(ExtractContent(body))) EXCEPT
                   !.calls = IF finish = "tool_calls" THEN ExtractToolCalls(body) ELSE <<>>]]>>
=============================================================================
