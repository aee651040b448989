----------------------------- MODULE OpenAIChat -----------------------------
(***************************************************************************)
(* The OpenAI chat messages the translators of src/pkg/plugins/            *)
(* api-translation read and write.                                         *)
(*                                                                         *)
(* The data of a text or an image is an opaque value; a joined text is the *)
(* sequence of the data joined, and <<>> the empty text.  A call is an id, *)
(* the name of a function and its arguments.                               *)
(***************************************************************************)
EXTENDS Integers, Sequences, SequencesExt

NoName == ""
NoId == <<>>

\* The arguments of a call: an object with some data, none at all, or a string that is not JSON
\* (a provider that speaks this format may be cut off inside a call).
Arguments(data) == [kind |-> "object", data |-> data]
EmptyObject == Arguments(<<>>)
NoArguments == [kind |-> "absent", data |-> <<>>]
Malformed == [kind |-> "malformed", data |-> <<>>]

\* What json.Unmarshal leaves of them in both translators, and what toJSONString writes.
ParseArguments(arguments) == IF arguments.kind = "object" THEN arguments ELSE EmptyObject
ToJSONString(arguments) == IF arguments.kind = "absent" THEN EmptyObject ELSE arguments

Call(id, name, arguments) == [id |-> id, name |-> name, arguments |-> arguments]

\* The values of "type" of a content part: an image is in a data URI or behind a link.
PartTypes == {"text", "data URI", "link"}

\* The messages whose texts, images and arguments are of some data.
ChatMessages(Data) ==
  [role : STRING,
   content : Seq([type : PartTypes, data : Data]),
   calls : Seq([id : Seq(Nat), name : STRING,
                arguments : [kind : {"object", "absent", "malformed"}, data : Seq(Data)]]),
   tool_call_id : Seq(Nat),
   name : STRING]

\* A message with every field; one the role does not have is empty.
ChatMessage(role, content) ==
  [role |-> role, content |-> content, calls |-> <<>>, tool_call_id |-> NoId, name |-> NoName]

\* The content that is the string of a joined text.
StringContent(text) == [i \in DOMAIN text |-> [type |-> "text", data |-> text[i]]]

SystemRoles == {"system", "developer"}

\* Only text parts have a string "text"; all others are skipped.
ExtractContentString(m) ==
  FlattenSeq([i \in DOMAIN m.content |->
                IF m.content[i].type = "text" THEN <<m.content[i].data>> ELSE <<>>])

\* "tool_choice": absent, auto, none, required, or a function with its name.
ChoiceModes == {"absent", "auto", "none", "required", "function"}
Choice(mode, name) == [mode |-> mode, name |-> name]

\* A number of tokens in half tokens, which is fraction enough to tell int() from a rounding.
Tokens(n) == 2 * n
NoLimit == 0
GetInt(halves) == halves \div 2

MutLimitOf(limits) ==
  IF GetInt(limits.max_tokens) > 0 THEN GetInt(limits.max_tokens)
  ELSE IF GetInt(limits.max_completion_tokens) > 0 THEN GetInt(limits.max_completion_tokens)
  ELSE NoLimit

\* resolveMaxTokens without its default: a limit that is absent counts as zero.
LimitOf(limits) ==
  IF GetInt(limits.max_completion_tokens) > 0 THEN GetInt(limits.max_completion_tokens)
  ELSE IF GetInt(limits.max_tokens) > 0 THEN GetInt(limits.max_tokens)
  ELSE NoLimit
=============================================================================
