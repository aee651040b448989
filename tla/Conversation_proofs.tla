------------------------- MODULE Conversation_proofs -------------------------
(***************************************************************************)
(* Proofs about Conversation, for any clients, any providers among those   *)
(* of the gateway, and any number of requests and blocks.                  *)
(*                                                                         *)
(* The module goes from the data to the behaviour: what the translators'   *)
(* loops make of a history and of one more message; what the client gets   *)
(* of an answer; the inductive invariant Inv, which says that the request  *)
(* on its way is the translation of the history and its answer one the     *)
(* provider was allowed to give; and, each inductive with Inv, what the    *)
(* answers said (KeptInv), what the results are named (NamedInv) and which *)
(* of them are in the request already (FollowInv).                         *)
(***************************************************************************)
EXTENDS Conversation, FlattenTheorems, FiniteSetTheorems, TLAPS

\* The operators that the translators use are those of this module.
LEMMA SameFlattenSeq ==
  ASSUME NEW ss
  PROVE  A!FlattenSeq(ss) = FlattenSeq(ss) /\ V!FlattenSeq(ss) = FlattenSeq(ss)
BY DEF A!FlattenSeq, V!FlattenSeq, FlattenSeq

\* The text of a message is the same to both translators.
LEMMA SameText ==
  ASSUME NEW m
  PROVE  /\ A!ExtractContentString(m) = ExtractContentString(m)
         /\ V!ExtractContentString(m) = ExtractContentString(m)
BY SameFlattenSeq DEF A!ExtractContentString, V!ExtractContentString, ExtractContentString

\* The fields of ChatMessages; the provers do not know that a literal is a string.
Strings == STRING \cup {NoName, "user", "assistant", "tool", "model"}
Contents(D) == Seq([type : PartTypes, data : D])
ArgumentsOver(D) == [kind : {"object", "absent", "malformed"}, data : Seq(D)]
CallsOver(D) == Seq([id : Seq(Nat), name : Strings, arguments : ArgumentsOver(D)])

MessagesOver(D) ==
  [role : Strings, content : Contents(D), calls : CallsOver(D), tool_call_id : Seq(Nat),
   name : Strings]

\* The fields of a message of the history.
LEMMA MessageFields ==
  ASSUME NEW D, NEW m \in MessagesOver(D)
  PROVE  /\ m.role \in Strings
         /\ m.content \in Contents(D)
         /\ m.calls \in CallsOver(D)
         /\ m.tool_call_id \in Seq(Nat)
         /\ m.name \in Strings
BY DEF MessagesOver, Contents, CallsOver, ArgumentsOver

\* The parts of a content.
LEMMA PartFields ==
  ASSUME NEW D, NEW c \in Contents(D)
  PROVE  /\ Len(c) \in Nat
         /\ DOMAIN c = 1 .. Len(c)
         /\ \A i \in 1 .. Len(c) : c[i].type \in PartTypes /\ c[i].data \in D
<1> DEFINE U == [type : PartTypes, data : D]
<1>1. c \in Seq(U)
  BY DEF Contents
<1>2. \A u \in U : u.type \in PartTypes /\ u.data \in D
  OBVIOUS
<1> HIDE DEF U
<1>3. QED
  BY <1>1, <1>2, LenProperties, ElementOfSeq

\* The calls of a message.
LEMMA CallFields ==
  ASSUME NEW D, NEW c \in CallsOver(D)
  PROVE  /\ Len(c) \in Nat
         /\ DOMAIN c = 1 .. Len(c)
         /\ \A i \in 1 .. Len(c) :
              c[i].id \in Seq(Nat) /\ c[i].name \in Strings /\ c[i].arguments \in ArgumentsOver(D)
<1> DEFINE U == [id : Seq(Nat), name : Strings, arguments : ArgumentsOver(D)]
<1>1. c \in Seq(U)
  BY DEF CallsOver
<1>2. \A u \in U : u.id \in Seq(Nat) /\ u.name \in Strings /\ u.arguments \in ArgumentsOver(D)
  OBVIOUS
<1> HIDE DEF U
<1>3. QED
  BY <1>1, <1>2, LenProperties, ElementOfSeq

\* The pieces of a text.
TextPieces(c) == [i \in DOMAIN c |-> IF c[i].type = "text" THEN <<c[i].data>> ELSE <<>>]

\* A part contributes a text of one datum, or nothing, to extractContentString.
LEMMA TextPiecesType ==
  ASSUME NEW D, NEW c \in Contents(D)
  PROVE  TextPieces(c) \in Seq(Seq(D)) /\ Len(TextPieces(c)) = Len(c)
<1> DEFINE n == Len(c)
           p == [i \in 1 .. n |-> IF c[i].type = "text" THEN <<c[i].data>> ELSE <<>>]
<1>1. n \in Nat /\ DOMAIN c = 1 .. n /\ \A i \in 1 .. n : c[i].data \in D
  BY PartFields
<1>2. \A i \in 1 .. n : p[i] \in Seq(D)
  BY <1>1
<1>3. p = [i \in 1 .. n |-> p[i]] /\ TextPieces(c) = p
  BY <1>1 DEF TextPieces
<1> HIDE DEF p, n
<1>4. p \in Seq(Seq(D)) /\ Len(p) = n
  BY <1>1, <1>2, <1>3, PiecesType
<1>5. QED
  BY <1>3, <1>4 DEF n

\* extractContentString returns the data of the message.
LEMMA TextType ==
  ASSUME NEW D, NEW m \in MessagesOver(D)
  PROVE  ExtractContentString(m) \in Seq(D)
<1>1. m.content \in Contents(D) /\ ExtractContentString(m) = FlattenSeq(TextPieces(m.content))
  BY MessageFields DEF ExtractContentString, TextPieces
<1>2. QED
  BY <1>1, TextPiecesType, FlattenType

\* A content made of a text is a content.
LEMMA StringContentType ==
  ASSUME NEW D, NEW text \in Seq(D)
  PROVE  /\ StringContent(text) \in Contents(D)
         /\ Len(StringContent(text)) = Len(text)
<1> DEFINE n == Len(text)
           U == [type : PartTypes, data : D]
<1>1. n \in Nat /\ DOMAIN text = 1 .. n /\ \A i \in 1 .. n : text[i] \in D
  OBVIOUS
<1>2. \A i \in 1 .. n : [type |-> "text", data |-> text[i]] \in U
  BY <1>1 DEF PartTypes
<1>3. StringContent(text) = [i \in 1 .. n |-> [type |-> "text", data |-> text[i]]]
  BY <1>1 DEF StringContent
<1>4. StringContent(text) \in [1 .. n -> U]
  <2> HIDE DEF U, n
  <2>1. QED
    BY <1>2, <1>3
<1>5. StringContent(text) \in Seq(U) /\ Len(StringContent(text)) = n
  <2> HIDE DEF U, n
  <2>1. QED
    BY <1>1, <1>4
<1>6. QED
  BY <1>5 DEF Contents

\* extractContentString reads a text back from the content made of it.
LEMMA TextOfString ==
  ASSUME NEW D, NEW text \in Seq(D), NEW m, m.content = StringContent(text)
  PROVE  ExtractContentString(m) = text
<1>1. DOMAIN m.content = DOMAIN text
  BY DEF StringContent
<1>2. \A i \in DOMAIN text : m.content[i].type = "text" /\ m.content[i].data = text[i]
  BY DEF StringContent
<1>3. ExtractContentString(m) = FlattenSeq([i \in DOMAIN text |-> <<text[i]>>])
  BY <1>1, <1>2 DEF ExtractContentString
<1>4. QED
  BY <1>3, FlattenSingles

-----------------------------------------------------------------------------
(* The loop of Anthropic's separateSystemMessages.                         *)

Looped(f, h) ==
  /\ f[0] = <<>>
  /\ \A n \in 0 .. Len(h) - 1 : f[n + 1] = A!AppendMessage(f[n], h[n + 1])

LoopOf(f, h) ==
  f = [n \in 0 .. Len(h) |-> IF n = 0 THEN <<>> ELSE A!AppendMessage(f[n - 1], h[n])]

\* The loop of separateSystemMessages goes through the history in order.
LEMMA LoopSteps ==
  ASSUME NEW h, Len(h) \in Nat, NEW f, LoopOf(f, h)
  PROVE  Looped(f, h)
<1>1. f[0] = <<>>
  BY DEF LoopOf
<1>2. ASSUME NEW n \in 0 .. Len(h) - 1
      PROVE  f[n + 1] = A!AppendMessage(f[n], h[n + 1])
  <2>1. n + 1 \in 0 .. Len(h) /\ n + 1 # 0 /\ (n + 1) - 1 = n
    OBVIOUS
  <2>2. f[n + 1] = A!AppendMessage(f[(n + 1) - 1], h[n + 1])
    BY <2>1 DEF LoopOf
  <2>3. QED
    BY <2>1, <2>2
<1>3. QED
  BY <1>1, <1>2 DEF Looped

\* The loop over a history goes on to one more message.
LEMMA LoopAppend ==
  ASSUME NEW E, NEW h \in Seq(E), NEW m \in E, NEW f, LoopOf(f, h)
  PROVE  \E g : LoopOf(g, Append(h, m))
<1> DEFINE k == Len(h)
           x == A!AppendMessage(f[k], m)
           h1 == Append(h, m)
           g == [n \in 0 .. k + 1 |-> IF n <= k THEN f[n] ELSE x]
<1>1. k \in Nat /\ Len(h1) = k + 1 /\ h1[k + 1] = m /\ \A i \in 1 .. k : h1[i] = h[i]
  BY AppendProperties
<1> HIDE DEF k
<1>2. Looped(f, h)
  BY <1>1, LoopSteps DEF k
<1>3. ASSUME NEW n \in 0 .. k + 1
      PROVE  g[n] = IF n = 0 THEN <<>> ELSE A!AppendMessage(g[n - 1], h1[n])
  <2>1. CASE n = 0
    BY <2>1, <1>1, <1>2 DEF Looped
  <2>2. CASE n \in 1 .. k
    <3>1. PICK j \in 0 .. k - 1 : n = j + 1
      <4>1. n - 1 \in 0 .. k - 1 /\ n = (n - 1) + 1
        BY <2>2, <1>1
      <4>2. QED
        BY <4>1
    <3>2. f[j + 1] = A!AppendMessage(f[j], h[j + 1])
      BY <1>2, <3>1 DEF Looped, k
    <3>3. g[n] = f[j + 1] /\ g[n - 1] = f[j] /\ h1[n] = h[j + 1] /\ n # 0
      BY <1>1, <2>2, <3>1
    <3>4. QED
      BY <3>2, <3>3
  <2>3. CASE n = k + 1
    <3>1. g[n] = x /\ g[n - 1] = f[k] /\ h1[n] = m /\ n # 0
      BY <1>1, <2>3
    <3>2. QED
      BY <3>1
  <2>4. QED
    BY <1>1, <2>1, <2>2, <2>3
<1>4. g = [n \in 0 .. k + 1 |-> IF n = 0 THEN <<>> ELSE A!AppendMessage(g[n - 1], h1[n])]
  <2> DEFINE r(n) == IF n = 0 THEN <<>> ELSE A!AppendMessage(g[n - 1], h1[n])
  <2>1. g = [n \in 0 .. k + 1 |-> g[n]]
    OBVIOUS
  <2>2. \A n \in 0 .. k + 1 : g[n] = r(n)
    BY <1>3
  <2> HIDE DEF g, r
  <2>3. g = [n \in 0 .. k + 1 |-> r(n)]
    BY <2>1, <2>2
  <2>4. QED
    BY <2>3 DEF r
<1>5. LoopOf(g, h1)
  <2> HIDE DEF g, h1
  <2>1. QED
    BY <1>1, <1>4 DEF LoopOf
<1>6. QED
  BY <1>5

\* Every history has such a loop.
LEMMA LoopExists ==
  ASSUME NEW E, NEW h \in Seq(E)
  PROVE  \E f : LoopOf(f, h)
<1> DEFINE Q == {s \in Seq(E) : \E f : LoopOf(f, s)}
<1>1. <<>> \in Q
  <2> DEFINE g == [n \in 0 .. 0 |-> <<>>]
  <2>1. g = [n \in 0 .. Len(<<>>) |->
               IF n = 0 THEN <<>> ELSE A!AppendMessage(g[n - 1], <<>>[n])]
    OBVIOUS
  <2>2. LoopOf(g, <<>>)
    BY <2>1 DEF LoopOf
  <2>3. QED
    BY <2>2
<1>2. \A s \in Seq(E) : \A e \in E : s \in Q => Append(s, e) \in Q
  BY LoopAppend, AppendProperties
<1>3. Seq(E) \subseteq Q
  <2> HIDE DEF Q
  <2> QED
    BY <1>1, <1>2, SequenceInduction
<1>4. QED
  BY <1>3

\* separateSystemMessages returns what its loop has at the end.
LEMMA MessagesLooped ==
  ASSUME NEW E, NEW h \in Seq(E)
  PROVE  \E f : Looped(f, h) /\ A!Messages(h) = f[Len(h)]
<1> DEFINE loop == CHOOSE f : LoopOf(f, h)
<1>1. LoopOf(loop, h)
  BY LoopExists
<1>2. A!Messages(h) = loop[Len(h)]
  BY DEF A!Messages, LoopOf
<1>3. Len(h) \in Nat
  BY LenProperties
<1> HIDE DEF loop
<1>4. QED
  BY <1>1, <1>2, <1>3, LoopSteps

\* No history, no messages.
LEMMA MessagesOfEmpty == A!Messages(<<>>) = <<>>
<1>1. <<>> \in Seq({}) /\ Len(<<>>) = 0
  OBVIOUS
<1>2. QED
  BY <1>1, MessagesLooped DEF Looped

\* One more message of the history is one more turn of the loop.
LEMMA MessagesAppend ==
  ASSUME NEW E, NEW h \in Seq(E), NEW m \in E
  PROVE  A!Messages(Append(h, m)) = A!AppendMessage(A!Messages(h), m)
<1> DEFINE k == Len(h)
           h1 == Append(h, m)
<1>1. k \in Nat /\ h1 \in Seq(E) /\ Len(h1) = k + 1 /\ h1[k + 1] = m /\ \A i \in 1 .. k : h1[i] = h[i]
  BY AppendProperties
<1>2. PICK f : Looped(f, h) /\ A!Messages(h) = f[k]
  BY MessagesLooped
<1>3. PICK g : Looped(g, h1) /\ A!Messages(h1) = g[k + 1]
  BY <1>1, MessagesLooped
<1> DEFINE T == {n \in Nat : n <= k => f[n] = g[n]}
<1>4. 0 \in T
  BY <1>2, <1>3 DEF Looped
<1>5. ASSUME NEW n \in Nat, n \in T
      PROVE  n + 1 \in T
  <2>1. CASE n + 1 <= k
    <3>1. n \in 0 .. Len(h) - 1 /\ n \in 0 .. Len(h1) - 1 /\ h1[n + 1] = h[n + 1]
      BY <1>1, <2>1
    <3>2. f[n + 1] = A!AppendMessage(f[n], h[n + 1]) /\ g[n + 1] = A!AppendMessage(g[n], h1[n + 1])
      BY <1>2, <1>3, <3>1 DEF Looped
    <3>3. f[n] = g[n]
      BY <1>1, <1>5, <2>1
    <3>4. f[n + 1] = g[n + 1]
      BY <3>1, <3>2, <3>3
    <3>5. QED
      BY <3>4
  <2>2. CASE ~(n + 1 <= k)
    BY <2>2
  <2>3. QED
    BY <2>1, <2>2
<1>6. Nat \subseteq T
  <2> HIDE DEF T
  <2> QED
    BY <1>4, <1>5, SetInduction
<1>7. f[k] = g[k]
  BY <1>1, <1>6
<1>8. k \in 0 .. Len(h1) - 1
  BY <1>1
<1>9. g[k + 1] = A!AppendMessage(g[k], h1[k + 1])
  BY <1>3, <1>8 DEF Looped
<1>10. QED
  BY <1>1, <1>2, <1>3, <1>7, <1>9

-----------------------------------------------------------------------------
(* Where the answers are in a sequence of messages.                        *)

IsAnswer(m) == m.role \in {"assistant", "model"}
AnswersIn(s) == {i \in 1 .. Len(s) : IsAnswer(s[i])}

\* AnswerPlaces lists the set of the answers' places.
LEMMA AnswerPlacesAre ==
  ASSUME NEW s
  PROVE  AnswerPlaces(s) = Places(AnswersIn(s), Len(s))
<1> DEFINE n == Len(s)
           T == AnswersIn(s)
<1>1. \A i \in 1 .. n : i \in T <=> s[i].role \in {"assistant", "model"}
  BY DEF AnswersIn, IsAnswer
<1>2. [i \in 1 .. n |-> IF s[i].role \in {"assistant", "model"} THEN <<i>> ELSE <<>>]
        = [i \in 1 .. n |-> IF i \in T THEN <<i>> ELSE <<>>]
  <2> HIDE DEF n, T
  <2> QED
    BY <1>1
<1>3. QED
  BY <1>2 DEF AnswerPlaces, Places

\* At the places listed are answers.
LEMMA AnswerPlacesType ==
  ASSUME NEW s, Len(s) \in Nat
  PROVE  /\ AnswerPlaces(s) \in Seq(1 .. Len(s))
         /\ \A t \in 1 .. Len(AnswerPlaces(s)) : IsAnswer(s[AnswerPlaces(s)[t]])
<1> DEFINE T == AnswersIn(s) \cap (1 .. Len(s))
<1>1. AnswerPlaces(s) \in Seq(T)
  BY AnswerPlacesAre, PlacesAppend
<1>2. T \subseteq 1 .. Len(s) /\ \A i \in T : IsAnswer(s[i])
  BY DEF AnswersIn
<1> HIDE DEF T
<1>3. QED
  BY <1>1, <1>2, SeqMonotonic, ElementOfSeq

\* No message, no answer.
LEMMA AnswerPlacesOfEmpty == AnswerPlaces(<<>>) = <<>>
<1>1. AnswerPlaces(<<>>) \in Seq(1 .. 0)
  BY AnswerPlacesType
<1>2. \A p \in Seq(1 .. 0) : p = <<>>
  OBVIOUS
<1>3. QED
  BY <1>1, <1>2

\* Only the roles matter.
LEMMA SameRolesSamePlaces ==
  ASSUME NEW s, NEW t, Len(s) = Len(t), \A i \in 1 .. Len(s) : IsAnswer(s[i]) <=> IsAnswer(t[i])
  PROVE  AnswerPlaces(s) = AnswerPlaces(t)
<1>1. AnswersIn(s) = AnswersIn(t)
  BY DEF AnswersIn
<1>2. QED
  BY <1>1, AnswerPlacesAre

\* Only a message that is an answer adds a place.
LEMMA AnswerPlacesAppend ==
  ASSUME NEW E, NEW s \in Seq(E), NEW m \in E
  PROVE  AnswerPlaces(Append(s, m)) =
           IF IsAnswer(m) THEN Append(AnswerPlaces(s), Len(s) + 1) ELSE AnswerPlaces(s)
<1> DEFINE n == Len(s)
           s1 == Append(s, m)
           T == AnswersIn(s)
           T1 == AnswersIn(s1)
<1>1. n \in Nat /\ Len(s1) = n + 1 /\ s1[n + 1] = m /\ \A i \in 1 .. n : s1[i] = s[i]
  BY AppendProperties
<1>2. (n + 1 \in T1 <=> IsAnswer(m)) /\ \A i \in 1 .. n : i \in T1 <=> i \in T
  <2> HIDE DEF s1
  <2> QED
    BY <1>1 DEF AnswersIn, n
<1>3. Places(T1, n) = Places(T, n)
  <2> HIDE DEF T, T1, n, s1
  <2>1. [i \in 1 .. n |-> IF i \in T THEN <<i>> ELSE <<>>]
          = [i \in 1 .. n |-> IF i \in T1 THEN <<i>> ELSE <<>>]
    BY <1>2
  <2>2. QED
    BY <2>1 DEF Places
<1>4. AnswerPlaces(s) = Places(T, n) /\ AnswerPlaces(s1) = Places(T1, n + 1)
  <2> HIDE DEF s1
  <2> QED
    BY <1>1, AnswerPlacesAre
<1> HIDE DEF T, T1, n, s1
<1>5. Places(T1, n + 1) = IF n + 1 \in T1 THEN Append(Places(T1, n), n + 1) ELSE Places(T1, n)
  BY <1>1, PlacesAppend
<1>6. QED
  BY <1>2, <1>3, <1>4, <1>5 DEF n, s1

-----------------------------------------------------------------------------
(* The messages of a request to Anthropic.                                 *)

BlocksOver(D) ==
  [type : {"text", "tool_use", "tool_result"}, id : Seq(Nat), name : Strings,
   input : ArgumentsOver(D), text : Seq(D)]

AnthropicMessages(D) ==
  [role : {"user", "assistant"}, text : Seq(D), blocks : Seq(BlocksOver(D))]

\* Arguments stay arguments when they are parsed and when they are written.
LEMMA ArgumentsTyped ==
  ASSUME NEW D
  PROVE  /\ EmptyObject \in ArgumentsOver(D) /\ A!EmptyObject = EmptyObject
         /\ NoArguments \in ArgumentsOver(D) /\ A!NoArguments = NoArguments
         /\ Malformed \in ArgumentsOver(D)
         /\ \A a \in ArgumentsOver(D) :
              /\ ParseArguments(a) \in ArgumentsOver(D) /\ A!ParseArguments(a) = ParseArguments(a)
              /\ ToJSONString(a) \in ArgumentsOver(D) /\ A!ToJSONString(a) = ToJSONString(a)
BY DEF EmptyObject, NoArguments, Malformed, ArgumentsOver, A!EmptyObject, A!NoArguments,
       Arguments, A!Arguments, ParseArguments, A!ParseArguments, ToJSONString, A!ToJSONString

\* The block of a call has its id, its name and its arguments, parsed.
LEMMA ToolUseTyped ==
  ASSUME NEW D, NEW call, call.id \in Seq(Nat), call.name \in Strings,
         call.arguments \in ArgumentsOver(D), call = Call(call.id, call.name, call.arguments)
  PROVE  /\ A!ToolUse(call) \in BlocksOver(D)
         /\ A!ToolUse(call) = [type |-> "tool_use", id |-> call.id, name |-> call.name,
                               input |-> ParseArguments(call.arguments), text |-> <<>>]
<1>1. A!ToolUse(call) = [type |-> "tool_use", id |-> call.id, name |-> call.name,
                         input |-> A!ParseArguments(call.arguments), text |-> <<>>]
  BY DEF A!ToolUse, A!Block, Call
<1>2. <<>> \in Seq(D)
  OBVIOUS
<1>3. ParseArguments(call.arguments) \in ArgumentsOver(D)
      /\ A!ParseArguments(call.arguments) = ParseArguments(call.arguments)
  BY ArgumentsTyped
<1>4. QED
  BY <1>1, <1>2, <1>3 DEF BlocksOver

\* The block of a tool's result has the id of the call and the text of the message.
LEMMA ToolResultTyped ==
  ASSUME NEW D, NEW m \in MessagesOver(D)
  PROVE  /\ A!ToolResult(m) \in BlocksOver(D)
         /\ A!ToolResult(m) = [type |-> "tool_result", id |-> m.tool_call_id, name |-> NoName,
                               input |-> NoArguments, text |-> ExtractContentString(m)]
<1>1. A!ToolResult(m) = [type |-> "tool_result", id |-> m.tool_call_id, name |-> NoName,
                         input |-> A!NoArguments, text |-> A!ExtractContentString(m)]
  BY DEF A!ToolResult, A!Block, A!Call, A!NoName, NoName
<1>2. ExtractContentString(m) \in Seq(D) /\ m.tool_call_id \in Seq(Nat) /\ NoName \in Strings
  BY TextType, MessageFields DEF NoName, NoId, Strings
<1>3. NoArguments \in ArgumentsOver(D) /\ A!NoArguments = NoArguments
  BY ArgumentsTyped
<1>4. A!ExtractContentString(m) = ExtractContentString(m)
  BY SameText
<1>5. QED
  BY <1>1, <1>2, <1>3, <1>4 DEF BlocksOver

\* The block of a text.
LEMMA TextBlockTyped ==
  ASSUME NEW D, NEW text \in Seq(D)
  PROVE  /\ A!TextBlock(text) \in BlocksOver(D)
         /\ A!TextBlock(text) = [type |-> "text", id |-> NoId, name |-> NoName,
                                 input |-> NoArguments, text |-> text]
<1>1. A!TextBlock(text) = [type |-> "text", id |-> NoId, name |-> NoName,
                                 input |-> A!NoArguments, text |-> text]
  BY DEF A!TextBlock, A!Block, A!Call, A!NoName, NoName, A!NoId, NoId
<1>2. NoId \in Seq(Nat) /\ NoName \in Strings
  BY DEF NoId, NoName, Strings
<1>3. QED
  BY <1>1, <1>2, ArgumentsTyped DEF BlocksOver

-----------------------------------------------------------------------------
(* What an answer of the history says to Anthropic.                        *)

SaidCalls(D) == [name : Strings, args : ArgumentsOver(D)]

BlockText(D) == [b \in BlocksOver(D) |-> IF b.type = "text" THEN b.text ELSE <<>>]
BlockCall(D) ==
  [b \in BlocksOver(D) |->
     IF b.type = "tool_use" THEN <<[name |-> b.name, args |-> b.input]>> ELSE <<>>]

\* A block says a text or a call, or neither.
LEMMA BlockFunctions ==
  ASSUME NEW D
  PROVE  /\ Maps(BlockText(D), BlocksOver(D), D)
         /\ Maps(BlockCall(D), BlocksOver(D), SaidCalls(D))
<1>1. ASSUME NEW b \in BlocksOver(D)
      PROVE  b.text \in Seq(D) /\ b.name \in Strings /\ b.input \in ArgumentsOver(D)
  BY DEF BlocksOver
<1>2. ASSUME NEW b \in BlocksOver(D)
      PROVE  (IF b.type = "text" THEN b.text ELSE <<>>) \in Seq(D)
  BY <1>1
<1>3. ASSUME NEW b \in BlocksOver(D)
      PROVE  (IF b.type = "tool_use" THEN <<[name |-> b.name, args |-> b.input]>> ELSE <<>>)
               \in Seq(SaidCalls(D))
  <2> DEFINE c == [name |-> b.name, args |-> b.input]
  <2>1. c \in SaidCalls(D)
    BY <1>1 DEF SaidCalls
  <2> HIDE DEF c
  <2>2. (IF b.type = "tool_use" THEN <<c>> ELSE <<>>) \in Seq(SaidCalls(D))
    BY <2>1
  <2>3. QED
    BY <2>2 DEF c
<1>4. QED
  BY <1>2, <1>3 DEF BlockText, BlockCall, Maps

\* What a message says is what its blocks say, joined.
LEMMA AnthropicSaysMapped ==
  ASSUME NEW D, NEW s \in Seq(BlocksOver(D))
  PROVE  /\ AnthropicSays(s).text = Mapped(BlockText(D), s)
         /\ AnthropicSays(s).calls = Mapped(BlockCall(D), s)
<1> DEFINE E == BlocksOver(D)
<1>1. DOMAIN s = 1 .. Len(s) /\ \A i \in 1 .. Len(s) : s[i] \in E
  <2> HIDE DEF E
  <2>1. s \in Seq(E)
    BY DEF E
  <2>2. QED
    BY <2>1, LenProperties, ElementOfSeq
<1>2. \A b \in E : BlockText(D)[b] = IF b.type = "text" THEN b.text ELSE <<>>
  BY DEF BlockText
<1>3. \A b \in E : BlockCall(D)[b] =
        IF b.type = "tool_use" THEN <<[name |-> b.name, args |-> b.input]>> ELSE <<>>
  BY DEF BlockCall
<1> HIDE DEF E
<1>4. AnthropicSays(s).text = Mapped(BlockText(D), s)
  BY <1>1, <1>2 DEF AnthropicSays, TextOf, Mapped
<1>5. AnthropicSays(s).calls = Mapped(BlockCall(D), s)
  BY <1>1, <1>3 DEF AnthropicSays, Mapped
<1>6. QED
  BY <1>4, <1>5

\* What json.Unmarshal leaves of the calls of a message.
CallsKept(calls) ==
  [k \in 1 .. Len(calls) |->
     [name |-> calls[k].name, args |-> ParseArguments(calls[k].arguments)]]

\* Each call is kept, as a call.
LEMMA CallsKeptTyped ==
  ASSUME NEW D, NEW calls \in CallsOver(D)
  PROVE  CallsKept(calls) \in Seq(SaidCalls(D)) /\ Len(CallsKept(calls)) = Len(calls)
<1> DEFINE n == Len(calls)
           c(k) == [name |-> calls[k].name, args |-> ParseArguments(calls[k].arguments)]
<1>1. n \in Nat /\ \A k \in 1 .. n : calls[k].name \in Strings /\ calls[k].arguments \in ArgumentsOver(D)
  BY CallFields
<1>2. \A k \in 1 .. n : c(k) \in SaidCalls(D)
  <2> HIDE DEF n
  <2>1. \A a \in ArgumentsOver(D) : ParseArguments(a) \in ArgumentsOver(D)
    BY ArgumentsTyped
  <2>2. QED
    BY <1>1, <2>1 DEF SaidCalls
<1>3. CallsKept(calls) = [k \in 1 .. n |-> c(k)]
  BY DEF CallsKept
<1> HIDE DEF c, n
<1>4. CallsKept(calls) \in [1 .. n -> SaidCalls(D)]
  BY <1>2, <1>3
<1>5. CallsKept(calls) \in Seq(SaidCalls(D)) /\ Len(CallsKept(calls)) = n
  BY <1>1, <1>4
<1>6. QED
  BY <1>5 DEF n

ToolUsesOf(calls) == [i \in DOMAIN calls |-> A!ToolUse(calls[i])]

\* Each call is a block, with the call's id and name.
LEMMA ToolUsesOfCalls ==
  ASSUME NEW D, NEW calls \in CallsOver(D)
  PROVE  /\ ToolUsesOf(calls) \in Seq(BlocksOver(D)) /\ Len(ToolUsesOf(calls)) = Len(calls)
         /\ \A i \in 1 .. Len(calls) :
              ToolUsesOf(calls)[i] =
                [type |-> "tool_use", id |-> calls[i].id, name |-> calls[i].name,
                 input |-> ParseArguments(calls[i].arguments), text |-> <<>>]
<1> DEFINE n == Len(calls)
           U == [id : Seq(Nat), name : Strings, arguments : ArgumentsOver(D)]
<1>1. n \in Nat /\ DOMAIN calls = 1 .. n /\ \A i \in 1 .. n : calls[i] \in U
  <2>1. calls \in Seq(U)
    BY DEF CallsOver
  <2> HIDE DEF U
  <2>2. QED
    BY <2>1, LenProperties, ElementOfSeq
<1>2. ASSUME NEW u \in U
      PROVE  /\ A!ToolUse(u) \in BlocksOver(D)
             /\ A!ToolUse(u) = [type |-> "tool_use", id |-> u.id, name |-> u.name,
                                input |-> ParseArguments(u.arguments), text |-> <<>>]
  <2>1. /\ u.id \in Seq(Nat) /\ u.name \in Strings /\ u.arguments \in ArgumentsOver(D)
        /\ u = Call(u.id, u.name, u.arguments)
    BY DEF Call
  <2>2. QED
    BY <2>1, ToolUseTyped
<1> HIDE DEF U, n
<1>3. ToolUsesOf(calls) = [i \in 1 .. n |-> A!ToolUse(calls[i])]
  BY <1>1 DEF ToolUsesOf
<1>4. ToolUsesOf(calls) \in [1 .. n -> BlocksOver(D)]
  BY <1>1, <1>2, <1>3
<1>5. ToolUsesOf(calls) \in Seq(BlocksOver(D)) /\ Len(ToolUsesOf(calls)) = n
  BY <1>1, <1>4
<1>6. QED
  BY <1>1, <1>2, <1>3, <1>5 DEF n

\* The blocks of calls say the calls, and no text.
LEMMA ToolUsesSaid ==
  ASSUME NEW D, NEW calls \in CallsOver(D)
  PROVE  /\ Mapped(BlockText(D), ToolUsesOf(calls)) = <<>>
         /\ Mapped(BlockCall(D), ToolUsesOf(calls)) = CallsKept(calls)
<1> DEFINE E == BlocksOver(D)
           s == ToolUsesOf(calls)
<1>1. s \in Seq(E) /\ Len(s) = Len(calls) /\ Len(calls) \in Nat /\ \A i \in 1 .. Len(s) : s[i] \in E
  BY ToolUsesOfCalls, CallFields, ElementOfSeq
<1>2. \A i \in 1 .. Len(s) :
        /\ s[i].type = "tool_use" /\ s[i].name = calls[i].name
        /\ s[i].input = ParseArguments(calls[i].arguments)
  <2>1. \A i \in 1 .. Len(calls) :
          s[i] = [type |-> "tool_use", id |-> calls[i].id, name |-> calls[i].name,
                  input |-> ParseArguments(calls[i].arguments), text |-> <<>>]
    BY ToolUsesOfCalls
  <2> HIDE DEF s
  <2>2. TAKE i \in 1 .. Len(s)
  <2>3. s[i] = [type |-> "tool_use", id |-> calls[i].id, name |-> calls[i].name,
                input |-> ParseArguments(calls[i].arguments), text |-> <<>>]
    BY <1>1, <2>1
  <2>4. QED
    BY <2>3
<1>3. \A i \in 1 .. Len(s) :
        /\ BlockText(D)[s[i]] = <<>>
        /\ BlockCall(D)[s[i]] = <<CallsKept(calls)[i]>>
  <2> HIDE DEF s
  <2>1. QED
    BY <1>1, <1>2 DEF BlockText, BlockCall, CallsKept
<1> HIDE DEF s, E
<1>4. Maps(BlockText(D), E, D)
  BY BlockFunctions DEF E
<1>5. Mapped(BlockText(D), s) = <<>>
  BY <1>1, <1>3, <1>4, MappedNothing
<1>6. CallsKept(calls) \in Seq(SaidCalls(D)) /\ Len(CallsKept(calls)) = Len(s)
  BY <1>1, CallsKeptTyped
<1>7. Singles(BlockCall(D), s, CallsKept(calls))
  BY <1>1, <1>3, <1>6 DEF Singles
<1>8. Mapped(BlockCall(D), s) = CallsKept(calls)
  BY <1>6, <1>7, MappedSingles
<1>9. QED
  BY <1>5, <1>8 DEF s

\* The blocks of the text of a message, before those of its calls.
TextBlocks(text) == IF text = <<>> THEN <<>> ELSE <<A!TextBlock(text)>>

\* The blocks of a text say the text, and no call.
LEMMA TextBlocksSaid ==
  ASSUME NEW D, NEW text \in Seq(D)
  PROVE  /\ TextBlocks(text) \in Seq(BlocksOver(D))
         /\ Mapped(BlockText(D), TextBlocks(text)) = text
         /\ Mapped(BlockCall(D), TextBlocks(text)) = <<>>
         /\ <<A!TextBlock(text)>> \in Seq(BlocksOver(D))
         /\ Mapped(BlockText(D), <<A!TextBlock(text)>>) = text
         /\ Mapped(BlockCall(D), <<A!TextBlock(text)>>) = <<>>
<1> DEFINE b == A!TextBlock(text)
           E == BlocksOver(D)
<1>1. b \in E /\ b.type = "text" /\ b.text = text
  BY TextBlockTyped
<1>2. BlockText(D)[b] = text /\ BlockCall(D)[b] = <<>>
  BY <1>1 DEF BlockText, BlockCall
<1> HIDE DEF b, E
<1>3. Maps(BlockText(D), E, D) /\ Maps(BlockCall(D), E, SaidCalls(D))
  BY BlockFunctions DEF E
<1>4. Mapped(BlockText(D), <<b>>) = text
  BY <1>1, <1>2, <1>3, MappedOne
<1>5. Mapped(BlockCall(D), <<b>>) = <<>>
  BY <1>1, <1>2, <1>3, MappedOne
<1>6. <<b>> \in Seq(E) /\ <<>> \in Seq(E)
  BY <1>1
<1>7. TextBlocks(text) = IF text = <<>> THEN <<>> ELSE <<b>>
  BY DEF TextBlocks, b
<1>8. QED
  BY <1>4, <1>5, <1>6, <1>7, MappedOfEmpty DEF b, E

\* buildAssistantMessage: the text as a string, or before the calls in blocks.
LEMMA AssistantMessageIs ==
  ASSUME NEW m
  PROVE  A!BuildAssistantMessage(m) =
           IF m.calls = <<>>
             THEN [role |-> "assistant", text |-> ExtractContentString(m), blocks |-> <<>>]
             ELSE [role |-> "assistant", text |-> <<>>,
                   blocks |-> TextBlocks(ExtractContentString(m)) \o ToolUsesOf(m.calls)]
<1>1. A!ExtractContentString(m) = ExtractContentString(m)
  BY SameText
<1>2. QED
  BY <1>1 DEF A!BuildAssistantMessage, TextBlocks, ToolUsesOf

\* buildAssistantMessage keeps the text of a message, and its calls with parsed arguments.
LEMMA AnthropicKeeps ==
  ASSUME NEW D, NEW m \in MessagesOver(D)
  PROVE  /\ A!BuildAssistantMessage(m) \in AnthropicMessages(D)
         /\ A!BuildAssistantMessage(m).role = "assistant"
         /\ AnthropicMessageSays(A!BuildAssistantMessage(m)).text = ExtractContentString(m)
         /\ AnthropicMessageSays(A!BuildAssistantMessage(m)).calls = CallsKept(m.calls)
<1> DEFINE text == ExtractContentString(m)
           E == BlocksOver(D)
           b == A!BuildAssistantMessage(m)
           s == TextBlocks(text)
           t == ToolUsesOf(m.calls)
<1>1. text \in Seq(D) /\ m.calls \in CallsOver(D)
  BY TextType, MessageFields
<1>2. /\ s \in Seq(E)
      /\ Mapped(BlockText(D), s) = text
      /\ Mapped(BlockCall(D), s) = <<>>
      /\ <<A!TextBlock(text)>> \in Seq(E)
      /\ Mapped(BlockText(D), <<A!TextBlock(text)>>) = text
      /\ Mapped(BlockCall(D), <<A!TextBlock(text)>>) = <<>>
  BY <1>1, TextBlocksSaid
<1>3. b = IF m.calls = <<>> THEN [role |-> "assistant", text |-> text, blocks |-> <<>>]
          ELSE [role |-> "assistant", text |-> <<>>, blocks |-> s \o t]
  BY AssistantMessageIs
<1>4. /\ Maps(BlockText(D), E, D) /\ Maps(BlockCall(D), E, SaidCalls(D))
      /\ \A q \in Seq(E) : /\ AnthropicSays(q).text = Mapped(BlockText(D), q)
                           /\ AnthropicSays(q).calls = Mapped(BlockCall(D), q)
  BY BlockFunctions, AnthropicSaysMapped
<1> HIDE DEF b, s, E, text
<1>5. CASE m.calls = <<>>
  <2>1. b.role = "assistant" /\ b.text = text /\ b.blocks = <<>> /\ b \in AnthropicMessages(D)
    BY <1>1, <1>3, <1>5 DEF AnthropicMessages
  <2>2. AnthropicMessageSays(b) = AnthropicSays(<<A!TextBlock(text)>>)
    BY <2>1 DEF AnthropicMessageSays
  <2>3. CallsKept(m.calls) = <<>>
    BY <1>5 DEF CallsKept
  <2>4. QED
    BY <1>2, <1>4, <2>1, <2>2, <2>3 DEF b, text
<1>6. CASE m.calls # <<>>
  <2>1. t \in Seq(E) /\ Len(t) = Len(m.calls)
    BY <1>1, ToolUsesOfCalls DEF E
  <2>2. Mapped(BlockText(D), t) = <<>> /\ Mapped(BlockCall(D), t) = CallsKept(m.calls)
    BY <1>1, ToolUsesSaid
  <2>3. Len(m.calls) \in Nat \ {0}
    <3>1. Len(m.calls) \in Nat /\ (Len(m.calls) = 0 => m.calls = <<>>)
      BY <1>1 DEF CallsOver
    <3>2. QED
      BY <1>6, <3>1
  <2>4. s \o t \in Seq(E) /\ s \o t # <<>>
    <3> HIDE DEF t
    <3>1. s \o t \in Seq(E) /\ Len(s \o t) = Len(s) + Len(t) /\ Len(s) \in Nat
      BY <1>2, <2>1, ConcatProperties, LenProperties
    <3>2. Len(s \o t) # 0
      BY <2>1, <2>3, <3>1
    <3>3. Len(<<>>) = 0
      OBVIOUS
    <3>4. QED
      BY <3>1, <3>2, <3>3
  <2>5. CallsKept(m.calls) \in Seq(SaidCalls(D))
    BY <1>1, CallsKeptTyped
  <2> HIDE DEF t
  <2>11. /\ Maps(BlockText(D), E, D) /\ Maps(BlockCall(D), E, SaidCalls(D))
         /\ s \in Seq(E) /\ t \in Seq(E)
    BY <1>2, <1>4, <2>1
  <2>12. Mapped(BlockText(D), s \o t) = Mapped(BlockText(D), s) \o Mapped(BlockText(D), t)
    BY ONLY <2>11, MappedConcat
  <2>13. Mapped(BlockCall(D), s \o t) = Mapped(BlockCall(D), s) \o Mapped(BlockCall(D), t)
    BY ONLY <2>11, MappedConcat
  <2>6. Mapped(BlockText(D), s \o t) = text
    BY <1>1, <1>2, <2>2, <2>12, ConcatEmptySeq
  <2>7. Mapped(BlockCall(D), s \o t) = CallsKept(m.calls)
    BY <1>2, <2>2, <2>5, <2>13, ConcatEmptySeq
  <2>8. b.role = "assistant" /\ b.blocks = s \o t /\ b \in AnthropicMessages(D)
    <3>1. <<>> \in Seq(D)
      OBVIOUS
    <3>2. QED
      BY <1>3, <1>6, <2>4, <3>1 DEF AnthropicMessages, E
  <2>9. AnthropicMessageSays(b) = AnthropicSays(s \o t)
    BY <2>4, <2>8 DEF AnthropicMessageSays
  <2>10. QED
    BY <1>4, <2>4, <2>6, <2>7, <2>8, <2>9 DEF b, text
<1>7. QED
  BY <1>5, <1>6

-----------------------------------------------------------------------------
(* The messages of a request to Anthropic.                                 *)

UserMessage(text, blocks) == [role |-> "user", text |-> text, blocks |-> blocks]

\* A message with results is a message.
LEMMA UserMessageTyped ==
  ASSUME NEW D, NEW text \in Seq(D), NEW blocks \in Seq(BlocksOver(D))
  PROVE  UserMessage(text, blocks) \in AnthropicMessages(D)
BY DEF UserMessage, AnthropicMessages

\* The community modules' Last and ReplaceAt, unfolded.
LEMMA SameLast ==
  ASSUME NEW s, NEW n, NEW e
  PROVE  A!Last(s) = s[Len(s)] /\ Last(s) = s[Len(s)] /\ A!ReplaceAt(s, n, e) = [s EXCEPT ![n] = e]
BY DEF A!Last, Last, A!ReplaceAt

\* The last message takes a result.
Open(s) == s # <<>> /\ s[Len(s)].role = "user" /\ s[Len(s)].blocks # <<>>

AppendedResult(s, r) ==
  IF Open(s)
    THEN [s EXCEPT ![Len(s)] = [s[Len(s)] EXCEPT !.blocks = Append(@, r)]]
    ELSE Append(s, UserMessage(<<>>, <<r>>))

\* appendToolResult joins a result to an open message or opens one.
LEMMA AppendToolResultIs ==
  ASSUME NEW s, NEW r
  PROVE  A!AppendToolResult(s, r) = AppendedResult(s, r)
<1> DEFINE n == Len(s)
           m1 == [s[n] EXCEPT !.blocks = Append(@, r)]
<1>1. A!Last(s) = s[n]
  BY SameLast
<1>2. A!ReplaceAt(s, n, m1) = [s EXCEPT ![n] = m1]
  BY SameLast
<1> DEFINE m2 == [A!Last(s) EXCEPT !.blocks = Append(@, r)]
<1>3. A!AppendToolResult(s, r) =
        IF s # <<>> /\ A!Last(s).role = "user" /\ A!Last(s).blocks # <<>>
          THEN A!ReplaceAt(s, n, m2)
          ELSE Append(s, UserMessage(<<>>, <<r>>))
  BY DEF A!AppendToolResult, UserMessage
<1>4. m2 = m1
  BY <1>1
<1>5. AppendedResult(s, r) = IF Open(s) THEN [s EXCEPT ![n] = m1]
                             ELSE Append(s, UserMessage(<<>>, <<r>>))
  BY DEF AppendedResult
<1>6. Open(s) <=> s # <<>> /\ A!Last(s).role = "user" /\ A!Last(s).blocks # <<>>
  BY <1>1 DEF Open
<1> HIDE DEF m1, m2, n
<1>7. A!ReplaceAt(s, n, m2) = [s EXCEPT ![n] = m1]
  BY <1>2, <1>4
<1>8. CASE Open(s)
  BY <1>3, <1>5, <1>6, <1>7, <1>8
<1>9. CASE ~Open(s)
  BY <1>3, <1>5, <1>6, <1>9
<1>10. QED
  BY <1>8, <1>9

\* One turn of the loop, as a message of the history has it.
LEMMA AppendMessageIs ==
  ASSUME NEW s, NEW m
  PROVE  A!AppendMessage(s, m) =
           IF m.role = "tool" THEN AppendedResult(s, A!ToolResult(m))
           ELSE IF m.role = "assistant" THEN Append(s, A!BuildAssistantMessage(m))
           ELSE IF m.role = "user" THEN Append(s, UserMessage(ExtractContentString(m), <<>>))
           ELSE s
BY SameText, AppendToolResultIs DEF A!AppendMessage, UserMessage

\* A result makes the last message longer, or is a new one; either way it is the client's.
LEMMA AppendedResultIs ==
  ASSUME NEW D, NEW s \in Seq(AnthropicMessages(D)), NEW r \in BlocksOver(D)
  PROVE  /\ AppendedResult(s, r) \in Seq(AnthropicMessages(D))
         /\ Len(AppendedResult(s, r)) = IF Open(s) THEN Len(s) ELSE Len(s) + 1
         /\ \A i \in 1 .. Len(s) : (Open(s) /\ i = Len(s)) \/ AppendedResult(s, r)[i] = s[i]
         /\ Len(AppendedResult(s, r)) >= 1
         /\ AppendedResult(s, r)[Len(AppendedResult(s, r))] =
              IF Open(s) THEN UserMessage(s[Len(s)].text, Append(s[Len(s)].blocks, r))
              ELSE UserMessage(<<>>, <<r>>)
<1> DEFINE E == AnthropicMessages(D)
           n == Len(s)
           m == s[n]
<1>1. s \in Seq(E) /\ n \in Nat /\ \A i \in 1 .. n : s[i] \in E
  BY LenProperties, ElementOfSeq
<1>2. CASE Open(s)
  <2>1. n >= 1 /\ m \in E
    <3> HIDE DEF E, m
    <3>1. n # 0
      BY <1>1, <1>2 DEF Open
    <3>2. QED
      BY <1>1, <3>1 DEF m
  <2>2. m = UserMessage(m.text, m.blocks) /\ m.text \in Seq(D) /\ m.blocks \in Seq(BlocksOver(D))
    <3>1. m.role = "user"
      BY <1>2 DEF Open
    <3>2. QED
      BY <2>1, <3>1 DEF UserMessage, AnthropicMessages
  <2> DEFINE m1 == [m EXCEPT !.blocks = Append(@, r)]
             x == AppendedResult(s, r)
  <2>3. m1 = UserMessage(m.text, Append(m.blocks, r))
    <3> HIDE DEF m
    <3>1. PICK text, blocks : m = UserMessage(text, blocks)
      BY <2>2
    <3>2. m1 = [UserMessage(text, blocks) EXCEPT !.blocks = Append(@, r)]
      BY <3>1
    <3> HIDE DEF m1
    <3>3. m1 = UserMessage(text, Append(blocks, r))
      BY <3>2 DEF UserMessage
    <3>5. m.text = text /\ m.blocks = blocks
      BY <3>1 DEF UserMessage
    <3>4. QED
      BY <3>3, <3>5
  <2>4. Append(m.blocks, r) \in Seq(BlocksOver(D))
    BY <2>2, AppendProperties
  <2>5. m1 \in E
    BY <2>2, <2>3, <2>4, UserMessageTyped
  <2>6. x = [s EXCEPT ![n] = m1]
    BY <1>2 DEF AppendedResult
  <2> HIDE DEF m1, E, m, n, x
  <2>7. x \in Seq(E) /\ Len(x) = n /\ \A j \in 1 .. n : x[j] = IF j = n THEN m1 ELSE s[j]
    <3>1. s \in Seq(E) /\ n \in 1 .. Len(s)
      BY <1>1, <2>1 DEF n
    <3>2. /\ [s EXCEPT ![n] = m1] \in Seq(E)
          /\ Len([s EXCEPT ![n] = m1]) = Len(s)
          /\ \A j \in 1 .. Len(s) : [s EXCEPT ![n] = m1][j] = IF j = n THEN m1 ELSE s[j]
      BY ONLY <2>5, <3>1, ExceptSeq
    <3>3. QED
      BY <2>6, <3>2 DEF n
  <2>8. QED
    BY <1>1, <1>2, <2>1, <2>3, <2>7 DEF x, n, m, E
<1>3. CASE ~Open(s)
  <2> DEFINE m1 == UserMessage(<<>>, <<r>>)
             x == AppendedResult(s, r)
  <2>1. m1 \in E
    <3>1. <<>> \in Seq(D) /\ <<r>> \in Seq(BlocksOver(D))
      OBVIOUS
    <3>2. QED
      BY <3>1, UserMessageTyped
  <2>2. x = Append(s, m1)
    BY <1>3 DEF AppendedResult
  <2> HIDE DEF m1, E, m, n, x
  <2>3. x \in Seq(E) /\ Len(x) = n + 1 /\ x[n + 1] = m1 /\ \A i \in 1 .. n : x[i] = s[i]
    BY <1>1, <2>1, <2>2, AppendProperties DEF n
  <2>4. QED
    BY <1>1, <1>3, <2>3 DEF x, n, m1, E
<1>4. QED
  BY <1>2, <1>3

\* One turn of the loop makes messages of messages.
LEMMA AppendMessageTyped ==
  ASSUME NEW D, NEW s \in Seq(AnthropicMessages(D)), NEW m \in MessagesOver(D)
  PROVE  A!AppendMessage(s, m) \in Seq(AnthropicMessages(D))
<1>1. A!ToolResult(m) \in BlocksOver(D)
  BY ToolResultTyped
<1>2. AppendedResult(s, A!ToolResult(m)) \in Seq(AnthropicMessages(D))
  BY <1>1, AppendedResultIs
<1>3. A!BuildAssistantMessage(m) \in AnthropicMessages(D)
  BY AnthropicKeeps
<1>4. UserMessage(ExtractContentString(m), <<>>) \in AnthropicMessages(D)
  <2>1. <<>> \in Seq(BlocksOver(D)) /\ ExtractContentString(m) \in Seq(D)
    BY TextType
  <2>2. QED
    BY <2>1, UserMessageTyped
<1> DEFINE E == AnthropicMessages(D)
<1> HIDE DEF E
<1>5. \A e \in E : Append(s, e) \in Seq(E)
  BY AppendProperties DEF E
<1>6. QED
  BY <1>2, <1>3, <1>4, <1>5, AppendMessageIs DEF E

\* What is sent to Anthropic are messages.
LEMMA MessagesTyped ==
  ASSUME NEW D, NEW h \in Seq(MessagesOver(D))
  PROVE  A!Messages(h) \in Seq(AnthropicMessages(D))
<1> DEFINE E == MessagesOver(D)
           F == Seq(AnthropicMessages(D))
           Q == {s \in Seq(E) : A!Messages(s) \in F}
<1>1. <<>> \in Q
  <2>1. <<>> \in Seq(E) /\ <<>> \in F
    OBVIOUS
  <2> HIDE DEF E, F
  <2>2. QED
    BY <2>1, MessagesOfEmpty
<1>2. ASSUME NEW s \in Seq(E), NEW e \in E, s \in Q
      PROVE  Append(s, e) \in Q
  <2>1. A!Messages(s) \in F
    BY <1>2
  <2>2. A!AppendMessage(A!Messages(s), e) \in F
    BY <2>1, AppendMessageTyped
  <2> HIDE DEF E, F
  <2>3. A!Messages(Append(s, e)) = A!AppendMessage(A!Messages(s), e) /\ Append(s, e) \in Seq(E)
    BY <1>2, MessagesAppend, AppendProperties
  <2>4. QED
    BY <2>2, <2>3
<1>3. Seq(E) \subseteq Q
  <2> HIDE DEF Q, E
  <2> QED
    BY <1>1, <1>2, SequenceInduction
<1>4. QED
  BY <1>3

-----------------------------------------------------------------------------
(* The answers in a sequence of messages.                                  *)

AnswersOf(s) == [t \in 1 .. Len(AnswerPlaces(s)) |-> s[AnswerPlaces(s)[t]]]

\* The answers of a sequence of messages are messages of it.
LEMMA AnswersOfType ==
  ASSUME NEW E, NEW s \in Seq(E)
  PROVE  /\ AnswersOf(s) \in Seq(E) /\ Len(AnswersOf(s)) = Len(AnswerPlaces(s))
         /\ Len(AnswersOf(s)) \in Nat
         /\ \A t \in 1 .. Len(AnswersOf(s)) :
              AnswersOf(s)[t] = s[AnswerPlaces(s)[t]] /\ IsAnswer(AnswersOf(s)[t])
<1> DEFINE p == AnswerPlaces(s)
           n == Len(p)
<1>1. Len(s) \in Nat /\ \A i \in 1 .. Len(s) : s[i] \in E
  BY LenProperties, ElementOfSeq
<1>2. p \in Seq(1 .. Len(s)) /\ \A t \in 1 .. n : IsAnswer(s[p[t]])
  BY <1>1, AnswerPlacesType
<1>3. n \in Nat /\ \A t \in 1 .. n : p[t] \in 1 .. Len(s)
  <2> HIDE DEF p
  <2> QED
    BY <1>2, LenProperties, ElementOfSeq
<1>4. \A t \in 1 .. n : s[p[t]] \in E
  BY <1>1, <1>3
<1>5. AnswersOf(s) = [t \in 1 .. n |-> s[p[t]]]
  BY DEF AnswersOf
<1> HIDE DEF p, n
<1>6. AnswersOf(s) \in [1 .. n -> E]
  BY <1>4, <1>5
<1>7. AnswersOf(s) \in Seq(E) /\ Len(AnswersOf(s)) = n
  BY <1>3, <1>6
<1>8. QED
  BY <1>2, <1>3, <1>5, <1>7 DEF n, p

\* No message, no answer.
LEMMA AnswersOfEmpty == AnswersOf(<<>>) = <<>>
BY AnswerPlacesOfEmpty DEF AnswersOf

\* Only a message that is an answer adds an answer.
LEMMA AnswersOfAppend ==
  ASSUME NEW E, NEW s \in Seq(E), NEW m \in E
  PROVE  AnswersOf(Append(s, m)) =
           IF IsAnswer(m) THEN Append(AnswersOf(s), m) ELSE AnswersOf(s)
<1> DEFINE s1 == Append(s, m)
           p == AnswerPlaces(s)
           p1 == AnswerPlaces(s1)
           k == Len(s)
           n == Len(p)
<1>1. k \in Nat /\ s1 \in Seq(E) /\ Len(s1) = k + 1 /\ s1[k + 1] = m /\ \A i \in 1 .. k : s1[i] = s[i]
  BY AppendProperties, LenProperties
<1>2. p \in Seq(1 .. k)
  BY <1>1, AnswerPlacesType
<1>3. n \in Nat /\ \A t \in 1 .. n : p[t] \in 1 .. k
  <2> HIDE DEF p, k
  <2> QED
    BY <1>2, LenProperties, ElementOfSeq
<1>4. p1 = IF IsAnswer(m) THEN Append(p, k + 1) ELSE p
  BY AnswerPlacesAppend
<1>5. AnswersOf(s) = [t \in 1 .. n |-> s[p[t]]]
  BY DEF AnswersOf
<1>6. AnswersOf(s1) = [t \in 1 .. Len(p1) |-> s1[p1[t]]]
  BY DEF AnswersOf
<1>7. AnswersOf(s) \in Seq(E) /\ Len(AnswersOf(s)) = n /\ AnswersOf(s1) \in Seq(E)
      /\ Len(AnswersOf(s1)) = Len(p1)
  <2> HIDE DEF s1
  <2> QED
    BY <1>1, AnswersOfType
<1> HIDE DEF s1, p, p1, k, n
<1>8. CASE ~IsAnswer(m)
  <2>1. p1 = p
    BY <1>4, <1>8
  <2>2. AnswersOf(s1) = AnswersOf(s)
    BY <1>1, <1>3, <1>5, <1>6, <2>1 DEF n
  <2>3. QED
    BY <1>8, <2>2 DEF s1
<1>9. CASE IsAnswer(m)
  <2>1. p1 = Append(p, k + 1) /\ p \in Seq(Nat)
    <3>1. 1 .. k \subseteq Nat
      BY <1>1
    <3>2. QED
      BY <1>2, <1>4, <1>9, <3>1, SeqMonotonic
  <2>2. Len(p1) = n + 1 /\ p1[n + 1] = k + 1 /\ \A t \in 1 .. n : p1[t] = p[t]
    <3>1. k + 1 \in Nat
      BY <1>1
    <3>2. QED
      BY <2>1, <3>1, AppendProperties DEF n
  <2> DEFINE a == Append(AnswersOf(s), m)
  <2>3. /\ a \in Seq(E) /\ Len(a) = n + 1 /\ a[n + 1] = m
        /\ \A t \in 1 .. n : a[t] = AnswersOf(s)[t]
    BY <1>7, AppendProperties
  <2> HIDE DEF a
  <2>4. \A t \in 1 .. n + 1 : AnswersOf(s1)[t] = a[t]
    <3>1. TAKE t \in 1 .. n + 1
    <3>2. AnswersOf(s1)[t] = s1[p1[t]]
      BY <1>6, <2>2
    <3>3. CASE t \in 1 .. n
      BY <1>1, <1>3, <1>5, <2>2, <2>3, <3>2, <3>3
    <3>4. CASE t = n + 1
      BY <1>1, <2>2, <2>3, <3>2, <3>4
    <3>5. QED
      BY <1>3, <3>3, <3>4
  <2>5. AnswersOf(s1) = a
    BY <1>7, <2>2, <2>3, <2>4, SeqEqual
  <2>6. QED
    BY <1>9, <2>5 DEF s1, a
<1>10. QED
  BY <1>8, <1>9

\* What no answer is does not matter.
LEMMA SameAnswers ==
  ASSUME NEW E, NEW s \in Seq(E), NEW t \in Seq(E), Len(s) = Len(t),
         \A i \in 1 .. Len(s) : (IsAnswer(s[i]) <=> IsAnswer(t[i])) /\ (IsAnswer(s[i]) => s[i] = t[i])
  PROVE  AnswersOf(s) = AnswersOf(t)
<1> DEFINE p == AnswerPlaces(s)
           n == Len(p)
<1>1. AnswerPlaces(t) = p
  BY SameRolesSamePlaces
<1>2. Len(s) \in Nat
  BY LenProperties
<1>3. p \in Seq(1 .. Len(s)) /\ \A i \in 1 .. n : IsAnswer(s[p[i]])
  BY <1>2, AnswerPlacesType
<1>4. \A i \in 1 .. n : p[i] \in 1 .. Len(s)
  <2> HIDE DEF p
  <2> QED
    BY <1>3, ElementOfSeq
<1>5. \A i \in 1 .. n : s[p[i]] = t[p[i]]
  BY <1>3, <1>4
<1> HIDE DEF p
<1>6. QED
  BY <1>1, <1>5 DEF AnswersOf, p

-----------------------------------------------------------------------------
(* The answers of a history in a request to Anthropic.                     *)

\* A history without a role that only Vertex knows.
Plain(D) == {m \in MessagesOver(D) : m.role # "model"}

Translated(h, s) ==
  /\ Len(s) = Len(h)
  /\ \A t \in 1 .. Len(h) : s[t] = A!BuildAssistantMessage(h[t])

\* Appending a result leaves the answers alone.
LEMMA ResultIsNoAnswer ==
  ASSUME NEW D, NEW s \in Seq(AnthropicMessages(D)), NEW r \in BlocksOver(D)
  PROVE  AnswersOf(AppendedResult(s, r)) = AnswersOf(s)
<1> DEFINE E == AnthropicMessages(D)
           x == AppendedResult(s, r)
           n == Len(s)
<1>1. /\ x \in Seq(E)
      /\ Len(x) = IF Open(s) THEN n ELSE n + 1
      /\ \A i \in 1 .. n : (Open(s) /\ i = n) \/ x[i] = s[i]
      /\ x[Len(x)] = IF Open(s) THEN UserMessage(s[n].text, Append(s[n].blocks, r))
                     ELSE UserMessage(<<>>, <<r>>)
  BY AppendedResultIs
<1>2. n \in Nat
  BY LenProperties
<1>3. \A text, blocks : ~IsAnswer(UserMessage(text, blocks))
  BY DEF IsAnswer, UserMessage
<1>4. CASE Open(s)
  <2>1. ~IsAnswer(s[n]) /\ ~IsAnswer(x[n]) /\ Len(x) = n
    BY <1>1, <1>3, <1>4 DEF IsAnswer, Open
  <2> HIDE DEF x, n, E
  <2>2. \A i \in 1 .. n : (IsAnswer(s[i]) <=> IsAnswer(x[i])) /\ (IsAnswer(s[i]) => s[i] = x[i])
    BY <1>1, <2>1
  <2>3. s \in Seq(E)
    BY DEF E
  <2>4. QED
    BY <1>1, <2>1, <2>2, <2>3, SameAnswers DEF x, n
<1>5. CASE ~Open(s)
  <2>1. x = Append(s, UserMessage(<<>>, <<r>>))
    BY <1>5 DEF AppendedResult
  <2>2. UserMessage(<<>>, <<r>>) \in E
    <3>1. <<>> \in Seq(D) /\ <<r>> \in Seq(BlocksOver(D))
      OBVIOUS
    <3>2. QED
      BY <3>1, UserMessageTyped
  <2>3. QED
    BY <1>3, <2>1, <2>2, AnswersOfAppend
<1>6. QED
  BY <1>4, <1>5

\* Answers translated one by one, and one more.
LEMMA TranslatedAppend ==
  ASSUME NEW E, NEW h \in Seq(E), NEW F, NEW s \in Seq(F), NEW m \in E,
         A!BuildAssistantMessage(m) \in F, Translated(h, s)
  PROVE  Translated(Append(h, m), Append(s, A!BuildAssistantMessage(m)))
<1> DEFINE b == A!BuildAssistantMessage(m)
           n == Len(h)
<1>1. n \in Nat /\ Len(s) = n /\ \A t \in 1 .. n : s[t] = A!BuildAssistantMessage(h[t])
  BY LenProperties DEF Translated
<1>2. /\ Len(Append(h, m)) = n + 1 /\ Append(h, m)[n + 1] = m
      /\ \A t \in 1 .. n : Append(h, m)[t] = h[t]
  BY AppendProperties
<1> HIDE DEF b
<1>3. /\ Len(Append(s, b)) = n + 1 /\ Append(s, b)[n + 1] = b
      /\ \A t \in 1 .. n : Append(s, b)[t] = s[t]
  BY <1>1, AppendProperties DEF b
<1> HIDE DEF n
<1>4. ASSUME NEW t \in 1 .. n + 1
      PROVE  Append(s, b)[t] = A!BuildAssistantMessage(Append(h, m)[t])
  <2>1. CASE t \in 1 .. n
    <3>1. Append(s, b)[t] = s[t] /\ Append(h, m)[t] = h[t] /\ s[t] = A!BuildAssistantMessage(h[t])
      BY <1>1, <1>2, <1>3, <2>1
    <3>2. QED
      BY <3>1
  <2>2. CASE t = n + 1
    <3>1. Append(s, b)[t] = b /\ Append(h, m)[t] = m
      BY <1>2, <1>3, <2>2
    <3>2. QED
      BY <3>1 DEF b
  <2>3. t \in 1 .. n \/ t = n + 1
    BY <1>1
  <2>4. QED
    BY <2>1, <2>2, <2>3
<1>5. QED
  BY <1>2, <1>3, <1>4 DEF Translated, b

\* The answers of a request to Anthropic are those of the history, translated one by one.
LEMMA AnthropicAnswers ==
  ASSUME NEW D, NEW h \in Seq(Plain(D))
  PROVE  Translated(AnswersOf(h), AnswersOf(A!Messages(h)))
<1> DEFINE E == Plain(D)
           F == AnthropicMessages(D)
           Q == {s \in Seq(E) : Translated(AnswersOf(s), AnswersOf(A!Messages(s)))}
<1>1. <<>> \in Q
  <2>1. Translated(<<>>, <<>>) /\ <<>> \in Seq(E)
    BY DEF Translated
  <2> HIDE DEF E
  <2>2. QED
    BY <2>1, AnswersOfEmpty, MessagesOfEmpty
<1>2. ASSUME NEW s \in Seq(E), NEW m \in E, s \in Q
      PROVE  Append(s, m) \in Q
  <2> DEFINE M == A!Messages(s)
             b == A!BuildAssistantMessage(m)
             u == UserMessage(ExtractContentString(m), <<>>)
             r == A!ToolResult(m)
             h1 == Append(s, m)
             M1 == A!Messages(h1)
  <2>1. m \in MessagesOver(D) /\ m.role # "model" /\ s \in Seq(MessagesOver(D))
    <3>1. E \subseteq MessagesOver(D)
      BY DEF Plain
    <3>2. m \in MessagesOver(D) /\ m.role # "model"
      BY DEF Plain
    <3> HIDE DEF E
    <3>3. QED
      BY <3>1, <3>2, SeqMonotonic
  <2>2. M \in Seq(F)
    BY <2>1, MessagesTyped
  <2>3. M1 = A!AppendMessage(M, m) /\ h1 \in Seq(E)
    <3> HIDE DEF E
    <3> QED
      BY MessagesAppend, AppendProperties
  <2>4. M1 = IF m.role = "tool" THEN AppendedResult(M, r)
             ELSE IF m.role = "assistant" THEN Append(M, b)
             ELSE IF m.role = "user" THEN Append(M, u)
             ELSE M
    BY <2>3, AppendMessageIs
  <2>5. b \in F /\ b.role = "assistant" /\ r \in BlocksOver(D) /\ u \in F /\ u.role = "user"
    <3>1. ExtractContentString(m) \in Seq(D) /\ <<>> \in Seq(BlocksOver(D))
      BY <2>1, TextType
    <3>2. u \in F /\ u.role = "user"
      BY <3>1, UserMessageTyped DEF UserMessage
    <3>3. QED
      BY <2>1, <3>2, AnthropicKeeps, ToolResultTyped
  <2>6. Translated(AnswersOf(s), AnswersOf(M))
    BY <1>2
  <2>7. AnswersOf(h1) = IF IsAnswer(m) THEN Append(AnswersOf(s), m) ELSE AnswersOf(s)
    <3> HIDE DEF E
    <3> QED
      BY AnswersOfAppend
  <2>8. AnswersOf(s) \in Seq(E) /\ AnswersOf(M) \in Seq(F)
    <3> HIDE DEF E, F, M
    <3> QED
      BY <2>2, AnswersOfType
  <2> HIDE DEF M, M1, E, F, b, r, u, h1
  <2>9. CASE m.role = "assistant"
    <3>1. IsAnswer(m) /\ IsAnswer(b)
      BY <2>5, <2>9 DEF IsAnswer
    <3>2. AnswersOf(M1) = Append(AnswersOf(M), b)
      BY <2>2, <2>4, <2>5, <2>9, <3>1, AnswersOfAppend
    <3>3. Translated(Append(AnswersOf(s), m), Append(AnswersOf(M), b))
      BY <2>5, <2>6, <2>8, TranslatedAppend DEF b
    <3>4. QED
      BY <2>3, <2>7, <3>1, <3>2, <3>3 DEF h1, M1
  <2>10. CASE m.role # "assistant"
    <3>1. ~IsAnswer(m)
      BY <2>1, <2>10 DEF IsAnswer
    <3>2. AnswersOf(AppendedResult(M, r)) = AnswersOf(M)
      BY <2>2, <2>5, ResultIsNoAnswer DEF F
    <3>3. AnswersOf(Append(M, u)) = AnswersOf(M)
      BY <2>2, <2>5, AnswersOfAppend DEF IsAnswer
    <3>4. AnswersOf(M1) = AnswersOf(M)
      BY <2>4, <2>10, <3>2, <3>3
    <3>5. QED
      BY <2>3, <2>6, <2>7, <3>1, <3>4 DEF h1, M1
  <2>11. QED
    BY <2>9, <2>10 DEF h1
<1>3. Seq(E) \subseteq Q
  <2> HIDE DEF Q, E
  <2> QED
    BY <1>1, <1>2, SequenceInduction
<1>4. QED
  BY <1>3

-----------------------------------------------------------------------------
(* What an answer of the history says to Vertex.                           *)

PartsOver(D) ==
  [type : {"text", "functionCall"}, name : Strings, args : ArgumentsOver(D), text : Seq(D)]

PartText(D) == [b \in PartsOver(D) |-> IF b.type = "text" THEN b.text ELSE <<>>]
PartCall(D) ==
  [b \in PartsOver(D) |->
     IF b.type = "functionCall" THEN <<[name |-> b.name, args |-> b.args]>> ELSE <<>>]

\* A part says a text or a call.
LEMMA PartFunctions ==
  ASSUME NEW D
  PROVE  /\ Maps(PartText(D), PartsOver(D), D)
         /\ Maps(PartCall(D), PartsOver(D), SaidCalls(D))
<1>1. ASSUME NEW b \in PartsOver(D)
      PROVE  b.text \in Seq(D) /\ b.name \in Strings /\ b.args \in ArgumentsOver(D)
  BY DEF PartsOver
<1>2. ASSUME NEW b \in PartsOver(D)
      PROVE  (IF b.type = "text" THEN b.text ELSE <<>>) \in Seq(D)
  BY <1>1
<1>3. ASSUME NEW b \in PartsOver(D)
      PROVE  (IF b.type = "functionCall" THEN <<[name |-> b.name, args |-> b.args]>> ELSE <<>>)
               \in Seq(SaidCalls(D))
  <2> DEFINE c == [name |-> b.name, args |-> b.args]
  <2>1. c \in SaidCalls(D)
    BY <1>1 DEF SaidCalls
  <2> HIDE DEF c
  <2>2. (IF b.type = "functionCall" THEN <<c>> ELSE <<>>) \in Seq(SaidCalls(D))
    BY <2>1
  <2>3. QED
    BY <2>2 DEF c
<1>4. QED
  BY <1>2, <1>3 DEF PartText, PartCall, Maps

\* What a content says is what its parts say, joined.
LEMMA VertexSaysMapped ==
  ASSUME NEW D, NEW s \in Seq(PartsOver(D))
  PROVE  /\ VertexSays(s).text = Mapped(PartText(D), s)
         /\ VertexSays(s).calls = Mapped(PartCall(D), s)
<1> DEFINE E == PartsOver(D)
<1>1. DOMAIN s = 1 .. Len(s) /\ \A i \in 1 .. Len(s) : s[i] \in E
  <2> HIDE DEF E
  <2>1. s \in Seq(E)
    BY DEF E
  <2>2. QED
    BY <2>1, LenProperties, ElementOfSeq
<1>2. \A b \in E : PartText(D)[b] = IF b.type = "text" THEN b.text ELSE <<>>
  BY DEF PartText
<1>3. \A b \in E : PartCall(D)[b] =
        IF b.type = "functionCall" THEN <<[name |-> b.name, args |-> b.args]>> ELSE <<>>
  BY DEF PartCall
<1> HIDE DEF E
<1>4. VertexSays(s).text = Mapped(PartText(D), s)
  BY <1>1, <1>2 DEF VertexSays, TextOf, Mapped
<1>5. VertexSays(s).calls = Mapped(PartCall(D), s)
  BY <1>1, <1>3 DEF VertexSays, Mapped
<1>6. QED
  BY <1>4, <1>5

VertexArgumentsTyped(D) ==
  /\ V!NoArguments = NoArguments
  /\ \A a \in ArgumentsOver(D) :
       V!ParseArguments(a) = ParseArguments(a) /\ V!ToJSONString(a) = ToJSONString(a)

\* Arguments are parsed and written as by the other translator.
LEMMA VertexArguments == ASSUME NEW D PROVE VertexArgumentsTyped(D)
BY DEF EmptyObject, NoArguments, ArgumentsOver, V!EmptyObject, V!NoArguments,
       Arguments, V!Arguments, ParseArguments, V!ParseArguments, ToJSONString, V!ToJSONString,
       VertexArgumentsTyped

\* The part of a text.
LEMMA TextPartTyped ==
  ASSUME NEW D, NEW text \in Seq(D)
  PROVE  /\ V!TextPart(text) \in PartsOver(D)
         /\ V!TextPart(text).type = "text" /\ V!TextPart(text).text = text
<1>1. V!TextPart(text) = [type |-> "text", name |-> NoName, args |-> V!NoArguments, text |-> text]
  BY DEF V!TextPart, V!Part, V!NoName, NoName
<1>2. NoName \in Strings
  BY DEF NoName, Strings
<1>3. NoArguments \in ArgumentsOver(D) /\ V!NoArguments = NoArguments
  BY ArgumentsTyped, VertexArguments DEF VertexArgumentsTyped
<1>4. QED
  BY <1>1, <1>2, <1>3 DEF PartsOver

FunctionCallsOf(calls) == [i \in DOMAIN calls |-> V!FunctionCall(calls[i])]

\* Each call is a part, with the function's name.
LEMMA FunctionCallsOfCalls ==
  ASSUME NEW D, NEW calls \in CallsOver(D)
  PROVE  /\ FunctionCallsOf(calls) \in Seq(PartsOver(D))
         /\ Len(FunctionCallsOf(calls)) = Len(calls)
         /\ \A i \in 1 .. Len(calls) :
              FunctionCallsOf(calls)[i] =
                [type |-> "functionCall", name |-> calls[i].name,
                 args |-> ParseArguments(calls[i].arguments), text |-> <<>>]
<1> DEFINE n == Len(calls)
<1>1. n \in Nat /\ DOMAIN calls = 1 .. n
      /\ \A i \in 1 .. n : calls[i].name \in Strings /\ calls[i].arguments \in ArgumentsOver(D)
  BY CallFields
<1> HIDE DEF n
<1>2. ASSUME NEW i \in 1 .. n
      PROVE  /\ V!FunctionCall(calls[i]) \in PartsOver(D)
             /\ V!FunctionCall(calls[i]) =
                  [type |-> "functionCall", name |-> calls[i].name,
                   args |-> ParseArguments(calls[i].arguments), text |-> <<>>]
  <2> DEFINE a == calls[i].arguments
  <2>1. a \in ArgumentsOver(D) /\ calls[i].name \in Strings
    BY <1>1
  <2>2. V!FunctionCall(calls[i]) = [type |-> "functionCall", name |-> calls[i].name,
                                    args |-> V!ParseArguments(a), text |-> <<>>]
    BY DEF V!FunctionCall, V!Part
  <2> HIDE DEF a
  <2>3. V!ParseArguments(a) = ParseArguments(a) /\ ParseArguments(a) \in ArgumentsOver(D)
    BY <2>1, ArgumentsTyped, VertexArguments DEF VertexArgumentsTyped
  <2>4. <<>> \in Seq(D)
    OBVIOUS
  <2>5. QED
    BY <2>1, <2>2, <2>3, <2>4 DEF PartsOver, a
<1>3. FunctionCallsOf(calls) = [i \in 1 .. n |-> V!FunctionCall(calls[i])]
  BY <1>1 DEF FunctionCallsOf
<1>4. FunctionCallsOf(calls) \in [1 .. n -> PartsOver(D)]
  BY <1>2, <1>3
<1>5. FunctionCallsOf(calls) \in Seq(PartsOver(D)) /\ Len(FunctionCallsOf(calls)) = n
  BY <1>1, <1>4
<1>6. QED
  BY <1>1, <1>2, <1>3, <1>5 DEF n

\* The parts of calls say the calls, and no text.
LEMMA FunctionCallsSaid ==
  ASSUME NEW D, NEW calls \in CallsOver(D)
  PROVE  /\ Mapped(PartText(D), FunctionCallsOf(calls)) = <<>>
         /\ Mapped(PartCall(D), FunctionCallsOf(calls)) = CallsKept(calls)
<1> DEFINE E == PartsOver(D)
           s == FunctionCallsOf(calls)
<1>1. s \in Seq(E) /\ Len(s) = Len(calls) /\ Len(calls) \in Nat /\ \A i \in 1 .. Len(s) : s[i] \in E
  BY FunctionCallsOfCalls, CallFields, ElementOfSeq
<1>2. \A i \in 1 .. Len(s) :
        /\ s[i].type = "functionCall" /\ s[i].name = calls[i].name
        /\ s[i].args = ParseArguments(calls[i].arguments)
  <2>1. \A i \in 1 .. Len(calls) :
          s[i] = [type |-> "functionCall", name |-> calls[i].name,
                  args |-> ParseArguments(calls[i].arguments), text |-> <<>>]
    BY FunctionCallsOfCalls
  <2> HIDE DEF s
  <2>2. TAKE i \in 1 .. Len(s)
  <2>3. s[i] = [type |-> "functionCall", name |-> calls[i].name,
                args |-> ParseArguments(calls[i].arguments), text |-> <<>>]
    BY <1>1, <2>1
  <2>4. QED
    BY <2>3
<1>3. \A i \in 1 .. Len(s) :
        /\ PartText(D)[s[i]] = <<>>
        /\ PartCall(D)[s[i]] = <<CallsKept(calls)[i]>>
  <2> HIDE DEF s
  <2>1. QED
    BY <1>1, <1>2 DEF PartText, PartCall, CallsKept
<1> HIDE DEF s, E
<1>4. Maps(PartText(D), E, D)
  BY PartFunctions DEF E
<1>5. Mapped(PartText(D), s) = <<>>
  BY <1>1, <1>3, <1>4, MappedNothing
<1>6. CallsKept(calls) \in Seq(SaidCalls(D)) /\ Len(CallsKept(calls)) = Len(s)
  BY <1>1, CallsKeptTyped
<1>7. Singles(PartCall(D), s, CallsKept(calls))
  BY <1>1, <1>3, <1>6 DEF Singles
<1>8. Mapped(PartCall(D), s) = CallsKept(calls)
  BY <1>6, <1>7, MappedSingles
<1>9. QED
  BY <1>5, <1>8 DEF s

TextParts(text) == IF text = <<>> THEN <<>> ELSE <<V!TextPart(text)>>

\* The parts of a text say the text, and no call.
LEMMA TextPartsSaid ==
  ASSUME NEW D, NEW text \in Seq(D)
  PROVE  /\ TextParts(text) \in Seq(PartsOver(D))
         /\ Mapped(PartText(D), TextParts(text)) = text
         /\ Mapped(PartCall(D), TextParts(text)) = <<>>
         /\ <<V!TextPart(text)>> \in Seq(PartsOver(D))
         /\ Mapped(PartText(D), <<V!TextPart(text)>>) = text
         /\ Mapped(PartCall(D), <<V!TextPart(text)>>) = <<>>
<1> DEFINE b == V!TextPart(text)
           E == PartsOver(D)
<1>1. b \in E /\ b.type = "text" /\ b.text = text
  BY TextPartTyped
<1>2. PartText(D)[b] = text /\ PartCall(D)[b] = <<>>
  BY <1>1 DEF PartText, PartCall
<1> HIDE DEF b, E
<1>3. Maps(PartText(D), E, D) /\ Maps(PartCall(D), E, SaidCalls(D))
  BY PartFunctions DEF E
<1>4. Mapped(PartText(D), <<b>>) = text
  BY <1>1, <1>2, <1>3, MappedOne
<1>5. Mapped(PartCall(D), <<b>>) = <<>>
  BY <1>1, <1>2, <1>3, MappedOne
<1>6. <<b>> \in Seq(E) /\ <<>> \in Seq(E)
  BY <1>1
<1>7. TextParts(text) = IF text = <<>> THEN <<>> ELSE <<b>>
  BY DEF TextParts, b
<1>8. QED
  BY <1>4, <1>5, <1>6, <1>7, MappedOfEmpty DEF b, E

\* buildAssistantParts keeps the text of a message, and its calls with parsed arguments.
LEMMA VertexKeeps ==
  ASSUME NEW D, NEW m \in MessagesOver(D)
  PROVE  /\ VertexSays(V!BuildAssistantParts(m)).text = ExtractContentString(m)
         /\ VertexSays(V!BuildAssistantParts(m)).calls = CallsKept(m.calls)
<1> DEFINE text == ExtractContentString(m)
           E == PartsOver(D)
           b == V!BuildAssistantParts(m)
           s == TextParts(text)
           t == FunctionCallsOf(m.calls)
           f == PartText(D)
           g == PartCall(D)
           C == SaidCalls(D)
<1>1. text \in Seq(D) /\ m.calls \in CallsOver(D)
  BY TextType, MessageFields
<1>2. s \in Seq(E) /\ Mapped(f, s) = text /\ Mapped(g, s) = <<>>
  BY <1>1, TextPartsSaid
<1>3. t \in Seq(E) /\ Mapped(f, t) = <<>> /\ Mapped(g, t) = CallsKept(m.calls)
  BY <1>1, FunctionCallsOfCalls, FunctionCallsSaid
<1>4. b = IF s \o t = <<>> THEN <<V!TextPart(<<>>)>> ELSE s \o t
  BY SameText DEF V!BuildAssistantParts, V!OrEmptyText, TextParts, FunctionCallsOf
<1>5. Maps(f, E, D) /\ Maps(g, E, C)
  BY PartFunctions
<1>6. \A q \in Seq(E) : VertexSays(q).text = Mapped(f, q) /\ VertexSays(q).calls = Mapped(g, q)
  BY VertexSaysMapped
<1>7. CallsKept(m.calls) \in Seq(C)
  BY <1>1, CallsKeptTyped
<1>8. /\ <<V!TextPart(<<>>)>> \in Seq(E)
      /\ Mapped(f, <<V!TextPart(<<>>)>>) = <<>> /\ Mapped(g, <<V!TextPart(<<>>)>>) = <<>>
  <2>1. <<>> \in Seq(D)
    OBVIOUS
  <2>2. QED
    BY <2>1, TextPartsSaid
<1> HIDE DEF text, E, b, s, t, f, g, C
<1>9. s \in Seq(E) /\ t \in Seq(E)
  BY <1>2, <1>3
<1>10. Mapped(f, s \o t) = text
  <2>1. Mapped(f, s \o t) = Mapped(f, s) \o Mapped(f, t)
    BY ONLY <1>5, <1>9, MappedConcat
  <2>2. QED
    BY <1>1, <1>2, <1>3, <2>1, ConcatEmptySeq
<1>11. Mapped(g, s \o t) = CallsKept(m.calls)
  <2>1. Mapped(g, s \o t) = Mapped(g, s) \o Mapped(g, t)
    BY ONLY <1>5, <1>9, MappedConcat
  <2>2. QED
    BY <1>2, <1>3, <1>7, <2>1, ConcatEmptySeq
<1>12. s \o t \in Seq(E)
  BY ONLY <1>9, ConcatProperties
<1>13. CASE s \o t = <<>>
  <2>1. text = <<>> /\ CallsKept(m.calls) = <<>>
    BY <1>10, <1>11, <1>13, MappedOfEmpty
  <2>2. QED
    BY <1>4, <1>6, <1>8, <1>13, <2>1 DEF b, text
<1>14. CASE s \o t # <<>>
  BY <1>4, <1>6, <1>10, <1>11, <1>12, <1>14 DEF b, text
<1>15. QED
  BY <1>13, <1>14

-----------------------------------------------------------------------------
(* The contents of a request to Vertex.                                    *)

CallsOf(h) == FlattenSeq([i \in DOMAIN h |-> h[i].calls])

\* What the last of these calls with that id is named.
NameOf(calls, id) ==
  LET J == {j \in 1 .. Len(calls) : calls[j].id # NoId /\ calls[j].id = id}
      last == IF J # {} THEN Max(J) ELSE 0
  IN  IF last = 0 \/ calls[last].name = NoName THEN "unknown" ELSE calls[last].name

\* toolCallNames looks the id up among the calls of the messages so far.
LEMMA ToolCallNameIs ==
  ASSUME NEW h, NEW i
  PROVE  V!ToolCallName(h, i) = NameOf(CallsOf(SubSeq(h, 1, i - 1)), h[i].tool_call_id)
<1> DEFINE c == CallsOf(SubSeq(h, 1, i - 1))
           id == h[i].tool_call_id
           J == {j \in 1 .. Len(c) : c[j].id # NoId /\ c[j].id = id}
<1>1. V!Calls(SubSeq(h, 1, i - 1)) = c
  BY SameFlattenSeq DEF V!Calls, CallsOf
<1>2. V!Max(J) = Max(J)
  BY DEF V!Max, Max
<1>3. V!NoId = NoId /\ V!NoName = NoName
  BY DEF V!NoId, V!NoName, NoId, NoName
<1> DEFINE cv == V!Calls(SubSeq(h, 1, i - 1))
           Jv == {j \in 1 .. Len(cv) : cv[j].id # V!NoId /\ cv[j].id = h[i].tool_call_id}
<1>4. V!ToolCallName(h, i) =
        LET last == IF Jv # {} THEN V!Max(Jv) ELSE 0
        IN  IF last = 0 \/ cv[last].name = V!NoName THEN "unknown" ELSE cv[last].name
  BY DEF V!ToolCallName, V!SelectLastInSeq
<1>5. Jv = J /\ cv = c
  <2>1. cv = c
    BY <1>1
  <2> HIDE DEF c, cv
  <2>2. QED
    BY <1>3, <2>1
<1>6. NameOf(c, id) = LET last == IF J # {} THEN Max(J) ELSE 0
                      IN  IF last = 0 \/ c[last].name = NoName THEN "unknown" ELSE c[last].name
  BY DEF NameOf
<1> HIDE DEF J, Jv, c, cv, id
<1>7. V!ToolCallName(h, i) = NameOf(c, id)
  BY <1>2, <1>3, <1>4, <1>5, <1>6
<1>8. QED
  BY <1>7 DEF c, id

\* What a message adds after a history.
ContentAfter(h, m) ==
  IF m.role = "user" THEN <<[role |-> "user", parts |-> V!ExtractContentParts(m)]>>
  ELSE IF m.role = "assistant" THEN <<[role |-> "model", parts |-> V!BuildAssistantParts(m)]>>
  ELSE IF m.role = "tool"
    THEN <<[role |-> "user",
            parts |-> <<V!FunctionResponse(NameOf(CallsOf(h), m.tool_call_id),
                                           ExtractContentString(m))>>]>>
  ELSE IF m.role = "function"
    THEN <<[role |-> "user",
            parts |-> <<V!FunctionResponse(m.name, ExtractContentString(m))>>]>>
  ELSE <<>>

\* What the loop makes of a message depends on it and on the messages before it.
LEMMA ContentIs ==
  ASSUME NEW h, NEW i
  PROVE  V!Content(h, i) = ContentAfter(SubSeq(h, 1, i - 1), h[i])
<1>1. V!ToolCallName(h, i) = NameOf(CallsOf(SubSeq(h, 1, i - 1)), h[i].tool_call_id)
  BY ToolCallNameIs
<1>2. V!ExtractContentString(h[i]) = ExtractContentString(h[i])
  BY SameText
<1> DEFINE m == h[i]
<1>3. V!Content(h, i) =
        IF m.role = "user" THEN <<[role |-> "user", parts |-> V!ExtractContentParts(m)]>>
        ELSE IF m.role = "assistant" THEN <<[role |-> "model", parts |-> V!BuildAssistantParts(m)]>>
        ELSE IF m.role \in {"tool", "function"}
          THEN LET name == IF m.role = "tool" THEN V!ToolCallName(h, i) ELSE m.name
               IN  <<[role |-> "user",
                      parts |-> <<V!FunctionResponse(name, V!ExtractContentString(m))>>]>>
        ELSE <<>>
  BY DEF V!Content
<1> HIDE DEF m
<1>4. QED
  BY <1>1, <1>2, <1>3 DEF ContentAfter, m

\* What comes before a message does not change when the history grows.
LEMMA SubSeqOfAppend ==
  ASSUME NEW E, NEW h \in Seq(E), NEW m \in E, NEW i \in 1 .. Len(h) + 1
  PROVE  SubSeq(Append(h, m), 1, i - 1) = SubSeq(h, 1, i - 1)
<1> DEFINE h1 == Append(h, m)
           n == i - 1
<1>1. /\ Len(h) \in Nat /\ h1 \in Seq(E) /\ Len(h1) = Len(h) + 1
      /\ \A j \in 1 .. Len(h) : h1[j] = h[j] /\ h[j] \in E
  BY AppendProperties, LenProperties, ElementOfSeq
<1>2. n \in Nat /\ n <= Len(h) /\ 1 .. n \subseteq 1 .. Len(h)
  BY <1>1
<1> HIDE DEF n, h1
<1>3. /\ SubSeq(h, 1, n) \in Seq(E) /\ Len(SubSeq(h, 1, n)) = n
      /\ \A j \in 1 .. n : SubSeq(h, 1, n)[j] = h[j]
  <2>1. \A j \in 1 .. n : h[j] \in E
    BY <1>1, <1>2
  <2>2. /\ SubSeq(h, 1, n) \in Seq(E)
        /\ Len(SubSeq(h, 1, n)) = IF 1 <= n THEN n - 1 + 1 ELSE 0
        /\ \A j \in 1 .. n - 1 + 1 : SubSeq(h, 1, n)[j] = h[1 + j - 1]
    BY <1>2, <2>1, SubSeqProperties
  <2>3. QED
    BY <1>2, <2>2
<1>4. /\ SubSeq(h1, 1, n) \in Seq(E) /\ Len(SubSeq(h1, 1, n)) = n
      /\ \A j \in 1 .. n : SubSeq(h1, 1, n)[j] = h1[j]
  <2>1. \A j \in 1 .. n : h1[j] \in E
    BY <1>1, <1>2
  <2>2. /\ SubSeq(h1, 1, n) \in Seq(E)
        /\ Len(SubSeq(h1, 1, n)) = IF 1 <= n THEN n - 1 + 1 ELSE 0
        /\ \A j \in 1 .. n - 1 + 1 : SubSeq(h1, 1, n)[j] = h1[1 + j - 1]
    BY <1>2, <2>1, SubSeqProperties
  <2>3. QED
    BY <1>2, <2>2
<1>5. \A j \in 1 .. n : SubSeq(h1, 1, n)[j] = SubSeq(h, 1, n)[j]
  BY <1>1, <1>2, <1>3, <1>4
<1>6. SubSeq(h1, 1, n) = SubSeq(h, 1, n)
  BY <1>3, <1>4, <1>5, SeqEqual
<1>7. QED
  BY <1>6 DEF h1, n

\* Nor does what the loop made of it.
LEMMA ContentOfAppend ==
  ASSUME NEW E, NEW h \in Seq(E), NEW m \in E
  PROVE  /\ \A i \in 1 .. Len(h) : V!Content(Append(h, m), i) = V!Content(h, i)
         /\ V!Content(Append(h, m), Len(h) + 1) = ContentAfter(h, m)
<1> DEFINE h1 == Append(h, m)
<1>1. Len(h) \in Nat /\ h1[Len(h) + 1] = m /\ \A i \in 1 .. Len(h) : h1[i] = h[i]
  BY AppendProperties
<1>2. \A i \in 1 .. Len(h) + 1 : SubSeq(h1, 1, i - 1) = SubSeq(h, 1, i - 1)
  BY SubSeqOfAppend
<1> HIDE DEF h1
<1>3. ASSUME NEW i \in 1 .. Len(h)
      PROVE  V!Content(h1, i) = V!Content(h, i)
  <2>1. h1[i] = h[i] /\ SubSeq(h1, 1, i - 1) = SubSeq(h, 1, i - 1)
    <3>1. i \in 1 .. Len(h) + 1
      BY <1>1
    <3>2. QED
      BY <1>1, <1>2, <3>1
  <2>2. QED
    BY <2>1, ContentIs
<1>4. V!Content(h1, Len(h) + 1) = ContentAfter(h, m)
  <2> DEFINE k == Len(h) + 1
  <2>1. k \in 1 .. Len(h) + 1 /\ k - 1 = Len(h)
    BY <1>1
  <2>2. SubSeq(h1, 1, k - 1) = SubSeq(h, 1, Len(h))
    BY <1>2, <2>1
  <2>3. SubSeq(h, 1, Len(h)) = h
    BY SubSeqFull
  <2>4. V!Content(h1, k) = ContentAfter(SubSeq(h1, 1, k - 1), h1[k])
    BY ContentIs
  <2>5. QED
    BY <1>1, <2>2, <2>3, <2>4
<1>5. QED
  BY <1>3, <1>4 DEF h1

\* The contents of a history, one at most of each message.
ContentOf(h) == {V!Content(h, i)[1] : i \in 1 .. Len(h)}

\* A message is one content or none.
LEMMA ContentShape ==
  ASSUME NEW h, NEW m
  PROVE  \/ ContentAfter(h, m) = <<>>
         \/ ContentAfter(h, m) = <<ContentAfter(h, m)[1]>>
BY DEF ContentAfter

\* The contents are what the loop makes of the messages, joined.
LEMMA ContentPieces ==
  ASSUME NEW E, NEW h \in Seq(E)
  PROVE  /\ [i \in 1 .. Len(h) |-> V!Content(h, i)] \in Seq(Seq(ContentOf(h)))
         /\ Len([i \in 1 .. Len(h) |-> V!Content(h, i)]) = Len(h)
         /\ V!Contents(h) = FlattenSeq([i \in 1 .. Len(h) |-> V!Content(h, i)])
<1> DEFINE n == Len(h)
           p == [i \in 1 .. n |-> V!Content(h, i)]
           S == ContentOf(h)
<1>1. n \in Nat /\ DOMAIN h = 1 .. n
  BY LenProperties
<1>2. ASSUME NEW i \in 1 .. n
      PROVE  V!Content(h, i) \in Seq(S)
  <2>1. V!Content(h, i)[1] \in S
    BY <1>2 DEF ContentOf
  <2> HIDE DEF S
  <2>2. V!Content(h, i) = <<>> \/ V!Content(h, i) = <<V!Content(h, i)[1]>>
    BY ContentIs, ContentShape
  <2> DEFINE x == V!Content(h, i)[1]
  <2> HIDE DEF x
  <2>3. x \in S /\ (V!Content(h, i) = <<>> \/ V!Content(h, i) = <<x>>)
    BY <2>1, <2>2 DEF x
  <2>4. <<x>> \in Seq(S) /\ <<>> \in Seq(S)
    BY <2>3
  <2>5. QED
    BY <2>3, <2>4
<1>3. V!Contents(h) = FlattenSeq(p)
  BY <1>1, SameFlattenSeq DEF V!Contents
<1>4. p = [i \in 1 .. n |-> p[i]] /\ \A i \in 1 .. n : p[i] \in Seq(S)
  BY <1>2
<1> HIDE DEF p, n, S
<1>5. p \in Seq(Seq(S)) /\ Len(p) = n
  BY <1>1, <1>4, PiecesType
<1>6. QED
  BY <1>3, <1>5 DEF p, n, S

\* No history, no contents.
LEMMA ContentsOfEmpty == V!Contents(<<>>) = <<>>
<1>1. V!Contents(<<>>) = V!FlattenSeq(<<>>)
  BY DEF V!Contents
<1>2. QED
  BY <1>1, SameFlattenSeq, FlattenOfEmpty

\* One more message of the history adds what the loop makes of it.
LEMMA ContentsAppend ==
  ASSUME NEW E, NEW h \in Seq(E), NEW m \in E
  PROVE  /\ V!Contents(Append(h, m)) = V!Contents(h) \o ContentAfter(h, m)
         /\ V!Contents(h) \in Seq(ContentOf(Append(h, m)))
         /\ ContentAfter(h, m) \in Seq(ContentOf(Append(h, m)))
<1> DEFINE h1 == Append(h, m)
           n == Len(h)
           p == [i \in 1 .. n |-> V!Content(h, i)]
           q == [i \in 1 .. Len(h1) |-> V!Content(h1, i)]
           e == ContentAfter(h, m)
           S == ContentOf(h1)
           U == Seq(S)
<1>1. n \in Nat /\ h1 \in Seq(E) /\ Len(h1) = n + 1
  BY AppendProperties, LenProperties
<1>2. /\ \A i \in 1 .. n : V!Content(h1, i) = V!Content(h, i)
      /\ V!Content(h1, n + 1) = e
  BY ContentOfAppend
<1>3. p \in Seq(Seq(ContentOf(h))) /\ Len(p) = n /\ V!Contents(h) = FlattenSeq(p)
  BY ContentPieces
<1>4. q \in Seq(Seq(S)) /\ Len(q) = n + 1 /\ V!Contents(h1) = FlattenSeq(q)
  <2> HIDE DEF h1, S
  <2>1. q \in Seq(Seq(ContentOf(h1))) /\ Len(q) = Len(h1) /\ V!Contents(h1) = FlattenSeq(q)
    BY <1>1, ContentPieces
  <2>2. QED
    BY <1>1, <2>1 DEF S
<1>5. ContentOf(h) \subseteq S
  <2>1. \A i \in 1 .. n : V!Content(h, i)[1] = V!Content(h1, i)[1] /\ i \in 1 .. Len(h1)
    BY <1>1, <1>2
  <2> HIDE DEF h1, n
  <2>2. QED
    BY <2>1 DEF ContentOf, n
<1>6. q[n + 1] = e /\ \A i \in 1 .. n : q[i] = p[i]
  <2>1. n + 1 \in 1 .. Len(h1) /\ \A i \in 1 .. n : i \in 1 .. Len(h1)
    BY <1>1
  <2> HIDE DEF h1, n, e
  <2>2. QED
    BY <1>2, <2>1
<1> HIDE DEF p, q, e, S, h1, n
<1>7. p \in Seq(U)
  <2>1. Seq(ContentOf(h)) \subseteq U
    BY <1>5, SeqMonotonic
  <2> DEFINE U0 == Seq(ContentOf(h))
  <2>2. p \in Seq(U0) /\ U0 \subseteq U
    BY <1>3, <2>1
  <2> HIDE DEF U, U0
  <2>3. QED
    BY <2>2, SeqMonotonic
<1>8. e \in U
  <2>1. q \in Seq(U) /\ n + 1 \in 1 .. Len(q)
    BY <1>1, <1>4
  <2> HIDE DEF U
  <2>2. q[n + 1] \in U
    BY <2>1, ElementOfSeq
  <2>3. QED
    BY <1>6, <2>2
<1>9. q = Append(p, e)
  <2> DEFINE a == Append(p, e)
  <2> HIDE DEF U
  <2>1. a \in Seq(U) /\ Len(a) = n + 1 /\ a[n + 1] = e /\ \A i \in 1 .. n : a[i] = p[i]
    BY <1>3, <1>7, <1>8, AppendProperties
  <2>2. q \in Seq(U)
    BY <1>4 DEF U
  <2> HIDE DEF a
  <2>3. \A i \in 1 .. n + 1 : q[i] = a[i]
    BY <1>1, <1>6, <2>1
  <2>4. q = a
    BY <1>4, <2>1, <2>2, <2>3, SeqEqual
  <2>5. QED
    BY <2>4 DEF a
<1>10. FlattenSeq(Append(p, e)) = FlattenSeq(p) \o e
  <2>1. p \in Seq(Seq(S)) /\ e \in Seq(S)
    BY <1>7, <1>8
  <2>2. QED
    BY <2>1, FlattenAppend
<1>11. FlattenSeq(p) \in Seq(S)
  <2>1. p \in Seq(Seq(S))
    BY <1>7
  <2>2. QED
    BY <2>1, FlattenType
<1>12. QED
  BY <1>3, <1>4, <1>8, <1>9, <1>10, <1>11 DEF h1, e, S

ModelContent(m) == [role |-> "model", parts |-> V!BuildAssistantParts(m)]

\* Only an answer is of the role model.
LEMMA ContentAfterIs ==
  ASSUME NEW h, NEW m
  PROVE  /\ m.role = "assistant" => ContentAfter(h, m) = <<ModelContent(m)>>
         /\ m.role # "assistant" =>
              \/ ContentAfter(h, m) = <<>>
              \/ \E x : ContentAfter(h, m) = <<x>> /\ ~IsAnswer(x)
<1>1. m.role = "assistant" => ContentAfter(h, m) = <<ModelContent(m)>>
  BY DEF ContentAfter, ModelContent
<1>2. \A parts : ~IsAnswer([role |-> "user", parts |-> parts])
  BY DEF IsAnswer
<1>3. ASSUME m.role # "assistant", ContentAfter(h, m) # <<>>
      PROVE  \E parts : ContentAfter(h, m) = <<[role |-> "user", parts |-> parts]>>
  BY <1>3 DEF ContentAfter
<1>4. QED
  BY <1>1, <1>2, <1>3

ToModel(h, s) ==
  /\ Len(s) = Len(h)
  /\ \A t \in 1 .. Len(h) : s[t] = ModelContent(h[t])

\* Answers translated one by one, and one more.
LEMMA ToModelAppend ==
  ASSUME NEW E, NEW h \in Seq(E), NEW F, NEW s \in Seq(F), NEW m \in E,
         ModelContent(m) \in F, ToModel(h, s)
  PROVE  ToModel(Append(h, m), Append(s, ModelContent(m)))
<1> DEFINE b == ModelContent(m)
           n == Len(h)
<1>1. n \in Nat /\ Len(s) = n /\ \A t \in 1 .. n : s[t] = ModelContent(h[t])
  BY LenProperties DEF ToModel
<1>2. /\ Len(Append(h, m)) = n + 1 /\ Append(h, m)[n + 1] = m
      /\ \A t \in 1 .. n : Append(h, m)[t] = h[t]
  BY AppendProperties
<1> HIDE DEF b
<1>3. /\ Len(Append(s, b)) = n + 1 /\ Append(s, b)[n + 1] = b
      /\ \A t \in 1 .. n : Append(s, b)[t] = s[t]
  BY <1>1, AppendProperties DEF b
<1> HIDE DEF n
<1>4. ASSUME NEW t \in 1 .. n + 1
      PROVE  Append(s, b)[t] = ModelContent(Append(h, m)[t])
  <2>1. CASE t \in 1 .. n
    <3>1. Append(s, b)[t] = s[t] /\ Append(h, m)[t] = h[t] /\ s[t] = ModelContent(h[t])
      BY <1>1, <1>2, <1>3, <2>1
    <3>2. QED
      BY <3>1
  <2>2. CASE t = n + 1
    <3>1. Append(s, b)[t] = b /\ Append(h, m)[t] = m
      BY <1>2, <1>3, <2>2
    <3>2. QED
      BY <3>1 DEF b
  <2>3. t \in 1 .. n \/ t = n + 1
    BY <1>1
  <2>4. QED
    BY <2>1, <2>2, <2>3
<1>5. QED
  BY <1>2, <1>3, <1>4 DEF ToModel, b

\* The answers of a request to Vertex are those of the history, translated one by one.
LEMMA VertexAnswers ==
  ASSUME NEW E, \A m \in E : m.role # "model", NEW h \in Seq(E)
  PROVE  ToModel(AnswersOf(h), AnswersOf(V!Contents(h)))
<1> DEFINE Q == {s \in Seq(E) : ToModel(AnswersOf(s), AnswersOf(V!Contents(s)))}
<1>1. <<>> \in Q
  <2>1. ToModel(<<>>, <<>>) /\ <<>> \in Seq(E)
    BY DEF ToModel
  <2>2. QED
    BY <2>1, AnswersOfEmpty, ContentsOfEmpty
<1>2. ASSUME NEW s \in Seq(E), NEW m \in E, s \in Q
      PROVE  Append(s, m) \in Q
  <2> DEFINE h1 == Append(s, m)
             M == V!Contents(s)
             M1 == V!Contents(h1)
             e == ContentAfter(s, m)
             F == ContentOf(h1)
             b == ModelContent(m)
  <2>1. M1 = M \o e /\ M \in Seq(F) /\ e \in Seq(F) /\ h1 \in Seq(E)
    BY ContentsAppend, AppendProperties
  <2>2. ToModel(AnswersOf(s), AnswersOf(M))
    BY <1>2
  <2>3. AnswersOf(h1) = IF IsAnswer(m) THEN Append(AnswersOf(s), m) ELSE AnswersOf(s)
    BY AnswersOfAppend
  <2>4. AnswersOf(s) \in Seq(E) /\ AnswersOf(M) \in Seq(F)
    <3> HIDE DEF F, M
    <3> QED
      BY <2>1, AnswersOfType
  <2>5. ASSUME NEW x, e = <<x>>
        PROVE  x \in F /\ M1 = Append(M, x)
    <3> HIDE DEF e, F, M, M1
    <3>1. <<x>> \in Seq(F) /\ <<x>>[1] = x /\ 1 \in 1 .. Len(<<x>>)
      BY <2>1, <2>5
    <3> DEFINE y == <<x>>
    <3>2. y \in Seq(F) /\ y[1] = x /\ 1 \in 1 .. Len(y)
      BY <3>1
    <3> HIDE DEF y
    <3>3. x \in F
      BY <3>2, ElementOfSeq
    <3>4. M \o <<x>> = Append(M, x)
      BY <2>1, <3>3, AppendIsConcat
    <3>5. QED
      BY <2>1, <2>5, <3>3, <3>4
  <2>6. CASE m.role = "assistant"
    <3>1. e = <<b>> /\ IsAnswer(m) /\ IsAnswer(b)
      BY <2>6, ContentAfterIs DEF IsAnswer, ModelContent
    <3> HIDE DEF M, M1, F, b, h1, e
    <3>2. b \in F /\ M1 = Append(M, b)
      BY <2>5, <3>1
    <3>3. AnswersOf(M1) = Append(AnswersOf(M), b)
      BY <2>1, <3>1, <3>2, AnswersOfAppend
    <3>4. ToModel(Append(AnswersOf(s), m), Append(AnswersOf(M), b))
      BY <2>2, <2>4, <3>2, ToModelAppend DEF b
    <3>5. QED
      BY <2>1, <2>3, <3>1, <3>3, <3>4 DEF h1, M1
  <2>7. CASE m.role # "assistant"
    <3>1. ~IsAnswer(m)
      BY <2>7 DEF IsAnswer
    <3>2. e = <<>> \/ \E x : e = <<x>> /\ ~IsAnswer(x)
      BY <2>7, ContentAfterIs
    <3> HIDE DEF M, M1, F, b, h1, e
    <3>3. AnswersOf(M1) = AnswersOf(M)
      <4>1. CASE e = <<>>
        <5>1. M \o <<>> = M
          BY <2>1, ConcatEmptySeq
        <5>2. QED
          BY <2>1, <4>1, <5>1
      <4>2. CASE \E x : e = <<x>> /\ ~IsAnswer(x)
        <5>1. PICK x : e = <<x>> /\ ~IsAnswer(x)
          BY <4>2
        <5>2. x \in F /\ M1 = Append(M, x)
          BY <2>5, <5>1
        <5>3. QED
          BY <2>1, <5>1, <5>2, AnswersOfAppend
      <4>3. QED
        BY <3>2, <4>1, <4>2
    <3>4. QED
      BY <2>1, <2>2, <2>3, <3>1, <3>3 DEF h1, M1
  <2>8. QED
    BY <2>6, <2>7
<1>3. Seq(E) \subseteq Q
  <2> HIDE DEF Q
  <2> QED
    BY <1>1, <1>2, SequenceInduction
<1>4. QED
  BY <1>3

-----------------------------------------------------------------------------
(* The blocks of an answer.                                                *)

Data(n) == (0 .. n) \X Nat

CallsAmong(blocks) == {k \in 1 .. Len(blocks) : ~IsText(blocks[k])}
CallPlaces(blocks) == Places(CallsAmong(blocks), Len(blocks))

\* Where the calls of an answer are, and how many texts and calls there are.
LEMMA CallPlacesAre ==
  ASSUME NEW S, NEW blocks \in Seq(S)
  PROVE  /\ Len(CallPlaces(blocks)) \in Nat
         /\ \A k \in 1 .. Len(CallPlaces(blocks)) :
              /\ CallPlaces(blocks)[k] \in 1 .. Len(blocks)
              /\ ~IsText(blocks[CallPlaces(blocks)[k]])
              /\ k = Cardinality({j \in 1 .. CallPlaces(blocks)[k] : ~IsText(blocks[j])})
         /\ Calling(blocks) <=> CallPlaces(blocks) # <<>>
<1> DEFINE n == Len(blocks)
           T == CallsAmong(blocks)
           P == CallPlaces(blocks)
<1>1. n \in Nat /\ DOMAIN blocks = 1 .. n
  BY LenProperties
<1>2. P = Places(T, n)
  BY DEF CallPlaces
<1>3. T \subseteq 1 .. n /\ \A k \in 1 .. n : k \in T <=> ~IsText(blocks[k])
  BY DEF CallsAmong
<1> HIDE DEF P, T, n
<1>4. PlacesAre(T, n)
  BY <1>1, PlacesProperties
<1>5. P \in Seq(T)
  <2>1. T \cap (1 .. n) = T
    BY <1>3
  <2>2. QED
    BY <1>2, <1>4, <2>1 DEF PlacesAre
<1>6. Len(P) \in Nat /\ \A k \in 1 .. Len(P) : P[k] \in T
  BY <1>5, LenProperties, ElementOfSeq
<1>7. \A k \in 1 .. Len(P) : k = Cardinality(T \cap (1 .. P[k]))
  BY <1>2, <1>4 DEF PlacesAre
<1>8. \A k \in 1 .. Len(P) : T \cap (1 .. P[k]) = {j \in 1 .. P[k] : ~IsText(blocks[j])}
  <2>1. TAKE k \in 1 .. Len(P)
  <2>2. P[k] \in 1 .. n
    BY <1>3, <1>6
  <2>3. \A j \in 1 .. P[k] : j \in 1 .. n
    BY <1>1, <2>2
  <2>4. QED
    BY <1>3, <2>3
<1>9. P # <<>> <=> T # {}
  <2>1. ASSUME P # <<>>
        PROVE  T # {}
    <3>1. Len(P) >= 1
      BY <1>5, <2>1
    <3>2. P[1] \in T
      BY <1>6, <3>1
    <3>3. QED
      BY <3>2
  <2>2. ASSUME T # {}
        PROVE  P # <<>>
    <3>1. PICK i \in T : TRUE
      BY <2>2
    <3>2. i \in T \cap (1 .. n)
      BY <1>3, <3>1
    <3>3. \E k \in 1 .. Len(P) : P[k] = i
      BY <1>2, <1>4, <3>2 DEF PlacesAre
    <3>4. QED
      BY <3>3
  <2>3. QED
    BY <2>1, <2>2
<1>10. Calling(blocks) <=> T # {}
  BY <1>1, <1>3 DEF Calling
<1>11. ASSUME NEW k \in 1 .. Len(P)
       PROVE  /\ P[k] \in 1 .. n /\ ~IsText(blocks[P[k]])
              /\ k = Cardinality({j \in 1 .. P[k] : ~IsText(blocks[j])})
  <2>1. P[k] \in T
    BY <1>6
  <2>2. k = Cardinality(T \cap (1 .. P[k])) /\ T \cap (1 .. P[k]) = {j \in 1 .. P[k] : ~IsText(blocks[j])}
    BY <1>7, <1>8
  <2>3. QED
    BY <1>3, <2>1, <2>2
<1>12. QED
  BY <1>6, <1>9, <1>10, <1>11 DEF P, n

\* The datum of a block is one of the answer under way.
LEMMA DatumTyped ==
  ASSUME NEW S, NEW blocks \in Seq(S), NEW k \in 1 .. Len(blocks), NEW n \in Nat, Turn = n
  PROVE  DatumOf(blocks, k) \in Data(n) /\ DatumOf(blocks, k) \in Seq(Nat)
<1> DEFINE J == {j \in 1 .. k : IsText(blocks[j]) = IsText(blocks[k])}
<1>1. k \in Nat
  BY LenProperties
<1>2. IsFiniteSet(J)
  <2>1. IsFiniteSet(1 .. k) /\ J \subseteq 1 .. k
    BY <1>1, FS_Interval
  <2>2. QED
    BY <2>1, FS_Subset
<1>3. Cardinality(J) \in Nat
  BY <1>2, FS_CardinalityType
<1>4. DatumOf(blocks, k) = <<n, Cardinality(J)>>
  BY DEF DatumOf
<1> HIDE DEF J
<1>5. QED
  BY <1>3, <1>4 DEF Data

\* So are the arguments of a call; only Vertex leaves empty ones out.
LEMMA ArgumentsOfTyped ==
  ASSUME NEW S, NEW blocks \in Seq(S), NEW k \in 1 .. Len(blocks), NEW n \in Nat, Turn = n
  PROVE  /\ ArgumentsOf(blocks, k) \in ArgumentsOver(Data(n))
         /\ provider # "vertex" => ToJSONString(ArgumentsOf(blocks, k)) = ArgumentsOf(blocks, k)
<1>1. DatumOf(blocks, k) \in Data(n)
  BY DatumTyped
<1>2. <<DatumOf(blocks, k)>> \in Seq(Data(n))
  BY <1>1
<1>3. Arguments(<<DatumOf(blocks, k)>>) \in ArgumentsOver(Data(n))
  BY <1>2 DEF Arguments, ArgumentsOver
<1>4. NoArguments \in ArgumentsOver(Data(n)) /\ EmptyObject \in ArgumentsOver(Data(n))
  BY ArgumentsTyped
<1>5. /\ Arguments(<<DatumOf(blocks, k)>>).kind = "object"
      /\ EmptyObject.kind = "object"
  BY DEF Arguments, EmptyObject
<1>6. QED
  BY <1>3, <1>4, <1>5 DEF ArgumentsOf, ToJSONString

\* The datum of the k-th call of an answer.
LEMMA DatumOfCall ==
  ASSUME NEW S, NEW blocks \in Seq(S), NEW k \in 1 .. Len(CallPlaces(blocks))
  PROVE  DatumOf(blocks, CallPlaces(blocks)[k]) = <<Turn, k>>
<1> DEFINE p == CallPlaces(blocks)[k]
<1>1. ~IsText(blocks[p]) /\ k = Cardinality({j \in 1 .. p : ~IsText(blocks[j])})
  BY CallPlacesAre
<1>2. {j \in 1 .. p : IsText(blocks[j]) = IsText(blocks[p])} = {j \in 1 .. p : ~IsText(blocks[j])}
  BY <1>1 DEF IsText
<1> HIDE DEF p
<1>3. QED
  BY <1>1, <1>2 DEF DatumOf, p

\* The pieces of an answer that are its calls.
LEMMA CallPieces ==
  ASSUME NEW S, NEW blocks \in Seq(S), NEW U, NEW ss \in Seq(Seq(U)), Len(ss) = Len(blocks),
         \A i \in 1 .. Len(blocks) :
           /\ Len(ss[i]) <= 1
           /\ ~IsText(blocks[i]) <=> ss[i] # <<>>
  PROVE  /\ Len(FlattenSeq(ss)) = Len(CallPlaces(blocks))
         /\ \A k \in 1 .. Len(FlattenSeq(ss)) : FlattenSeq(ss)[k] = ss[CallPlaces(blocks)[k]][1]
<1>1. Chosen(ss, CallsAmong(blocks))
  BY DEF Chosen, CallsAmong
<1>2. QED
  BY <1>1, FlattenChosen DEF CallPlaces

-----------------------------------------------------------------------------
(* What the client gets.                                                   *)

SameCalls(got, said) ==
  /\ Len(got) = Len(said)
  /\ \A k \in 1 .. Len(got) :
       got[k].name = said[k].name /\ got[k].arguments = ToJSONString(said[k].args)

\* The calls said are those of the blocks.
CallsOfBlocks(said, blocks) ==
  /\ Len(said) = Len(CallPlaces(blocks))
  /\ \A k \in 1 .. Len(said) : said[k].name = blocks[CallPlaces(blocks)[k]]

\* The message m is the answer of these blocks, the n-th.
IsReceived(m, said, blocks, cut, n) ==
  /\ m \in MessagesOver(Data(n)) /\ m.role = "assistant" /\ m.tool_call_id = NoId
  /\ said.cut = cut
  /\ said.says.text \in Seq(Data(n))
  /\ said.says.calls \in Seq(SaidCalls(Data(n)))
  /\ m.content = StringContent(said.says.text)
  /\ CallsOfBlocks(said.says.calls, blocks)
  /\ SameCalls(m.calls, said.says.calls) \/ (cut /\ m.calls = <<>>)
  /\ \A k \in 1 .. Len(m.calls) : m.calls[k].id \in {<<n, k>>, <<0, k>>}
  /\ Len(said.says.text) + Len(said.says.calls) <= Len(blocks)

\* The pieces of the texts, and of the calls, of an answer whose blocks are texts of one datum
\* and calls.
TextsAre(p, blocks) ==
  /\ Len(p) = Len(blocks)
  /\ \A k \in 1 .. Len(blocks) :
       p[k] = IF IsText(blocks[k]) THEN <<DatumOf(blocks, k)>> ELSE <<>>

\* The text of an answer is of its own data.
LEMMA AnswerText ==
  ASSUME NEW S, NEW blocks \in Seq(S), NEW n \in Nat, Turn = n, NEW p,
         p = [k \in 1 .. Len(blocks) |-> IF IsText(blocks[k]) THEN <<DatumOf(blocks, k)>> ELSE <<>>]
  PROVE  p \in Seq(Seq(Data(n))) /\ TextsAre(p, blocks) /\ FlattenSeq(p) \in Seq(Data(n))
<1> DEFINE l == Len(blocks)
           D == Data(n)
<1>1. l \in Nat
  BY LenProperties
<1>2. \A k \in 1 .. l : DatumOf(blocks, k) \in D
  BY DatumTyped
<1> HIDE DEF l, D
<1>3. \A k \in 1 .. l : p[k] = IF IsText(blocks[k]) THEN <<DatumOf(blocks, k)>> ELSE <<>>
  BY DEF l
<1>4. \A k \in 1 .. l : p[k] \in Seq(D)
  <2>1. TAKE k \in 1 .. l
  <2> DEFINE x == DatumOf(blocks, k)
  <2>2. x \in D /\ p[k] = IF IsText(blocks[k]) THEN <<x>> ELSE <<>>
    BY <1>2, <1>3
  <2> HIDE DEF x
  <2>3. <<x>> \in Seq(D) /\ <<>> \in Seq(D)
    BY <2>2
  <2>4. QED
    BY <2>2, <2>3
<1>5. p = [k \in 1 .. l |-> p[k]]
  BY DEF l
<1>6. p \in Seq(Seq(D)) /\ Len(p) = l
  BY ONLY <1>1, <1>4, <1>5, PiecesType
<1>7. FlattenSeq(p) \in Seq(D)
  BY ONLY <1>6, FlattenType
<1>8. QED
  BY <1>3, <1>6, <1>7 DEF TextsAre, l, D

\* Pieces of calls: one of each block that calls, with its name.
PiecesOfCalls(p, blocks) ==
  /\ Len(p) = Len(blocks)
  /\ \A k \in 1 .. Len(blocks) : p[k] = IF IsText(blocks[k]) THEN <<>> ELSE <<p[k][1]>>

\* An answer has no more texts and calls than blocks, and its calls are at the calls' places.
LEMMA AnswerLengths ==
  ASSUME NEW S, NEW blocks \in Seq(S), NEW n \in Nat, Turn = n,
         NEW p \in Seq(Seq(Data(n))), TextsAre(p, blocks),
         NEW U, NEW q \in Seq(Seq(U)), PiecesOfCalls(q, blocks)
  PROVE  /\ Len(FlattenSeq(p)) + Len(FlattenSeq(q)) <= Len(blocks)
         /\ Len(FlattenSeq(q)) = Len(CallPlaces(blocks))
         /\ \A k \in 1 .. Len(FlattenSeq(q)) : FlattenSeq(q)[k] = q[CallPlaces(blocks)[k]][1]
<1> DEFINE l == Len(blocks)
<1>1. Len(p) = l /\ \A k \in 1 .. l : p[k] = IF IsText(blocks[k]) THEN <<DatumOf(blocks, k)>> ELSE <<>>
  BY DEF TextsAre
<1>2. Len(q) = l /\ \A k \in 1 .. l : q[k] = IF IsText(blocks[k]) THEN <<>> ELSE <<q[k][1]>>
  BY DEF PiecesOfCalls
<1> HIDE DEF l
<1>3. ASSUME NEW k \in 1 .. l
      PROVE  /\ Len(p[k]) + Len(q[k]) <= 1 /\ Len(q[k]) <= 1
             /\ ~IsText(blocks[k]) <=> q[k] # <<>>
  <2>1. CASE IsText(blocks[k])
    <3>1. p[k] = <<DatumOf(blocks, k)>> /\ q[k] = <<>>
      BY <1>1, <1>2, <2>1
    <3>2. Len(p[k]) = 1 /\ Len(q[k]) = 0
      BY <3>1
    <3>3. QED
      BY <2>1, <3>1, <3>2
  <2>2. CASE ~IsText(blocks[k])
    <3> DEFINE x == q[k][1]
    <3>1. p[k] = <<>> /\ q[k] = <<x>>
      BY <1>1, <1>2, <2>2
    <3> HIDE DEF x
    <3>2. Len(p[k]) = 0 /\ Len(q[k]) = 1 /\ q[k] # <<>>
      BY <3>1
    <3>3. QED
      BY <2>2, <3>2
  <2>3. QED
    BY <2>1, <2>2
<1>4. Apart(p, q)
  BY <1>1, <1>2, <1>3 DEF Apart
<1>5. Len(FlattenSeq(p)) + Len(FlattenSeq(q)) <= l
  BY <1>1, <1>4, FlattenLengths
<1>6. Len(q) = Len(blocks) /\ \A i \in 1 .. Len(blocks) : Len(q[i]) <= 1 /\ (~IsText(blocks[i]) <=> q[i] # <<>>)
  BY <1>2, <1>3 DEF l
<1>7. /\ Len(FlattenSeq(q)) = Len(CallPlaces(blocks))
      /\ \A k \in 1 .. Len(FlattenSeq(q)) : FlattenSeq(q)[k] = q[CallPlaces(blocks)[k]][1]
  BY <1>6, CallPieces
<1>8. QED
  BY <1>5, <1>7 DEF l

\* The calls said, and got, when a[k] are the arguments of the call in block k.
SaidPieces(blocks, a) ==
  [k \in 1 .. Len(blocks) |->
     IF IsText(blocks[k]) THEN <<>> ELSE <<[name |-> blocks[k], args |-> a[k]]>>]

GotPieces(blocks, a) ==
  [k \in 1 .. Len(blocks) |->
     IF IsText(blocks[k]) THEN <<>> ELSE <<Call(DatumOf(blocks, k), blocks[k], a[k])>>]

CallOver(D) == [id : Seq(Nat), name : Strings, arguments : ArgumentsOver(D)]

\* A block that calls contributes one call, a text none.
LEMMA CallPiecesTyped ==
  ASSUME NEW U, NEW blocks, Len(blocks) \in Nat, NEW x, NEW q,
         q = [k \in 1 .. Len(blocks) |-> IF IsText(blocks[k]) THEN <<>> ELSE <<x[k]>>],
         \A k \in 1 .. Len(blocks) : x[k] \in U
  PROVE  /\ q \in Seq(Seq(U)) /\ PiecesOfCalls(q, blocks)
         /\ \A k \in 1 .. Len(blocks) : ~IsText(blocks[k]) => q[k][1] = x[k]
<1> DEFINE l == Len(blocks)
<1>0. l \in Nat /\ \A k \in 1 .. l : x[k] \in U
  OBVIOUS
<1>1. \A k \in 1 .. l : q[k] = IF IsText(blocks[k]) THEN <<>> ELSE <<x[k]>>
  OBVIOUS
<1>2. q = [k \in 1 .. l |-> q[k]]
  OBVIOUS
<1> HIDE DEF l
<1>3. \A k \in 1 .. l : q[k] \in Seq(U) /\ q[k] = (IF IsText(blocks[k]) THEN <<>> ELSE <<q[k][1]>>)
                        /\ (~IsText(blocks[k]) => q[k][1] = x[k])
  <2>1. TAKE k \in 1 .. l
  <2> DEFINE y == x[k]
             z == q[k]
  <2>2. y \in U /\ z = IF IsText(blocks[k]) THEN <<>> ELSE <<y>>
    BY ONLY <1>0, <1>1, k \in 1 .. l
  <2> HIDE DEF y, z
  <2>3. <<y>> \in Seq(U) /\ <<>> \in Seq(U) /\ <<y>>[1] = y
    BY ONLY <2>2
  <2>4. z \in Seq(U) /\ z = (IF IsText(blocks[k]) THEN <<>> ELSE <<z[1]>>)
        /\ (~IsText(blocks[k]) => z[1] = y)
    BY ONLY <2>2, <2>3
  <2>5. QED
    BY ONLY <2>4 DEF y, z
<1>4. \A k \in 1 .. l : q[k] \in Seq(U)
  BY ONLY <1>3
<1>5. q \in Seq(Seq(U)) /\ Len(q) = l
  BY ONLY <1>0, <1>2, <1>4, PiecesType
<1>6. QED
  BY ONLY <1>3, <1>5 DEF PiecesOfCalls, l

\* The calls the client gets are those said, in order, and each has its datum as id.
LEMMA AnswerCalls ==
  ASSUME NEW blocks \in Seq(Strings), NEW n \in Nat, Turn = n,
         NEW a, \A k \in 1 .. Len(blocks) : a[k] \in ArgumentsOver(Data(n)),
         NEW b, \A k \in 1 .. Len(blocks) : b[k] = ToJSONString(a[k])
  PROVE  /\ SaidPieces(blocks, a) \in Seq(Seq(SaidCalls(Data(n))))
         /\ PiecesOfCalls(SaidPieces(blocks, a), blocks)
         /\ FlattenSeq(SaidPieces(blocks, a)) \in Seq(SaidCalls(Data(n)))
         /\ FlattenSeq(GotPieces(blocks, b)) \in CallsOver(Data(n))
         /\ CallsOfBlocks(FlattenSeq(SaidPieces(blocks, a)), blocks)
         /\ SameCalls(FlattenSeq(GotPieces(blocks, b)), FlattenSeq(SaidPieces(blocks, a)))
         /\ \A k \in 1 .. Len(FlattenSeq(GotPieces(blocks, b))) :
              FlattenSeq(GotPieces(blocks, b))[k].id = <<n, k>>
<1> DEFINE l == Len(blocks)
           D == Data(n)
           P == CallPlaces(blocks)
           x == [k \in 1 .. l |-> [name |-> blocks[k], args |-> a[k]]]
           y == [k \in 1 .. l |-> Call(DatumOf(blocks, k), blocks[k], b[k])]
           q == SaidPieces(blocks, a)
           r == GotPieces(blocks, b)
           said == FlattenSeq(q)
           got == FlattenSeq(r)
<1>1. l \in Nat /\ \A k \in 1 .. l : blocks[k] \in Strings
  BY LenProperties, ElementOfSeq
<1>2. \A k \in 1 .. l : DatumOf(blocks, k) \in Seq(Nat)
  BY DatumTyped
<1>3. \A k \in 1 .. l : a[k] \in ArgumentsOver(D) /\ b[k] = ToJSONString(a[k]) /\ b[k] \in ArgumentsOver(D)
  BY ArgumentsTyped
<1>4. \A k \in 1 .. l : x[k] = [name |-> blocks[k], args |-> a[k]] /\ x[k] \in SaidCalls(D)
  <2> HIDE DEF l, D
  <2> QED
    BY <1>1, <1>3 DEF SaidCalls
<1>5. \A k \in 1 .. l : y[k] = Call(DatumOf(blocks, k), blocks[k], b[k]) /\ y[k] \in CallOver(D)
  <2> HIDE DEF l, D
  <2> QED
    BY <1>1, <1>2, <1>3 DEF CallOver, Call
<1>6. /\ q = [k \in 1 .. l |-> IF IsText(blocks[k]) THEN <<>> ELSE <<x[k]>>]
      /\ r = [k \in 1 .. l |-> IF IsText(blocks[k]) THEN <<>> ELSE <<y[k]>>]
  BY DEF SaidPieces, GotPieces
<1> HIDE DEF x, y, q, r
<1>7. /\ q \in Seq(Seq(SaidCalls(D))) /\ PiecesOfCalls(q, blocks)
      /\ \A k \in 1 .. l : ~IsText(blocks[k]) => q[k][1] = x[k]
  <2>1. l \in Nat /\ \A k \in 1 .. l : x[k] \in SaidCalls(D)
    BY <1>1, <1>4
  <2> HIDE DEF D
  <2>2. QED
    BY ONLY <1>6, <2>1, CallPiecesTyped
<1>8. /\ r \in Seq(Seq(CallOver(D))) /\ PiecesOfCalls(r, blocks)
      /\ \A k \in 1 .. l : ~IsText(blocks[k]) => r[k][1] = y[k]
  <2>1. l \in Nat /\ \A k \in 1 .. l : y[k] \in CallOver(D)
    BY <1>1, <1>5
  <2> HIDE DEF D
  <2>2. QED
    BY ONLY <1>6, <2>1, CallPiecesTyped
<1>9. \E p \in Seq(Seq(D)) : TextsAre(p, blocks)
  BY AnswerText
<1>10. /\ Len(said) = Len(P) /\ \A k \in 1 .. Len(said) : said[k] = q[P[k]][1]
       /\ Len(got) = Len(P) /\ \A k \in 1 .. Len(got) : got[k] = r[P[k]][1]
  <2> HIDE DEF D, P, said, got
  <2>1. PICK p \in Seq(Seq(Data(n))) : TextsAre(p, blocks)
    BY <1>9 DEF D
  <2> DEFINE U == SaidCalls(Data(n))
  <2>5. q \in Seq(Seq(U)) /\ PiecesOfCalls(q, blocks)
    BY <1>7 DEF D
  <2> HIDE DEF U
  <2>2. Len(FlattenSeq(q)) = Len(CallPlaces(blocks))
        /\ \A k \in 1 .. Len(FlattenSeq(q)) : FlattenSeq(q)[k] = q[CallPlaces(blocks)[k]][1]
    BY <2>1, <2>5, AnswerLengths
  <2>3. Len(FlattenSeq(r)) = Len(CallPlaces(blocks))
        /\ \A k \in 1 .. Len(FlattenSeq(r)) : FlattenSeq(r)[k] = r[CallPlaces(blocks)[k]][1]
    BY <1>8, <2>1, AnswerLengths
  <2>4. QED
    BY <2>2, <2>3 DEF said, got, P
<1>11. \A k \in 1 .. Len(P) : P[k] \in 1 .. l /\ ~IsText(blocks[P[k]])
  BY CallPlacesAre
<1>12. \A k \in 1 .. Len(P) : DatumOf(blocks, P[k]) = <<n, k>>
  BY DatumOfCall
<1> HIDE DEF l, D, P, said, got
<1>13. ASSUME NEW k \in 1 .. Len(P)
       PROVE  /\ said[k].name = blocks[P[k]] /\ said[k].args = a[P[k]]
              /\ got[k].name = blocks[P[k]] /\ got[k].arguments = b[P[k]] /\ got[k].id = <<n, k>>
  <2>1. P[k] \in 1 .. l /\ ~IsText(blocks[P[k]])
    BY <1>11
  <2>2. said[k] = [name |-> blocks[P[k]], args |-> a[P[k]]]
    BY <1>4, <1>7, <1>10, <2>1
  <2>3. got[k] = Call(DatumOf(blocks, P[k]), blocks[P[k]], b[P[k]])
    BY <1>5, <1>8, <1>10, <2>1
  <2>4. got[k] = Call(<<n, k>>, blocks[P[k]], b[P[k]])
    BY <1>12, <2>3
  <2>5. QED
    BY <2>2, <2>4 DEF Call
<1>14. SameCalls(got, said)
  BY <1>3, <1>10, <1>11, <1>13 DEF SameCalls
<1>15. CallsOfBlocks(said, blocks)
  BY <1>10, <1>13 DEF CallsOfBlocks, P
<1>16. said \in Seq(SaidCalls(D)) /\ got \in Seq(CallOver(D))
  BY <1>7, <1>8, FlattenType DEF said, got
<1>17. got \in CallsOver(D)
  BY <1>16 DEF CallOver, CallsOver
<1>18. \A k \in 1 .. Len(got) : got[k].id = <<n, k>>
  BY <1>10, <1>13
<1>19. QED
  BY <1>7, <1>14, <1>15, <1>16, <1>17, <1>18 DEF said, got, q, r, D

AnswerMessage(text, calls) ==
  [role |-> "assistant", content |-> StringContent(text), calls |-> calls,
   tool_call_id |-> NoId, name |-> NoName]

\* An answer of the client's format is a message.
LEMMA AnswerMessageTyped ==
  ASSUME NEW D, NEW text \in Seq(D), NEW calls \in CallsOver(D)
  PROVE  AnswerMessage(text, calls) \in MessagesOver(D)
<1>1. StringContent(text) \in Contents(D)
  BY StringContentType
<1>2. NoId \in Seq(Nat) /\ NoName \in Strings
  BY DEF NoId, NoName, Strings
<1>3. QED
  BY <1>1, <1>2 DEF AnswerMessage, MessagesOver, Strings

ChatMessageOf(text, calls) ==
  [ChatMessage("assistant", StringContent(text)) EXCEPT !.calls = calls]

\* All three translators make an answer with these fields.
LEMMA AnswerMessageIs ==
  ASSUME NEW text, NEW calls
  PROVE  /\ ChatMessageOf(text, calls) = AnswerMessage(text, calls)
         /\ [A!ChatMessage("assistant", A!StringContent(text)) EXCEPT !.calls = calls]
              = AnswerMessage(text, calls)
         /\ [V!ChatMessage("assistant", V!StringContent(text)) EXCEPT !.calls = calls]
              = AnswerMessage(text, calls)
<1> DEFINE c == StringContent(text)
<1>1. A!StringContent(text) = c /\ V!StringContent(text) = c
  BY DEF A!StringContent, V!StringContent, StringContent
<1> HIDE DEF c
<1>2. [ChatMessage("assistant", c) EXCEPT !.calls = calls]
        = [role |-> "assistant", content |-> c, calls |-> calls,
           tool_call_id |-> NoId, name |-> NoName]
  BY DEF ChatMessage
<1>3. A!ChatMessage("assistant", c) = ChatMessage("assistant", c)
      /\ V!ChatMessage("assistant", c) = ChatMessage("assistant", c)
  BY DEF A!ChatMessage, V!ChatMessage, ChatMessage, A!NoId, V!NoId, NoId, A!NoName, V!NoName, NoName
<1>4. QED
  BY <1>1, <1>2, <1>3 DEF ChatMessageOf, AnswerMessage, c

\* A message made of these pieces is one the client gets.
LEMMA ReceivedIs ==
  ASSUME NEW blocks \in Seq(Strings), NEW n \in Nat, Turn = n, NEW cut,
         NEW text, text = FlattenSeq([k \in 1 .. Len(blocks) |->
                            IF IsText(blocks[k]) THEN <<DatumOf(blocks, k)>> ELSE <<>>]),
         NEW a, \A k \in 1 .. Len(blocks) : a[k] \in ArgumentsOver(Data(n)),
         NEW calls \in CallsOver(Data(n)),
         SameCalls(calls, FlattenSeq(SaidPieces(blocks, a))) \/ (cut /\ calls = <<>>),
         \A k \in 1 .. Len(calls) : calls[k].id \in {<<n, k>>, <<0, k>>}
  PROVE  IsReceived(AnswerMessage(text, calls),
                    [says |-> [text |-> text, calls |-> FlattenSeq(SaidPieces(blocks, a))],
                     cut |-> cut],
                    blocks, cut, n)
<1> DEFINE D == Data(n)
           p == [k \in 1 .. Len(blocks) |->
                   IF IsText(blocks[k]) THEN <<DatumOf(blocks, k)>> ELSE <<>>]
           q == SaidPieces(blocks, a)
           said == FlattenSeq(q)
           b == [k \in 1 .. Len(blocks) |-> ToJSONString(a[k])]
           U == SaidCalls(D)
           m == AnswerMessage(text, calls)
<1>1. text = FlattenSeq(p) /\ p \in Seq(Seq(D)) /\ TextsAre(p, blocks) /\ text \in Seq(D)
  <2>1. p = [k \in 1 .. Len(blocks) |-> IF IsText(blocks[k]) THEN <<DatumOf(blocks, k)>> ELSE <<>>]
    OBVIOUS
  <2>2. text = FlattenSeq(p)
    OBVIOUS
  <2> HIDE DEF p, D
  <2>3. p \in Seq(Seq(Data(n))) /\ TextsAre(p, blocks) /\ FlattenSeq(p) \in Seq(Data(n))
    BY <2>1, AnswerText
  <2>4. QED
    BY <2>2, <2>3 DEF D
<1>2. \A k \in 1 .. Len(blocks) : b[k] = ToJSONString(a[k])
  OBVIOUS
<1>3. q \in Seq(Seq(U)) /\ PiecesOfCalls(q, blocks) /\ said \in Seq(U) /\ CallsOfBlocks(said, blocks)
  <2> HIDE DEF b
  <2> QED
    BY <1>2, AnswerCalls
<1> HIDE DEF p, q, b, D, U
<1>4. Len(text) + Len(said) <= Len(blocks)
  BY <1>1, <1>3, AnswerLengths DEF D
<1>5. m \in MessagesOver(D)
  BY <1>1, AnswerMessageTyped DEF D
<1>6. m.role = "assistant" /\ m.content = StringContent(text) /\ m.calls = calls /\ m.tool_call_id = NoId
  BY DEF AnswerMessage
<1> HIDE DEF m, said
<1> DEFINE t == [says |-> [text |-> text, calls |-> said], cut |-> cut]
<1>7. t.says.text = text /\ t.says.calls = said /\ t.cut = cut
  OBVIOUS
<1>8. SameCalls(calls, said) \/ (cut /\ calls = <<>>)
  BY DEF said, q
<1> HIDE DEF t
<1>9. IsReceived(m, t, blocks, cut, n)
  BY <1>1, <1>3, <1>4, <1>5, <1>6, <1>7, <1>8 DEF IsReceived, D, U
<1>10. QED
  BY <1>9 DEF m, t, said, q

FinishReasons == {"stop", "length", "tool_calls", "content_filter"}

\* The client gets the answer of these blocks.
IsGot(choice, blocks, cut, n) ==
  /\ IsReceived(choice.message, Said, blocks, cut, n)
  /\ choice.finish_reason \in FinishReasons
  /\ choice.finish_reason = "length" <=> cut
  /\ provider = "anthropic" => (choice.finish_reason = "tool_calls" <=> choice.message.calls # <<>>)

Got(blocks, cut, n) ==
  \E choice : TranslateResponse = <<choice>> /\ IsGot(choice, blocks, cut, n)

ArgumentsIn(blocks) == [k \in 1 .. Len(blocks) |-> ArgumentsOf(blocks, k)]

AnthropicContent(blocks) == [k \in 1 .. Len(blocks) |-> AnthropicBlock(blocks, k)]

\* The blocks of Anthropic's answer.
LEMMA AnthropicBlockIs ==
  ASSUME NEW blocks, NEW k
  PROVE  /\ IsText(blocks[k]) =>
              /\ AnthropicBlock(blocks, k).type = "text"
              /\ AnthropicBlock(blocks, k).text = <<DatumOf(blocks, k)>>
         /\ ~IsText(blocks[k]) =>
              /\ AnthropicBlock(blocks, k).type = "tool_use"
              /\ AnthropicBlock(blocks, k).id = DatumOf(blocks, k)
              /\ AnthropicBlock(blocks, k).name = blocks[k]
              /\ AnthropicBlock(blocks, k).input = ArgumentsOf(blocks, k)
BY DEF AnthropicBlock, A!Block, Call

\* What Anthropic has said with them.
LEMMA AnthropicSaid ==
  ASSUME NEW blocks \in Seq(Strings)
  PROVE  AnthropicSays(AnthropicContent(blocks)) =
           [text |-> FlattenSeq([k \in 1 .. Len(blocks) |->
                       IF IsText(blocks[k]) THEN <<DatumOf(blocks, k)>> ELSE <<>>]),
            calls |-> FlattenSeq(SaidPieces(blocks, ArgumentsIn(blocks)))]
<1> DEFINE l == Len(blocks)
           c == AnthropicContent(blocks)
           a == ArgumentsIn(blocks)
<1>1. DOMAIN c = 1 .. l /\ \A k \in 1 .. l : c[k] = AnthropicBlock(blocks, k)
  BY DEF AnthropicContent
<1>2. \A k \in 1 .. l : a[k] = ArgumentsOf(blocks, k)
  BY DEF ArgumentsIn
<1>3. \A k \in 1 .. l :
        /\ IsText(blocks[k]) => c[k].type = "text" /\ c[k].text = <<DatumOf(blocks, k)>>
        /\ ~IsText(blocks[k]) => c[k].type = "tool_use" /\ c[k].name = blocks[k] /\ c[k].input = a[k]
  BY <1>1, <1>2, AnthropicBlockIs
<1> HIDE DEF l, c, a
<1>4. [i \in DOMAIN c |-> IF c[i].type = "text" THEN c[i].text ELSE <<>>]
        = [k \in 1 .. l |-> IF IsText(blocks[k]) THEN <<DatumOf(blocks, k)>> ELSE <<>>]
  BY <1>1, <1>3
<1>5. [i \in DOMAIN c |->
         IF c[i].type = "tool_use" THEN <<[name |-> c[i].name, args |-> c[i].input]>> ELSE <<>>]
        = SaidPieces(blocks, a)
  <2>1. SaidPieces(blocks, a) = [k \in 1 .. l |->
          IF IsText(blocks[k]) THEN <<>> ELSE <<[name |-> blocks[k], args |-> a[k]]>>]
    BY DEF SaidPieces, l
  <2>2. QED
    BY <1>1, <1>3, <2>1
<1>6. QED
  BY <1>4, <1>5 DEF AnthropicSays, TextOf, l, c, a

\* extractToolCalls returns the calls of the blocks.
LEMMA AnthropicGotCalls ==
  ASSUME NEW blocks \in Seq(Strings), NEW b, NEW body, body.content = AnthropicContent(blocks),
         \A k \in 1 .. Len(blocks) : b[k] = ToJSONString(ArgumentsOf(blocks, k)),
         \A k \in 1 .. Len(blocks) : A!ToJSONString(ArgumentsOf(blocks, k)) = b[k]
  PROVE  A!ExtractToolCalls(body) = FlattenSeq(GotPieces(blocks, b))
<1> DEFINE l == Len(blocks)
           c == AnthropicContent(blocks)
<1>1. DOMAIN c = 1 .. l /\ \A k \in 1 .. l : c[k] = AnthropicBlock(blocks, k)
  BY DEF AnthropicContent
<1>2. \A k \in 1 .. l :
        /\ IsText(blocks[k]) => c[k].type = "text"
        /\ ~IsText(blocks[k]) => c[k].type = "tool_use" /\ c[k].id = DatumOf(blocks, k)
                                 /\ c[k].name = blocks[k] /\ A!ToJSONString(c[k].input) = b[k]
  BY <1>1, AnthropicBlockIs
<1>3. A!ExtractToolCalls(body) =
        FlattenSeq([i \in DOMAIN c |->
          IF c[i].type = "tool_use"
            THEN <<A!Call(c[i].id, c[i].name, A!ToJSONString(c[i].input))>> ELSE <<>>])
  BY SameFlattenSeq DEF A!ExtractToolCalls
<1> HIDE DEF l, c
<1>4. GotPieces(blocks, b) = [k \in 1 .. l |->
        IF IsText(blocks[k]) THEN <<>> ELSE <<Call(DatumOf(blocks, k), blocks[k], b[k])>>]
  BY DEF GotPieces, l
<1>5. \A i, j, k : A!Call(i, j, k) = Call(i, j, k)
  BY DEF A!Call, Call
<1>6. ASSUME NEW i \in 1 .. l
      PROVE  (IF c[i].type = "tool_use"
                THEN <<A!Call(c[i].id, c[i].name, A!ToJSONString(c[i].input))>> ELSE <<>>)
               = IF IsText(blocks[i]) THEN <<>> ELSE <<Call(DatumOf(blocks, i), blocks[i], b[i])>>
  <2>1. CASE IsText(blocks[i])
    BY <1>2, <2>1
  <2>2. CASE ~IsText(blocks[i])
    BY <1>2, <1>5, <2>2
  <2>3. QED
    BY <2>1, <2>2
<1>7. QED
  BY <1>1, <1>3, <1>4, <1>6

\* The client gets the answer Anthropic gave.
LEMMA AnthropicGot ==
  ASSUME NEW blocks \in Seq(Strings), NEW n \in Nat, Turn = n, NEW cut \in BOOLEAN,
         provider = "anthropic", answer = AnswerOf(blocks, cut)
  PROVE  Got(blocks, cut, n)
<1> DEFINE D == Data(n)
           l == Len(blocks)
           a == ArgumentsIn(blocks)
           b == [k \in 1 .. l |-> ToJSONString(a[k])]
           c == AnthropicContent(blocks)
           text == FlattenSeq([k \in 1 .. Len(blocks) |->
                     IF IsText(blocks[k]) THEN <<DatumOf(blocks, k)>> ELSE <<>>])
           said == FlattenSeq(SaidPieces(blocks, a))
           got == FlattenSeq(GotPieces(blocks, b))
           reason == IF cut THEN "max_tokens" ELSE IF Calling(blocks) THEN "tool_use" ELSE "end_turn"
           finish1 == IF cut THEN "length" ELSE IF Calling(blocks) THEN "tool_calls" ELSE "stop"
           calls == IF finish1 = "tool_calls" THEN got ELSE <<>>
           t == [says |-> [text |-> text, calls |-> said], cut |-> cut]
<1>1. l \in Nat /\ DOMAIN blocks = 1 .. l
  BY LenProperties
<1>0. provider # "vertex" /\ provider \notin Compatible
  BY ConversationAssumption
<1>2. answer = [error |-> FALSE, content |-> c, stop_reason |-> reason]
  BY <1>0, <1>1 DEF AnswerOf, AnthropicContent
<1>3. answer.error = FALSE /\ answer.content = c /\ answer.stop_reason = reason
  <2> HIDE DEF c, reason
  <2> QED
    BY <1>2
<1>4. \A k \in 1 .. l :
        /\ a[k] = ArgumentsOf(blocks, k)
        /\ a[k] \in ArgumentsOver(D)
        /\ b[k] = ToJSONString(a[k])
        /\ b[k] = ToJSONString(ArgumentsOf(blocks, k))
        /\ A!ToJSONString(ArgumentsOf(blocks, k)) = b[k]
  <2>1. \A k \in 1 .. l : ArgumentsOf(blocks, k) \in ArgumentsOver(D)
    BY ArgumentsOfTyped
  <2>2. \A x \in ArgumentsOver(D) : A!ToJSONString(x) = ToJSONString(x)
    BY ArgumentsTyped
  <2> HIDE DEF D
  <2>3. QED
    BY <2>1, <2>2 DEF ArgumentsIn
<1>5. AnthropicSays(c) = [text |-> text, calls |-> said]
  BY AnthropicSaid
<1> HIDE DEF c, a, b, text, said, got
<1>6. A!ExtractToolCalls(answer) = got
  BY <1>3, <1>4, AnthropicGotCalls DEF got, l, c
<1>7. A!ExtractContent(answer) = text
  <2>1. A!ExtractContent(answer) = TextOf(c)
    BY <1>3, SameFlattenSeq DEF A!ExtractContent, TextOf
  <2>2. AnthropicSays(c).text = TextOf(c)
    BY DEF AnthropicSays
  <2>3. QED
    BY <1>5, <2>1, <2>2
<1>8. Said = t
  BY <1>0, <1>3, <1>5 DEF Said
<1>9. A!MapStopReason(answer.stop_reason) = finish1
  BY <1>3 DEF A!MapStopReason
<1>10. TranslateResponse = <<[finish_reason |-> finish1, message |-> AnswerMessage(text, calls)]>>
  <2>1. TranslateResponse = A!TranslateResponse(answer)
    BY <1>0 DEF TranslateResponse
  <2>2. [A!ChatMessage("assistant", A!StringContent(text)) EXCEPT !.calls = calls]
          = AnswerMessage(text, calls)
    BY AnswerMessageIs
  <2> HIDE DEF finish1
  <2>3. A!TranslateResponse(answer) =
          <<[finish_reason |-> finish1,
             message |-> [A!ChatMessage("assistant", A!StringContent(text)) EXCEPT !.calls = calls]]>>
    BY <1>3, <1>6, <1>7, <1>9 DEF A!TranslateResponse
  <2>4. QED
    BY <2>1, <2>2, <2>3
<1>11. /\ got \in CallsOver(D) /\ SameCalls(got, said) /\ CallsOfBlocks(said, blocks)
       /\ \A k \in 1 .. Len(got) : got[k].id = <<n, k>>
  <2>1. (\A k \in 1 .. Len(blocks) : a[k] \in ArgumentsOver(Data(n)))
        /\ \A k \in 1 .. Len(blocks) : b[k] = ToJSONString(a[k])
    BY <1>4
  <2>2. QED
    BY <2>1, AnswerCalls DEF got, said
<1>12. Calling(blocks) <=> Len(CallPlaces(blocks)) > 0
  <2>1. CallPlaces(blocks) \in Seq(Nat)
    <3>1. CallPlaces(blocks) \in Seq(CallsAmong(blocks) \cap (1 .. l)) /\ CallsAmong(blocks) \cap (1 .. l) \subseteq Nat
      BY <1>1, PlacesAppend DEF CallPlaces
    <3>2. QED
      BY <3>1, SeqMonotonic
  <2>2. CallPlaces(blocks) # <<>> <=> Len(CallPlaces(blocks)) > 0
    BY <2>1
  <2>3. QED
    BY <2>2, CallPlacesAre
<1>13. Len(got) = Len(CallPlaces(blocks)) /\ Len(said) = Len(CallPlaces(blocks)) /\ Len(got) \in Nat
  BY <1>11, CallPlacesAre DEF SameCalls, CallsOfBlocks
<1>14. /\ calls \in CallsOver(D)
       /\ SameCalls(calls, said) \/ (cut /\ calls = <<>>)
       /\ \A k \in 1 .. Len(calls) : calls[k].id \in {<<n, k>>, <<0, k>>}
       /\ finish1 = "tool_calls" <=> calls # <<>>
  <2>1. CASE finish1 = "tool_calls"
    <3>1. calls = got /\ Calling(blocks)
      BY <2>1
    <3>2. got # <<>>
      BY <1>12, <1>13, <3>1
    <3>3. \A k \in 1 .. Len(got) : got[k].id \in {<<n, k>>, <<0, k>>}
      BY <1>11
    <3> HIDE DEF calls, D, finish1
    <3>4. QED
      BY <1>11, <2>1, <3>1, <3>2, <3>3
  <2>2. CASE finish1 # "tool_calls"
    <3>1. calls = <<>> /\ (cut \/ ~Calling(blocks))
      BY <2>2
    <3>2. <<>> \in CallsOver(D) /\ Len(<<>>) = 0
      BY DEF CallsOver
    <3>3. ~cut => Len(said) = 0
      BY <1>12, <1>13, <3>1, CallPlacesAre
    <3>4. ~cut => SameCalls(<<>>, said)
      BY <3>2, <3>3 DEF SameCalls
    <3> HIDE DEF calls, D, finish1
    <3>5. QED
      BY <2>2, <3>1, <3>2, <3>4
  <2>3. QED
    BY <2>1, <2>2
<1>15. IsReceived(AnswerMessage(text, calls), t, blocks, cut, n)
  <2> HIDE DEF calls
  <2>1. \A k \in 1 .. Len(blocks) : a[k] \in ArgumentsOver(Data(n))
    BY <1>4
  <2>2. QED
    BY <1>14, <2>1, ReceivedIs DEF said, text
<1>16. finish1 \in FinishReasons /\ (finish1 = "length" <=> cut)
  BY DEF FinishReasons
<1> HIDE DEF finish1, calls, t
<1> DEFINE choice == [finish_reason |-> finish1, message |-> AnswerMessage(text, calls)]
<1>17. choice.finish_reason = finish1 /\ choice.message = AnswerMessage(text, calls)
       /\ choice.message.calls = calls /\ TranslateResponse = <<choice>>
  BY <1>10 DEF AnswerMessage
<1> HIDE DEF choice
<1>18. IsGot(choice, blocks, cut, n)
  BY <1>8, <1>14, <1>15, <1>16, <1>17 DEF IsGot
<1>19. QED
  BY <1>17, <1>18 DEF Got

-----------------------------------------------------------------------------
(* Vertex: the parts of its answer, and the calls with made-up ids.        *)

VertexParts(blocks) == [k \in 1 .. Len(blocks) |-> VertexPart(blocks, k)]

\* The parts of Vertex's answer.
LEMMA VertexPartIs ==
  ASSUME NEW blocks, NEW k
  PROVE  /\ IsText(blocks[k]) =>
              /\ VertexPart(blocks, k).type = "text"
              /\ VertexPart(blocks, k).text = <<DatumOf(blocks, k)>>
         /\ ~IsText(blocks[k]) =>
              /\ VertexPart(blocks, k).type = "functionCall"
              /\ VertexPart(blocks, k).name = blocks[k]
              /\ VertexPart(blocks, k).args = ArgumentsOf(blocks, k)
BY DEF VertexPart, V!Part

\* What Vertex has said with them.
LEMMA VertexSaid ==
  ASSUME NEW blocks \in Seq(Strings)
  PROVE  VertexSays(VertexParts(blocks)) =
           [text |-> FlattenSeq([k \in 1 .. Len(blocks) |->
                       IF IsText(blocks[k]) THEN <<DatumOf(blocks, k)>> ELSE <<>>]),
            calls |-> FlattenSeq(SaidPieces(blocks, ArgumentsIn(blocks)))]
<1> DEFINE l == Len(blocks)
           c == VertexParts(blocks)
           a == ArgumentsIn(blocks)
<1>1. DOMAIN c = 1 .. l /\ \A k \in 1 .. l : c[k] = VertexPart(blocks, k)
  BY DEF VertexParts
<1>2. \A k \in 1 .. l : a[k] = ArgumentsOf(blocks, k)
  BY DEF ArgumentsIn
<1>3. \A k \in 1 .. l :
        /\ IsText(blocks[k]) => c[k].type = "text" /\ c[k].text = <<DatumOf(blocks, k)>>
        /\ ~IsText(blocks[k]) => c[k].type = "functionCall" /\ c[k].name = blocks[k] /\ c[k].args = a[k]
  BY <1>1, <1>2, VertexPartIs
<1> HIDE DEF l, c, a
<1>4. [i \in DOMAIN c |-> IF c[i].type = "text" THEN c[i].text ELSE <<>>]
        = [k \in 1 .. l |-> IF IsText(blocks[k]) THEN <<DatumOf(blocks, k)>> ELSE <<>>]
  BY <1>1, <1>3
<1>5. [i \in DOMAIN c |->
         IF c[i].type = "functionCall" THEN <<[name |-> c[i].name, args |-> c[i].args]>> ELSE <<>>]
        = SaidPieces(blocks, a)
  <2>1. SaidPieces(blocks, a) = [k \in 1 .. l |->
          IF IsText(blocks[k]) THEN <<>> ELSE <<[name |-> blocks[k], args |-> a[k]]>>]
    BY DEF SaidPieces, l
  <2>2. QED
    BY <1>1, <1>3, <2>1
<1>6. QED
  BY <1>4, <1>5 DEF VertexSays, TextOf, l, c, a

\* The parts that are calls, and the calls made of them.
CallParts(blocks) ==
  [k \in 1 .. Len(blocks) |-> IF IsText(blocks[k]) THEN <<>> ELSE <<VertexPart(blocks, k)>>]

MadeCalls(made) ==
  [i \in DOMAIN made |-> Call(<<0, i>>, made[i].name, ToJSONString(made[i].args))]

\* extractToolCalls returns the calls of the parts, numbered from call_0.
LEMMA VertexGotCalls ==
  ASSUME NEW blocks \in Seq(Strings), NEW candidate, candidate.parts = VertexParts(blocks),
         NEW n \in Nat, Turn = n
  PROVE  /\ V!ExtractToolCalls(candidate) = MadeCalls(FlattenSeq(CallParts(blocks)))
         /\ MadeCalls(FlattenSeq(CallParts(blocks))) \in CallsOver(Data(n))
         /\ SameCalls(MadeCalls(FlattenSeq(CallParts(blocks))),
                      FlattenSeq(SaidPieces(blocks, ArgumentsIn(blocks))))
         /\ \A k \in 1 .. Len(MadeCalls(FlattenSeq(CallParts(blocks)))) :
              MadeCalls(FlattenSeq(CallParts(blocks)))[k].id = <<0, k>>
<1> DEFINE l == Len(blocks)
           D == Data(n)
           a == ArgumentsIn(blocks)
           c == VertexParts(blocks)
           q == CallParts(blocks)
           made == FlattenSeq(q)
           got == MadeCalls(made)
           said == FlattenSeq(SaidPieces(blocks, a))
           P == CallPlaces(blocks)
           U == {VertexPart(blocks, k) : k \in 1 .. l}
           x == [k \in 1 .. l |-> VertexPart(blocks, k)]
           w == [k \in 1 .. l |-> [name |-> blocks[k], args |-> a[k]]]
<1>1. l \in Nat /\ \A k \in 1 .. l : blocks[k] \in Strings
  BY LenProperties, ElementOfSeq
<1>2. DOMAIN c = 1 .. l /\ \A k \in 1 .. l : c[k] = VertexPart(blocks, k)
  BY DEF VertexParts
<1>3. \A k \in 1 .. l : a[k] = ArgumentsOf(blocks, k)
                        /\ a[k] \in ArgumentsOver(D) /\ ToJSONString(a[k]) \in ArgumentsOver(D)
                        /\ V!ToJSONString(a[k]) = ToJSONString(a[k])
  <2>1. \A k \in 1 .. l : ArgumentsOf(blocks, k) \in ArgumentsOver(D)
    BY ArgumentsOfTyped
  <2>2. \A y \in ArgumentsOver(D) : ToJSONString(y) \in ArgumentsOver(D)
    BY ArgumentsTyped
  <2>3. \A y : V!ToJSONString(y) = ToJSONString(y)
    BY DEF V!ToJSONString, ToJSONString, V!EmptyObject, EmptyObject, V!Arguments, Arguments
  <2> HIDE DEF D
  <2>4. QED
    BY <2>1, <2>2, <2>3 DEF ArgumentsIn
<1>4. \A k \in 1 .. l :
        /\ IsText(blocks[k]) <=> c[k].type # "functionCall"
        /\ ~IsText(blocks[k]) => c[k].name = blocks[k] /\ c[k].args = a[k]
  <2>1. \A k \in 1 .. l :
          /\ IsText(blocks[k]) => c[k].type = "text"
          /\ ~IsText(blocks[k]) => c[k].type = "functionCall" /\ c[k].name = blocks[k] /\ c[k].args = ArgumentsOf(blocks, k)
    BY <1>2, VertexPartIs
  <2> HIDE DEF a, c
  <2>2. QED
    BY <1>3, <2>1
<1>5. q = [k \in 1 .. l |-> IF IsText(blocks[k]) THEN <<>> ELSE <<x[k]>>]
      /\ \A k \in 1 .. l : x[k] = c[k] /\ x[k] \in U
  BY <1>2 DEF CallParts
<1>6. SaidPieces(blocks, a) = [k \in 1 .. l |-> IF IsText(blocks[k]) THEN <<>> ELSE <<w[k]>>]
      /\ \A k \in 1 .. l : w[k] = [name |-> blocks[k], args |-> a[k]]
  BY DEF SaidPieces
<1> HIDE DEF c, a, q, x, w, U
<1>7. /\ q \in Seq(Seq(U)) /\ PiecesOfCalls(q, blocks)
      /\ \A k \in 1 .. l : ~IsText(blocks[k]) => q[k][1] = x[k]
  <2>1. l \in Nat /\ \A k \in 1 .. l : x[k] \in U
    BY <1>1, <1>5
  <2>2. QED
    BY ONLY <1>5, <2>1, CallPiecesTyped
<1>8. \A k \in 1 .. l : w[k] \in SaidCalls(D)
  <2> HIDE DEF D, l
  <2>1. \A y \in Strings, z \in ArgumentsOver(D) : [name |-> y, args |-> z] \in SaidCalls(D)
    BY DEF SaidCalls
  <2>2. QED
    BY ONLY <1>1, <1>3, <1>6, <2>1
<1> DEFINE r == SaidPieces(blocks, a)
<1>20. r = [k \in 1 .. l |-> IF IsText(blocks[k]) THEN <<>> ELSE <<w[k]>>]
  BY <1>6
<1> HIDE DEF r
<1>9. /\ r \in Seq(Seq(SaidCalls(D))) /\ PiecesOfCalls(r, blocks)
      /\ \A k \in 1 .. l : ~IsText(blocks[k]) => r[k][1] = w[k]
  <2>1. l \in Nat /\ \A k \in 1 .. l : w[k] \in SaidCalls(D)
    BY <1>1, <1>8
  <2> HIDE DEF D
  <2>2. QED
    BY ONLY <1>20, <2>1, CallPiecesTyped
<1>10. /\ Len(said) = Len(P) /\ \A k \in 1 .. Len(said) : said[k] = r[P[k]][1]
       /\ Len(made) = Len(P) /\ \A k \in 1 .. Len(made) : made[k] = q[P[k]][1]
  <2> HIDE DEF D, P, made
  <2>1. PICK p \in Seq(Seq(Data(n))) : TextsAre(p, blocks)
    BY AnswerText
  <2> DEFINE Z == SaidCalls(Data(n))
  <2>5. r \in Seq(Seq(Z)) /\ PiecesOfCalls(r, blocks)
    BY <1>9 DEF D
  <2> HIDE DEF Z
  <2>2. Len(FlattenSeq(r)) = Len(CallPlaces(blocks))
        /\ \A k \in 1 .. Len(FlattenSeq(r)) : FlattenSeq(r)[k] = r[CallPlaces(blocks)[k]][1]
    BY <2>1, <2>5, AnswerLengths
  <2>3. Len(FlattenSeq(q)) = Len(CallPlaces(blocks))
        /\ \A k \in 1 .. Len(FlattenSeq(q)) : FlattenSeq(q)[k] = q[CallPlaces(blocks)[k]][1]
    BY <1>7, <2>1, AnswerLengths
  <2>4. QED
    BY <2>2, <2>3 DEF made, P, r
<1>11. Len(P) \in Nat /\ \A k \in 1 .. Len(P) : P[k] \in 1 .. l /\ ~IsText(blocks[P[k]])
  BY CallPlacesAre
<1>12. made \in Seq(U)
  BY <1>7, FlattenType
<1>13. DOMAIN made = 1 .. Len(made)
  BY <1>12, LenProperties
<1> HIDE DEF l, D, P, said, made
<1>14. ASSUME NEW k \in 1 .. Len(P)
       PROVE  /\ said[k].name = blocks[P[k]] /\ said[k].args = a[P[k]]
              /\ made[k].name = blocks[P[k]] /\ made[k].args = a[P[k]]
              /\ blocks[P[k]] \in Strings
              /\ ToJSONString(a[P[k]]) \in ArgumentsOver(D)
              /\ V!ToJSONString(a[P[k]]) = ToJSONString(a[P[k]])
  <2>1. P[k] \in 1 .. l /\ ~IsText(blocks[P[k]])
    BY <1>11
  <2>2. said[k] = [name |-> blocks[P[k]], args |-> a[P[k]]]
    BY <1>6, <1>9, <1>10, <2>1
  <2>3. made[k] = c[P[k]]
    BY <1>5, <1>7, <1>10, <2>1
  <2>4. made[k].name = blocks[P[k]] /\ made[k].args = a[P[k]]
    BY <1>4, <2>1, <2>3
  <2>5. QED
    BY <1>1, <1>3, <2>1, <2>2, <2>4
<1>15. got = [k \in 1 .. Len(P) |-> Call(<<0, k>>, blocks[P[k]], ToJSONString(a[P[k]]))]
  BY <1>10, <1>13, <1>14 DEF MadeCalls
<1>16. \A k \in 1 .. Len(P) : Call(<<0, k>>, blocks[P[k]], ToJSONString(a[P[k]])) \in CallOver(D)
  <2> TAKE k \in 1 .. Len(P)
  <2> DEFINE i == <<0, k>>
             y == blocks[P[k]]
             z == ToJSONString(a[P[k]])
  <2>1. i \in Seq(Nat) /\ y \in Strings /\ z \in ArgumentsOver(D)
    BY <1>11, <1>14
  <2> HIDE DEF i, y, z
  <2>2. Call(i, y, z) \in CallOver(D)
    BY <2>1 DEF Call, CallOver
  <2>3. QED
    BY <2>2 DEF i, y, z
<1> HIDE DEF got
<1>17. got \in CallsOver(D) /\ Len(got) = Len(P)
       /\ \A k \in 1 .. Len(P) : got[k] = Call(<<0, k>>, blocks[P[k]], ToJSONString(a[P[k]]))
  <2> DEFINE E == CallOver(D)
  <2> HIDE DEF E
  <2>1. \A k \in 1 .. Len(P) : Call(<<0, k>>, blocks[P[k]], ToJSONString(a[P[k]])) \in E
    BY <1>16 DEF E
  <2> DEFINE f(k) == Call(<<0, k>>, blocks[P[k]], ToJSONString(a[P[k]]))
  <2>2. got = [k \in 1 .. Len(P) |-> f(k)] /\ \A k \in 1 .. Len(P) : f(k) \in E
    BY <1>15, <2>1
  <2> HIDE DEF f
  <2>3. got \in Seq(E) /\ Len(got) = Len(P) /\ \A k \in 1 .. Len(P) : got[k] = f(k)
    BY <1>11, <2>2, SeqDef
  <2>4. Seq(E) = CallsOver(D)
    BY DEF E, CallOver, CallsOver
  <2>5. QED
    BY <2>3, <2>4 DEF f
<1>18. SameCalls(got, said) /\ \A k \in 1 .. Len(got) : got[k].id = <<0, k>>
  <2>1. \A k \in 1 .. Len(P) : got[k].id = <<0, k>> /\ got[k].name = blocks[P[k]] /\ got[k].arguments = ToJSONString(a[P[k]])
    <3>1. \A i, y, z : Call(i, y, z).id = i /\ Call(i, y, z).name = y /\ Call(i, y, z).arguments = z
      BY DEF Call
    <3>2. TAKE k \in 1 .. Len(P)
    <3> DEFINE i == <<0, k>>
               y == blocks[P[k]]
               z == ToJSONString(a[P[k]])
    <3>3. got[k] = Call(i, y, z)
      BY <1>17
    <3> HIDE DEF i, y, z
    <3>4. got[k].id = i /\ got[k].name = y /\ got[k].arguments = z
      BY ONLY <3>1, <3>3
    <3>5. QED
      BY <3>4 DEF i, y, z
  <2>2. QED
    BY <1>10, <1>14, <1>17, <2>1 DEF SameCalls
<1>19. V!ExtractToolCalls(candidate) = got
  <2> DEFINE p == [i \in DOMAIN c |-> IF c[i].type = "functionCall" THEN <<c[i]>> ELSE <<>>]
  <2>1. V!ExtractToolCalls(candidate) =
          [i \in DOMAIN FlattenSeq(p) |->
             V!Call(V!CallId(i), FlattenSeq(p)[i].name, V!ToJSONString(FlattenSeq(p)[i].args))]
    BY SameFlattenSeq DEF V!ExtractToolCalls, c
  <2>2. p = q
    BY <1>2, <1>4, <1>5
  <2>3. V!ExtractToolCalls(candidate) =
          [i \in DOMAIN made |-> V!Call(V!CallId(i), made[i].name, V!ToJSONString(made[i].args))]
    BY <2>1, <2>2 DEF made
  <2>4. \A i, y, z : V!Call(V!CallId(i), y, z) = Call(<<0, i>>, y, z)
    BY DEF V!Call, V!CallId, Call
  <2>5. DOMAIN made = 1 .. Len(P)
    BY <1>10, <1>13
  <2> HIDE DEF p
  <2>6. \A i \in 1 .. Len(P) : V!Call(V!CallId(i), made[i].name, V!ToJSONString(made[i].args))
                                 = Call(<<0, i>>, blocks[P[i]], ToJSONString(a[P[i]]))
    BY <1>14, <2>4
  <2>7. QED
    BY <1>15, <2>3, <2>5, <2>6
<1>30. QED
  BY <1>17, <1>18, <1>19 DEF got, said, made, q, a, D

\* The client gets the answer Vertex gave.
LEMMA VertexGot ==
  ASSUME NEW blocks \in Seq(Strings), NEW n \in Nat, Turn = n, NEW cut \in BOOLEAN,
         provider = "vertex", answer = AnswerOf(blocks, cut)
  PROVE  Got(blocks, cut, n)
<1> DEFINE a == ArgumentsIn(blocks)
           c == VertexParts(blocks)
           text == FlattenSeq([k \in 1 .. Len(blocks) |->
                     IF IsText(blocks[k]) THEN <<DatumOf(blocks, k)>> ELSE <<>>])
           said == FlattenSeq(SaidPieces(blocks, a))
           calls == MadeCalls(FlattenSeq(CallParts(blocks)))
           reason == IF cut THEN "MAX_TOKENS" ELSE "STOP"
           finish1 == IF cut THEN "length" ELSE "stop"
           candidate == [parts |-> c, finishReason |-> reason]
           t == [says |-> [text |-> text, calls |-> said], cut |-> cut]
<1>1. DOMAIN blocks = 1 .. Len(blocks)
  BY LenProperties
<1>2. provider # "anthropic" /\ provider \notin Compatible
  BY ConversationAssumption
<1>3. answer = [error |-> FALSE, candidates |-> <<candidate>>]
  BY <1>1, <1>2 DEF AnswerOf, VertexParts
<1> HIDE DEF c, a, text, said, calls, reason
<1>4. candidate.parts = c /\ candidate.finishReason = reason
  OBVIOUS
<1> HIDE DEF candidate
<1>5. answer.error = FALSE /\ answer.candidates = <<candidate>> /\ Head(answer.candidates) = candidate
  BY <1>3
<1>6. VertexSays(c) = [text |-> text, calls |-> said]
  BY VertexSaid DEF c, text, said, a
<1>7. Said = t
  <2>1. reason = "MAX_TOKENS" <=> cut
    BY DEF reason
  <2>2. Said = [says |-> VertexSays(Head(answer.candidates).parts),
                cut |-> Head(answer.candidates).finishReason = "MAX_TOKENS"]
    BY <1>2 DEF Said
  <2>3. (reason = "MAX_TOKENS") = cut
    BY <2>1
  <2>4. QED
    BY <1>4, <1>5, <1>6, <2>2, <2>3
<1>8. V!ExtractText(candidate) = text
  <2>1. V!ExtractText(candidate) = TextOf(c)
    BY <1>4, SameFlattenSeq DEF V!ExtractText, TextOf
  <2>2. VertexSays(c).text = TextOf(c)
    BY DEF VertexSays
  <2>3. QED
    BY <1>6, <2>1, <2>2
<1>9. /\ V!ExtractToolCalls(candidate) = calls /\ calls \in CallsOver(Data(n))
      /\ SameCalls(calls, said) /\ \A k \in 1 .. Len(calls) : calls[k].id = <<0, k>>
  BY <1>4, VertexGotCalls DEF calls, said, a, c
<1>10. V!MapFinishReason(candidate.finishReason) = finish1
  BY <1>4 DEF V!MapFinishReason, V!ContentFilterReasons, reason
<1> DEFINE choice == [finish_reason |-> finish1, message |-> AnswerMessage(text, calls)]
<1>11. TranslateResponse = <<choice>>
  <2>1. TranslateResponse = V!TranslateCandidates(answer)
    BY <1>2, <1>5 DEF TranslateResponse, V!TranslateResponse
  <2>2. [V!ChatMessage("assistant", V!StringContent(text)) EXCEPT !.calls = calls]
          = AnswerMessage(text, calls)
    BY AnswerMessageIs
  <2>3. DOMAIN answer.candidates = 1 .. 1 /\ answer.candidates[1] = candidate
    BY <1>5
  <2> HIDE DEF finish1
  <2>4. V!TranslateCandidates(answer) =
          [i \in 1 .. 1 |->
            [finish_reason |-> finish1,
             message |-> [V!ChatMessage("assistant", V!StringContent(text)) EXCEPT !.calls = calls]]]
    BY <1>8, <1>9, <1>10, <2>3 DEF V!TranslateCandidates
  <2>5. V!TranslateCandidates(answer) = [i \in 1 .. 1 |-> choice]
    BY <2>2, <2>4
  <2> HIDE DEF choice
  <2>6. [i \in 1 .. 1 |-> choice] = <<choice>>
    OBVIOUS
  <2>7. QED
    BY <2>1, <2>5, <2>6
<1>12. \A k \in 1 .. Len(blocks) : a[k] \in ArgumentsOver(Data(n))
  BY ArgumentsOfTyped DEF a, ArgumentsIn
<1>13. IsReceived(AnswerMessage(text, calls), t, blocks, cut, n)
  <2>1. SameCalls(calls, said) \/ (cut /\ calls = <<>>)
    BY <1>9
  <2>2. \A k \in 1 .. Len(calls) : calls[k].id \in {<<n, k>>, <<0, k>>}
    BY <1>9
  <2>3. QED
    BY <1>9, <1>12, <2>1, <2>2, ReceivedIs DEF said, text
<1>14. finish1 \in FinishReasons /\ (finish1 = "length" <=> cut)
  BY DEF FinishReasons
<1> HIDE DEF finish1, t
<1>15. choice.finish_reason = finish1 /\ choice.message = AnswerMessage(text, calls)
  BY DEF AnswerMessage
<1> HIDE DEF choice
<1>16. IsGot(choice, blocks, cut, n)
  BY <1>2, <1>7, <1>13, <1>14, <1>15 DEF IsGot
<1>17. QED
  BY <1>11, <1>16 DEF Got

-----------------------------------------------------------------------------
(* The providers of the gateway's own format.                              *)

\* Setting one field of a choice leaves the others alone.
LEMMA FilteredSet ==
  ASSUME NEW f, NEW m, NEW x, NEW y
  PROVE  [[finish_reason |-> f, message |-> m, filtered |-> x] EXCEPT !.filtered = y]
           = [finish_reason |-> f, message |-> m, filtered |-> y]
OBVIOUS

\* The client gets the message as it is, without Azure's field.
LEMMA CompatibleChoice ==
  ASSUME provider \in Compatible, NEW m, NEW f, answer = CompatibleAnswer(m, f)
  PROVE  /\ TranslateResponse = <<[finish_reason |-> f, message |-> m, filtered |-> FALSE]>>
         /\ Said = [says |-> ChatSays(m), cut |-> f = "length"]
<1> DEFINE filtered == provider = "azure"
           choice == [finish_reason |-> f, message |-> m, filtered |-> filtered]
           got == [finish_reason |-> f, message |-> m, filtered |-> FALSE]
<1>1. provider # "anthropic" /\ provider # "vertex"
  BY ConversationAssumption
<1>2. answer = [error |-> FALSE, filtered |-> filtered, choices |-> <<choice>>]
  BY DEF CompatibleAnswer
<1> HIDE DEF filtered
<1>3. choice.message = m /\ choice.finish_reason = f /\ [choice EXCEPT !.filtered = FALSE] = got
  <2>1. choice.message = m /\ choice.finish_reason = f
    OBVIOUS
  <2>2. [choice EXCEPT !.filtered = FALSE] = got
    <3> DEFINE no == FALSE
    <3> HIDE DEF no
    <3>1. [choice EXCEPT !.filtered = no] = [finish_reason |-> f, message |-> m, filtered |-> no]
      BY FilteredSet
    <3>2. QED
      BY <3>1 DEF no, got
  <2>3. QED
    BY <2>1, <2>2
<1>4. filtered = FALSE => choice = got
  OBVIOUS
<1> HIDE DEF choice, got
<1>5. answer.choices = <<choice>> /\ Head(answer.choices) = choice
  BY <1>2
<1>6. TranslateResponse = O!TranslateResponse(provider, answer).choices
  BY <1>1 DEF TranslateResponse
<1>7. CASE provider = "azure"
  <2>1. O!TranslateResponse(provider, answer).choices
          = [i \in DOMAIN answer.choices |-> [answer.choices[i] EXCEPT !.filtered = FALSE]]
    BY <1>7 DEF O!TranslateResponse, O!AzureTranslateResponse
  <2>2. DOMAIN answer.choices = 1 .. 1 /\ answer.choices[1] = choice
    BY <1>5
  <2>3. [i \in DOMAIN answer.choices |-> [answer.choices[i] EXCEPT !.filtered = FALSE]]
          = [i \in 1 .. 1 |-> got]
    BY <1>3, <2>2
  <2>4. [i \in 1 .. 1 |-> got] = <<got>>
    OBVIOUS
  <2>5. TranslateResponse = <<got>>
    BY <1>6, <2>1, <2>3, <2>4
  <2>6. QED
    BY <1>1, <1>3, <1>5, <2>5 DEF Said, got
<1>8. CASE provider # "azure"
  <2>1. O!TranslateResponse(provider, answer) = answer
    BY <1>8 DEF O!TranslateResponse
  <2>4. filtered = FALSE
    BY <1>8 DEF filtered
  <2>2. TranslateResponse = <<got>>
    BY <1>4, <1>5, <1>6, <2>1, <2>4
  <2>3. QED
    BY <1>1, <1>3, <1>5, <2>2 DEF Said, got
<1>9. QED
  BY <1>7, <1>8

\* What is said in a message is what the pieces it is made of say.
LEMMA ChatSaid ==
  ASSUME NEW blocks \in Seq(Strings), NEW cut, NEW n \in Nat, Turn = n,
         NEW text \in Seq(Data(n)), NEW calls \in CallsOver(Data(n)), NEW said, SameCalls(calls, said),
         IsReceived(AnswerMessage(text, calls), [says |-> [text |-> text, calls |-> said], cut |-> cut],
                    blocks, cut, n)
  PROVE  IsReceived(AnswerMessage(text, calls), [says |-> ChatSays(AnswerMessage(text, calls)), cut |-> cut],
                    blocks, cut, n)
<1> DEFINE D == Data(n)
           m == AnswerMessage(text, calls)
           t == [says |-> [text |-> text, calls |-> said], cut |-> cut]
           c == [k \in DOMAIN calls |-> [name |-> calls[k].name, args |-> calls[k].arguments]]
           u == [says |-> [text |-> text, calls |-> c], cut |-> cut]
<1>1. m.content = StringContent(text) /\ m.calls = calls
  BY DEF AnswerMessage
<1>2. ChatSays(m) = [text |-> text, calls |-> c]
  <2>1. [i \in DOMAIN StringContent(text) |-> StringContent(text)[i].data] = [i \in DOMAIN text |-> text[i]]
    BY DEF StringContent
  <2>2. text = [i \in DOMAIN text |-> text[i]]
    OBVIOUS
  <2> HIDE DEF m
  <2>3. QED
    BY <1>1, <2>1, <2>2 DEF ChatSays
<1>3. Len(calls) \in Nat /\ DOMAIN calls = 1 .. Len(calls)
      /\ \A k \in 1 .. Len(calls) : calls[k].name \in Strings /\ calls[k].arguments \in ArgumentsOver(D)
  BY CallFields
<1> HIDE DEF D
<1>4. c \in Seq(SaidCalls(D)) /\ Len(c) = Len(calls)
      /\ \A k \in 1 .. Len(calls) : c[k].name = calls[k].name /\ c[k].args = calls[k].arguments
  <2> DEFINE f(k) == [name |-> calls[k].name, args |-> calls[k].arguments]
             Z == SaidCalls(D)
  <2>1. \A k \in 1 .. Len(calls) : f(k) \in Z
    <3>1. \A y \in Strings, z \in ArgumentsOver(D) : [name |-> y, args |-> z] \in SaidCalls(D)
      BY DEF SaidCalls
    <3>2. QED
      BY ONLY <1>3, <3>1
  <2>2. c = [k \in 1 .. Len(calls) |-> f(k)]
    BY <1>3
  <2>3. \A k : f(k).name = calls[k].name /\ f(k).args = calls[k].arguments
    OBVIOUS
  <2> HIDE DEF f, Z, c
  <2>4. c \in Seq(Z) /\ Len(c) = Len(calls) /\ \A k \in 1 .. Len(calls) : c[k] = f(k)
    BY <1>3, <2>1, <2>2, SeqDef
  <2>5. QED
    BY <2>3, <2>4 DEF Z
<1> HIDE DEF c
<1>5. t.cut = cut /\ t.says.text = text /\ t.says.calls = said
      /\ u.cut = cut /\ u.says.text = text /\ u.says.calls = c
  OBVIOUS
<1> HIDE DEF t, u, m
<1>6. IsReceived(m, t, blocks, cut, n)
  BY DEF m, t
<1>7. Len(calls) = Len(said)
      /\ \A k \in 1 .. Len(calls) : calls[k].name = said[k].name /\ calls[k].arguments = ToJSONString(said[k].args)
  BY DEF SameCalls
<1>8. \A x : ToJSONString(ToJSONString(x)) = ToJSONString(x)
  BY DEF ToJSONString, EmptyObject, Arguments
<1>9. SameCalls(calls, c)
  BY <1>4, <1>7, <1>8 DEF SameCalls
<1>10. CallsOfBlocks(c, blocks)
  BY <1>4, <1>5, <1>6, <1>7 DEF CallsOfBlocks, IsReceived
<1>11. IsReceived(m, u, blocks, cut, n)
  BY <1>1, <1>4, <1>5, <1>6, <1>7, <1>9, <1>10 DEF IsReceived, D
<1>12. QED
  BY <1>2, <1>11 DEF m, u

\* The arguments of a compatible provider's calls: the last block's are no JSON in an answer
\* that is cut off.
CutArguments(blocks, cut) ==
  [k \in 1 .. Len(blocks) |->
     IF cut /\ k = Len(blocks) THEN Malformed ELSE ArgumentsOf(blocks, k)]

\* Arguments that are no JSON are still arguments.
LEMMA CutArgumentsAre ==
  ASSUME NEW blocks \in Seq(Strings), NEW n \in Nat, Turn = n, NEW cut \in BOOLEAN,
         provider # "vertex"
  PROVE  \A k \in 1 .. Len(blocks) :
           /\ CutArguments(blocks, cut)[k] \in ArgumentsOver(Data(n))
           /\ CutArguments(blocks, cut)[k] = ToJSONString(CutArguments(blocks, cut)[k])
<1> DEFINE D == Data(n)
           a == CutArguments(blocks, cut)
<1>1. \A k \in 1 .. Len(blocks) :
        ArgumentsOf(blocks, k) \in ArgumentsOver(D) /\ ToJSONString(ArgumentsOf(blocks, k)) = ArgumentsOf(blocks, k)
  BY ArgumentsOfTyped
<1>2. Malformed \in ArgumentsOver(D) /\ ToJSONString(Malformed) = Malformed
  BY ArgumentsTyped DEF Malformed, ToJSONString
<1>3. \A k \in 1 .. Len(blocks) : a[k] = IF cut /\ k = Len(blocks) THEN Malformed ELSE ArgumentsOf(blocks, k)
  BY DEF CutArguments
<1> HIDE DEF D, a
<1>4. ASSUME NEW k \in 1 .. Len(blocks)
      PROVE  a[k] \in ArgumentsOver(D) /\ a[k] = ToJSONString(a[k])
  <2>1. CASE cut /\ k = Len(blocks)
    <3>1. a[k] = Malformed
      BY <1>3, <2>1
    <3>2. QED
      BY <1>2, <3>1
  <2>2. CASE ~(cut /\ k = Len(blocks))
    <3>1. a[k] = ArgumentsOf(blocks, k)
      BY <1>3, <2>2
    <3>2. QED
      BY <1>1, <3>1
  <2>3. QED
    BY <2>1, <2>2
<1>5. QED
  BY <1>4 DEF a, D

\* The message of a compatible provider.
LEMMA CompatibleMessageIs ==
  ASSUME NEW blocks \in Seq(Strings), NEW cut
  PROVE  CompatibleMessage(blocks, cut) =
           AnswerMessage(FlattenSeq([k \in 1 .. Len(blocks) |->
                           IF IsText(blocks[k]) THEN <<DatumOf(blocks, k)>> ELSE <<>>]),
                         FlattenSeq(GotPieces(blocks, CutArguments(blocks, cut))))
<1> DEFINE a == CutArguments(blocks, cut)
           p == [k \in DOMAIN blocks |-> IF IsText(blocks[k]) THEN <<DatumOf(blocks, k)>> ELSE <<>>]
           q == [k \in DOMAIN blocks |->
                   IF IsText(blocks[k]) THEN <<>>
                   ELSE <<Call(DatumOf(blocks, k), blocks[k],
                               IF cut /\ k = Len(blocks) THEN Malformed ELSE ArgumentsOf(blocks, k))>>]
<1>1. DOMAIN blocks = 1 .. Len(blocks)
  BY LenProperties
<1>2. \A k \in 1 .. Len(blocks) : a[k] = IF cut /\ k = Len(blocks) THEN Malformed ELSE ArgumentsOf(blocks, k)
  BY DEF CutArguments
<1> HIDE DEF a
<1>3. q = GotPieces(blocks, a)
  <2>1. GotPieces(blocks, a) = [k \in 1 .. Len(blocks) |->
          IF IsText(blocks[k]) THEN <<>> ELSE <<Call(DatumOf(blocks, k), blocks[k], a[k])>>]
    BY DEF GotPieces
  <2>2. QED
    BY <1>1, <1>2, <2>1
<1>4. CompatibleMessage(blocks, cut) = ChatMessageOf(FlattenSeq(p), FlattenSeq(q))
  BY DEF CompatibleMessage, ChatMessageOf
<1>5. p = [k \in 1 .. Len(blocks) |-> IF IsText(blocks[k]) THEN <<DatumOf(blocks, k)>> ELSE <<>>]
  BY <1>1
<1> HIDE DEF p, q
<1>6. QED
  BY <1>3, <1>4, <1>5, AnswerMessageIs DEF a

\* The client gets the answer a compatible provider gave.
LEMMA CompatibleGot ==
  ASSUME NEW blocks \in Seq(Strings), NEW n \in Nat, Turn = n, NEW cut \in BOOLEAN,
         provider \in Compatible, answer = AnswerOf(blocks, cut)
  PROVE  Got(blocks, cut, n)
<1> DEFINE D == Data(n)
           a == CutArguments(blocks, cut)
           p == [k \in 1 .. Len(blocks) |-> IF IsText(blocks[k]) THEN <<DatumOf(blocks, k)>> ELSE <<>>]
           text == FlattenSeq(p)
           calls == FlattenSeq(GotPieces(blocks, a))
           said == FlattenSeq(SaidPieces(blocks, a))
           m == AnswerMessage(text, calls)
           f == IF cut THEN "length" ELSE IF Calling(blocks) THEN "tool_calls" ELSE "stop"
           t == [says |-> [text |-> text, calls |-> said], cut |-> cut]
           choice == [finish_reason |-> f, message |-> m, filtered |-> FALSE]
<1>1. provider # "anthropic" /\ provider # "vertex"
  BY ConversationAssumption
<1>2. CompatibleMessage(blocks, cut) = m
  BY CompatibleMessageIs
<1>3. answer = CompatibleAnswer(m, f)
  <2> HIDE DEF m
  <2> QED
    BY <1>1, <1>2 DEF AnswerOf
<1>4. \A k \in 1 .. Len(blocks) : a[k] \in ArgumentsOver(D) /\ a[k] = ToJSONString(a[k])
  BY <1>1, CutArgumentsAre
<1>5. p = [k \in 1 .. Len(blocks) |-> IF IsText(blocks[k]) THEN <<DatumOf(blocks, k)>> ELSE <<>>]
  OBVIOUS
<1> HIDE DEF D, a, p
<1>6. text \in Seq(D)
  <2> HIDE DEF text
  <2>1. FlattenSeq(p) \in Seq(Data(n))
    BY <1>5, AnswerText
  <2>2. QED
    BY <2>1 DEF D, text
<1>7. /\ calls \in CallsOver(D) /\ SameCalls(calls, said)
      /\ \A k \in 1 .. Len(calls) : calls[k].id = <<n, k>>
  <2> HIDE DEF calls, said
  <2>1. (\A k \in 1 .. Len(blocks) : a[k] \in ArgumentsOver(Data(n)))
        /\ \A k \in 1 .. Len(blocks) : a[k] = ToJSONString(a[k])
    BY <1>4 DEF D
  <2>2. QED
    BY <2>1, AnswerCalls DEF calls, said, D
<1> HIDE DEF calls, f
<1>8. IsReceived(m, t, blocks, cut, n)
  <2>1. SameCalls(calls, FlattenSeq(SaidPieces(blocks, a))) \/ (cut /\ calls = <<>>)
    BY <1>7
  <2>2. \A k \in 1 .. Len(calls) : calls[k].id \in {<<n, k>>, <<0, k>>}
    BY <1>7
  <2>3. \A k \in 1 .. Len(blocks) : a[k] \in ArgumentsOver(Data(n))
    BY <1>4 DEF D
  <2>4. text = FlattenSeq([k \in 1 .. Len(blocks) |-> IF IsText(blocks[k]) THEN <<DatumOf(blocks, k)>> ELSE <<>>])
    BY <1>5
  <2>5. calls \in CallsOver(Data(n))
    BY <1>7 DEF D
  <2> HIDE DEF text
  <2>6. QED
    BY <2>1, <2>2, <2>3, <2>4, <2>5, ReceivedIs
<1> HIDE DEF text, said
<1>9. IsReceived(m, [says |-> ChatSays(m), cut |-> cut], blocks, cut, n)
  BY <1>6, <1>7, <1>8, ChatSaid DEF D
<1> HIDE DEF m, t
<1>10. TranslateResponse = <<choice>> /\ Said = [says |-> ChatSays(m), cut |-> f = "length"]
  BY <1>3, CompatibleChoice
<1>11. (f = "length") = cut /\ f \in FinishReasons
  BY DEF f, FinishReasons
<1>12. choice.finish_reason = f /\ choice.message = m
  OBVIOUS
<1> HIDE DEF choice
<1>13. Said = [says |-> ChatSays(m), cut |-> cut]
  BY <1>10, <1>11
<1>14. IsGot(choice, blocks, cut, n)
  BY <1>1, <1>9, <1>11, <1>12, <1>13 DEF IsGot
<1>15. QED
  BY <1>10, <1>14 DEF Got

-----------------------------------------------------------------------------
(* Answers that are stopped before they say anything.                      *)

\* An answer that says nothing is the answer of no blocks.
LEMMA NothingReceived ==
  ASSUME NEW n \in Nat, Turn = n
  PROVE  /\ IsReceived(AnswerMessage(<<>>, <<>>),
                       [says |-> [text |-> <<>>, calls |-> <<>>], cut |-> FALSE], <<>>, FALSE, n)
         /\ ChatMessage("assistant", <<>>) = AnswerMessage(<<>>, <<>>)
         /\ ChatSays(AnswerMessage(<<>>, <<>>)) = [text |-> <<>>, calls |-> <<>>]
<1> DEFINE b == <<>>
           p == [k \in 1 .. Len(b) |-> IF IsText(b[k]) THEN <<DatumOf(b, k)>> ELSE <<>>]
           m == AnswerMessage(<<>>, <<>>)
           a == <<>>
<1>1. p = <<>> /\ FlattenSeq(p) = <<>>
  BY FlattenOfEmpty
<1>2. SaidPieces(b, a) = <<>> /\ FlattenSeq(SaidPieces(b, a)) = <<>>
  BY FlattenOfEmpty DEF SaidPieces
<1>3. b \in Seq(Strings) /\ <<>> \in CallsOver(Data(n)) /\ Len(b) = 0
  BY DEF CallsOver
<1>4. SameCalls(<<>>, <<>>)
  BY DEF SameCalls
<1>5. StringContent(<<>>) = <<>>
  BY DEF StringContent
<1> DEFINE t == FlattenSeq(p)
           s == FlattenSeq(SaidPieces(b, a))
           c == <<>>
<1>6. t = FlattenSeq([k \in 1 .. Len(b) |-> IF IsText(b[k]) THEN <<DatumOf(b, k)>> ELSE <<>>])
  OBVIOUS
<1>7. SameCalls(c, s)
  BY <1>2, <1>4
<1>8. /\ \A k \in 1 .. Len(b) : a[k] \in ArgumentsOver(Data(n))
      /\ \A k \in 1 .. Len(c) : c[k].id \in {<<n, k>>, <<0, k>>}
      /\ c \in CallsOver(Data(n))
  BY <1>3
<1> HIDE DEF t, c, a, b
<1>9. IsReceived(AnswerMessage(t, c), [says |-> [text |-> t, calls |-> s], cut |-> FALSE], b, FALSE, n)
  <2>1. SameCalls(c, s) \/ (FALSE /\ c = <<>>)
    BY <1>7
  <2> HIDE DEF s
  <2>2. b \in Seq(Strings)
    BY <1>3
  <2>3. QED
    BY <1>6, <1>8, <2>1, <2>2, ReceivedIs DEF s
<1>10. t = <<>> /\ s = <<>> /\ c = <<>> /\ b = <<>>
  BY <1>1, <1>2 DEF t, c, b
<1>11. ChatMessage("assistant", <<>>) = m
  BY <1>5 DEF ChatMessage, AnswerMessage
<1>12. ChatSays(m) = [text |-> <<>>, calls |-> <<>>]
  <2>1. m.content = <<>> /\ m.calls = <<>>
    BY <1>5 DEF AnswerMessage
  <2> HIDE DEF m
  <2>2. QED
    BY <2>1 DEF ChatSays
<1>13. QED
  BY <1>9, <1>10, <1>11, <1>12

\* The client gets the answer a filter has stopped.
LEMMA CompatibleStopped ==
  ASSUME NEW n \in Nat, Turn = n, provider \in Compatible,
         answer = CompatibleAnswer(ChatMessage("assistant", <<>>), "content_filter")
  PROVE  Got(<<>>, FALSE, n)
<1> DEFINE m == AnswerMessage(<<>>, <<>>)
           f == "content_filter"
           choice == [finish_reason |-> f, message |-> m, filtered |-> FALSE]
           s == [says |-> [text |-> <<>>, calls |-> <<>>], cut |-> FALSE]
<1>1. provider # "anthropic"
  BY ConversationAssumption
<1>2. /\ IsReceived(m, s, <<>>, FALSE, n)
      /\ ChatMessage("assistant", <<>>) = m /\ ChatSays(m) = [text |-> <<>>, calls |-> <<>>]
  BY NothingReceived
<1>3. (f = "length") = FALSE /\ f \in FinishReasons
  BY DEF FinishReasons
<1> HIDE DEF m, f
<1>4. answer = CompatibleAnswer(m, f)
  BY <1>2 DEF f
<1>5. TranslateResponse = <<choice>> /\ Said = [says |-> ChatSays(m), cut |-> f = "length"]
  BY <1>4, CompatibleChoice
<1>6. Said = s
  BY <1>2, <1>3, <1>5
<1>7. choice.finish_reason = f /\ choice.message = m
  OBVIOUS
<1> HIDE DEF choice, s
<1>8. IsGot(choice, <<>>, FALSE, n)
  BY <1>1, <1>2, <1>3, <1>6, <1>7 DEF IsGot
<1>9. QED
  BY <1>5, <1>8 DEF Got

\* The client gets the candidate Vertex has stopped.
LEMMA VertexStopped ==
  ASSUME NEW n \in Nat, Turn = n, provider = "vertex",
         NEW reason \in {"SAFETY", "MALFORMED_FUNCTION_CALL"},
         answer = [error |-> FALSE, candidates |-> <<[parts |-> <<>>, finishReason |-> reason]>>]
  PROVE  Got(<<>>, FALSE, n)
<1> DEFINE m == AnswerMessage(<<>>, <<>>)
           f == V!MapFinishReason(reason)
           candidate == [parts |-> <<>>, finishReason |-> reason]
           choice == [finish_reason |-> f, message |-> m]
           s == [says |-> [text |-> <<>>, calls |-> <<>>], cut |-> FALSE]
<1>1. provider # "anthropic" /\ provider \notin Compatible
  BY ConversationAssumption
<1>2. IsReceived(m, s, <<>>, FALSE, n)
  BY NothingReceived
<1>3. f # "length" /\ f \in FinishReasons /\ (reason = "MAX_TOKENS") = FALSE
  BY DEF FinishReasons, V!MapFinishReason, V!ContentFilterReasons
<1> HIDE DEF f
<1>4. candidate.parts = <<>> /\ candidate.finishReason = reason
  OBVIOUS
<1> HIDE DEF candidate
<1>5. answer.error = FALSE /\ answer.candidates = <<candidate>> /\ Head(answer.candidates) = candidate
  BY DEF candidate
<1>6. VertexSays(<<>>) = [text |-> <<>>, calls |-> <<>>]
  BY FlattenOfEmpty DEF VertexSays, TextOf
<1>7. Said = s
  <2>1. Said = [says |-> VertexSays(Head(answer.candidates).parts),
                cut |-> Head(answer.candidates).finishReason = "MAX_TOKENS"]
    BY <1>1 DEF Said
  <2>2. QED
    BY <1>3, <1>4, <1>5, <1>6, <2>1
<1>8. V!ExtractText(candidate) = <<>> /\ V!ExtractToolCalls(candidate) = <<>>
  BY <1>4, SameFlattenSeq, FlattenOfEmpty DEF V!ExtractText, V!ExtractToolCalls
<1>9. TranslateResponse = <<choice>>
  <2>1. TranslateResponse = V!TranslateCandidates(answer)
    BY <1>1, <1>5 DEF TranslateResponse, V!TranslateResponse
  <2>2. [V!ChatMessage("assistant", V!StringContent(<<>>)) EXCEPT !.calls = <<>>] = m
    BY AnswerMessageIs
  <2>3. DOMAIN answer.candidates = 1 .. 1 /\ answer.candidates[1] = candidate
    BY <1>5
  <2> HIDE DEF m
  <2>4. V!TranslateCandidates(answer) =
          [i \in 1 .. 1 |->
            [finish_reason |-> f,
             message |-> [V!ChatMessage("assistant", V!StringContent(<<>>)) EXCEPT !.calls = <<>>]]]
    BY <1>4, <1>8, <2>3 DEF V!TranslateCandidates, f
  <2>5. V!TranslateCandidates(answer) = [i \in 1 .. 1 |-> choice]
    BY <2>2, <2>4
  <2> HIDE DEF choice
  <2>6. [i \in 1 .. 1 |-> choice] = <<choice>>
    OBVIOUS
  <2>7. QED
    BY <2>1, <2>5, <2>6
<1>10. choice.finish_reason = f /\ choice.message = m
  OBVIOUS
<1> HIDE DEF choice, m, s
<1>11. IsGot(choice, <<>>, FALSE, n)
  BY <1>1, <1>2, <1>3, <1>7, <1>10 DEF IsGot
<1>12. QED
  BY <1>9, <1>11 DEF Got

-----------------------------------------------------------------------------
(* Every answer.                                                           *)

Failed == [error |-> TRUE, filtered |-> FALSE, choices |-> <<>>]

\* The provider may answer with these blocks.
Allowed(blocks, cut) ==
  /\ \A k \in 1 .. Len(blocks) : IsText(blocks[k]) \/ blocks[k] \in Callable
  /\ blocks # <<>> /\ WireLimit > NoLimit => Tokens(Len(blocks)) <= WireLimit
  /\ MustCall /\ blocks # <<>> => Calling(blocks) \/ cut

AnswerInv ==
  stage = "answered" =>
    \/ answer = Failed
    \/ provider = "vertex" /\ answer = [error |-> FALSE, candidates |-> <<>>]
    \/ provider = "vertex" /\ \E reason \in {"SAFETY", "MALFORMED_FUNCTION_CALL"} :
         answer = [error |-> FALSE, candidates |-> <<[parts |-> <<>>, finishReason |-> reason]>>]
    \/ provider \in Compatible
         /\ answer = CompatibleAnswer(ChatMessage("assistant", <<>>), "content_filter")
    \/ \E blocks \in Seq(Strings), cut \in BOOLEAN :
         Allowed(blocks, cut) /\ answer = AnswerOf(blocks, cut)

\* An error, and an answer without a candidate, are no choice.
LEMMA NothingGot ==
  ASSUME provider \in Providers,
         \/ answer = Failed
         \/ provider = "vertex" /\ answer = [error |-> FALSE, candidates |-> <<>>]
  PROVE  TranslateResponse = <<>>
<1>1. "anthropic" \notin Compatible /\ "vertex" \notin Compatible
  BY ConversationAssumption
<1>2. CASE answer = Failed
  <2>1. answer.error = TRUE /\ answer.choices = <<>>
    BY <1>2 DEF Failed
  <2>2. A!TranslateResponse(answer) = <<>> /\ V!TranslateResponse(answer) = <<>>
    BY <2>1 DEF A!TranslateResponse, V!TranslateResponse
  <2>3. O!TranslateResponse(provider, answer).choices = <<>>
    <3>1. CASE provider = "azure"
      <4>1. O!TranslateResponse(provider, answer).choices
              = [i \in DOMAIN answer.choices |-> [answer.choices[i] EXCEPT !.filtered = FALSE]]
        BY <3>1 DEF O!TranslateResponse, O!AzureTranslateResponse
      <4>2. QED
        BY <2>1, <4>1
    <3>2. CASE provider # "azure"
      BY <2>1, <3>2 DEF O!TranslateResponse
    <3>3. QED
      BY <3>1, <3>2
  <2>4. QED
    BY <1>1, <2>2, <2>3 DEF TranslateResponse, Providers
<1>3. CASE provider = "vertex" /\ answer = [error |-> FALSE, candidates |-> <<>>]
  <2>1. answer.error = FALSE /\ answer.candidates = <<>>
    BY <1>3
  <2>2. V!TranslateResponse(answer) = <<>>
    BY <2>1 DEF V!TranslateResponse, V!TranslateCandidates
  <2>3. QED
    BY <1>1, <1>3, <2>2 DEF TranslateResponse
<1>4. QED
  BY <1>2, <1>3

\* What the client gets of an answer it gets something of.
LEMMA AnswerIsGot ==
  ASSUME AnswerInv, stage = "answered", provider \in Providers, TranslateResponse # <<>>,
         NEW n \in Nat, Turn = n
  PROVE  \E blocks \in Seq(Strings), cut \in BOOLEAN : Got(blocks, cut, n) /\ Allowed(blocks, cut)
<1>1. ASSUME Got(<<>>, FALSE, n)
      PROVE  \E blocks \in Seq(Strings), cut \in BOOLEAN : Got(blocks, cut, n) /\ Allowed(blocks, cut)
  <2>1. <<>> \in Seq(Strings) /\ FALSE \in BOOLEAN /\ Len(<<>>) = 0
    OBVIOUS
  <2>3. Allowed(<<>>, FALSE)
    BY <2>1 DEF Allowed
  <2>4. QED
    BY <1>1, <2>1, <2>3
<1>2. CASE \/ answer = Failed
           \/ provider = "vertex" /\ answer = [error |-> FALSE, candidates |-> <<>>]
  BY <1>2, NothingGot
<1>3. CASE provider = "vertex" /\ \E reason \in {"SAFETY", "MALFORMED_FUNCTION_CALL"} :
             answer = [error |-> FALSE, candidates |-> <<[parts |-> <<>>, finishReason |-> reason]>>]
  BY <1>1, <1>3, VertexStopped
<1>4. CASE provider \in Compatible
             /\ answer = CompatibleAnswer(ChatMessage("assistant", <<>>), "content_filter")
  BY <1>1, <1>4, CompatibleStopped
<1>5. CASE \E blocks \in Seq(Strings), cut \in BOOLEAN :
             Allowed(blocks, cut) /\ answer = AnswerOf(blocks, cut)
  <2>1. PICK blocks \in Seq(Strings), cut \in BOOLEAN : Allowed(blocks, cut) /\ answer = AnswerOf(blocks, cut)
    BY <1>5
  <2>2. Got(blocks, cut, n)
    BY <2>1, AnthropicGot, VertexGot, CompatibleGot DEF Providers
  <2>3. QED
    BY <2>1, <2>2
<1>6. QED
  BY <1>2, <1>3, <1>4, <1>5 DEF AnswerInv

-----------------------------------------------------------------------------
(* What the provider has been told.                                        *)

\* The fields of the client's settings.
LEMMA SettingsFields ==
  ASSUME settings \in Settings
  PROVE  /\ settings.tool_choice.mode \in ChoiceModes
         /\ settings.tool_choice.mode = "function" => settings.tool_choice.name # NoName
         /\ settings.limits.max_completion_tokens \in Int
         /\ settings.limits.max_tokens \in Int
BY DEF Settings

\* The functions a provider may call are among those the client lets it call.
LEMMA CallableIs ==
  ASSUME settings \in Settings, provider \in Providers, wire = TranslateRequest(provider)
  PROVE  /\ Callable \subseteq Offered
         /\ settings.tool_choice.mode = "function" => Callable \subseteq {settings.tool_choice.name}
         /\ settings.tool_choice.mode = "none" /\ provider # "anthropic" => Callable = {}
         /\ settings.tool_choice.mode \in {"required", "function"} /\ Offered # {} => MustCall
<1> DEFINE choice == settings.tool_choice
<1>1. /\ choice.mode \in {"absent", "auto", "none", "required", "function"}
      /\ choice.mode = "function" => choice.name # NoName
  BY SettingsFields DEF ChoiceModes
<1>2. "anthropic" \notin Compatible /\ "vertex" \notin Compatible
  BY ConversationAssumption
<1>3. CASE provider = "anthropic"
  <2> DEFINE tools == A!TranslateToolDefinitions(settings.tools)
             c == A!TranslateToolChoice(choice)
  <2>1. tools = Offered
    BY DEF A!TranslateToolDefinitions, Offered, A!NoName, NoName
  <2>2. wire.tools = tools /\ wire.tool_choice = IF tools = {} THEN Choice("absent", NoName) ELSE c
    <3>1. A!Choice("absent", A!NoName) = Choice("absent", NoName)
      BY DEF A!Choice, Choice, A!NoName, NoName
    <3>2. wire = A!TranslateRequest(history, settings)
      BY <1>2, <1>3 DEF TranslateRequest
    <3> HIDE DEF c
    <3>3. /\ A!TranslateRequest(history, settings).tools = tools
          /\ A!TranslateRequest(history, settings).tool_choice
               = IF tools = {} THEN A!Choice("absent", A!NoName) ELSE c
      BY DEF A!TranslateRequest, c
    <3>4. QED
      BY <3>1, <3>2, <3>3
  <2>3. /\ choice.mode = "required" => c = Choice("any", NoName)
        /\ choice.mode = "function" => c = Choice("tool", choice.name)
        /\ choice.mode = "auto" => c = Choice("auto", NoName)
        /\ choice.mode \in {"absent", "none"} => c = Choice("absent", NoName)
    BY DEF A!TranslateToolChoice, A!Choice, Choice, A!NoName, NoName
  <2>4. WireTools = tools /\ WireChoice = IF tools = {} THEN Choice("absent", NoName) ELSE c
    BY <1>2, <1>3, <2>2 DEF WireTools, WireChoice
  <2> HIDE DEF tools, c, choice
  <2>5. \A x, y : Choice(x, y).mode = x /\ Choice(x, y).name = y
    BY DEF Choice
  <2>6. Callable \subseteq tools
    BY <2>4 DEF Callable
  <2>7. CASE tools = {}
    BY <1>3, <2>1, <2>6, <2>7 DEF choice
  <2>8. CASE tools # {}
    <3>1. WireChoice = c
      BY <2>4, <2>8
    <3>2. choice.mode = "function" => Callable \subseteq {choice.name}
      <4>1. ASSUME choice.mode = "function"
            PROVE  Callable \subseteq {choice.name}
        <5>1. WireChoice.mode = "tool" /\ WireChoice.name = choice.name /\ choice.name # NoName
          BY <1>1, <2>3, <2>5, <3>1, <4>1
        <5>2. QED
          BY <5>1 DEF Callable
      <4>2. QED
        BY <4>1
    <3>3. choice.mode \in {"required", "function"} => MustCall
      BY <2>3, <2>5, <3>1 DEF MustCall
    <3>4. QED
      BY <1>3, <2>1, <2>6, <3>2, <3>3 DEF choice
  <2>9. QED
    BY <2>7, <2>8
<1>4. CASE provider = "vertex"
  <2> DEFINE tools == V!TranslateTools(settings.tools)
             c == V!TranslateToolChoice(choice)
  <2>1. tools \subseteq Offered
    BY DEF V!TranslateTools, Offered, V!NoName, NoName
  <2>2. wire.tools = tools /\ wire.toolConfig = c
    BY <1>2, <1>4 DEF TranslateRequest, V!TranslateRequest
  <2>3. /\ choice.mode = "required" => c = Choice("ANY", NoName)
        /\ choice.mode = "none" => c = Choice("NONE", NoName)
        /\ choice.mode = "function" /\ choice.name # NoName => c = Choice("ANY", choice.name)
    BY DEF V!TranslateToolChoice, V!Choice, Choice, V!NoName, NoName
  <2>4. WireTools = tools /\ WireChoice = c
    BY <1>2, <1>4, <2>2 DEF WireTools, WireChoice
  <2> HIDE DEF tools, c, choice
  <2>5. \A x, y : Choice(x, y).mode = x /\ Choice(x, y).name = y
    BY DEF Choice
  <2>6. Callable \subseteq tools
    BY <2>4 DEF Callable
  <2>7. choice.mode = "function" => Callable \subseteq {choice.name}
    <3>1. ASSUME choice.mode = "function"
          PROVE  Callable \subseteq {choice.name}
      <4>1. WireChoice.mode = "ANY" /\ WireChoice.name = choice.name /\ choice.name # NoName
        BY <1>1, <2>3, <2>4, <2>5, <3>1
      <4>2. QED
        BY <4>1 DEF Callable
    <3>2. QED
      BY <3>1
  <2>8. choice.mode = "none" => Callable = {}
    <3>1. ASSUME choice.mode = "none"
          PROVE  Callable = {}
      <4>1. WireChoice.mode = "NONE"
        BY <2>3, <2>4, <2>5, <3>1
      <4>2. QED
        BY <4>1 DEF Callable
    <3>2. QED
      BY <3>1
  <2>9. choice.mode \in {"required", "function"} => MustCall
    BY <1>1, <2>3, <2>4, <2>5 DEF MustCall
  <2>10. QED
    BY <2>1, <2>6, <2>7, <2>8, <2>9 DEF choice
<1>5. CASE provider \in Compatible
  <2>1. wire.settings = settings
    BY <1>2, <1>5 DEF TranslateRequest, O!TranslateRequest
  <2>2. WireTools = Offered /\ WireChoice = choice
    BY <1>2, <1>5, <2>1 DEF WireTools, WireChoice, Offered
  <2> HIDE DEF choice
  <2>3. Callable \subseteq Offered
    BY <2>2 DEF Callable
  <2>4. choice.mode = "function" => Callable \subseteq {choice.name}
    BY <1>1, <2>2 DEF Callable
  <2>5. choice.mode = "none" => Callable = {}
    BY <2>2 DEF Callable
  <2>6. choice.mode \in {"required", "function"} => MustCall
    BY <2>2 DEF MustCall
  <2>7. QED
    BY <2>3, <2>4, <2>5, <2>6 DEF choice
<1>6. QED
  BY <1>3, <1>4, <1>5 DEF Providers

\* The limit a provider is told is no more than the client's, and none only if the client
\* has none.
LEMMA LimitIs ==
  ASSUME settings \in Settings, provider \in Providers, wire = TranslateRequest(provider),
         ClientLimit # NoLimit
  PROVE  ClientLimit \in Int /\ WireLimit \in Int /\ WireLimit > NoLimit /\ WireLimit <= ClientLimit
<1> DEFINE x == settings.limits.max_completion_tokens
           y == settings.limits.max_tokens
<1>1. x \in Int /\ y \in Int
  BY SettingsFields
<1>2. "anthropic" \notin Compatible /\ "vertex" \notin Compatible
  BY ConversationAssumption
<1>3. ClientLimit = IF x >= 2 THEN x ELSE IF y >= 2 THEN y ELSE 0
  BY DEF ClientLimit, Tokens, NoLimit
<1>4. provider = "anthropic" => WireLimit = 2 * A!ResolveMaxTokens(settings.limits)
  BY <1>2 DEF WireLimit, TranslateRequest, A!TranslateRequest, Tokens
<1>5. provider = "vertex" => WireLimit = 2 * V!LimitOf(settings.limits)
  BY <1>2 DEF WireLimit, TranslateRequest, V!TranslateRequest, V!BuildGenerationConfig, Tokens
<1>6. provider \in Compatible => WireLimit = ClientLimit
  BY <1>2 DEF WireLimit
<1> DEFINE l == IF x \div 2 > 0 THEN x \div 2 ELSE IF y \div 2 > 0 THEN y \div 2 ELSE 0
<1>7. A!LimitOf(settings.limits) = l /\ V!LimitOf(settings.limits) = l
  BY DEF A!LimitOf, V!LimitOf, A!GetInt, V!GetInt, A!NoLimit, V!NoLimit
<1>8. A!ResolveMaxTokens(settings.limits) = IF l = 0 THEN 4096 ELSE l
  BY <1>7 DEF A!ResolveMaxTokens, A!DefaultMaxTokens, A!NoLimit
<1> HIDE DEF x, y
<1>9. \A z \in Int : z \div 2 \in Int /\ (z \div 2 > 0 <=> z >= 2) /\ 2 * (z \div 2) <= z
  OBVIOUS
<1>10. ClientLimit \in Int /\ ClientLimit > 0
  BY <1>1, <1>3 DEF NoLimit
<1>11. l \in Int /\ l > 0 /\ 2 * l <= ClientLimit
  BY <1>1, <1>3, <1>9, <1>10
<1> HIDE DEF l
<1>12. provider # "anthropic" \/ WireLimit = 2 * l
  BY <1>4, <1>8, <1>11
<1>13. provider # "vertex" \/ WireLimit = 2 * l
  BY <1>5, <1>7
<1>14. QED
  BY <1>6, <1>10, <1>11, <1>12, <1>13 DEF Providers, NoLimit

-----------------------------------------------------------------------------
(* The invariant.                                                          *)

TurnsOver(D) == [says : [text : Seq(D), calls : Seq(SaidCalls(D))], cut : BOOLEAN]

TypeInv ==
  /\ opening \in Seq(MessagesOver(Data(0))) /\ opening # <<>>
  /\ settings \in Settings
  /\ stage \in {"client", "upstream", "answered", "refused"}
  /\ requests \in 0 .. MaxRequests
  /\ provider \in Providers \cup {"none"}
  /\ finish \in FinishReasons \cup {"none"}
  /\ turns \in Seq(TurnsOver(Data(Len(turns))))
  /\ Len(turns) <= requests
  /\ stage \in {"upstream", "answered"} => Len(turns) < requests
  /\ history \in Seq(MessagesOver(Data(Len(turns))))

\* What is added to a history: what the client says, answers whose calls have ids, and the
\* results of calls.
Added(m) ==
  /\ m.role \in {"user", "assistant", "tool"}
  /\ m.role = "tool" => m.tool_call_id # NoId
  /\ \A k \in 1 .. Len(m.calls) : m.calls[k].id # NoId

HistoryInv ==
  /\ Len(opening) <= Len(history)
  /\ \A i \in 1 .. Len(opening) : history[i] = opening[i]
  /\ \A i \in 1 .. Len(history) : i > Len(opening) => Added(history[i])
  /\ turns # <<>> =>
       \E i \in 1 .. Len(history) : i > Len(opening) /\ history[i].role = "assistant"

WireInv ==
  stage \in {"upstream", "answered"} =>
    /\ provider \in Providers
    /\ Accepts(provider, history)
    /\ wire = TranslateRequest(provider)
    /\ Pending = {}
    /\ turns # <<>> => history[Len(history)].role # "assistant"

Inv == TypeInv /\ HistoryInv /\ WireInv /\ AnswerInv

-----------------------------------------------------------------------------
(* Types.                                                                  *)

\* The data of a longer conversation.
LEMMA DataGrows ==
  ASSUME NEW n \in Nat
  PROVE  Data(n) \subseteq Data(n + 1) /\ {0} \X Nat \subseteq Data(n)
BY DEF Data

\* What is over some data is over more.
LEMMA OverGrows ==
  ASSUME NEW D, NEW E, D \subseteq E
  PROVE  /\ MessagesOver(D) \subseteq MessagesOver(E)
         /\ Seq(MessagesOver(D)) \subseteq Seq(MessagesOver(E))
         /\ TurnsOver(D) \subseteq TurnsOver(E)
         /\ Seq(TurnsOver(D)) \subseteq Seq(TurnsOver(E))
<1>1. Seq(D) \subseteq Seq(E)
  BY SeqMonotonic
<1>2. ArgumentsOver(D) \subseteq ArgumentsOver(E)
  BY <1>1 DEF ArgumentsOver
<1>3. Contents(D) \subseteq Contents(E)
  <2> DEFINE U == [type : PartTypes, data : D]
             W == [type : PartTypes, data : E]
  <2>1. U \subseteq W
    OBVIOUS
  <2> HIDE DEF U, W
  <2>2. Seq(U) \subseteq Seq(W)
    BY <2>1, SeqMonotonic
  <2>3. QED
    BY <2>2 DEF Contents, U, W
<1>4. CallsOver(D) \subseteq CallsOver(E)
  <2> DEFINE U == [id : Seq(Nat), name : Strings, arguments : ArgumentsOver(D)]
             W == [id : Seq(Nat), name : Strings, arguments : ArgumentsOver(E)]
  <2>1. U \subseteq W
    BY <1>2
  <2> HIDE DEF U, W
  <2>2. Seq(U) \subseteq Seq(W)
    BY <2>1, SeqMonotonic
  <2>3. QED
    BY <2>2 DEF CallsOver, U, W
<1>5. Seq(SaidCalls(D)) \subseteq Seq(SaidCalls(E))
  <2> DEFINE U == SaidCalls(D)
             W == SaidCalls(E)
  <2>1. U \subseteq W
    BY <1>2 DEF SaidCalls
  <2> HIDE DEF U, W
  <2>2. Seq(U) \subseteq Seq(W)
    BY <2>1, SeqMonotonic
  <2>3. QED
    BY <2>2 DEF U, W
<1>6. MessagesOver(D) \subseteq MessagesOver(E)
  BY <1>3, <1>4 DEF MessagesOver
<1>7. TurnsOver(D) \subseteq TurnsOver(E)
  <2> DEFINE U == [text : Seq(D), calls : Seq(SaidCalls(D))]
             W == [text : Seq(E), calls : Seq(SaidCalls(E))]
  <2>1. U \subseteq W
    BY <1>1, <1>5
  <2> HIDE DEF U, W
  <2>2. [says : U, cut : BOOLEAN] \subseteq [says : W, cut : BOOLEAN]
    BY <2>1
  <2>3. QED
    BY <2>2 DEF TurnsOver, U, W
<1>8. QED
  BY <1>6, <1>7, SeqMonotonic

\* The client opens a conversation with messages of its own data.
LEMMA OpeningTyped ==
  ASSUME NEW o \in Openings
  PROVE  o \in Seq(MessagesOver(Data(0))) /\ o # <<>>
<1> DEFINE Z == {0} \X Nat
           U == ChatMessages(Z)
<1>1. U \subseteq MessagesOver(Z)
  <2>1. STRING \subseteq Strings
    BY DEF Strings
  <2>2. Contents(Z) = Seq([type : PartTypes, data : Z])
    BY DEF Contents
  <2> DEFINE X == [id : Seq(Nat), name : STRING,
                   arguments : [kind : {"object", "absent", "malformed"}, data : Seq(Z)]]
             Y == [id : Seq(Nat), name : Strings, arguments : ArgumentsOver(Z)]
  <2>3. X \subseteq Y
    BY <2>1 DEF ArgumentsOver
  <2> HIDE DEF X, Y, Z
  <2>4. Seq(X) \subseteq Seq(Y)
    BY <2>3, SeqMonotonic
  <2>5. CallsOver(Z) = Seq(Y)
    BY DEF CallsOver, Y
  <2>6. ChatMessages(Z) = [role : STRING, content : Contents(Z), calls : Seq(X),
                           tool_call_id : Seq(Nat), name : STRING]
    BY <2>2 DEF ChatMessages, X
  <2> DEFINE C == Contents(Z)
             P == Seq(X)
             Q == Seq(Y)
             I == Seq(Nat)
             S == STRING
  <2>7. /\ U = [role : S, content : C, calls : P, tool_call_id : I, name : S]
        /\ MessagesOver(Z) = [role : Strings, content : C, calls : Q, tool_call_id : I, name : Strings]
    BY <2>5, <2>6 DEF MessagesOver
  <2>8. P \subseteq Q /\ S \subseteq Strings
    BY <2>1, <2>4
  <2> HIDE DEF C, P, Q, I, S, U
  <2>9. [role : S, content : C, calls : P, tool_call_id : I, name : S]
          \subseteq [role : Strings, content : C, calls : Q, tool_call_id : I, name : Strings]
    BY ONLY <2>8
  <2>10. QED
    BY <2>7, <2>9
<1>2. Z \subseteq Data(0)
  BY DataGrows
<1> HIDE DEF U, Z
<1>3. U \subseteq MessagesOver(Data(0))
  BY <1>1, <1>2, OverGrows
<1>4. o \in Seq(U) /\ o # <<>>
  BY DEF Openings, U, Z
<1>5. QED
  BY <1>3, <1>4, SeqMonotonic

\* A bounded sequence is a sequence.
LEMMA BlocksAreSequences ==
  ASSUME NEW S, NEW n \in Nat, NEW b \in BoundedSeq(S, n)
  PROVE  b \in Seq(S)
BY DEF BoundedSeq, SeqOf

\* A record of what a provider has said.
LEMMA SaidShape ==
  ASSUME provider \in Providers, NEW D, NEW m, NEW blocks, NEW cut \in BOOLEAN, NEW n,
         IsReceived(m, Said, blocks, cut, n)
  PROVE  Said \in TurnsOver(Data(n))
<1>1. /\ Said.cut = cut /\ Said.says.text \in Seq(Data(n))
      /\ Said.says.calls \in Seq(SaidCalls(Data(n)))
  BY DEF IsReceived
<1>2. \E x, y, z : Said = [says |-> [text |-> x, calls |-> y], cut |-> z]
  <2>1. "anthropic" \notin Compatible /\ "vertex" \notin Compatible
    BY ConversationAssumption
  <2>2. CASE provider = "anthropic"
    BY <2>1, <2>2 DEF Said, AnthropicSays
  <2>3. CASE provider = "vertex"
    BY <2>1, <2>3 DEF Said, VertexSays
  <2>4. CASE provider \in Compatible
    BY <2>1, <2>4 DEF Said, ChatSays
  <2>5. QED
    BY <2>2, <2>3, <2>4 DEF Providers
<1>3. PICK x, y, z : Said = [says |-> [text |-> x, calls |-> y], cut |-> z]
  BY <1>2
<1>4. x \in Seq(Data(n)) /\ y \in Seq(SaidCalls(Data(n))) /\ z \in BOOLEAN
  BY <1>1, <1>3
<1>5. QED
  BY <1>3, <1>4 DEF TurnsOver

-----------------------------------------------------------------------------
(* What the client adds to the history.                                    *)

LastAnswer(h) ==
  LET I == {i \in 1 .. Len(h) : h[i].role = "assistant"}
  IN  IF I # {} THEN Max(I) ELSE 0

\* LastAnswer is the last place of an assistant's message, or zero.
LEMMA LastAnswerIs ==
  ASSUME NEW h, Len(h) \in Nat
  PROVE  /\ LastAnswer(h) \in 0 .. Len(h)
         /\ LastAnswer(h) # 0 => h[LastAnswer(h)].role = "assistant"
         /\ \A i \in 1 .. Len(h) : h[i].role = "assistant" => i <= LastAnswer(h)
<1> DEFINE I == {i \in 1 .. Len(h) : h[i].role = "assistant"}
<1>1. I \in SUBSET (1 .. Len(h))
  OBVIOUS
<1>2. LastAnswer(h) = IF I # {} THEN Max(I) ELSE 0
  BY DEF LastAnswer
<1>3. \A i \in 1 .. Len(h) : i \in I <=> h[i].role = "assistant"
  OBVIOUS
<1> HIDE DEF I
<1>4. CASE I # {}
  <2>1. Max(I) \in I /\ \A y \in I : y <= Max(I)
    BY <1>1, <1>4, LargestElement
  <2> DEFINE x == LastAnswer(h)
             l == Len(h)
  <2>2. x = Max(I)
    BY <1>2, <1>4
  <2> HIDE DEF x
  <2>3. x \in I /\ \A y \in I : y <= x
    BY <2>1, <2>2
  <2>4. x \in 1 .. l /\ l \in Nat
    BY <1>1, <2>3
  <2>5. QED
    BY <1>3, <2>3, <2>4 DEF x
<1>5. CASE I = {}
  BY <1>2, <1>3, <1>5
<1>6. QED
  BY <1>4, <1>5

\* What is pending, in terms of the last answer.
LEMMA PendingIs ==
  Pending = IF LastAnswer(history) = 0 \/ turns = <<>> THEN {}
            ELSE {k \in DOMAIN history[LastAnswer(history)].calls :
                    \A i \in LastAnswer(history) + 1 .. Len(history) :
                      history[i].tool_call_id # history[LastAnswer(history)].calls[k].id}
BY DEF Pending, SelectLastInSeq, LastAnswer

ResultMessage(t, k, id) ==
  [role |-> "tool", content |-> StringContent(<<<<t, k>>>>), calls |-> <<>>,
   tool_call_id |-> id, name |-> NoName]

Question(t) ==
  [role |-> "user", content |-> StringContent(<<<<0, t>>>>), calls |-> <<>>,
   tool_call_id |-> NoId, name |-> NoName]

\* The results of calls, and questions.
LEMMA RunToolIs ==
  ASSUME RunTool
  PROVE  \E k \in Pending :
           history' = Append(history,
                        ResultMessage(Len(turns), k, history[LastAnswer(history)].calls[k].id))
<1>1. PICK k \in Pending :
        history' = Append(history,
                     [ChatMessage("tool", StringContent(<<<<Len(turns), k>>>>)) EXCEPT
                        !.tool_call_id = history[LastAnswer(history)].calls[k].id])
  BY DEF RunTool, SelectLastInSeq, LastAnswer
<1> DEFINE c == StringContent(<<<<Len(turns), k>>>>)
           id == history[LastAnswer(history)].calls[k].id
<1> HIDE DEF c, id
<1>2. [ChatMessage("tool", c) EXCEPT !.tool_call_id = id]
        = [role |-> "tool", content |-> c, calls |-> <<>>, tool_call_id |-> id, name |-> NoName]
  BY DEF ChatMessage
<1>3. QED
  BY <1>1, <1>2 DEF c, id, ResultMessage

\* A question of the client.
LEMMA AskIs ==
  ASSUME Ask
  PROVE  history' = Append(history, Question(Turn))
BY DEF Ask, Question, ChatMessage

\* Results and questions are messages that may be added.
LEMMA ClientMessagesTyped ==
  ASSUME NEW n \in Nat, NEW k \in Nat, NEW id \in Seq(Nat), NEW t \in 0 .. n
  PROVE  /\ ResultMessage(t, k, id) \in MessagesOver(Data(n))
         /\ Question(k) \in MessagesOver(Data(n))
         /\ id # NoId => Added(ResultMessage(t, k, id))
         /\ Added(Question(k))
<1> DEFINE D == Data(n)
           x == <<t, k>>
           y == <<0, k>>
<1>1. x \in D /\ y \in D
  BY DEF Data
<1> HIDE DEF D, x, y
<1>2. <<x>> \in Seq(D) /\ <<y>> \in Seq(D)
  BY <1>1
<1>3. StringContent(<<x>>) \in Contents(D) /\ StringContent(<<y>>) \in Contents(D)
  BY <1>2, StringContentType
<1>4. <<>> \in CallsOver(D) /\ NoId \in Seq(Nat) /\ NoName \in Strings
      /\ "tool" \in Strings /\ "user" \in Strings
  BY DEF CallsOver, NoId, Strings
<1>5. ResultMessage(t, k, id) \in MessagesOver(D) /\ Question(k) \in MessagesOver(D)
  <2> DEFINE cx == StringContent(<<x>>)
             cy == StringContent(<<y>>)
             C == Contents(D)
             K == CallsOver(D)
             I == Seq(Nat)
  <2>1. cx \in C /\ cy \in C /\ <<>> \in K /\ NoId \in I /\ id \in I
    BY <1>3, <1>4
  <2>2. /\ ResultMessage(t, k, id) = [role |-> "tool", content |-> cx, calls |-> <<>>,
                                      tool_call_id |-> id, name |-> NoName]
        /\ Question(k) = [role |-> "user", content |-> cy, calls |-> <<>>,
                          tool_call_id |-> NoId, name |-> NoName]
        /\ MessagesOver(D) = [role : Strings, content : C, calls : K, tool_call_id : I, name : Strings]
    BY DEF ResultMessage, Question, MessagesOver, x, y
  <2> HIDE DEF cx, cy, C, K, I
  <2>3. QED
    BY ONLY <1>4, <2>1, <2>2
<1>6. Added(Question(k)) /\ (id # NoId => Added(ResultMessage(t, k, id)))
  BY DEF Added, Question, ResultMessage
<1>7. QED
  BY <1>5, <1>6 DEF D

\* The last answer is one the client has got.
LEMMA LastAnswerAdded ==
  ASSUME TypeInv, HistoryInv, turns # <<>>
  PROVE  /\ LastAnswer(history) \in 1 .. Len(history)
         /\ LastAnswer(history) > Len(opening)
         /\ Added(history[LastAnswer(history)])
         /\ history[LastAnswer(history)].role = "assistant"
<1>1. Len(history) \in Nat /\ Len(opening) \in Nat
  BY LenProperties DEF TypeInv
<1>2. PICK i \in 1 .. Len(history) : i > Len(opening) /\ history[i].role = "assistant"
  BY DEF HistoryInv
<1>3. /\ LastAnswer(history) \in 0 .. Len(history) /\ i <= LastAnswer(history)
      /\ LastAnswer(history) # 0 => history[LastAnswer(history)].role = "assistant"
  BY <1>1, <1>2, LastAnswerIs
<1>4. LastAnswer(history) \in 1 .. Len(history) /\ LastAnswer(history) > Len(opening)
  BY <1>1, <1>2, <1>3
<1>5. QED
  BY <1>1, <1>3, <1>4 DEF HistoryInv

\* A history that grows.
LEMMA HistoryGrows ==
  ASSUME TypeInv, HistoryInv, NEW m \in MessagesOver(Data(Len(turns'))), Added(m),
         turns' \in Seq(TurnsOver(Data(Len(turns')))),
         history \in Seq(MessagesOver(Data(Len(turns')))),
         history' = Append(history, m), opening' = opening,
         turns' = turns \/ m.role = "assistant"
  PROVE  HistoryInv' /\ history' \in Seq(MessagesOver(Data(Len(turns'))))
<1> DEFINE n == Len(history)
           E == MessagesOver(Data(Len(turns')))
<1>1. n \in Nat /\ Len(opening) \in Nat
  BY LenProperties DEF TypeInv
<1>2. m \in E /\ history \in Seq(E)
  OBVIOUS
<1> HIDE DEF E
<1>3. history' \in Seq(E) /\ Len(history') = n + 1 /\ history'[n + 1] = m
      /\ \A i \in 1 .. n : history'[i] = history[i]
  BY <1>2, AppendProperties
<1>4. Len(opening') <= Len(history') /\ \A i \in 1 .. Len(opening') : history'[i] = opening'[i]
  BY <1>1, <1>3 DEF HistoryInv
<1>5. ASSUME NEW i \in 1 .. Len(history'), i > Len(opening')
      PROVE  Added(history'[i])
  <2>1. i \in 1 .. n \/ i = n + 1
    BY <1>1, <1>3
  <2>2. QED
    BY <1>3, <1>5, <2>1 DEF HistoryInv
<1>6. ASSUME turns' # <<>>
      PROVE  \E i \in 1 .. Len(history') : i > Len(opening') /\ history'[i].role = "assistant"
  <2>1. CASE turns' = turns
    <3>1. PICK i \in 1 .. n : i > Len(opening) /\ history[i].role = "assistant"
      BY <1>6, <2>1 DEF HistoryInv
    <3>2. i \in 1 .. Len(history') /\ i > Len(opening') /\ history'[i].role = "assistant"
      BY <1>1, <1>3, <3>1
    <3>3. QED
      BY <3>2
  <2>2. CASE m.role = "assistant"
    <3>1. n + 1 \in 1 .. Len(history') /\ n + 1 > Len(opening') /\ history'[n + 1].role = "assistant"
      BY <1>1, <1>3, <2>2 DEF HistoryInv
    <3>2. QED
      BY <3>1
  <2>3. QED
    BY <2>1, <2>2
<1>7. HistoryInv'
  BY <1>4, <1>5, <1>6 DEF HistoryInv
<1>8. QED
  BY <1>3, <1>7 DEF E

-----------------------------------------------------------------------------
(* What is on its way stays as it is while a provider answers.             *)

\* Each provider's translator decides on its own what it accepts.
LEMMA AcceptsIs ==
  ASSUME NEW p, NEW h
  PROVE  /\ p = "anthropic" => Accepts(p, h) = A!Accepts(h)
         /\ p = "vertex" => Accepts(p, h) = V!Accepts(h)
         /\ p \in Compatible => Accepts(p, h) = TRUE
<1>1. "anthropic" \notin Compatible /\ "vertex" \notin Compatible
  BY ConversationAssumption
<1>2. QED
  BY <1>1 DEF Accepts, O!Accepts

\* The request is a function of the history and the settings.
LEMMA RequestStays ==
  ASSUME NEW p, history' = history, settings' = settings
  PROVE  TranslateRequest(p)' = TranslateRequest(p)
BY DEF TranslateRequest

\* What is pending is one of the history and the turns.
LEMMA PendingStays ==
  ASSUME history' = history, turns' = turns
  PROVE  Pending' = Pending
BY DEF Pending, SelectLastInSeq

\* While the history stays the request on its way is still its translation.
LEMMA WireStays ==
  ASSUME WireInv, stage = "upstream",
         history' = history, settings' = settings, provider' = provider, wire' = wire,
         turns' = turns
  PROVE  WireInv'
<1>1. /\ provider \in Providers /\ Accepts(provider, history) /\ wire = TranslateRequest(provider)
      /\ Pending = {} /\ (turns # <<>> => history[Len(history)].role # "assistant")
  BY DEF WireInv
<1>2. TranslateRequest(provider)' = TranslateRequest(provider)
  BY DEF TranslateRequest
<1>3. Pending' = {}
  BY <1>1, PendingStays
<1>4. Accepts(provider', history')
  BY <1>1
<1>5. QED
  BY <1>1, <1>2, <1>3, <1>4 DEF WireInv

\* While no turn is added the data of an answer stay.
LEMMA BlocksStay ==
  ASSUME turns' = turns, provider' = provider
  PROVE  \A blocks, k :
           /\ DatumOf(blocks, k)' = DatumOf(blocks, k)
           /\ ArgumentsOf(blocks, k)' = ArgumentsOf(blocks, k)
<1>1. Turn' = Turn
  BY DEF Turn
<1>2. \A blocks, k : DatumOf(blocks, k)' = DatumOf(blocks, k)
  BY <1>1 DEF DatumOf
<1>3. QED
  BY <1>2 DEF ArgumentsOf

\* So does the answer.
LEMMA AnswerStays ==
  ASSUME turns' = turns, provider' = provider, NEW blocks, NEW cut
  PROVE  AnswerOf(blocks, cut)' = AnswerOf(blocks, cut)
<1>1. \A k : /\ DatumOf(blocks, k)' = DatumOf(blocks, k)
             /\ ArgumentsOf(blocks, k)' = ArgumentsOf(blocks, k)
  BY BlocksStay
<1>2. \A k : /\ AnthropicBlock(blocks, k)' = AnthropicBlock(blocks, k)
             /\ VertexPart(blocks, k)' = VertexPart(blocks, k)
  BY <1>1 DEF AnthropicBlock, VertexPart
<1>3. CompatibleMessage(blocks, cut)' = CompatibleMessage(blocks, cut)
  BY <1>1 DEF CompatibleMessage
<1>4. \A m, f : CompatibleAnswer(m, f)' = CompatibleAnswer(m, f)
  BY DEF CompatibleAnswer
<1>5. QED
  BY <1>2, <1>3, <1>4 DEF AnswerOf

\* What a provider may answer depends on the request only.
LEMMA AllowedStays ==
  ASSUME wire' = wire, settings' = settings, provider' = provider, NEW blocks, NEW cut,
         Allowed(blocks, cut)
  PROVE  Allowed(blocks, cut)'
<1>1. WireTools' = WireTools /\ WireChoice' = WireChoice
  BY DEF WireTools, WireChoice
<1>2. ClientLimit' = ClientLimit
  BY DEF ClientLimit
<1>3. WireLimit' = WireLimit
  BY <1>2 DEF WireLimit
<1>4. Callable' = Callable /\ MustCall' = MustCall
  BY <1>1 DEF Callable, MustCall
<1>5. QED
  BY <1>3, <1>4 DEF Allowed

-----------------------------------------------------------------------------
(* The invariant holds.                                                    *)

\* The invariant holds when the client starts.
LEMMA InitInv == Init => Inv
<1> SUFFICES ASSUME Init
             PROVE  Inv
  OBVIOUS
<1>1. PICK client \in Clients : opening = client.opening /\ settings = client.settings
  BY DEF Init
<1>2. opening \in Openings /\ settings \in Settings /\ MaxRequests \in Nat
  BY <1>1, ConversationAssumption
<1>3. /\ history = opening /\ requests = 0 /\ stage = "client" /\ provider = "none"
      /\ finish = "none" /\ turns = <<>> /\ Len(turns) = 0
  BY DEF Init
<1>4. opening \in Seq(MessagesOver(Data(0))) /\ opening # <<>>
  BY <1>2, OpeningTyped
<1>5. turns \in Seq(TurnsOver(Data(0)))
  BY <1>3
<1>6. TypeInv
  BY <1>2, <1>3, <1>4, <1>5 DEF TypeInv
<1>7. Len(opening) \in Nat
  BY <1>4, LenProperties
<1>8. HistoryInv
  BY <1>3, <1>7 DEF HistoryInv
<1>9. WireInv /\ AnswerInv
  BY <1>3 DEF WireInv, AnswerInv
<1>10. QED
  BY <1>6, <1>8, <1>9 DEF Inv

\* What the client says keeps the types.
LEMMA SaidByClient ==
  ASSUME Inv, NEW m \in MessagesOver(Data(Len(turns))), Added(m), history' = Append(history, m),
         stage = "client", UNCHANGED <<opening, settings, requests, stage, wire, answer, turns>>,
         provider' = "none", finish' = "none"
  PROVE  Inv'
<1>1. TypeInv /\ HistoryInv
  BY DEF Inv
<1>2. opening' = opening /\ turns' = turns /\ stage' = stage /\ settings' = settings /\ requests' = requests
  OBVIOUS
<1>3. /\ m \in MessagesOver(Data(Len(turns'))) /\ turns' \in Seq(TurnsOver(Data(Len(turns'))))
      /\ history \in Seq(MessagesOver(Data(Len(turns'))))
  BY <1>1, <1>2 DEF TypeInv
<1>4. HistoryInv' /\ history' \in Seq(MessagesOver(Data(Len(turns'))))
  BY <1>1, <1>2, <1>3, HistoryGrows
<1>5. TypeInv'
  BY <1>1, <1>2, <1>4 DEF TypeInv
<1>6. WireInv' /\ AnswerInv'
  BY <1>2 DEF WireInv, AnswerInv
<1>7. QED
  BY <1>4, <1>5, <1>6 DEF Inv

\* It holds when a tool ends.
LEMMA RunToolInv ==
  ASSUME Inv, RunTool
  PROVE  Inv'
<1> DEFINE l == LastAnswer(history)
           n == Len(turns)
<1>1. TypeInv /\ HistoryInv
  BY DEF Inv
<1>2. PICK k \in Pending : history' = Append(history, ResultMessage(n, k, history[l].calls[k].id))
  BY RunToolIs
<1>3. turns # <<>> /\ k \in DOMAIN history[l].calls
  BY <1>2, PendingIs
<1>4. l \in 1 .. Len(history) /\ Added(history[l])
  BY <1>1, <1>3, LastAnswerAdded
<1>5. n \in Nat /\ history \in Seq(MessagesOver(Data(n)))
  BY <1>1, LenProperties DEF TypeInv
<1> HIDE DEF l, n
<1>6. history[l] \in MessagesOver(Data(n))
  BY <1>4, <1>5, ElementOfSeq
<1>7. history[l].calls \in CallsOver(Data(n))
  BY <1>6, MessageFields
<1>8. k \in Nat /\ k \in 1 .. Len(history[l].calls) /\ history[l].calls[k].id \in Seq(Nat)
  BY <1>3, <1>7, CallFields
<1>9. history[l].calls[k].id # NoId
  BY <1>4, <1>8 DEF Added
<1> DEFINE m == ResultMessage(n, k, history[l].calls[k].id)
<1>10. m \in MessagesOver(Data(n)) /\ Added(m)
  <2>1. n \in 0 .. n
    BY <1>5
  <2>2. QED
    BY <1>5, <1>8, <1>9, <2>1, ClientMessagesTyped
<1>11. history' = Append(history, m)
  BY <1>2
<1> HIDE DEF m
<1>12. /\ stage = "client" /\ UNCHANGED <<opening, settings, requests, stage, wire, answer, turns>>
       /\ provider' = "none" /\ finish' = "none"
  BY DEF RunTool, GoOn
<1>13. m \in MessagesOver(Data(Len(turns)))
  BY <1>10 DEF n
<1>14. QED
  BY <1>10, <1>11, <1>12, <1>13, SaidByClient

\* It holds after another question.
LEMMA AskInv ==
  ASSUME Inv, Ask
  PROVE  Inv'
<1> DEFINE m == Question(Turn)
           n == Len(turns)
<1>1. n \in Nat
  BY LenProperties DEF Inv, TypeInv
<1>2. history' = Append(history, m)
  BY AskIs
<1>3. m \in MessagesOver(Data(n)) /\ Added(m)
  <2>1. <<>> \in Seq(Nat) /\ 0 \in 0 .. n /\ Turn \in Nat
    BY <1>1 DEF Turn
  <2> HIDE DEF n
  <2>2. QED
    BY <1>1, <2>1, ClientMessagesTyped
<1> HIDE DEF m
<1>4. /\ stage = "client" /\ UNCHANGED <<opening, settings, requests, stage, wire, answer, turns>>
      /\ provider' = "none" /\ finish' = "none"
  BY DEF Ask, GoOn
<1>5. QED
  BY <1>2, <1>3, <1>4, SaidByClient DEF n

\* It holds when a request is sent.
LEMMA SendInv ==
  ASSUME Inv, NEW p \in Providers, Send(p)
  PROVE  Inv'
<1>1. TypeInv /\ HistoryInv
  BY DEF Inv
<1>2. /\ opening' = opening /\ settings' = settings /\ history' = history
      /\ finish' = finish /\ turns' = turns
      /\ requests' = requests + 1 /\ stage' = "upstream" /\ provider' = p
      /\ wire' = TranslateRequest(p) /\ Accepts(p, history) /\ Pending = {}
      /\ requests < MaxRequests /\ (turns # <<>> => history[Len(history)].role # "assistant")
  BY DEF Send, ReadyToSend, Last
<1>3. Len(turns) \in Nat /\ MaxRequests \in Nat
  BY <1>1, LenProperties, ConversationAssumption DEF TypeInv
<1>4. requests' \in 0 .. MaxRequests /\ Len(turns') <= requests' /\ Len(turns') < requests'
  BY <1>1, <1>2, <1>3 DEF TypeInv
<1>5. TypeInv'
  BY <1>1, <1>2, <1>4 DEF TypeInv
<1>6. HistoryInv'
  BY <1>1, <1>2 DEF HistoryInv
<1>7. Pending' = {}
  BY <1>2, PendingStays
<1>8. TranslateRequest(p)' = TranslateRequest(p)
  BY <1>2, RequestStays
<1>9. wire' = TranslateRequest(provider)'
  BY <1>2, <1>8 DEF TranslateRequest
<1>10. WireInv'
  BY <1>2, <1>7, <1>9 DEF WireInv
<1>11. AnswerInv'
  BY <1>2 DEF AnswerInv
<1>12. QED
  BY <1>5, <1>6, <1>10, <1>11 DEF Inv

\* It holds when one is refused.
LEMMA RefuseInv ==
  ASSUME Inv, NEW p \in Providers, Refuse(p)
  PROVE  Inv'
<1>1. TypeInv /\ HistoryInv
  BY DEF Inv
<1>2. /\ opening' = opening /\ settings' = settings /\ history' = history
      /\ finish' = finish /\ turns' = turns
      /\ requests' = requests + 1 /\ stage' = "refused" /\ provider' = p
      /\ requests < MaxRequests
  BY DEF Refuse, ReadyToSend
<1>3. Len(turns) \in Nat /\ MaxRequests \in Nat
  BY <1>1, LenProperties, ConversationAssumption DEF TypeInv
<1>4. requests' \in 0 .. MaxRequests /\ Len(turns') <= requests'
  BY <1>1, <1>2, <1>3 DEF TypeInv
<1>5. TypeInv' /\ HistoryInv'
  BY <1>1, <1>2, <1>4 DEF TypeInv, HistoryInv
<1>6. WireInv' /\ AnswerInv'
  BY <1>2 DEF WireInv, AnswerInv
<1>7. QED
  BY <1>5, <1>6 DEF Inv

\* A provider answers.
LEMMA ReplyStays ==
  ASSUME Inv, stage = "upstream", stage' = "answered",
         UNCHANGED <<opening, settings, history, requests, provider, wire, finish, turns>>
  PROVE  TypeInv' /\ HistoryInv' /\ WireInv'
<1>1. TypeInv /\ HistoryInv /\ WireInv
  BY DEF Inv
<1>2. TypeInv' /\ HistoryInv'
  BY <1>1 DEF TypeInv, HistoryInv
<1>3. WireInv'
  BY <1>1, WireStays
<1>4. QED
  BY <1>2, <1>3

\* It holds after an error.
LEMMA ReplyFailsInv ==
  ASSUME Inv, ReplyFails
  PROVE  Inv'
<1>1. TypeInv' /\ HistoryInv' /\ WireInv'
  BY ReplyStays DEF ReplyFails
<1>2. AnswerInv'
  BY DEF ReplyFails, AnswerInv, Failed
<1>3. QED
  BY <1>1, <1>2 DEF Inv

\* It holds after an answer that was stopped.
LEMMA ReplyStoppedInv ==
  ASSUME Inv, ReplyStopped
  PROVE  Inv'
<1>1. TypeInv' /\ HistoryInv' /\ WireInv'
  BY ReplyStays DEF ReplyStopped
<1>2. provider \in Providers /\ provider # "anthropic" /\ provider' = provider
  BY DEF Inv, WireInv, ReplyStopped
<1>3. CASE provider = "vertex"
  <2>1. \/ answer' = [error |-> FALSE, candidates |-> <<>>]
        \/ \E reason \in {"SAFETY", "MALFORMED_FUNCTION_CALL"} :
             answer' = [error |-> FALSE,
                        candidates |-> <<[parts |-> <<>>, finishReason |-> reason]>>]
    BY <1>3 DEF ReplyStopped
  <2>2. AnswerInv'
    BY <1>2, <1>3, <2>1 DEF AnswerInv
  <2>3. QED
    BY <1>1, <2>2 DEF Inv
<1>4. CASE provider # "vertex"
  <2>1. answer' = CompatibleAnswer(ChatMessage("assistant", <<>>), "content_filter")
        /\ provider \in Compatible
    BY <1>2, <1>4 DEF ReplyStopped, Providers
  <2>2. \A m, f : CompatibleAnswer(m, f)' = CompatibleAnswer(m, f)
    BY <1>2 DEF CompatibleAnswer
  <2>3. AnswerInv'
    BY <1>2, <2>1, <2>2 DEF AnswerInv
  <2>4. QED
    BY <1>1, <2>3 DEF Inv
<1>5. QED
  BY <1>3, <1>4

\* It holds after an answer of blocks.
LEMMA ReplyInv ==
  ASSUME Inv, Reply
  PROVE  Inv'
<1>1. TypeInv' /\ HistoryInv' /\ WireInv'
  BY ReplyStays DEF Reply
<1>2. PICK blocks \in BoundedSeq({NoName} \cup Callable, MaxBlocks), cut \in BOOLEAN :
        /\ blocks # <<>>
        /\ WireLimit > NoLimit => Tokens(Len(blocks)) <= WireLimit
        /\ MustCall => Calling(blocks) \/ cut
        /\ answer' = AnswerOf(blocks, cut)
  BY DEF Reply
<1>3. blocks \in Seq({NoName} \cup Callable)
  BY <1>2, BlocksAreSequences, ConversationAssumption
<1>4. Callable \subseteq Offered /\ Offered \subseteq Strings
  <2>1. settings \in Settings /\ provider \in Providers /\ wire = TranslateRequest(provider)
    BY DEF Inv, TypeInv, WireInv, Reply
  <2>2. Callable \subseteq Offered
    BY <2>1, CallableIs
  <2>3. \A tool \in settings.tools : tool.function \in STRING
    BY <2>1 DEF Settings
  <2>4. QED
    BY <2>2, <2>3 DEF Offered, Strings
<1>5. blocks \in Seq(Strings)
  <2> DEFINE S == {NoName} \cup Callable
  <2>1. S \subseteq Strings
    BY <1>4 DEF Strings
  <2>2. blocks \in Seq(S)
    BY <1>3
  <2> HIDE DEF S
  <2>3. QED
    BY <2>1, <2>2, SeqMonotonic
<1>6. \A k \in 1 .. Len(blocks) : IsText(blocks[k]) \/ blocks[k] \in Callable
  BY <1>3, ElementOfSeq DEF IsText
<1>7. Allowed(blocks, cut)
  BY <1>2, <1>6 DEF Allowed
<1>8. wire' = wire /\ settings' = settings /\ provider' = provider /\ turns' = turns
  BY DEF Reply
<1>9. Allowed(blocks, cut)' /\ AnswerOf(blocks, cut)' = AnswerOf(blocks, cut)
  BY <1>7, <1>8, AllowedStays, AnswerStays
<1>10. AnswerInv'
  BY <1>2, <1>5, <1>9 DEF AnswerInv
<1>11. QED
  BY <1>1, <1>10 DEF Inv

-----------------------------------------------------------------------------
(* The client gets an answer.                                              *)

\* What the client has got.
Receives(m, blocks, cut, n) ==
  /\ IsReceived(m, Said, blocks, cut, n)
  /\ Allowed(blocks, cut)
  /\ history' = Append(history, m)
  /\ turns' = Append(turns, Said)
  /\ finish' \in FinishReasons
  /\ finish' = "length" <=> cut
  /\ provider = "anthropic" => (finish' = "tool_calls" <=> m.calls # <<>>)
  /\ provider' = provider

\* When there is a choice the client gets an answer the provider was allowed to give.
LEMMA ReceiveGets ==
  ASSUME Inv, Receive, TranslateResponse # <<>>
  PROVE  /\ Turn \in Nat
         /\ \E m : \E blocks \in Seq(Strings), cut \in BOOLEAN : Receives(m, blocks, cut, Turn)
<1>1. Turn \in Nat
  BY LenProperties DEF Turn, Inv, TypeInv
<1>2. stage = "answered" /\ provider \in Providers /\ AnswerInv
  BY DEF Inv, WireInv, Receive
<1> DEFINE n == Turn
<1>3. n \in Nat /\ Turn = n
  BY <1>1
<1> HIDE DEF n
<1>4. PICK blocks \in Seq(Strings), cut \in BOOLEAN : Got(blocks, cut, n) /\ Allowed(blocks, cut)
  BY <1>2, <1>3, AnswerIsGot
<1>5. PICK choice : TranslateResponse = <<choice>> /\ IsGot(choice, blocks, cut, n)
  BY <1>4 DEF Got
<1>6. Head(TranslateResponse) = choice
  BY <1>5
<1>7. /\ history' = Append(history, choice.message) /\ turns' = Append(turns, Said)
      /\ finish' = choice.finish_reason /\ provider' = provider
  BY <1>6 DEF Receive
<1>8. Receives(choice.message, blocks, cut, n)
  BY <1>4, <1>5, <1>7 DEF IsGot, Receives
<1>9. QED
  BY <1>1, <1>3, <1>8

\* The invariant holds when the client gets an answer, or none.
LEMMA ReceiveInv ==
  ASSUME Inv, Receive
  PROVE  Inv'
<1> DEFINE l == Len(turns)
<1>1. TypeInv /\ HistoryInv /\ WireInv
  BY DEF Inv
<1>2. /\ stage = "answered" /\ stage' = "client" /\ opening' = opening /\ settings' = settings
      /\ requests' = requests /\ provider \in Providers
  BY <1>1 DEF Receive, WireInv
<1>3. WireInv' /\ AnswerInv'
  BY <1>2 DEF WireInv, AnswerInv
<1>4. l \in Nat
  BY <1>1, LenProperties DEF TypeInv
<1>5. CASE TranslateResponse = <<>>
  <2>1. history' = history /\ finish' = finish /\ turns' = turns /\ provider' = "none"
    BY <1>5 DEF Receive
  <2>2. TypeInv' /\ HistoryInv'
    BY <1>1, <1>2, <2>1 DEF TypeInv, HistoryInv
  <2>3. QED
    BY <1>3, <2>2 DEF Inv
<1>6. CASE TranslateResponse # <<>>
  <2>0. PICK m : \E blocks \in Seq(Strings), cut \in BOOLEAN : Receives(m, blocks, cut, Turn)
    BY <1>6, ReceiveGets
  <2>1. PICK blocks \in Seq(Strings), cut \in BOOLEAN : Receives(m, blocks, cut, Turn)
    BY <2>0
  <2>2. /\ IsReceived(m, Said, blocks, cut, Turn)
        /\ history' = Append(history, m) /\ turns' = Append(turns, Said)
        /\ finish' \in FinishReasons /\ provider' = provider
    BY <2>1 DEF Receives
  <2>3. Turn = l + 1
    BY DEF Turn
  <2> DEFINE U == TurnsOver(Data(l + 1))
             n == l + 1
  <2>4. Said \in U
    BY <1>2, <2>2, <2>3, SaidShape
  <2>5. turns \in Seq(U) /\ history \in Seq(MessagesOver(Data(n)))
    <3>1. turns \in Seq(TurnsOver(Data(l))) /\ history \in Seq(MessagesOver(Data(l)))
      BY <1>1 DEF TypeInv
    <3>2. Data(l) \subseteq Data(n)
      BY <1>4, DataGrows
    <3> HIDE DEF l, n
    <3>3. QED
      BY <3>1, <3>2, OverGrows DEF n
  <2>10. n \in Nat
    BY <1>4
  <2> HIDE DEF U, l, n
  <2>6. turns' \in Seq(U) /\ Len(turns') = n
    <3>1. Append(turns, Said) \in Seq(U) /\ Len(Append(turns, Said)) = Len(turns) + 1
      BY <2>4, <2>5, AppendProperties
    <3>2. QED
      BY <2>2, <3>1 DEF n, l
  <2>7. m \in MessagesOver(Data(n)) /\ m.role = "assistant" /\ Added(m)
    <3>1. /\ m \in MessagesOver(Data(n)) /\ m.role = "assistant"
          /\ \A k \in 1 .. Len(m.calls) : m.calls[k].id \in {<<n, k>>, <<0, k>>}
      BY <2>2, <2>3 DEF IsReceived, n
    <3>2. \A k : <<n, k>> # NoId /\ <<0, k>> # NoId
      BY DEF NoId
    <3>3. QED
      BY <3>1, <3>2 DEF Added
  <2>8. HistoryInv' /\ history' \in Seq(MessagesOver(Data(Len(turns'))))
    <3>1. /\ m \in MessagesOver(Data(Len(turns')))
          /\ turns' \in Seq(TurnsOver(Data(Len(turns'))))
          /\ history \in Seq(MessagesOver(Data(Len(turns'))))
      BY <2>5, <2>6, <2>7 DEF U, n
    <3>2. QED
      BY <1>1, <1>2, <2>2, <2>7, <3>1, HistoryGrows
  <2>9. Len(turns') <= requests'
    <3>1. l < requests /\ requests \in Nat
      <4>1. l < requests /\ requests \in 0 .. MaxRequests /\ MaxRequests \in Nat
        BY <1>1, <1>2, ConversationAssumption DEF TypeInv, l
      <4>2. QED
        BY <4>1
    <3>2. QED
      BY <1>2, <1>4, <2>6, <3>1 DEF n
  <2>11. TypeInv'
    BY <1>1, <1>2, <2>2, <2>6, <2>8, <2>9 DEF TypeInv, U, n
  <2>12. QED
    BY <1>3, <2>8, <2>11 DEF Inv
<1>7. QED
  BY <1>5, <1>6

\* It holds when nothing happens.
LEMMA StutterInv ==
  ASSUME Inv, UNCHANGED vars
  PROVE  Inv'
<1>1. /\ TypeInv' = TypeInv /\ HistoryInv' = HistoryInv
      /\ (stage = "upstream" => (WireInv => WireInv'))
  BY WireStays DEF vars, TypeInv, HistoryInv
<1>2. WireInv'
  <2>1. CASE stage \in {"upstream", "answered"}
    <3>1. /\ provider \in Providers /\ Accepts(provider, history) /\ wire = TranslateRequest(provider)
          /\ Pending = {} /\ (turns # <<>> => history[Len(history)].role # "assistant")
      BY <2>1 DEF Inv, WireInv
    <3>2. TranslateRequest(provider)' = TranslateRequest(provider)
      BY DEF TranslateRequest, vars
    <3>3. Pending' = {}
      BY <3>1, PendingStays DEF vars
    <3>4. Accepts(provider', history')
      BY <3>1 DEF vars
    <3>5. QED
      BY <3>1, <3>2, <3>3, <3>4 DEF WireInv, vars
  <2>2. CASE stage \notin {"upstream", "answered"}
    BY <2>2 DEF WireInv, vars
  <2>3. QED
    BY <2>1, <2>2
<1>3. AnswerInv'
  <2>1. /\ stage' = stage /\ answer' = answer /\ provider' = provider /\ turns' = turns
        /\ wire' = wire /\ settings' = settings
    BY DEF vars
  <2>2. \A m, f : CompatibleAnswer(m, f)' = CompatibleAnswer(m, f)
    BY <2>1 DEF CompatibleAnswer
  <2>3. \A blocks, cut : AnswerOf(blocks, cut)' = AnswerOf(blocks, cut)
                         /\ (Allowed(blocks, cut) => Allowed(blocks, cut)')
    BY <2>1, AnswerStays, AllowedStays
  <2>4. AnswerInv
    BY DEF Inv
  <2>5. QED
    BY <2>1, <2>2, <2>3, <2>4 DEF AnswerInv, Failed
<1>4. QED
  BY <1>1, <1>2, <1>3 DEF Inv

\* It is inductive.
LEMMA InvStep == Inv /\ [Next]_vars => Inv'
BY RunToolInv, AskInv, SendInv, RefuseInv, ReplyFailsInv, ReplyStoppedInv, ReplyInv, ReceiveInv,
   StutterInv DEF Next

\* The inductive invariant: the history is the client's opening with the answers it got and
\* what it added itself, every request on its way is the translation of that history, and
\* every answer on its way is one the provider was allowed to give.
THEOREM ConversationInv == Spec => []Inv
BY InitInv, InvStep, PTL DEF Spec

-----------------------------------------------------------------------------
(* What the client has just got.                                           *)

JustInv == ToolChoiceIsObeyed /\ FinishReasonIsTrue /\ TokenLimitIsKept

\* Nothing has just been answered when the client has gone on.
LEMMA NotJust ==
  ASSUME Inv, [Next]_vars, ~Receive, ~UNCHANGED vars
  PROVE  ~JustAnswered'
<1>1. CASE RunTool \/ Ask
  <2>1. TypeInv /\ HistoryInv
    BY DEF Inv
  <2>2. history \in Seq(MessagesOver(Data(Len(turns))))
    BY <2>1 DEF TypeInv
  <2>3. \E m : history' = Append(history, m) /\ m.role # "assistant"
    <3>1. CASE RunTool
      <4>1. PICK k \in Pending :
              history' = Append(history,
                           ResultMessage(Len(turns), k, history[LastAnswer(history)].calls[k].id))
        BY <3>1, RunToolIs
      <4>2. \A t, k_1, id : ResultMessage(t, k_1, id).role = "tool"
        BY DEF ResultMessage
      <4>3. QED
        BY <4>1, <4>2
    <3>2. CASE Ask
      <4>1. history' = Append(history, Question(Turn))
        BY <3>2, AskIs
      <4>2. Question(Turn).role = "user"
        BY DEF Question
      <4>3. QED
        BY <4>1, <4>2
    <3>3. QED
      BY <1>1, <3>1, <3>2
  <2>4. PICK m : history' = Append(history, m) /\ m.role # "assistant"
    BY <2>3
  <2>5. history'[Len(history')] = m
    <3> DEFINE E == MessagesOver(Data(Len(turns))) \cup {m}
    <3>1. history \in Seq(E) /\ m \in E
      <4>1. MessagesOver(Data(Len(turns))) \subseteq E
        OBVIOUS
      <4> HIDE DEF E
      <4>2. Seq(MessagesOver(Data(Len(turns)))) \subseteq Seq(E)
        BY <4>1, SeqMonotonic
      <4>3. QED
        BY <2>2, <4>2 DEF E
    <3> HIDE DEF E
    <3>2. QED
      BY <2>4, <3>1, AppendProperties
  <2>6. QED
    BY <2>4, <2>5 DEF JustAnswered, Last
<1>2. CASE \E p \in Providers : Send(p) \/ Refuse(p)
  BY <1>2 DEF Send, Refuse, JustAnswered
<1>3. CASE ReplyFails \/ ReplyStopped \/ Reply
  BY <1>3 DEF ReplyFails, ReplyStopped, Reply, JustAnswered
<1>4. QED
  BY <1>1, <1>2, <1>3 DEF Next

\* The names of the calls an answer has are those of its blocks, and there are some if there
\* are calls and it was not cut off.
LEMMA CallsNamed ==
  ASSUME NEW blocks \in Seq(Strings), NEW cut \in BOOLEAN, NEW n \in Nat, NEW m, NEW said,
         IsReceived(m, said, blocks, cut, n), Allowed(blocks, cut)
  PROVE  /\ \A call \in Range(m.calls) : call.name \in Callable
         /\ (/\ MustCall /\ ~cut
             /\ said.says.text # <<>> \/ said.says.calls # <<>>) =>
              \E call : call \in Range(m.calls)
<1> DEFINE s == said.says.calls
           P == CallPlaces(blocks)
           D == Data(n)
           t == said.says.text
<1>1. /\ m \in MessagesOver(D) /\ s \in Seq(SaidCalls(D)) /\ t \in Seq(D)
      /\ SameCalls(m.calls, s) \/ (cut /\ m.calls = <<>>)
      /\ CallsOfBlocks(s, blocks)
      /\ Len(t) + Len(s) <= Len(blocks)
  BY DEF IsReceived
<1>2. /\ Len(P) \in Nat /\ \A k \in 1 .. Len(P) : P[k] \in 1 .. Len(blocks) /\ ~IsText(blocks[P[k]])
      /\ Calling(blocks) <=> P # <<>>
  BY CallPlacesAre
<1>3. \A k \in 1 .. Len(blocks) : IsText(blocks[k]) \/ blocks[k] \in Callable
  BY DEF Allowed
<1>4. m.calls \in CallsOver(D)
  BY <1>1, MessageFields
<1>5. DOMAIN m.calls = 1 .. Len(m.calls) /\ Len(m.calls) \in Nat
  BY <1>4, CallFields
<1>6. Len(s) = Len(P) /\ \A k \in 1 .. Len(s) : s[k].name = blocks[P[k]]
  BY <1>1 DEF CallsOfBlocks
<1>7. Len(s) \in Nat /\ Len(t) \in Nat /\ Len(blocks) \in Nat
      /\ (s # <<>> => Len(s) > 0) /\ (t # <<>> => Len(t) > 0) /\ (blocks = <<>> => Len(blocks) = 0)
  BY <1>1, LenProperties, EmptySeq
<1>20. P \in Seq(Nat)
  <2>1. CallPlaces(blocks) \in Seq(CallsAmong(blocks) \cap (1 .. Len(blocks)))
    BY <1>7, PlacesAppend DEF CallPlaces
  <2>2. CallsAmong(blocks) \cap (1 .. Len(blocks)) \subseteq Nat
    OBVIOUS
  <2>3. QED
    BY <2>1, <2>2, SeqMonotonic
<1> HIDE DEF s, P, D, t
<1>8. ASSUME NEW k \in 1 .. Len(m.calls)
      PROVE  m.calls[k].name \in Callable
  <2>1. SameCalls(m.calls, s)
    <3>1. ~(m.calls = <<>>)
      BY <1>8
    <3>2. QED
      BY <1>1, <3>1
  <2>2. m.calls[k].name = s[k].name /\ k \in 1 .. Len(s)
    BY <2>1 DEF SameCalls
  <2>3. s[k].name = blocks[P[k]] /\ P[k] \in 1 .. Len(blocks) /\ ~IsText(blocks[P[k]])
    BY <1>2, <1>6, <2>2
  <2>4. QED
    BY <1>3, <2>2, <2>3
<1>9. \A call \in Range(m.calls) : call.name \in Callable
  BY <1>5, <1>8 DEF Range
<1>10. ASSUME MustCall, ~cut, t # <<>> \/ s # <<>>
       PROVE  \E call : call \in Range(m.calls)
  <2>1. Len(blocks) > 0
    BY <1>1, <1>7, <1>10
  <2>2. blocks # <<>>
    BY <1>7, <2>1
  <2>3. Calling(blocks)
    BY <1>10, <2>2 DEF Allowed
  <2>4. P # <<>>
    BY <1>2, <2>3
  <2>5. Len(P) > 0
    BY <1>20, <2>4, EmptySeq, LenProperties
  <2>6. Len(m.calls) = Len(s)
    BY <1>1, <1>10 DEF SameCalls
  <2>7. 1 \in DOMAIN m.calls
    BY <1>2, <1>5, <1>6, <2>5, <2>6
  <2>8. m.calls[1] \in Range(m.calls)
    BY <2>7 DEF Range
  <2>9. QED
    BY <2>8
<1>11. QED
  BY <1>9, <1>10 DEF s, t

\* An answer just got is the last of the history and of the turns.
LEMMA LastReceived ==
  ASSUME Inv, NEW m, NEW blocks, NEW cut \in BOOLEAN, Receives(m, blocks, cut, Turn)
  PROVE  Last(history') = m /\ Last(turns') = Said
<1> DEFINE E == MessagesOver(Data(Len(turns))) \cup {m}
           U == TurnsOver(Data(Len(turns))) \cup {Said}
<1>1. history \in Seq(MessagesOver(Data(Len(turns)))) /\ turns \in Seq(TurnsOver(Data(Len(turns))))
  BY DEF Inv, TypeInv
<1>2. history' = Append(history, m) /\ turns' = Append(turns, Said)
  BY DEF Receives
<1>3. MessagesOver(Data(Len(turns))) \subseteq E /\ TurnsOver(Data(Len(turns))) \subseteq U
      /\ m \in E /\ Said \in U
  OBVIOUS
<1> HIDE DEF E, U
<1>4. history \in Seq(E) /\ turns \in Seq(U)
  BY <1>1, <1>3, SeqMonotonic
<1>5. /\ Append(history, m)[Len(Append(history, m))] = m
      /\ Append(turns, Said)[Len(Append(turns, Said))] = Said
  BY <1>3, <1>4, AppendProperties
<1>6. QED
  BY <1>2, <1>5 DEF Last

\* What the client has just got is as it asked for.
LEMMA JustReceived ==
  ASSUME Inv, Receive, TranslateResponse # <<>>
  PROVE  JustInv'
<1>0. PICK m : \E blocks \in Seq(Strings), cut \in BOOLEAN : Receives(m, blocks, cut, Turn)
  BY ReceiveGets
<1>1. PICK blocks \in Seq(Strings), cut \in BOOLEAN : Receives(m, blocks, cut, Turn)
  BY <1>0
<1> DEFINE n == Turn
<1>2. n \in Nat
  BY ReceiveGets
<1>3. Last(history') = m /\ Last(turns') = Said
  BY <1>1, LastReceived
<1> HIDE DEF n
<1>4. /\ IsReceived(m, Said, blocks, cut, n) /\ Allowed(blocks, cut) /\ provider' = provider
      /\ (finish' = "length" <=> cut)
      /\ (provider = "anthropic" => (finish' = "tool_calls" <=> m.calls # <<>>))
  BY <1>1 DEF Receives, n
<1>5. settings' = settings /\ settings \in Settings /\ provider \in Providers
      /\ wire = TranslateRequest(provider)
  BY DEF Receive, Inv, TypeInv, WireInv
<1>6. /\ Said.cut = cut /\ Said.says.text \in Seq(Data(n))
      /\ Said.says.calls \in Seq(SaidCalls(Data(n)))
      /\ Len(Said.says.text) + Len(Said.says.calls) <= Len(blocks)
  BY <1>4 DEF IsReceived
<1>7. /\ \A call \in Range(m.calls) : call.name \in Callable
      /\ (/\ MustCall /\ ~cut
          /\ Said.says.text # <<>> \/ Said.says.calls # <<>>) =>
           \E call : call \in Range(m.calls)
  BY <1>2, <1>4, CallsNamed
<1>8. /\ Callable \subseteq Offered
      /\ settings.tool_choice.mode = "function" => Callable \subseteq {settings.tool_choice.name}
      /\ settings.tool_choice.mode = "none" /\ provider # "anthropic" => Callable = {}
      /\ settings.tool_choice.mode \in {"required", "function"} /\ Offered # {} => MustCall
  BY <1>5, CallableIs
<1>9. Offered' = Offered
  BY <1>5 DEF Offered
<1>10. ToolChoiceIsObeyed'
  <2> DEFINE names == {call.name : call \in Range(m.calls)}
  <2>1. names \subseteq Callable
    BY <1>7
  <2>2. (\E call : call \in Range(m.calls)) => names # {}
    OBVIOUS
  <2> HIDE DEF names
  <2>3. /\ names \subseteq Offered
        /\ settings.tool_choice.mode = "function" => names \subseteq {settings.tool_choice.name}
        /\ settings.tool_choice.mode = "none" /\ provider # "anthropic" => names = {}
        /\ (/\ settings.tool_choice.mode \in {"required", "function"}
            /\ Offered # {}
            /\ Said.says.text # <<>> \/ Said.says.calls # <<>>
            /\ ~Said.cut) => names # {}
    BY <1>6, <1>7, <1>8, <2>1, <2>2
  <2>4. names = {call.name : call \in Range(Last(history').calls)}
    BY <1>3 DEF names
  <2>5. QED
    BY <1>3, <1>4, <1>5, <1>9, <2>3, <2>4 DEF ToolChoiceIsObeyed
<1>11. FinishReasonIsTrue'
  BY <1>3, <1>4, <1>6 DEF FinishReasonIsTrue
<1>12. TokenLimitIsKept'
  <2>1. ClientLimit' = ClientLimit
    BY <1>5 DEF ClientLimit
  <2>2. ASSUME ClientLimit # NoLimit
        PROVE  Tokens(Len(Said.says.text) + Len(Said.says.calls)) <= ClientLimit
    <3> DEFINE x == Len(Said.says.text)
               y == Len(Said.says.calls)
               z == Len(blocks)
    <3>1. x \in Nat /\ y \in Nat /\ z \in Nat /\ x + y <= z
      BY <1>6, LenProperties
    <3>2. ClientLimit \in Int /\ WireLimit \in Int /\ WireLimit > NoLimit /\ WireLimit <= ClientLimit
      BY <1>5, <2>2, LimitIs
    <3>3. blocks # <<>> => Tokens(z) <= WireLimit
      BY <1>4, <3>2 DEF Allowed
    <3>4. blocks = <<>> => z = 0
      OBVIOUS
    <3> HIDE DEF x, y, z
    <3>5. blocks # <<>> \/ z = 0
      BY <3>4
    <3>6. 2 * z <= WireLimit
      BY <3>2, <3>3, <3>5 DEF Tokens, NoLimit
    <3>7. 2 * (x + y) <= ClientLimit
      BY <3>1, <3>2, <3>6
    <3>8. QED
      BY <3>7 DEF Tokens, x, y
  <2>3. QED
    BY <1>3, <2>1, <2>2 DEF TokenLimitIsKept
<1>13. QED
  BY <1>10, <1>11, <1>12 DEF JustInv

\* An answer that is none leaves the last message what it was, none of an assistant.
LEMMA NothingReceivedIsNotJust ==
  ASSUME Inv, Receive, TranslateResponse = <<>>
  PROVE  ~JustAnswered'
<1>1. history' = history /\ turns' = turns
  BY DEF Receive
<1>2. turns # <<>> => history[Len(history)].role # "assistant"
  BY DEF Inv, WireInv, Receive
<1>3. QED
  BY <1>1, <1>2 DEF JustAnswered, Last

\* So it is after every step.
LEMMA JustStep == Inv /\ JustInv /\ [Next]_vars => JustInv'
<1> SUFFICES ASSUME Inv, JustInv, [Next]_vars
             PROVE  JustInv'
  OBVIOUS
<1>1. CASE Receive
  <2>1. CASE TranslateResponse # <<>>
    BY <1>1, <2>1, JustReceived
  <2>2. CASE TranslateResponse = <<>>
    <3>1. ~JustAnswered'
      BY <1>1, <2>2, NothingReceivedIsNotJust
    <3>2. QED
      BY <3>1 DEF JustInv, ToolChoiceIsObeyed, FinishReasonIsTrue, TokenLimitIsKept
  <2>3. QED
    BY <2>1, <2>2
<1>2. CASE UNCHANGED vars
  <2>1. JustAnswered' = JustAnswered /\ Offered' = Offered /\ ClientLimit' = ClientLimit
    BY <1>2 DEF vars, JustAnswered, Offered, ClientLimit
  <2>2. ToolChoiceIsObeyed'
    BY <1>2, <2>1 DEF vars, JustInv, ToolChoiceIsObeyed
  <2>3. FinishReasonIsTrue'
    BY <1>2, <2>1 DEF vars, JustInv, FinishReasonIsTrue
  <2>4. TokenLimitIsKept'
    BY <1>2, <2>1 DEF vars, JustInv, TokenLimitIsKept
  <2>5. QED
    BY <2>2, <2>3, <2>4 DEF JustInv
<1>3. CASE ~Receive /\ ~UNCHANGED vars
  <2>1. ~JustAnswered'
    BY <1>3, NotJust
  <2>2. QED
    BY <2>1 DEF JustInv, ToolChoiceIsObeyed, FinishReasonIsTrue, TokenLimitIsKept
<1>4. QED
  BY <1>1, <1>2, <1>3

\* At the start there is no answer.
LEMMA InitJust == Init => JustInv
BY DEF Init, JustInv, JustAnswered, ToolChoiceIsObeyed, FinishReasonIsTrue, TokenLimitIsKept

\* So it always is.
LEMMA JustAlways == Spec => []JustInv
BY ConversationInv, InitJust, JustStep, PTL DEF Spec

\* translateToolChoice of both translators: what the client's tool_choice allows and demands
\* of an answer holds of the answer it gets.
THEOREM ToolChoiceObeyed == Spec => []ToolChoiceIsObeyed
<1>1. JustInv => ToolChoiceIsObeyed
  BY DEF JustInv
<1>2. QED
  BY <1>1, JustAlways, PTL

\* mapFinishReason and mapStopReason: a finish_reason of "length" says exactly that the answer
\* was cut off, and Anthropic's "tool_calls" exactly that there are calls.
THEOREM FinishReasonTrue == Spec => []FinishReasonIsTrue
<1>1. JustInv => FinishReasonIsTrue
  BY DEF JustInv
<1>2. QED
  BY <1>1, JustAlways, PTL

\* resolveMaxTokens and buildGenerationConfig: whichever of its limits the client has set, no
\* provider is asked for, and so gives, a longer answer.
THEOREM TokenLimitKept == Spec => []TokenLimitIsKept
<1>1. JustInv => TokenLimitIsKept
  BY DEF JustInv
<1>2. QED
  BY <1>1, JustAlways, PTL

-----------------------------------------------------------------------------
(* What is added to a history is refused by no translator.                 *)

RefusedInv ==
  /\ \A p \in Providers : Accepts(p, opening) => Accepts(p, history)
  /\ stage = "refused" => provider \in Providers /\ ~Accepts(provider, history)

\* What is added to a history can be translated.
LEMMA AddedTranslatable ==
  ASSUME NEW m, Added(m)
  PROVE  A!Translatable(m) /\ V!Translatable(m)
BY DEF Added, A!Translatable, V!Translatable, A!NoId, NoId

\* A provider that accepts a history accepts it with one more such message.
LEMMA AcceptsAppend ==
  ASSUME NEW D, NEW h \in Seq(MessagesOver(D)), NEW m \in MessagesOver(D), Added(m),
         NEW p \in Providers, Accepts(p, h)
  PROVE  Accepts(p, Append(h, m))
<1> DEFINE E == MessagesOver(D)
           h1 == Append(h, m)
           n == Len(h)
<1>1. /\ h1 \in Seq(E) /\ Len(h1) = n + 1 /\ h1[n + 1] = m /\ n \in Nat
      /\ (\A i \in 1 .. n : h1[i] = h[i]) /\ DOMAIN h1 = 1 .. n + 1 /\ DOMAIN h = 1 .. n
  BY AppendProperties, LenProperties
<1>2. A!Translatable(m) /\ V!Translatable(m)
  BY AddedTranslatable
<1>3. \A i \in 1 .. n + 1 : i \in 1 .. n \/ i = n + 1
  BY <1>1
<1>4. CASE p = "anthropic"
  <2>1. A!Accepts(h)
    BY <1>4, AcceptsIs
  <2>2. \A i \in DOMAIN h1 : A!Translatable(h1[i])
    <3> HIDE DEF h1, n
    <3>1. QED
      BY <1>1, <1>2, <1>3, <2>1 DEF A!Accepts
  <2>3. A!Messages(h1) # <<>>
    <3> DEFINE s == A!Messages(h)
    <3>1. s \in Seq(AnthropicMessages(D)) /\ A!Messages(h1) = A!AppendMessage(s, m)
      BY MessagesTyped, MessagesAppend
    <3>2. m.role \in {"user", "assistant", "tool"}
      BY DEF Added
    <3>3. A!ToolResult(m) \in BlocksOver(D)
      BY ToolResultTyped
    <3>4. Len(AppendedResult(s, A!ToolResult(m))) >= 1
      BY <3>1, <3>3, AppendedResultIs
    <3>5. AppendedResult(s, A!ToolResult(m)) # <<>>
      BY <3>4
    <3>6. \A x : Append(s, x) # <<>>
      <4>1. TAKE x
      <4> DEFINE F == AnthropicMessages(D) \cup {x}
      <4>2. x \in F /\ AnthropicMessages(D) \subseteq F
        OBVIOUS
      <4> HIDE DEF F
      <4>3. s \in Seq(F)
        BY <3>1, <4>2, SeqMonotonic
      <4> HIDE DEF s
      <4>4. QED
        BY <4>2, <4>3, AppendProperties
    <3> HIDE DEF s, h1
    <3>7. QED
      BY <3>1, <3>2, <3>5, <3>6, AppendMessageIs
  <2>4. A!Accepts(h1)
    BY <2>2, <2>3 DEF A!Accepts
  <2>5. QED
    BY <1>4, <2>4, AcceptsIs
<1>5. CASE p = "vertex"
  <2>1. V!Accepts(h)
    BY <1>5, AcceptsIs
  <2>2. \A i \in DOMAIN h1 : V!Translatable(h1[i])
    <3> HIDE DEF h1, n
    <3>1. QED
      BY <1>1, <1>2, <1>3, <2>1 DEF V!Accepts
  <2>3. V!Contents(h1) # <<>>
    <3> DEFINE s == V!Contents(h)
               e == ContentAfter(h, m)
               C == ContentOf(h1)
    <3>1. V!Contents(h1) = s \o e /\ s \in Seq(C) /\ e \in Seq(C)
      BY ContentsAppend
    <3>2. s # <<>>
      BY <2>1 DEF V!Accepts
    <3> HIDE DEF s, e, C, h1
    <3>3. Len(s) > 0 /\ Len(s) \in Nat /\ Len(e) \in Nat /\ Len(s \o e) = Len(s) + Len(e)
      BY <3>1, <3>2, EmptySeq, ConcatProperties, LenProperties
    <3>4. Len(s \o e) > 0
      BY <3>3
    <3>5. s \o e # <<>>
      BY <3>4
    <3>6. QED
      BY <3>1, <3>5
  <2>4. V!Accepts(h1)
    BY <2>2, <2>3 DEF V!Accepts
  <2>5. QED
    BY <1>5, <2>4, AcceptsIs
<1>6. CASE p \in Compatible
  BY <1>6, AcceptsIs
<1>7. QED
  BY <1>4, <1>5, <1>6 DEF Providers

\* The history grows by a message at most.
LEMMA HistorySteps ==
  ASSUME Inv, [Next]_vars
  PROVE  /\ opening' = opening
         /\ \/ history' = history
            \/ \E D, m : history \in Seq(MessagesOver(D)) /\ m \in MessagesOver(D) /\ Added(m)
                         /\ history' = Append(history, m) /\ stage' = "client"
<1>1. opening' = opening
  BY DEF Next, RunTool, Ask, GoOn, Send, Refuse, ReplyFails, ReplyStopped, Reply, Receive, vars
<1> DEFINE l == Len(turns)
<1>2. Inv'
  BY InvStep
<1>3. /\ history \in Seq(MessagesOver(Data(l))) /\ l \in Nat
      /\ Len(history) \in Nat /\ Len(opening) \in Nat /\ Len(opening) <= Len(history)
  BY LenProperties DEF Inv, TypeInv, HistoryInv
<1>4. CASE RunTool \/ Ask \/ (Receive /\ TranslateResponse # <<>>)
  <2>1. \E m : history' = Append(history, m) /\ stage' = "client"
    <3>1. CASE RunTool
      BY <3>1, RunToolIs DEF RunTool, GoOn
    <3>2. CASE Ask
      BY <3>2, AskIs DEF Ask, GoOn
    <3>3. CASE Receive /\ TranslateResponse # <<>>
      BY <3>3 DEF Receive
    <3>4. QED
      BY <1>4, <3>1, <3>2, <3>3
  <2>2. PICK m : history' = Append(history, m) /\ stage' = "client"
    BY <2>1
  <2> DEFINE k == Len(turns')
             D == Data(l) \cup Data(k)
             E == MessagesOver(D) \cup {m}
             n == Len(history)
  <2>3. history' \in Seq(MessagesOver(Data(k))) /\ HistoryInv'
    BY <1>2 DEF Inv, TypeInv
  <2>4. /\ Seq(MessagesOver(Data(l))) \subseteq Seq(MessagesOver(D))
        /\ Seq(MessagesOver(Data(k))) \subseteq Seq(MessagesOver(D))
    <3>1. Data(l) \subseteq D /\ Data(k) \subseteq D
      OBVIOUS
    <3> HIDE DEF D, l, k
    <3>2. QED
      BY <3>1, OverGrows
  <2> HIDE DEF l, k, D
  <2>5. history \in Seq(MessagesOver(D)) /\ history' \in Seq(MessagesOver(D))
    BY <1>3, <2>3, <2>4
  <2>6. history'[n + 1] = m /\ Len(history') = n + 1
    <3>1. MessagesOver(D) \subseteq E /\ m \in E
      OBVIOUS
    <3> HIDE DEF E
    <3>2. history \in Seq(E)
      BY <2>5, <3>1, SeqMonotonic
    <3>3. QED
      BY <2>2, <3>1, <3>2, AppendProperties
  <2>7. m \in MessagesOver(D)
    <3>1. n + 1 \in 1 .. Len(history')
      BY <1>3, <2>6
    <3>2. QED
      BY <2>5, <2>6, <3>1, ElementOfSeq
  <2>8. Added(m)
    <3>1. n + 1 \in 1 .. Len(history') /\ n + 1 > Len(opening')
      BY <1>1, <1>3, <2>6
    <3>2. QED
      BY <2>3, <2>6, <3>1 DEF HistoryInv
  <2>9. QED
    BY <1>1, <2>2, <2>5, <2>7, <2>8
<1>5. CASE ~(RunTool \/ Ask \/ (Receive /\ TranslateResponse # <<>>))
  <2>1. history' = history
    BY <1>5 DEF Next, Send, Refuse, ReplyFails, ReplyStopped, Reply, Receive, vars
  <2>2. QED
    BY <1>1, <2>1
<1>6. QED
  BY <1>4, <1>5

\* A conversation that could be opened can be gone on with.
LEMMA RefusedStep == Inv /\ RefusedInv /\ [Next]_vars => RefusedInv'
<1> SUFFICES ASSUME Inv, RefusedInv, [Next]_vars
             PROVE  RefusedInv'
  OBVIOUS
<1>1. ASSUME NEW p \in Providers, Accepts(p, opening')
      PROVE  Accepts(p, history')
  <2>1. Accepts(p, history)
    BY <1>1, HistorySteps DEF RefusedInv
  <2>2. CASE history' = history
    BY <2>1, <2>2
  <2>3. CASE \E D, m : history \in Seq(MessagesOver(D)) /\ m \in MessagesOver(D) /\ Added(m)
                       /\ history' = Append(history, m)
    BY <2>1, <2>3, AcceptsAppend
  <2>4. QED
    BY <2>2, <2>3, HistorySteps
<1>2. ASSUME stage' = "refused"
      PROVE  provider' \in Providers /\ ~Accepts(provider', history')
  <2>1. (\E p \in Providers : Refuse(p)) \/ UNCHANGED vars
    BY <1>2 DEF Next, RunTool, Ask, GoOn, Send, ReplyFails, ReplyStopped, Reply, Receive
  <2>2. CASE \E p \in Providers : Refuse(p)
    BY <2>2 DEF Refuse
  <2>3. CASE UNCHANGED vars
    BY <1>2, <2>3 DEF RefusedInv, vars
  <2>4. QED
    BY <2>1, <2>2, <2>3
<1>3. QED
  BY <1>1, <1>2 DEF RefusedInv

\* At the start the history is the opening.
LEMMA InitRefused == Init => RefusedInv
BY DEF Init, RefusedInv

\* So it always is.
LEMMA RefusedAlways == Spec => []RefusedInv
BY ConversationInv, InitRefused, RefusedStep, PTL DEF Spec

\* separateSystemMessages of both translators: they refuse no history for an answer that came
\* through the gateway or for what a client adds to it, only for how it was opened.
THEOREM OpeningsRefused == Spec => []OnlyOpeningsAreRefused
<1>1. RefusedInv => OnlyOpeningsAreRefused
  BY DEF RefusedInv, OnlyOpeningsAreRefused
<1>2. QED
  BY <1>1, RefusedAlways, PTL

-----------------------------------------------------------------------------
(* The types of the runs.                                                  *)

\* The messages of the request on its way are those of the history, translated.
LEMMA WireMessagesAre ==
  ASSUME Inv, stage \in {"upstream", "answered"}
  PROVE  /\ provider = "anthropic" => WireMessages = A!Messages(history)
         /\ provider = "vertex" => WireMessages = V!Contents(history)
         /\ provider \in Compatible => WireMessages = history
<1>1. "anthropic" \notin Compatible /\ "vertex" \notin Compatible
  BY ConversationAssumption
<1>2. wire = TranslateRequest(provider)
  BY DEF Inv, WireInv
<1>3. provider = "anthropic" => wire.messages = A!Messages(history)
  BY <1>1, <1>2 DEF TranslateRequest, A!TranslateRequest
<1>4. provider = "vertex" => wire.contents = V!Contents(history)
  BY <1>1, <1>2 DEF TranslateRequest, V!TranslateRequest
<1>5. provider \in Compatible => wire.messages = history
  BY <1>1, <1>2 DEF TranslateRequest, O!TranslateRequest
<1>6. QED
  BY <1>1, <1>3, <1>4, <1>5 DEF WireMessages, MessagesOf

\* What Azure adds to a choice is taken away.
LEMMA AnswersUnfiltered ==
  ASSUME Inv, stage = "answered", provider \in Compatible, NEW choice \in Range(TranslateResponse)
  PROVE  ~choice.filtered
<1>1. provider # "anthropic" /\ provider # "vertex" /\ provider \in Providers
  BY ConversationAssumption DEF Providers
<1>2. AnswerInv
  BY DEF Inv
<1>3. CASE answer = Failed
  <2>1. TranslateResponse = <<>>
    BY <1>1, <1>3, NothingGot
  <2>2. Range(<<>>) = {}
    BY DEF Range
  <2>3. QED
    BY <2>1, <2>2
<1>4. CASE answer # Failed
  <2>1. \E m, f : answer = CompatibleAnswer(m, f)
    <3>1. \A blocks, cut : AnswerOf(blocks, cut) =
            CompatibleAnswer(CompatibleMessage(blocks, cut),
                             IF cut THEN "length"
                             ELSE IF Calling(blocks) THEN "tool_calls" ELSE "stop")
      BY <1>1 DEF AnswerOf
    <3>2. QED
      BY <1>1, <1>2, <1>4, <3>1 DEF AnswerInv
  <2>2. PICK m, f : answer = CompatibleAnswer(m, f)
    BY <2>1
  <2> DEFINE c == [finish_reason |-> f, message |-> m, filtered |-> FALSE]
  <2>3. TranslateResponse = <<c>>
    BY <2>2, CompatibleChoice
  <2>4. ~c.filtered
    OBVIOUS
  <2> HIDE DEF c
  <2>5. Range(<<c>>) = {c}
    BY DEF Range
  <2>6. QED
    BY <2>3, <2>4, <2>5
<1>5. QED
  BY <1>3, <1>4

\* The types the runs check follow from the invariant.
LEMMA TypesHold == Inv => TypeOK
<1> SUFFICES ASSUME Inv
             PROVE  TypeOK
  OBVIOUS
<1>1. TypeInv /\ HistoryInv
  BY DEF Inv
<1>2. finish \in {"none", "stop", "length", "tool_calls", "content_filter"}
  BY <1>1 DEF TypeInv, FinishReasons
<1>3. DOMAIN history = 1 .. Len(history) /\ DOMAIN opening = 1 .. Len(opening)
      /\ Len(history) \in Nat /\ Len(opening) \in Nat
  BY <1>1, LenProperties DEF TypeInv
<1>4. ASSUME NEW i \in DOMAIN history
      PROVE  A!Translatable(history[i]) \/ history[i] \in Range(opening)
  <2>1. CASE i > Len(opening)
    BY <1>1, <1>3, <2>1, AddedTranslatable DEF HistoryInv
  <2>2. CASE ~(i > Len(opening))
    <3>1. i \in 1 .. Len(opening)
      BY <1>3, <2>2
    <3>2. history[i] = opening[i]
      BY <1>1, <3>1 DEF HistoryInv
    <3>3. QED
      BY <1>3, <3>1, <3>2 DEF Range
  <2>3. QED
    BY <2>1, <2>2
<1>5. ASSUME stage = "upstream"
      PROVE  WireMessages # <<>>
  <2>1. provider \in Providers /\ Accepts(provider, history)
    BY <1>5 DEF Inv, WireInv
  <2>2. CASE provider = "anthropic"
    BY <1>5, <2>1, <2>2, WireMessagesAre, AcceptsIs DEF A!Accepts
  <2>3. CASE provider = "vertex"
    BY <1>5, <2>1, <2>3, WireMessagesAre, AcceptsIs DEF V!Accepts
  <2>4. CASE provider \in Compatible
    <3>1. WireMessages = history
      BY <1>5, <2>4, WireMessagesAre
    <3>2. Len(opening) > 0
      BY <1>1, EmptySeq DEF TypeInv
    <3>3. Len(history) > 0
      BY <1>1, <1>3, <3>2 DEF HistoryInv
    <3>4. history # <<>>
      BY <3>3
    <3>5. QED
      BY <3>1, <3>4
  <2>5. QED
    BY <2>1, <2>2, <2>3, <2>4 DEF Providers
<1>6. stage = "answered" /\ provider \in Compatible =>
        \A choice \in Range(TranslateResponse) : ~choice.filtered
  BY AnswersUnfiltered
<1>7. QED
  BY <1>1, <1>2, <1>4, <1>5, <1>6 DEF TypeOK, TypeInv

\* Every variable has its type; a request that is sent has a message; what Azure adds to its
\* answers does not get through.
THEOREM ConversationTypes == Spec => []TypeOK
BY ConversationInv, TypesHold, PTL

-----------------------------------------------------------------------------
(* What the answers said is in the history.                                *)

Kept(m, t) ==
  /\ m.content = StringContent(t.says.text)
  /\ SameCalls(m.calls, t.says.calls) \/ (t.cut /\ m.calls = <<>>)

\* The last of the answers are those the client got.
AllKept(answers, ts) ==
  /\ Len(ts) <= Len(answers)
  /\ \A t \in 1 .. Len(ts) : Kept(answers[Len(answers) - Len(ts) + t], ts[t])

KeptInv == AllKept(AnswersOf(history), turns)

\* Answers kept, and one more.
LEMMA KeptAppend ==
  ASSUME NEW E, NEW s \in Seq(E), NEW m \in E, NEW F, NEW ts \in Seq(F), NEW x \in F,
         AllKept(s, ts), Kept(m, x)
  PROVE  AllKept(Append(s, m), Append(ts, x))
<1> DEFINE s1 == Append(s, m)
           t1 == Append(ts, x)
           n == Len(s)
           l == Len(ts)
<1>1. /\ n \in Nat /\ Len(s1) = n + 1 /\ s1[n + 1] = m /\ \A i \in 1 .. n : s1[i] = s[i]
  BY AppendProperties, LenProperties
<1>2. /\ l \in Nat /\ Len(t1) = l + 1 /\ t1[l + 1] = x /\ \A i \in 1 .. l : t1[i] = ts[i]
  BY AppendProperties, LenProperties
<1>3. l <= n /\ \A t \in 1 .. l : Kept(s[n - l + t], ts[t])
  BY DEF AllKept
<1> HIDE DEF s1, t1, n, l
<1>4. ASSUME NEW t \in 1 .. l + 1
      PROVE  Kept(s1[(n + 1) - (l + 1) + t], t1[t])
  <2>1. CASE t = l + 1
    <3>1. (n + 1) - (l + 1) + t = n + 1
      BY <1>1, <1>2, <2>1
    <3>2. QED
      BY <1>1, <1>2, <2>1, <3>1
  <2>2. CASE t # l + 1
    <3>1. t \in 1 .. l /\ (n + 1) - (l + 1) + t = n - l + t /\ n - l + t \in 1 .. n
      BY <1>1, <1>2, <1>3, <2>2
    <3>2. s1[n - l + t] = s[n - l + t] /\ t1[t] = ts[t]
      BY <1>1, <1>2, <3>1
    <3>3. QED
      BY <1>3, <3>1, <3>2
  <2>3. QED
    BY <2>1, <2>2
<1>5. l + 1 <= n + 1
  BY <1>1, <1>2, <1>3
<1>6. QED
  BY <1>1, <1>2, <1>4, <1>5 DEF AllKept, s1, t1

\* The client's own messages are no answers.
LEMMA KeptBySaying ==
  ASSUME Inv, KeptInv, NEW m, history' = Append(history, m), turns' = turns,
         m.role \in {"user", "tool"}
  PROVE  KeptInv'
<1> DEFINE E == MessagesOver(Data(Len(turns))) \cup {m}
<1>1. history \in Seq(E) /\ m \in E
  <2>1. history \in Seq(MessagesOver(Data(Len(turns))))
    BY DEF Inv, TypeInv
  <2>2. MessagesOver(Data(Len(turns))) \subseteq E /\ m \in E
    OBVIOUS
  <2> HIDE DEF E
  <2>3. QED
    BY <2>1, <2>2, SeqMonotonic
<1> HIDE DEF E
<1>2. AnswersOf(Append(history, m)) = AnswersOf(history)
  BY <1>1, AnswersOfAppend DEF IsAnswer
<1>3. AnswersOf(history') = AnswersOf(history)
  BY <1>2
<1>4. QED
  BY <1>3 DEF KeptInv

\* The answer the client gets is kept as it was said.
LEMMA KeptByReceiving ==
  ASSUME Inv, KeptInv, Receive, TranslateResponse # <<>>
  PROVE  KeptInv'
<1>0. PICK m : \E blocks \in Seq(Strings), cut \in BOOLEAN : Receives(m, blocks, cut, Turn)
  BY ReceiveGets
<1>1. PICK blocks \in Seq(Strings), cut \in BOOLEAN : Receives(m, blocks, cut, Turn)
  BY <1>0
<1>2. /\ IsReceived(m, Said, blocks, cut, Turn)
      /\ history' = Append(history, m) /\ turns' = Append(turns, Said)
  BY <1>1 DEF Receives
<1>3. Kept(m, Said) /\ IsAnswer(m)
  BY <1>2 DEF IsReceived, Kept, IsAnswer
<1> DEFINE E == MessagesOver(Data(Len(turns))) \cup {m}
           F == TurnsOver(Data(Len(turns))) \cup {Said}
<1>4. history \in Seq(E) /\ turns \in Seq(F) /\ m \in E /\ Said \in F
  <2>1. /\ history \in Seq(MessagesOver(Data(Len(turns))))
        /\ turns \in Seq(TurnsOver(Data(Len(turns))))
    BY DEF Inv, TypeInv
  <2>2. MessagesOver(Data(Len(turns))) \subseteq E /\ TurnsOver(Data(Len(turns))) \subseteq F
        /\ m \in E /\ Said \in F
    OBVIOUS
  <2> HIDE DEF E, F
  <2>3. QED
    BY <2>1, <2>2, SeqMonotonic
<1> HIDE DEF E, F
<1>5. AnswersOf(history) \in Seq(E)
  BY <1>4, AnswersOfType
<1>6. AnswersOf(Append(history, m)) = Append(AnswersOf(history), m)
  BY <1>3, <1>4, AnswersOfAppend
<1>7. AllKept(AnswersOf(history), turns)
  BY DEF KeptInv
<1>8. AllKept(Append(AnswersOf(history), m), Append(turns, Said))
  BY <1>3, <1>4, <1>5, <1>7, KeptAppend
<1>9. AnswersOf(history') = Append(AnswersOf(history), m)
  BY <1>2, <1>6
<1>10. QED
  BY <1>2, <1>8, <1>9 DEF KeptInv

\* What the answers said stays in the history.
LEMMA KeptStep == Inv /\ KeptInv /\ [Next]_vars => KeptInv'
<1> SUFFICES ASSUME Inv, KeptInv, [Next]_vars
             PROVE  KeptInv'
  OBVIOUS
<1>1. CASE RunTool
  <2>1. PICK k \in Pending :
          history' = Append(history,
                       ResultMessage(Len(turns), k, history[LastAnswer(history)].calls[k].id))
    BY <1>1, RunToolIs
  <2>2. \A t, i, id : ResultMessage(t, i, id).role = "tool"
    BY DEF ResultMessage
  <2>3. turns' = turns
    BY <1>1 DEF RunTool, GoOn
  <2>4. QED
    BY <2>1, <2>2, <2>3, KeptBySaying
<1>2. CASE Ask
  <2>1. history' = Append(history, Question(Turn)) /\ Question(Turn).role = "user"
    BY <1>2, AskIs DEF Question
  <2>2. turns' = turns
    BY <1>2 DEF Ask, GoOn
  <2>3. QED
    BY <2>1, <2>2, KeptBySaying
<1>3. CASE Receive /\ TranslateResponse # <<>>
  BY <1>3, KeptByReceiving
<1>4. CASE ~RunTool /\ ~Ask /\ ~(Receive /\ TranslateResponse # <<>>)
  <2>1. history' = history /\ turns' = turns
    BY <1>4 DEF Next, Send, Refuse, ReplyFails, ReplyStopped, Reply, Receive, vars
  <2>2. QED
    BY <2>1 DEF KeptInv
<1>5. QED
  BY <1>1, <1>2, <1>3, <1>4

\* At the start nothing was said.
LEMMA InitKept == Init => KeptInv
<1> SUFFICES ASSUME Init
             PROVE  KeptInv
  OBVIOUS
<1>1. turns = <<>> /\ Inv
  BY InitInv DEF Init
<1>2. history \in Seq(MessagesOver(Data(Len(turns))))
  BY <1>1 DEF Inv, TypeInv
<1>3. Len(AnswersOf(history)) \in Nat
  BY <1>2, AnswersOfType
<1>4. QED
  BY <1>1, <1>3 DEF KeptInv, AllKept

\* So it always is.
LEMMA KeptAlways == Spec => []KeptInv
BY ConversationInv, InitKept, KeptStep, PTL DEF Spec

-----------------------------------------------------------------------------
(* What the messages of a request say.                                     *)

\* What the provider asked now makes of each call.
LEMMA UnderstoodIs ==
  ASSUME NEW D, NEW s \in Seq(SaidCalls(D))
  PROVE  /\ Understood(s) \in Seq(SaidCalls(D)) /\ Len(Understood(s)) = Len(s)
         /\ \A k \in 1 .. Len(s) :
              Understood(s)[k] =
                [name |-> s[k].name,
                 args |-> IF provider \in Compatible THEN ToJSONString(s[k].args)
                          ELSE ParseArguments(s[k].args)]
<1> DEFINE U == SaidCalls(D)
           n == Len(s)
           left(a) == IF a.kind = "absent" \/ (a.kind = "malformed" /\ provider \notin Compatible)
                        THEN EmptyObject ELSE a
           e(k) == [name |-> s[k].name,
                    args |-> IF provider \in Compatible THEN ToJSONString(s[k].args)
                             ELSE ParseArguments(s[k].args)]
<1>1. n \in Nat /\ DOMAIN s = 1 .. n /\ \A k \in 1 .. n : s[k] \in U
  <2> HIDE DEF U
  <2>1. s \in Seq(U)
    BY DEF U
  <2>2. QED
    BY <2>1, LenProperties, ElementOfSeq
<1>2. ASSUME NEW u \in U
      PROVE  /\ [u EXCEPT !.args = left(@)] = [name |-> u.name, args |-> left(u.args)]
             /\ left(u.args) = IF provider \in Compatible THEN ToJSONString(u.args)
                               ELSE ParseArguments(u.args)
             /\ [name |-> u.name, args |-> left(u.args)] \in U
  <2>1. u.name \in Strings /\ u.args \in ArgumentsOver(D)
        /\ u.args.kind \in {"object", "absent", "malformed"}
    BY DEF SaidCalls, ArgumentsOver
  <2>2. left(u.args) = IF provider \in Compatible THEN ToJSONString(u.args)
                       ELSE ParseArguments(u.args)
    BY <2>1 DEF ToJSONString, ParseArguments
  <2>3. left(u.args) \in ArgumentsOver(D)
    BY <2>1, ArgumentsTyped
  <2> HIDE DEF left
  <2>4. [u EXCEPT !.args = left(@)] = [name |-> u.name, args |-> left(u.args)]
    BY DEF SaidCalls
  <2>5. QED
    BY <2>1, <2>2, <2>3, <2>4 DEF SaidCalls
<1>3. Understood(s) = [k \in DOMAIN s |-> [s[k] EXCEPT !.args = left(@)]]
  BY DEF Understood
<1>4. \A k \in 1 .. n : [s[k] EXCEPT !.args = left(@)] = e(k) /\ e(k) \in U
  <2>1. TAKE k \in 1 .. n
  <2> DEFINE u == s[k]
  <2>2. u \in U
    BY <1>1
  <2> HIDE DEF u, left, U
  <2>3. /\ [u EXCEPT !.args = left(@)] = [name |-> u.name, args |-> left(u.args)]
        /\ left(u.args) = IF provider \in Compatible THEN ToJSONString(u.args)
                          ELSE ParseArguments(u.args)
        /\ [name |-> u.name, args |-> left(u.args)] \in U
    BY <1>2, <2>2
  <2>4. QED
    BY <2>3 DEF u
<1> HIDE DEF left, e, U, n
<1>5. Understood(s) = [k \in 1 .. n |-> e(k)]
  BY <1>1, <1>3, <1>4
<1>6. Understood(s) \in [1 .. n -> U]
  BY <1>4, <1>5
<1>7. Understood(s) \in Seq(U) /\ Len(Understood(s)) = n
  BY <1>1, <1>6
<1>8. \A k \in 1 .. n : Understood(s)[k] = e(k)
  BY <1>5
<1>9. QED
  BY <1>7, <1>8 DEF U, n, e

\* What is left of the calls of an answer is what was said.
LEMMA KeptIsUnderstood ==
  ASSUME NEW D, NEW calls \in CallsOver(D), NEW s \in Seq(SaidCalls(D)), SameCalls(calls, s),
         provider \notin Compatible
  PROVE  CallsKept(calls) = Understood(s)
<1>1. CallsKept(calls) \in Seq(SaidCalls(D)) /\ Len(CallsKept(calls)) = Len(calls)
  BY CallsKeptTyped
<1>2. /\ Understood(s) \in Seq(SaidCalls(D)) /\ Len(Understood(s)) = Len(s)
      /\ \A k \in 1 .. Len(s) :
           Understood(s)[k] = [name |-> s[k].name, args |-> ParseArguments(s[k].args)]
  BY UnderstoodIs
<1>3. Len(calls) = Len(s)
      /\ \A k \in 1 .. Len(s) :
           calls[k].name = s[k].name /\ calls[k].arguments = ToJSONString(s[k].args)
  BY DEF SameCalls
<1>4. \A k \in 1 .. Len(s) : ParseArguments(ToJSONString(s[k].args)) = ParseArguments(s[k].args)
  BY DEF ParseArguments, ToJSONString, EmptyObject, Arguments
<1>5. \A k \in 1 .. Len(s) :
        CallsKept(calls)[k] = [name |-> s[k].name, args |-> ParseArguments(s[k].args)]
  BY <1>3, <1>4 DEF CallsKept
<1> DEFINE x == CallsKept(calls)
           y == Understood(s)
           U == SaidCalls(D)
<1> HIDE DEF x, y, U
<1>6. x \in Seq(U) /\ y \in Seq(U) /\ Len(x) = Len(y) /\ \A k \in 1 .. Len(y) : x[k] = y[k]
  BY <1>1, <1>2, <1>3, <1>5 DEF x, y, U
<1>7. x = y
  BY <1>6, SeqEqual
<1>8. QED
  BY <1>7 DEF x, y

\* A message that goes as it is.
LEMMA CompatibleKeeps ==
  ASSUME NEW D, NEW m, m.calls \in CallsOver(D), NEW text \in Seq(D), m.content = StringContent(text)
  PROVE  /\ ChatSays(m).text = text
         /\ \A s \in Seq(SaidCalls(D)) :
              provider \in Compatible /\ SameCalls(m.calls, s) => ChatSays(m).calls = Understood(s)
         /\ m.calls = <<>> => ChatSays(m).calls = <<>>
<1>1. ChatSays(m).text = text
  <2>1. text = [i \in DOMAIN text |-> text[i]]
    OBVIOUS
  <2>2. DOMAIN m.content = DOMAIN text /\ \A i \in DOMAIN text : m.content[i].data = text[i]
    BY DEF StringContent
  <2>3. QED
    BY <2>1, <2>2 DEF ChatSays
<1>2. ASSUME NEW s \in Seq(SaidCalls(D)), provider \in Compatible, SameCalls(m.calls, s)
      PROVE  ChatSays(m).calls = Understood(s)
  <2> DEFINE n == Len(s)
             U == SaidCalls(D)
             x == ChatSays(m).calls
             y == Understood(s)
             e(k) == [name |-> s[k].name, args |-> ToJSONString(s[k].args)]
  <2>1. y \in Seq(U) /\ Len(y) = n /\ \A k \in 1 .. n : y[k] = e(k)
    BY <1>2, UnderstoodIs
  <2>2. DOMAIN m.calls = 1 .. n /\ n \in Nat
        /\ \A k \in 1 .. n : m.calls[k].name = s[k].name
                             /\ m.calls[k].arguments = ToJSONString(s[k].args)
    BY <1>2, CallFields DEF SameCalls
  <2>3. x = [k \in 1 .. n |-> [name |-> m.calls[k].name, args |-> m.calls[k].arguments]]
    BY <2>2 DEF ChatSays
  <2> HIDE DEF n, U, x, y
  <2>4. x = [k \in 1 .. n |-> e(k)]
    BY <2>2, <2>3
  <2>5. y = [k \in 1 .. n |-> y[k]]
    <3>1. DOMAIN y = 1 .. n /\ y = [k \in DOMAIN y |-> y[k]]
      BY <2>1, <2>2
    <3>2. QED
      BY <3>1
  <2> HIDE DEF e
  <2>6. x = y
    BY <2>1, <2>4, <2>5
  <2>7. QED
    BY <2>6 DEF x, y
<1>3. m.calls = <<>> => ChatSays(m).calls = <<>>
  BY DEF ChatSays
<1>4. QED
  BY <1>1, <1>2, <1>3

\* A history a translator accepts has no role that only Vertex knows.
LEMMA AcceptedIsPlain ==
  ASSUME NEW D, NEW h \in Seq(MessagesOver(D)), A!Accepts(h) \/ V!Accepts(h)
  PROVE  h \in Seq(Plain(D))
<1> DEFINE E == MessagesOver(D)
           P == Plain(D)
<1>1. Len(h) \in Nat /\ DOMAIN h = 1 .. Len(h) /\ \A i \in 1 .. Len(h) : h[i] \in E
  <2> HIDE DEF E
  <2>1. h \in Seq(E)
    BY DEF E
  <2>2. QED
    BY <2>1, LenProperties, ElementOfSeq
<1>2. \A i \in 1 .. Len(h) : h[i].role # "model"
  <2>1. CASE A!Accepts(h)
    BY <1>1, <2>1 DEF A!Accepts, A!Translatable, A!SystemRoles
  <2>2. CASE V!Accepts(h)
    BY <1>1, <2>2 DEF V!Accepts, V!Translatable, V!SystemRoles
  <2>3. QED
    BY <2>1, <2>2
<1>3. \A i \in 1 .. Len(h) : h[i] \in P
  BY <1>1, <1>2 DEF Plain
<1> HIDE DEF P, E
<1>4. h = [i \in 1 .. Len(h) |-> h[i]]
  <2>1. h \in Seq(E)
    BY DEF E
  <2>2. QED
    BY <2>1
<1>5. h \in [1 .. Len(h) -> P]
  BY <1>3, <1>4
<1>6. h \in Seq(P)
  BY <1>1, <1>5
<1>7. QED
  BY <1>6 DEF P

\* The answers of the request on its way are those of the history.
LEMMA WireAnswers ==
  ASSUME Inv, stage = "upstream"
  PROVE  /\ Len(AnswersOf(WireMessages)) = Len(AnswersOf(history))
         /\ \A j \in 1 .. Len(AnswersOf(history)) :
              /\ provider = "anthropic" =>
                   AnswersOf(WireMessages)[j] = A!BuildAssistantMessage(AnswersOf(history)[j])
              /\ provider = "vertex" =>
                   AnswersOf(WireMessages)[j] = ModelContent(AnswersOf(history)[j])
              /\ provider \in Compatible =>
                   AnswersOf(WireMessages)[j] = AnswersOf(history)[j]
         /\ \E E : WireMessages \in Seq(E)
<1> DEFINE D == Data(Len(turns))
           C == AnswersOf(history)
           w == WireMessages
<1>1. history \in Seq(MessagesOver(D)) /\ provider \in Providers /\ Accepts(provider, history)
  BY DEF Inv, TypeInv, WireInv
<1>2. "anthropic" \notin Compatible /\ "vertex" \notin Compatible /\ "anthropic" # "vertex"
  BY ConversationAssumption
<1> HIDE DEF D
<1>3. CASE provider = "anthropic"
  <2>1. w = A!Messages(history)
    BY <1>3, WireMessagesAre
  <2>2. history \in Seq(Plain(D))
    BY <1>1, <1>3, AcceptsIs, AcceptedIsPlain
  <2>3. Translated(C, AnswersOf(A!Messages(history)))
    BY <2>2, AnthropicAnswers
  <2>4. A!Messages(history) \in Seq(AnthropicMessages(D))
    BY <1>1, MessagesTyped
  <2> HIDE DEF C, w
  <2>5. QED
    BY <1>2, <1>3, <2>1, <2>3, <2>4 DEF Translated, C, w
<1>4. CASE provider = "vertex"
  <2>1. w = V!Contents(history)
    BY <1>4, WireMessagesAre
  <2> DEFINE P == Plain(D)
  <2>2. history \in Seq(P) /\ \A m \in P : m.role # "model"
    BY <1>1, <1>4, AcceptsIs, AcceptedIsPlain DEF Plain
  <2> HIDE DEF P
  <2>3. ToModel(C, AnswersOf(V!Contents(history)))
    BY <2>2, VertexAnswers
  <2>4. \E E : V!Contents(history) \in Seq(E)
    <3>1. V!Contents(history) = FlattenSeq([i \in 1 .. Len(history) |-> V!Content(history, i)])
          /\ [i \in 1 .. Len(history) |-> V!Content(history, i)] \in Seq(Seq(ContentOf(history)))
      BY <2>2, ContentPieces
    <3>2. V!Contents(history) \in Seq(ContentOf(history))
      BY <3>1, FlattenType
    <3>3. QED
      BY <3>2
  <2> HIDE DEF C, w
  <2>5. QED
    BY <1>2, <1>4, <2>1, <2>3, <2>4 DEF ToModel, C, w
<1>5. CASE provider \in Compatible
  <2>1. w = history
    BY <1>5, WireMessagesAre
  <2> HIDE DEF C, w
  <2>2. QED
    BY <1>1, <1>2, <1>5, <2>1 DEF C, w
<1>6. QED
  BY <1>1, <1>3, <1>4, <1>5 DEF Providers

\* An answer kept in the history is sent as it was said.
LEMMA MessageKept ==
  ASSUME NEW D, NEW m \in MessagesOver(D), NEW t \in TurnsOver(D), Kept(m, t),
         provider \in Providers, NEW x,
         provider = "anthropic" => x = A!BuildAssistantMessage(m),
         provider = "vertex" => x = ModelContent(m),
         provider \in Compatible => x = m
  PROVE  /\ MessageSays(provider, x).text = t.says.text
         /\ \/ MessageSays(provider, x).calls = Understood(t.says.calls)
            \/ t.cut /\ MessageSays(provider, x).calls = <<>>
<1> DEFINE text == t.says.text
           s == t.says.calls
<1>1. text \in Seq(D) /\ s \in Seq(SaidCalls(D)) /\ m.calls \in CallsOver(D)
  BY MessageFields DEF TurnsOver
<1>2. m.content = StringContent(text) /\ (SameCalls(m.calls, s) \/ (t.cut /\ m.calls = <<>>))
  BY DEF Kept
<1>3. "anthropic" \notin Compatible /\ "vertex" \notin Compatible
  BY ConversationAssumption
<1>4. ExtractContentString(m) = text
  BY <1>1, <1>2, TextOfString
<1>5. provider \notin Compatible /\ SameCalls(m.calls, s) => CallsKept(m.calls) = Understood(s)
  BY <1>1, KeptIsUnderstood
<1>6. m.calls = <<>> => CallsKept(m.calls) = <<>>
  BY DEF CallsKept
<1> HIDE DEF text, s
<1>7. CASE provider = "anthropic"
  <2>1. MessageSays(provider, x) = AnthropicMessageSays(A!BuildAssistantMessage(m))
    BY <1>3, <1>7 DEF MessageSays
  <2>2. MessageSays(provider, x).text = text /\ MessageSays(provider, x).calls = CallsKept(m.calls)
    BY <1>4, <2>1, AnthropicKeeps
  <2>3. QED
    BY <1>2, <1>3, <1>5, <1>6, <1>7, <2>2 DEF text, s
<1>8. CASE provider = "vertex"
  <2>1. MessageSays(provider, x) = VertexSays(V!BuildAssistantParts(m))
    BY <1>3, <1>8 DEF MessageSays, ModelContent
  <2>2. MessageSays(provider, x).text = text /\ MessageSays(provider, x).calls = CallsKept(m.calls)
    BY <1>4, <2>1, VertexKeeps
  <2>3. QED
    BY <1>2, <1>3, <1>5, <1>6, <1>8, <2>2 DEF text, s
<1>9. CASE provider \in Compatible
  <2>1. MessageSays(provider, x) = ChatSays(m)
    BY <1>3, <1>9 DEF MessageSays
  <2>2. /\ ChatSays(m).text = text
        /\ SameCalls(m.calls, s) => ChatSays(m).calls = Understood(s)
        /\ m.calls = <<>> => ChatSays(m).calls = <<>>
    BY <1>1, <1>2, <1>9, CompatibleKeeps
  <2>3. QED
    BY <1>2, <2>1, <2>2 DEF text, s
<1>10. QED
  BY <1>7, <1>8, <1>9 DEF Providers

\* AnswersAreKept follows.
LEMMA KeptAnswers == Inv /\ KeptInv => AnswersAreKept
<1> SUFFICES ASSUME Inv, KeptInv, stage = "upstream", NEW t \in DOMAIN turns
             PROVE  /\ MessageSays(provider, WireMessages[AnswerAt(t)]).text = turns[t].says.text
                    /\ \/ MessageSays(provider, WireMessages[AnswerAt(t)]).calls
                            = Understood(turns[t].says.calls)
                       \/ /\ turns[t].cut
                          /\ MessageSays(provider, WireMessages[AnswerAt(t)]).calls = <<>>
  BY DEF AnswersAreKept
<1> DEFINE D == Data(Len(turns))
           C == AnswersOf(history)
           w == WireMessages
           l == Len(turns)
           j == Len(C) - l + t
           own == AnswerPlaces(w)
<1>1. /\ history \in Seq(MessagesOver(D)) /\ turns \in Seq(TurnsOver(D)) /\ provider \in Providers
  BY DEF Inv, TypeInv, WireInv
<1> HIDE DEF D
<1>2. l \in Nat /\ t \in 1 .. l /\ turns[t] \in TurnsOver(D)
  BY <1>1, LenProperties, ElementOfSeq
<1>3. C \in Seq(MessagesOver(D)) /\ Len(C) \in Nat
  BY <1>1, AnswersOfType
<1>4. l <= Len(C) /\ Kept(C[j], turns[t])
  BY <1>2 DEF KeptInv, AllKept
<1>5. j \in 1 .. Len(C)
  BY <1>2, <1>3, <1>4
<1>6. C[j] \in MessagesOver(D)
  <2> HIDE DEF C, j
  <2>1. QED
    BY <1>3, <1>5, ElementOfSeq
<1>7. /\ Len(AnswersOf(w)) = Len(C)
      /\ provider = "anthropic" => AnswersOf(w)[j] = A!BuildAssistantMessage(C[j])
      /\ provider = "vertex" => AnswersOf(w)[j] = ModelContent(C[j])
      /\ provider \in Compatible => AnswersOf(w)[j] = C[j]
  <2> HIDE DEF j
  <2>1. QED
    BY <1>5, WireAnswers
<1>8. AnswersOf(w)[j] = w[own[j]] /\ Len(own) = Len(C)
  <2>1. PICK E : w \in Seq(E)
    BY WireAnswers
  <2> HIDE DEF w, j, C
  <2>2. QED
    BY <1>5, <1>7, <2>1, AnswersOfType
<1>9. AnswerAt(t) = own[j]
  <2>1. AnswerAt(t) = own[Len(own) - l + t]
    BY DEF AnswerAt
  <2> HIDE DEF own, C
  <2>2. QED
    BY <1>8, <2>1
<1>10. WireMessages[AnswerAt(t)] = AnswersOf(w)[j]
  BY <1>8, <1>9
<1> HIDE DEF C, w, j, own, l
<1>11. QED
  BY <1>1, <1>2, <1>4, <1>6, <1>7, <1>10, MessageKept

\* buildAssistantMessage and buildAssistantParts against TranslateResponse: the texts and calls
\* of every answer come back in every later request, in order, whichever providers gave and
\* get them.
THEOREM AnswersKept == Spec => []AnswersAreKept
BY ConversationInv, KeptAlways, KeptAnswers, PTL

-----------------------------------------------------------------------------
(* What the responses of a request to Vertex are.                          *)

IsResponse(part) == part.type = "functionResponse"

\* An answer has no part that is a response.
LEMMA AnswerHasNoResponse ==
  ASSUME NEW D, NEW m \in MessagesOver(D), NEW j \in DOMAIN V!BuildAssistantParts(m)
  PROVE  ~IsResponse(V!BuildAssistantParts(m)[j])
<1> DEFINE E == PartsOver(D)
           b == V!BuildAssistantParts(m)
           s == TextParts(ExtractContentString(m))
           t == FunctionCallsOf(m.calls)
<1>1. ExtractContentString(m) \in Seq(D) /\ m.calls \in CallsOver(D) /\ <<>> \in Seq(D)
  BY TextType, MessageFields
<1>2. s \in Seq(E) /\ t \in Seq(E) /\ <<V!TextPart(<<>>)>> \in Seq(E)
  BY <1>1, TextPartsSaid, FunctionCallsOfCalls
<1>3. b = IF s \o t = <<>> THEN <<V!TextPart(<<>>)>> ELSE s \o t
  BY SameText DEF V!BuildAssistantParts, V!OrEmptyText, TextParts, FunctionCallsOf
<1> DEFINE o == <<V!TextPart(<<>>)>>
<1>4. b = (IF s \o t = <<>> THEN o ELSE s \o t) /\ o \in Seq(E) /\ s \in Seq(E) /\ t \in Seq(E)
  BY <1>2, <1>3
<1> HIDE DEF s, t, o, E, b
<1>5. s \o t \in Seq(E)
  BY <1>4, ConcatProperties
<1>6. b \in Seq(E)
  BY <1>4, <1>5
<1>7. b[j] \in E
  BY <1>6, ElementOfSeq, LenProperties DEF b
<1>8. \A e \in E : ~IsResponse(e)
  BY DEF E, PartsOver, IsResponse
<1>9. QED
  BY <1>7, <1>8 DEF b

\* Nor has a question.
LEMMA QuestionHasNoResponse ==
  ASSUME NEW D, NEW m \in MessagesOver(D), NEW j \in DOMAIN V!ExtractContentParts(m)
  PROVE  ~IsResponse(V!ExtractContentParts(m)[j])
<1> DEFINE S == {V!TextPart(<<x>>) : x \in D} \cup {V!ImagePart(x) : x \in D} \cup {V!TextPart(<<>>)}
           c == m.content
           e(i) == IF c[i].type = "text" THEN <<V!TextPart(<<c[i].data>>)>>
                   ELSE IF c[i].type = "data URI" THEN <<V!ImagePart(c[i].data)>>
                   ELSE <<>>
           n == Len(c)
           p == [i \in 1 .. n |-> e(i)]
           f == FlattenSeq(p)
           b == V!ExtractContentParts(m)
           o == V!TextPart(<<>>)
<1>1. n \in Nat /\ DOMAIN c = 1 .. n /\ \A i \in 1 .. n : c[i].data \in D
  BY MessageFields, PartFields
<1>2. V!ExtractContentParts(m) =
        V!OrEmptyText(V!FlattenSeq([i \in DOMAIN c |-> e(i)]))
  BY DEF V!ExtractContentParts
<1>3. \A i \in 1 .. n : e(i) \in Seq(S)
  <2>1. TAKE i \in 1 .. n
  <2>2. V!TextPart(<<c[i].data>>) \in S /\ V!ImagePart(c[i].data) \in S
    BY <1>1
  <2> DEFINE x == V!TextPart(<<c[i].data>>)
             y == V!ImagePart(c[i].data)
  <2>3. x \in S /\ y \in S
    BY <2>2
  <2>4. e(i) = <<x>> \/ e(i) = <<y>> \/ e(i) = <<>>
    OBVIOUS
  <2> HIDE DEF x, y, S, e, c, n
  <2>5. <<x>> \in Seq(S) /\ <<y>> \in Seq(S) /\ <<>> \in Seq(S)
    BY <2>3, ShortSequences
  <2>6. QED
    BY <2>4, <2>5
<1>4. o \in S
  OBVIOUS
<1>5. \A s \in S : ~IsResponse(s)
  BY DEF V!TextPart, V!ImagePart, V!Part, IsResponse
<1>6. p = [i \in 1 .. n |-> p[i]] /\ \A i \in 1 .. n : p[i] = e(i)
  OBVIOUS
<1>7. V!FlattenSeq(p) = f /\ [i \in DOMAIN c |-> e(i)] = p
  <2> HIDE DEF e, n, c
  <2>1. QED
    BY <1>1, SameFlattenSeq
<1>8. b = IF f = <<>> THEN <<o>> ELSE f
  BY <1>2, <1>7 DEF V!OrEmptyText
<1> HIDE DEF S, e, p, b, o, n
<1>9. f \in Seq(S)
  <2>1. p \in Seq(Seq(S))
    BY <1>1, <1>3, <1>6, PiecesType
  <2>2. QED
    BY <2>1, FlattenType
<1> HIDE DEF f
<1>10. b \in Seq(S)
  BY <1>4, <1>8, <1>9
<1>11. b[j] \in S
  BY <1>10, ElementOfSeq, LenProperties DEF b
<1>12. QED
  BY <1>5, <1>11 DEF b

\* The texts of the responses are of the data of the history.
ResponsesOver(s, D) ==
  \A i \in 1 .. Len(s) : \A j \in DOMAIN s[i].parts :
    IsResponse(s[i].parts[j]) => s[i].parts[j].text \in Seq(D)

\* The loop makes a response, and nothing else, of a tool's message.
LEMMA ResponseAfter ==
  ASSUME NEW D, NEW h, NEW m \in MessagesOver(D), NEW x, ContentAfter(h, m) = <<x>>
  PROVE  \/ \A j \in DOMAIN x.parts : ~IsResponse(x.parts[j])
         \/ \E name : x.parts = <<V!FunctionResponse(name, ExtractContentString(m))>>
<1>1. CASE m.role = "user"
  <2>1. x = [role |-> "user", parts |-> V!ExtractContentParts(m)]
    BY <1>1 DEF ContentAfter
  <2>2. x.parts = V!ExtractContentParts(m)
    BY <2>1
  <2>3. QED
    BY <2>2, QuestionHasNoResponse
<1>2. CASE m.role = "assistant"
  <2>1. x = [role |-> "model", parts |-> V!BuildAssistantParts(m)]
    BY <1>2 DEF ContentAfter
  <2>2. x.parts = V!BuildAssistantParts(m)
    BY <2>1
  <2>3. QED
    BY <2>2, AnswerHasNoResponse
<1>3. CASE m.role \in {"tool", "function"}
  BY <1>3 DEF ContentAfter
<1>4. CASE m.role \notin {"user", "assistant", "tool", "function"}
  BY <1>4 DEF ContentAfter
<1>5. QED
  BY <1>1, <1>2, <1>3, <1>4

\* A content of a longer history is one it had, or what the new message adds.
LEMMA ContentsGrow ==
  ASSUME NEW E, NEW h \in Seq(E), NEW m \in E, NEW i \in 1 .. Len(V!Contents(Append(h, m)))
  PROVE  \/ i \in 1 .. Len(V!Contents(h)) /\ V!Contents(Append(h, m))[i] = V!Contents(h)[i]
         \/ ContentAfter(h, m) = <<V!Contents(Append(h, m))[i]>>
<1> DEFINE M == V!Contents(h)
           M1 == V!Contents(Append(h, m))
           e == ContentAfter(h, m)
           F == ContentOf(Append(h, m))
<1>1. M1 = M \o e /\ M \in Seq(F) /\ e \in Seq(F)
  BY ContentsAppend
<1>2. e = <<>> \/ e = <<e[1]>>
  BY ContentShape
<1> HIDE DEF M, M1, F, e
<1>3. /\ Len(M) \in Nat /\ Len(e) \in Nat /\ Len(M1) = Len(M) + Len(e)
      /\ \A k \in 1 .. Len(M) + Len(e) : M1[k] = IF k <= Len(M) THEN M[k] ELSE e[k - Len(M)]
  BY <1>1, ConcatProperties, LenProperties
<1>4. i \in 1 .. Len(M) + Len(e)
  BY <1>3 DEF M1
<1>5. CASE i <= Len(M)
  <2>1. M1[i] = M[i] /\ i \in 1 .. Len(M)
    BY <1>3, <1>4, <1>5
  <2>2. QED
    BY <2>1 DEF M, M1
<1>6. CASE i > Len(M)
  <2>1. e # <<>>
    BY <1>3, <1>4, <1>6
  <2>2. Len(e) = 1 /\ e = <<e[1]>>
    BY <1>2, <2>1
  <2>3. M1[i] = e[1]
    BY <1>3, <1>4, <1>6, <2>2
  <2>4. QED
    BY <2>2, <2>3 DEF e, M1
<1>7. QED
  BY <1>3, <1>4, <1>5, <1>6

\* So they are in every history.
LEMMA ResponsesTyped ==
  ASSUME NEW D, NEW h \in Seq(MessagesOver(D))
  PROVE  ResponsesOver(V!Contents(h), D)
<1> DEFINE E == MessagesOver(D)
           Q == {s \in Seq(E) : ResponsesOver(V!Contents(s), D)}
<1>1. <<>> \in Q
  <2>1. <<>> \in Seq(E) /\ ResponsesOver(<<>>, D)
    BY DEF ResponsesOver
  <2> HIDE DEF E
  <2>2. QED
    BY <2>1, ContentsOfEmpty
<1>2. ASSUME NEW s \in Seq(E), NEW m \in E, s \in Q
      PROVE  Append(s, m) \in Q
  <2>1. Append(s, m) \in Seq(E)
    <3> HIDE DEF E
    <3> QED
      BY AppendProperties
  <2>2. ResponsesOver(V!Contents(s), D)
    BY <1>2
  <2> DEFINE M == V!Contents(s)
             M1 == V!Contents(Append(s, m))
  <2>3. ASSUME NEW i \in 1 .. Len(M1), NEW j \in DOMAIN M1[i].parts, IsResponse(M1[i].parts[j])
        PROVE  M1[i].parts[j].text \in Seq(D)
    <3> DEFINE x == M1[i]
    <3>1. (i \in 1 .. Len(M) /\ x = M[i]) \/ ContentAfter(s, m) = <<x>>
      BY ContentsGrow
    <3> HIDE DEF M1, x
    <3>2. CASE i \in 1 .. Len(M) /\ x = M[i]
      BY <2>2, <2>3, <3>2 DEF ResponsesOver, x
    <3>3. CASE ContentAfter(s, m) = <<x>>
      <4>1. PICK name : x.parts = <<V!FunctionResponse(name, ExtractContentString(m))>>
        BY <2>3, <3>3, ResponseAfter DEF x
      <4>2. x.parts[j] = V!FunctionResponse(name, ExtractContentString(m))
        BY <2>3, <4>1 DEF x
      <4>3. QED
        BY <4>2, TextType DEF V!FunctionResponse, V!Part, x
    <3>4. QED
      BY <3>1, <3>2, <3>3
  <2>4. QED
    BY <2>1, <2>3 DEF ResponsesOver
<1>3. Seq(E) \subseteq Q
  <2> HIDE DEF Q, E
  <2> QED
    BY <1>1, <1>2, SequenceInduction
<1>4. QED
  BY <1>3

-----------------------------------------------------------------------------
(* The names of the calls.                                                 *)

\* One more message adds its calls to those of the history.
LEMMA CallsOfAppend ==
  ASSUME NEW D, NEW h \in Seq(MessagesOver(D)), NEW m \in MessagesOver(D)
  PROVE  CallsOf(Append(h, m)) = CallsOf(h) \o m.calls /\ CallsOf(h) \in CallsOver(D)
<1> DEFINE E == MessagesOver(D)
           S == CallOver(D)
           g == [x \in E |-> x.calls]
           h1 == Append(h, m)
<1>1. CallsOver(D) = Seq(S)
  BY DEF CallsOver, CallOver
<1>2. \A x \in E : x.calls \in Seq(S)
  BY <1>1, MessageFields
<1>3. Maps(g, E, S)
  <2> HIDE DEF E, S
  <2> QED
    BY <1>2 DEF Maps
<1>4. \A x \in E : g[x] = x.calls
  OBVIOUS
<1> HIDE DEF E, S, g, h1
<1>5. ASSUME NEW s \in Seq(E)
      PROVE  CallsOf(s) = Mapped(g, s)
  <2>1. Len(s) \in Nat /\ DOMAIN s = 1 .. Len(s) /\ \A i \in 1 .. Len(s) : s[i] \in E
    BY <1>5, ElementOfSeq, LenProperties
  <2>2. [i \in DOMAIN s |-> s[i].calls] = [i \in 1 .. Len(s) |-> g[s[i]]]
    BY <1>4, <2>1
  <2>3. QED
    BY <2>2 DEF CallsOf, Mapped
<1>6. h \in Seq(E) /\ m \in E /\ h1 \in Seq(E)
  BY AppendProperties DEF E, h1
<1>7. Mapped(g, Append(h, m)) = Mapped(g, h) \o g[m] /\ Mapped(g, h) \in Seq(S)
  BY <1>3, <1>6, MappedAppend, MappedType
<1>8. QED
  BY <1>1, <1>4, <1>5, <1>6, <1>7 DEF h1

\* Of calls with one id, the name kept is that of the last.
LEMMA NameOfConcat ==
  ASSUME NEW S, NEW c \in Seq(S), NEW d \in Seq(S), NEW k \in 1 .. Len(d),
         d[k].id # NoId, d[k].name # NoName,
         \A j \in 1 .. Len(d) : d[j].id = d[k].id => j = k
  PROVE  NameOf(c \o d, d[k].id) = d[k].name
<1> DEFINE s == c \o d
           id == d[k].id
           p == Len(c)
           q == Len(d)
           J == {j \in 1 .. Len(s) : s[j].id # NoId /\ s[j].id = id}
<1>1. /\ p \in Nat /\ q \in Nat /\ Len(s) = p + q
      /\ \A j \in 1 .. p + q : s[j] = IF j <= p THEN c[j] ELSE d[j - p]
  BY ConcatProperties, LenProperties
<1>2. NameOf(s, id) = LET last == IF J # {} THEN Max(J) ELSE 0
                      IN  IF last = 0 \/ s[last].name = NoName THEN "unknown" ELSE s[last].name
  BY DEF NameOf
<1> HIDE DEF s
<1>3. p + k \in 1 .. p + q /\ s[p + k] = d[k]
  BY <1>1
<1>4. p + k \in J
  BY <1>1, <1>3
<1>5. \A j \in J : j <= p + k
  <2>1. TAKE j \in J
  <2>2. j \in 1 .. p + q /\ s[j].id = id
    BY <1>1
  <2>3. CASE j <= p
    BY <1>1, <2>2, <2>3
  <2>4. CASE j > p
    <3>1. j - p \in 1 .. q /\ s[j] = d[j - p]
      BY <1>1, <2>2, <2>4
    <3>2. j - p = k
      BY <2>2, <3>1
    <3>3. QED
      BY <1>1, <2>2, <3>2
  <2>5. QED
    BY <1>1, <2>2, <2>3, <2>4
<1>6. J \subseteq Nat /\ J # {}
  BY <1>1, <1>4
<1> DEFINE n == p + q
           l == p + k
<1>7. J \subseteq 1 .. n /\ n \in Nat /\ l \in J /\ (\A j \in J : j <= l)
  BY <1>1, <1>4, <1>5
<1> HIDE DEF J, n, l
<1>9. Max(J) = l
  <2>1. J \in SUBSET (1 .. n)
    BY <1>7
  <2>2. Max(J) \in J /\ \A j \in J : j <= Max(J)
    BY <1>6, <1>7, <2>1, LargestElement
  <2> DEFINE x == Max(J)
  <2>3. x \in J /\ l <= x /\ x <= l
    BY <1>7, <2>2
  <2> HIDE DEF x
  <2>4. x \in Nat /\ l \in Nat
    BY <1>6, <1>7, <2>3
  <2>5. x = l
    BY <2>3, <2>4
  <2>6. QED
    BY <2>5 DEF x
<1>10. QED
  BY <1>1, <1>2, <1>3, <1>6, <1>9 DEF s, l

\* Only an answer becomes the last answer.
LEMMA LastAnswerAppend ==
  ASSUME NEW E, NEW h \in Seq(E), NEW m \in E
  PROVE  LastAnswer(Append(h, m)) = IF m.role = "assistant" THEN Len(h) + 1 ELSE LastAnswer(h)
<1> DEFINE h1 == Append(h, m)
           n == Len(h)
           a == LastAnswer(h)
           b == LastAnswer(h1)
<1>1. n \in Nat /\ Len(h1) = n + 1 /\ h1[n + 1] = m /\ \A i \in 1 .. n : h1[i] = h[i]
  BY AppendProperties, LenProperties
<1>2. /\ a \in 0 .. n /\ (a # 0 => h[a].role = "assistant")
      /\ \A i \in 1 .. n : h[i].role = "assistant" => i <= a
  BY <1>1, LastAnswerIs
<1>3. /\ b \in 0 .. n + 1 /\ (b # 0 => h1[b].role = "assistant")
      /\ \A i \in 1 .. n + 1 : h1[i].role = "assistant" => i <= b
  <2>1. Len(h1) \in Nat
    BY <1>1
  <2> HIDE DEF h1, b
  <2>2. /\ LastAnswer(h1) \in 0 .. Len(h1)
        /\ LastAnswer(h1) # 0 => h1[LastAnswer(h1)].role = "assistant"
        /\ \A i \in 1 .. Len(h1) : h1[i].role = "assistant" => i <= LastAnswer(h1)
    BY <2>1, LastAnswerIs
  <2>3. QED
    BY <1>1, <2>2 DEF b
<1> HIDE DEF h1, n, a, b
<1>4. CASE m.role = "assistant"
  BY <1>1, <1>3, <1>4 DEF h1, n, a, b
<1>5. CASE m.role # "assistant"
  <2>1. b # n + 1
    BY <1>1, <1>3, <1>5
  <2>2. b \in 0 .. n
    BY <1>1, <1>3, <2>1
  <2>3. b <= a
    BY <1>1, <1>2, <1>3, <2>2
  <2>4. a <= b
    BY <1>1, <1>2, <1>3
  <2>5. QED
    BY <1>1, <1>2, <1>5, <2>2, <2>3, <2>4 DEF h1, n, a, b
<1>6. QED
  BY <1>4, <1>5

-----------------------------------------------------------------------------
(* The results of calls have the names of their functions.                 *)

LastCalls == history[LastAnswer(history)].calls

\* An id of a call of the last answer stands for the name of its function.
CurrentNamed ==
  turns # <<>> =>
    \A k \in 1 .. Len(LastCalls) :
      NameOf(CallsOf(history), LastCalls[k].id) = turns[Len(turns)].says.calls[k].name

\* The response of a call, to any of these answers, has the call's name.
ResponseNamed(part, ts) ==
  IsResponse(part) =>
    \A t \in 1 .. Len(ts) : \A k \in DOMAIN ts[t].says.calls :
      part.text = <<<<t, k>>>> => part.name = ts[t].says.calls[k].name

ResponsesNamed(s, ts) ==
  \A i \in 1 .. Len(s) : \A j \in DOMAIN s[i].parts : ResponseNamed(s[i].parts[j], ts)

NamedInv == CurrentNamed /\ ResponsesNamed(V!Contents(history), turns)

\* The client's own messages leave the names of the ids alone.
LEMMA CurrentNamedStays ==
  ASSUME Inv, CurrentNamed, NEW m \in MessagesOver(Data(Len(turns))), m.role # "assistant",
         m.calls = <<>>, history' = Append(history, m), turns' = turns
  PROVE  CurrentNamed'
<1> DEFINE E == MessagesOver(Data(Len(turns)))
<1>1. history \in Seq(E) /\ m \in E
  BY DEF Inv, TypeInv
<1>2. CallsOf(history') = CallsOf(history)
  <2>1. CallsOf(Append(history, m)) = CallsOf(history) \o m.calls
        /\ CallsOf(history) \in CallsOver(Data(Len(turns)))
    BY <1>1, CallsOfAppend
  <2> DEFINE c == CallsOf(history)
  <2>2. c \in CallsOver(Data(Len(turns))) /\ CallsOf(Append(history, m)) = c \o <<>>
    BY <2>1
  <2> HIDE DEF c
  <2>3. c \o <<>> = c
    BY <2>2, EmptySeq, ConcatEmptySeq DEF CallsOver
  <2>4. QED
    BY <2>2, <2>3 DEF c
<1> HIDE DEF E
<1>3. SUFFICES ASSUME turns # <<>>
               PROVE  CurrentNamed'
  BY DEF CurrentNamed
<1>4. LastAnswer(history) \in 1 .. Len(history)
  BY <1>3, LastAnswerAdded DEF Inv
<1>5. LastAnswer(history') = LastAnswer(history)
  BY <1>1, LastAnswerAppend
<1>6. history'[LastAnswer(history)] = history[LastAnswer(history)]
  BY <1>1, <1>4, AppendProperties
<1>7. LastCalls' = LastCalls
  BY <1>5, <1>6 DEF LastCalls
<1>8. QED
  BY <1>2, <1>7 DEF CurrentNamed

\* A result is sent with the name of its call.
LEMMA ResultNamed ==
  ASSUME Inv, CurrentNamed, NEW k \in Pending, NEW name, NEW part, NEW n, n = Len(turns),
         part = V!FunctionResponse(NameOf(CallsOf(history), LastCalls[k].id), <<<<n, k>>>>)
  PROVE  ResponseNamed(part, turns)
<1>1. turns # <<>> /\ k \in DOMAIN LastCalls
  BY PendingIs DEF LastCalls
<1>2. LastAnswer(history) \in 1 .. Len(history)
  BY <1>1, LastAnswerAdded DEF Inv
<1>3. history \in Seq(MessagesOver(Data(n)))
  BY DEF Inv, TypeInv
<1>4. LastCalls \in CallsOver(Data(n))
  <2>1. history[LastAnswer(history)] \in MessagesOver(Data(n))
    BY <1>2, <1>3, ElementOfSeq
  <2>2. QED
    BY <2>1, MessageFields DEF LastCalls
<1>5. k \in 1 .. Len(LastCalls)
  BY <1>1, <1>4, CallFields
<1>6. NameOf(CallsOf(history), LastCalls[k].id) = turns[n].says.calls[k].name
  BY <1>1, <1>5 DEF CurrentNamed
<1> DEFINE x == NameOf(CallsOf(history), LastCalls[k].id)
<1>7. part = V!FunctionResponse(x, <<<<n, k>>>>)
  OBVIOUS
<1> HIDE DEF x
<1>8. part.text = <<<<n, k>>>> /\ part.name = x
  BY <1>7 DEF V!FunctionResponse, V!Part
<1>9. \A t, j : <<<<n, k>>>> = <<<<t, j>>>> => t = n /\ j = k
  OBVIOUS
<1>10. QED
  BY <1>6, <1>8, <1>9 DEF ResponseNamed, x

\* What is added to the contents is named when its responses are.
LEMMA NamedGrow ==
  ASSUME NEW E, NEW h \in Seq(E), NEW m \in E, NEW ts, ResponsesNamed(V!Contents(h), ts),
         \A x : ContentAfter(h, m) = <<x>> =>
                  \A j \in DOMAIN x.parts : ResponseNamed(x.parts[j], ts)
  PROVE  ResponsesNamed(V!Contents(Append(h, m)), ts)
<1> DEFINE M == V!Contents(h)
           M1 == V!Contents(Append(h, m))
<1>1. SUFFICES ASSUME NEW i \in 1 .. Len(M1), NEW j \in DOMAIN M1[i].parts
               PROVE  ResponseNamed(M1[i].parts[j], ts)
  BY DEF ResponsesNamed
<1> DEFINE x == M1[i]
<1>2. (i \in 1 .. Len(M) /\ x = M[i]) \/ ContentAfter(h, m) = <<x>>
  BY ContentsGrow
<1>3. j \in DOMAIN x.parts
  OBVIOUS
<1> HIDE DEF M1, x
<1>4. CASE i \in 1 .. Len(M) /\ x = M[i]
  BY <1>3, <1>4 DEF ResponsesNamed, x
<1>5. CASE ContentAfter(h, m) = <<x>>
  BY <1>3, <1>5 DEF x
<1>6. QED
  BY <1>2, <1>4, <1>5

\* A part that is no response has no name to get wrong.
LEMMA NotResponseIsNamed ==
  ASSUME NEW part, ~IsResponse(part), NEW ts
  PROVE  ResponseNamed(part, ts)
BY DEF ResponseNamed

-----------------------------------------------------------------------------

\* What the client adds to the history on its own.
LEMMA SayingTyped ==
  ASSUME Inv, RunTool \/ Ask
  PROVE  \E m \in MessagesOver(Data(Len(turns))) :
           /\ history' = Append(history, m) /\ m.role # "assistant" /\ m.calls = <<>>
           /\ \/ m.role = "user"
              \/ \E k \in Pending : m = ResultMessage(Len(turns), k, LastCalls[k].id)
<1> DEFINE n == Len(turns)
<1>1. n \in Nat /\ history \in Seq(MessagesOver(Data(n))) /\ TypeInv /\ HistoryInv
  BY LenProperties DEF Inv, TypeInv
<1>2. CASE RunTool
  <2>1. PICK k \in Pending : history' = Append(history, ResultMessage(n, k, LastCalls[k].id))
    BY <1>2, RunToolIs DEF LastCalls
  <2>2. turns # <<>> /\ k \in DOMAIN LastCalls
    BY PendingIs DEF LastCalls
  <2>3. LastAnswer(history) \in 1 .. Len(history)
    BY <1>1, <2>2, LastAnswerAdded
  <2> HIDE DEF n
  <2>4. history[LastAnswer(history)] \in MessagesOver(Data(n))
    BY <1>1, <2>3, ElementOfSeq
  <2>5. LastCalls \in CallsOver(Data(n))
    BY <2>4, MessageFields DEF LastCalls
  <2>6. k \in Nat /\ LastCalls[k].id \in Seq(Nat)
    BY <2>2, <2>5, CallFields
  <2> DEFINE m == ResultMessage(n, k, LastCalls[k].id)
  <2>7. m \in MessagesOver(Data(n))
    BY <1>1, <2>6, ClientMessagesTyped
  <2>8. m.role = "tool" /\ m.calls = <<>>
    BY DEF ResultMessage
  <2> HIDE DEF m
  <2>9. QED
    BY <2>1, <2>7, <2>8 DEF m, n
<1>3. CASE Ask
  <2> DEFINE m == Question(Turn)
  <2>1. history' = Append(history, m)
    BY <1>3, AskIs
  <2>2. <<>> \in Seq(Nat) /\ 0 \in 0 .. n /\ Turn \in Nat
    BY <1>1 DEF Turn
  <2> HIDE DEF n
  <2>3. Question(Turn) \in MessagesOver(Data(n))
    BY <1>1, <2>2, ClientMessagesTyped
  <2>4. m.role = "user" /\ m.calls = <<>>
    BY DEF Question
  <2>5. m \in MessagesOver(Data(n))
    BY <2>3
  <2> HIDE DEF m
  <2>6. QED
    BY <2>1, <2>4, <2>5 DEF n
<1>4. QED
  BY <1>2, <1>3

\* What the client says keeps the responses named.
LEMMA NamedBySaying ==
  ASSUME Inv, NamedInv, RunTool \/ Ask
  PROVE  NamedInv'
<1> DEFINE n == Len(turns)
           D == Data(n)
<1>1. PICK m \in MessagesOver(D) :
        /\ history' = Append(history, m) /\ m.role # "assistant" /\ m.calls = <<>>
        /\ \/ m.role = "user"
           \/ \E k \in Pending : m = ResultMessage(Len(turns), k, LastCalls[k].id)
  BY SayingTyped
<1>2. turns' = turns
  BY DEF RunTool, Ask, GoOn
<1>3. CurrentNamed'
  BY <1>1, <1>2, CurrentNamedStays DEF NamedInv
<1>4. history \in Seq(MessagesOver(D)) /\ n \in Nat
  BY LenProperties DEF Inv, TypeInv
<1> HIDE DEF D
<1>5. ASSUME NEW x, ContentAfter(history, m) = <<x>>
      PROVE  \A j \in DOMAIN x.parts : ResponseNamed(x.parts[j], turns)
  <2>1. CASE m.role = "user"
    <3>1. x = [role |-> "user", parts |-> V!ExtractContentParts(m)]
      BY <1>5, <2>1 DEF ContentAfter
    <3>2. x.parts = V!ExtractContentParts(m)
      BY <3>1
    <3>3. QED
      BY <1>1, <3>2, QuestionHasNoResponse, NotResponseIsNamed
  <2>2. ASSUME NEW k \in Pending, m = ResultMessage(n, k, LastCalls[k].id)
        PROVE  \A j \in DOMAIN x.parts : ResponseNamed(x.parts[j], turns)
    <3> DEFINE text == <<<<n, k>>>>
               part == V!FunctionResponse(NameOf(CallsOf(history), LastCalls[k].id), text)
    <3>1. /\ m.role = "tool" /\ m.tool_call_id = LastCalls[k].id
          /\ m.content = StringContent(text)
      BY <2>2 DEF ResultMessage
    <3>2. ExtractContentString(m) = text
      <4> DEFINE e == <<n, k>>
      <4>1. m.content = StringContent(<<e>>)
        BY <3>1
      <4> HIDE DEF e
      <4>2. <<e>> \in Seq({e})
        BY ShortSequences
      <4>3. ExtractContentString(m) = <<e>>
        BY <4>1, <4>2, TextOfString
      <4>4. QED
        BY <4>3 DEF e
    <3>3. x = [role |-> "user", parts |-> <<part>>]
      BY <1>5, <3>1, <3>2 DEF ContentAfter
    <3>4. ResponseNamed(part, turns)
      BY ResultNamed DEF NamedInv
    <3> HIDE DEF part
    <3>5. x.parts = <<part>>
      BY <3>3
    <3>6. QED
      BY <3>4, <3>5
  <2>3. QED
    BY <1>1, <2>1, <2>2
<1>6. ResponsesNamed(V!Contents(Append(history, m)), turns)
  BY <1>1, <1>4, <1>5, NamedGrow DEF NamedInv
<1>7. ResponsesNamed(V!Contents(history'), turns')
  BY <1>1, <1>2, <1>6
<1>8. QED
  BY <1>3, <1>7 DEF NamedInv

\* No text of the history is a result of the next answer's calls.
LEMMA NamedTurns ==
  ASSUME NEW n \in Nat, NEW F, NEW ts \in Seq(F), NEW x \in F, Len(ts) = n, NEW part,
         IsResponse(part) => part.text \in Seq(Data(n)), ResponseNamed(part, ts)
  PROVE  ResponseNamed(part, Append(ts, x))
<1> DEFINE t1 == Append(ts, x)
<1>1. Len(t1) = n + 1 /\ \A t \in 1 .. n : t1[t] = ts[t]
  BY AppendProperties
<1> HIDE DEF t1
<1>2. SUFFICES ASSUME IsResponse(part), NEW t \in 1 .. Len(t1), NEW k \in DOMAIN t1[t].says.calls,
                      part.text = <<<<t, k>>>>
               PROVE  part.name = t1[t].says.calls[k].name
  BY DEF ResponseNamed, t1
<1>3. <<<<t, k>>>> \in Seq(Data(n))
  BY <1>2
<1>4. t \in 0 .. n
  <2> DEFINE e == <<t, k>>
             D == Data(n)
  <2>1. <<e>> \in Seq(D)
    BY <1>3
  <2> HIDE DEF e, D
  <2>2. e \in D
    BY <2>1
  <2>3. e[1] = t /\ e[1] \in 0 .. n
    BY <2>2 DEF e, D, Data
  <2>4. QED
    BY <2>3
<1>5. t \in 1 .. n
  BY <1>1, <1>2, <1>4
<1>6. QED
  BY <1>1, <1>2, <1>5 DEF ResponseNamed

-----------------------------------------------------------------------------

\* The calls of an answer are named as they were said, and have ids of their own.
LEMMA ReceivedCalls ==
  ASSUME NEW blocks \in Seq(Strings), NEW cut \in BOOLEAN, NEW n \in Nat, NEW m, NEW said,
         IsReceived(m, said, blocks, cut, n)
  PROVE  /\ m.calls \in CallsOver(Data(n))
         /\ \A k \in 1 .. Len(m.calls) :
              /\ m.calls[k].id # NoId /\ m.calls[k].name # NoName
              /\ m.calls[k].name = said.says.calls[k].name
              /\ \A j \in 1 .. Len(m.calls) : m.calls[j].id = m.calls[k].id => j = k
<1> DEFINE c == m.calls
           s == said.says.calls
<1>1. c \in CallsOver(Data(n))
  BY MessageFields DEF IsReceived
<1>2. Len(c) \in Nat
  BY <1>1, CallFields
<1>3. \A k \in 1 .. Len(c) : c[k].id \in {<<n, k>>, <<0, k>>}
  BY DEF IsReceived
<1>4. CallsOfBlocks(s, blocks) /\ (SameCalls(c, s) \/ c = <<>>)
  BY DEF IsReceived
<1> HIDE DEF c, s
<1>5. \A k \in 1 .. Len(c) : \A j \in 1 .. Len(c) : c[j].id = c[k].id => j = k
  BY <1>3
<1>6. \A k \in 1 .. Len(c) : c[k].id # NoId
  <2>1. \A x, y : <<x, y>> # NoId
    BY DEF NoId
  <2>2. QED
    BY <1>3, <2>1
<1>7. ASSUME NEW k \in 1 .. Len(c)
      PROVE  c[k].name = s[k].name /\ c[k].name # NoName
  <2>1. SameCalls(c, s)
    BY <1>2, <1>4, <1>7
  <2>2. Len(c) = Len(s) /\ c[k].name = s[k].name
    BY <2>1, <1>7 DEF SameCalls
  <2>3. k \in 1 .. Len(s)
    BY <1>7, <2>2
  <2>4. s[k].name = blocks[CallPlaces(blocks)[k]] /\ k \in 1 .. Len(CallPlaces(blocks))
    BY <1>4, <2>3 DEF CallsOfBlocks
  <2>5. ~IsText(blocks[CallPlaces(blocks)[k]])
    BY <2>4, CallPlacesAre
  <2>6. QED
    BY <2>2, <2>4, <2>5 DEF IsText
<1>8. QED
  BY <1>1, <1>5, <1>6, <1>7 DEF c, s

\* So does an answer, whose ids may be those of an earlier one's calls.
LEMMA NamedByReceiving ==
  ASSUME Inv, NamedInv, Receive, TranslateResponse # <<>>
  PROVE  NamedInv'
<1> DEFINE n == Len(turns)
<1>0. PICK m : \E blocks \in Seq(Strings), cut \in BOOLEAN : Receives(m, blocks, cut, Turn)
  BY ReceiveGets
<1>1. PICK blocks \in Seq(Strings), cut \in BOOLEAN : Receives(m, blocks, cut, Turn)
  BY <1>0
<1>2. /\ IsReceived(m, Said, blocks, cut, Turn)
      /\ history' = Append(history, m) /\ turns' = Append(turns, Said)
  BY <1>1 DEF Receives
<1>3. /\ n \in Nat /\ history \in Seq(MessagesOver(Data(n))) /\ Turn = n + 1
      /\ turns \in Seq(TurnsOver(Data(n)))
  BY LenProperties DEF Inv, TypeInv, Turn
<1> HIDE DEF n
<1>4. Turn \in Nat /\ m \in MessagesOver(Data(n + 1)) /\ m.role = "assistant"
  BY <1>2, <1>3 DEF IsReceived
<1> DEFINE D == Data(n + 1)
           F == TurnsOver(Data(n)) \cup {Said}
           c == m.calls
<1>5. history \in Seq(MessagesOver(D)) /\ m \in MessagesOver(D)
  BY <1>3, <1>4, DataGrows, OverGrows
<1>6. turns \in Seq(F) /\ Said \in F
  <2>1. TurnsOver(Data(n)) \subseteq F /\ Said \in F
    OBVIOUS
  <2> HIDE DEF F
  <2>2. QED
    BY <1>3, <2>1, SeqMonotonic
<1> HIDE DEF D, F
<1>7. turns'[n + 1] = Said /\ Len(turns') = n + 1
  BY <1>2, <1>6, AppendProperties DEF n
<1>8. CurrentNamed'
  <2>1. LastAnswer(history') = Len(history) + 1
    BY <1>2, <1>4, <1>5, LastAnswerAppend
  <2>2. history'[Len(history) + 1] = m
    BY <1>2, <1>5, AppendProperties
  <2>3. LastCalls' = c
    BY <2>1, <2>2 DEF LastCalls
  <2>4. CallsOf(history') = CallsOf(history) \o c /\ CallsOf(history) \in CallsOver(D)
    BY <1>2, <1>5, CallsOfAppend
  <2>5. /\ c \in CallsOver(Data(Turn))
        /\ \A k \in 1 .. Len(c) :
             /\ c[k].id # NoId /\ c[k].name # NoName
             /\ c[k].name = Said.says.calls[k].name
             /\ \A j \in 1 .. Len(c) : c[j].id = c[k].id => j = k
    BY <1>2, <1>4, ReceivedCalls
  <2>6. c \in Seq(CallOver(D)) /\ CallsOf(history) \in Seq(CallOver(D))
    BY <1>3, <2>4, <2>5 DEF CallsOver, CallOver, D
  <2> HIDE DEF c
  <2>7. \A k \in 1 .. Len(c) : NameOf(CallsOf(history) \o c, c[k].id) = c[k].name
    BY <2>5, <2>6, NameOfConcat
  <2>8. \A k \in 1 .. Len(LastCalls') :
          NameOf(CallsOf(history'), LastCalls'[k].id) = turns'[Len(turns')].says.calls[k].name
    BY <1>7, <2>3, <2>4, <2>5, <2>7
  <2>9. QED
    BY <2>8 DEF CurrentNamed
<1>9. ResponsesOver(V!Contents(history), Data(n))
  BY <1>3, ResponsesTyped
<1> DEFINE M == V!Contents(history)
<1>10. ResponsesNamed(M, turns')
  <2>1. SUFFICES ASSUME NEW i \in 1 .. Len(M), NEW j \in DOMAIN M[i].parts
                 PROVE  ResponseNamed(M[i].parts[j], turns')
    BY DEF ResponsesNamed
  <2>2. ResponseNamed(M[i].parts[j], turns)
    BY DEF NamedInv, ResponsesNamed
  <2>3. IsResponse(M[i].parts[j]) => M[i].parts[j].text \in Seq(Data(n))
    BY <1>9 DEF ResponsesOver
  <2> DEFINE part == M[i].parts[j]
  <2>4. ResponseNamed(part, turns) /\ (IsResponse(part) => part.text \in Seq(Data(n)))
    BY <2>2, <2>3
  <2> HIDE DEF part
  <2>5. Len(turns) = n
    BY DEF n
  <2>6. ResponseNamed(part, Append(turns, Said))
    BY <1>3, <1>6, <2>4, <2>5, NamedTurns
  <2>7. QED
    BY <1>2, <2>6 DEF part
<1>11. ASSUME NEW x, ContentAfter(history, m) = <<x>>
       PROVE  \A j \in DOMAIN x.parts : ResponseNamed(x.parts[j], turns')
  <2>1. x = ModelContent(m)
    BY <1>4, <1>11, ContentAfterIs
  <2>2. x.parts = V!BuildAssistantParts(m)
    BY <2>1 DEF ModelContent
  <2>3. QED
    BY <1>4, <2>2, AnswerHasNoResponse, NotResponseIsNamed
<1>12. ResponsesNamed(V!Contents(Append(history, m)), turns')
  BY <1>5, <1>10, <1>11, NamedGrow
<1>13. ResponsesNamed(V!Contents(history'), turns')
  BY <1>2, <1>12
<1>14. QED
  BY <1>8, <1>13 DEF NamedInv

\* The responses stay named.
LEMMA NamedStep == Inv /\ NamedInv /\ [Next]_vars => NamedInv'
<1> SUFFICES ASSUME Inv, NamedInv, [Next]_vars
             PROVE  NamedInv'
  OBVIOUS
<1>1. CASE RunTool \/ Ask
  BY <1>1, NamedBySaying
<1>2. CASE Receive /\ TranslateResponse # <<>>
  BY <1>2, NamedByReceiving
<1>3. CASE ~RunTool /\ ~Ask /\ ~(Receive /\ TranslateResponse # <<>>)
  <2>1. history' = history /\ turns' = turns
    BY <1>3 DEF Next, Send, Refuse, ReplyFails, ReplyStopped, Reply, Receive, vars
  <2>2. V!Contents(history') = V!Contents(history) /\ CallsOf(history') = CallsOf(history)
        /\ LastCalls' = LastCalls
    BY <2>1 DEF LastCalls
  <2>3. QED
    BY <2>1, <2>2 DEF NamedInv, CurrentNamed
<1>4. QED
  BY <1>1, <1>2, <1>3

\* At the start no call has been answered.
LEMMA InitNamed == Init => NamedInv
<1> SUFFICES ASSUME Init
             PROVE  NamedInv
  OBVIOUS
<1>1. turns = <<>>
  BY DEF Init
<1>2. CurrentNamed
  BY <1>1 DEF CurrentNamed
<1>3. \A part : ResponseNamed(part, <<>>)
  BY DEF ResponseNamed
<1>4. QED
  BY <1>1, <1>2, <1>3 DEF NamedInv, ResponsesNamed

\* So they always are.
LEMMA NamedAlways == Spec => []NamedInv
BY ConversationInv, InitNamed, NamedStep, PTL DEF Spec

\* ResultsAreNamed follows.
LEMMA NamedResults == Inv /\ NamedInv => ResultsAreNamed
<1> SUFFICES ASSUME Inv, NamedInv, stage = "upstream", provider = "vertex",
                    NEW i \in DOMAIN wire.contents, NEW j \in DOMAIN wire.contents[i].parts
             PROVE  LET part == wire.contents[i].parts[j]
                    IN  part.type = "functionResponse" =>
                          \A t \in DOMAIN turns : \A k \in DOMAIN turns[t].says.calls :
                            part.text = <<<<t, k>>>> => part.name = turns[t].says.calls[k].name
  BY DEF ResultsAreNamed
<1>1. WireMessages = V!Contents(history)
  BY WireMessagesAre
<1>2. wire.contents = V!Contents(history)
  BY <1>1 DEF WireMessages, MessagesOf
<1>3. history \in Seq(MessagesOver(Data(Len(turns)))) /\ turns \in Seq(TurnsOver(Data(Len(turns))))
  BY DEF Inv, TypeInv
<1> DEFINE M == V!Contents(history)
<1>4. M \in Seq(ContentOf(history))
  BY <1>3, ContentPieces, FlattenType
<1> HIDE DEF M
<1>5. DOMAIN M = 1 .. Len(M)
  BY <1>4, LenProperties
<1>6. DOMAIN turns = 1 .. Len(turns)
  BY <1>3, LenProperties
<1>7. ResponseNamed(M[i].parts[j], turns)
  BY <1>2, <1>5 DEF NamedInv, ResponsesNamed, M
<1> DEFINE part == M[i].parts[j]
<1>8. part.type = "functionResponse" =>
        \A t \in DOMAIN turns : \A k \in DOMAIN turns[t].says.calls :
          part.text = <<<<t, k>>>> => part.name = turns[t].says.calls[k].name
  BY <1>6, <1>7 DEF ResponseNamed, IsResponse
<1>9. wire.contents[i].parts[j] = part
  BY <1>2 DEF M
<1> HIDE DEF part
<1>10. QED
  BY <1>8, <1>9

\* toolCallNames of Vertex: every response has the name of the function whose result it is,
\* though call_0 stands for a call of each of Vertex's answers.
THEOREM ResultsNamed == Spec => []ResultsAreNamed
BY ConversationInv, NamedAlways, NamedResults, PTL

-----------------------------------------------------------------------------
(* The results that follow the calls of an answer, in a request to         *)
(* Anthropic.                                                              *)

BlockUse(D) == [b \in BlocksOver(D) |-> IF b.type = "tool_use" THEN <<b>> ELSE <<>>]

\* ToolUses joins what the blocks contribute.
LEMMA ToolUsesMapped ==
  ASSUME NEW D, NEW s \in Seq(BlocksOver(D))
  PROVE  /\ ToolUses(s) = Mapped(BlockUse(D), s)
         /\ Maps(BlockUse(D), BlocksOver(D), BlocksOver(D))
<1> DEFINE E == BlocksOver(D)
<1>1. \A b \in E : BlockUse(D)[b] = IF b.type = "tool_use" THEN <<b>> ELSE <<>>
  BY DEF BlockUse
<1>2. DOMAIN BlockUse(D) = E /\ BlockUse(D) = [b \in E |-> BlockUse(D)[b]]
  BY DEF BlockUse
<1> HIDE DEF E
<1>3. s \in Seq(E)
  BY DEF E
<1>4. DOMAIN s = 1 .. Len(s) /\ \A i \in 1 .. Len(s) : s[i] \in E
  BY <1>3, LenProperties, ElementOfSeq
<1>5. ToolUses(s) = Mapped(BlockUse(D), s)
  BY <1>1, <1>4 DEF ToolUses, Mapped
<1>6. \A b \in E : BlockUse(D)[b] \in Seq(E)
  BY <1>1, ShortSequences
<1>7. Maps(BlockUse(D), E, E)
  BY <1>2, <1>6 DEF Maps
<1>8. QED
  BY <1>5, <1>7 DEF E

\* The tool_use blocks of an answer are those of its calls.
LEMMA ToolUsesOfAnswer ==
  ASSUME NEW D, NEW m \in MessagesOver(D)
  PROVE  ToolUses(A!BuildAssistantMessage(m).blocks) = ToolUsesOf(m.calls)
<1> DEFINE E == BlocksOver(D)
           g == BlockUse(D)
           a == TextBlocks(ExtractContentString(m))
           u == ToolUsesOf(m.calls)
           b == A!BuildAssistantMessage(m).blocks
<1>1. m.calls \in CallsOver(D) /\ ExtractContentString(m) \in Seq(D)
  BY MessageFields, TextType
<1>2. /\ u \in Seq(E) /\ Len(u) = Len(m.calls)
      /\ \A i \in 1 .. Len(m.calls) : u[i].type = "tool_use"
  <2> DEFINE c == m.calls
             use(i) == [type |-> "tool_use", id |-> c[i].id, name |-> c[i].name,
                        input |-> ParseArguments(c[i].arguments), text |-> <<>>]
  <2>1. u \in Seq(E) /\ Len(u) = Len(c) /\ \A i \in 1 .. Len(c) : u[i] = use(i)
    BY <1>1, ToolUsesOfCalls
  <2>2. \A i : use(i).type = "tool_use"
    OBVIOUS
  <2> HIDE DEF use, u, E
  <2>3. QED
    BY <2>1, <2>2
<1>3. a \in Seq(E)
  BY <1>1, TextBlocksSaid
<1>4. \A i \in 1 .. Len(a) : a[i].type = "text"
  <2>1. A!TextBlock(ExtractContentString(m)).type = "text"
    BY <1>1, TextBlockTyped
  <2>2. QED
    BY <2>1 DEF TextBlocks
<1>5. b = IF m.calls = <<>> THEN <<>> ELSE a \o u
  BY AssistantMessageIs
<1>6. \A x \in E : g[x] = IF x.type = "tool_use" THEN <<x>> ELSE <<>>
  BY DEF BlockUse
<1>7. m.calls = <<>> => u = <<>>
  <2> HIDE DEF u
  <2> QED
    BY <1>2, EmptySeq
<1> HIDE DEF E, g, a, u, b
<1>8. Maps(g, E, E) /\ \A s \in Seq(E) : ToolUses(s) = Mapped(g, s)
  <2>1. Seq(E) # {}
    BY <1>2
  <2>2. QED
    BY <2>1, ToolUsesMapped DEF E, g
<1>9. Mapped(g, a) = <<>>
  <2>1. \A i \in 1 .. Len(a) : g[a[i]] = <<>>
    BY <1>3, <1>4, <1>6, ElementOfSeq
  <2>2. QED
    BY <1>3, <1>8, <2>1, MappedNothing
<1>10. Mapped(g, u) = u
  <2>1. \A i \in 1 .. Len(u) : g[u[i]] = <<u[i]>>
    BY <1>2, <1>6, ElementOfSeq
  <2>2. QED
    BY <1>2, <2>1, MappedSingles DEF Singles
<1>11. CASE m.calls = <<>>
  <2>1. b = <<>> /\ b \in Seq(E)
    BY <1>5, <1>11, ShortSequences
  <2>2. ToolUses(b) = <<>>
    BY <1>8, <2>1, MappedOfEmpty
  <2>3. QED
    BY <1>7, <1>11, <2>2 DEF b, u
<1>12. CASE m.calls # <<>>
  <2>1. b = a \o u /\ b \in Seq(E)
    BY <1>2, <1>3, <1>5, <1>12, ConcatProperties
  <2>2. Mapped(g, a \o u) = Mapped(g, a) \o Mapped(g, u)
    BY <1>2, <1>3, <1>8, MappedConcat
  <2>3. <<>> \o u = u
    BY <1>2, ConcatEmptySeq
  <2>4. ToolUses(b) = u
    BY <1>8, <1>9, <1>10, <2>1, <2>2, <2>3
  <2>5. QED
    BY <2>4 DEF b, u
<1>13. QED
  BY <1>11, <1>12

-----------------------------------------------------------------------------

\* A list of messages grows at its end; its last message may, if it is no answer.
Grows(s, s1) ==
  /\ Len(s) <= Len(s1)
  /\ \A i \in 1 .. Len(s) : s1[i] = s[i] \/ (i = Len(s) /\ ~IsAnswer(s[i]))

\* Appending leaves the messages before alone.
LEMMA AppendGrows ==
  ASSUME NEW E, NEW s \in Seq(E), NEW m \in E
  PROVE  Grows(s, Append(s, m))
<1>1. Len(s) \in Nat /\ Len(Append(s, m)) = Len(s) + 1
      /\ \A i \in 1 .. Len(s) : Append(s, m)[i] = s[i]
  BY AppendProperties, LenProperties
<1>2. QED
  BY <1>1 DEF Grows

\* So does a result, but for an open message at the end; the answers stay in place.
LEMMA ResultGrows ==
  ASSUME NEW D, NEW s \in Seq(AnthropicMessages(D)), NEW r \in BlocksOver(D)
  PROVE  /\ Grows(s, AppendedResult(s, r))
         /\ AnswerPlaces(AppendedResult(s, r)) = AnswerPlaces(s)
<1> DEFINE E == AnthropicMessages(D)
           x == AppendedResult(s, r)
           n == Len(s)
<1>1. /\ x \in Seq(E)
      /\ Len(x) = IF Open(s) THEN n ELSE n + 1
      /\ \A i \in 1 .. n : (Open(s) /\ i = n) \/ x[i] = s[i]
      /\ x[Len(x)] = IF Open(s) THEN UserMessage(s[n].text, Append(s[n].blocks, r))
                     ELSE UserMessage(<<>>, <<r>>)
  BY AppendedResultIs
<1>2. n \in Nat
  BY LenProperties
<1>3. \A text, blocks : ~IsAnswer(UserMessage(text, blocks))
  BY DEF IsAnswer, UserMessage
<1>4. CASE Open(s)
  <2>1. ~IsAnswer(s[n]) /\ ~IsAnswer(x[n]) /\ Len(x) = n
    BY <1>1, <1>3, <1>4 DEF IsAnswer, Open
  <2> HIDE DEF x, n
  <2>2. \A i \in 1 .. n : IsAnswer(s[i]) <=> IsAnswer(x[i])
    BY <1>1, <2>1
  <2>3. AnswerPlaces(s) = AnswerPlaces(x)
    BY <2>1, <2>2, SameRolesSamePlaces DEF n
  <2>4. Grows(s, x)
    BY <1>1, <1>2, <2>1 DEF Grows, n
  <2>5. QED
    BY <2>3, <2>4 DEF x
<1>5. CASE ~Open(s)
  <2>1. x = Append(s, UserMessage(<<>>, <<r>>))
    BY <1>5 DEF AppendedResult
  <2>2. UserMessage(<<>>, <<r>>) \in E
    <3>1. <<>> \in Seq(D) /\ <<r>> \in Seq(BlocksOver(D))
      OBVIOUS
    <3>2. QED
      BY <3>1, UserMessageTyped
  <2>3. QED
    BY <1>3, <2>1, <2>2, AnswerPlacesAppend, AppendGrows
<1>6. QED
  BY <1>4, <1>5

-----------------------------------------------------------------------------

ResultOf(block, call, t, k) ==
  block.type = "tool_result" /\ block.id = call.id /\ block.text = <<<<t, k>>>>

\* The message after that at p has the results of its calls, answer t's.
Answered(s, p, t) ==
  LET calls == ToolUses(s[p].blocks)
      results == s[p + 1].blocks
  IN  calls # <<>> =>
        /\ p + 1 <= Len(s)
        /\ Len(results) = Len(calls)
        /\ \A k \in DOMAIN calls : \E j \in DOMAIN results : ResultOf(results[j], calls[k], t, k)

\* And no more are added to it.
Settled(s, p, t) == Answered(s, p, t) /\ (ToolUses(s[p].blocks) # <<>> => p + 1 < Len(s))

\* Results that are complete, with a message behind them, stay so.
LEMMA SettledGrows ==
  ASSUME NEW s, NEW s1, Len(s) \in Nat, Len(s1) \in Nat, Grows(s, s1),
         NEW p \in 1 .. Len(s), IsAnswer(s[p]), NEW t, Settled(s, p, t)
  PROVE  Settled(s1, p, t) /\ IsAnswer(s1[p])
<1>1. s1[p] = s[p] /\ Len(s) <= Len(s1)
  BY DEF Grows
<1>2. CASE ToolUses(s[p].blocks) = <<>>
  BY <1>1, <1>2 DEF Settled, Answered
<1>3. CASE ToolUses(s[p].blocks) # <<>>
  <2>1. p + 1 < Len(s)
    BY <1>3 DEF Settled
  <2>2. p + 1 \in 1 .. Len(s) /\ p + 1 # Len(s)
    BY <2>1
  <2>3. s1[p + 1] = s[p + 1]
    BY <2>2 DEF Grows
  <2>4. p + 1 < Len(s1) /\ p + 1 <= Len(s1)
    BY <1>1, <2>1
  <2>5. QED
    BY <1>1, <1>3, <2>3, <2>4 DEF Settled, Answered
<1>4. QED
  BY <1>2, <1>3

\* Where the last n answers are.
Place(s, n, t) == AnswerPlaces(s)[Len(AnswerPlaces(s)) - n + t]

\* The results of these calls, of answer n at p, but those of the pending ones.
InProgress(s, p, calls, pending, n) ==
  calls # <<>> =>
    \/ Len(s) = p /\ pending = 1 .. Len(calls)
    \/ /\ Len(s) = p + 1 /\ Open(s)
       /\ Len(s[p + 1].blocks) + Cardinality(pending) = Len(calls)
       /\ \A k \in 1 .. Len(calls) :
            \/ k \in pending
            \/ \E j \in 1 .. Len(s[p + 1].blocks) : ResultOf(s[p + 1].blocks[j], calls[k], n, k)

\* Of the last n answers, the last of them m, the results are in the messages, but those of
\* the pending calls of m.
FollowedIn(s, n, m, pending) ==
  /\ n <= Len(AnswerPlaces(s))
  /\ \A t \in 1 .. n : t < n => Settled(s, Place(s, n, t), t)
  /\ n > 0 =>
       /\ s[Place(s, n, n)] = A!BuildAssistantMessage(m)
       /\ InProgress(s, Place(s, n, n), m.calls, pending, n)

\* At the places of the answers are answers.
LEMMA PlaceType ==
  ASSUME NEW s, Len(s) \in Nat, NEW n \in Nat, n <= Len(AnswerPlaces(s)), NEW t \in 1 .. n
  PROVE  Place(s, n, t) \in 1 .. Len(s) /\ IsAnswer(s[Place(s, n, t)])
<1> DEFINE own == AnswerPlaces(s)
           i == Len(own) - n + t
<1>1. own \in Seq(1 .. Len(s)) /\ \A j \in 1 .. Len(own) : IsAnswer(s[own[j]])
  BY AnswerPlacesType
<1> HIDE DEF own
<1>2. Len(own) \in Nat
  BY <1>1, LenProperties
<1>3. i \in 1 .. Len(own)
  <2>1. n <= Len(own)
    BY DEF own
  <2>2. QED
    BY <1>2, <2>1
<1> HIDE DEF i
<1>4. own[i] \in 1 .. Len(s) /\ IsAnswer(s[own[i]])
  <2> DEFINE S == 1 .. Len(s)
  <2>1. own \in Seq(S)
    BY <1>1
  <2> HIDE DEF S
  <2>2. own[i] \in S
    BY <1>3, <2>1, ElementOfSeq
  <2>3. QED
    BY <1>1, <1>3, <2>2 DEF S
<1>5. QED
  BY <1>4 DEF Place, own, i

\* What was complete stays so when messages grow without a new answer.
LEMMA OlderStay ==
  ASSUME NEW s, NEW s1, Len(s) \in Nat, Len(s1) \in Nat, Grows(s, s1),
         AnswerPlaces(s1) = AnswerPlaces(s), NEW n \in Nat, NEW m, NEW pending,
         FollowedIn(s, n, m, pending)
  PROVE  /\ n <= Len(AnswerPlaces(s1))
         /\ \A t \in 1 .. n : Place(s1, n, t) = Place(s, n, t)
         /\ \A t \in 1 .. n : t < n => Settled(s1, Place(s1, n, t), t)
         /\ n > 0 => s1[Place(s1, n, n)] = A!BuildAssistantMessage(m)
<1>1. n <= Len(AnswerPlaces(s)) /\ n <= Len(AnswerPlaces(s1))
  BY DEF FollowedIn
<1>2. \A t : Place(s1, n, t) = Place(s, n, t)
  BY DEF Place
<1>3. \A t \in 1 .. n : Place(s, n, t) \in 1 .. Len(s) /\ IsAnswer(s[Place(s, n, t)])
  BY <1>1, PlaceType
<1>4. ASSUME NEW t \in 1 .. n, t < n
      PROVE  Settled(s1, Place(s1, n, t), t)
  <2>1. Settled(s, Place(s, n, t), t)
    BY <1>4 DEF FollowedIn
  <2>2. QED
    BY <1>2, <1>3, <2>1, SettledGrows
<1>5. ASSUME n > 0
      PROVE  s1[Place(s1, n, n)] = A!BuildAssistantMessage(m)
  <2>1. n \in 1 .. n
    BY <1>5
  <2>2. s1[Place(s, n, n)] = s[Place(s, n, n)]
    BY <1>3, <2>1 DEF Grows
  <2>3. QED
    BY <1>2, <1>5, <2>2 DEF FollowedIn
<1>6. QED
  BY <1>1, <1>2, <1>4, <1>5

-----------------------------------------------------------------------------

\* These are the results of the calls of answer n, but those of the pending ones.
ResultsIn(results, calls, pending, n) ==
  /\ Len(results) + Cardinality(pending) = Len(calls)
  /\ \A k \in 1 .. Len(calls) :
       k \in pending \/ \E j \in 1 .. Len(results) : ResultOf(results[j], calls[k], n, k)

\* One more result, and one call less that is pending.
LEMMA ResultsGrow ==
  ASSUME NEW B, NEW b \in Seq(B), NEW r \in B, NEW calls, Len(calls) \in Nat, NEW n,
         NEW pending \in SUBSET (1 .. Len(calls)), NEW k \in pending,
         ResultOf(r, calls[k], n, k), ResultsIn(b, calls, pending, n)
  PROVE  ResultsIn(Append(b, r), calls, pending \ {k}, n)
<1> DEFINE b1 == Append(b, r)
           l == Len(b)
           c == Len(calls)
           rest == pending \ {k}
<1>1. l \in Nat /\ Len(b1) = l + 1 /\ b1[l + 1] = r /\ \A j \in 1 .. l : b1[j] = b[j]
  BY AppendProperties, LenProperties
<1>2. IsFiniteSet(pending)
  <2> HIDE DEF c
  <2>1. c \in Int /\ 1 \in Int /\ pending \in SUBSET (1 .. c)
    BY DEF c
  <2>2. IsFiniteSet(1 .. c)
    BY <2>1, FS_Interval
  <2>3. QED
    BY <2>1, <2>2, FS_Subset
<1>3. /\ Cardinality(rest) = Cardinality(pending) - 1 /\ Cardinality(pending) \in Nat
  BY <1>2, FS_RemoveElement, FS_CardinalityType
<1>4. l + Cardinality(pending) = c
  BY DEF ResultsIn
<1> HIDE DEF b1, l, c
<1>5. Len(b1) + Cardinality(rest) = c
  <2> HIDE DEF rest
  <2> QED
    BY <1>1, <1>3, <1>4
<1>6. ASSUME NEW i \in 1 .. c, i \notin rest
      PROVE  \E j \in 1 .. Len(b1) : ResultOf(b1[j], calls[i], n, i)
  <2>1. CASE i = k
    BY <1>1, <2>1
  <2>2. CASE i # k
    <3>1. i \notin pending
      BY <1>6, <2>2
    <3>2. PICK j \in 1 .. l : ResultOf(b[j], calls[i], n, i)
      BY <1>6, <3>1 DEF ResultsIn, c, l
    <3>3. j \in 1 .. Len(b1) /\ b1[j] = b[j]
      BY <1>1
    <3>4. QED
      BY <3>2, <3>3
  <2>3. QED
    BY <2>1, <2>2
<1>7. QED
  BY <1>5, <1>6 DEF ResultsIn, b1, c

\* InProgress in terms of ResultsIn.
LEMMA InProgressIs ==
  ASSUME NEW s, NEW p, NEW calls, NEW pending, NEW n
  PROVE  InProgress(s, p, calls, pending, n) <=>
           (calls # <<>> =>
              \/ Len(s) = p /\ pending = 1 .. Len(calls)
              \/ Len(s) = p + 1 /\ Open(s) /\ ResultsIn(s[p + 1].blocks, calls, pending, n))
BY DEF InProgress, ResultsIn

\* A result joins those of the same answer, or is the first behind it.
LEMMA FollowedResult ==
  ASSUME NEW D, NEW s \in Seq(AnthropicMessages(D)), NEW n \in Nat, n > 0,
         NEW m \in MessagesOver(D), NEW pending \in SUBSET (1 .. Len(m.calls)), NEW k \in pending,
         NEW r \in BlocksOver(D), ResultOf(r, m.calls[k], n, k), FollowedIn(s, n, m, pending)
  PROVE  FollowedIn(AppendedResult(s, r), n, m, pending \ {k})
<1> DEFINE x == AppendedResult(s, r)
           p == Place(s, n, n)
           B == BlocksOver(D)
           calls == m.calls
           rest == pending \ {k}
<1>1. /\ x \in Seq(AnthropicMessages(D)) /\ Grows(s, x) /\ AnswerPlaces(x) = AnswerPlaces(s)
      /\ Len(s) \in Nat /\ Len(x) \in Nat
  BY AppendedResultIs, ResultGrows, LenProperties
<1>2. /\ n <= Len(AnswerPlaces(x))
      /\ \A t \in 1 .. n : Place(x, n, t) = Place(s, n, t)
      /\ \A t \in 1 .. n : t < n => Settled(x, Place(x, n, t), t)
      /\ n > 0 => x[Place(x, n, n)] = A!BuildAssistantMessage(m)
  <2> HIDE DEF x
  <2> QED
    BY <1>1, OlderStay
<1>3. p \in 1 .. Len(s) /\ IsAnswer(s[p]) /\ Place(x, n, n) = p
  <2>1. n \in 1 .. n /\ n <= Len(AnswerPlaces(s))
    BY DEF FollowedIn
  <2>2. QED
    BY <1>1, <1>2, <2>1, PlaceType
<1>4. Len(calls) \in Nat /\ calls # <<>>
  <2>1. calls \in CallsOver(D)
    BY MessageFields
  <2>2. Len(calls) \in Nat /\ Len(<<>>) = 0 /\ k \in 1 .. Len(calls)
    BY <2>1, CallFields
  <2> HIDE DEF calls
  <2>3. QED
    BY <2>2
<1>5. \/ Len(s) = p /\ pending = 1 .. Len(calls)
      \/ Len(s) = p + 1 /\ Open(s) /\ ResultsIn(s[p + 1].blocks, calls, pending, n)
  BY <1>4, InProgressIs DEF FollowedIn
<1>6. /\ Len(x) = IF Open(s) THEN Len(s) ELSE Len(s) + 1
      /\ x[Len(x)] = IF Open(s) THEN UserMessage(s[Len(s)].text, Append(s[Len(s)].blocks, r))
                     ELSE UserMessage(<<>>, <<r>>)
  BY AppendedResultIs
<1>7. \E b \in Seq(B) : /\ Len(x) = p + 1 /\ ResultsIn(b, calls, pending, n)
                        /\ x[p + 1].role = "user" /\ x[p + 1].blocks = Append(b, r)
  <2>1. CASE Len(s) = p /\ pending = 1 .. Len(calls)
    <3>1. ~Open(s)
      BY <1>3, <2>1 DEF Open, IsAnswer
    <3>2. Len(x) = p + 1 /\ x[p + 1] = UserMessage(<<>>, <<r>>)
      BY <1>6, <2>1, <3>1
    <3>3. x[p + 1].role = "user" /\ x[p + 1].blocks = Append(<<>>, r)
      BY <3>2 DEF UserMessage
    <3>4. Cardinality(pending) = Len(calls)
      <4> DEFINE c == Len(calls)
      <4>1. c \in Nat /\ pending = 1 .. c
        BY <1>4, <2>1
      <4> HIDE DEF c
      <4>2. Cardinality(1 .. c) = IF 1 > c THEN 0 ELSE c - 1 + 1
        BY <4>1, FS_Interval
      <4>3. Cardinality(1 .. c) = c
        BY <4>1, <4>2
      <4>4. QED
        BY <4>1, <4>3 DEF c
    <3>5. ResultsIn(<<>>, calls, pending, n)
      <4> HIDE DEF calls
      <4> QED
        BY <1>4, <2>1, <3>4 DEF ResultsIn
    <3>6. <<>> \in Seq(B)
      BY ShortSequences
    <3>7. QED
      BY <3>2, <3>3, <3>5, <3>6
  <2>2. CASE Len(s) = p + 1 /\ Open(s) /\ ResultsIn(s[p + 1].blocks, calls, pending, n)
    <3> DEFINE b == s[p + 1].blocks
    <3>1. Len(x) = p + 1 /\ x[p + 1] = UserMessage(s[p + 1].text, Append(b, r))
      BY <1>6, <2>2
    <3>2. x[p + 1].role = "user" /\ x[p + 1].blocks = Append(b, r)
      BY <3>1 DEF UserMessage
    <3>3. s[p + 1] \in AnthropicMessages(D)
      <4>1. p + 1 \in 1 .. Len(s)
        BY <1>3, <2>2
      <4>2. QED
        BY <4>1, ElementOfSeq
    <3>4. b \in Seq(B)
      BY <3>3 DEF AnthropicMessages
    <3> HIDE DEF b
    <3>5. ResultsIn(b, calls, pending, n)
      BY <2>2 DEF b
    <3>6. QED
      BY <3>1, <3>2, <3>4, <3>5
  <2>3. QED
    BY <1>5, <2>1, <2>2
<1>8. PICK b \in Seq(B) : /\ Len(x) = p + 1 /\ ResultsIn(b, calls, pending, n)
                          /\ x[p + 1].role = "user" /\ x[p + 1].blocks = Append(b, r)
  BY <1>7
<1> HIDE DEF x, p, calls, B
<1>9. ResultsIn(x[p + 1].blocks, calls, rest, n)
  <2>1. ResultsIn(Append(b, r), calls, rest, n)
    <3>1. /\ pending \in SUBSET (1 .. Len(calls)) /\ ResultOf(r, calls[k], n, k) /\ r \in B
          /\ ResultsIn(b, calls, pending, n) /\ b \in Seq(B)
      BY <1>8 DEF calls, B
    <3>2. QED
      BY <1>4, <3>1, ResultsGrow
  <2>2. QED
    BY <1>8, <2>1
<1>10. Open(x)
  <2>1. Append(b, r) # <<>>
    BY <1>8, AppendProperties
  <2>2. x # <<>> /\ x[Len(x)].role = "user" /\ x[Len(x)].blocks # <<>>
    <3>1. Len(x) # 0
      BY <1>3, <1>8
    <3>2. x # <<>>
      BY <3>1
    <3>3. QED
      BY <1>8, <2>1, <3>2
  <2>3. QED
    BY <2>2 DEF Open
<1>11. InProgress(x, p, calls, rest, n)
  BY <1>8, <1>9, <1>10, InProgressIs
<1>12. QED
  BY <1>2, <1>3, <1>11 DEF FollowedIn, x, calls

-----------------------------------------------------------------------------

\* A question may follow an answer without calls.
LEMMA FollowedQuestion ==
  ASSUME NEW E, NEW s \in Seq(E), NEW x \in E, ~IsAnswer(x), NEW n \in Nat, NEW m, m.calls = <<>>,
         NEW pending, NEW rest, FollowedIn(s, n, m, pending)
  PROVE  FollowedIn(Append(s, x), n, m, rest)
<1> DEFINE s1 == Append(s, x)
<1>1. /\ Grows(s, s1) /\ AnswerPlaces(s1) = AnswerPlaces(s)
      /\ Len(s) \in Nat /\ Len(s1) \in Nat
  BY AppendGrows, AnswerPlacesAppend, AppendProperties, LenProperties
<1> HIDE DEF s1
<1>2. /\ n <= Len(AnswerPlaces(s1))
      /\ \A t \in 1 .. n : Place(s1, n, t) = Place(s, n, t)
      /\ \A t \in 1 .. n : t < n => Settled(s1, Place(s1, n, t), t)
      /\ n > 0 => s1[Place(s1, n, n)] = A!BuildAssistantMessage(m)
  BY <1>1, OlderStay
<1>3. InProgress(s1, Place(s1, n, n), m.calls, rest, n)
  BY DEF InProgress
<1>4. QED
  BY <1>2, <1>3 DEF FollowedIn, s1

\* When no call is pending the results are all there.
LEMMA FollowedAll ==
  ASSUME NEW D, NEW s \in Seq(AnthropicMessages(D)), NEW n \in Nat, NEW m, FollowedIn(s, n, m, {}),
         n > 0 => m \in MessagesOver(D), NEW t \in 1 .. n
  PROVE  Answered(s, Place(s, n, t), t)
<1> DEFINE p == Place(s, n, n)
           c == m.calls
           u == ToolUses(s[p].blocks)
           results == s[p + 1].blocks
<1>1. CASE t < n
  BY <1>1 DEF FollowedIn, Settled
<1>2. CASE t = n
  <2>1. n > 0 /\ m \in MessagesOver(D)
    BY <1>2
  <2>2. s[p] = A!BuildAssistantMessage(m) /\ InProgress(s, p, c, {}, n)
    BY <2>1 DEF FollowedIn
  <2>3. c \in CallsOver(D)
    BY <2>1, MessageFields
  <2>4. u = ToolUsesOf(c)
    BY <2>1, <2>2, ToolUsesOfAnswer
  <2>5. /\ Len(u) = Len(c) /\ Len(c) \in Nat /\ DOMAIN u = 1 .. Len(c)
        /\ \A k \in 1 .. Len(c) : u[k].id = c[k].id
    <3> DEFINE v == ToolUsesOf(c)
               use(i) == [type |-> "tool_use", id |-> c[i].id, name |-> c[i].name,
                          input |-> ParseArguments(c[i].arguments), text |-> <<>>]
    <3>1. v \in Seq(BlocksOver(D)) /\ Len(v) = Len(c) /\ \A i \in 1 .. Len(c) : v[i] = use(i)
      BY <2>3, ToolUsesOfCalls
    <3>2. \A i : use(i).id = c[i].id
      OBVIOUS
    <3>3. Len(c) \in Nat
      BY <2>3, CallFields
    <3> HIDE DEF use, v, u, c
    <3>4. DOMAIN v = 1 .. Len(v)
      BY <3>1, LenProperties
    <3>5. QED
      BY <2>4, <3>1, <3>2, <3>3, <3>4 DEF v
  <2>6. Len(c) = 0 => u = <<>>
    <3> DEFINE v == ToolUsesOf(c)
    <3>1. v \in Seq(BlocksOver(D)) /\ Len(v) = Len(c)
      BY <2>3, ToolUsesOfCalls
    <3> HIDE DEF u, c, v
    <3>2. Len(c) = 0 => v = <<>>
      BY <3>1, EmptySeq
    <3>3. QED
      BY <2>4, <3>2 DEF v
  <2> HIDE DEF u, c
  <2>7. SUFFICES ASSUME u # <<>>
                 PROVE  /\ p + 1 <= Len(s) /\ Len(results) = Len(u)
                        /\ \A k \in DOMAIN u : \E j \in DOMAIN results :
                             ResultOf(results[j], u[k], t, k)
    BY <1>2 DEF Answered, u
  <2>8. Len(c) > 0 /\ c # <<>>
    BY <2>5, <2>6, <2>7
  <2>9. 1 \in 1 .. Len(c)
    BY <2>5, <2>8
  <2>10. Len(s) = p + 1 /\ ResultsIn(results, c, {}, n)
    BY <2>2, <2>8, <2>9, InProgressIs
  <2>11. p \in 1 .. Len(s) /\ Len(s) \in Nat
    <3>1. n \in 1 .. n /\ n <= Len(AnswerPlaces(s)) /\ Len(s) \in Nat
      BY <2>1, LenProperties DEF FollowedIn
    <3>2. QED
      BY <3>1, PlaceType
  <2>12. results \in Seq(BlocksOver(D))
    <3>1. p + 1 \in 1 .. Len(s)
      BY <2>10, <2>11
    <3>2. s[p + 1] \in AnthropicMessages(D)
      BY <3>1, ElementOfSeq
    <3>3. QED
      BY <3>2 DEF AnthropicMessages
  <2> HIDE DEF results, p
  <2>13. Len(results) \in Nat /\ DOMAIN results = 1 .. Len(results)
    BY <2>12, LenProperties
  <2>14. Len(results) = Len(u)
    <3>1. Cardinality({}) = 0
      BY FS_EmptySet
    <3>2. Len(results) + Cardinality({}) = Len(c)
      BY <2>10 DEF ResultsIn
    <3>3. Len(results) + 0 = Len(c)
      BY <3>1, <3>2
    <3>4. Len(u) = Len(c) /\ Len(c) \in Nat
      BY <2>5
    <3> DEFINE x == Len(results)
               y == Len(c)
    <3>5. x \in Nat /\ x + 0 = y
      BY <2>13, <3>3
    <3> HIDE DEF x, y
    <3>6. x = y
      BY <3>5
    <3>7. QED
      BY <3>4, <3>6 DEF x, y
  <2>15. ASSUME NEW k \in DOMAIN u
         PROVE  \E j \in DOMAIN results : ResultOf(results[j], u[k], t, k)
    <3>1. k \in 1 .. Len(c)
      BY <2>5
    <3>2. PICK j \in 1 .. Len(results) : ResultOf(results[j], c[k], n, k)
      BY <2>10, <3>1 DEF ResultsIn
    <3>3. u[k].id = c[k].id
      BY <2>5, <3>1
    <3>4. ResultOf(results[j], u[k], t, k)
      BY <1>2, <3>2, <3>3 DEF ResultOf
    <3>5. QED
      BY <2>13, <3>4
  <2>16. QED
    BY <2>10, <2>11, <2>14, <2>15
<1>3. QED
  BY <1>1, <1>2

-----------------------------------------------------------------------------

\* With the next answer all its calls are pending.
LEMMA FollowedAnswer ==
  ASSUME NEW D, NEW s \in Seq(AnthropicMessages(D)), NEW n \in Nat, NEW m, FollowedIn(s, n, m, {}),
         n > 0 => m \in MessagesOver(D), NEW m1 \in MessagesOver(D)
  PROVE  FollowedIn(Append(s, A!BuildAssistantMessage(m1)), n + 1, m1, 1 .. Len(m1.calls))
<1> DEFINE b == A!BuildAssistantMessage(m1)
           s1 == Append(s, b)
           own == AnswerPlaces(s)
           own1 == AnswerPlaces(s1)
           l == Len(own)
           pending == 1 .. Len(m1.calls)
           M == AnthropicMessages(D)
<1>1. b \in M /\ IsAnswer(b)
  BY AnthropicKeeps DEF IsAnswer
<1> HIDE DEF b, M
<1>2. s \in Seq(M)
  BY DEF M
<1>3. own1 = Append(own, Len(s) + 1)
  BY <1>1, <1>2, AnswerPlacesAppend
<1>4. Len(s) \in Nat /\ Len(s1) = Len(s) + 1 /\ s1[Len(s) + 1] = b
      /\ \A i \in 1 .. Len(s) : s1[i] = s[i]
  BY <1>1, <1>2, AppendProperties, LenProperties
<1>5. n <= l
  BY DEF FollowedIn
<1>6. l \in Nat /\ Len(own1) = l + 1 /\ own1[l + 1] = Len(s) + 1
      /\ \A i \in 1 .. l : own1[i] = own[i]
  <2> DEFINE P == Nat
             x == Len(s) + 1
  <2>1. own \in Seq(P) /\ x \in P
    <3>1. own \in Seq(1 .. Len(s))
      BY <1>4, AnswerPlacesType
    <3>2. 1 .. Len(s) \subseteq P
      BY <1>4
    <3> HIDE DEF own
    <3>3. own \in Seq(P)
      BY <3>1, <3>2, SeqMonotonic
    <3>4. QED
      BY <1>4, <3>3
  <2> HIDE DEF P, own, x, s1
  <2>2. own1 = Append(own, x)
    BY <1>3 DEF x
  <2>3. QED
    BY <2>1, <2>2, AppendProperties, LenProperties DEF x
<1>7. \A t \in 1 .. n : Place(s1, n + 1, t) = Place(s, n, t)
  <2>1. TAKE t \in 1 .. n
  <2> HIDE DEF own, own1
  <2>2. Place(s1, n + 1, t) = own1[Len(own1) - (n + 1) + t] /\ Place(s, n, t) = own[l - n + t]
    BY DEF Place, own, own1
  <2> HIDE DEF l
  <2>3. (l + 1) - (n + 1) + t = l - n + t /\ l - n + t \in 1 .. l
    BY <1>5, <1>6
  <2>4. QED
    BY <1>6, <2>2, <2>3
<1>8. Place(s1, n + 1, n + 1) = Len(s) + 1
  <2> HIDE DEF own, own1
  <2>1. Place(s1, n + 1, n + 1) = own1[Len(own1) - (n + 1) + (n + 1)]
    BY DEF Place, own1
  <2> HIDE DEF l
  <2>2. (l + 1) - (n + 1) + (n + 1) = l + 1
    BY <1>6
  <2>3. QED
    BY <1>6, <2>1, <2>2
<1>9. ASSUME NEW t \in 1 .. n
      PROVE  Settled(s1, Place(s, n, t), t)
  <2> DEFINE p == Place(s, n, t)
  <2>1. p \in 1 .. Len(s)
    BY <1>4, <1>5, PlaceType
  <2>2. Answered(s, p, t)
    BY FollowedAll
  <2> HIDE DEF p, s1
  <2>3. s1[p] = s[p]
    BY <1>4, <2>1
  <2>4. CASE ToolUses(s[p].blocks) = <<>>
    BY <2>3, <2>4 DEF Settled, Answered, p
  <2>5. CASE ToolUses(s[p].blocks) # <<>>
    <3>1. p + 1 <= Len(s)
      BY <2>2, <2>5 DEF Answered
    <3>2. p + 1 \in 1 .. Len(s) /\ p + 1 < Len(s1) /\ p + 1 <= Len(s1)
      BY <1>4, <2>1, <3>1
    <3>3. s1[p + 1] = s[p + 1]
      BY <1>4, <3>2
    <3>4. Answered(s1, p, t)
      BY <2>2, <2>3, <3>2, <3>3 DEF Answered
    <3>5. QED
      BY <3>2, <3>4 DEF Settled, p
  <2>6. QED
    BY <2>4, <2>5
<1> HIDE DEF s1, own, own1, l, pending
<1>10. n + 1 <= Len(AnswerPlaces(s1))
  BY <1>5, <1>6 DEF own1
<1>11. \A t \in 1 .. n + 1 : t < n + 1 => Settled(s1, Place(s1, n + 1, t), t)
  <2>1. TAKE t \in 1 .. n + 1
  <2>2. HAVE t < n + 1
  <2>3. t \in 1 .. n
    BY <2>2
  <2>4. QED
    BY <1>7, <1>9, <2>3
<1>12. s1[Place(s1, n + 1, n + 1)] = b
  BY <1>4, <1>8
<1>13. InProgress(s1, Place(s1, n + 1, n + 1), m1.calls, pending, n + 1)
  BY <1>4, <1>8, InProgressIs DEF pending
<1>14. FollowedIn(s1, n + 1, m1, pending)
  BY <1>10, <1>11, <1>12, <1>13 DEF FollowedIn, b
<1>15. QED
  BY <1>14 DEF s1, b, pending

-----------------------------------------------------------------------------

IdsApart ==
  turns # <<>> =>
    \A j \in 1 .. Len(LastCalls) : \A k \in 1 .. Len(LastCalls) :
      LastCalls[j].id = LastCalls[k].id => j = k

FollowInv ==
  /\ IdsApart
  /\ FollowedIn(A!Messages(history), Len(turns), history[LastAnswer(history)], Pending)

\* Once there is an answer, the last one is a message of the history.
LEMMA LastAnswerTyped ==
  ASSUME Inv, turns # <<>>
  PROVE  /\ history[LastAnswer(history)] \in MessagesOver(Data(Len(turns)))
         /\ LastCalls \in CallsOver(Data(Len(turns)))
         /\ LastAnswer(history) \in 1 .. Len(history)
<1>1. LastAnswer(history) \in 1 .. Len(history)
  BY LastAnswerAdded DEF Inv
<1>2. history \in Seq(MessagesOver(Data(Len(turns))))
  BY DEF Inv, TypeInv
<1>3. history[LastAnswer(history)] \in MessagesOver(Data(Len(turns)))
  BY <1>1, <1>2, ElementOfSeq
<1>4. QED
  BY <1>1, <1>3, MessageFields DEF LastCalls

\* A message of the client, which is no answer, leaves the last answer where it was.
LEMMA LastAnswerStays ==
  ASSUME Inv, turns # <<>>, NEW m \in MessagesOver(Data(Len(turns))), m.role # "assistant",
         history' = Append(history, m), turns' = turns
  PROVE  /\ LastAnswer(history') = LastAnswer(history)
         /\ history'[LastAnswer(history)] = history[LastAnswer(history)]
         /\ LastCalls' = LastCalls
<1>1. history \in Seq(MessagesOver(Data(Len(turns))))
  BY DEF Inv, TypeInv
<1>2. LastAnswer(history) \in 1 .. Len(history)
  BY LastAnswerTyped
<1>3. LastAnswer(history') = LastAnswer(history)
  BY <1>1, LastAnswerAppend
<1>4. history'[LastAnswer(history)] = history[LastAnswer(history)]
  BY <1>1, <1>2, AppendProperties
<1>5. QED
  BY <1>3, <1>4 DEF LastCalls

-----------------------------------------------------------------------------

\* The calls of the last answer of h whose results are not in it.
PendingIn(h) ==
  {k \in DOMAIN h[LastAnswer(h)].calls :
     \A i \in LastAnswer(h) + 1 .. Len(h) : h[i].tool_call_id # h[LastAnswer(h)].calls[k].id}

\* What is pending, before and after a step.
LEMMA PendingInIs ==
  /\ Pending = IF LastAnswer(history) = 0 \/ turns = <<>> THEN {} ELSE PendingIn(history)
  /\ Pending' = IF LastAnswer(history') = 0 \/ turns' = <<>> THEN {} ELSE PendingIn(history')
BY DEF Pending, PendingIn, SelectLastInSeq, LastAnswer

\* What is pending once a message is added that is no answer.
LEMMA PendingAfter ==
  ASSUME NEW E, NEW h \in Seq(E), NEW m \in E, NEW a, a = LastAnswer(h), a \in 1 .. Len(h),
         LastAnswer(Append(h, m)) = a
  PROVE  PendingIn(Append(h, m)) =
           {k \in PendingIn(h) : m.tool_call_id # h[a].calls[k].id}
<1> DEFINE h1 == Append(h, m)
           n == Len(h)
<1>1. /\ n \in Nat /\ Len(h1) = n + 1 /\ h1[n + 1] = m
      /\ \A i \in 1 .. n : h1[i] = h[i]
  BY AppendProperties, LenProperties
<1>2. PendingIn(h1) = {k \in DOMAIN h1[a].calls :
                         \A i \in a + 1 .. Len(h1) : h1[i].tool_call_id # h1[a].calls[k].id}
  BY DEF PendingIn
<1>3. PendingIn(h) = {k \in DOMAIN h[a].calls :
                        \A i \in a + 1 .. n : h[i].tool_call_id # h[a].calls[k].id}
  BY DEF PendingIn
<1> HIDE DEF h1, n
<1>4. h1[a] = h[a]
  BY <1>1 DEF n
<1>5. ASSUME NEW id
      PROVE  (\A i \in a + 1 .. Len(h1) : h1[i].tool_call_id # id) <=>
               (\A i \in a + 1 .. n : h[i].tool_call_id # id) /\ m.tool_call_id # id
  <2>1. a \in 1 .. n
    BY DEF n
  <2>2. \A i \in a + 1 .. n : i \in a + 1 .. Len(h1) /\ h1[i] = h[i]
    BY <1>1, <2>1
  <2>3. n + 1 \in a + 1 .. Len(h1)
    BY <1>1, <2>1
  <2>4. \A i \in a + 1 .. Len(h1) : i \in a + 1 .. n \/ i = n + 1
    BY <1>1, <2>1
  <2>5. QED
    BY <1>1, <2>2, <2>3, <2>4
<1> DEFINE X == DOMAIN h[a].calls
           id(k) == h[a].calls[k].id
           here(k) == \A i \in a + 1 .. n : h[i].tool_call_id # id(k)
           there(k) == \A i \in a + 1 .. Len(h1) : h1[i].tool_call_id # id(k)
<1>6. PendingIn(h1) = {k \in X : there(k)}
  BY <1>2, <1>4
<1>7. PendingIn(h) = {k \in X : here(k)}
  BY <1>3
<1>8. \A k : there(k) <=> here(k) /\ m.tool_call_id # id(k)
  BY <1>5
<1> HIDE DEF X, here, there
<1>9. PendingIn(h1) = {k \in PendingIn(h) : m.tool_call_id # id(k)}
  BY <1>6, <1>7, <1>8
<1>10. QED
  BY <1>9 DEF h1

\* The result of a tool is sent behind its call.
LEMMA FollowedByRunTool ==
  ASSUME Inv, FollowInv, RunTool
  PROVE  FollowInv'
<1> DEFINE n == Len(turns)
           D == Data(n)
           a == LastAnswer(history)
           M == A!Messages(history)
           c == LastCalls
<1>1. PICK k \in Pending : history' = Append(history, ResultMessage(n, k, c[k].id))
  BY RunToolIs DEF LastCalls
<1>2. turns # <<>> /\ a # 0 /\ Pending = PendingIn(history) /\ k \in DOMAIN c
  BY <1>1, PendingInIs, PendingIs DEF LastCalls
<1>3. turns' = turns
  BY DEF RunTool, GoOn
<1>4. /\ a \in 1 .. Len(history) /\ history[a] \in MessagesOver(D) /\ c \in CallsOver(D)
      /\ n \in Nat /\ history \in Seq(MessagesOver(D)) /\ n > 0
  <2>1. turns \in Seq(TurnsOver(Data(Len(turns)))) /\ history \in Seq(MessagesOver(D))
    BY DEF Inv, TypeInv
  <2>2. n \in Nat /\ n > 0
    <3> DEFINE T == TurnsOver(Data(Len(turns)))
    <3>1. turns \in Seq(T)
      BY <2>1
    <3> HIDE DEF T
    <3>2. Len(turns) \in Nat /\ Len(turns) # 0
      BY <1>2, <3>1, LenProperties, EmptySeq
    <3>3. QED
      BY <3>2
  <2>3. QED
    BY <1>2, <2>1, <2>2, LastAnswerTyped
<1>5. /\ Len(c) \in Nat /\ DOMAIN c = 1 .. Len(c) /\ k \in 1 .. Len(c)
      /\ k \in Nat /\ c[k].id \in Seq(Nat)
  BY <1>2, <1>4, CallFields
<1> DEFINE m == ResultMessage(n, k, c[k].id)
           r == A!ToolResult(m)
<1>6. m \in MessagesOver(D)
  BY <1>4, <1>5, ClientMessagesTyped
<1>7. m.role = "tool" /\ m.tool_call_id = c[k].id /\ m.content = StringContent(<<<<n, k>>>>)
  BY DEF ResultMessage
<1>8. r \in BlocksOver(D) /\ ResultOf(r, c[k], n, k)
  <2>1. /\ r \in BlocksOver(D)
        /\ r = [type |-> "tool_result", id |-> m.tool_call_id, name |-> NoName,
                input |-> NoArguments, text |-> ExtractContentString(m)]
    BY <1>6, ToolResultTyped
  <2>2. ExtractContentString(m) = <<<<n, k>>>>
    <3> DEFINE e == <<n, k>>
    <3>1. m.content = StringContent(<<e>>)
      BY <1>7
    <3> HIDE DEF e, m
    <3>2. <<e>> \in Seq({e})
      BY ShortSequences
    <3>3. ExtractContentString(m) = <<e>>
      BY <3>1, <3>2, TextOfString
    <3>4. QED
      BY <3>3 DEF e
  <2> HIDE DEF m, r, c
  <2>3. r.type = "tool_result" /\ r.id = c[k].id /\ r.text = <<<<n, k>>>>
    BY <1>7, <2>1, <2>2
  <2>4. QED
    BY <2>1, <2>3 DEF ResultOf
<1> HIDE DEF m, r
<1>9. history' = Append(history, m)
  BY <1>1 DEF m
<1>10. /\ LastAnswer(history') = a /\ history'[a] = history[a] /\ LastCalls' = LastCalls
  BY <1>2, <1>3, <1>6, <1>7, <1>9, LastAnswerStays
<1>11. A!Messages(history') = AppendedResult(M, r) /\ M \in Seq(AnthropicMessages(D))
  <2> DEFINE E == MessagesOver(D)
  <2>1. history \in Seq(E) /\ m \in E
    BY <1>4, <1>6
  <2> HIDE DEF E
  <2>2. A!Messages(Append(history, m)) = A!AppendMessage(M, m)
    BY <2>1, MessagesAppend
  <2>3. A!AppendMessage(M, m) = AppendedResult(M, r)
    BY <1>7, AppendMessageIs DEF r
  <2>4. QED
    BY <1>4, <1>9, <2>2, <2>3, MessagesTyped
<1>12. Pending' = Pending \ {k} /\ Pending \in SUBSET (1 .. Len(c))
  <2>1. c = history[a].calls
    BY DEF LastCalls
  <2>2. PendingIn(Append(history, m)) =
          {j \in PendingIn(history) : m.tool_call_id # history[a].calls[j].id}
    <3> DEFINE E == MessagesOver(D)
    <3>1. history \in Seq(E) /\ m \in E /\ LastAnswer(Append(history, m)) = a
      BY <1>4, <1>6, <1>9, <1>10
    <3> HIDE DEF E
    <3>2. QED
      BY <1>4, <3>1, PendingAfter
  <2>3. PendingIn(history) \subseteq 1 .. Len(c)
    BY <1>5, <2>1 DEF PendingIn
  <2>4. Pending' = PendingIn(history')
    BY <1>2, <1>3, <1>10, PendingInIs
  <2>5. \A j \in 1 .. Len(c) : c[k].id = c[j].id <=> j = k
    BY <1>2, <1>5 DEF FollowInv, IdsApart
  <2> HIDE DEF a, c
  <2>6. QED
    BY <1>2, <1>7, <1>9, <2>1, <2>2, <2>3, <2>4, <2>5
<1>13. FollowedIn(M, n, history[a], Pending)
  BY DEF FollowInv
<1>14. history[a].calls = c
  BY DEF LastCalls
<1> HIDE DEF M, D, a, c
<1>15. FollowedIn(AppendedResult(M, r), n, history[a], Pending \ {k})
  BY <1>1, <1>4, <1>8, <1>11, <1>12, <1>13, <1>14, FollowedResult
<1>16. FollowedIn(A!Messages(history'), n, history'[LastAnswer(history')], Pending')
  BY <1>10, <1>11, <1>12, <1>15
<1>17. IdsApart'
  BY <1>3, <1>10 DEF FollowInv, IdsApart
<1>18. QED
  BY <1>3, <1>16, <1>17 DEF FollowInv, n

-----------------------------------------------------------------------------

\* A question does not come between calls and results.
LEMMA FollowedByAsk ==
  ASSUME Inv, FollowInv, Ask
  PROVE  FollowInv'
<1> DEFINE n == Len(turns)
           D == Data(n)
           a == LastAnswer(history)
           M == A!Messages(history)
           m == Question(Turn)
           E == MessagesOver(D)
<1>1. history' = Append(history, m) /\ turns # <<>> /\ turns' = turns
      /\ history[Len(history)].role = "assistant" /\ history[Len(history)].calls = <<>>
  BY AskIs, SameLast DEF Ask, GoOn
<1>2. m.role = "user"
  BY DEF Question
<1>3. n \in Nat /\ history \in Seq(E)
  BY LenProperties DEF Inv, TypeInv
<1>4. m \in E
  <2>1. <<>> \in Seq(Nat) /\ 0 \in 0 .. n /\ Turn \in Nat
    BY <1>3 DEF Turn
  <2> HIDE DEF n
  <2>2. QED
    BY <1>3, <2>1, ClientMessagesTyped
<1> HIDE DEF m
<1>5. a \in 1 .. Len(history) /\ history[a] \in E
  BY <1>1, LastAnswerTyped
<1>6. LastAnswer(history') = a /\ history'[a] = history[a] /\ LastCalls' = LastCalls
  BY <1>1, <1>2, <1>4, LastAnswerStays
<1>7. history[a].calls = <<>>
  <2> HIDE DEF E
  <2>1. Len(history) \in Nat
    BY <1>3, LenProperties
  <2>2. Len(history) \in 1 .. Len(history)
    BY <1>5, <2>1
  <2>3. Len(history) <= a
    BY <1>1, <2>1, <2>2, LastAnswerIs
  <2>4. a = Len(history)
    BY <1>5, <2>1, <2>3
  <2>5. QED
    BY <1>1, <2>4
<1> DEFINE u == UserMessage(ExtractContentString(m), <<>>)
           F == AnthropicMessages(D)
<1>8. u \in F /\ ~IsAnswer(u)
  <2>1. ExtractContentString(m) \in Seq(D) /\ <<>> \in Seq(BlocksOver(D))
    BY <1>4, TextType
  <2>2. u \in F
    BY <2>1, UserMessageTyped
  <2>3. ~IsAnswer(u)
    BY DEF UserMessage, IsAnswer
  <2>4. QED
    BY <2>2, <2>3
<1>9. M \in Seq(F)
  BY <1>3, MessagesTyped
<1>10. A!Messages(history') = Append(M, u)
  <2> HIDE DEF E
  <2>1. A!Messages(Append(history, m)) = A!AppendMessage(M, m)
    BY <1>3, <1>4, MessagesAppend
  <2>2. A!AppendMessage(M, m) = Append(M, u)
    BY <1>2, AppendMessageIs
  <2>3. QED
    BY <1>1, <2>1, <2>2
<1> HIDE DEF M, u, F, a, E
<1>11. FollowedIn(M, n, history[a], Pending)
  BY DEF FollowInv, M, a
<1>12. \A rest : FollowedIn(Append(M, u), n, history[a], rest)
  BY <1>3, <1>7, <1>8, <1>9, <1>11, FollowedQuestion
<1>13. FollowedIn(A!Messages(history'), n, history'[LastAnswer(history')], Pending')
  BY <1>6, <1>10, <1>12
<1>14. IdsApart'
  BY <1>1, <1>6 DEF FollowInv, IdsApart
<1>15. QED
  BY <1>1, <1>13, <1>14 DEF FollowInv

\* An answer comes only when no call is pending.
LEMMA FollowedByReceiving ==
  ASSUME Inv, FollowInv, Receive, TranslateResponse # <<>>
  PROVE  FollowInv'
<1> DEFINE n == Len(turns)
<1>0. PICK m : \E blocks \in Seq(Strings), cut \in BOOLEAN : Receives(m, blocks, cut, Turn)
  BY ReceiveGets
<1>1. PICK blocks \in Seq(Strings), cut \in BOOLEAN : Receives(m, blocks, cut, Turn)
  BY <1>0
<1>2. /\ IsReceived(m, Said, blocks, cut, Turn)
      /\ history' = Append(history, m) /\ turns' = Append(turns, Said)
  BY <1>1 DEF Receives
<1>3. /\ n \in Nat /\ history \in Seq(MessagesOver(Data(n))) /\ Turn = n + 1
      /\ turns \in Seq(TurnsOver(Data(n)))
  BY LenProperties DEF Inv, TypeInv, Turn
<1>4. turns = <<>> \/ n > 0
  <2> DEFINE T == TurnsOver(Data(n))
  <2>1. turns \in Seq(T)
    BY <1>3
  <2> HIDE DEF T
  <2>2. n = 0 => turns = <<>>
    BY <2>1, EmptySeq
  <2>3. QED
    BY <1>3, <2>2
<1> DEFINE a == LastAnswer(history)
           M == A!Messages(history)
           D == Data(n + 1)
           E == MessagesOver(D)
           F == AnthropicMessages(D)
           b == A!BuildAssistantMessage(m)
<1>5. n > 0 => history[a] \in MessagesOver(Data(n))
  <2>1. turns = <<>> => n = 0
    OBVIOUS
  <2>2. QED
    BY <2>1, LastAnswerTyped
<1>6. Pending = {}
  BY DEF Inv, WireInv, Receive
<1>7. FollowedIn(M, n, history[a], {})
  BY <1>6 DEF FollowInv
<1>8. Len(turns') = n + 1 /\ turns' # <<>>
  <2> DEFINE T == TurnsOver(Data(n)) \cup {Said}
  <2>1. TurnsOver(Data(n)) \subseteq T /\ Said \in T
    OBVIOUS
  <2> HIDE DEF T
  <2>2. turns \in Seq(T)
    BY <1>3, <2>1, SeqMonotonic
  <2>3. QED
    BY <1>2, <2>1, <2>2, AppendProperties
<1> HIDE DEF n
<1>9. m \in E /\ m.role = "assistant" /\ Turn \in Nat
  BY <1>2, <1>3 DEF IsReceived
<1>10. history \in Seq(E) /\ (n > 0 => history[a] \in E)
  BY <1>3, <1>5, DataGrows, OverGrows
<1>11. M \in Seq(F)
  BY <1>10, MessagesTyped
<1>12. FollowedIn(Append(M, b), n + 1, m, 1 .. Len(m.calls))
  <2> HIDE DEF M, a
  <2> QED
    BY <1>3, <1>7, <1>9, <1>10, <1>11, FollowedAnswer
<1>13. A!Messages(history') = Append(M, b)
  <2> HIDE DEF E
  <2>1. A!Messages(Append(history, m)) = A!AppendMessage(M, m)
    BY <1>9, <1>10, MessagesAppend
  <2>2. A!AppendMessage(M, m) = Append(M, b)
    BY <1>9, AppendMessageIs
  <2>3. QED
    BY <1>2, <2>1, <2>2
<1>14. /\ Len(history) \in Nat /\ Len(history') = Len(history) + 1
       /\ LastAnswer(history') = Len(history) + 1 /\ history'[Len(history) + 1] = m
  <2> HIDE DEF E
  <2> QED
    BY <1>2, <1>9, <1>10, LastAnswerAppend, AppendProperties, LenProperties
<1>15. history'[LastAnswer(history')] = m /\ LastCalls' = m.calls
  BY <1>14 DEF LastCalls
<1>16. /\ m.calls \in CallsOver(Data(Turn))
       /\ \A k \in 1 .. Len(m.calls) :
            /\ m.calls[k].id # NoId /\ m.calls[k].name # NoName
            /\ m.calls[k].name = Said.says.calls[k].name
            /\ \A j \in 1 .. Len(m.calls) : m.calls[j].id = m.calls[k].id => j = k
  BY <1>2, <1>9, ReceivedCalls
<1>17. Pending' = 1 .. Len(m.calls)
  <2>1. Pending' = PendingIn(history')
    BY <1>8, <1>14, PendingInIs
  <2>2. DOMAIN m.calls = 1 .. Len(m.calls)
    BY <1>16, CallFields
  <2>3. LastAnswer(history') + 1 .. Len(history') = {}
    BY <1>14
  <2>4. PendingIn(history') = DOMAIN m.calls
    BY <1>15, <2>3 DEF PendingIn
  <2>5. QED
    BY <2>1, <2>2, <2>4
<1>18. FollowedIn(A!Messages(history'), Len(turns'), history'[LastAnswer(history')], Pending')
  BY <1>8, <1>12, <1>13, <1>15, <1>17
<1>19. IdsApart'
  BY <1>15, <1>16 DEF IdsApart
<1>20. QED
  BY <1>18, <1>19 DEF FollowInv

\* Results stay behind their calls.
LEMMA FollowStep == Inv /\ FollowInv /\ [Next]_vars => FollowInv'
<1> SUFFICES ASSUME Inv, FollowInv, [Next]_vars
             PROVE  FollowInv'
  OBVIOUS
<1>1. CASE RunTool
  BY <1>1, FollowedByRunTool
<1>2. CASE Ask
  BY <1>2, FollowedByAsk
<1>3. CASE Receive /\ TranslateResponse # <<>>
  BY <1>3, FollowedByReceiving
<1>4. CASE ~RunTool /\ ~Ask /\ ~(Receive /\ TranslateResponse # <<>>)
  <2>1. history' = history /\ turns' = turns
    BY <1>4 DEF Next, Send, Refuse, ReplyFails, ReplyStopped, Reply, Receive, vars
  <2>2. Pending' = Pending /\ LastCalls' = LastCalls
    BY <2>1, PendingStays DEF LastCalls
  <2>3. QED
    BY <2>1, <2>2 DEF FollowInv, IdsApart
<1>5. QED
  BY <1>1, <1>2, <1>3, <1>4

\* At the start there is no call.
LEMMA InitFollow == Init => FollowInv
<1> SUFFICES ASSUME Init
             PROVE  FollowInv
  OBVIOUS
<1>1. turns = <<>> /\ Inv
  BY InitInv DEF Init
<1>2. IdsApart
  BY <1>1 DEF IdsApart
<1> DEFINE M == A!Messages(history)
           D == Data(Len(turns))
<1>3. M \in Seq(AnthropicMessages(D))
  BY <1>1, MessagesTyped DEF Inv, TypeInv
<1> HIDE DEF M, D
<1>4. Len(AnswerPlaces(M)) \in Nat
  <2>1. Len(M) \in Nat
    BY <1>3, LenProperties
  <2>2. AnswerPlaces(M) \in Seq(1 .. Len(M))
    BY <2>1, AnswerPlacesType
  <2>3. QED
    BY <2>2, LenProperties
<1>5. Len(turns) = 0
  BY <1>1
<1>6. FollowedIn(M, Len(turns), history[LastAnswer(history)], Pending)
  BY <1>4, <1>5 DEF FollowedIn
<1>7. QED
  BY <1>2, <1>6 DEF FollowInv, M

\* So they always do.
LEMMA FollowAlways == Spec => []FollowInv
BY ConversationInv, InitFollow, FollowStep, PTL DEF Spec

\* ResultsFollowTheirCalls follows.
LEMMA FollowedResults == Inv /\ FollowInv => ResultsFollowTheirCalls
<1> DEFINE n == Len(turns)
           M == A!Messages(history)
<1> SUFFICES ASSUME Inv, FollowInv, stage = "upstream", provider = "anthropic",
                    NEW t \in DOMAIN turns
             PROVE  LET calls == ToolUses(wire.messages[AnswerAt(t)].blocks)
                        results == wire.messages[AnswerAt(t) + 1].blocks
                    IN  calls # <<>> =>
                          /\ Len(results) = Len(calls)
                          /\ \A k \in DOMAIN calls : \E j \in DOMAIN results :
                               /\ results[j].type = "tool_result"
                               /\ results[j].id = calls[k].id
                               /\ results[j].text = <<<<t, k>>>>
  BY DEF ResultsFollowTheirCalls
<1>1. WireMessages = M
  BY WireMessagesAre
<1>2. wire.messages = M
  BY <1>1 DEF WireMessages, MessagesOf
<1>3. /\ n \in Nat /\ history \in Seq(MessagesOver(Data(n)))
      /\ turns \in Seq(TurnsOver(Data(n)))
  BY LenProperties DEF Inv, TypeInv
<1>4. DOMAIN turns = 1 .. n
  <2> DEFINE T == TurnsOver(Data(n))
  <2>1. turns \in Seq(T)
    BY <1>3
  <2> HIDE DEF T
  <2>2. QED
    BY <2>1, LenProperties
<1>5. t \in 1 .. n /\ turns # <<>>
  BY <1>3, <1>4
<1>6. history[LastAnswer(history)] \in MessagesOver(Data(n))
  BY <1>5, LastAnswerTyped
<1>7. Pending = {}
  BY DEF Inv, WireInv
<1>8. FollowedIn(M, n, history[LastAnswer(history)], {})
  BY <1>7 DEF FollowInv
<1>9. M \in Seq(AnthropicMessages(Data(n)))
  BY <1>3, MessagesTyped
<1>10. AnswerAt(t) = Place(M, n, t)
  BY <1>1 DEF AnswerAt, Place
<1> HIDE DEF M, n
<1>11. Answered(M, Place(M, n, t), t)
  BY <1>3, <1>5, <1>6, <1>8, <1>9, FollowedAll
<1> DEFINE p == Place(M, n, t)
<1>12. LET calls == ToolUses(M[p].blocks)
           results == M[p + 1].blocks
       IN  calls # <<>> =>
             /\ Len(results) = Len(calls)
             /\ \A k \in DOMAIN calls : \E j \in DOMAIN results :
                  /\ results[j].type = "tool_result"
                  /\ results[j].id = calls[k].id
                  /\ results[j].text = <<<<t, k>>>>
  <2> HIDE DEF p
  <2>1. Answered(M, p, t)
    BY <1>11 DEF p
  <2> DEFINE calls == ToolUses(M[p].blocks)
             results == M[p + 1].blocks
  <2>2. calls # <<>> => /\ Len(results) = Len(calls)
                        /\ \A k \in DOMAIN calls : \E j \in DOMAIN results :
                             ResultOf(results[j], calls[k], t, k)
    BY <2>1 DEF Answered
  <2> HIDE DEF calls, results
  <2>3. calls # <<>> => /\ Len(results) = Len(calls)
                        /\ \A k \in DOMAIN calls : \E j \in DOMAIN results :
                             /\ results[j].type = "tool_result"
                             /\ results[j].id = calls[k].id
                             /\ results[j].text = <<<<t, k>>>>
    BY <2>2 DEF ResultOf
  <2>4. QED
    BY <2>3 DEF calls, results
<1>13. wire.messages[AnswerAt(t)] = M[p] /\ wire.messages[AnswerAt(t) + 1] = M[p + 1]
  BY <1>2, <1>10
<1> HIDE DEF p
<1>14. QED
  BY <1>12, <1>13

\* appendToolResult: the results of an answer's calls, in whatever order the tools ended, are
\* the blocks of the one message that follows the answer.
THEOREM ResultsFollow == Spec => []ResultsFollowTheirCalls
BY ConversationInv, FollowAlways, FollowedResults, PTL
=============================================================================
