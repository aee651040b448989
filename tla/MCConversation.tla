--------------------------- MODULE MCConversation ---------------------------
(***************************************************************************)
(* An instance of Conversation for TLC: two functions, answers of at most  *)
(* two blocks, every tool_choice, and openings that each translator        *)
(* accepts or refuses.                                                     *)
(***************************************************************************)
EXTENDS Conversation

MCText == StringContent(<<<<0, 0>>>>)
MCUser == ChatMessage("user", MCText)
MCImages == ChatMessage("user", <<[type |-> "data URI", data |-> <<0, 0>>],
                                    [type |-> "link", data |-> <<0, 0>>]>>)
MCFunction(name) == [ChatMessage("function", MCText) EXCEPT !.name = name]

MCOpenings ==
  {<<ChatMessage("system", MCText)>>,
   <<ChatMessage("developer", MCText), MCImages>>,
   <<MCUser, ChatMessage("tool", MCText)>>,
   <<MCUser, MCFunction("f")>>,
   <<MCFunction(NoName)>>,
   <<ChatMessage("narrator", MCText), MCUser>>}

MCTools ==
  {[type |-> "function", function |-> "f"], [type |-> "function", function |-> "g"],
   [type |-> "custom", function |-> NoName]}

MCLimited(tools, mode, name, completion, max) ==
  [tools |-> tools, tool_choice |-> Choice(mode, name),
   limits |-> [max_completion_tokens |-> completion, max_tokens |-> max]]

MCSetting(tools, mode, name) == MCLimited(tools, mode, name, NoLimit, NoLimit)

\* Every opening with a free choice, and every choice with a plain question; without tools,
\* limits of one and of one and a half tokens that the other field would make larger.
MCClients ==
  [opening : MCOpenings, settings : {MCSetting(MCTools, "auto", NoName)}]
  \cup [opening : {<<MCUser>>},
        settings : {MCSetting(MCTools, mode, NoName) : mode \in {"absent", "none", "required"}}
                   \cup {MCSetting(MCTools, "function", "g"),
                         MCSetting({}, "required", NoName),
                         MCLimited({}, "absent", NoName, Tokens(1), Tokens(2)),
                         MCLimited({}, "absent", NoName, 0, 3),
                         MCLimited({}, "absent", NoName, -2, Tokens(1))}]
=============================================================================
