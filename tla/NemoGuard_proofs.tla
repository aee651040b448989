-------------------------- MODULE NemoGuard_proofs --------------------------
(***************************************************************************)
(* Proofs about NemoGuard, for any requests, messages, configurations and  *)
(* widths of a Duration.                                                   *)
(***************************************************************************)
EXTENDS NemoGuard, FlattenTheorems

Stages == {"new", "called", "passed", "BadRequest", "ServiceUnavailable", "Forbidden"}

\* TypeOK with the types of the numbers and of asked, and a timeout that ends calls.
Inv ==
  /\ TypeOK
  /\ timeout \in Nat \ {0}
  /\ elapsed \in [Requests -> Nat]
  /\ asked = [r \in Requests |-> asked[r]]

\* No configuration makes a timeout of zero, which http.Client takes for none, or a negative
\* one: not zero itself, no negative number, and none whose product wraps around.
LEMMA TimeoutIsPositive ==
  ASSUME NEW seconds \in Int
  PROVE  Timeout(seconds) \in Nat \ {0}
<1>1. 2 ^ Width \in Nat \ {0} /\ Second \in Nat \ {0} /\ DefaultSeconds \in Nat \ {0}
  BY NemoAssumption
<1>2. seconds * Second \in Int
  BY <1>1
<1>3. (seconds * Second) % (2 ^ Width) \in Int
  BY <1>1, <1>2
<1>4. Duration(seconds) \in Int
  BY <1>1, <1>3 DEF Duration
<1>5. DefaultSeconds * Second \in Nat \ {0}
  BY <1>1
<1>6. QED
  BY <1>4, <1>5 DEF Timeout

\* The configured timeout is positive from the start.
LEMMA InvInit == Init => Inv
<1> SUFFICES ASSUME Init PROVE Inv
  OBVIOUS
<1>1. timeout \in Nat \ {0}
  BY TimeoutIsPositive, NemoAssumption DEF Init
<1>2. QED
  BY <1>1 DEF Init, Inv, TypeOK

\* A decision changes the stage of one request to a final one.
LEMMA DecideStep ==
  ASSUME Inv, NEW r \in Requests, NEW outcome \in Stages \ {"called"}, Decide(r, outcome)
  PROVE  Inv'
<1>1. stage \in [Requests -> Stages] /\ UNCHANGED <<timeout, asked, reply, elapsed>>
      /\ stage' = [stage EXCEPT ![r] = outcome]
  BY DEF Inv, TypeOK, Stages, Decide
<1>2. /\ stage' \in [Requests -> Stages]
      /\ \A q \in Requests : stage'[q] = "called" => stage[q] = "called"
  BY <1>1
<1>3. QED
  BY <1>1, <1>2 DEF Inv, TypeOK, Stages

LEMMA InvStep == Inv /\ [Next]_vars => Inv'
<1> SUFFICES ASSUME Inv, [Next]_vars PROVE Inv'
  OBVIOUS
<1>0. /\ TypeOK /\ timeout \in Nat \ {0} /\ elapsed \in [Requests -> Nat]
      /\ stage \in [Requests -> Stages] /\ reply \in [Requests -> Replies \cup {"none"}]
      /\ \A r \in Requests : elapsed[r] <= timeout
  BY DEF Inv, TypeOK, Stages
<1>1. ASSUME NEW r \in Requests, PassUnmodelled(r) \/ RejectMalformed(r) \/ PassEmpty(r)
      PROVE  Inv'
  <2>1. Decide(r, "passed") \/ Decide(r, "BadRequest")
    BY <1>1 DEF PassUnmodelled, RejectMalformed, PassEmpty
  <2>2. QED
    BY <2>1, DecideStep DEF Stages
<1>2. ASSUME NEW r \in Requests, Call(r)
      PROVE  Inv'
  <2> DEFINE messages == ExtractMessages(body[r].messages)
  <2>1. /\ messages # <<>> /\ UNCHANGED <<timeout, reply, elapsed>>
        /\ stage' = [stage EXCEPT ![r] = "called"] /\ asked' = [asked EXCEPT ![r] = messages]
    BY <1>2 DEF Call, NothingToCheck
  <2>2. stage' \in [Requests -> Stages] /\ asked' = [q \in Requests |-> asked'[q]]
    BY <1>0, <2>1 DEF Stages, Inv
  <2>3. \A q \in Requests : stage'[q] = "called" => asked'[q] # <<>>
    BY <1>0, <2>1 DEF TypeOK, Inv
  <2>4. QED
    BY <1>0, <2>1, <2>2, <2>3 DEF Inv, TypeOK, Stages
<1>3. ASSUME NEW r \in Requests, NemoReplies(r)
      PROVE  Inv'
  <2>1. /\ UNCHANGED <<timeout, stage, asked, elapsed>>
        /\ \E answer \in Replies : reply' = [reply EXCEPT ![r] = answer]
    BY <1>3 DEF NemoReplies
  <2>2. reply' \in [Requests -> Replies \cup {"none"}]
    BY <1>0, <2>1
  <2>3. QED
    BY <1>0, <2>1, <2>2 DEF Inv, TypeOK
<1>4. ASSUME NEW r \in Requests, Receive(r)
      PROVE  Inv'
  <2>1. Verdict(reply[r]) \in Stages \ {"called"}
    BY DEF Verdict, Stages
  <2>2. QED
    BY <1>4, <2>1, DecideStep DEF Receive
<1>5. ASSUME NEW r \in Requests, CallFails(r) \/ TimesOut(r)
      PROVE  Inv'
  <2>1. Decide(r, "ServiceUnavailable")
    BY <1>5 DEF CallFails, TimesOut
  <2>2. QED
    BY <2>1, DecideStep DEF Stages
<1>6. ASSUME NEW r \in Requests, Tick(r)
      PROVE  Inv'
  <2>1. /\ elapsed[r] < timeout /\ elapsed' = [elapsed EXCEPT ![r] = @ + 1]
        /\ UNCHANGED <<timeout, stage, asked, reply>>
    BY <1>6 DEF Tick
  <2>2. elapsed' \in [Requests -> Nat] /\ \A q \in Requests : elapsed'[q] <= timeout
    BY <1>0, <2>1
  <2>3. QED
    BY <1>0, <2>1, <2>2 DEF Inv, TypeOK
<1>7. ASSUME UNCHANGED vars
      PROVE  Inv'
  BY <1>7 DEF vars, Inv, TypeOK
<1>8. QED
  BY <1>1, <1>2, <1>3, <1>4, <1>5, <1>6, <1>7 DEF Next

\* However the plugin is configured, no call lasts longer than its timeout and none is made
\* without a message, for any number of requests and any answers of the service.
THEOREM TypeCorrect == Spec => []TypeOK
<1>1. Inv => TypeOK
  BY DEF Inv
<1>2. QED
  BY <1>1, InvInit, InvStep, PTL DEF Spec

-----------------------------------------------------------------------------
(* What is asked about a request is what the property calls Checked.       *)

IsObject(messages) == {i \in DOMAIN messages : messages[i] # NotAnObject}

\* A body's messages are a sequence of messages and of what is no object.
LEMMA BodyMessages ==
  ASSUME NEW b \in Bodies
  PROVE  b.messages \in Seq(Message \cup {NotAnObject})
BY NemoAssumption DEF Bodies, BoundedSeq, SeqOf

\* extractMessages keeps the messages that are objects, in order.
LEMMA ObjectsChosen ==
  ASSUME NEW messages \in Seq(Message \cup {NotAnObject})
  PROVE  LET P == Places(IsObject(messages), Len(messages))
         IN  /\ Objects(messages) \in Seq([role : Roles, content : Texts \cup {NoText}])
             /\ Len(Objects(messages)) = Len(P)
             /\ \A k \in 1 .. Len(P) :
                  /\ P[k] \in IsObject(messages)
                  /\ Objects(messages)[k] = Object(messages[P[k]])
<1> DEFINE n == Len(messages)
           T == IsObject(messages)
           U == [role : Roles, content : Texts \cup {NoText}]
           p == [i \in 1 .. n |-> IF messages[i] = NotAnObject THEN <<>> ELSE <<Object(messages[i])>>]
<1>0. n \in Nat /\ DOMAIN messages = 1 .. n
  OBVIOUS
<1>1. \A i \in 1 .. n : i \in T <=> messages[i] # NotAnObject
  BY <1>0 DEF IsObject
<1>2. \A i \in 1 .. n : p[i] = IF messages[i] = NotAnObject THEN <<>> ELSE <<Object(messages[i])>>
  OBVIOUS
<1>3. ASSUME NEW i \in 1 .. n
      PROVE  p[i] \in Seq(U) /\ Len(p[i]) <= 1 /\ (i \in T <=> p[i] # <<>>)
  <2>1. CASE messages[i] = NotAnObject
    BY <1>1, <1>2, <2>1
  <2>2. CASE messages[i] # NotAnObject
    <3>1. messages[i] \in Message
      BY <2>2
    <3>2. Object(messages[i]) \in U
      BY <3>1 DEF Object, Message
    <3>3. p[i] = <<Object(messages[i])>>
      BY <1>2, <2>2
    <3> HIDE DEF U, p
    <3>4. QED
      BY <1>1, <2>2, <3>2, <3>3
  <2>3. QED
    BY <2>1, <2>2
<1>4. Objects(messages) = FlattenSeq(p)
  BY <1>0 DEF Objects
<1>5. p = [i \in 1 .. n |-> p[i]]
  OBVIOUS
<1> HIDE DEF p, U, T, n
<1>6. p \in Seq(Seq(U)) /\ Len(p) = n
  BY <1>0, <1>3, <1>5, PiecesType
<1>7. Chosen(p, T)
  BY <1>3, <1>6 DEF Chosen
<1>8. FlattenSeq(p) \in Seq(U)
  BY <1>6, FlattenType
<1>9. /\ Len(FlattenSeq(p)) = Len(Places(T, n))
      /\ \A k \in 1 .. Len(FlattenSeq(p)) :
           Places(T, n)[k] \in T \cap (1 .. n) /\ FlattenSeq(p)[k] = p[Places(T, n)[k]][1]
  BY <1>6, <1>7, FlattenChosen
<1>10. ASSUME NEW i \in T \cap (1 .. n)
       PROVE  p[i][1] = Object(messages[i])
  <2>1. p[i] = <<Object(messages[i])>>
    BY <1>1, <1>2
  <2>2. QED
    BY <2>1
<1>11. QED
  BY <1>4, <1>8, <1>9, <1>10 DEF T, U, n

\* The message that matters is among those asked about, whatever the others are.
LEMMA CheckedIsAsked ==
  ASSUME NEW messages \in Seq(Message \cup {NotAnObject}), NEW i \in Checked(messages)
  PROVE  \E j \in DOMAIN ExtractMessages(messages) :
           ExtractMessages(messages)[j] = Object(messages[i])
<1> DEFINE n == Len(messages)
           T == IsObject(messages)
           P == Places(T, n)
           objects == Objects(messages)
           user == {x \in T : IsUser(messages[x])}
           I == {k \in 1 .. Len(objects) : IsUser(objects[k])}
<1>0. n \in Nat /\ DOMAIN messages = 1 .. n /\ T \subseteq 1 .. n /\ i \in T
  BY DEF Checked, IsObject
<1>1. /\ objects \in Seq([role : Roles, content : Texts \cup {NoText}])
      /\ Len(objects) = Len(P)
      /\ \A k \in 1 .. Len(P) : P[k] \in T /\ objects[k] = Object(messages[P[k]])
  BY ObjectsChosen
<1>2. /\ \A k \in 1 .. Len(P) : \A j \in 1 .. k - 1 : P[j] < P[k]
      /\ \A x \in T : \E k \in 1 .. Len(P) : P[k] = x
  <2>1. T \cap (1 .. n) = T
    BY <1>0
  <2> HIDE DEF T, n
  <2>2. /\ \A k \in 1 .. Len(P) : \A j \in 1 .. k - 1 : P[j] < P[k]
        /\ \A x \in T \cap (1 .. n) : \E k \in 1 .. Len(P) : P[k] = x
    BY <1>0, PlacesIncreasing, PlacesFull
  <2>3. QED
    BY <2>1, <2>2
<1>3. Len(objects) \in Nat /\ DOMAIN objects = 1 .. Len(objects)
  BY <1>1
<1>4. PICK k \in 1 .. Len(objects) : P[k] = i
  BY <1>0, <1>1, <1>2
<1>5. \A x \in 1 .. Len(objects) : x \in I <=> P[x] \in user
  <2>1. ASSUME NEW x \in 1 .. Len(objects)
        PROVE  x \in I <=> P[x] \in user
    <3>1. P[x] \in T /\ objects[x] = Object(messages[P[x]])
      BY <1>1
    <3>2. objects[x].role = messages[P[x]].role
      BY <3>1 DEF Object
    <3> HIDE DEF T, P, objects
    <3>3. QED
      BY <3>1, <3>2 DEF IsUser
  <2>2. QED
    BY <2>1
<1>6. ExtractMessages(messages) = IF I = {} THEN objects ELSE <<objects[Max(I)]>>
  <2>1. \A x \in I : x # 0
    OBVIOUS
  <2>2. I # {} => Max(I) \in I
    BY <1>3, LargestElement
  <2>3. QED
    BY <2>1, <2>2 DEF ExtractMessages, SelectLastInSeq
<1> HIDE DEF I, P, objects
<1>7. CASE user = {}
  <2>1. I = {}
    BY <1>5, <1>7 DEF I
  <2>2. QED
    BY <1>1, <1>3, <1>4, <1>6, <2>1
<1>8. CASE user # {}
  <2>1. i \in user /\ \A x \in user : x <= i
    BY <1>8 DEF Checked, IsObject
  <2>2. k \in I
    BY <1>4, <1>5, <2>1
  <2>3. I \in SUBSET (1 .. Len(objects)) /\ I # {}
    BY <2>2 DEF I
  <2>4. Max(I) \in I /\ \A y \in I : y <= Max(I)
    BY <1>3, <2>3, LargestElement
  <2> DEFINE l == Max(I)
  <2> HIDE DEF l
  <2>5. l \in 1 .. Len(objects) /\ k <= l /\ P[l] \in user
    BY <1>5, <2>2, <2>3, <2>4 DEF l
  <2>6. P[l] <= i
    BY <2>1, <2>5
  <2>7. l = k
    <3>1. CASE k < l
      <4>1. k \in 1 .. l - 1
        BY <2>5, <3>1
      <4>2. P[k] < P[l]
        BY <1>1, <1>2, <2>5, <4>1
      <4>3. P[k] \in Int /\ P[l] \in Int
        BY <1>0, <1>4, <2>5
      <4>4. QED
        BY <1>4, <2>6, <4>2, <4>3
    <3>2. QED
      BY <2>5, <3>1
  <2>8. ExtractMessages(messages) = <<objects[k]>>
    BY <1>6, <2>3, <2>7 DEF l
  <2>9. QED
    BY <1>1, <1>4, <2>8
<1>9. QED
  BY <1>7, <1>8

-----------------------------------------------------------------------------

\* A new request has no call; a call carries the messages extractMessages finds in the body;
\* success answers a call whose messages are all clean; and a request for a model passes for
\* success, or because there is nothing to ask.
Asked(r) ==
  /\ stage[r] = "new" => asked[r] = <<>>
  /\ asked[r] # <<>> => asked[r] = ExtractMessages(body[r].messages)
  /\ reply[r] = "success" =>
       asked[r] # <<>> /\ \A i \in DOMAIN asked[r] : asked[r][i].content \in Clean
  /\ stage[r] = "passed" /\ body[r].model /\ body[r].array =>
       reply[r] = "success" \/ NothingToCheck(body[r])

CleanInv == Inv /\ body \in [Requests -> Bodies] /\ \A r \in Requests : Asked(r)

\* Before any request nothing has been asked or passed.
LEMMA CleanInit == Init => CleanInv
<1> SUFFICES ASSUME Init PROVE CleanInv
  OBVIOUS
<1>1. Inv
  BY InvInit
<1>2. QED
  BY <1>1 DEF Init, CleanInv, Asked

\* A decision leaves the other requests as they are.
LEMMA DecideKeepsAsked ==
  ASSUME CleanInv, NEW r \in Requests, NEW outcome \in Stages \ {"new"}, Decide(r, outcome),
         outcome = "passed" /\ body[r].model /\ body[r].array =>
           reply[r] = "success" \/ NothingToCheck(body[r])
  PROVE  body' = body /\ \A q \in Requests : Asked(q)'
<1>1. /\ UNCHANGED <<timeout, body, asked, reply, elapsed>>
      /\ stage' = [stage EXCEPT ![r] = outcome] /\ stage \in [Requests -> Stages]
  BY DEF Decide, CleanInv, Inv, TypeOK, Stages
<1>2. ASSUME NEW q \in Requests
      PROVE  Asked(q)'
  <2>1. Asked(q) /\ NothingToCheck(body[q])' = NothingToCheck(body[q])
    BY <1>1 DEF CleanInv, NothingToCheck
  <2>2. stage'[q] = IF q = r THEN outcome ELSE stage[q]
    BY <1>1
  <2>3. QED
    BY <1>1, <2>1, <2>2 DEF Asked, NothingToCheck
<1>3. QED
  BY <1>1, <1>2

\* Every step keeps what is asked the body's messages, and passes a request only for success.
LEMMA CleanStep == CleanInv /\ [Next]_vars => CleanInv'
<1> SUFFICES ASSUME CleanInv, [Next]_vars PROVE CleanInv'
  OBVIOUS
<1>0. /\ Inv' /\ body \in [Requests -> Bodies] /\ \A r \in Requests : Asked(r)
      /\ stage \in [Requests -> Stages] /\ reply \in [Requests -> Replies \cup {"none"}]
      /\ asked = [r \in Requests |-> asked[r]]
  BY InvStep DEF CleanInv, Inv, TypeOK, Stages
<1> SUFFICES body' = body /\ \A q \in Requests : Asked(q)'
  BY <1>0 DEF CleanInv
<1>1. ASSUME NEW r \in Requests, PassUnmodelled(r) \/ RejectMalformed(r) \/ PassEmpty(r)
      PROVE  body' = body /\ \A q \in Requests : Asked(q)'
  <2>1. \/ Decide(r, "passed") /\ (~body[r].model \/ NothingToCheck(body[r]))
        \/ Decide(r, "BadRequest")
    BY <1>1 DEF PassUnmodelled, RejectMalformed, PassEmpty
  <2>2. QED
    BY <2>1, DecideKeepsAsked DEF Stages
<1>2. ASSUME NEW r \in Requests, Call(r)
      PROVE  body' = body /\ \A q \in Requests : Asked(q)'
  <2> DEFINE messages == ExtractMessages(body[r].messages)
  <2>1. /\ UNCHANGED <<body, reply>> /\ stage[r] = "new" /\ ~NothingToCheck(body[r])
        /\ stage' = [stage EXCEPT ![r] = "called"] /\ asked' = [asked EXCEPT ![r] = messages]
    BY <1>2 DEF Call
  <2>2. asked[r] = <<>> /\ reply[r] # "success" /\ messages # <<>>
    BY <1>0, <2>1 DEF Asked, NothingToCheck
  <2> HIDE DEF messages
  <2>3. ASSUME NEW q \in Requests
        PROVE  Asked(q)'
    <3>1. /\ stage'[q] = IF q = r THEN "called" ELSE stage[q]
          /\ asked'[q] = IF q = r THEN messages ELSE asked[q]
      BY <1>0, <2>1
    <3>2. Asked(q)
      BY <1>0
    <3>3. CASE q = r
      BY <2>1, <2>2, <3>1, <3>3 DEF Asked, messages
    <3>4. CASE q # r
      BY <2>1, <3>1, <3>2, <3>4 DEF Asked, NothingToCheck
    <3>5. QED
      BY <3>3, <3>4
  <2>4. QED
    BY <2>1, <2>3
<1>3. ASSUME NEW r \in Requests, NemoReplies(r)
      PROVE  body' = body /\ \A q \in Requests : Asked(q)'
  <2>1. /\ UNCHANGED <<body, stage, asked>> /\ asked[r] # <<>> /\ reply[r] = "none"
        /\ \E answer \in Replies :
             /\ answer = "success" => \A i \in DOMAIN asked[r] : asked[r][i].content \in Clean
             /\ reply' = [reply EXCEPT ![r] = answer]
    BY <1>3 DEF NemoReplies
  <2>2. PICK answer \in Replies :
          /\ answer = "success" => \A i \in DOMAIN asked[r] : asked[r][i].content \in Clean
          /\ reply' = [reply EXCEPT ![r] = answer]
    BY <2>1
  <2>3. ASSUME NEW q \in Requests
        PROVE  Asked(q)'
    <3>1. reply'[q] = IF q = r THEN answer ELSE reply[q]
      BY <1>0, <2>2
    <3>2. Asked(q) /\ (q = r => reply[q] # "success")
      BY <1>0, <2>1
    <3>3. QED
      BY <2>1, <2>2, <3>1, <3>2 DEF Asked, NothingToCheck
  <2>4. QED
    BY <2>1, <2>3
<1>4. ASSUME NEW r \in Requests, Receive(r)
      PROVE  body' = body /\ \A q \in Requests : Asked(q)'
  <2>1. Decide(r, Verdict(reply[r])) /\ Verdict(reply[r]) \in Stages \ {"new"}
    BY <1>4 DEF Receive, Verdict, Stages
  <2>2. Verdict(reply[r]) = "passed" => reply[r] = "success"
    BY DEF Verdict
  <2>3. QED
    BY <2>1, <2>2, DecideKeepsAsked
<1>5. ASSUME NEW r \in Requests, CallFails(r) \/ TimesOut(r)
      PROVE  body' = body /\ \A q \in Requests : Asked(q)'
  <2>1. Decide(r, "ServiceUnavailable")
    BY <1>5 DEF CallFails, TimesOut
  <2>2. QED
    BY <2>1, DecideKeepsAsked DEF Stages
<1>6. ASSUME UNCHANGED <<body, stage, asked, reply>>
      PROVE  body' = body /\ \A q \in Requests : Asked(q)'
  BY <1>0, <1>6 DEF Asked, NothingToCheck
<1>7. QED
  BY <1>1, <1>2, <1>3, <1>4, <1>5, <1>6 DEF Next, Tick, vars

\* So a request that has passed is clean.
LEMMA CleanInvImplies == CleanInv => PassedRequestsAreClean
<1> SUFFICES ASSUME CleanInv, NEW r \in Requests,
                    stage[r] = "passed" /\ body[r].model /\ body[r].array,
                    NEW i \in Checked(body[r].messages), ~body[r].messages[i].parts
             PROVE  body[r].messages[i].content \in Clean
  BY DEF PassedRequestsAreClean
<1> DEFINE messages == body[r].messages
<1>1. Asked(r) /\ messages \in Seq(Message \cup {NotAnObject})
  BY BodyMessages DEF CleanInv
<1>2. PICK j \in DOMAIN ExtractMessages(messages) :
        ExtractMessages(messages)[j] = Object(messages[i])
  BY <1>1, CheckedIsAsked
<1>3. Object(messages[i]).content = messages[i].content
  BY DEF Object
<1>4. CASE NothingToCheck(body[r])
  BY <1>2, <1>4 DEF NothingToCheck
<1>5. CASE reply[r] = "success"
  <2>1. asked[r] = ExtractMessages(messages)
        /\ \A k \in DOMAIN asked[r] : asked[r][k].content \in Clean
    BY <1>1, <1>5 DEF Asked
  <2>2. QED
    BY <1>2, <1>3, <2>1
<1>6. QED
  BY <1>1, <1>4, <1>5 DEF Asked

\* Whatever the messages are, however many requests are on their way and whatever goes wrong
\* with a call, a request that has passed is one whose last user message NeMo lets pass, or
\* all of whose messages when there is none: nothing else makes a decision "passed".
THEOREM OnlyCleanRequestsPass == Spec => []PassedRequestsAreClean
<1>1. QED
  BY CleanInit, CleanStep, CleanInvImplies, PTL DEF Spec
=============================================================================
