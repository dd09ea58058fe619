--------------------------- MODULE BatchAppendProofs ---------------------------
(***************************************************************************)
(* What holds of a batch-append session for any appends and any repeats.   *)
(***************************************************************************)
EXTENDS BatchAppend, SequenceTheorems, TLAPS

InForward(a) == \E i \in 1..Len(forward) : forward[i] = a

\* An append the server has not seen is in one place at most, and once.
Unseen ==
    /\ \A a \in Appends : Queued(a) => verdict[a] = "unseen" /\ ~InForward(a)
    /\ \A i, j \in 1..Len(mailbox) :
          mailbox[i].type = "In" /\ mailbox[i] = mailbox[j] => i = j
    /\ \A i \in 1..Len(forward) : verdict[forward[i]] = "unseen"
    /\ \A i, j \in 1..Len(forward) : forward[i] = forward[j] => i = j

\* One that was never made is nowhere.
NewIsNowhere ==
    \A a \in Appends : state[a] = "new" =>
        ~Queued(a) /\ ~InForward(a) /\ a \notin reg /\ verdict[a] = "unseen"

\* An answer on its way is the server's outcome of the append it names.
AnswersUnderWay ==
    /\ \A i \in 1..Len(replies) : verdict[replies[i].id] = replies[i].result
    /\ \A i \in 1..Len(mailbox) :
          mailbox[i].type = "Out" => verdict[mailbox[i].id] = mailbox[i].result

\* Whoever failed has left the loop behind.
FailureStops == (\E a \in Appends : state[a] \in {"wrong", "failed"}) => actor = "stopped"

BatchInv ==
    /\ TypeOK
    /\ Unseen /\ NewIsNowhere
    /\ AnswersUnderWay /\ AnswersAreTheServers
    /\ NoAppendIsForgotten
    /\ FailureStops

-----------------------------------------------------------------------------
(* The channels. *)

LEMMA Messages ==
    /\ \A a \in Appends : In(a) \in Msg
    /\ \A a \in Appends, r \in Result : Out(a, r) \in Msg
    /\ SessionError \in Msg
BY DEF In, Out, SessionError, Msg

\* A send leaves a channel of messages, with its message at the end, unless the
\* actor has left.
LEMMA SendType ==
    ASSUME mailbox \in Seq(Msg), NEW m \in Msg, Send(m)
    PROVE  mailbox' \in Seq(Msg)
BY DEF Send

LEMMA SendAtEnd ==
    ASSUME mailbox \in Seq(Msg), NEW m \in Msg, Send(m), actor # "stopped"
    PROVE  /\ Len(mailbox') = Len(mailbox) + 1
           /\ \A i \in 1..Len(mailbox) : mailbox'[i] = mailbox[i]
           /\ mailbox'[Len(mailbox) + 1] = m
BY AppendProperties DEF Send

\* The actor takes the first message and leaves the others in their order.
LEMMA TakeFirst ==
    ASSUME mailbox \in Seq(Msg), Take
    PROVE  /\ Received \in Msg /\ Received = mailbox[1]
           /\ Len(mailbox) \in Nat /\ Len(mailbox) >= 1
           /\ Tail(mailbox) \in Seq(Msg)
           /\ Len(Tail(mailbox)) = Len(mailbox) - 1
           /\ \A i \in 1..Len(Tail(mailbox)) : Tail(mailbox)[i] = mailbox[i + 1]
BY HeadTailProperties DEF Take, Received

\* What a caller is told is one of the things it can be told.
LEMMA LeaveType ==
    ASSUME TypeOK, NEW answered \in SUBSET Appends,
           NEW outcome \in {"failed", "refused"} \cup Result, Leave(answered, outcome)
    PROVE  /\ state' \in [Appends -> {"new", "waiting", "abandoned", "refused", "failed"}
                                      \cup Result]
           /\ mailbox' = <<>> /\ mailbox' \in Seq(Msg)
           /\ actor' = "stopped" /\ reg' = {}
<1> DEFINE States == {"new", "waiting", "abandoned", "refused", "failed"} \cup Result
<1>1. ASSUME NEW a \in Appends, NEW r \in States
      PROVE  Told(a, r) \in States
  BY <1>1 DEF TypeOK, Told
<1>2. outcome \in States /\ "refused" \in States /\ state \in [Appends -> States]
  BY DEF TypeOK
<1> HIDE DEF States
<1>3. state' \in [Appends -> States]
  BY <1>1, <1>2 DEF Leave
<1> QED
  BY <1>3 DEF Leave, States

-----------------------------------------------------------------------------
(* Types. *)

\* Every step keeps every variable in its type.
LEMMA TypeStep == TypeOK /\ [Next]_vars => TypeOK'
<1> SUFFICES ASSUME TypeOK, [Next]_vars
             PROVE  TypeOK'
  OBVIOUS
<1>1. ASSUME NEW a \in Appends, append_to_stream(a)
      PROVE  TypeOK'
  <2>1. mailbox' \in Seq(Msg)
    BY <1>1, SendType, Messages DEF append_to_stream, TypeOK
  <2> QED
    BY <1>1, <2>1 DEF append_to_stream, TypeOK
<1>2. ASSUME NEW a \in Appends, Abandon(a)
      PROVE  TypeOK'
  BY <1>2 DEF Abandon, TypeOK
<1>3. ASSUME NEW a \in Appends, Decide(a)
      PROVE  TypeOK'
  <2>1. PICK result \in Result : /\ verdict' = [verdict EXCEPT ![a] = result]
                                 /\ replies' = Append(replies, Out(a, result))
    BY <1>3 DEF Decide
  <2>2. Out(a, result) \in [type : {"Out"}, id : Appends, result : Result]
    BY DEF Out
  <2> QED
    BY <1>3, <2>1, <2>2, AppendProperties DEF Decide, TypeOK
<1>4. ASSUME NEW a \in Appends, Repeat(a)
      PROVE  TypeOK'
  <2>1. Out(a, verdict[a]) \in [type : {"Out"}, id : Appends, result : Result]
    BY <1>4 DEF Repeat, Out
  <2> QED
    BY <1>4, <2>1, AppendProperties, BatchAppendAssumption DEF Repeat, TypeOK
<1>5. CASE Register
  <2>1. Received.id \in Appends
    BY <1>5, TakeFirst DEF Register, TypeOK, Msg, SessionError
  <2> QED
    BY <1>5, <2>1, TakeFirst, AppendProperties DEF Register, TypeOK
<1>6. CASE RegisterFails
  BY <1>6, LeaveType DEF RegisterFails, TypeOK
<1>7. CASE RouteOut
  <2>1. Received.id \in Appends /\ Received.result \in Result
    BY <1>7, TakeFirst DEF RouteOut, TypeOK, Msg, SessionError
  <2>2. Addressee(Received.id) \in SUBSET Appends
    BY DEF Addressee, TypeOK
  <2>3. CASE Leave(Addressee(Received.id), Received.result)
    BY <1>7, <2>1, <2>2, <2>3, LeaveType DEF RouteOut, TypeOK
  <2>4. CASE ~Leave(Addressee(Received.id), Received.result)
    <3>1. /\ state' = [a \in Appends |->
                            IF a \in Addressee(Received.id) THEN Told(a, Received.result)
                            ELSE state[a]]
          /\ reg' = reg \ Addressee(Received.id)
          /\ mailbox' = Tail(mailbox)
          /\ UNCHANGED actor
      BY <1>7, <2>4 DEF RouteOut
    <3> DEFINE States == {"new", "waiting", "abandoned", "refused", "failed"} \cup Result
    <3>2. Received.result \in States /\ state \in [Appends -> States]
      BY <2>1 DEF TypeOK
    <3> HIDE DEF States
    <3>3. state' \in [Appends -> States]
      BY <3>1, <3>2 DEF Told
    <3> QED
      BY <1>7, <3>1, <3>3, TakeFirst DEF RouteOut, TypeOK, States
  <2> QED
    BY <2>3, <2>4
<1>8. CASE FailAll
  <2>1. reg \in SUBSET Appends
    BY DEF TypeOK
  <2> QED
    BY <1>8, <2>1, LeaveType DEF FailAll, TypeOK
<1>9. CASE Opening
  <2>1. mailbox' \in Seq(Msg)
    BY <1>9, SendType, Messages DEF Opening, OpenSucceeds, OpenFails, TypeOK
  <2>2. CASE OpenSucceeds
    BY <2>1, <2>2 DEF OpenSucceeds, TypeOK
  <2>3. CASE OpenFails
    BY <2>1, <2>3 DEF OpenFails, TypeOK
  <2> QED
    BY <1>9, <2>2, <2>3 DEF Opening
<1>10. CASE Deliver
  <2>1. Head(replies) \in [type : {"Out"}, id : Appends, result : Result]
    BY <1>10, HeadTailProperties DEF Deliver, TypeOK
  <2>2. Head(replies) \in Msg
    BY <2>1 DEF Msg
  <2>3. mailbox' \in Seq(Msg)
    BY <1>10, <2>2, SendType DEF Deliver, TypeOK
  <2>4. replies' \in Seq([type : {"Out"}, id : Appends, result : Result])
    BY <1>10, HeadTailProperties DEF Deliver, TypeOK
  <2> QED
    BY <1>10, <2>3, <2>4 DEF Deliver, TypeOK
<1>11. CASE ResponseFails
  <2>1. mailbox' \in Seq(Msg)
    BY <1>11, SendType, Messages DEF ResponseFails, TypeOK
  <2> QED
    BY <1>11, <2>1 DEF ResponseFails, TypeOK
<1>12. CASE ResponseEnds
  BY <1>12 DEF ResponseEnds, TypeOK
<1>13. CASE Transmit
  <2>1. Head(forward) \in Appends /\ Tail(forward) \in Seq(Appends)
    BY <1>13, HeadTailProperties DEF Transmit, TypeOK
  <2> QED
    BY <1>13, <2>1 DEF Transmit, TypeOK
<1>14. CASE DropBody
  BY <1>14 DEF DropBody, TypeOK
<1>15. CASE UNCHANGED vars
  BY <1>15 DEF vars, TypeOK
<1> QED
  BY <1>1, <1>2, <1>3, <1>4, <1>5, <1>6, <1>7, <1>8, <1>9, <1>10, <1>11, <1>12,
     <1>13, <1>14, <1>15
  DEF Next, Actor

\* Every variable of a session stays in its type.
THEOREM TypeCorrect == Spec => []TypeOK
<1>1. Init => TypeOK
  BY BatchAppendAssumption DEF Init, TypeOK
<1> QED
  BY <1>1, TypeStep, PTL DEF Spec

-----------------------------------------------------------------------------
(* Where an append is. *)

\* A send adds an append to the channel only if the message is its own.
LEMMA QueuedAfterSend ==
    ASSUME mailbox \in Seq(Msg), NEW m \in Msg, Send(m), actor # "stopped",
           NEW a \in Appends
    PROVE  Queued(a)' <=> Queued(a) \/ m = In(a)
<1>1. /\ Len(mailbox') = Len(mailbox) + 1 /\ Len(mailbox) \in Nat
      /\ \A i \in 1..Len(mailbox) : mailbox'[i] = mailbox[i]
      /\ mailbox'[Len(mailbox) + 1] = m
  BY SendAtEnd
<1>2. ASSUME Queued(a) PROVE Queued(a)'
  BY <1>1, <1>2 DEF Queued, In
<1>3. ASSUME m = In(a) PROVE Queued(a)'
  BY <1>1, <1>3 DEF Queued, In
<1>4. ASSUME Queued(a)', ~Queued(a) PROVE m = In(a)
  BY <1>1, <1>4 DEF Queued, In
<1> QED
  BY <1>2, <1>3, <1>4

\* What the actor takes is no longer in the channel; everything else is.
LEMMA QueuedAfterTake ==
    ASSUME TypeOK, Unseen, Take, mailbox' = Tail(mailbox), NEW a \in Appends
    PROVE  Queued(a)' <=> Queued(a) /\ Received # In(a)
<1>1. /\ Received = mailbox[1]
      /\ Len(mailbox) \in Nat /\ Len(mailbox) >= 1
      /\ Len(mailbox') = Len(mailbox) - 1
      /\ \A i \in 1..Len(mailbox') : mailbox'[i] = mailbox[i + 1]
  BY TakeFirst DEF TypeOK
<1>2. ASSUME Queued(a)' PROVE Queued(a) /\ Received # In(a)
  <2>1. PICK i \in 1..Len(mailbox') : mailbox'[i] = In(a)
    BY <1>2 DEF Queued, In
  <2>2. i + 1 \in 1..Len(mailbox) /\ mailbox[i + 1] = In(a) /\ i + 1 # 1
    BY <1>1, <2>1
  <2>3. 1 \in 1..Len(mailbox) /\ In(a).type = "In"
    BY <1>1 DEF In
  <2>4. mailbox[1] # In(a)
    BY <2>2, <2>3 DEF Unseen
  <2> QED
    BY <1>1, <2>2, <2>4 DEF Queued
<1>3. ASSUME Queued(a), Received # In(a) PROVE Queued(a)'
  <2>1. PICK i \in 1..Len(mailbox) : mailbox[i] = In(a)
    BY <1>3 DEF Queued
  <2>2. i # 1
    BY <1>1, <1>3, <2>1
  <2>3. i - 1 \in 1..Len(mailbox') /\ mailbox'[i - 1] = In(a)
    BY <1>1, <2>1, <2>2
  <2> QED
    BY <2>3 DEF Queued, In
<1> QED
  BY <1>2, <1>3

\* When the loop is left, nothing is queued and nobody new was told anything.
LEMMA AfterLeave ==
    ASSUME TypeOK, NEW answered \in SUBSET Appends,
           NEW outcome \in {"failed", "refused"} \cup Result, Leave(answered, outcome)
    PROVE  /\ Len(mailbox') = 0 /\ \A a \in Appends : ~Queued(a)'
           /\ \A a \in Appends : state'[a] = "new" => state[a] = "new"
           /\ \A a \in Appends : state'[a] = "waiting" =>
                  state[a] = "waiting" /\ a \notin answered \cup reg /\ ~Queued(a)
           /\ \A a \in Appends : state'[a] # state[a] =>
                  \/ a \in answered /\ state'[a] = outcome
                  \/ state'[a] = "refused"
<1>1. mailbox' = <<>>
  BY DEF Leave
<1>2. Len(mailbox') = 0 /\ \A a \in Appends : ~Queued(a)'
  BY <1>1 DEF Queued
<1>3. ASSUME NEW a \in Appends
      PROVE  state'[a] = IF a \in answered THEN Told(a, outcome)
                         ELSE IF a \in reg \/ Queued(a) THEN Told(a, "refused")
                         ELSE state[a]
  BY DEF Leave
<1>4. outcome \notin {"new", "waiting"}
  BY DEF Result
<1> QED
  BY <1>2, <1>3, <1>4 DEF Told

\* The places of an append the server has not seen, kept by every step.
LEMMA UnseenStep ==
    ASSUME TypeOK, Unseen, NewIsNowhere, NoAppendIsForgotten, [Next]_vars
    PROVE  Unseen' /\ NewIsNowhere'
<1> USE DEF TypeOK
<1>1. ASSUME NEW a \in Appends, append_to_stream(a)
      PROVE  Unseen' /\ NewIsNowhere'
  <2>1. /\ state' = [state EXCEPT ![a] = IF actor = "stopped" THEN "refused" ELSE "waiting"]
        /\ UNCHANGED <<reg, forward, verdict>>
        /\ Send(In(a))
        /\ state[a] = "new" /\ In(a) \in Msg
    BY <1>1, Messages DEF append_to_stream
  <2>2. ~Queued(a) /\ ~InForward(a) /\ verdict[a] = "unseen" /\ a \notin reg
    BY <2>1 DEF NewIsNowhere
  <2>3. CASE actor = "stopped"
    <3>1. mailbox' = mailbox
      BY <2>1, <2>3 DEF Send
    <3>2. /\ \A b \in Appends : Queued(b)' <=> Queued(b)
          /\ \A b \in Appends : InForward(b)' <=> InForward(b)
      BY <2>1, <3>1 DEF Queued, InForward
    <3>3. Unseen'
      BY <2>1, <3>1, <3>2 DEF Unseen
    <3> QED
      BY <2>1, <3>2, <3>3 DEF NewIsNowhere
  <2>4. CASE actor # "stopped"
    <3>1. \A b \in Appends : Queued(b)' <=> Queued(b) \/ In(a) = In(b)
      BY <2>1, <2>4, QueuedAfterSend
    <3>2. \A b \in Appends : Queued(b)' <=> Queued(b) \/ a = b
      BY <3>1 DEF In
    <3>3. \A b \in Appends : Queued(b)' => verdict'[b] = "unseen" /\ ~InForward(b)'
      BY <2>1, <2>2, <3>2 DEF Unseen, InForward
    <3>4. /\ Len(mailbox') = Len(mailbox) + 1 /\ Len(mailbox) \in Nat
          /\ \A i \in 1..Len(mailbox) : mailbox'[i] = mailbox[i]
          /\ mailbox'[Len(mailbox) + 1] = In(a)
      BY <2>1, <2>4, SendAtEnd
    <3>5. \A i \in 1..Len(mailbox) : mailbox[i] # In(a)
      BY <2>2 DEF Queued
    <3>6. ASSUME NEW i \in 1..Len(mailbox'), NEW j \in 1..Len(mailbox'),
                 mailbox'[i].type = "In", mailbox'[i] = mailbox'[j]
          PROVE  i = j
      <4>1. CASE i \in 1..Len(mailbox) /\ j \in 1..Len(mailbox)
        BY <3>4, <3>6, <4>1 DEF Unseen
      <4>2. CASE i = Len(mailbox) + 1 \/ j = Len(mailbox) + 1
        BY <3>4, <3>5, <3>6, <4>2
      <4> QED
        BY <3>4, <4>1, <4>2
    <3>7. Unseen'
      BY <2>1, <3>3, <3>6 DEF Unseen
    <3> QED
      BY <2>1, <2>4, <3>2, <3>7 DEF NewIsNowhere, InForward
  <2> QED
    BY <2>3, <2>4
<1>2. ASSUME NEW a \in Appends, Abandon(a)
      PROVE  Unseen' /\ NewIsNowhere'
  BY <1>2 DEF Abandon, Unseen, NewIsNowhere, Queued, InForward
<1>3. ASSUME NEW a \in Appends, Decide(a) \/ Repeat(a)
      PROVE  Unseen' /\ NewIsNowhere'
  <2>1. /\ UNCHANGED <<state, mailbox, reg, forward>>
        /\ \A b \in Appends : verdict[b] = "unseen" => verdict'[b] = "unseen"
    BY <1>3 DEF Decide, Repeat
  <2>2. /\ \A b \in Appends : Queued(b)' <=> Queued(b)
        /\ \A b \in Appends : InForward(b)' <=> InForward(b)
    BY <2>1 DEF Queued, InForward
  <2>3. \A i \in 1..Len(forward) : verdict'[forward[i]] = "unseen"
    BY <2>1 DEF Unseen
  <2>4. Unseen'
    BY <2>1, <2>2, <2>3 DEF Unseen
  <2> QED
    BY <2>1, <2>2, <2>4 DEF NewIsNowhere
<1>5. ASSUME Take, mailbox' = Tail(mailbox)
      PROVE  \A i, j \in 1..Len(mailbox') :
                 mailbox'[i].type = "In" /\ mailbox'[i] = mailbox'[j] => i = j
  <2>1. /\ Len(mailbox) \in Nat /\ Len(mailbox) >= 1
        /\ Len(mailbox') = Len(mailbox) - 1
        /\ \A i \in 1..Len(mailbox') : mailbox'[i] = mailbox[i + 1]
    BY <1>5, TakeFirst
  <2>2. \A i \in 1..Len(mailbox') : i + 1 \in 1..Len(mailbox)
    BY <2>1
  <2>3. ASSUME NEW i \in 1..Len(mailbox'), NEW j \in 1..Len(mailbox'),
               mailbox'[i].type = "In", mailbox'[i] = mailbox'[j]
        PROVE  i = j
    <3>1. /\ i + 1 \in 1..Len(mailbox) /\ j + 1 \in 1..Len(mailbox)
          /\ mailbox[i + 1].type = "In" /\ mailbox[i + 1] = mailbox[j + 1]
      BY <2>1, <2>2, <2>3
    <3>2. i + 1 = j + 1
      BY <3>1 DEF Unseen
    <3> QED
      BY <3>2
  <2> QED
    BY <2>3
<1>6. CASE Register
  <2> DEFINE a == Received.id
  <2>1. /\ Take /\ Received \in Msg /\ Received.type = "In"
        /\ forward' = Append(forward, a) /\ reg' = reg \cup {a}
        /\ mailbox' = Tail(mailbox) /\ UNCHANGED <<state, verdict>>
    BY <1>6, TakeFirst DEF Register
  <2>2. a \in Appends /\ Received = In(a)
    BY <2>1 DEF Msg, SessionError, In
  <2>3. Queued(a)
    BY <2>1, <2>2, TakeFirst DEF Queued
  <2>4. \A b \in Appends : Queued(b)' <=> Queued(b) /\ a # b
    BY <2>1, <2>2, QueuedAfterTake DEF In
  <2>5. verdict[a] = "unseen" /\ ~InForward(a) /\ state[a] # "new"
    BY <2>2, <2>3 DEF Unseen, NewIsNowhere
  <2>6. /\ Len(forward') = Len(forward) + 1 /\ Len(forward) \in Nat
        /\ \A i \in 1..Len(forward) : forward'[i] = forward[i]
        /\ forward'[Len(forward) + 1] = a
    BY <2>1, <2>2, AppendProperties
  <2> HIDE DEF a
  <2>7. \A b \in Appends : InForward(b)' <=> InForward(b) \/ b = a
    BY <2>6 DEF InForward
  <2>8. ASSUME NEW i \in 1..Len(forward'), NEW j \in 1..Len(forward'), forward'[i] = forward'[j]
        PROVE  i = j
    <3>1. \A k \in 1..Len(forward) : forward[k] # a
      BY <2>5 DEF InForward
    <3>2. CASE i \in 1..Len(forward) /\ j \in 1..Len(forward)
      BY <2>6, <2>8, <3>2 DEF Unseen
    <3>3. CASE i = Len(forward) + 1 \/ j = Len(forward) + 1
      BY <2>6, <2>8, <3>1, <3>3
    <3> QED
      BY <2>6, <3>2, <3>3
  <2>9. \A i \in 1..Len(forward') : verdict'[forward'[i]] = "unseen"
    BY <2>1, <2>5, <2>6 DEF Unseen
  <2>10. Unseen'
    BY <1>5, <2>1, <2>4, <2>7, <2>8, <2>9 DEF Unseen
  <2> QED
    BY <2>1, <2>4, <2>5, <2>7, <2>10 DEF NewIsNowhere
<1>7. ASSUME NEW answered \in SUBSET Appends,
             NEW outcome \in {"failed", "refused"} \cup Result, Leave(answered, outcome),
             UNCHANGED <<forward, verdict>>
      PROVE  Unseen' /\ NewIsNowhere'
  <2>1. /\ Len(mailbox') = 0 /\ \A a \in Appends : ~Queued(a)'
        /\ \A a \in Appends : state'[a] = "new" => state[a] = "new"
        /\ reg' = {}
    BY <1>7, AfterLeave DEF Leave
  <2> QED
    BY <1>7, <2>1 DEF Unseen, NewIsNowhere, InForward
<1>8. CASE RegisterFails
  BY <1>7, <1>8 DEF RegisterFails
<1>9. CASE FailAll
  BY <1>7, <1>9 DEF FailAll
<1>10. CASE RouteOut
  <2>1. /\ Take /\ Received.type = "Out" /\ UNCHANGED <<forward, verdict>>
        /\ Received.result \in Result /\ Addressee(Received.id) \in SUBSET Appends
    BY <1>10, TakeFirst DEF RouteOut, Msg, SessionError, Addressee
  <2>2. CASE Leave(Addressee(Received.id), Received.result)
    BY <1>7, <2>1, <2>2
  <2>3. CASE ~Leave(Addressee(Received.id), Received.result)
    <3>1. /\ mailbox' = Tail(mailbox) /\ reg' = reg \ Addressee(Received.id)
          /\ \A a \in Appends : state'[a] = IF a \in Addressee(Received.id)
                                            THEN Told(a, Received.result) ELSE state[a]
      BY <1>10, <2>3 DEF RouteOut
    <3>2. \A a \in Appends : state'[a] = "new" => state[a] = "new"
      BY <2>1, <3>1 DEF Told, Result
    <3>3. \A a \in Appends : Queued(a)' <=> Queued(a)
      BY <2>1, <3>1, QueuedAfterTake DEF In
    <3> QED
      BY <1>5, <2>1, <3>1, <3>2, <3>3 DEF Unseen, NewIsNowhere, InForward
  <2> QED
    BY <2>2, <2>3
<1>11. ASSUME NEW m \in Msg, m.type # "In", Send(m), UNCHANGED <<state, reg, verdict>>,
              forward' = forward \/ forward' = <<>>
       PROVE  Unseen' /\ NewIsNowhere'
  <2>1. \A a \in Appends : Queued(a)' <=> Queued(a)
    <3>1. CASE actor = "stopped"
      BY <1>11, <3>1 DEF Send, Queued
    <3>2. CASE actor # "stopped"
      BY <1>11, <3>2, QueuedAfterSend DEF In
    <3> QED
      BY <3>1, <3>2
  <2>2. \A a \in Appends : InForward(a)' => InForward(a)
    BY <1>11 DEF InForward
  <2>3. \A i, j \in 1..Len(mailbox') :
            mailbox'[i].type = "In" /\ mailbox'[i] = mailbox'[j] => i = j
    <3>1. CASE actor = "stopped"
      BY <1>11, <3>1 DEF Send, Unseen
    <3>2. CASE actor # "stopped"
      <4>1. /\ Len(mailbox') = Len(mailbox) + 1 /\ Len(mailbox) \in Nat
            /\ \A i \in 1..Len(mailbox) : mailbox'[i] = mailbox[i]
            /\ mailbox'[Len(mailbox) + 1] = m
        BY <1>11, <3>2, SendAtEnd
      <4>2. ASSUME NEW i \in 1..Len(mailbox'), NEW j \in 1..Len(mailbox'),
                   mailbox'[i].type = "In", mailbox'[i] = mailbox'[j]
            PROVE  i = j
        <5>1. i # Len(mailbox) + 1 /\ j # Len(mailbox) + 1
          BY <1>11, <4>1, <4>2
        <5>2. i \in 1..Len(mailbox) /\ j \in 1..Len(mailbox)
          BY <4>1, <5>1
        <5> QED
          BY <4>1, <4>2, <5>2 DEF Unseen
      <4> QED
        BY <4>2
    <3> QED
      BY <3>1, <3>2
  <2>4. /\ \A i \in 1..Len(forward') : verdict'[forward'[i]] = "unseen"
        /\ \A i, j \in 1..Len(forward') : forward'[i] = forward'[j] => i = j
    BY <1>11 DEF Unseen
  <2> QED
    BY <1>11, <2>1, <2>2, <2>3, <2>4 DEF Unseen, NewIsNowhere
<1>12. CASE OpenFails \/ ResponseFails
  BY <1>11, <1>12, Messages DEF OpenFails, ResponseFails, SessionError
<1>13. CASE Deliver
  <2>1. Head(replies) \in [type : {"Out"}, id : Appends, result : Result]
    BY <1>13, HeadTailProperties DEF Deliver
  <2>2. Head(replies) \in Msg /\ Head(replies).type # "In"
    BY <2>1 DEF Msg
  <2> QED
    BY <1>11, <1>13, <2>2 DEF Deliver
<1>14. CASE OpenSucceeds \/ ResponseEnds \/ UNCHANGED vars
  <2>1. UNCHANGED <<state, mailbox, reg, forward, verdict>>
    BY <1>14 DEF OpenSucceeds, ResponseEnds, vars
  <2>2. /\ \A b \in Appends : Queued(b)' <=> Queued(b)
        /\ \A b \in Appends : InForward(b)' <=> InForward(b)
    BY <2>1 DEF Queued, InForward
  <2>3. Unseen'
    BY <2>1, <2>2 DEF Unseen
  <2> QED
    BY <2>1, <2>2, <2>3 DEF NewIsNowhere
<1>15. CASE Transmit
  <2>1. /\ Len(forward) \in Nat /\ Len(forward) >= 1
        /\ Head(forward) = forward[1] /\ Head(forward) \in Appends
        /\ Len(forward') = Len(forward) - 1
        /\ \A i \in 1..Len(forward') : forward'[i] = forward[i + 1]
        /\ verdict' = [verdict EXCEPT ![forward[1]] = "seen"]
        /\ UNCHANGED <<state, mailbox, reg>>
    BY <1>15, HeadTailProperties DEF Transmit
  <2>2. InForward(forward[1])
    BY <2>1 DEF InForward
  <2>3. \A i \in 1..Len(forward') : i + 1 \in 1..Len(forward)
    BY <2>1
  <2>4. \A a \in Appends : InForward(a)' => InForward(a) /\ a # forward[1]
    BY <2>1, <2>3 DEF InForward, Unseen
  <2>5. \A a \in Appends : Queued(a)' <=> Queued(a)
    BY <2>1 DEF Queued
  <2>6. /\ \A i \in 1..Len(forward') : verdict'[forward'[i]] = "unseen"
        /\ \A i, j \in 1..Len(forward') : forward'[i] = forward'[j] => i = j
    <3>1. ASSUME NEW i \in 1..Len(forward'), NEW j \in 1..Len(forward'),
                 forward'[i] = forward'[j]
          PROVE  i = j
      <4>1. /\ i + 1 \in 1..Len(forward) /\ j + 1 \in 1..Len(forward)
            /\ forward[i + 1] = forward[j + 1]
        BY <2>1, <2>3, <3>1
      <4>2. i + 1 = j + 1
        BY <4>1 DEF Unseen
      <4> QED
        BY <4>2
    <3>2. ASSUME NEW i \in 1..Len(forward')
          PROVE  verdict'[forward'[i]] = "unseen"
      <4>1. i + 1 \in 1..Len(forward) /\ 1 \in 1..Len(forward)
        BY <2>1, <2>3
      <4>2. forward[i + 1] # forward[1] /\ forward[i + 1] \in Appends
        BY <4>1 DEF Unseen
      <4>3. verdict[forward[i + 1]] = "unseen"
        BY <4>1 DEF Unseen
      <4> QED
        BY <2>1, <4>2, <4>3
    <3> QED
      BY <3>1, <3>2
  <2>7. \A a \in Appends : a # forward[1] => verdict'[a] = verdict[a]
    BY <2>1
  <2>8. Unseen'
    BY <2>1, <2>2, <2>4, <2>5, <2>6, <2>7 DEF Unseen
  <2>9. NewIsNowhere'
    BY <2>1, <2>2, <2>4, <2>5, <2>7 DEF NewIsNowhere
  <2> QED
    BY <2>8, <2>9
<1>16. CASE DropBody
  BY <1>16 DEF DropBody, Unseen, NewIsNowhere, Queued, InForward
<1> QED
  BY <1>1, <1>2, <1>3, <1>6, <1>8, <1>9, <1>10, <1>12, <1>13, <1>14, <1>15, <1>16
  DEF Next, Actor, Opening

-----------------------------------------------------------------------------
(* The answers. *)

\* A step that forgets no outcome and sends at most an answer of the server keeps
\* what is under way true.
LEMMA AnswersKept ==
    ASSUME TypeOK, AnswersUnderWay,
           \A a \in Appends : verdict[a] \in Result => verdict'[a] = verdict[a],
           \/ UNCHANGED mailbox
           \/ mailbox' = <<>>
           \/ Take /\ mailbox' = Tail(mailbox)
           \/ \E m \in Msg : Send(m) /\ (m.type = "Out" => verdict'[m.id] = m.result)
    PROVE  \A i \in 1..Len(mailbox') :
               mailbox'[i].type = "Out" => verdict'[mailbox'[i].id] = mailbox'[i].result
<1>1. ASSUME NEW i \in 1..Len(mailbox), mailbox[i].type = "Out"
      PROVE  verdict'[mailbox[i].id] = mailbox[i].result
  <2>1. mailbox[i].id \in Appends /\ mailbox[i].result \in Result
    <3>1. mailbox[i] \in Msg
      BY DEF TypeOK
    <3> QED
      BY <1>1, <3>1 DEF Msg, SessionError
  <2> QED
    BY <1>1, <2>1 DEF AnswersUnderWay
<1>2. CASE UNCHANGED mailbox
  BY <1>1, <1>2
<1>3. CASE mailbox' = <<>>
  BY <1>3
<1>4. CASE Take /\ mailbox' = Tail(mailbox)
  <2>1. /\ Len(mailbox) \in Nat /\ Len(mailbox') = Len(mailbox) - 1
        /\ \A i \in 1..Len(mailbox') : mailbox'[i] = mailbox[i + 1]
    BY <1>4, TakeFirst DEF TypeOK
  <2>2. \A i \in 1..Len(mailbox') : i + 1 \in 1..Len(mailbox)
    BY <2>1
  <2> QED
    BY <1>1, <2>1, <2>2
<1>5. CASE \E m \in Msg : Send(m) /\ (m.type = "Out" => verdict'[m.id] = m.result)
  <2>1. PICK m \in Msg : Send(m) /\ (m.type = "Out" => verdict'[m.id] = m.result)
    BY <1>5
  <2>2. CASE actor = "stopped"
    BY <1>1, <2>1, <2>2 DEF Send
  <2>3. CASE actor # "stopped"
    <3>1. /\ Len(mailbox') = Len(mailbox) + 1 /\ Len(mailbox) \in Nat
          /\ \A i \in 1..Len(mailbox) : mailbox'[i] = mailbox[i]
          /\ mailbox'[Len(mailbox) + 1] = m
      BY <2>1, <2>3, SendAtEnd DEF TypeOK
    <3> QED
      BY <1>1, <2>1, <3>1
  <2> QED
    BY <2>2, <2>3
<1> QED
  BY <1>2, <1>3, <1>4, <1>5

\* What waits in the response stream is an answer to an append.
LEMMA ReplyType ==
    ASSUME TypeOK, NEW i \in 1..Len(replies)
    PROVE  /\ replies[i] \in Msg /\ replies[i].type = "Out"
           /\ replies[i].id \in Appends /\ replies[i].result \in Result
<1> DEFINE Answers == [type : {"Out"}, id : Appends, result : Result]
<1>1. replies \in Seq(Answers)
  BY DEF TypeOK
<1> HIDE DEF Answers
<1>2. replies[i] \in Answers
  BY <1>1, ElementOfSeq
<1> QED
  BY <1>2 DEF Msg, Answers

\* An append is told the outcome the server has decided, and the server changes
\* its mind about none.
LEMMA AnswersStep ==
    ASSUME TypeOK, Unseen, AnswersUnderWay, AnswersAreTheServers, [Next]_vars
    PROVE  AnswersUnderWay' /\ AnswersAreTheServers'
<1> USE DEF TypeOK
<1>1. ASSUME \A a \in Appends : verdict[a] \in Result => verdict'[a] = verdict[a],
             \A a \in Appends : state'[a] \in Result =>
                 state'[a] = state[a] \/ state'[a] = verdict[a]
      PROVE  AnswersAreTheServers'
  <2> SUFFICES ASSUME NEW a \in Appends, state'[a] \in Result
               PROVE  verdict'[a] = state'[a]
    BY DEF AnswersAreTheServers
  <2>1. verdict[a] = state'[a]
    BY <1>1 DEF AnswersAreTheServers
  <2> QED
    BY <1>1, <2>1
<1>2. ASSUME \A a \in Appends : verdict[a] \in Result => verdict'[a] = verdict[a],
             replies' = replies \/ replies' = <<>>
      PROVE  \A i \in 1..Len(replies') : verdict'[replies'[i].id] = replies'[i].result
  BY <1>2, ReplyType DEF AnswersUnderWay
<1>3. ASSUME NEW a \in Appends, append_to_stream(a)
      PROVE  AnswersUnderWay' /\ AnswersAreTheServers'
  <2>1. /\ In(a) \in Msg /\ In(a).type # "Out" /\ Send(In(a)) /\ UNCHANGED <<verdict, replies>>
        /\ \A b \in Appends : state'[b] \in Result => state'[b] = state[b]
    BY <1>3, Messages DEF append_to_stream, In, Result
  <2> QED
    BY <1>1, <1>2, <2>1, AnswersKept DEF AnswersUnderWay
<1>4. ASSUME NEW a \in Appends, Abandon(a)
      PROVE  AnswersUnderWay' /\ AnswersAreTheServers'
  <2>1. /\ UNCHANGED <<mailbox, verdict, replies>>
        /\ \A b \in Appends : state'[b] \in Result => state'[b] = state[b]
    BY <1>4 DEF Abandon, Result
  <2> QED
    BY <1>1, <2>1 DEF AnswersUnderWay
<1>5. ASSUME NEW a \in Appends, NEW result \in Result,
             replies' = Append(replies, Out(a, result)), verdict'[a] = result,
             \A b \in Appends : verdict[b] \in Result => verdict'[b] = verdict[b],
             UNCHANGED <<state, mailbox>>
      PROVE  AnswersUnderWay' /\ AnswersAreTheServers'
  <2>1. /\ Len(replies') = Len(replies) + 1 /\ Len(replies) \in Nat
        /\ \A i \in 1..Len(replies) : replies'[i] = replies[i]
        /\ replies'[Len(replies) + 1] = Out(a, result)
    <3> DEFINE Answers == [type : {"Out"}, id : Appends, result : Result]
    <3>1. Out(a, result) \in Answers /\ replies \in Seq(Answers)
      BY DEF Out
    <3> HIDE DEF Answers
    <3> QED
      BY <1>5, <3>1, AppendProperties
  <2>2. \A i \in 1..Len(replies) : verdict'[replies[i].id] = replies[i].result
    BY <1>5, ReplyType DEF AnswersUnderWay
  <2>3. verdict'[Out(a, result).id] = Out(a, result).result
    BY <1>5 DEF Out
  <2>4. ASSUME NEW i \in 1..Len(replies')
        PROVE  verdict'[replies'[i].id] = replies'[i].result
    <3>1. CASE i \in 1..Len(replies)
      BY <2>1, <2>2, <3>1
    <3>2. CASE i = Len(replies) + 1
      BY <2>1, <2>3, <3>2
    <3> QED
      BY <2>1, <3>1, <3>2
  <2> QED
    BY <1>1, <1>5, <2>4, AnswersKept DEF AnswersUnderWay
<1>6. ASSUME NEW a \in Appends, Decide(a)
      PROVE  AnswersUnderWay' /\ AnswersAreTheServers'
  <2>1. PICK result \in Result : /\ verdict' = [verdict EXCEPT ![a] = result]
                                 /\ replies' = Append(replies, Out(a, result))
    BY <1>6 DEF Decide
  <2>2. verdict[a] \notin Result /\ UNCHANGED <<state, mailbox>>
    BY <1>6 DEF Decide, Result
  <2>3. verdict'[a] = result /\ \A b \in Appends : verdict[b] \in Result => verdict'[b] = verdict[b]
    BY <2>1, <2>2
  <2> QED
    BY <1>5, <2>1, <2>2, <2>3
<1>7. ASSUME NEW a \in Appends, Repeat(a)
      PROVE  AnswersUnderWay' /\ AnswersAreTheServers'
  BY <1>5, <1>7 DEF Repeat
<1>8. ASSUME NEW answered \in SUBSET Appends,
             NEW outcome \in {"failed", "refused"} \cup Result, Leave(answered, outcome),
             outcome \in Result => \A a \in answered : verdict[a] = outcome,
             UNCHANGED <<verdict, replies>>
      PROVE  AnswersUnderWay' /\ AnswersAreTheServers'
  <2>1. /\ mailbox' = <<>>
        /\ \A a \in Appends : state'[a] # state[a] =>
              \/ a \in answered /\ state'[a] = outcome
              \/ state'[a] = "refused"
    BY <1>8, AfterLeave DEF Leave
  <2>2. \A a \in Appends : state'[a] \in Result => state'[a] = state[a] \/ state'[a] = verdict[a]
    BY <1>8, <2>1 DEF Result
  <2> QED
    BY <1>1, <1>2, <1>8, <2>1, <2>2, AnswersKept DEF AnswersUnderWay
<1>9. CASE Register
  <2>1. Take /\ mailbox' = Tail(mailbox) /\ UNCHANGED <<state, verdict, replies>>
    BY <1>9 DEF Register
  <2> QED
    BY <1>1, <1>2, <2>1, AnswersKept DEF AnswersUnderWay
<1>10. CASE RegisterFails
  BY <1>8, <1>10 DEF RegisterFails, Result
<1>11. CASE FailAll
  BY <1>8, <1>11 DEF FailAll, Result
<1>12. CASE RouteOut
  <2> DEFINE to == Addressee(Received.id)
  <2>1. /\ Take /\ Received.type = "Out" /\ UNCHANGED <<verdict, replies>>
        /\ Received.result \in Result /\ Received.id \in Appends /\ to \in SUBSET Appends
    BY <1>12, TakeFirst DEF RouteOut, Msg, SessionError, Addressee
  <2>2. \A a \in to : verdict[a] = Received.result
    <3>1. Received = mailbox[1] /\ 1 \in 1..Len(mailbox)
      BY <2>1, TakeFirst
    <3>2. verdict[Received.id] = Received.result
      BY <2>1, <3>1 DEF AnswersUnderWay
    <3> QED
      BY <3>2 DEF Addressee
  <2>3. CASE Leave(to, Received.result)
    BY <1>8, <2>1, <2>2, <2>3
  <2>4. CASE ~Leave(to, Received.result)
    <3>1. /\ mailbox' = Tail(mailbox)
          /\ \A a \in Appends : state'[a] = IF a \in to THEN Told(a, Received.result) ELSE state[a]
      BY <1>12, <2>4 DEF RouteOut
    <3>2. \A a \in Appends : state'[a] = state[a] \/ state'[a] = verdict[a]
      BY <2>2, <3>1 DEF Told
    <3> QED
      BY <1>1, <1>2, <2>1, <3>1, <3>2, AnswersKept DEF AnswersUnderWay
  <2> QED
    BY <2>3, <2>4
<1>13. CASE OpenFails \/ ResponseFails
  <2>1. /\ SessionError \in Msg /\ SessionError.type # "Out" /\ Send(SessionError)
        /\ UNCHANGED <<state, verdict>> /\ (replies' = replies \/ replies' = <<>>)
    BY <1>13, Messages DEF OpenFails, ResponseFails, SessionError
  <2> QED
    BY <1>1, <1>2, <2>1, AnswersKept DEF AnswersUnderWay
<1>14. CASE Deliver
  <2>1. /\ Len(replies) \in Nat /\ Len(replies) >= 1
        /\ Head(replies) = replies[1] /\ Len(replies') = Len(replies) - 1
        /\ \A i \in 1..Len(replies') : replies'[i] = replies[i + 1]
        /\ UNCHANGED <<state, verdict>> /\ Send(replies[1])
    BY <1>14, HeadTailProperties DEF Deliver
  <2>2. replies[1] \in Msg /\ verdict'[replies[1].id] = replies[1].result
    BY <2>1, ReplyType DEF AnswersUnderWay
  <2>3. ASSUME NEW i \in 1..Len(replies')
        PROVE  verdict'[replies'[i].id] = replies'[i].result
    <3>1. i + 1 \in 1..Len(replies) /\ replies'[i] = replies[i + 1]
      BY <2>1
    <3> QED
      BY <2>1, <3>1 DEF AnswersUnderWay
  <2> QED
    BY <1>1, <2>1, <2>2, <2>3, AnswersKept DEF AnswersUnderWay
<1>15. CASE Transmit
  <2>1. /\ forward # <<>> /\ Head(forward) = forward[1] /\ 1 \in 1..Len(forward)
        /\ verdict' = [verdict EXCEPT ![forward[1]] = "seen"]
        /\ UNCHANGED <<state, mailbox, replies>>
    BY <1>15, HeadTailProperties DEF Transmit
  <2>2. verdict[forward[1]] \notin Result
    BY <2>1 DEF Unseen, Result
  <2>3. \A a \in Appends : verdict[a] \in Result => verdict'[a] = verdict[a]
    BY <2>1, <2>2
  <2> QED
    BY <1>1, <1>2, <2>1, <2>3, AnswersKept DEF AnswersUnderWay
<1>16. CASE OpenSucceeds \/ ResponseEnds \/ DropBody \/ UNCHANGED vars
  BY <1>16 DEF OpenSucceeds, ResponseEnds, DropBody, vars, AnswersUnderWay, AnswersAreTheServers
<1> QED
  BY <1>3, <1>4, <1>6, <1>7, <1>9, <1>10, <1>11, <1>12, <1>13, <1>14, <1>15, <1>16
  DEF Next, Actor, Opening

-----------------------------------------------------------------------------
(* The callers. *)

\* A caller that waits is known to a running actor; whoever is told of a failure
\* is told as the loop is left.
LEMMA CallersStep ==
    ASSUME TypeOK, Unseen, NewIsNowhere, NoAppendIsForgotten, FailureStops, [Next]_vars
    PROVE  /\ NoAppendIsForgotten' /\ FailureStops'
           /\ \A b \in Appends : state'[b] = "ok" /\ state[b] # "ok" => actor = "running"
<1> USE DEF TypeOK
<1> DEFINE Kept == /\ NoAppendIsForgotten' /\ FailureStops'
                   /\ \A b \in Appends : state'[b] = "ok" /\ state[b] # "ok" => actor = "running"
<1>1. ASSUME NEW a \in Appends, append_to_stream(a)
      PROVE  Kept
  <2>1. /\ \A b \in Appends : state'[b] = IF b = a
                                          THEN IF actor = "stopped" THEN "refused" ELSE "waiting"
                                          ELSE state[b]
        /\ UNCHANGED <<actor, reg>> /\ Send(In(a)) /\ In(a) \in Msg /\ state[a] = "new"
    BY <1>1, Messages DEF append_to_stream
  <2>2. CASE actor = "stopped"
    <3>1. mailbox' = mailbox
      BY <2>1, <2>2 DEF Send
    <3> QED
      BY <2>1, <2>2, <3>1 DEF NoAppendIsForgotten, FailureStops, Queued
  <2>3. CASE actor # "stopped"
    <3>1. \A b \in Appends : Queued(b)' <=> Queued(b) \/ In(a) = In(b)
      BY <2>1, <2>3, QueuedAfterSend
    <3>2. \A b \in Appends : Queued(b)' <=> Queued(b) \/ a = b
      BY <3>1 DEF In
    <3>3. a \notin reg
      BY <2>1 DEF NewIsNowhere
    <3> QED
      BY <2>1, <2>3, <3>2, <3>3 DEF NoAppendIsForgotten, FailureStops
  <2> QED
    BY <2>2, <2>3
<1>2. ASSUME NEW a \in Appends, Abandon(a)
      PROVE  Kept
  BY <1>2 DEF Abandon, NoAppendIsForgotten, FailureStops, Queued
<1>3. ASSUME NEW a \in Appends, Decide(a) \/ Repeat(a)
      PROVE  Kept
  BY <1>3 DEF Decide, Repeat, NoAppendIsForgotten, FailureStops, Queued
<1>4. CASE Register
  <2> DEFINE a == Received.id
  <2>1. /\ Take /\ Received \in Msg /\ Received.type = "In" /\ reg' = reg \cup {a}
        /\ mailbox' = Tail(mailbox) /\ UNCHANGED <<state, actor>> /\ actor = "running"
    BY <1>4, TakeFirst DEF Register, Take
  <2>2. Received = In(a)
    BY <2>1 DEF Msg, SessionError, In
  <2>3. \A b \in Appends : Queued(b)' <=> Queued(b) /\ a # b
    BY <2>1, <2>2, QueuedAfterTake DEF In
  <2> HIDE DEF a
  <2> QED
    BY <2>1, <2>3 DEF NoAppendIsForgotten, FailureStops
<1>5. ASSUME Take, NEW answered \in SUBSET Appends,
             NEW outcome \in {"failed", "refused"} \cup Result, Leave(answered, outcome)
      PROVE  Kept
  <2>1. /\ actor = "running" /\ actor' = "stopped" /\ mailbox' = <<>> /\ reg' = {}
        /\ \A b \in Appends : ~Queued(b)'
        /\ \A b \in Appends : state'[b] = "waiting" =>
               state[b] = "waiting" /\ b \notin answered \cup reg /\ ~Queued(b)
    BY <1>5, AfterLeave DEF Leave, Take
  <2>2. \A b \in Appends : state'[b] # "waiting"
    BY <2>1 DEF NoAppendIsForgotten
  <2> QED
    BY <2>1, <2>2 DEF NoAppendIsForgotten, FailureStops
<1>6. CASE RegisterFails
  BY <1>5, <1>6 DEF RegisterFails
<1>7. CASE FailAll
  BY <1>5, <1>7 DEF FailAll
<1>8. CASE RouteOut
  <2> DEFINE to == Addressee(Received.id)
  <2>1. /\ Take /\ actor = "running" /\ Received.type = "Out"
        /\ Received.result \in Result /\ to \in SUBSET Appends
    BY <1>8, TakeFirst DEF RouteOut, Take, Msg, SessionError, Addressee
  <2>2. CASE Leave(to, Received.result)
    BY <1>5, <2>1, <2>2
  <2>3. CASE ~Leave(to, Received.result)
    <3>1. /\ mailbox' = Tail(mailbox) /\ reg' = reg \ to /\ actor' = actor
          /\ \A a \in Appends : state'[a] = IF a \in to THEN Told(a, Received.result) ELSE state[a]
          /\ to = {} \/ Received.result = "ok"
      BY <1>8, <2>3 DEF RouteOut, Closes
    <3>2. \A a \in Appends : Queued(a)' <=> Queued(a)
      BY <2>1, <3>1, QueuedAfterTake DEF In
    <3>3. \A a \in Appends : /\ state'[a] = "waiting" => state[a] = "waiting" /\ a \notin to
                             /\ state'[a] \in {"wrong", "failed"} => state'[a] = state[a]
      BY <2>1, <3>1 DEF Told, Result
    <3> HIDE DEF to
    <3>4. NoAppendIsForgotten'
      BY <2>1, <3>1, <3>2, <3>3 DEF NoAppendIsForgotten
    <3>5. FailureStops'
      BY <3>1, <3>3 DEF FailureStops
    <3> QED
      BY <2>1, <3>4, <3>5
  <2> QED
    BY <2>2, <2>3
<1>9. ASSUME NEW m \in Msg, m.type # "In", Send(m), UNCHANGED <<state, actor, reg>>
      PROVE  Kept
  <2>1. \A a \in Appends : Queued(a)' <=> Queued(a)
    <3>1. CASE actor = "stopped"
      BY <1>9, <3>1 DEF Send, Queued
    <3>2. CASE actor # "stopped"
      BY <1>9, <3>2, QueuedAfterSend DEF In
    <3> QED
      BY <3>1, <3>2
  <2>2. actor = "stopped" => mailbox' = mailbox
    BY <1>9 DEF Send
  <2> QED
    BY <1>9, <2>1, <2>2 DEF NoAppendIsForgotten, FailureStops
<1>10. CASE OpenFails \/ ResponseFails
  BY <1>9, <1>10, Messages DEF OpenFails, ResponseFails, SessionError
<1>11. CASE Deliver
  <2>1. Head(replies) = replies[1] /\ 1 \in 1..Len(replies)
    BY <1>11, HeadTailProperties DEF Deliver
  <2> QED
    BY <1>9, <1>11, <2>1, ReplyType DEF Deliver
<1>12. CASE OpenSucceeds \/ ResponseEnds \/ Transmit \/ DropBody \/ UNCHANGED vars
  BY <1>12 DEF OpenSucceeds, ResponseEnds, Transmit, DropBody, vars, NoAppendIsForgotten,
               FailureStops, Queued
<1> QED
  BY <1>1, <1>2, <1>3, <1>4, <1>6, <1>7, <1>8, <1>10, <1>11, <1>12
  DEF Next, Actor, Opening

-----------------------------------------------------------------------------
(* The theorems. *)

LEMMA BatchInit == Init => BatchInv
BY BatchAppendAssumption
DEF Init, BatchInv, TypeOK, Unseen, NewIsNowhere, AnswersUnderWay, AnswersAreTheServers,
    NoAppendIsForgotten, FailureStops, Queued, InForward, Result

LEMMA BatchStep == BatchInv /\ [Next]_vars => BatchInv'
BY TypeStep, UnseenStep, AnswersStep, CallersStep DEF BatchInv

\* The inductive invariant of a session.
THEOREM BatchCorrect == Spec => []BatchInv
BY BatchInit, BatchStep, PTL DEF Spec

\* What an append is told is what the server decided of that append, whatever the
\* order of the answers and however often one comes (batch.rs, the register).
THEOREM AnswersAreTheServersCorrect == Spec => []AnswersAreTheServers
<1>1. BatchInv => AnswersAreTheServers
  BY DEF BatchInv
<1> QED
  BY <1>1, BatchCorrect, PTL

\* Every way out of the actor's loop answers every caller (batch.rs, new).
THEOREM NoAppendIsForgottenCorrect == Spec => []NoAppendIsForgotten
<1>1. BatchInv => NoAppendIsForgotten
  BY DEF BatchInv
<1> QED
  BY <1>1, BatchCorrect, PTL

\* After a failed append no later one of the session is told a success.
THEOREM NoSuccessAfterAFailureCorrect == Spec => NoSuccessAfterAFailure
<1>1. ASSUME BatchInv, [Next]_vars, NEW a \in Appends, NEW b \in Appends,
             state[a] \in {"wrong", "failed"}, state'[b] = "ok"
      PROVE  state[b] = "ok"
  <2>1. actor = "stopped"
    BY <1>1 DEF BatchInv, FailureStops
  <2>2. state[b] = "ok" \/ actor = "running"
    BY <1>1, CallersStep DEF BatchInv
  <2> QED
    BY <2>1, <2>2
<1>2. BatchInv /\ [Next]_vars =>
        [\A a, b \in Appends :
            state[a] \in {"wrong", "failed"} /\ state'[b] = "ok" => state[b] = "ok"]_vars
  BY <1>1
<1> QED
  BY <1>2, BatchCorrect, PTL DEF Spec, NoSuccessAfterAFailure

===============================================================================
