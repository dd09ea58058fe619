--------------------- MODULE PersistentSubscriptionProofs ----------------------
(***************************************************************************)
(* What holds of a consumer of a persistent subscription group, for any    *)
(* events and links between them, any capacity of the channel, any number  *)
(* of items the group leaves unanswered, and any number of failures.       *)
(***************************************************************************)
EXTENDS PersistentSubscription, SequenceTheorems, TLAPS

Messages == Items \cup {Confirmation}
Requests == [content : {"Options", "Ack", "Nack"}, action : 0..3, ids : SUBSET Items]

\* Before a call has been accepted nothing is out, and once it is over what was
\* out has been taken back; a request stream is dropped only then.
OpenWhileSent ==
    /\ stream # "open" => Sent = {}
    /\ call \in {"handle", "read"} => stream = "none"

\* An answer under way is one the application gives to items of the group.
Answering ==
    call = "send" =>
        /\ answering.answer \in Answers
        /\ answering.items \in SUBSET Items

\* A request in the channel carries an answer that the application gave to each
\* of the items it names.
AnswersAreSaid ==
    \A k \in 1..Len(requests) :
        \/ requests[k] = Options
        \/ \E answer \in Answers, items \in SUBSET Items :
              /\ requests[k] = Request(answer, items)
              /\ \A i \in items : answer \in said[i]

-----------------------------------------------------------------------------
(* Requests. *)

\* An answer names the items it was given for, those that are links included.
LEMMA NamesItsItems ==
    ASSUME NEW answer, NEW items \in SUBSET Items
    PROVE  Request(answer, items).ids = items
<1>1. ASSUME NEW i \in Items PROVE get_original_event(Resolved(i)) = i
  BY PersistentSubscriptionAssumption DEF get_original_event, Resolved
<1>2. {get_original_event(Resolved(i)) : i \in items} = items
  BY <1>1
<1> QED
  BY <1>2 DEF Request

\* The group does with an item what the answer says.
LEMMA DoesWhatIsAnswered ==
    ASSUME NEW answer \in Answers, NEW items
    PROVE  Outcome(Request(answer, items)) = IF answer = "Retry" THEN "pending" ELSE answer
<1>1. CASE answer = "Ack"
  BY <1>1 DEF Outcome, Request
<1>2. CASE answer = "Park"
  BY <1>2 DEF Outcome, Request, Code
<1>3. CASE answer = "Retry"
  BY <1>3 DEF Outcome, Request, Code
<1>4. CASE answer = "Skip"
  BY <1>4 DEF Outcome, Request, Code
<1> QED
  BY <1>1, <1>2, <1>3, <1>4 DEF Answers, NakActions

\* Every answer is a request of the channel.
LEMMA RequestType ==
    ASSUME NEW answer \in Answers, NEW items \in SUBSET Items
    PROVE  Request(answer, items) \in Requests
<1>1. Request(answer, items).ids \in SUBSET Items
  BY NamesItsItems
<1>2. Code(answer) \in 0..3 \/ answer = "Ack"
  BY DEF Code, Answers, NakActions
<1> QED
  BY <1>1, <1>2 DEF Request, Requests

LEMMA OptionsType == Options \in Requests /\ Options.ids = {}
BY DEF Options, Requests

-----------------------------------------------------------------------------
(* Types, and when the group waits for answers. *)

\* What a failure does to the connection stays a number.
LEMMA HandleErrorType ==
    ASSUME TypeOK, NEW status, handle_error(status)
    PROVE  current' \in Nat
BY DEF TypeOK, handle_error

\* Items that are sent again are no longer out.
LEMMA RequeueType ==
    ASSUME TypeOK, NEW items, Requeue(items)
    PROVE  /\ group' \in [Items -> Settled \cup {"pending", "sent"}]
           /\ \A i \in Items : group'[i] = IF i \in items THEN "pending" ELSE group[i]
BY DEF TypeOK, Requeue

\* The first message of a sequence, and what remains.
LEMMA TakeFirst ==
    ASSUME NEW S, NEW queue \in Seq(S), queue # <<>>
    PROVE  /\ Head(queue) = queue[1] /\ Head(queue) \in S
           /\ Len(queue) \in Nat /\ Len(queue) >= 1
           /\ Tail(queue) \in Seq(S) /\ Len(Tail(queue)) = Len(queue) - 1
           /\ \A k \in 1..Len(Tail(queue)) : Tail(queue)[k] = queue[k + 1]
BY HeadTailProperties

\* The request that the group reads is the options, or an answer that was given.
LEMMA HeadIsSaid ==
    ASSUME TypeOK, AnswersAreSaid, requests # <<>>
    PROVE  \/ Head(requests) = Options
           \/ \E answer \in Answers, items \in SUBSET Items :
                 /\ Head(requests) = Request(answer, items)
                 /\ \A i \in items : answer \in said[i]
<1>1. Head(requests) = requests[1] /\ 1 \in 1..Len(requests)
  BY TakeFirst DEF TypeOK
<1> QED
  BY <1>1 DEF AnswersAreSaid

\* What the group makes of the request it reads.
LEMMA TransmitEffect ==
    ASSUME TypeOK, AnswersAreSaid, Transmit
    PROVE  \A i \in Items :
               \/ group'[i] = group[i] /\ (group[i] = "sent" => i \notin Head(requests).ids)
               \/ group[i] = "sent" /\ group'[i] = "pending"
               \/ group[i] = "sent" /\ group'[i] \in Settled /\ group'[i] \in said[i]
<1> SUFFICES ASSUME NEW i \in Items
             PROVE  \/ group'[i] = group[i] /\ (group[i] = "sent" => i \notin Head(requests).ids)
                    \/ group[i] = "sent" /\ group'[i] = "pending"
                    \/ group[i] = "sent" /\ group'[i] \in Settled /\ group'[i] \in said[i]
  OBVIOUS
<1>1. group'[i] = IF i \in Sent \cap Head(requests).ids
                  THEN Outcome(Head(requests)) ELSE group[i]
  BY DEF Transmit
<1>2. requests # <<>>
  BY DEF Transmit
<1>3. CASE i \in Sent \cap Head(requests).ids
  <2>1. PICK answer \in Answers, items \in SUBSET Items :
           /\ Head(requests) = Request(answer, items)
           /\ \A j \in items : answer \in said[j]
    BY <1>2, <1>3, HeadIsSaid, OptionsType
  <2>2. Head(requests).ids = items
    BY <2>1, NamesItsItems
  <2>3. Outcome(Head(requests)) = IF answer = "Retry" THEN "pending" ELSE answer
    BY <2>1, DoesWhatIsAnswered
  <2>4. answer \in said[i]
    BY <1>3, <2>1, <2>2
  <2>5. answer = "Retry" \/ answer \in Settled
    BY DEF Answers, NakActions, Settled
  <2>6. group[i] = "sent"
    BY <1>3 DEF Sent
  <2> QED
    BY <1>1, <1>3, <2>3, <2>4, <2>5, <2>6
<1>4. CASE i \notin Sent \cap Head(requests).ids
  BY <1>1, <1>4 DEF Sent
<1> QED
  BY <1>3, <1>4

\* An answer that the channel takes.
LEMMA AnswerIsSentEffect ==
    ASSUME TypeOK, Answering, AnswerIsSent
    PROVE  /\ requests' = Append(requests, Request(answering.answer, answering.items))
           /\ answering.answer \in Answers /\ answering.items \in SUBSET Items
           /\ requests' \in Seq(Requests)
           /\ Len(requests) \in Nat /\ Len(requests') = Len(requests) + 1
           /\ Len(requests') <= Capacity
           /\ \A k \in 1..Len(requests) : requests'[k] = requests[k]
           /\ requests'[Len(requests) + 1] = Request(answering.answer, answering.items)
<1>1. answering.answer \in Answers /\ answering.items \in SUBSET Items
  BY DEF Answering, AnswerIsSent
<1>2. requests' = Append(requests, Request(answering.answer, answering.items))
      /\ Len(requests) < Capacity
  BY DEF AnswerIsSent, Enqueue
<1>3. Request(answering.answer, answering.items) \in Requests
  BY <1>1, RequestType
<1>4. requests \in Seq(Requests)
  BY DEF TypeOK, Requests
<1>5. Capacity \in Nat
  BY PersistentSubscriptionAssumption
<1> HIDE DEF Requests
<1> QED
  BY <1>1, <1>2, <1>3, <1>4, <1>5, AppendProperties

-----------------------------------------------------------------------------
(* Types, and when the group waits for answers. *)

\* Every step keeps every variable in its type; the channel is never fuller than
\* its capacity.
LEMMA TypeStep ==
    ASSUME TypeOK, Answering, AnswersAreSaid, [Next]_vars
    PROVE  TypeOK'
<1>1. CASE Push
  <2>1. PICK i \in Items :
           /\ group' = [group EXCEPT ![i] = "sent"]
           /\ wire' = Append(wire, i)
    BY <1>1 DEF Push
  <2>2. wire' \in Seq(Items \cup {Confirmation})
    BY <2>1, AppendProperties DEF TypeOK
  <2> QED
    BY <1>1, <2>1, <2>2 DEF Push, applicationVars, connectionVars, TypeOK
<1>2. CASE Transmit
  <2>1. group' \in [Items -> Settled \cup {"pending", "sent"}]
    <3>1. group' = [i \in Items |-> group'[i]]
      BY <1>2 DEF Transmit
    <3>2. \A i \in Items : group'[i] \in Settled \cup {"pending", "sent"}
      BY <1>2, TransmitEffect DEF TypeOK
    <3> QED
      BY <3>1, <3>2
  <2>2. requests' \in Seq(Requests) /\ Len(requests') <= Capacity
    <3>1. requests # <<>> /\ requests \in Seq(Requests) /\ requests' = Tail(requests)
      BY <1>2 DEF Transmit, TypeOK, Requests
    <3>2. Capacity \in Nat /\ Len(requests) <= Capacity
      BY PersistentSubscriptionAssumption DEF TypeOK
    <3> HIDE DEF Requests
    <3> QED
      BY <3>1, <3>2, TakeFirst
  <2> QED
    BY <1>2, <2>1, <2>2 DEF Transmit, applicationVars, connectionVars, TypeOK, Requests
<1>3. CASE DropBody
  <2>1. requests' = <<>> /\ Len(requests') <= Capacity
    BY <1>3, PersistentSubscriptionAssumption DEF DropBody
  <2> QED
    BY <1>3, <2>1 DEF DropBody, applicationVars, connectionVars, TypeOK
<1>4. CASE AnswerIsLate
  <2>1. PICK i \in Sent : Requeue({i})
    BY <1>4 DEF AnswerIsLate
  <2>2. group' \in [Items -> Settled \cup {"pending", "sent"}]
    BY <2>1, RequeueType
  <2> QED
    BY <1>4, <2>2 DEF AnswerIsLate, Fault, sessionVars, applicationVars, connectionVars, TypeOK
<1>5. CASE Break
  <2>1. PICK n \in 0..Len(wire) : wire' = SubSeq(wire, 1, n)
    BY <1>5 DEF Break
  <2>2. wire' \in Seq(Items \cup {Confirmation})
    BY <2>1, SubSeqProperties DEF TypeOK
  <2>3. group' \in [Items -> Settled \cup {"pending", "sent"}]
    BY <1>5, RequeueType DEF Break
  <2> QED
    BY <1>5, <2>2, <2>3 DEF Break, Fault, applicationVars, connectionVars, TypeOK
<1>6. CASE Replace
  BY <1>6 DEF Replace, Fault, sessionVars, applicationVars, TypeOK
<1>19. CASE TaskStops
  <2>1. open' \in BOOLEAN
    BY <1>19 DEF TaskStops
  <2>2. faults' \in Nat
    BY <1>19 DEF TaskStops, Fault, TypeOK
  <2>3. UNCHANGED <<group, sessionVars, applicationVars, channel_id, current>>
    BY <1>19 DEF TaskStops
  <2> QED
    BY <2>1, <2>2, <2>3 DEF sessionVars, applicationVars, TypeOK
<1>7. CASE Subscribe
  <2>1. wire' = <<>> /\ requests' = <<>> /\ Len(requests') <= Capacity
    BY <1>7, PersistentSubscriptionAssumption DEF Subscribe, NoSession
  <2> QED
    BY <1>7, <2>1 DEF Subscribe, NoSession, connectionVars, TypeOK
<1>8. CASE HandleAnswered
  <2>1. requests' \in Seq(Requests) /\ Len(requests') <= Capacity
    <3>1. requests' = <<Options>> /\ Options \in Requests /\ Capacity >= 1
      BY <1>8, OptionsType, PersistentSubscriptionAssumption DEF HandleAnswered
    <3> HIDE DEF Requests
    <3> QED
      BY <3>1, PersistentSubscriptionAssumption
  <2> QED
    BY <1>8, <2>1 DEF HandleAnswered, TypeOK, Requests
<1>9. CASE HandleRefused \/ CallNext \/ StreamIsOver \/ GiveUp \/ UNCHANGED vars
  BY <1>9 DEF HandleRefused, CallNext, StreamIsOver, GiveUp, vars, Fault, sessionVars,
     applicationVars, connectionVars, TypeOK
<1>10. CASE ReadAccepted
  <2>1. requests' \in Seq(Requests) /\ Len(requests') <= Capacity
    <3>1. requests # <<>> /\ requests \in Seq(Requests) /\ requests' = Tail(requests)
      BY <1>10 DEF ReadAccepted, TypeOK, Requests
    <3>2. Capacity \in Nat /\ Len(requests) <= Capacity
      BY PersistentSubscriptionAssumption DEF TypeOK
    <3> HIDE DEF Requests
    <3> QED
      BY <3>1, <3>2, TakeFirst
  <2>2. wire' \in Seq(Items \cup {Confirmation})
    BY <1>10 DEF ReadAccepted
  <2> QED
    BY <1>10, <2>1, <2>2 DEF ReadAccepted, connectionVars, TypeOK, Requests
<1>11. CASE ReadRefused
  <2>1. wire' = <<>> /\ requests' = <<>> /\ Len(requests') <= Capacity
    BY <1>11, PersistentSubscriptionAssumption DEF ReadRefused, NoSession
  <2>2. current' \in Nat
    BY <1>11, HandleErrorType DEF ReadRefused
  <2> QED
    BY <1>11, <2>1, <2>2 DEF ReadRefused, NoSession, Fault, TypeOK
<1>12. CASE ReceiveEvent
  <2>1. /\ wire # <<>> /\ wire \in Seq(Messages)
        /\ Head(wire) # Confirmation /\ wire' = Tail(wire)
    BY <1>12 DEF ReceiveEvent, TypeOK, Messages
  <2>2. Head(wire) \in Messages /\ wire' \in Seq(Messages)
    BY <2>1, TakeFirst
  <2> QED
    BY <1>12, <2>1, <2>2 DEF ReceiveEvent, connectionVars, TypeOK, Messages
<1>13. CASE ReceiveConfirmation
  <2>1. wire' \in Seq(Messages)
    BY <1>13, TakeFirst DEF ReceiveConfirmation, TypeOK, Messages
  <2> QED
    BY <1>13, <2>1 DEF ReceiveConfirmation, connectionVars, TypeOK, Messages
<1>14. CASE StreamFails
  <2>1. current' \in Nat
    BY <1>14, HandleErrorType DEF StreamFails
  <2> QED
    BY <1>14, <2>1 DEF StreamFails, TypeOK
<1>15. CASE Answer
  <2>1. PICK items \in SUBSET unanswered \ {{}}, answer \in Answers :
           /\ answering' = [answer |-> answer, items |-> items]
           /\ IF answer = "Retry" THEN Fault ELSE UNCHANGED faults
    BY <1>15 DEF Answer, Answers
  <2>2. items \in SUBSET Items
    BY DEF TypeOK
  <2>3. answering' \in [answer : Answers, items : SUBSET Items]
    BY <2>1, <2>2
  <2>4. faults' \in Nat
    BY <2>1 DEF Fault, TypeOK
  <2> QED
    BY <1>15, <2>3, <2>4 DEF Answer, sessionVars, connectionVars, TypeOK
<1>16. CASE AnswerIsSent
  <2>1. /\ requests' \in Seq(Requests) /\ Len(requests') <= Capacity
        /\ answering.answer \in Answers
    BY <1>16, AnswerIsSentEffect
  <2>2. said' \in [Items -> SUBSET Answers]
    BY <1>16, <2>1 DEF AnswerIsSent, TypeOK
  <2> QED
    BY <1>16, <2>1, <2>2 DEF AnswerIsSent, connectionVars, TypeOK, Requests
<1>17. CASE AnswerFails
  BY <1>17 DEF AnswerFails, sessionVars, connectionVars, TypeOK
<1>18. CASE Cancel
  <2>1. CASE call = "read"
    <3>1. requests' = <<>> /\ Len(requests') <= Capacity
      BY <1>18, <2>1, PersistentSubscriptionAssumption DEF Cancel, NoSession
    <3> QED
      BY <1>18, <2>1, <3>1 DEF Cancel, NoSession, Fault, connectionVars, TypeOK
  <2>2. CASE call # "read"
    BY <1>18, <2>2 DEF Cancel, Fault, sessionVars, connectionVars, TypeOK
  <2> QED
    BY <2>1, <2>2
<1> QED
  BY <1>1, <1>2, <1>3, <1>4, <1>5, <1>6, <1>7, <1>8, <1>9, <1>10, <1>11, <1>12,
     <1>13, <1>14, <1>15, <1>16, <1>17, <1>18, <1>19
  DEF Next, Proceed, Server

\* While the group waits for an answer its call is open, and an answer under way
\* is for items of the group.
LEMMA OpenWhileSentStep ==
    ASSUME TypeOK, OpenWhileSent, Answering, AnswersAreSaid, [Next]_vars
    PROVE  OpenWhileSent' /\ Answering'
<1> USE DEF OpenWhileSent, Answering
<1>1. CASE Push
  <2>1. stream = "open" /\ stream' = stream /\ UNCHANGED applicationVars
    BY <1>1 DEF Push
  <2> QED
    BY <2>1 DEF applicationVars
<1>2. CASE Transmit
  <2>1. stream = "open" /\ stream' = stream /\ UNCHANGED applicationVars
    BY <1>2 DEF Transmit
  <2> QED
    BY <2>1 DEF applicationVars
<1>3. CASE AnswerIsLate
  <2>1. PICK i \in Sent : Requeue({i})
    BY <1>3 DEF AnswerIsLate
  <2>2. Sent' \subseteq Sent
    BY <2>1, RequeueType DEF Sent
  <2> QED
    BY <1>3, <2>2 DEF AnswerIsLate, sessionVars, applicationVars
<1>4. CASE Break
  <2>1. Requeue(Sent) /\ stream = "open" /\ UNCHANGED applicationVars
    BY <1>4 DEF Break
  <2>2. Sent' = {}
    BY <2>1, RequeueType DEF Sent
  <2> QED
    BY <2>1, <2>2 DEF applicationVars
<1>5. CASE Answer
  <2> PICK items \in SUBSET unanswered \ {{}}, answer \in Answers :
         answering' = [answer |-> answer, items |-> items]
    BY <1>5 DEF Answer, Answers
  <2>1. answering'.answer \in Answers /\ answering'.items \in SUBSET Items
    BY DEF TypeOK
  <2> QED
    BY <1>5, <2>1 DEF Answer, Sent, sessionVars
<1>6. CASE DropBody \/ Replace \/ TaskStops \/ StreamIsOver \/ GiveUp \/ CallNext \/ UNCHANGED vars
  BY <1>6 DEF DropBody, Replace, TaskStops, StreamIsOver, GiveUp, CallNext, Sent, vars, sessionVars,
     applicationVars
<1>7. CASE Subscribe \/ HandleAnswered \/ HandleRefused \/ ReadAccepted \/ ReadRefused
  BY <1>7 DEF Subscribe, HandleAnswered, HandleRefused, ReadAccepted, ReadRefused,
     NoSession, Sent, sessionVars
<1>8. CASE ReceiveEvent \/ ReceiveConfirmation \/ StreamFails
  BY <1>8 DEF ReceiveEvent, ReceiveConfirmation, StreamFails, Status, Sent
<1>9. CASE AnswerIsSent \/ AnswerFails \/ Cancel
  BY <1>9 DEF AnswerIsSent, AnswerFails, Cancel, NoSession, Sent, sessionVars
<1> QED
  BY <1>1, <1>2, <1>3, <1>4, <1>5, <1>6, <1>7, <1>8, <1>9 DEF Next, Proceed, Server

-----------------------------------------------------------------------------
(* Answers. *)

\* What is in the channel was said: an application never takes an answer back.
LEMMA AnswersAreSaidStep ==
    ASSUME TypeOK, Answering, AnswersAreSaid, [Next]_vars
    PROVE  AnswersAreSaid'
<1>1. ASSUME UNCHANGED <<requests, said>> PROVE AnswersAreSaid'
  BY <1>1 DEF AnswersAreSaid
<1>2. ASSUME requests' = <<>> PROVE AnswersAreSaid'
  BY <1>2 DEF AnswersAreSaid
<1>3. ASSUME requests # <<>>, requests' = Tail(requests), said' = said
      PROVE  AnswersAreSaid'
  <2> SUFFICES ASSUME NEW k \in 1..Len(requests')
               PROVE  \/ requests'[k] = Options
                      \/ \E answer \in Answers, items \in SUBSET Items :
                            /\ requests'[k] = Request(answer, items)
                            /\ \A i \in items : answer \in said'[i]
    BY DEF AnswersAreSaid
  <2>1. requests'[k] = requests[k + 1] /\ k + 1 \in 1..Len(requests)
    BY <1>3, TakeFirst DEF TypeOK
  <2> QED
    BY <1>3, <2>1 DEF AnswersAreSaid
<1>4. CASE HandleAnswered
  BY <1>4 DEF HandleAnswered, AnswersAreSaid
<1>5. CASE AnswerIsSent
  <2> SUFFICES ASSUME NEW k \in 1..Len(requests')
               PROVE  \/ requests'[k] = Options
                      \/ \E answer \in Answers, items \in SUBSET Items :
                            /\ requests'[k] = Request(answer, items)
                            /\ \A i \in items : answer \in said'[i]
    BY DEF AnswersAreSaid
  <2>1. said' = [i \in Items |-> IF i \in answering.items
                                 THEN said[i] \cup {answering.answer} ELSE said[i]]
    BY <1>5 DEF AnswerIsSent
  <2>2. CASE k \in 1..Len(requests)
    <3>1. requests'[k] = requests[k]
      BY <1>5, <2>2, AnswerIsSentEffect
    <3>2. \A i \in Items : said[i] \subseteq said'[i]
      BY <2>1
    <3> QED
      BY <2>2, <3>1, <3>2 DEF AnswersAreSaid
  <2>3. CASE k = Len(requests) + 1
    <3>1. requests'[k] = Request(answering.answer, answering.items)
      BY <1>5, <2>3, AnswerIsSentEffect
    <3>2. answering.answer \in Answers /\ answering.items \in SUBSET Items
      BY <1>5, AnswerIsSentEffect
    <3>3. \A i \in answering.items : answering.answer \in said'[i]
      BY <2>1, <3>2
    <3> QED
      BY <3>1, <3>2, <3>3
  <2> QED
    BY <1>5, <2>2, <2>3, AnswerIsSentEffect
<1>6. CASE Transmit \/ ReadAccepted
  BY <1>3, <1>6 DEF Transmit, ReadAccepted, applicationVars
<1>7. CASE DropBody \/ Subscribe \/ ReadRefused \/ Cancel
  BY <1>1, <1>2, <1>7 DEF DropBody, Subscribe, ReadRefused, Cancel, NoSession, sessionVars
<1>8. CASE Push \/ AnswerIsLate \/ Break \/ Replace \/ TaskStops \/ UNCHANGED vars
  BY <1>1, <1>8 DEF Push, AnswerIsLate, Break, Replace, TaskStops, vars, sessionVars, applicationVars
<1>9. CASE CallNext \/ Answer \/ GiveUp \/ HandleRefused
  BY <1>1, <1>9 DEF CallNext, Answer, GiveUp, HandleRefused, sessionVars
<1>10. CASE ReceiveEvent \/ ReceiveConfirmation \/ StreamFails \/ StreamIsOver \/ AnswerFails
  BY <1>1, <1>10 DEF ReceiveEvent, ReceiveConfirmation, StreamFails, StreamIsOver,
     AnswerFails, sessionVars
<1> QED
  BY <1>4, <1>5, <1>6, <1>7, <1>8, <1>9, <1>10 DEF Next, Proceed, Server

\* An item is settled only by an answer in the channel, which was said.
LEMMA SettledStep ==
    ASSUME TypeOK, Answering, AnswersAreSaid, SettledAsAnswered, [Next]_vars
    PROVE  SettledAsAnswered'
<1> SUFFICES ASSUME NEW i \in Items, group'[i] \in Settled
             PROVE  group'[i] \in said'[i]
  BY DEF SettledAsAnswered
<1>1. said[i] \subseteq said'[i]
  <2>1. CASE AnswerIsSent
    BY <2>1 DEF AnswerIsSent
  <2>2. CASE UNCHANGED said
    BY <2>2
  <2> QED
    BY <2>1, <2>2 DEF Next, Proceed, Server, Push, Transmit, DropBody, AnswerIsLate, Break,
       Replace, TaskStops, Subscribe, CallNext, Answer, GiveUp, Cancel, HandleAnswered,
       HandleRefused,
       ReadAccepted, ReadRefused, ReceiveEvent, ReceiveConfirmation, StreamFails,
       StreamIsOver, AnswerFails, vars, applicationVars
<1>2. group'[i] = group[i] \/ group'[i] \in said[i]
  <2>1. ASSUME NEW items, Requeue(items)
        PROVE  group'[i] = group[i]
    BY <2>1, RequeueType DEF Settled
  <2>2. CASE Push
    BY <2>2 DEF Push, TypeOK, Settled
  <2>3. CASE Transmit
    BY <2>3, TransmitEffect DEF Settled
  <2>4. CASE AnswerIsLate \/ Break
    BY <2>1, <2>4 DEF AnswerIsLate, Break
  <2>5. CASE UNCHANGED group
    BY <2>5
  <2> QED
    BY <2>2, <2>3, <2>4, <2>5 DEF Next, Proceed, Server, DropBody, Replace,
       TaskStops, Subscribe, CallNext, Answer, GiveUp, Cancel, HandleAnswered,
       HandleRefused, ReadAccepted,
       ReadRefused, ReceiveEvent, ReceiveConfirmation, StreamFails, StreamIsOver,
       AnswerIsSent, AnswerFails, vars
<1> QED
  BY <1>1, <1>2 DEF SettledAsAnswered

-----------------------------------------------------------------------------
(* Items. *)

\* An item that is out, wherever it is.
Held(i) ==
    \/ \E k \in 1..Len(wire) : wire[k] = i
    \/ i \in unanswered
    \/ \E k \in 1..Len(requests) : i \in requests[k].ids

LEMMA HeldIsEnough == NothingFallsBetween <=> \A i \in Sent : Held(i)
BY DEF NothingFallsBetween, Held, ToSet

\* An item that is out stays on the wire, with the application or in the channel
\* until the group has read the answer, whichever step is taken.
LEMMA HeldStep ==
    ASSUME TypeOK, OpenWhileSent, Answering, AnswersAreSaid, [Next]_vars,
           \A i \in Sent : Held(i)
    PROVE  \A i \in Sent' : Held(i)'
<1>1. ASSUME NEW i, Held(i), UNCHANGED <<wire, unanswered, requests>>
      PROVE  Held(i)'
  BY <1>1 DEF Held
<1>2. ASSUME UNCHANGED <<group, wire, unanswered, requests>>
      PROVE  \A i \in Sent' : Held(i)'
  BY <1>2 DEF Sent, Held
<1>3. ASSUME stream # "open", UNCHANGED group
      PROVE  Sent' = {}
  BY <1>3 DEF OpenWhileSent, Sent
<1>4. ASSUME NEW items, Requeue(items)
      PROVE  Sent' \subseteq Sent \ items
  BY <1>4, RequeueType DEF Sent
<1>5. CASE Push
  <2>1. PICK p \in Items : /\ group' = [group EXCEPT ![p] = "sent"]
                           /\ wire' = Append(wire, p)
    BY <1>5 DEF Push
  <2>2. /\ Len(wire') = Len(wire) + 1 /\ wire'[Len(wire) + 1] = p
        /\ \A k \in 1..Len(wire) : wire'[k] = wire[k]
        /\ Len(wire) \in Nat
    BY <2>1, AppendProperties DEF TypeOK
  <2>3. UNCHANGED <<unanswered, requests>>
    BY <1>5 DEF Push, applicationVars
  <2>4. ASSUME NEW i \in Sent', i # p PROVE Held(i)'
    <3>1. i \in Sent
      BY <2>1, <2>4 DEF Sent, TypeOK
    <3> QED
      BY <2>2, <2>3, <3>1 DEF Held
  <2>5. Held(p)'
    BY <2>2 DEF Held
  <2> QED
    BY <2>4, <2>5
<1>6. CASE Transmit
  <2> SUFFICES ASSUME NEW i \in Sent' PROVE Held(i)'
    OBVIOUS
  <2>1. i \in Sent /\ i \notin Head(requests).ids
    BY <1>6, TransmitEffect DEF Sent, Settled
  <2>2. /\ requests # <<>> /\ requests' = Tail(requests) /\ wire' = wire
        /\ unanswered' = unanswered
    BY <1>6 DEF Transmit, applicationVars
  <2>3. ASSUME NEW k \in 1..Len(requests), i \in requests[k].ids
        PROVE  Held(i)'
    <3>1. requests[1] = Head(requests) /\ Len(requests') = Len(requests) - 1
          /\ Len(requests) \in Nat /\ \A j \in 1..Len(requests') : requests'[j] = requests[j + 1]
      BY <2>2, TakeFirst DEF TypeOK
    <3>2. k # 1
      BY <2>1, <2>3, <3>1
    <3>3. k - 1 \in 1..Len(requests') /\ requests'[k - 1] = requests[k]
      BY <3>1, <3>2
    <3> QED
      BY <2>3, <3>3 DEF Held
  <2> QED
    BY <2>1, <2>2, <2>3 DEF Held
<1>7. CASE AnswerIsLate
  BY <1>1, <1>4, <1>7 DEF AnswerIsLate, sessionVars, applicationVars
<1>8. CASE Break
  BY <1>4, <1>8 DEF Break
<1>9. CASE DropBody
  BY <1>3, <1>9 DEF DropBody, Status
<1>10. CASE Subscribe \/ HandleAnswered \/ ReadAccepted \/ ReadRefused
  BY <1>3, <1>10 DEF Subscribe, HandleAnswered, ReadAccepted, ReadRefused, OpenWhileSent
<1>11. CASE ReceiveEvent \/ ReceiveConfirmation
  <2> SUFFICES ASSUME NEW i \in Sent' PROVE Held(i)'
    OBVIOUS
  <2>1. /\ i \in Sent /\ wire # <<>> /\ wire' = Tail(wire)
        /\ requests' = requests
        /\ unanswered' = unanswered \/ unanswered' = unanswered \cup {Head(wire)}
        /\ Head(wire) = Confirmation \/ Head(wire) \in unanswered'
    BY <1>11 DEF ReceiveEvent, ReceiveConfirmation, Sent
  <2>2. i # Confirmation
    BY PersistentSubscriptionAssumption, <2>1 DEF Sent
  <2>3. ASSUME NEW k \in 1..Len(wire), wire[k] = i
        PROVE  Held(i)'
    <3>1. wire[1] = Head(wire) /\ Len(wire') = Len(wire) - 1 /\ Len(wire) \in Nat
          /\ \A j \in 1..Len(wire') : wire'[j] = wire[j + 1]
      BY <2>1, TakeFirst DEF TypeOK
    <3>2. CASE k = 1
      BY <2>1, <2>2, <2>3, <3>1, <3>2 DEF Held
    <3>3. CASE k # 1
      <4>1. k - 1 \in 1..Len(wire') /\ wire'[k - 1] = wire[k]
        BY <3>1, <3>3
      <4> QED
        BY <2>3, <4>1 DEF Held
    <3> QED
      BY <3>2, <3>3
  <2> QED
    BY <2>1, <2>3 DEF Held
<1>12. CASE AnswerIsSent
  <2> SUFFICES ASSUME NEW i \in Sent' PROVE Held(i)'
    OBVIOUS
  <2>1. /\ i \in Sent /\ wire' = wire
        /\ unanswered' = unanswered \ answering.items
    BY <1>12 DEF AnswerIsSent, Sent
  <2>2. Request(answering.answer, answering.items).ids = answering.items
    BY <1>12, AnswerIsSentEffect, NamesItsItems
  <2>3. /\ Len(requests) \in Nat /\ Len(requests') = Len(requests) + 1
        /\ \A k \in 1..Len(requests) : requests'[k] = requests[k]
        /\ requests'[Len(requests) + 1] = Request(answering.answer, answering.items)
    BY <1>12, AnswerIsSentEffect
  <2>4. CASE i \in answering.items
    BY <2>2, <2>3, <2>4 DEF Held
  <2>5. CASE i \notin answering.items
    BY <2>1, <2>3, <2>5 DEF Held
  <2> QED
    BY <2>4, <2>5
<1>13. CASE Cancel
  <2>1. CASE call = "read"
    BY <1>3, <1>13, <2>1 DEF Cancel, OpenWhileSent
  <2>2. CASE call # "read"
    BY <1>2, <1>13, <2>2 DEF Cancel, sessionVars
  <2> QED
    BY <2>1, <2>2
<1>14. CASE Replace \/ TaskStops \/ HandleRefused \/ CallNext \/ StreamIsOver \/ GiveUp \/ UNCHANGED vars
  BY <1>2, <1>14 DEF Replace, TaskStops, HandleRefused, CallNext, StreamIsOver, GiveUp, vars,
     sessionVars, applicationVars
<1>15. CASE StreamFails \/ Answer \/ AnswerFails
  BY <1>2, <1>15 DEF StreamFails, Answer, AnswerFails, sessionVars
<1> QED
  BY <1>5, <1>6, <1>7, <1>8, <1>9, <1>10, <1>11, <1>12, <1>13, <1>14, <1>15
  DEF Next, Proceed, Server

-----------------------------------------------------------------------------
(* The theorems. *)

IInv ==
    /\ TypeOK /\ OpenWhileSent /\ Answering /\ AnswersAreSaid
    /\ SettledAsAnswered /\ NothingFallsBetween

LEMMA InvariantInit == Init => IInv
<1> SUFFICES ASSUME Init PROVE IInv
  OBVIOUS
<1>1. wire = <<>> /\ requests = <<>> /\ Len(requests) <= Capacity
  BY PersistentSubscriptionAssumption DEF Init
<1>2. TypeOK
  BY <1>1 DEF Init, TypeOK
<1>3. Sent = {}
  BY DEF Init, Sent
<1>4. OpenWhileSent /\ Answering /\ AnswersAreSaid
  BY <1>1, <1>3 DEF Init, OpenWhileSent, Answering, AnswersAreSaid
<1>5. SettledAsAnswered /\ NothingFallsBetween
  BY <1>3 DEF Init, SettledAsAnswered, Settled, NothingFallsBetween
<1> QED
  BY <1>2, <1>4, <1>5 DEF IInv

LEMMA InvariantStep == IInv /\ [Next]_vars => IInv'
<1> SUFFICES ASSUME IInv, [Next]_vars PROVE IInv'
  OBVIOUS
<1> USE DEF IInv
<1>1. TypeOK' /\ OpenWhileSent' /\ Answering' /\ AnswersAreSaid'
  BY TypeStep, OpenWhileSentStep, AnswersAreSaidStep
<1>2. SettledAsAnswered'
  BY SettledStep
<1>3. \A i \in Sent' : Held(i)'
  BY HeldStep, HeldIsEnough
<1>4. NothingFallsBetween'
  BY <1>3 DEF NothingFallsBetween, Held, ToSet
<1> QED
  BY <1>1, <1>2, <1>4

\* Every variable stays in its type: in particular the channel of answers never
\* holds more than its capacity, whatever is cancelled while it is full.
THEOREM TypeCorrect == Spec => []TypeOK
BY InvariantInit, InvariantStep, PTL DEF Spec, IInv

\* The group settles an item only as the application answered that very item
\* (ack_ids and nack_ids, get_original_event), links and late answers included.
THEOREM SettledAsAnsweredCorrect == Spec => []SettledAsAnswered
BY InvariantInit, InvariantStep, PTL DEF Spec, IInv

\* While the group waits for an answer to an item, the item or its answer is on
\* the wire, with the application or in the channel (next, ack_ids, nack_ids).
THEOREM NothingFallsBetweenCorrect == Spec => []NothingFallsBetween
BY InvariantInit, InvariantStep, PTL DEF Spec, IInv

===============================================================================
