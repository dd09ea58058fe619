------------------------ MODULE PersistentSubscription ------------------------
(***************************************************************************)
(* A consumer of a persistent subscription group,                          *)
(* trogon-eventstore/src/commands.rs: subscribe_to_persistent_subscription *)
(* opens a call whose request stream reads a bounded channel; next reads   *)
(* the response stream, and ack and nack put answers in the channel.  All  *)
(* three take the subscription exclusively, so one is under way at a time. *)
(* Every await can be dropped.                                             *)
(*                                                                         *)
(* The group is the server's: it sends an item to the consumer, waits for  *)
(* its answer, and sends it again when the call breaks or the answer is    *)
(* late.  Unlike a catch-up subscription, the client never resubscribes;   *)
(* the application does.                                                   *)
(***************************************************************************)
EXTENDS Naturals, Sequences, FiniteSets, SequencesExt

CONSTANTS
    Items,          \* the events of the group
    Target,         \* the event that each item which is a link resolves to
    Absent,         \* None
    Capacity,       \* of the channel of requests, 500 in the code
    BufferSize,     \* how many items the group leaves unanswered
    MaxFaults       \* bound: failures, late answers, retries, cancellations,
                    \* connections replaced and the connection task's end

\* The server's first message, which is no item.
Confirmation == "Confirmation"

ASSUME PersistentSubscriptionAssumption ==
    /\ DOMAIN Target \subseteq Items
    /\ Absent \notin Items /\ Confirmation \notin Items
    /\ {Capacity, BufferSize} \subseteq Nat \ {0}
    /\ MaxFaults \in Nat

VARIABLES
    group,        \* server: each item "pending", "sent", or how it was settled
    wire,         \* what the response stream still holds for the client
    stream,       \* inner: "none", or how it goes on at the end of wire: "open",
                  \* "ended", the status it fails with, "exhausted" once it has
    requests,     \* the channel of ack_sender
    body,         \* the request stream, which reads it: "none", "open", "dropped"
    call,         \* what the application awaits; "nothing", or "panicked"
    answering,    \* the items and the content of the ack or nack under way
    unanswered,   \* the items the application holds
    channel_id,   \* PersistentSubscription::channel_id
    current,      \* the connection task: the id of its connection
    open,         \* the connection task: it has not left its loop
    said,         \* history: the answers the application gave for each item
    faults        \* history: counts towards MaxFaults

sessionVars == <<wire, stream, requests, body>>
applicationVars == <<call, answering, unanswered, said>>
connectionVars == <<channel_id, current, open>>
vars == <<group, sessionVars, applicationVars, connectionVars, faults>>

-----------------------------------------------------------------------------

\* "Dropped": the server's persistent-subscription-dropped.
Status == {"NotLeader", "Unavailable", "Dropped"}

\* What an item is sent as: a link comes with the event it resolves to.
Resolved(item) ==
    IF item \in DOMAIN Target
    THEN [event |-> Target[item], link |-> item]
    ELSE [event |-> item, link |-> Absent]

\* Mutation of get_original_event: the event the application works on.
get_event(e) == e.event

get_original_event(e) == IF e.link # Absent THEN e.link ELSE e.event

\* An answer's content: Ack, or the code of a NakAction.
NakActions == {"Park", "Retry", "Skip"}

\* Mutation of Code: Retry and Skip take each other's place.
CodeSwapped(action) == CASE action = "Park" -> 1 [] action = "Skip" -> 2 [] action = "Retry" -> 3

Code(action) == CASE action = "Park" -> 1 [] action = "Retry" -> 2 [] action = "Skip" -> 3

Options == [content |-> "Options", action |-> 0, ids |-> {}]

Request(answer, items) ==
    [content |-> IF answer = "Ack" THEN "Ack" ELSE "Nack",
     action |-> IF answer = "Ack" THEN 0 ELSE Code(answer),
     ids |-> {get_original_event(Resolved(i)) : i \in items}]

NoAnswer == [answer |-> "none", items |-> {}]

Init ==
    /\ group = [i \in Items |-> "pending"]
    /\ wire = <<>> /\ stream = "none" /\ requests = <<>> /\ body = "none"
    /\ call = "nothing" /\ answering = NoAnswer
    /\ unanswered = {} /\ said = [i \in Items |-> {}]
    /\ channel_id = 0 /\ current = 1 /\ open = TRUE
    /\ faults = 0

Fault == faults < MaxFaults /\ faults' = faults + 1

-----------------------------------------------------------------------------
(* The group, on the server. *)

Sent == {i \in Items : group[i] = "sent"}

Requeue(items) ==
    group' = [i \in Items |-> IF i \in items THEN "pending" ELSE group[i]]

Push ==
    /\ stream = "open"
    /\ Cardinality(Sent) < BufferSize
    /\ \E i \in Items :
          /\ group[i] = "pending"
          /\ group' = [group EXCEPT ![i] = "sent"]
          /\ wire' = Append(wire, i)
    /\ UNCHANGED <<stream, requests, body, applicationVars, connectionVars, faults>>

\* No answer in time: the item is sent again.
AnswerIsLate ==
    /\ Fault
    /\ \E i \in Sent : Requeue({i})
    /\ UNCHANGED <<sessionVars, applicationVars, connectionVars>>

Outcome(request) ==
    IF request.content = "Ack" THEN "Ack"
    ELSE CASE request.action = 1 -> "Park"
           [] request.action = 2 -> "pending"
           [] request.action = 3 -> "Skip"

\* The request stream yields the next answer; one for an item that is not out
\* is ignored.
Transmit ==
    /\ stream = "open" /\ body = "open"
    /\ requests # <<>>
    /\ requests' = Tail(requests)
    /\ group' = [i \in Items |-> IF i \in Sent \cap Head(requests).ids
                                 THEN Outcome(Head(requests))
                                 ELSE group[i]]
    /\ UNCHANGED <<wire, stream, body, applicationVars, connectionVars, faults>>

\* The call fails or ends, and what is out is sent again; the client may still
\* see some of what was sent.
Break ==
    /\ stream = "open"
    /\ Fault
    /\ stream' \in Status \cup {"ended"}
    /\ \E n \in 0..Len(wire) : wire' = SubSeq(wire, 1, n)
    /\ Requeue(Sent)
    /\ UNCHANGED <<requests, body, applicationVars, connectionVars>>

\* The transport drops the request stream of a call that is over, and with it
\* the receiver and the answers it holds.
DropBody ==
    /\ body = "open"
    /\ stream \in Status \cup {"ended", "exhausted"}
    /\ body' = "dropped"
    /\ requests' = <<>>
    /\ UNCHANGED <<group, wire, stream, applicationVars, connectionVars, faults>>

\* The connection task, on behalf of the other operations of the client.
Replace ==
    /\ open
    /\ Fault
    /\ current' = current + 1
    /\ UNCHANGED <<group, sessionVars, applicationVars, channel_id, open>>

\* A connection could not be made, for this or for another operation: the task
\* leaves its loop for good.
TaskStops ==
    /\ open
    /\ Fault
    /\ open' = FALSE
    /\ UNCHANGED <<group, sessionVars, applicationVars, channel_id, current>>

-----------------------------------------------------------------------------
(* subscribe_to_persistent_subscription. *)

NoSession == wire' = <<>> /\ stream' = "none" /\ requests' = <<>> /\ body' = "none"

\* Also of an application whose subscription has failed.
Subscribe ==
    /\ call = "nothing"
    /\ stream \in {"none", "exhausted"}
    /\ call' = "handle"
    /\ NoSession
    /\ UNCHANGED <<group, answering, unanswered, said, connectionVars, faults>>

\* The options are the first request in the channel.
HandleAnswered ==
    /\ call = "handle"
    /\ open
    /\ call' = "read"
    /\ channel_id' = current
    /\ requests' = <<Options>>
    /\ body' = "open"
    /\ UNCHANGED <<group, wire, stream, answering, unanswered, said, current,
                   open, faults>>

\* Only a task that has left its loop, or is leaving it, refuses.
HandleRefused ==
    /\ call = "handle"
    /\ ~open
    /\ call' = "nothing"
    /\ UNCHANGED <<group, sessionVars, answering, unanswered, said, connectionVars,
                   faults>>

ReadAccepted ==
    /\ call = "read"
    /\ call' = "nothing"
    /\ requests # <<>> /\ Head(requests) = Options
    /\ requests' = Tail(requests)
    /\ stream' = "open"
    /\ wire' = <<Confirmation>>
    /\ UNCHANGED <<group, body, answering, unanswered, said, connectionVars, faults>>

\* Nobody reads the report once the task has stopped.
handle_error(status) ==
    current' = IF open /\ status = "NotLeader" /\ channel_id = current
               THEN current + 1
               ELSE current

ReadRefused ==
    /\ call = "read"
    /\ Fault
    /\ call' = "nothing"
    /\ NoSession
    /\ \E status \in Status : handle_error(status)
    /\ UNCHANGED <<group, answering, unanswered, said, channel_id, open>>

-----------------------------------------------------------------------------
(* next_subscription_event and next. *)

CallNext ==
    /\ call = "nothing"
    /\ stream # "none"
    /\ call' = "message"
    /\ UNCHANGED <<group, sessionVars, answering, unanswered, said, connectionVars,
                   faults>>

ReceiveEvent ==
    /\ call = "message"
    /\ wire # <<>> /\ Head(wire) # Confirmation
    /\ wire' = Tail(wire)
    /\ unanswered' = unanswered \cup {Head(wire)}
    /\ call' = "nothing"
    /\ UNCHANGED <<group, stream, requests, body, answering, said, connectionVars,
                   faults>>

\* Returned by next_subscription_event, passed over by next.
ReceiveConfirmation ==
    /\ call = "message"
    /\ wire # <<>> /\ Head(wire) = Confirmation
    /\ wire' = Tail(wire)
    /\ call' \in {"nothing", "message"}
    /\ UNCHANGED <<group, stream, requests, body, answering, unanswered, said,
                   connectionVars, faults>>

\* A group that was dropped is not reported to the connection task.
StreamFails ==
    /\ call = "message"
    /\ wire = <<>> /\ stream \in Status
    /\ stream' = "exhausted"
    /\ handle_error(stream)
    /\ call' = "nothing"
    /\ UNCHANGED <<group, wire, requests, body, answering, unanswered, said,
                   channel_id, open, faults>>

\* try_next answers None: unreachable!().
StreamIsOver ==
    /\ call = "message"
    /\ wire = <<>> /\ stream \in {"ended", "exhausted"}
    /\ call' = "panicked"
    /\ UNCHANGED <<group, sessionVars, answering, unanswered, said, connectionVars,
                   faults>>

-----------------------------------------------------------------------------
(* ack_ids and nack_ids; ack and nack are these for one item. *)

\* To have an item sent again is counted: it could go on for ever.
Answer ==
    /\ call = "nothing"
    /\ stream # "none"
    /\ \E items \in SUBSET unanswered \ {{}}, answer \in NakActions \cup {"Ack"} :
          /\ answering' = [answer |-> answer, items |-> items]
          /\ IF answer = "Retry" THEN Fault ELSE UNCHANGED faults
    /\ call' = "send"
    /\ UNCHANGED <<group, sessionVars, unanswered, said, connectionVars>>

\* Mutations of Enqueue: the channel is unbounded; a full one drops the answer.
EnqueueAlways(request) == requests' = Append(requests, request)
EnqueueOrDrop(request) ==
    requests' = IF Len(requests) < Capacity THEN Append(requests, request) ELSE requests

\* A full channel holds the sender back.
Enqueue(request) ==
    /\ Len(requests) < Capacity
    /\ requests' = Append(requests, request)

AnswerIsSent ==
    /\ call = "send"
    /\ body = "open"
    /\ Enqueue(Request(answering.answer, answering.items))
    /\ said' = [i \in Items |-> IF i \in answering.items
                                THEN said[i] \cup {answering.answer}
                                ELSE said[i]]
    /\ unanswered' = unanswered \ answering.items
    /\ call' = "nothing" /\ answering' = NoAnswer
    /\ UNCHANGED <<group, wire, stream, body, connectionVars, faults>>

\* IllegalStateError: the receiver has been dropped.
AnswerFails ==
    /\ call = "send"
    /\ body = "dropped"
    /\ call' = "nothing" /\ answering' = NoAnswer
    /\ UNCHANGED <<group, sessionVars, unanswered, said, connectionVars, faults>>

-----------------------------------------------------------------------------
(* Futures that are dropped. *)

\* The application stops waiting for an event; next loses nothing by it.
GiveUp ==
    /\ call = "message"
    /\ wire = <<>> /\ stream = "open"
    /\ call' = "nothing"
    /\ UNCHANGED <<group, sessionVars, answering, unanswered, said, connectionVars,
                   faults>>

\* A subscription under way goes with its future, an answer is not given.
Cancel ==
    /\ call \in {"handle", "read", "send"}
    /\ Fault
    /\ call' = "nothing" /\ answering' = NoAnswer
    /\ IF call = "read" THEN NoSession ELSE UNCHANGED sessionVars
    /\ UNCHANGED <<group, unanswered, said, connectionVars>>

-----------------------------------------------------------------------------

\* The runtime, the transport and the server go on with a call.
Proceed ==
    \/ HandleAnswered
    \/ HandleRefused
    \/ ReadAccepted
    \/ ReadRefused
    \/ ReceiveEvent
    \/ ReceiveConfirmation
    \/ StreamFails
    \/ StreamIsOver
    \/ AnswerIsSent
    \/ AnswerFails

Server == Push \/ Transmit \/ DropBody

Next ==
    \/ Server \/ AnswerIsLate \/ Break \/ Replace \/ TaskStops
    \/ Subscribe \/ CallNext \/ Answer \/ GiveUp \/ Cancel
    \/ Proceed

Spec == Init /\ [][Next]_vars

\* The application subscribes again, keeps reading between its answers, does not
\* wait for ever while it holds items, and at length answers each of them; the
\* rest goes on by itself.
FairSpec ==
    /\ Spec
    /\ WF_vars(Subscribe) /\ SF_vars(CallNext) /\ WF_vars(GiveUp)
    /\ WF_vars(Proceed)
    /\ WF_vars(Push) /\ WF_vars(Transmit) /\ WF_vars(DropBody)
    /\ \A i \in Items : SF_vars(Answer /\ i \in answering'.items)

-----------------------------------------------------------------------------
(* Properties. *)

Answers == NakActions \cup {"Ack"}
Settled == {"Ack", "Park", "Skip"}

\* Every variable ranges over what the code declares it to hold; the channel
\* never holds more than its capacity.
TypeOK ==
    /\ group \in [Items -> Settled \cup {"pending", "sent"}]
    /\ wire \in Seq(Items \cup {Confirmation})
    /\ stream \in Status \cup {"none", "open", "ended", "exhausted"}
    /\ requests \in Seq([content : {"Options", "Ack", "Nack"}, action : 0..3,
                         ids : SUBSET Items])
    /\ Len(requests) <= Capacity
    /\ body \in {"none", "open", "dropped"}
    /\ call \in {"nothing", "handle", "read", "message", "send", "panicked"}
    /\ answering \in [answer : Answers, items : SUBSET Items] \cup {NoAnswer}
    /\ unanswered \in SUBSET Items
    /\ said \in [Items -> SUBSET Answers]
    /\ {channel_id, current, faults} \subseteq Nat
    /\ open \in BOOLEAN

\* The group settles an item only as the application answered that very item,
\* with answers for several items in the channel, items that link to one
\* another, and answers that arrive after the item was sent again.
SettledAsAnswered ==
    \A i \in Items : group[i] \in Settled => group[i] \in said[i]

\* While the group waits for an answer to an item, the item or its answer is on
\* its way or with the application: no await that is dropped, no full channel
\* and no answer that failed loses it within the call.
NothingFallsBetween ==
    \A i \in Sent :
        \/ i \in ToSet(wire) \cup unanswered
        \/ \E k \in 1..Len(requests) : i \in requests[k].ids

\* No call, and no connection to make one on, ever again.
Stranded == ~open /\ stream \in {"none", "exhausted"} /\ call # "read"

\* Every item of the group is settled, by an application that keeps at it and has
\* not been brought down, unless its call is lost once the connection task has
\* stopped: then no subscription of this client succeeds any more.
EveryItemIsSettled ==
    \A i \in Items : <>(group[i] \in Settled \/ call = "panicked" \/ Stranded)

\* What the code takes to be unreachable is never reached: next always finds a
\* message or a status.
NeverUnreachable == call # "panicked"

===============================================================================
