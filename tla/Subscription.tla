----------------------------- MODULE Subscription -----------------------------
(***************************************************************************)
(* A catch-up subscription, trogon-eventstore/src/commands.rs: the         *)
(* application calls next_subscription_event, which reads the server's     *)
(* stream, or obtains a connection and subscribes (again) when it has no   *)
(* stream.  Its own state between two calls is the stream, the place to    *)
(* resume from, kept in the request options, and the count of attempts.    *)
(*                                                                         *)
(* The call is cut at its awaits; while it awaits, the application may     *)
(* drop the future.  next() is next_subscription_event called again until  *)
(* an event is returned.  The connection task is seen as Connection shows  *)
(* it to be: an answer is the current connection, a redirection of the     *)
(* current one is followed before the next answer, and a task that has     *)
(* left its loop refuses every request from then on.                       *)
(***************************************************************************)
EXTENDS Naturals, Sequences

CONSTANTS
    Matching,       \* the places of the events that pass the filter
    End,            \* StreamPosition::End
    Starts,         \* the places a subscription may start at
    Policies,       \* the retry policies
    MaxEvents,      \* bound: events written
    MaxFaults,      \* bound: failures, ends and cancellations, the task's end
    MaxConnections  \* bound: connections of the task

ASSUME SubscriptionAssumption ==
    /\ Matching \subseteq Nat \ {0}
    /\ End \notin Nat
    /\ Starts \subseteq Nat \cup {End}
    /\ Policies \subseteq [enabled : BOOLEAN, limit : Nat]
    /\ MaxEvents \in Nat
    /\ MaxFaults \in Nat
    /\ MaxConnections \in Nat

VARIABLES
    log,          \* server: events are at the places 1..log
    cursor,       \* server: how far the log was read for the open stream
    wire,         \* what the stream still holds for the client, in order
    stream,       \* Subscription::stream: "none", or how it goes on at the end
                  \* of wire: "open", "ended", or the status it fails with
    awaiting,     \* what the call awaits; "nothing": there is no call; "panicked"
    position,     \* the position in Subscription::options
    retry,        \* Subscription::retry_enabled and limit
    attempts,     \* Subscription::attempts
    channel_id,   \* Subscription::channel_id
    handle,       \* the id of the connection the stream runs on
    current,      \* the connection task: the id of its connection
    open,         \* the connection task: it has not left its loop
    delivered,    \* history: places of the events returned
    first,        \* history: where the subscription started
    returned,     \* history: "ok", or the error of the last call
    redirected,   \* history: the last connection that redirected
    faults        \* history: counts towards MaxFaults

serverVars == <<log, cursor, wire>>
clientVars == <<stream, awaiting, position, retry, attempts, channel_id, handle>>
taskVars == <<current, open>>
historyVars == <<delivered, first, returned, redirected, faults>>
vars == <<serverVars, clientVars, taskVars, historyVars>>

-----------------------------------------------------------------------------

\* A failure handle_error turns into a redirection, the one that ends every
\* retry, and the others.
Status == {"NotLeader", "AccessDenied", "Unavailable"}

\* A message without an event: a confirmation, a checkpoint, a state change.
Note == 0

\* Without RetryOptions.
NoRetry == [enabled |-> FALSE, limit |-> 1]

Init ==
    /\ log = 0 /\ cursor = 0 /\ wire = <<>>
    /\ stream = "none" /\ awaiting = "nothing"
    /\ position \in Starts
    /\ retry \in Policies \cup {NoRetry}
    /\ attempts = 1
    /\ channel_id = 0 /\ handle = 0 /\ current = 1 /\ open = TRUE
    /\ delivered = <<>> /\ first = position /\ returned = "ok"
    /\ redirected = 0 /\ faults = 0

Fault == faults < MaxFaults /\ faults' = faults + 1

-----------------------------------------------------------------------------
(* The server. *)

Write ==
    /\ log < MaxEvents
    /\ log' = log + 1
    /\ UNCHANGED <<cursor, wire, clientVars, taskVars, historyVars>>

\* The next event of the log is sent if it matches; if not, a checkpoint may be.
Push ==
    /\ stream = "open"
    /\ cursor < log
    /\ cursor' = cursor + 1
    /\ IF cursor' \in Matching
       THEN wire' = Append(wire, cursor')
       ELSE wire' \in {wire, Append(wire, Note)}
    /\ UNCHANGED <<log, clientVars, taskVars, historyVars>>

\* The stream fails or ends; the client may still see some of what was sent.
Break ==
    /\ stream = "open"
    /\ Fault
    /\ stream' \in Status \cup {"ended"}
    /\ \E n \in 0..Len(wire) : wire' = SubSeq(wire, 1, n)
    /\ UNCHANGED <<log, cursor, awaiting, position, retry, attempts,
                   channel_id, handle, taskVars, delivered, first, returned,
                   redirected>>

-----------------------------------------------------------------------------
(* The connection task, on behalf of the other operations of the client. *)

Replace ==
    /\ open
    /\ current < MaxConnections
    /\ current' = current + 1
    /\ UNCHANGED <<serverVars, clientVars, open, historyVars>>

\* A connection could not be made, for this or for another operation: the task
\* leaves its loop for good.
TaskStops ==
    /\ open
    /\ Fault
    /\ open' = FALSE
    /\ UNCHANGED <<serverVars, clientVars, current, delivered, first, returned,
                   redirected>>

-----------------------------------------------------------------------------
(* The call. *)

\* The application calls; the stream, if any, is taken out of the subscription.
Call ==
    /\ awaiting = "nothing"
    /\ awaiting' = IF stream = "none" THEN "handle" ELSE "message"
    /\ UNCHANGED <<serverVars, stream, position, retry, attempts, channel_id,
                   handle, taskVars, delivered, first, returned, redirected,
                   faults>>

Return(result) == awaiting' = "nothing" /\ returned' = result

\* Mutation of UseHandle: the connection reported is the one of the first read.
UseFirstHandle == channel_id' = IF channel_id = 0 THEN current ELSE channel_id

UseHandle == channel_id' = current

HandleAnswered ==
    /\ awaiting = "handle"
    /\ open
    /\ UseHandle
    /\ handle' = current
    /\ awaiting' = "read"
    /\ UNCHANGED <<serverVars, stream, position, retry, attempts, taskVars,
                   historyVars>>

\* current_selected_node().await? leaves the call, whatever the retry policy; only
\* a task that has left its loop, or is leaving it, refuses.
HandleRefused ==
    /\ awaiting = "handle"
    /\ ~open
    /\ Return("ConnectionFailed")
    /\ UNCHANGED <<serverVars, stream, position, retry, attempts, channel_id,
                   handle, taskVars, delivered, first, redirected, faults>>

\* Where the server starts to read for the request.
StartOf(p) == IF p = End THEN log ELSE p

ReadAccepted ==
    /\ awaiting = "read"
    /\ stream' = "open"
    /\ awaiting' = "message"
    /\ cursor' = StartOf(position)
    /\ wire' = <<Note>>
    /\ first' = StartOf(first)
    /\ UNCHANGED <<log, position, retry, attempts, channel_id, handle, taskVars,
                   delivered, returned, redirected, faults>>

\* handle_error, with the id of the connection the subscription uses; nobody reads
\* the report once the task has stopped.
handle_error(status) ==
    IF status = "NotLeader"
    THEN /\ redirected' = handle
         /\ current' = IF open /\ channel_id = current THEN current + 1
                       ELSE current
    ELSE UNCHANGED <<redirected, current>>

\* Mutation of MayRetry: the limit itself is one more attempt.
MayRetryOnceMore == attempts <= retry.limit

MayRetry == attempts < retry.limit

ReadRefused ==
    /\ awaiting = "read"
    /\ Fault
    /\ \E status \in Status :
          /\ handle_error(status)
          /\ IF status # "AccessDenied" /\ MayRetry
             THEN /\ attempts' = attempts + 1
                  /\ awaiting' = "handle"
                  /\ UNCHANGED returned
             ELSE Return(status) /\ UNCHANGED attempts
    /\ UNCHANGED <<serverVars, stream, position, retry, channel_id, handle, open,
                   delivered, first>>

\* Mutations of Resume: the place to resume from is where the server has read
\* to; it is never moved.
ResumeFromCursor(p) == position' = cursor
ResumeNowhere(p) == UNCHANGED position

\* The options of the next request start after the event returned.
Resume(p) == position' = p

ReceiveEvent ==
    /\ awaiting = "message"
    /\ wire # <<>> /\ Head(wire) # Note
    /\ wire' = Tail(wire)
    /\ Resume(Head(wire))
    /\ delivered' = Append(delivered, Head(wire))
    /\ Return("ok")
    /\ UNCHANGED <<log, cursor, stream, retry, attempts, channel_id, handle,
                   taskVars, first, redirected, faults>>

\* Any other message is returned as it is, or passed over when it is unknown.
ReceiveNote ==
    /\ awaiting = "message"
    /\ wire # <<>> /\ Head(wire) = Note
    /\ wire' = Tail(wire)
    /\ \/ Return("ok")
       \/ UNCHANGED <<awaiting, returned>>
    /\ UNCHANGED <<log, cursor, stream, position, retry, attempts, channel_id,
                   handle, taskVars, delivered, first, redirected,
                   faults>>

\* The message is that the stream does not exist, which the code takes to be
\* unreachable in a subscription.
ReceiveUnexpected ==
    /\ awaiting = "message"
    /\ wire # <<>> /\ Head(wire) = Note
    /\ Fault
    /\ wire' = Tail(wire)
    /\ awaiting' = "panicked"
    /\ UNCHANGED <<log, cursor, stream, position, retry, attempts, channel_id,
                   handle, taskVars, delivered, first, returned, redirected>>

\* Mutation of Forget: the broken stream is put back.
ForgetNothing == UNCHANGED stream

Forget == stream' = "none"

StreamFails ==
    /\ awaiting = "message"
    /\ wire = <<>> /\ stream \in Status
    /\ Forget
    /\ handle_error(stream)
    /\ attempts' = 1
    /\ IF stream = "AccessDenied" \/ ~retry.enabled
       THEN Return(stream)
       ELSE awaiting' = "handle" /\ UNCHANGED returned
    /\ UNCHANGED <<serverVars, position, retry, channel_id, handle, open,
                   delivered, first, faults>>

\* The application drops the future, and with it the stream it awaits.  A stream
\* that has ended is not awaited: it answers at once, over and over.
Cancel ==
    /\ awaiting \notin {"nothing", "panicked"}
    /\ ~(awaiting = "message" /\ stream = "ended" /\ wire = <<>>)
    /\ Fault
    /\ awaiting' = "nothing"
    /\ stream' = "none"
    /\ wire' = <<>>
    /\ UNCHANGED <<log, cursor, position, retry, attempts, channel_id, handle,
                   taskVars, delivered, first, returned, redirected>>

-----------------------------------------------------------------------------

\* The runtime and the server go on with a call that can go on.
Proceed ==
    \/ HandleAnswered
    \/ HandleRefused
    \/ ReadAccepted
    \/ ReadRefused
    \/ ReceiveEvent
    \/ ReceiveNote
    \/ ReceiveUnexpected
    \/ StreamFails

Next == Write \/ Push \/ Break \/ Replace \/ TaskStops \/ Call \/ Proceed \/ Cancel

Spec == Init /\ [][Next]_vars

\* The application calls again, a call goes on, and the server sends what it has.
FairSpec == Spec /\ WF_vars(Call) /\ WF_vars(Proceed) /\ WF_vars(Push)

-----------------------------------------------------------------------------
(* Properties. *)

\* Every variable ranges over what the code declares it to hold; the attempts of
\* an outage never exceed the limit of the policy.
TypeOK ==
    /\ log \in Nat /\ cursor \in Nat
    /\ wire \in Seq(Nat)
    /\ stream \in Status \cup {"none", "open", "ended"}
    /\ awaiting \in {"nothing", "handle", "read", "message", "panicked"}
    /\ position \in Nat \cup {End} /\ first \in Nat \cup {End}
    /\ retry \in [enabled : BOOLEAN, limit : Nat]
    /\ attempts = 1 \/ attempts \in 1..retry.limit
    /\ channel_id \in Nat /\ handle \in Nat
    /\ current \in Nat /\ open \in BOOLEAN /\ redirected \in Nat
    /\ delivered \in Seq(Nat \ {Note})
    /\ returned \in Status \cup {"ok", "ConnectionFailed"}
    /\ faults \in Nat

\* The offset the client keeps is good for every resubscription: whatever is
\* lost with a stream or dropped with a future, an event is returned only when
\* all the matching ones before it have been.
NoEventIsSkipped ==
    \A p \in Matching, i \in 1..Len(delivered) :
        first < p /\ p <= delivered[i] => \E j \in 1..i : delivered[j] = p

\* A subscription that was redirected to the leader never reads again on the
\* connection that redirected it: the id it reports is that of the stream's own
\* connection, also when the stream was opened several outages later.
RedirectedReadsElsewhere == awaiting = "read" => handle > redirected

\* No stream, and no connection to open one on, ever again.
Stranded == ~open /\ stream = "none" /\ awaiting # "read"

\* The application that keeps calling gets every matching event whatever fails on
\* the way, with three exceptions: a stream that the server ends without an error,
\* a stream lost once the connection task has stopped, and a panic.
EveryEventIsDelivered ==
    \A p \in Matching \cap 1..MaxEvents :
        (first < p /\ p <= log) ~>
            \/ \E i \in 1..Len(delivered) : delivered[i] = p
            \/ stream = "ended" \/ Stranded \/ awaiting = "panicked"

\* Resubscription under failures gives the feed an uninterrupted stream would.
Feed == INSTANCE EventFeed
ImplementsFeed == Feed!Spec

\* With retries enabled, "when a disconnection happens, automatically resubscribe to
\* stream changes": also when the disconnection is a stream that ends without an
\* error.
DisconnectionIsFollowed == retry.enabled /\ stream = "ended" ~> stream # "ended"

===============================================================================
