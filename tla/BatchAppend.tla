------------------------------ MODULE BatchAppend -----------------------------
(***************************************************************************)
(* A batch-append session, trogon-eventstore/src/batch.rs and batch_append *)
(* of commands.rs.  Four parties share it: the appends of the application, *)
(* the actor that registers them by correlation id, the request stream the *)
(* call draws from, and the task that opens the call and passes on what    *)
(* the server answers.  Three channels and a oneshot for each append tie   *)
(* them together; any party may go first.                                  *)
(***************************************************************************)
EXTENDS Naturals, Sequences, FiniteSets

CONSTANTS
    Appends,      \* calls of append_to_stream, each with its correlation id
    NoAppend,     \* no correlation id
    MaxRepeats    \* bound: answers the server sends twice

ASSUME BatchAppendAssumption == NoAppend \notin Appends /\ MaxRepeats \in Nat

VARIABLES
    state,      \* each append: "new", "waiting", or what its caller was told
    mailbox,    \* the channel of BatchMsg the actor reads
    actor,      \* "running", or "stopped" when its loop is left
    reg,        \* the appends whose oneshot sender the actor holds
    forward,    \* the channel of Req from the actor to the request stream
    body,       \* the request stream: "open", or "dropped" with its receiver
    response,   \* the other task: "opening", "open", "failed", "ended", "left"
    replies,    \* what the response stream still holds, in the server's order
    verdict,    \* server: "unseen", "seen", or the outcome of each append
    repeats     \* counts towards MaxRepeats

vars == <<state, mailbox, actor, reg, forward, body, response, replies,
          verdict, repeats>>

-----------------------------------------------------------------------------

\* A batch_append_resp result: success, or any error code.
Result == {"ok", "wrong"}

In(a) == [type |-> "In", id |-> a, result |-> "none"]

\* Mutation of Out: the outcome is read before it is decided.
OutEarly(a, result) == [type |-> "Out", id |-> a, result |-> verdict[a]]

Out(a, result) == [type |-> "Out", id |-> a, result |-> result]
SessionError == [type |-> "Error", id |-> NoAppend, result |-> "none"]

Msg ==
    [type : {"In"}, id : Appends, result : {"none"}]
    \cup [type : {"Out"}, id : Appends, result : Result]
    \cup {SessionError}

Init ==
    /\ state = [a \in Appends |-> "new"]
    /\ mailbox = <<>>
    /\ actor = "running"
    /\ reg = {}
    /\ forward = <<>>
    /\ body = "open"
    /\ response = "opening"
    /\ replies = <<>>
    /\ verdict = [a \in Appends |-> "unseen"]
    /\ repeats = 0

\* A send to the actor; it fails when the actor has left its loop.
Send(m) == mailbox' = IF actor = "stopped" THEN mailbox ELSE Append(mailbox, m)

Queued(a) == \E i \in 1..Len(mailbox) : mailbox[i] = In(a)

-----------------------------------------------------------------------------
(* The appends. *)

append_to_stream(a) ==
    /\ state[a] = "new"
    /\ state' = [state EXCEPT ![a] =
                    IF actor = "stopped" THEN "refused" ELSE "waiting"]
    /\ Send(In(a))
    /\ UNCHANGED <<actor, reg, forward, body, response, replies, verdict,
                   repeats>>

\* The caller drops the future; what is sent to its oneshot is lost.
Abandon(a) ==
    /\ state[a] = "waiting"
    /\ state' = [state EXCEPT ![a] = "abandoned"]
    /\ UNCHANGED <<mailbox, actor, reg, forward, body, response, replies,
                   verdict, repeats>>

-----------------------------------------------------------------------------
(* The actor. *)

\* What a caller is told, if it still waits.
Told(a, outcome) == IF state[a] = "waiting" THEN outcome ELSE state[a]

Received == Head(mailbox)

Take ==
    /\ actor = "running"
    /\ mailbox # <<>>

\* Mutation of Leave: the channel and the register outlive the loop.
LeaveAll(answered, outcome) ==
    /\ actor' = "stopped"
    /\ mailbox' = Tail(mailbox)
    /\ reg' = reg \ answered
    /\ state' = [a \in Appends |->
                    IF a \in answered THEN Told(a, outcome) ELSE state[a]]

\* The loop is left after the appends in answered were told the outcome: the
\* channel and the register go, and with them every other oneshot sender.
Leave(answered, outcome) ==
    /\ actor' = "stopped"
    /\ mailbox' = <<>>
    /\ reg' = {}
    /\ state' = [a \in Appends |->
                    IF a \in answered THEN Told(a, outcome)
                    ELSE IF a \in reg \/ Queued(a) THEN Told(a, "refused")
                    ELSE state[a]]

Register ==
    /\ Take
    /\ Received.type = "In"
    /\ body = "open"
    /\ forward' = Append(forward, Received.id)
    /\ reg' = reg \cup {Received.id}
    /\ mailbox' = Tail(mailbox)
    /\ UNCHANGED <<state, actor, body, response, replies, verdict, repeats>>

\* forward.send fails: the request stream is gone.
RegisterFails ==
    /\ Take
    /\ Received.type = "In"
    /\ body = "dropped"
    /\ Leave({}, "refused")
    /\ UNCHANGED <<forward, body, response, replies, verdict, repeats>>

\* Mutation of Addressee: any registered append is answered.
AnyAddressee(id) == IF reg = {} THEN {} ELSE {CHOOSE a \in reg : TRUE}

\* reg.remove(&correlation_id): nobody, when the id is not known.
Addressee(id) == reg \cap {id}

\* Mutation of Closes: no outcome closes the session.
ClosesNever(result) == FALSE

\* An append that failed takes the whole session with it.
Closes(result) == result # "ok"

RouteOut ==
    /\ Take
    /\ Received.type = "Out"
    /\ LET to == Addressee(Received.id) IN
       IF to # {} /\ Closes(Received.result)
       THEN Leave(to, Received.result)
       ELSE /\ state' = [a \in Appends |->
                            IF a \in to THEN Told(a, Received.result)
                            ELSE state[a]]
            /\ reg' = reg \ to
            /\ mailbox' = Tail(mailbox)
            /\ UNCHANGED actor
    /\ UNCHANGED <<forward, body, response, replies, verdict, repeats>>

\* Every registered append is told the error of the session.
FailAll ==
    /\ Take
    /\ Received.type = "Error"
    /\ Leave(reg, "failed")
    /\ UNCHANGED <<forward, body, response, replies, verdict, repeats>>

-----------------------------------------------------------------------------
(* The call: its request stream, the task that opens it, the server. *)

\* The stream yields what the actor forwarded, also after the actor is gone.
Transmit ==
    /\ body = "open"
    /\ forward # <<>>
    /\ verdict' = [verdict EXCEPT ![Head(forward)] = "seen"]
    /\ forward' = Tail(forward)
    /\ UNCHANGED <<state, mailbox, actor, reg, body, response, replies,
                   repeats>>

\* The server answers in an order of its own.
Decide(a) ==
    /\ verdict[a] = "seen"
    /\ \E result \in Result :
          /\ verdict' = [verdict EXCEPT ![a] = result]
          /\ replies' = Append(replies, Out(a, result))
    /\ UNCHANGED <<state, mailbox, actor, reg, forward, body, response,
                   repeats>>

Repeat(a) ==
    /\ verdict[a] \in Result
    /\ repeats < MaxRepeats
    /\ repeats' = repeats + 1
    /\ replies' = Append(replies, Out(a, verdict[a]))
    /\ UNCHANGED <<state, mailbox, actor, reg, forward, body, response,
                   verdict>>

OpenSucceeds ==
    /\ response = "opening"
    /\ response' = "open"
    /\ UNCHANGED <<state, mailbox, actor, reg, forward, body, replies, verdict,
                   repeats>>

\* Mutation of OpenFails: the actor is not told of the failure.
OpenFailsSilently ==
    /\ response = "opening"
    /\ response' = "failed"
    /\ body' = "dropped"
    /\ forward' = <<>>
    /\ UNCHANGED <<state, mailbox, actor, reg, replies, verdict, repeats>>

\* The call fails and drops its request stream; handle_error is not called.
OpenFails ==
    /\ response = "opening"
    /\ response' = "failed"
    /\ body' = "dropped"
    /\ forward' = <<>>
    /\ Send(SessionError)
    /\ UNCHANGED <<state, actor, reg, replies, verdict, repeats>>

Deliver ==
    /\ response = "open"
    /\ replies # <<>>
    /\ replies' = Tail(replies)
    /\ Send(Head(replies))
    /\ response' = IF actor = "stopped" THEN "left" ELSE response
    /\ UNCHANGED <<state, actor, reg, forward, body, verdict, repeats>>

\* try_next fails; what the stream still held is lost.  handle_error reports the
\* connection, which changes nothing here.
ResponseFails ==
    /\ response = "open"
    /\ response' = "failed"
    /\ replies' = <<>>
    /\ Send(SessionError)
    /\ UNCHANGED <<state, actor, reg, forward, body, verdict, repeats>>

\* The server ends the stream: the task goes, and the actor is not told.
ResponseEnds ==
    /\ response = "open"
    /\ replies = <<>>
    /\ response' = "ended"
    /\ UNCHANGED <<state, mailbox, actor, reg, forward, body, replies, verdict,
                   repeats>>

\* Once the response stream is gone the request stream may be dropped too.
DropBody ==
    /\ response \in {"failed", "ended", "left"}
    /\ body = "open"
    /\ body' = "dropped"
    /\ forward' = <<>>
    /\ UNCHANGED <<state, mailbox, actor, reg, response, replies, verdict,
                   repeats>>

-----------------------------------------------------------------------------

Actor == Register \/ RegisterFails \/ RouteOut \/ FailAll

Opening == OpenSucceeds \/ OpenFails

Next ==
    \/ Actor
    \/ Opening
    \/ Deliver \/ ResponseFails \/ ResponseEnds
    \/ Transmit \/ DropBody
    \/ \E a \in Appends :
          append_to_stream(a) \/ Abandon(a) \/ Decide(a) \/ Repeat(a)

Spec == Init /\ [][Next]_vars

\* The runtime polls both tasks and the request stream; the server decides what
\* it has seen.
FairSpec ==
    /\ Spec
    /\ WF_vars(Actor) /\ WF_vars(Opening)
    /\ WF_vars(Deliver) /\ WF_vars(Transmit)
    /\ \A a \in Appends : WF_vars(Decide(a))

-----------------------------------------------------------------------------
(* Properties. *)

\* Every variable ranges over what the code declares it to hold.
TypeOK ==
    /\ state \in [Appends -> {"new", "waiting", "abandoned", "refused", "failed"}
                              \cup Result]
    /\ mailbox \in Seq(Msg)
    /\ actor \in {"running", "stopped"}
    /\ reg \subseteq Appends
    /\ forward \in Seq(Appends)
    /\ body \in {"open", "dropped"}
    /\ response \in {"opening", "open", "failed", "ended", "left"}
    /\ replies \in Seq([type : {"Out"}, id : Appends, result : Result])
    /\ verdict \in [Appends -> {"unseen", "seen"} \cup Result]
    /\ repeats \in 0..MaxRepeats

\* What an append is told is the server's outcome of that very append, in
\* whatever order, and however often, the answers of the others come in.
AnswersAreTheServers ==
    \A a \in Appends : state[a] \in Result => verdict[a] = state[a]

\* An append that waits has its oneshot sender in the channel or in the register
\* of a running actor: no way out of the loop leaves a caller behind.
NoAppendIsForgotten ==
    /\ \A a \in Appends : state[a] = "waiting" => a \in reg \/ Queued(a)
    /\ \A a \in Appends : a \in reg => ~Queued(a)
    /\ actor = "stopped" => reg = {} /\ mailbox = <<>>

\* Once an append has failed, nothing registered after it in the same session is
\* told a success: the later appends of the session are refused.
NoSuccessAfterAFailure ==
    [][\A a, b \in Appends :
          state[a] \in {"wrong", "failed"} /\ state'[b] = "ok" => state[b] = "ok"]_vars

\* Every append is answered in the end, whether the session works, fails to open
\* or fails later, short of a response stream that ends without an error.
EveryAppendIsAnswered ==
    \A a \in Appends :
        state[a] = "waiting" ~> (state[a] # "waiting" \/ response = "ended")

===============================================================================
