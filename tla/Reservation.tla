------------------------------ MODULE Reservation ------------------------------
(***************************************************************************)
(* The idempotent reservation workflow, examples/idempotent_reservation.rs.*)
(*                                                                         *)
(* Workers deliver commands on one inventory stream, each at least once.   *)
(* An operation has a stream of its own, written in up to three steps: the *)
(* request at revision 0, the decision (prepared or rejected) at 1, and    *)
(* the outcome of a prepared one (completed or conflicted) at 2.  A worker *)
(* reads where the operation stands and takes the next step; it never      *)
(* trusts an append, it reads the stream back.                             *)
(*                                                                         *)
(* The server is external: a stream is a sequence of events, an append     *)
(* names the revision it follows, and a second append of an event that is  *)
(* already there is answered as the first one or refused.  An answer may   *)
(* be lost, and an append whose sender gave up may still be carried out.   *)
(* A worker may crash at any await.                                        *)
(***************************************************************************)
EXTENDS Integers, Sequences

CONSTANTS
    Workers,
    Commands,       \* the InventoryOperations the workers deliver
    OpIds,          \* their operation ids
    Sku,            \* of the inventory
    Available,      \* what it is created with
    CreatedId,      \* the event id of its creation
    Inventory,      \* the inventory stream
    NoCommand,
    MaxAttempts,    \* MAX_DELIVERY_ATTEMPTS, 3 in the code
    MaxDeliveries,  \* bound: how often a command is delivered
    MaxFaults       \* bound: the faults of deliveries; MaxAttempts bounds those of the creation

NoSku == "none"

\* A reservation id belongs to one reserve operation (ReservationId::new).
ASSUME ReservationAssumption ==
    /\ \A c \in Commands :
        /\ c.id \in OpIds
        /\ c.kind \in {"reserve", "release"}
        /\ c.quantity \in Nat
    /\ \A c, d \in Commands :
        c.kind = "reserve" /\ d.kind = "reserve" /\ c.reservation = d.reservation
            => c.id = d.id
    /\ Inventory \notin OpIds /\ CreatedId \notin OpIds /\ NoCommand \notin Commands
    /\ OpIds \cap Nat = {} /\ CreatedId \notin Nat /\ Sku # NoSku
    /\ {Available, MaxDeliveries, MaxFaults} \subseteq Nat
    /\ MaxAttempts \in Nat \ {0}

VARIABLES
    log,        \* server: the events of each stream
    late,       \* appends whose sender is gone and that may still be carried out
    uuids,      \* how many ids Uuid::new_v4 has made
    creation,   \* append_initial_inventory: where it stands, and its attempt
    worker,     \* each worker's delivery, with what its last one returned
    deliveries, \* history: counts towards MaxDeliveries
    faults,     \* history: counts towards MaxFaults
    answered    \* history: the outcomes returned, with their operation

serverVars == <<log, late>>
boundVars == <<deliveries, faults>>
vars == <<serverVars, uuids, creation, worker, boundVars, answered>>

-----------------------------------------------------------------------------

Streams == OpIds \cup {Inventory}
NoStream == -1
Event(type, id, body) == [type |-> type, id |-> id, body |-> body]

\* An outcome, as stored and as returned: the revision of the committed write,
\* the units that were available, or the revision and the event in the way.
Outcome(type, number, detail) == [type |-> type, number |-> number, detail |-> detail]
NoOutcome == Outcome("none", 0, NoCommand)
Decided == {"completed", "rejected", "conflicted"}

Created == Event("created", CreatedId, NoCommand)

\* InventoryOperation::event_data.
InventoryEvent(c) == Event(c.kind, c.id, c)

NoAppend == [stream |-> Inventory, expected |-> NoStream, event |-> Created]

\* The server.
Revision(stream) == Len(log[stream]) - 1
Fits(a) == a.expected = Revision(a.stream)
Stored(a) == a.expected < Revision(a.stream) /\ log[a.stream][a.expected + 2].id = a.event.id

\* The event is stored; the late appends that can fit no more are as good as gone.
Write(a) ==
    /\ log' = [log EXCEPT ![a.stream] = Append(@, a.event)]
    /\ late' = {b \in late : b.stream = a.stream => b.expected > a.expected}

-----------------------------------------------------------------------------

(* The inventory. *)

Held(c) == [reservation |-> c.reservation, quantity |-> c.quantity]

\* One event of the replay; sound: every assertion has held so far.
Replayed(view, e) ==
    LET c == e.body
    IN  CASE e.type = "created" ->
                [view EXCEPT !.sku = Sku, !.available = Available]
          [] e.type = "reserve" ->
                [view EXCEPT
                    !.sound = /\ @
                              /\ e.id = c.id
                              /\ view.available >= c.quantity
                              /\ \A h \in view.active : h.reservation # c.reservation,
                    !.available = @ - c.quantity,
                    !.active = @ \cup {Held(c)}]
          [] e.type = "release" ->
                [view EXCEPT
                    !.sound = @ /\ e.id = c.id /\ Held(c) \in view.active,
                    !.available = @ + c.quantity,
                    !.active = @ \ {Held(c)}]

NotCreatedYet == [sound |-> TRUE, sku |-> NoSku, available |-> 0, active |-> {}]

\* What the first n events come to, for each n.
Replay(events) ==
    LET view[n \in 0..Len(events)] ==
            IF n = 0 THEN NotCreatedYet ELSE Replayed(view[n - 1], events[n])
    IN  view

read_inventory(events) == Replay(events)[Len(events)]

\* Mutation of reject_inventory_command: a release is not looked up.
RejectUnchecked(view, c) ==
    IF c.sku # view.sku THEN Outcome("rejected", 0, "WrongSku")
    ELSE IF c.kind = "reserve" /\ view.available < c.quantity
    THEN Outcome("rejected", view.available, "InsufficientInventory")
    ELSE NoOutcome

reject_inventory_command(view, c) ==
    IF c.sku # view.sku THEN Outcome("rejected", 0, "WrongSku")
    ELSE IF c.kind = "reserve" /\ view.available < c.quantity
    THEN Outcome("rejected", view.available, "InsufficientInventory")
    ELSE IF c.kind = "release" /\ Held(c) \notin view.active
    THEN Outcome("rejected", 0, "ReservationNotActive")
    ELSE NoOutcome

-----------------------------------------------------------------------------

(* The stream of an operation. *)

\* read_operation accepts the events s of operation o.
Consistent(o, s) ==
    /\ Len(s) <= 3
    /\ s # <<>> =>
        /\ s[1].type = "requested" /\ s[1].id = o /\ s[1].body.command.id = o
    /\ Len(s) >= 2 =>
        /\ s[2].type \in {"prepared", "rejected"}
        /\ s[2].id = s[1].body.decision
    /\ Len(s) = 3 =>
        /\ s[2].type = "prepared"
        /\ s[3].type \in {"completed", "conflicted"}
        /\ s[3].id = s[1].body.terminal

Requested(s) == s[1].body
Prepared(s) == s[2].body
Stage(s) == s[Len(s)].type

-----------------------------------------------------------------------------

(* Deliveries. *)

\* A delivery: what it awaits, its command, the attempt of deliver_with_retries,
\* the OperationState it works on (the events it was read from), its append, and
\* append_error, whether that was answered with an error.
Idle ==
    [pc |-> "idle", job |-> NoCommand, attempt |-> 1, known |-> <<>>,
     sending |-> NoAppend, failed |-> FALSE, answer |-> NoOutcome]

\* The delivery of w goes on as l; what it returns is recorded.
Become(w, l) ==
    /\ worker' = [worker EXCEPT ![w] = l]
    /\ answered' = IF l.answer.type \in Decided
                   THEN answered \cup {[id |-> worker[w].job.id, outcome |-> l.answer]}
                   ELSE answered

Await(l, at) == [l EXCEPT !.pc = at]
Return(what) == [Idle EXCEPT !.answer = what]
Invalid == Return(Outcome("InvalidOperationStream", 0, NoCommand))
Begin(c, n) == [Idle EXCEPT !.pc = "claim_operation", !.job = c, !.attempt = n]

\* A ClientError, in whatever call.
Retry(l) ==
    IF l.attempt < MaxAttempts
    THEN Begin(l.job, l.attempt + 1)
    ELSE Return(Outcome("ClientError", 0, NoCommand))

\* The next turn of the loop of execute_operation, on the state s.
Continue(l, s) ==
    IF Stage(s) \in Decided
    THEN Return(s[Len(s)].body)
    ELSE [l EXCEPT !.known = s,
                   !.sending = NoAppend,
                   !.pc = IF Stage(s) = "requested"
                          THEN "decide_requested"
                          ELSE "finish_prepared"]

\* validate_request, then the loop.
Validate(l, s) ==
    IF Requested(s).command = l.job
    THEN Continue(l, s)
    ELSE Return(Outcome("OperationIdConflict", 0, NoCommand))

\* The append of an event to the operation's stream, after revision n.
SendOperationEvent(l, n, event) ==
    [l EXCEPT !.pc = "append_operation_event",
              !.sending = [stream |-> l.job.id, expected |-> n, event |-> event]]

\* deliver_with_retries is called: by the first delivery of a job, or by one that
\* recovers it after a crash or repeats it later.
Deliver(w, c) ==
    /\ creation.step = "created"
    /\ worker[w].pc = "idle"
    /\ deliveries < MaxDeliveries
    /\ deliveries' = deliveries + 1
    /\ Become(w, Begin(c, 1))
    /\ UNCHANGED <<serverVars, uuids, creation, faults>>

\* The first read of claim_operation; the request gets two new ids.
ClaimOperation(w) ==
    LET l == worker[w]
        o == l.job.id
        request == [command |-> l.job, decision |-> uuids + 1, terminal |-> uuids + 2]
    IN  /\ l.pc = "claim_operation"
        /\ IF log[o] = <<>>
           THEN /\ Become(w, SendOperationEvent(l, NoStream, Event("requested", o, request)))
                /\ uuids' = uuids + 2
           ELSE /\ Become(w, IF Consistent(o, log[o]) THEN Validate(l, log[o]) ELSE Invalid)
                /\ UNCHANGED uuids
        /\ UNCHANGED <<serverVars, creation, boundVars>>

\* Mutation of DecisionId: the two ids of the request take each other's place.
TerminalId(request) == request.terminal

\* The event id of the decision, prepared or rejected.
DecisionId(request) == request.decision

\* The inventory is read, and the decision sent.
DecideRequested(w) ==
    LET l == worker[w]
        request == Requested(l.known)
        view == read_inventory(log[Inventory])
        why == reject_inventory_command(view, request.command)
    IN  /\ l.pc = "decide_requested"
        /\ Become(w,
             IF ~view.sound \/ view.sku = NoSku
             THEN Await(l, "panicked")
             ELSE SendOperationEvent(l, 0,
                      IF why # NoOutcome
                      THEN Event("rejected", DecisionId(request), why)
                      ELSE Event("prepared", DecisionId(request), Revision(Inventory))))
        /\ UNCHANGED <<serverVars, uuids, creation, boundVars>>

\* Mutation of ExpectedRevision: the append follows what is there now.
ExpectedNow(s) == Revision(Inventory)

\* The revision a prepared operation writes after.
ExpectedRevision(s) == Prepared(s)

\* The append of append_inventory.
FinishPrepared(w) ==
    LET l == worker[w]
    IN  /\ l.pc = "finish_prepared"
        /\ Become(w, [l EXCEPT
                        !.pc = "append_inventory",
                        !.sending = [stream |-> Inventory,
                                     expected |-> ExpectedRevision(l.known),
                                     event |-> InventoryEvent(Requested(l.known).command)]])
        /\ UNCHANGED <<serverVars, uuids, creation, boundVars>>

\* Mutation of RevisionOfDecision: the outcome is to follow the request.
RevisionOfRequest == 0

RevisionOfDecision == 1

\* finish_prepared goes on with the result of append_inventory.
RecordOutcome(l, what) ==
    SendOperationEvent(l, RevisionOfDecision,
                       Event(what.type, Requested(l.known).terminal, what))

\* The sender learns what became of its append: it reads back what its stream
\* holds now, or, for the inventory, goes on with the write or looks into it.
Learn(l, error) ==
    IF l.pc = "append_operation_event"
    THEN [l EXCEPT !.pc = "read_back", !.failed = error]
    ELSE IF error
    THEN Await(l, "read_occupant")
    ELSE RecordOutcome(l, Outcome("completed", l.sending.expected + 1, NoCommand))

Appending(l) == l.pc \in {"append_operation_event", "append_inventory"}

\* The server carries out the append, or finds its event there, or refuses it.
AppendAnswered(w) ==
    LET l == worker[w]
        a == l.sending
    IN  /\ Appending(l)
        /\ \/ Fits(a) /\ Write(a) /\ Become(w, Learn(l, FALSE))
           \/ Stored(a) /\ Become(w, Learn(l, FALSE)) /\ UNCHANGED serverVars
           \/ ~Fits(a) /\ Become(w, Learn(l, TRUE)) /\ UNCHANGED serverVars
        /\ UNCHANGED <<uuids, creation, boundVars>>

\* Mutation of StoredBy: an append that was not refused is taken as stored.
AppendedBy(l) ==
    IF l.failed THEN log[l.sending.stream]
    ELSE Append(SubSeq(log[l.sending.stream], 1, l.sending.expected + 1), l.sending.event)

\* What the second half of append_operation_event reads.
StoredBy(l) == log[l.sending.stream]

\* The read of append_operation_event; a claim is then validated.
ReadBack(w) ==
    LET l == worker[w]
        a == l.sending
        s == StoredBy(l)
    IN  /\ l.pc = "read_back"
        /\ Become(w,
             IF ~Consistent(a.stream, s) THEN Invalid
             ELSE IF Len(s) - 1 < a.expected + 1
             THEN IF l.failed THEN Retry(l) ELSE Invalid
             ELSE IF a.expected = NoStream THEN Validate(l, s) ELSE Continue(l, s))
        /\ UNCHANGED <<serverVars, uuids, creation, boundVars>>

\* Mutation of Matches: any event at the intended revision is taken as its own.
MatchesAny(e, request) == TRUE

\* stored_inventory_event_matches.
Matches(e, request) == e = InventoryEvent(request.command)

\* The read of append_inventory at the revision its event was to have.
ReadOccupant(w) ==
    LET l == worker[w]
        revision == l.sending.expected + 1
        e == log[Inventory][revision + 1]
    IN  /\ l.pc = "read_occupant"
        /\ Become(w,
             IF revision > Revision(Inventory)
             THEN Retry(l)
             ELSE RecordOutcome(l, IF Matches(e, Requested(l.known))
                                   THEN Outcome("completed", revision, NoCommand)
                                   ELSE Outcome("conflicted", revision, e.id)))
        /\ UNCHANGED <<serverVars, uuids, creation, boundVars>>

-----------------------------------------------------------------------------

(* append_initial_inventory, which main awaits before any delivery. *)

Creating(step) == creation' = [creation EXCEPT !.step = step]
IsCreated == creation' = [step |-> "created", attempt |-> 1]

CreationAnswered ==
    /\ creation.step = "append"
    /\ \/ Fits(NoAppend) /\ Write(NoAppend) /\ IsCreated
       \/ Stored(NoAppend) /\ IsCreated /\ UNCHANGED serverVars
       \/ ~Fits(NoAppend) /\ Creating("read") /\ UNCHANGED serverVars
    /\ UNCHANGED <<uuids, worker, boundVars, answered>>

\* The event was not found, or the read failed.
NotCreated ==
    creation' = IF creation.attempt < MaxAttempts
                THEN [step |-> "append", attempt |-> creation.attempt + 1]
                ELSE [creation EXCEPT !.step = "failed"]

CreationRead ==
    /\ creation.step = "read"
    /\ IF log[Inventory] # <<>> /\ log[Inventory][1] = Created
       THEN IsCreated
       ELSE NotCreated
    /\ UNCHANGED <<serverVars, uuids, worker, boundVars, answered>>

-----------------------------------------------------------------------------

(* Faults. *)

Fault == faults < MaxFaults /\ faults' = faults + 1 /\ UNCHANGED deliveries

\* The answer of an append does not arrive: the append may not either, or later.
AnswerLost(w) ==
    /\ Fault /\ Appending(worker[w])
    /\ late' = late \cup {worker[w].sending}
    /\ Become(w, Learn(worker[w], TRUE))
    /\ UNCHANGED <<log, uuids, creation>>

CreationLost ==
    /\ creation.step = "append"
    /\ late' = late \cup {NoAppend}
    /\ Creating("read")
    /\ UNCHANGED <<log, uuids, worker, boundVars, answered>>

ReadFails(w) ==
    /\ Fault
    /\ worker[w].pc \in {"claim_operation", "read_back", "decide_requested", "read_occupant"}
    /\ Become(w, Retry(worker[w]))
    /\ UNCHANGED <<serverVars, uuids, creation>>

CreationReadFails ==
    /\ creation.step = "read"
    /\ NotCreated
    /\ UNCHANGED <<serverVars, uuids, worker, boundVars, answered>>

\* The worker is gone at an await, with what it knew, like main's crashed
\* deliveries.
Crash(w) ==
    /\ Fault /\ worker[w].pc \notin {"idle", "panicked"}
    /\ late' = IF Appending(worker[w]) THEN late \cup {worker[w].sending} ELSE late
    /\ Become(w, Idle)
    /\ UNCHANGED <<log, uuids, creation>>

\* An append without a sender is carried out.
LateAppend ==
    /\ \E a \in late : Fits(a) /\ Write(a)
    /\ UNCHANGED <<uuids, creation, worker, boundVars, answered>>

-----------------------------------------------------------------------------

Init ==
    /\ log = [s \in Streams |-> <<>>]
    /\ late = {}
    /\ uuids = 0
    /\ creation = [step |-> "append", attempt |-> 1]
    /\ worker = [w \in Workers |-> Idle]
    /\ deliveries = 0
    /\ faults = 0
    /\ answered = {}

\* What a delivery does by itself.
Step(w) ==
    \/ ClaimOperation(w)
    \/ DecideRequested(w)
    \/ FinishPrepared(w)
    \/ AppendAnswered(w)
    \/ ReadBack(w)
    \/ ReadOccupant(w)

Next ==
    \/ CreationAnswered \/ CreationRead
    \/ CreationLost \/ CreationReadFails
    \/ LateAppend
    \/ \E w \in Workers :
        \/ \E c \in Commands : Deliver(w, c)
        \/ Step(w)
        \/ AnswerLost(w) \/ ReadFails(w) \/ Crash(w)

Spec == Init /\ [][Next]_vars

\* Every call of the client returns, and the runtime polls a task that can go on.
FairSpec ==
    /\ Spec
    /\ WF_vars(CreationAnswered \/ CreationRead \/ \E w \in Workers : Step(w))

-----------------------------------------------------------------------------

\* Type invariant: what an append is to follow is what its event belongs after,
\* and every stream holds its events in the order of the workflow.
TypeOK ==
    /\ DOMAIN log = Streams
    /\ \A o \in OpIds : Consistent(o, log[o])
    /\ \A i \in 1..Len(log[Inventory]) :
        \/ i = 1 /\ log[Inventory][i] = Created
        \/ i > 1 /\ \E c \in Commands : log[Inventory][i] = InventoryEvent(c)
    /\ \A w \in Workers :
        /\ worker[w].pc \in {"idle", "claim_operation", "decide_requested",
                             "finish_prepared", "append_operation_event",
                             "append_inventory", "read_back", "read_occupant", "panicked"}
        /\ worker[w].pc # "idle" => worker[w].job \in Commands
        /\ worker[w].attempt \in 1..MaxAttempts
    /\ creation.step \in {"append", "read", "created", "failed"}
    /\ creation.attempt \in 1..MaxAttempts

\* The answers given for an operation, to whichever delivery of it, at whatever
\* time, by whichever worker, are one answer, and the one its stream holds
\* (main: first_reserve_result = second_reserve_result = delayed_reserve_result,
\* rejected_retry = rejected_result).
OneOutcome ==
    \A a \in answered :
        /\ Stage(log[a.id]) \in Decided
        /\ a.outcome = log[a.id][Len(log[a.id])].body

InventoryOf(o) == {i \in 1..Len(log[Inventory]) : log[Inventory][i].id = o}

\* An operation is in the inventory at most once; one that is stored as completed
\* is there, at the revision its outcome names, and one that is stored as rejected
\* or conflicted is not, however late its appends arrive
\* (main: "without storing a duplicate event").
EffectMatchesOutcome ==
    \A o \in OpIds :
        /\ \A i, j \in InventoryOf(o) : i = j
        /\ log[o] # <<>> /\ Stage(log[o]) = "completed" =>
            InventoryOf(o) = {log[o][3].body.number + 1}
        /\ log[o] # <<>> /\ Stage(log[o]) \in {"rejected", "conflicted"} =>
            InventoryOf(o) = {}

\* No assertion of read_inventory fails and no stream is found invalid: whatever
\* was written between a decision and its append, the inventory never goes below
\* zero and never holds or releases a reservation twice.
AssertionsHold ==
    /\ \A w \in Workers :
        worker[w].pc # "panicked" /\ worker[w].answer # Invalid.answer
    /\ read_inventory(log[Inventory]).sound

\* A delivery that begins its first attempt when nothing fails any more ends with
\* the outcome of its operation, or finds the id used for another command: the
\* loop of execute_operation does not go round for ever.
Undisturbed(l) == l.pc = "claim_operation" /\ l.attempt = 1 /\ faults = MaxFaults
UndisturbedDeliverySucceeds ==
    \A w \in Workers :
        Undisturbed(worker[w])
            ~> worker[w].answer.type \in Decided \cup {"OperationIdConflict"}

-----------------------------------------------------------------------------

Inventoried == read_inventory(log[Inventory])

Service == INSTANCE ReservationService WITH
    claimed <- [o \in OpIds |->
        IF log[o] = <<>> THEN NoCommand ELSE Requested(log[o]).command],
    outcome <- [o \in OpIds |->
        IF InventoryOf(o) # {} THEN "completed"
        ELSE IF log[o] # <<>> /\ Stage(log[o]) \in Decided THEN Stage(log[o])
        ELSE "none"],
    available <- IF log[Inventory] = <<>> THEN Available ELSE Inventoried.available,
    active <- Inventoried.active

\* The workflow implements ReservationService: a command takes effect in the one
\* step that appends its event, and what was decided on an older inventory never
\* takes effect on a newer one.
ImplementsService == Service!ServiceSpec
===============================================================================
