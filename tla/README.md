# TLA+ models of the Trogon EventStore client for Rust

These modules describe the client library of this repository
(`trogon-eventstore/src`) and its largest example, an idempotent workflow, as state
machines. TLC checks them on small instances; TLAPS proves, for any number of callers,
nodes, appends, events, workers and failures, the safety properties of the connection task,
the node selection, both kinds of subscription, the batch-append session, the commands, the
workflow and the conversion of values, and that connection task, catch-up subscription and workflow each implement an
abstract specification. Paths below are relative to `src/trogon-eventstore/src` unless they
say otherwise.

## 1. The system

The library is a gRPC client. What is concurrent and stateful in it happens in five
places; the rest translates option structs to protocol messages and replies to results.

```
 application tasks ── append, read, delete … ──┐
 Subscription ── next_subscription_event ──────┤   Msg::GetChannel(oneshot)
 PersistentSubscription ── next, ack, nack ────┼──────────────► connection task ──► probe (server features)
 BatchAppendClient ──► actor ──► call ─────────┘   Msg::CreateChannel(id,seed)  └─► node selection ──► gossip
                                                    (errors of operations)
```

| part | where | state it keeps | operations |
|---|---|---|---|
| connection task | `grpc.rs` 840–1274 | channel of `Msg`, `handle_opt`, `NodeConnection::{id, handle}` | `GetChannel`, `CreateChannel`, `NodeConnection::next` |
| node selection, gossip | `grpc.rs` 1283–1466, `operations/gossip.rs`, `types.rs` 1397 | none between calls (`previous_candidates` is never stored) | `node_selection`, `determine_best_node`, `gossip::read` |
| catch-up subscriptions | `commands.rs` 715–1033 | stream, position to resume from, attempts, id of the connection | `subscribe_to_stream/_all`, `next`, `next_subscription_event` |
| batch append | `batch.rs`, `commands.rs` 195–382 | actor's register of oneshot senders, three channels | `batch_append`, `append_to_stream` |
| persistent subscriptions | `commands.rs` 1036–1885, `http/` | stream, bounded ack channel | `next`, `ack`, `nack`, `create/update/delete/list/replay…` |
| unary commands and reads | `commands.rs` 1–190, 383–714, `request.rs`, `client.rs` | none | append, read, delete, tombstone, metadata |
| errors | `types.rs` 1415–1620, `http/mod.rs` | none | `Error::from_grpc`, `http_execute_request` |
| server features | `server_features.rs` | none; `ServerInfo` is stored in the handle | `supported_methods`, `contains_features` |
| projections, operations | `projection_client.rs`, `operations/mod.rs` | none | create in two calls, statistics, scavenge, users … |
| settings | `grpc.rs` 1–835 | none | parsing of the connection string |
| events, stream metadata, traces | `types.rs` 300–860, `event_store/generated.rs`, `observability.rs` | none | building, writing, reading; the trace context in the metadata of an event |
| idempotent reservation | `src/examples/idempotent_reservation.rs` | the operation and inventory streams | `deliver_with_retries`, `execute_operation`, `append_inventory` … |

How they interact. Every operation sends `GetChannel` with a oneshot sender to
the one connection task and awaits a `Handle`; when the operation fails, the
error decides (`handle_error`, `Handle::report_error`) whether a `CreateChannel`
that names the connection is sent to the same channel. A subscription does this
anew whenever it has no stream; a batch-append session does it once. The
connection task probes a node, or asks the gossip of the seeds for one; what the probe
found out about the node decides the route of some commands. The reservation example
uses appends and reads only, and trusts neither's errors.

What is hard here, and what the properties are about:

* *Interleaving.* Many callers report one dying connection, late and more than
  once, while others have its replacement already. Two workers take an operation further
  that a third has begun.
* *Awaits.* The call of a subscription owns the stream while it awaits; the future
  may be dropped there. The connection task does not read its channel while it
  connects.
* *Ordering.* Reports and requests share a channel; the server answers the appends
  of a batch in its own order; an append may be carried out after its sender gave up.
* *Failure.* The connection task stops on the first error of `next`; a batch session
  stops on the first failed append; each leaves requests behind in channels. A
  projection that emits is created by two calls. A worker crashes at any await.
* *Retries.* Positions, attempts and connection ids are carried over several outages;
  a delivery starts from what the streams hold.
* *Conversions.* An old server answers over HTTP what a new one answers over gRPC, with
  other conventions; metadata passed on from one event to another carries its trace.

`PROJECT.json` lists these at their lines under `hazards`, with the properties
that would show them going wrong.

## 2. The modules

| module | models | refines |
|---|---|---|
| `Connection` | the connection task and its callers | `ConnectionService` |
| `ConnectionService` | what `current_selected_node` promises | |
| `ConnectionProofs` | theorems about `Connection` | |
| `Subscription` | a catch-up subscription, the server and its failures | `EventFeed` |
| `EventFeed` | what a catch-up subscription promises | |
| `SubscriptionProofs` | theorems about `Subscription` | |
| `BatchAppend` | a batch-append session | |
| `BatchAppendProofs` | theorems about `BatchAppend` | |
| `PersistentSubscription` | a consumer of a persistent subscription group | |
| `PersistentSubscriptionProofs` | theorems about `PersistentSubscription` | |
| `NodeSelection` | one selection of a node in a cluster | |
| `NodeSelectionProofs` | theorems about `NodeSelection` | |
| `Commands` | the commands: routes, deadlines, calls, errors, reports, answers | |
| `CommandServer` | the cluster as commands see it (external) | |
| `CommandsProofs` | theorems about `Commands` | |
| `Reservation` | the idempotent reservation workflow and its workers | `ReservationService` |
| `ReservationService` | what the workflow promises | |
| `ReservationProofs` | theorems about `Reservation` | |
| `Settings` | the parsing of a connection string | |
| `Events` | events on their way to the server and back, with their traces | |
| `StreamMetadata` | stream metadata as it is built, written and read | |
| `ValuesProofs` | theorems about `Settings`, `Events` and `StreamMetadata` | |
| `Letters` | names that differ in case | |
| `MC…` | small instances: values for the constants; `MCValues` puts `Settings` and `Events` together | |

A definition named like a function of the code (`current_selected_node`,
`handle_error`, `append_to_stream`, `determine_best_node`, `from_grpc` …)
models that function; variables carry the names of the fields they stand for.
Some definitions are preceded by a *mutation*: the same definition with a
plausible bug in it (a dropped test, a swapped order). No specification uses a
mutation; replacing the definition by it makes TLC report the property that
`PROJECT.json` names under `mutants`, which shows that the property can fail.

### Connection

State: `mailbox` is the unbounded channel; `task` says what
`connection_state_machine` awaits (`recv`, or inside `next`: `connect`) or that its
loop was left; `conn_id`, `conn_handle` are the fields of `NodeConnection`,
`handle_opt` is the copy of the task, `selected_node` and `attempts` the locals of
`next`; `pc` and `held` describe each caller. A uuid is a number, a fresh uuid the
next one, the nil uuid 0. `lastReport` and `redirected` are history: they are read by
properties only.

A step runs from one await to the next. `Receive` followed by `AnswerGetChannel`,
`KeepConnection` or `StartConnecting` is the part up to the first await of `next`;
`ProbeSucceeds`, `ProbeFails`, `ProbeTimesOut` are the outcomes of the features call
under its timeout; `SelectNode` is the rest of the discovery loop, with the outcome
of `node_selection` left open (any node or none). Callers are independent of the
task: they ask, run, report. `Drop` is what leaving the loop does to the channel:
`mpsc` drops the queued messages and with them the oneshot senders, so those callers
see `ConnectionClosed`. `Drop` says what the caller whose request `next` is serving sees: the
error of `next`, or, when the task panics in the gossip (`SelectionPanics`, see `NodeSelection`),
a closed channel like the others.

`ConnectionService` has no channel and no probe: one current connection, replaced
only by a newer one; a waiting caller is answered with the one current at that
moment or refused when the service closes for good. `Connection` implements it with
`current <- handle_opt`, `open <- task # "stopped"`.

### Subscription

The state of `Subscription` (stream, `position`, `attempts`, `channel_id`, the retry
policy) with the server's log, which is a counter: event *n* is at place *n*, and
`Matching` says which pass the filter. `wire` is what the open stream still holds. The
call is cut at its three awaits (`handle`, `read`, `message`); `Cancel` drops the
future at any of them. A stream ends in any of three statuses, those that
`handle_error` and the retry branches tell apart, or without one. A stream position
means *after* this event, as the server reads it; `End` is the end of the log when
the read is accepted. A message that the code takes to be impossible on a subscription brings
the application down (`ReceiveUnexpected`). The connection task is represented by what
`Connection` establishes about it: an answer is the `current` connection, a redirection that
names the current one is followed before the next answer (`RedirectIsFollowed`), and a task
that has left its loop (`TaskStops`, after which `open` is false for good) refuses every
request from then on (`HandleRefused`), whatever the retry policy.

`EventFeed` is the promise: from the place it starts at, the matching events one by
one, in order. Its `first`, `log` and `delivered` are the variables of `Subscription`
with the same names.

### BatchAppend

Four parties: the appends, the actor of `BatchAppendClient::new`, the request stream,
and the task that opens the call and passes on responses. `Leave` is every way out of
the actor's loop, with what the drop of the register and of the channel means for
the oneshot receivers. The server decides each append, answers in any order, and may
answer twice. That the client value itself is dropped is not modelled: no append is
then waiting, since each borrows the client.

### PersistentSubscription

One application that subscribes to a group, reads and answers, and subscribes again when
its call is over: unlike `Subscription`, the client does not. `ack_ids` and `nack_ids`
are `Answer` (up to `send`) followed by `AnswerIsSent` or `AnswerFails`; `requests` is
the bounded channel between them and the request stream, with the options as its first
message, and `body` says whether the request stream still reads it. `next` and `ack`
take `&mut self`, so `call` holds the one await under way; `GiveUp` and `Cancel` drop
it. An item of the group may be a link, which is sent with the event it resolves to
and must be answered by its own id. The group itself is the server's: it has at most
`BufferSize` items out, requeues them when the call breaks, requeues one whose answer
is late, and ignores an answer for an item that is not out. A use of `next` after the
response stream has ended or failed is `StreamIsOver`. `TaskStops` ends the connection task, as in
`Subscription`: each later `Subscribe` is refused. That a group on `$all` needs a
feature of the server is in `Commands`: it refuses before there is any state.

### NodeSelection

One call of `node_selection`: the seeds in a shuffled order, each answering with a list
of members, failing or timing out. A list with a member the client cannot convert fails like a
seed that does not answer, but for an instance id that is no uuid: its conversion is unwrapped
(`operations/gossip.rs` 35), and the panic ends the selection (`CandidatePanics`) and the
connection task that awaits it. `determine_best_node` is the *set* of nodes it may
return: `Rust`'s `min_by` as a fold over the eligible members, keeping every member
the random numbers may make it keep. `BestNodeIsSelected` says what that must come to
without a fold.

### Commands, CommandServer

A command is a *request* record that says how its function behaves: the call it makes,
its kind (`Regular` or `Streaming`), where it may be routed, whom it tells of its errors,
and what it makes of the answer. The functions of `commands.rs`, `projection_client.rs` and
`operations/mod.rs` are the operators of the section "The requests"; those that differ in
nothing but their call are one set. `op[c]` is the command under way at client `c`: `asked` is
the request it was issued with, `q` the call it is at, `at`
says what it awaits (`selecting` a connection, an answer by `grpc` or `http`, an `open`
stream), `handle` the connection it was given, `rest` what the stream still holds.

`Selected` is `current_selected_node` and the checks after it (`Route`: features of the
node, the HTTP fallback, the strategies gRPC can name). `GrpcAnswered`, `GrpcRefused`,
`GrpcLost`, `Expires` are the ways a call ends, `HttpAnswered` and `HttpFails` those of the
fallback, `StreamItem`, `StreamEnds`, `StreamFails` those of a stream; each ends in what the
code makes of it (`from_grpc`, `http_error`, `Report`). `Expires` is the server's: a regular
request carries a `grpc-timeout`, also when nobody set a deadline, but nothing in the client
ends a call when it passes, since the transport is a plain hyper client without a timer
(`grpc.rs` 803, 900–906). `Succeed` goes on with the second
call of `ProjectionClient::create` for a request that has one (`HasSecondCall`). A call that was
lost or given up may be carried out later (`late`, `CarryLate`). `Elect` moves the leader. The connection task is what
`ConnectionService` promises: the current connection, replaced when it is reported with a
leader; `SelectionFails` refuses a command at any time.

`CommandServer` is the cluster: one log with the revisions of its streams, groups, one
projection, one user; `Reply`, `Carried` and `Contents` say what a call is refused with,
what it changes, and what a stream of it holds. `IsCluster` says what a cluster may hold at
all: that is what the proofs assume of the one the commands find.

### Reservation

Workers deliver commands on one inventory stream. `worker[w]` is a delivery of
`deliver_with_retries`: `pc` is the await it is at, `known` the `OperationState` as the
events it was read from, `sending` its append. `ClaimOperation`, `DecideRequested`,
`FinishPrepared`, `ReadBack`, `ReadOccupant` are the code between two awaits of
`claim_operation`, `execute_operation`, `append_operation_event` and `append_inventory`;
`AppendAnswered` is the server. `Consistent` is what `read_operation` asserts,
`read_inventory` the replay with its assertions (`sound`). An answer may be lost
(`AnswerLost`), a read fail, a worker crash at any await, and an append whose sender is gone
be carried out at any later time (`late`). `append_initial_inventory`, with its own retries,
comes before any delivery, as in `main`.

`ReservationService` has no streams: an operation is claimed by a command, decided once,
and a completed one changes the stock in one step that the stock of that moment allows.

### Settings, Events, StreamMetadata

`Settings` reads a connection string, a record of its parts, as `ClientSettings::from_str`
does: the URL (or, when it is none because of its hosts, the string rewritten with slashes),
then one parameter after the other into the settings so far, then the check of the
certificate. The rewriting (`grpc.rs` 728) is of the whole string: the commas between the hosts,
those of the path, of the parameters (`replace`) and of the user, whose name is then cut off
at the first and taken for hosts (`UserIsCut`). The grammar of URLs is that of the crate `url`
as far as users, hosts and ports go.

`Events` has a batch of `EventData` under construction, appended under a span of the client or none;
`inject_event_context` merges the trace into the metadata of each event,
`AppendReq` and `RecordedEvent` are the conversions, `Receive` is what
`SubscriptionReceive` records of a delivery. `StreamMetadata` has the builders, the JSON
writer and the reader; `set_stream_metadata` and `get_stream_metadata` in `Events` put them
to use.

## 3. The runs

| run | instance | checks | distinct states |
|---|---|---|---|
| `connection` | 3 callers, cluster of 2 nodes, 3 attempts, 2 connections | `TypeOK`, `HandlesAgree`, `OnlyRedirectedAreReplaced`, `RedirectIsFollowed`, `NoRequestIsLost`, `EveryRequestIsAnswered`, `ImplementsService` | 157,046 |
| `connection_server_error` | 2 callers | finding 1 | |
| `subscription` | 4 events of which 1, 2 and 4 match, 2 faults, 2 connections, no retries or limits 0 and 2 | `TypeOK`, `NoEventIsSkipped`, `RedirectedReadsElsewhere`, `ImplementsFeed`, `EveryEventIsDelivered` | 107,089 |
| `subscription_at_end` / `_ended` | 1 fault | findings 2, 3 | |
| `batch_append` | 3 appends, 1 repeated answer | `TypeOK`, `AnswersAreTheServers`, `NoAppendIsForgotten`, `NoSuccessAfterAFailure`, `EveryAppendIsAnswered` | 396,704 |
| `persistent_subscription` | 2 items, one a link to the other, a channel of 1, 2 items out, 2 faults | `TypeOK`, `SettledAsAnswered`, `NothingFallsBetween`, `EveryItemIsSettled` | 576,750 |
| `persistent_subscription_over` | 1 fault | finding 4 | |
| `node_selection` | 2 seeds, 3 nodes, lists of up to 2 members of 8 kinds and 3 that serve | `TypeOK`, `BestNodeIsSelected`, `GivesUpLast` | 35,288 |
| `commands` | 2 clients, an old and a new node, any 2 of 23 commands, 1 fault | `TypeOK`, `AppendOutcomeIsTrue`, `ReadsAreComplete`, `CreatedProjectionsEmit`, `ListingsAreTheServers`, `RedirectedConnectionIsLeft`, `RegularCommandsEnd` | 1,004,896 |
| `reservation` | 2 workers, a reservation, a competitor and a release for 1 unit, 3 deliveries, 2 attempts, 1 fault | `TypeOK`, `OneOutcome`, `EffectMatchesOutcome`, `AssertionsHold`, `ImplementsService`, `UndisturbedDeliverySucceeds` | 405,772 |
| `values` | strings of up to 3 hosts and strings of up to 2 parameters, with and without commas; 2 events, 2 spans, 4 builder calls | `SettingsAsWritten`, `WrittenIsRead`, `LinksToTheAppend` | 1,552,098 |

What they show:

* *Connection.* A late or repeated report never discards a good connection
  (`OnlyRedirectedAreReplaced`: it is the comparison of ids in `next` that holds this
  up); a caller that was redirected never runs again on the connection that
  redirected it, since its report precedes its request in the channel; each request
  is held exactly once; the two copies of the current handle agree whenever the task
  reads its channel; every request is answered, also when the task stops.
* *Subscription.* The position kept in the options is enough: streams that fail with
  events still on the wire, refused reads, redirections and dropped futures lose,
  repeat and reorder nothing. The attempts of an outage are bounded by the policy (in
  `TypeOK`). A redirected subscription reads elsewhere. Every matching event arrives as long
  as the application calls again and the connection task runs, with the exceptions
  `EveryEventIsDelivered` names: the server ends the stream without an error (finding 3); the
  stream is lost after the connection task has stopped (`Stranded`), for no retry policy makes a
  connection then; the server says what `next` has no branch for, and the application panics.
* *BatchAppend.* Answers reach the append they are for; no way out of the actor's loop
  leaves a caller waiting; a failure closes the session before a later success. A
  response stream that ends without an error is the exception the liveness property
  names: the actor is not told, and appends already registered wait.
* *PersistentSubscription.* An item is settled only as the application answered it, also
  when its answer meets a second delivery of it; within a call, a dropped await, a full
  channel or a failed answer loses neither the item nor its answer; answers lost with a
  call come back as items, so each is settled at last. The exceptions `EveryItemIsSettled`
  names: the call is lost after the connection task has stopped, when no later subscription of
  this client succeeds, and the panic of finding 4.
* *NodeSelection.* The comparison given to `min_by` draws random numbers and is not an
  order; a preferred member is kept all the same, and the one selected is one that may
  serve. A seed whose gossip cannot be read, or does not come, hides no other seed; one whose
  gossip holds a malformed instance id ends the whole selection in a panic, which the
  properties leave alone and `Connection` carries on from.
* *Commands.* An append that was acknowledged is in the log once, and one that was refused
  outright never gets there, whatever is carried out late; a deadline or a lost connection
  says nothing. A read that ends well has delivered everything there was. When
  a `create` that was asked to emit returns without an error, it has made its second call, and
  the projection emits. The listings of groups are the server's,
  whether they came by gRPC or over HTTP, for groups that have processed something: of the
  others the two ways say different things. A command that the server redirects moves the
  client off its connection, unless it is an operation, which reports nothing. A regular
  command ends though it is never answered, because its request has a deadline even if nobody
  set one, as long as the server enforces the deadlines it is sent: that is the premise of
  `RegularCommandsEnd` (`DeadlinesEnforced`), and no timer of the client makes up for it.
* *Reservation.* Whatever crashes, is lost or arrives late, every delivery of an operation,
  by any worker at any time, is told the one outcome its stream holds; the inventory has
  the effect exactly when that outcome is *completed*; no assertion of the replay fails; a
  decision made on an older inventory never takes effect on a newer one
  (`ImplementsService`); and a delivery that nothing disturbs any more ends with its outcome.
* *Values.* Parameters have the last effective value given for them, in any order and case;
  hosts keep their order and ports, and the user stays, with three exceptions: a port given to
  the last of several hosts alone is lost, and where an earlier host has a port, a text parameter
  has slashes for its commas, and a user with commas in the name is taken for hosts
  (§4). What is written as an event or as
  stream metadata is read back, but for parts of a millisecond and custom properties with the
  name of a system's. The span of a receive is linked to the append that wrote the event, not
  to an older one whose trace came along with metadata passed on.

**Bounds.** `MaxConnections` stops redirections at a connection of that id: with two, a
report can come after the replacement of the connection it names, from a second caller, and
again; the theorems of §5 have no such bound.
`MaxDiscoverAttempts` of 3 lets a timed-out probe be followed by another selection.
The channel has no bound of its own; callers that wait for their answer bound it. Three
callers let one report late while a second waits and a third runs. In `Subscription`,
two faults are a loss in the middle of the recovery from another one; four
events are one received, one lost with its stream, and one to notice it by; event 3 not
matching puts the server's cursor and the last event delivered apart. Three appends
are one answered, one registered and one in the channel when the session ends; one
repeated answer can meet an empty or a non-empty register. In `PersistentSubscription`, a
channel of one is full with the first answer; two items out are one answered and one not,
or both in one answer; of two faults one can lose the call and one strike the next call. Two seeds are one that
spoils the search and one that saves it; `min_by` over three members has a
comparison whose left side was itself chosen at random. In `Commands`, two commands are one
that changes what the other reads, or one carried out late under the other; one fault, with
expiry and late calls free of charge, is an election between the two. In `Reservation`, the
release carries the id of the competing reservation, as in `main`, and competes with it for its
stream; three deliveries are two that race and one that recovers; one fault, with late
appends free of charge, is a crash or a lost answer in any of them; the creation has a fault
at every attempt. In `values`, strings have up to three hosts and one of five users, or up to two
parameters out of 31 behind one host or behind two with a port between them. Two parameters
are what a last value, a default and a refusal can be told apart by; two hosts are what the
string is rewritten for. Four builder calls combine a role added twice with two other parts.

**Symmetry.** No run uses it.

**Deadlock.** It is checked in the connection runs: callers can always ask again.
`Subscription` stops when its bounds are used up, or behind an ended stream
(`next_subscription_event` then spins without any change of state); a
persistent subscription stops when all is settled and the bounds are used up, or with the
application; a batch session is over when its appends are answered; a selection is one call;
commands and deliveries are bounded; a refused string is not read further. These
configurations turn the check off, and their liveness properties say what must have happened
by then.

**Fairness.** `WF_vars(Task)`: tokio polls a woken task, and `gossip_timeout` bounds the
probe it awaits (`ProbeTimesOut` is part of `Task`). No caller is obliged to ask or to
finish an operation. `Subscription`: the application calls again (`Call`), the call goes
on when it can (`Proceed`), a live server sends what it has (`Push`); nothing is assumed
of writes, failures or cancellations. `BatchAppend`: tokio polls both tasks and the
request stream, opening the call returns, the server decides what it received; that a
response stream fails or ends is never assumed. `PersistentSubscription`: the application subscribes again
after a failure (`Subscribe`), gives up waiting for an event while the stream is silent
(`GiveUp`), reads again and again (`SF` of `CallNext`) and answers each item at length (`SF`
of `Answer` for it, since it is disabled during every call); without `GiveUp` an application
that holds `BufferSize` items would wait in `next` for ever, as `next` excludes `ack`. The
server sends and reads, the transport drops the body of a call that is over; failures, late
answers and `Retry` are counted as faults and not fair. `Subscription` and `PersistentSubscription` do not
assume that the connection task lives; its end is one of the faults. `Commands`: the connection
task answers (`Selected`), and that is all: no answer of a server is assumed. That a server
enforces deadlines (`WF` of `Expires`) is not in the specification but the premise of the one
property that needs it. `Reservation`: a call of the client returns and the runtime
polls the worker; faults and late appends are not fair. `NodeSelection` and `values` have
safety properties only and no fairness.

## 4. Where code and documentation differ

1. `connection_server_error`. On a `ServerError`, `handle_error` logs "Current selected
   node became unavailable. Starting node selection process" (`grpc.rs` 1256) and
   sends `CreateChannel(id, None)`. `next(None)` returns the handle it has, so no
   selection starts and the next operation runs on the connection just reported.
2. `subscription_at_end`. "The client will keep track of the current subscription
   offset" (`options/subscribe_to_stream.rs` 48), but only an event moves it: a
   subscription from `StreamPosition::End` that loses its stream before the first event
   asks for the new end and skips what was written in between.
3. `subscription_ended`. "When a disconnection happens, automatically resubscribe to stream
   changes", says the setter of the retry options (`options/subscribe_to_stream.rs` 47). With
   retries enabled, a stream that the server ends without an error is put back and polled
   again, for ever.
4. `persistent_subscription_over`. The `unreachable!()` of
   `PersistentSubscription::next_subscription_event` (`commands.rs` 1428) is reached when
   the response stream has ended, or when the application reads once more after it was
   given the error of a broken one: `try_next` then answers `Ok(None)`, and the task of
   the application panics.

Met while modelling, and modelled as the code does them, without a run of their own:

* `gossipTimeout`: "TODO - Current behavior doesn't timeout at all" (`grpc.rs` 300–301). The code
  does time out: `gossip_timeout` bounds the probe of a node (964) and the gossip (1321). If the
  comment were right, a silent node would leave every caller waiting: `EveryRequestIsAnswered`
  rests on `ProbeTimesOut`, which stands for those two lines.
* The table of parameters in `docs/api/getting-started.md` (74–88 of the repository's root) has
  other defaults and units than the code, which `SettingsAsWritten` follows:

  | parameter | documented | code |
  |---|---|---|
  | `maxDiscoverAttempts` | 10 | 3 |
  | `discoveryInterval` | 100 ms | 500 ms |
  | `gossipTimeout` | 5, in seconds | 3000, in milliseconds |
  | `keepAliveInterval`, `keepAliveTimeout` | 10, in seconds | 10000, in milliseconds |

  A `gossipTimeout=5` written after the table is 5 ms; a `keepAliveInterval=10` is 10 ms, below
  the 10000 ms the code takes as the least, and passed over with a warning.
* `defaultDeadline` is there the "Default timeout for client operations". The client sends it as
  `grpc-timeout` (`commands.rs` 130–138) and ends nothing itself: whether an operation times
  out is the server's doing.
* `connectionName` is there "Any string", and `tlsCaFile` and the certificate files are paths. With
  several hosts of which one before the last has a port, `grpc.rs` 728 turns every comma of the string into a
  slash, those of such values too; a user with a comma in its name is cut there and its
  first part becomes the first host.

Further: `nodePreference` is documented to default to `random` (`grpc.rs` 308) and defaults to
`Leader`, as `getting-started.md` says; a `keepAliveInterval` or `keepAliveTimeout` of 0 to
9999 ms is passed over with a warning; `esdb://a,b:3333` is a URL with the port 3333, which is given to neither host; a `/`
behind a list of hosts with ports adds a host without a name; `defaultDeadline=-1` is
`u64::MAX` milliseconds; an append of nothing to a new stream answers revision 0.

## 5. What is proved

Eight modules hold proofs, for all values of the constants that satisfy the named
assumptions of the module. `ConnectionAssumption`, `SubscriptionAssumption`,
`BatchAppendAssumption`, `PersistentSubscriptionAssumption`, `NodeSelectionAssumption`,
`CommandsAssumption`, `SettingsAssumption` and `StreamMetadataAssumption` say of what sort the constants are, and that a value standing for
"none" is no other value. Four say more:

* `InitialServersAssumption` (`Commands`): what the cluster holds at first was written and
  created by none of the commands of the behaviour, and what a group has processed fits the
  `u64` in which the server counts it;
* `RequestsAssumption` (`Commands`): a request has the fields of one, and a request that
  appends, reads, lists or updates a projection is what the function of the client for it
  makes;
* `ReservationAssumption` (`Reservation`): two reservations with one reservation id are one
  operation, as `ReservationId::new` makes them, and quantities and stock are naturals;
* `EventsAssumption` (`Events`): the propagator injects finitely many names, one of them
  `traceparent`, and these and the names the client persists are in lower case, as W3C Trace
  Context has them; a setter of `StreamMetadataBuilder` is given a value of its type.

Theorems that assume more say so in their statement.

**`ConnectionProofs`**

* `TypeCorrect`: `Spec => []TypeOK`
* `ConnectionCorrect`: `Spec => []ConnectionInv`
* `HandlesAgreeCorrect`, `OnlyRedirectedAreReplacedCorrect`, `RedirectIsFollowedCorrect`,
  `NoRequestIsLostCorrect`: the four safety invariants of the run `connection`
* `ServiceSafetyCorrect`: every step of the task and its callers, its panic included, is a step of
  `ConnectionService` or leaves what it speaks of alone. This is `ImplementsService`
  without the fairness of the service.

None of the four invariants is inductive alone. `ConnectionInv` adds to them:

* `CurrentIsNewest` ties `conn_handle` to `conn_id`, bounds every id a caller holds or
  reported by it, and says that a message is served only while connecting. Without it
  an old report could carry the current id, and a stopped task could serve.
* `RequestsNameRedirected` carries "was redirected" from the caller's report, through
  the channel, to the moment `next` gives the connection up: it is what
  `OnlyRedirectedAreReplaced` rests on.
* `RedirectIsUnderWay` says where a redirection is until it takes effect: in the channel
  ahead of the caller's next request (`ReportAhead`), in the `next` call in progress, or
  already done (`conn_id` is newer). `RedirectIsFollowed` follows at the moment the
  request is answered.

The refinement needs two facts more (`ServiceInv`): the task's copy of the handle has the
newest id, and a caller holds a connection exactly while it uses one. The steps are
matched action by action: an answer from the channel is the service's answer, a probe that
succeeds is its replacement, leaving the loop its closing. The two ways of leaving it, an error
of `next` and a panic, differ in what the served caller sees only, and share their lemmas
(`Stop`).

**`BatchAppendProofs`**

* `TypeCorrect`, `BatchCorrect`: `Spec => []BatchInv`
* `AnswersAreTheServersCorrect`, `NoAppendIsForgottenCorrect`,
  `NoSuccessAfterAFailureCorrect`: the safety properties of the run `batch_append`

`BatchInv` follows an append through the session: one that the server has not seen is in
one place at most and once (`Unseen`); one that was never made is nowhere
(`NewIsNowhere`), so its sender is fresh when it is registered; an answer on its way, on the
response stream or in the actor's channel, is the server's outcome of the append it names
(`AnswersUnderWay`); and whoever was told a failure has left the loop behind
(`FailureStops`), from which the action property follows, since only a running actor
tells a success.

**`SubscriptionProofs`**

* `TypeCorrect`, which includes the bound on the attempts of an outage
* `RedirectedReadsElsewhereCorrect`: by `ConnectionsInOrder`, the id the subscription
  would report is that of its stream, and, while the connection task runs, every redirection is
  older than the current connection; once it has stopped, it answers nobody any more
* `NoEventIsSkippedCorrect` and `ImplementsFeedCorrect`, both under `End \notin Starts`:
  finding 2 shows that a subscription from the end is an exception, and the theorems that
  it is the only one

`FeedInv`, the invariant of the last two: the place to resume from is that of the last event
returned (`ResumesAfterDelivered`); what is on the wire is matching events of the log in
order, beyond that place, with none missing before any of them (`WireIsTheLog`), which is what
a break that keeps only a prefix, and a dropped future, leave true; and an open stream has
put on the wire whatever it has read (`SentIsRead`). The head of the wire is then the next
event that `EventFeed` owes (`HeadIsNext`): `ReceiveEvent` is its `Deliver`, `Write` its
`Write`, every other action a stutter. `EventFeed` is pure safety, so the theorem is the
whole property `ImplementsFeed`.

**`PersistentSubscriptionProofs`**

* `TypeCorrect`, `SettledAsAnsweredCorrect`, `NothingFallsBetweenCorrect`: the safety
  invariants of the run `persistent_subscription`, for any links between items, capacity of
  the channel, buffer of the group and number of faults

`IInv` adds to the three: nothing is out while there is no open stream (`OpenWhileSent`), so
that a lost call needs no bookkeeping of the items it had; an answer being sent is one the
application gave (`Answering`); and each request in the channel carries an answer that was
given to every item it names (`AnswersAreSaid`), which is what the group settles by. That an
answer names the link and not the event it leads to is in the lemmas on requests.

**`NodeSelectionProofs`**

* `TypeCorrect`, `BestNodeIsSelectedCorrect`, `GivesUpLastCorrect`: the invariants of the run
  `node_selection`, for any finite set of seeds and any gossip

The comparison of `determine_best_node` draws random numbers, so `min_by` is a fold whose
value at each member is the set of members it may keep. `MinByIsGood` shows of that fold, for
lists of any length, that whatever is kept is eligible, and preferred as soon as a preferred
member came (`GoodSoFar`). The invariant of the search says that the node selected is one
that `determine_best_node` may return for the gossip it came from (`Selection`), that every
seed was asked or is a candidate still, and that while nothing is selected no answer that
could be read named a node to serve (`Searched`).

**`CommandsProofs`**

* `TypeCorrect`, `RedirectedConnectionIsLeftCorrect`, `AppendOutcomeIsTrueCorrect`,
  `ReadsAreCompleteCorrect`, `CreatedProjectionsEmitCorrect`, `ListingsAreTheServersCorrect`:
  the safety invariants of the run `commands`, for any requests of the client, clients, nodes,
  streams and faults

A step of a client is first reduced to its kind (`ClientSteps`): a command is issued, routed,
ends with an error, goes on with a second call, opens a stream, completes, reads an item, or
closes its stream. Each invariant is then preserved by kinds, not by the handlers one by one.
`Shape` is common to all: a command has a number of its own, a call that may yet be carried
out belongs to a command that ended with an error and is the only one of it (`LateShape`),
and the client is at no connection it was redirected from (`Link`). On top of it

* `AppendInv`: an event is in the log once; the event of an append that is under way, or may
  be carried out late, is not in it, and nobody was told anything definite about it;
* `ProjectionInv`: whichever call updates the projection its own command created asks it to
  emit (`WillEmit`, `CallWillEmit`), also when it is carried out late;
* `SecondCallInv`: a command with a second call is at what it was asked for, or at that second
  call, and one that has succeeded has no call left to make. With `ProjectionInv` this gives
  `CreatedProjectionsEmit`, which is about what was *asked*: a `create` that returned after its
  first call would violate it;
* `ListingInv`: a listing has as many infos as the server had groups, and one with the
  source, position, progress and strategy of each group that has processed something
  (`Listed`), progress being exact below the size of a `u64`;
* `ReadInv`: what was read is a prefix of what the server had when it accepted the read, and
  what is left on the stream is the rest, with at most one position among the events
  (`Remaining`).

**`ReservationProofs`**

* `TypeCorrect`, `OneOutcomeCorrect`, `EffectMatchesOutcomeCorrect`, `AssertionsHoldCorrect`:
  the safety invariants of the run `reservation`, for any workers, commands, stock, number of
  retries and faults
* `ImplementsServiceCorrect`: the workflow implements `ReservationService`. The service is
  pure safety, so this is the whole property.

`Inv` speaks of the streams first (`LogInv`): the stream of an operation is a claim, a
decision and a conclusion, in this order and each true of the others and of the inventory
(`Ordered`); behind its creation, the inventory holds at each place the event of an operation
that was prepared for that very place (`InventoryOrdered`), and its replay asserts nothing
false (`InventorySound`).
Every append under way, being sent or abandoned, has then at most one place where it can be
stored, and is true there (`Proper`): this is why a late append, a second worker or a crash
changes nothing. The events a delivery goes by are those its operation's stream holds
(`KnowsLog`).
The refinement maps the service's claims and outcomes to the operation streams and its stock
to the replay of the inventory: storing a claim is the service's `Claim`, storing the event of
a reservation or a release in the inventory its `Reserve` or `Release`, storing a rejection or
a conflict its `TurnDown`; storing that a command is prepared or completed, and every step of
a worker, is a stutter.

**`ValuesProofs`**

* `SettingsAsWrittenCorrect`: of `SettingsSpec`, for any connection strings, those that are
  rewritten included: the property says what becomes of their texts (`AsRead`) and excepts the
  user that is cut
* `WrittenIsReadCorrect`, `LinksToTheAppendCorrect`: of `EventsSpec`, for any metadata an
  application gives an event, any builder calls, and whatever the propagator injects

The two specifications are those of the modules; `MCValues` takes a step of the one or of the
other. `SettingsInv` says of a string that is read up to some parameter what the property says
of one that is read to its end: each setting is the last value given so far, or its default
(`WrittenUpTo`), and hosts and user are those of the URL, read in either way. What commas do to a
word is a constant, `Slashed`; `SettingsAssumption` says that no word the parser looks for
(`true`, `leader` …) has a comma, and that the rewriting makes none of a text that has one.

`EventsInv` says of each event the server holds that it agrees with what it was made of
(`Agrees`), of each version of stream metadata that it is the JSON of the metadata it was made
of (`SetInv`), and of the last answers that they speak of what was written. It rests on two
lemmas. `MetadataIsRead`: `from_json` undoes `to_json`, but for parts of a millisecond,
whenever no custom property has the name of a system property. An object is reasoned about by
the names in it (`Keys`), what they hold (`Holds`) and that none comes twice (`Unique`), which
appending one object to another keeps (`JoinedObjects`). `InjectedTrace`: whatever the order
in which the names are injected, the application's own metadata stays and the trace of the
append is the only one left, in whatever case another was there before.

**What the proofs do not use.** The induction theorems of the library take an operator as a
parameter, which no backend can instantiate. What a recursive function computes (the replay
of the inventory, the folds of `min_by` and of the propagator, the events of a stream in the
log) is proved instead
from its least counterexample: `LeastNumber` gives one from the well-foundedness of `<`, and
the equation of the function at that number refutes it.

**Model-checked only.** Liveness and the fairness part of `ConnectionService` (fairness and
`ENABLED` are beyond the prover). Every safety property that a run checks is a theorem.

## 6. Not modelled

* TLS and HTTP/2 set-up, names and attributes of spans, metrics, authentication headers:
  none of them changes what the client does next.
* Generated protocol code and the builders of option structs: they set fields, whose values
  are parameters of the modules. The statistics parser of the extras crate: text to numbers,
  no state, no caller in the library.
* `candidates_from_old_gossip` and what it calls cannot be reached, as
  `previous_candidates` is taken and never stored.
* In `Connection` a caller does not drop its request while it waits (its answer would be
  sent to nobody); the clones of the channel's sender are not counted. A task that has stopped
  refuses for good in `Connection`, `Subscription` and `PersistentSubscription`; in `Commands`,
  `SelectionFails` may or may not come again, which allows every behaviour of the code and more, and
  no property of that module depends on a refusal being the last.
* In `PersistentSubscription` the answers `Unknown` and `Stop`, which leave the item to
  the server.
* In `Commands`, the versions of nodes, which guard nothing; the JSON of projection results;
  what a scavenge, a priority or a password does at the server; `defaultDeadline=-1`. Whether a
  server gives up a call whose deadline has passed is open in the specification (`Expires` may
  happen or not); only `RegularCommandsEnd` is about servers that do.
* In `Settings`, the TOML form, which only a test reads; in `StreamMetadata`, the reading of
  `null`, which the client never writes; in `Events`, position and date of a recorded event,
  and, of a metadata stream, any event but the last. One connection string's client writes
  events, another's metadata, since neither kind of value depends on the settings.
* In `Reservation`, reservation ids are unique to an operation, as `ReservationId::new` makes
  them.

## 7. Plan

1. Proofs: that `MCValues`, the composition the run checks, implements `SettingsSpec` and
   `EventsSpec`. Liveness, and the enabledness it rests on, stays with TLC.
2. Hazards without a property: the sender the connection task keeps of its own channel
   (`grpc.rs` 1057) needs the clients counted in `Connection`; the append that the request
   stream forwards after the actor has left (`commands.rs` 224) is what the code promises
   nothing about.
3. A larger instance of `Commands`: three commands with two faults exceed what one run can
   visit; a composition with `Connection` instead of its service would show the same
   properties at a finer grain.
