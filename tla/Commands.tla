------------------------------- MODULE Commands --------------------------------
(***************************************************************************)
(* The commands of the client: commands.rs, projection_client.rs,          *)
(* operations/mod.rs and the HTTP fallback.  A command is a request record *)
(* that says how its function behaves: the call it makes, its kind, where  *)
(* it may be routed, whom it tells of its errors, what it makes of answers.*)
(*                                                                         *)
(* The connection task is abstracted to what ConnectionService promises:   *)
(* the current connection, replaced when it is reported as redirected; it  *)
(* may refuse a command.  The cluster is module CommandServer.  A call may *)
(* be answered, refused, lost or not answered at all, and one given up may *)
(* be carried out later.                                                   *)
(***************************************************************************)
EXTENDS CommandServer

CONSTANTS
    Clients,
    Requests,         \* the commands they issue
    Methods,          \* the <<service, method, features>> each node lists
    MetadataStream,   \* of each stream: "$$" before its name
    Strategies,       \* SystemConsumerStrategy without Custom
    DefaultDeadline,  \* ClientSettings::default_deadline: "none" or "finite"
    PrefersLeader,    \* ClientSettings::node_preference is Leader
    WordSize,         \* 2^64, the range of u64
    InitialServers,   \* what the cluster holds at first
    MaxCommands,      \* bound: the commands issued
    MaxFaults         \* bound: elections, refusals and losses

ASSUME CommandsAssumption ==
    /\ NoNode \notin Node /\ All \notin Stream
    /\ DefaultDeadline \in {"none", "finite"} /\ PrefersLeader \in BOOLEAN
    /\ {MaxCommands, MaxFaults} \subseteq Nat /\ WordSize \in Nat \ {0}

\* No command has written or created what the cluster holds at first, and what a
\* group has processed is counted in a u64.
ASSUME InitialServersAssumption ==
    \A s \in InitialServers :
        /\ IsCluster(s)
        /\ \A k \in 1..Len(s.log) : s.log[k][2] \notin 1..MaxCommands
        /\ s.projection.by = 0
        /\ \A g \in s.groups : g.done < WordSize

VARIABLES
    server,      \* CommandServer
    late,        \* calls given up by their client that may still be carried out
    connection,  \* the current connection of the client
    op,          \* each client's command: what was asked for (asked) and what it is
                 \* at (q), with its result once it is done
    commands,    \* how many commands were issued; they number them
    faults,      \* history: counts towards MaxFaults
    appends,     \* history: how each append ended
    redirected   \* history: the connections a command was redirected from

vars == <<server, late, connection, op, commands, faults, appends, redirected>>

-----------------------------------------------------------------------------

(* The requests. *)

Request(rpc, kind, source) ==
    [rpc |-> rpc, kind |-> kind, source |-> source, expected |-> AnyRevision, from |-> -1,
     strategy |-> "RoundRobin", emit |-> "none", takes |-> "all", andThen |-> "none",
     streamed |-> FALSE, toAll |-> FALSE, fallback |-> FALSE, http |-> FALSE,
     reports |-> "handle_error", streamReports |-> "handle_error",
     leader |-> FALSE, deadline |-> FALSE]

append_to_stream(stream, expected) ==
    [Request("Append", "Regular", stream) EXCEPT !.expected = expected]

into_metadata_stream_name(stream) == MetadataStream[stream]
set_stream_metadata(stream, expected) ==
    append_to_stream(into_metadata_stream_name(stream), expected)

read_stream(stream) == [Request("Read", "Streaming", stream) EXCEPT !.streamed = TRUE]
read_all == [Request("Read", "Streaming", All) EXCEPT !.streamed = TRUE]

get_stream_metadata(stream) ==
    [read_stream(into_metadata_stream_name(stream)) EXCEPT !.takes = "metadata"]

delete_stream(stream, expected) ==
    [Request("Delete", "Regular", stream) EXCEPT !.expected = expected]
tombstone_stream(stream, expected) ==
    [Request("Tombstone", "Regular", stream) EXCEPT !.expected = expected]

ToAll(request) == [request EXCEPT !.toAll = request.source = All]

create_persistent_subscription(source, from, strategy) ==
    [ToAll(Request("CreateGroup", "Regular", source)) EXCEPT
        !.from = from, !.strategy = strategy]
update_persistent_subscription(source, from, strategy) ==
    [create_persistent_subscription(source, from, strategy) EXCEPT !.rpc = "UpdateGroup"]
delete_persistent_subscription(source) == ToAll(Request("DeleteGroup", "Regular", source))

\* A command the HTTP interface of an older server knows as well.
Managed(request) == [ToAll(request) EXCEPT !.fallback = TRUE]

list_all_persistent_subscriptions == Managed(Request("ListAll", "Regular", "none"))
list_persistent_subscriptions_for_stream(source) ==
    Managed(Request("ListForStream", "Regular", source))
get_persistent_subscription_info(source) == Managed(Request("GetInfo", "Regular", source))
replay_parked_messages(source) == Managed(Request("ReplayParked", "Regular", source))
restart_persistent_subscription_subsystem ==
    Managed(Request("RestartSubsystem", "Regular", "none"))

listings == {"ListAll", "ListForStream", "GetInfo"}

Projection(rpc) == Request(rpc, "Regular", "none")

\* ProjectionClient::create: with emit, the projection is updated right after.
create_projection(emit) ==
    [Projection("CreateProjection") EXCEPT
        !.andThen = IF emit THEN "UpdateProjection" ELSE "none"]
update_projection(emit) == [Projection("UpdateProjection") EXCEPT !.emit = emit]
EmitEnabled == update_projection("on")
delete_projection == Projection("DeleteProjection")
statistics ==
    [Projection("Statistics") EXCEPT !.streamed = TRUE, !.streamReports = "report_error"]
get_status == [statistics EXCEPT !.takes = "first"]
projection_switches ==
    {Projection(rpc) : rpc \in {"EnableProjection", "DisableProjection", "ResetProjection"}}
projection_readings ==
    {Projection(rpc) : rpc \in {"ProjectionState", "ProjectionResult"}}
restart_projections == Projection("RestartProjections")

\* The operations tell the connection task nothing.
Operation(rpc) ==
    [Request(rpc, "Regular", "none") EXCEPT
        !.reports = "none", !.streamReports = "none"]
scavenge == {Operation(rpc) : rpc \in {"start_scavenge", "stop_scavenge"}}
resign_node == Operation("resign_node")
node_operations ==
    {Operation(rpc) :
        rpc \in {"shutdown", "merge_indexes", "set_node_priority",
                 "restart_persistent_subscriptions"}}
create_user == Operation("CreateUser")
user_changes ==
    {Operation(rpc) : rpc \in {"UpdateUser", "EnableUser", "DisableUser", "ChangePassword",
                               "ResetPassword"}}
delete_user == Operation("DeleteUser")
user_details == [Operation("UserDetails") EXCEPT !.streamed = TRUE]
stats ==
    [Operation("Stats") EXCEPT !.kind = "Streaming", !.streamed = TRUE, !.takes = "first"]

\* The requests are those of the client's functions: what each asks for and does.
ASSUME RequestsAssumption ==
    \A q \in Requests :
        /\ DOMAIN q = DOMAIN Request(q.rpc, q.kind, q.source)
        /\ {q.reports, q.streamReports} \subseteq {"handle_error", "report_error", "none"}
        /\ q.rpc = "Append" => q = append_to_stream(q.source, q.expected)
        /\ q.rpc = "Read" => q = [read_stream(q.source) EXCEPT !.takes = q.takes]
        /\ q.rpc \in {"Append", "Delete", "Tombstone"} => q.source \in Stream
        /\ q.rpc = "Read" => q.source \in Stream \cup {All}
        /\ q.rpc \in {"CreateGroup", "UpdateGroup"} => q.from \in Nat \cup {-1}
        /\ q.rpc \in listings => q = Managed(Request(q.rpc, "Regular", q.source))
        /\ q.rpc = "UpdateProjection" => q = update_projection(q.emit)

\* Mutation of HasSecondCall: create does not look at emit.
OneCallOnly(request) == FALSE

\* Does ProjectionClient::create go on with the update that makes it emit?
HasSecondCall(request) == request.andThen # "none"

-----------------------------------------------------------------------------

(* Routes, deadlines, errors. *)

Streams == "event_store.client.streams.streams"
Subscriptions == "event_store.client.persistent_subscriptions.persistentsubscriptions"

supported_methods(methods) ==
    {f \in {"batchappend"} : \E m \in methods : m[1] = Streams /\ m[2] = f}
    \cup {f \in {"list", "replayparked", "restartsubsystem", "getinfo"} :
            \E m \in methods : m[1] = Subscriptions /\ m[2] = f}
    \cup {f \in {"all"} :
            \E m \in methods : m[1] = Subscriptions /\ m[2] = "create" /\ f \in m[3]}

MANAGEMENT == {"list", "replayparked", "restartsubsystem", "getinfo"}
Supports(node, features) == features \subseteq supported_methods(Methods[node])

\* named_consumer_strategy_as_i32.
NamedStrategy(strategy) == strategy \in Strategies \ {"PinnedByCorrelation"}

\* Mutation of Route: what the node cannot do by gRPC goes over HTTP, whether or not
\* that interface knows the command.
RouteOverHttp(q, node) ==
    IF (q.fallback => Supports(node, MANAGEMENT)) /\ (q.toAll => Supports(node, {"all"}))
    THEN "grpc" ELSE "http"

\* Which way the command goes on this node, if any.
Route(q, node) ==
    IF q.fallback /\ Supports(node, MANAGEMENT) THEN "grpc"
    ELSE IF q.toAll /\ ~Supports(node, {"all"}) THEN "unsupported"
    ELSE IF q.rpc \in {"CreateGroup", "UpdateGroup"} /\ ~NamedStrategy(q.strategy)
    THEN "unsupported"
    ELSE IF q.fallback THEN "http" ELSE "grpc"

\* Mutation of Timed: the ten seconds of a regular command are forgotten.
TimedIfAsked(q) == q.deadline \/ (DefaultDeadline # "none" /\ q.kind # "Streaming")

\* new_request: does the request carry a deadline?
Timed(q) ==
    \/ q.deadline
    \/ DefaultDeadline # "none" /\ q.kind # "Streaming"
    \/ DefaultDeadline = "none" /\ q.kind = "Regular"

\* build_request_metadata.
RequiresLeader(q) == q.leader \/ PrefersLeader

CodeError(code) ==
    CASE code \in {"TimeoutExpired", "DeadlineExceeded"} -> "DeadlineExceeded"
      [] code \in {"Unauthenticated", "PermissionDenied"} -> "AccessDenied"
      [] code = "AlreadyExists" -> "ResourceAlreadyExists"
      [] code = "NotFound" -> "ResourceNotFound"
      [] code \in {"Unavailable", "Internal", "DataLoss", "Unknown"} -> "ServerError"
      [] code = "Unimplemented" -> "UnsupportedFeature"
      [] OTHER -> "Grpc"

Error(name, leader) == [name |-> name, leader |-> leader]
Failure(name) == Error(name, NoNode)

from_grpc(s) ==
    IF s.exception = "not-leader" /\ s.leader # NoNode
    THEN Error("NotLeaderException", s.leader)
    ELSE IF s.exception = "stream-deleted" THEN Failure("ResourceDeleted")
    ELSE Failure(CodeError(s.code))

http_error(code) ==
    CASE code = "Unauthenticated" -> Failure("AccessDenied")
      [] code = "NotFound" -> Failure("ResourceNotFound")
      [] code \in {"Internal", "Unavailable"} -> Failure("ServerError")
      [] OTHER -> Failure("InternalClientError")

\* A report with a leader replaces the connection, if it is still the one reported;
\* the leader may not answer its probe, and another node be selected.
Replace(id) ==
    IF connection.id = id
    THEN \E n \in Node : connection' = [id |-> id + 1, node |-> n]
    ELSE UNCHANGED connection

\* Mutation of handle_error: the leader is left out of the report.
ReportedWithoutLeader(id, e) == UNCHANGED connection

\* A report without a leader finds a connection at hand and leaves it: next(None).
handle_error(id, e) ==
    IF e.name = "NotLeaderException" THEN Replace(id) ELSE UNCHANGED connection

\* Handle::report_error names no leader, whatever the error.
report_error == UNCHANGED connection

Report(how, id, e) ==
    CASE how = "handle_error" -> handle_error(id, e)
      [] how = "report_error" -> report_error
      [] how = "none" -> UNCHANGED connection

-----------------------------------------------------------------------------

(* What is made of the answers. *)

At(n) == [kind |-> "Position", at |-> n]
parse_stream_position(n) ==
    IF n = -1 THEN [kind |-> "End", at |-> 0]
    ELSE IF n = 0 THEN [kind |-> "Start", at |-> 0]
    ELSE At(n)

\* Nothing is processed: "None" of an Option.
Nothing == -1
u64(n) == n % WordSize

\* SubscriptionInfo as gRPC answers it.
try_from_info(g) ==
    [source |-> g.source, from |-> parse_stream_position(g.from),
     done |-> IF g.done < 0 THEN Nothing ELSE g.done, strategy |-> g.strategy]

\* Mutation of from_http_info: the position of a group on $all is read as a number.
FromHttpNumbers(g) ==
    [source |-> g.source, from |-> At(u64(g.from)), done |-> u64(g.done),
     strategy |-> g.strategy]

\* As the HTTP interface does: numbers for a stream, positions for $all.
from_http_info(g) ==
    [source |-> g.source, from |-> parse_stream_position(g.from),
     done |-> IF g.source = All /\ g.done < 0 THEN Nothing ELSE u64(g.done),
     strategy |-> g.strategy]

\* A strategy that is no variant of SystemConsumerStrategy fails the whole body.
Parsable(groups) == \A g \in groups : g.strategy \in Strategies

-----------------------------------------------------------------------------

NoRequest == Request("none", "Regular", "none")
NoConnection == [id |-> 0, node |-> NoNode]
Done == "done"

Idle ==
    [at |-> Done, asked |-> NoRequest, q |-> NoRequest, id |-> 0, handle |-> NoConnection, rest |-> <<>>,
     items |-> <<>>, infos |-> {}, error |-> Failure("none"), truth |-> {}]

Init ==
    /\ server \in InitialServers
    /\ late = {}
    /\ connection \in [id : {1}, node : Node]
    /\ op = [c \in Clients |-> Idle]
    /\ commands = 0
    /\ faults = 0
    /\ appends = [i \in 1..MaxCommands |-> "open"]
    /\ redirected = {}

\* The call c's command makes.
CallOf(c) ==
    LET q == op[c].q
    IN  [rpc |-> q.rpc, source |-> q.source, expected |-> q.expected, from |-> q.from,
         strategy |-> q.strategy, emit |-> q.emit, id |-> op[c].id,
         node |-> op[c].handle.node,
         leader |-> op[c].at # "http" /\ RequiresLeader(q)]

\* c's command is over.
Finish(c, result) ==
    /\ op' = [op EXCEPT ![c] = [result EXCEPT !.at = Done, !.rest = <<>>]]
    /\ appends' = IF result.q.rpc = "Append"
                  THEN [appends EXCEPT ![result.id] = result.error.name]
                  ELSE appends

Fail(c, e) == Finish(c, [op[c] EXCEPT !.error = e])

\* It failed on its connection, and tells the connection task of it or not.
FailReporting(c, how, e) ==
    /\ Report(how, op[c].handle.id, e)
    /\ redirected' = IF how = "handle_error" /\ e.name = "NotLeaderException"
                     THEN redirected \cup {op[c].handle.id} ELSE redirected
    /\ Fail(c, e)

Fault ==
    /\ faults < MaxFaults
    /\ faults' = faults + 1

\* A call its client has given up is lost, or carried out at some other time.
MayBeLate(c) ==
    \/ UNCHANGED late
    \/ CallOf(c).rpc \in Mutates /\ late' = late \cup {CallOf(c)}

-----------------------------------------------------------------------------

(* A client. *)

Issue(c, q) ==
    /\ op[c].at = Done
    /\ commands < MaxCommands
    /\ commands' = commands + 1
    /\ op' = [op EXCEPT ![c] = [Idle EXCEPT !.at = "selecting", !.asked = q, !.q = q,
                                            !.id = commands + 1]]
    /\ UNCHANGED <<server, late, connection, faults, appends, redirected>>

\* current_selected_node answers.
Selected(c) ==
    /\ op[c].at = "selecting"
    /\ LET route == Route(op[c].q, connection.node)
       IN  IF route = "unsupported"
           THEN Fail(c, Failure("UnsupportedFeature"))
           ELSE /\ op' = [op EXCEPT ![c].at = route, ![c].handle = connection]
                /\ UNCHANGED appends
    /\ UNCHANGED <<server, late, connection, commands, faults, redirected>>

SelectionFails(c) ==
    /\ op[c].at = "selecting"
    /\ Fault
    /\ Fail(c, Failure("GrpcConnectionError"))
    /\ UNCHANGED <<server, late, connection, commands, redirected>>

\* The call succeeded: the command goes on with its next call or its stream, or ends.
Succeed(c) ==
    LET q == op[c].q
        call == CallOf(c)
        infos == IF call.rpc \in listings
                 THEN Groups(server, call) ELSE {}
    IN  IF HasSecondCall(q)
        THEN /\ op' = [op EXCEPT ![c].at = "selecting", ![c].q = EmitEnabled]
             /\ UNCHANGED appends
        ELSE IF q.streamed
        THEN /\ \E contents \in Contents(server, call) :
                    op' = [op EXCEPT ![c].at = "open", ![c].rest = contents,
                                     ![c].items = <<>>,
                                     ![c].truth = Truth(server, call)]
             /\ UNCHANGED appends
        ELSE IF op[c].at = "grpc"
        THEN Finish(c, [op[c] EXCEPT !.infos = {try_from_info(g) : g \in infos},
                                     !.truth = infos])
        ELSE IF Parsable(infos)
        THEN Finish(c, [op[c] EXCEPT !.infos = {from_http_info(g) : g \in infos},
                                     !.truth = infos])
        ELSE Fail(c, Failure("InternalParsingError"))

\* Mutation of AppendAnswered: the answer in band is not looked at.
AppendAccepted(c, written) == Succeed(c)

\* WriteResult or WrongExpectedVersion.
AppendAnswered(c, written) ==
    IF written THEN Succeed(c) ELSE Fail(c, Failure("WrongExpectedVersion"))

\* The server carries the call out and answers it.
GrpcAnswered(c) ==
    /\ op[c].at = "grpc"
    /\ LET call == CallOf(c)
           reply == Reply(server, call)
       IN  /\ server' = Carried(server, call)
           /\ IF reply # Accepted
              THEN FailReporting(c, op[c].q.reports, from_grpc(reply))
              ELSE /\ AppendAnswered(c, ~WrongExpectedVersion(server, call))
                   /\ UNCHANGED <<connection, redirected>>
    /\ UNCHANGED <<late, commands, faults>>

\* The call is refused before it is carried out.
GrpcRefused(c) ==
    /\ op[c].at = "grpc"
    /\ Fault
    /\ \E code \in {"PermissionDenied", "Unimplemented"} :
        FailReporting(c, op[c].q.reports, from_grpc(Refused(code)))
    /\ UNCHANGED <<server, late, commands>>

\* The connection breaks under the call.
GrpcLost(c) ==
    /\ op[c].at = "grpc"
    /\ Fault
    /\ MayBeLate(c)
    /\ \E code \in {"Unavailable", "Cancelled"} :
        FailReporting(c, op[c].q.reports, from_grpc(Refused(code)))
    /\ UNCHANGED <<server, commands>>

\* The server, which reads the deadline in the request, ends the call or the stream
\* it opened when it passes; external.  No timer of the client does.
Expires(c) ==
    /\ op[c].at \in {"grpc", "open"}
    /\ Timed(op[c].q)
    /\ LET open == op[c].at = "open"
           how == IF open THEN op[c].q.streamReports ELSE op[c].q.reports
       IN  /\ IF open THEN UNCHANGED late ELSE MayBeLate(c)
           /\ \E code \in {"TimeoutExpired", "DeadlineExceeded"} :
                FailReporting(c, how, from_grpc(Refused(code)))
    /\ UNCHANGED <<server, commands, faults>>

\* Mutation of Content: the first content that is no event ends the stream.
ContentOrEnd(c) ==
    LET o == op[c]
        item == Head(o.rest)
        read == [o EXCEPT !.rest = Tail(@), !.items = Append(@, item.id)]
    IN  IF item.kind # "event" THEN Finish(c, o)
        ELSE IF o.q.takes # "all" THEN Finish(c, read)
        ELSE op' = [op EXCEPT ![c] = read] /\ UNCHANGED appends

\* ReadStream::next and the loop of statistics: an event, a content to skip, or
\* the stream that is not there.
Content(c) ==
    LET o == op[c]
        item == Head(o.rest)
        read == [o EXCEPT !.rest = Tail(@), !.items = Append(@, item.id)]
    IN  CASE item.kind = "event" /\ o.q.takes # "all" -> Finish(c, read)
          [] item.kind = "event" /\ o.q.takes = "all" ->
                op' = [op EXCEPT ![c] = read] /\ UNCHANGED appends
          [] item.kind = "not-found" -> Fail(c, Failure("ResourceNotFound"))
          [] OTHER -> op' = [op EXCEPT ![c].rest = Tail(@)] /\ UNCHANGED appends

StreamItem(c) ==
    /\ op[c].at = "open"
    /\ op[c].rest # <<>>
    /\ Content(c)
    /\ UNCHANGED <<server, late, connection, commands, faults, redirected>>

\* None.
StreamEnds(c) ==
    /\ op[c].at = "open"
    /\ op[c].rest = <<>>
    /\ Finish(c, op[c])
    /\ UNCHANGED <<server, late, connection, commands, faults, redirected>>

StreamFails(c) ==
    /\ op[c].at = "open"
    /\ Fault
    /\ \/ FailReporting(c, op[c].q.streamReports, from_grpc(Refused("Unavailable")))
       \/ \E n \in Node :
            FailReporting(c, op[c].q.streamReports,
                          from_grpc(Status("NotFound", "not-leader", n)))
    /\ UNCHANGED <<server, late, commands>>

\* The HTTP fallback: no deadline, no leader required, nobody told.
HttpAnswered(c) ==
    /\ op[c].at = "http"
    /\ LET reply == Reply(server, CallOf(c))
       IN  /\ server' = Carried(server, CallOf(c))
           /\ IF reply = Accepted THEN Succeed(c) ELSE Fail(c, http_error(reply.code))
    /\ UNCHANGED <<late, connection, commands, faults, redirected>>

HttpFails(c) ==
    /\ op[c].at = "http"
    /\ Fault
    /\ \E code \in {"Unauthenticated", "Internal", "Aborted"} : Fail(c, http_error(code))
    /\ UNCHANGED <<server, late, connection, commands, redirected>>

-----------------------------------------------------------------------------

(* The cluster. *)

CarryLate(call) ==
    /\ server' = Carried(server, call)
    /\ late' = late \ {call}
    /\ UNCHANGED <<connection, op, commands, faults, appends, redirected>>

Elect(n) ==
    /\ n # server.leader
    /\ Fault
    /\ server' = [server EXCEPT !.leader = n]
    /\ UNCHANGED <<late, connection, op, commands, appends, redirected>>

Client(c) ==
    \/ \E q \in Requests : Issue(c, q)
    \/ Selected(c) \/ SelectionFails(c)
    \/ GrpcAnswered(c) \/ GrpcRefused(c) \/ GrpcLost(c) \/ Expires(c)
    \/ StreamItem(c) \/ StreamEnds(c) \/ StreamFails(c)
    \/ HttpAnswered(c) \/ HttpFails(c)

Next ==
    \/ \E c \in Clients : Client(c)
    \/ \E call \in late : CarryLate(call)
    \/ \E n \in Node : Elect(n)

\* The connection task answers; a server need never answer, nor end a call.
FairSpec ==
    /\ Init /\ [][Next]_vars
    /\ \A c \in Clients : WF_vars(Selected(c))

-----------------------------------------------------------------------------

(* Properties. *)

\* What every variable holds: a command under way has a number of its own, and is
\* on the HTTP fallback or at a stream only if it is one that has such a thing.
TypeOK ==
    /\ server.leader \in Node \cup {NoNode}
    /\ connection \in [id : Nat \ {0}, node : Node]
    /\ commands \in 0..MaxCommands
    /\ faults \in 0..MaxFaults
    /\ redirected \subseteq 1..connection.id
    /\ \A c \in Clients :
        /\ op[c].at \in {Done, "selecting", "grpc", "http", "open"}
        /\ op[c].at = "http" => op[c].q.fallback
        /\ op[c].at = "open" => op[c].q.streamed
        /\ op[c].id \in 0..commands
        /\ op[c].handle.id \in 0..connection.id
        /\ \A d \in Clients \ {c} : op[c].id = 0 \/ op[c].id # op[d].id

\* The refusals that say nothing was written; a deadline or a lost connection is none.
NotWritten ==
    {"WrongExpectedVersion", "NotLeaderException", "ResourceDeleted", "AccessDenied",
     "UnsupportedFeature"}
Occurrences(i) == {k \in 1..Len(server.log) : server.log[k][2] = i}

\* append_to_stream tells the truth, for good: what it acknowledged is in the log
\* once, and what it refused outright is never written, not even by a call that
\* the server carries out after its client gave up.
AppendOutcomeIsTrue ==
    \A i \in 1..MaxCommands :
        /\ Cardinality(Occurrences(i)) <= 1
        /\ appends[i] = "none" => Occurrences(i) # {}
        /\ appends[i] \in NotWritten => Occurrences(i) = {}

\* A command that ended without an error.
Succeeded(c) == op[c].at = Done /\ op[c].id > 0 /\ op[c].error.name = "none"

\* A read that ends without an error has delivered every event the server had
\* when it answered, in order, whatever else the response stream carries.
ReadsAreComplete ==
    \A c \in Clients :
        Succeeded(c) /\ op[c].q.rpc = "Read" /\ op[c].q.takes = "all"
            => op[c].truth = {op[c].items}

\* A projection that was asked to emit does when its create has returned without an
\* error, unless someone else has changed it: the second call of create is neither
\* forgotten nor lost silently.
CreatedProjectionsEmit ==
    \A c \in Clients :
        /\ Succeeded(c)
        /\ op[c].asked.andThen = "UpdateProjection"
        /\ server.projection.exists
        /\ server.projection.by = op[c].id
        /\ ~server.projection.touched
        => server.projection.emit

\* The event number that an answer's starting position stands for.
StartsAt(position) ==
    CASE position.kind = "Start" -> 0
      [] position.kind = "End" -> -1
      [] position.kind = "Position" -> position.at

\* The listings and the info of a group are the server's, by gRPC and by HTTP, for
\* the groups that have processed something.
ListingsAreTheServers ==
    \A c \in Clients :
        Succeeded(c) /\ op[c].q.rpc \in listings =>
            /\ Cardinality(op[c].infos) = Cardinality(op[c].truth)
            /\ \A g \in op[c].truth : g.done >= 0 =>
                \E i \in op[c].infos :
                    /\ <<i.source, i.done, i.strategy>> = <<g.source, g.done, g.strategy>>
                    /\ StartsAt(i.from) = g.from

\* A command that the server redirects moves the client off its connection, for
\* every command that reports an error with the leader it names.
RedirectedConnectionIsLeft == connection.id \notin redirected

\* What the client leaves to the server: a call whose request carries a deadline is
\* ended when the deadline passes.
DeadlinesEnforced == \A c \in Clients : WF_vars(Expires(c))

\* Where deadlines are enforced, a command of the regular kind with no HTTP fallback
\* ends though it is never answered: its request carries a deadline even when
\* nobody set one.
Waits(c) ==
    op[c].at # Done /\ op[c].q.kind = "Regular" /\ ~op[c].q.fallback
RegularCommandsEnd ==
    DeadlinesEnforced => \A c \in Clients : Waits(c) ~> ~Waits(c)

===============================================================================
