----------------------------- MODULE CommandServer -----------------------------
(***************************************************************************)
(* The cluster as a command of the client sees it; external.  One log, one *)
(* consumer group a stream, one projection, one user.  A call names the    *)
(* node it was sent to and is carried out whole or refused with a status.  *)
(***************************************************************************)
EXTENDS Integers, Sequences, FiniteSets, SequencesExt

CONSTANTS
    Node, NoNode,
    Stream,       \* the names of streams
    All           \* $all

\* A gRPC status: its code, and what its "exception" and leader metadata say.
Status(code, exception, leader) ==
    [code |-> code, exception |-> exception, leader |-> leader]
Refused(code) == Status(code, "none", NoNode)
Accepted == Refused("Ok")

\* StreamState, as the revision it stands for or below it.
AnyRevision == -3
StreamExists == -2
NoStream == -1

\* The log holds <<stream, event>> pairs; a deleted stream starts after its last event.
Kept(events, e, stream) == IF e[1] = stream THEN Append(events, e) ELSE events
WrittenUpTo(s, stream) ==
    LET events[n \in 0..Len(s.log)] ==
            IF n = 0 THEN <<>> ELSE Kept(events[n - 1], s.log[n], stream)
    IN  events
Written(s, stream) == WrittenUpTo(s, stream)[Len(s.log)]
Revision(s, stream) == Len(Written(s, stream)) - 1
Readable(s, source) ==
    IF source = All
    THEN [i \in 1..Len(s.log) |-> s.log[i][2]]
    ELSE LET events == Written(s, source)
         IN  [i \in 1..(Len(events) - s.start[source]) |-> events[i + s.start[source]][2]]

\* What the cluster may hold: an event or a group of a stream that has a name,
\* one group a source, positions that are event numbers or the end.
IsCluster(s) ==
    /\ DOMAIN s =
          {"leader", "log", "start", "tombstoned", "groups", "projection", "user"}
    /\ s.leader \in Node \cup {NoNode}
    /\ s.log \in Seq(Stream \X Int)
    /\ s.start \in [Stream -> Nat]
    /\ s.tombstoned \subseteq Stream
    /\ IsFiniteSet(s.groups)
    /\ \A g \in s.groups :
          /\ DOMAIN g = {"source", "from", "done", "strategy"}
          /\ g.from \in Nat \cup {-1} /\ g.done \in Nat \cup {-1}
    /\ \A g, h \in s.groups : g.source = h.source => g = h
    /\ s.projection \in [exists : BOOLEAN, emit : BOOLEAN, by : Nat, touched : BOOLEAN]

Fits(s, call) ==
    \/ call.expected = AnyRevision
    \/ call.expected = StreamExists /\ Revision(s, call.source) > NoStream
    \/ call.expected = Revision(s, call.source)

Groups(s, call) ==
    {g \in s.groups : call.rpc = "ListAll" \/ g.source = call.source}

-----------------------------------------------------------------------------

Creates == {"CreateGroup", "CreateProjection", "CreateUser"}
GroupRpcs == {"UpdateGroup", "DeleteGroup", "GetInfo", "ReplayParked", "ListForStream"}
ProjectionRpcs ==
    {"UpdateProjection", "DeleteProjection", "EnableProjection", "DisableProjection",
     "ResetProjection", "ProjectionState", "ProjectionResult"}
UserRpcs ==
    {"UpdateUser", "DeleteUser", "EnableUser", "DisableUser", "ChangePassword",
     "ResetPassword", "UserDetails"}

\* Is there what the call is about?
Found(s, call) ==
    CASE call.rpc \in GroupRpcs \cup {"CreateGroup"} -> Groups(s, call) # {}
      [] call.rpc \in ProjectionRpcs \cup {"CreateProjection"} -> s.projection.exists
      [] call.rpc \in UserRpcs \cup {"CreateUser"} -> s.user
      [] OTHER -> TRUE

Reply(s, call) ==
    IF call.leader /\ call.node # s.leader
    THEN Status(IF s.leader = NoNode THEN "Unknown" ELSE "NotFound", "not-leader", s.leader)
    ELSE IF call.source \in s.tombstoned
    THEN Status("FailedPrecondition", "stream-deleted", NoNode)
    ELSE IF call.rpc \in Creates /\ Found(s, call) THEN Refused("AlreadyExists")
    ELSE IF call.rpc \notin Creates /\ ~Found(s, call) THEN Refused("NotFound")
    ELSE IF call.rpc \in {"Delete", "Tombstone"} /\ ~Fits(s, call)
    THEN Refused("FailedPrecondition")
    ELSE Accepted

\* An append that does not fit is answered in band.
WrongExpectedVersion(s, call) == call.rpc = "Append" /\ ~Fits(s, call)

\* A group from the call that creates or updates it.
Group(call, done) ==
    [source |-> call.source, from |-> call.from, done |-> done,
     strategy |-> call.strategy]

\* Anyone but the command that created the projection has touched it since.
Touches(s, call) == s.projection.touched \/ call.id # s.projection.by

Mutates ==
    {"Append", "Delete", "Tombstone", "UpdateGroup", "DeleteGroup", "UpdateProjection",
     "DeleteProjection", "DeleteUser", "resign_node"} \cup Creates

\* The cluster once it has carried out the call.
Carried(s, call) ==
    IF Reply(s, call) # Accepted \/ WrongExpectedVersion(s, call) THEN s
    ELSE
    CASE call.rpc = "Append" -> [s EXCEPT !.log = Append(@, <<call.source, call.id>>)]
      [] call.rpc = "Delete" ->
            [s EXCEPT !.start[call.source] = Len(Written(s, call.source))]
      [] call.rpc = "Tombstone" -> [s EXCEPT !.tombstoned = @ \cup {call.source}]
      [] call.rpc = "CreateGroup" -> [s EXCEPT !.groups = @ \cup {Group(call, -1)}]
      [] call.rpc = "UpdateGroup" ->
            [s EXCEPT !.groups = {g \in @ : g.source # call.source}
                                 \cup {Group(call, g.done) : g \in Groups(s, call)}]
      [] call.rpc = "DeleteGroup" -> [s EXCEPT !.groups = @ \ Groups(s, call)]
      [] call.rpc = "CreateProjection" ->
            [s EXCEPT !.projection =
                [exists |-> TRUE, emit |-> FALSE, by |-> call.id, touched |-> FALSE]]
      [] call.rpc = "UpdateProjection" ->
            [s EXCEPT !.projection.emit = IF call.emit = "none" THEN @ ELSE call.emit = "on",
                      !.projection.touched = Touches(s, call)]
      [] call.rpc = "DeleteProjection" ->
            [s EXCEPT !.projection.exists = FALSE, !.projection.touched = TRUE]
      [] call.rpc \in {"CreateUser", "DeleteUser"} ->
            [s EXCEPT !.user = call.rpc = "CreateUser"]
      [] call.rpc = "resign_node" ->
            [s EXCEPT !.leader = IF @ = call.node THEN NoNode ELSE @]
      [] OTHER -> s

\* What a stream of answers carries: the events of a read, with the position of
\* the stream's last event somewhere among them, or the one status or user asked for.
Event(id) == [kind |-> "event", id |-> id]
Position == [kind |-> "position", id |-> 0]
NotFound == [kind |-> "not-found", id |-> 0]

Contents(s, call) ==
    CASE call.rpc = "Read" ->
            LET events == Readable(s, call.source)
                items == [i \in 1..Len(events) |-> Event(events[i])]
            IN  IF events = <<>> /\ call.source # All
                THEN {<<NotFound>>}
                ELSE {items} \cup {InsertAt(items, i, Position) : i \in 1..(Len(items) + 1)}
      [] call.rpc = "Statistics" ->
            {IF s.projection.exists THEN <<Event(s.projection.by)>> ELSE <<>>}
      [] OTHER -> {<<Event(0)>>}

\* What a complete read returns.
Truth(s, call) == {Readable(s, source) : source \in {call.source} \cap ({All} \cup DOMAIN s.start)}

===============================================================================
