---------------------------- MODULE CommandsProofs -----------------------------
(***************************************************************************)
(* What holds of the commands for any requests, clients, nodes and servers.*)
(***************************************************************************)
EXTENDS Commands, FiniteSetTheorems, FunctionTheorems, SequenceTheorems,
        WellFoundedInduction, TLAPS

\* A request a client may be at: one of those it is given, or the call after it.
AnyRequest == Requests \cup {NoRequest, EmitEnabled}

\* The call of a request: the number of its command, the node it is sent to.
Call(q, i, n, leader) ==
    [rpc |-> q.rpc, source |-> q.source, expected |-> q.expected, from |-> q.from,
     strategy |-> q.strategy, emit |-> q.emit, id |-> i, node |-> n, leader |-> leader]

\* What a client holds: a command under way has a number and no error yet.
OpIs(o) ==
    /\ DOMAIN o = DOMAIN Idle
    /\ o.at \in {Done, "selecting", "grpc", "http", "open"}
    /\ o.q \in AnyRequest
    /\ o.id \in 0..commands
    /\ o.handle.id \in 0..connection.id
    /\ o.at # Done => o.id # 0 /\ o.error = Failure("none")
    /\ o.at \in {"grpc", "http", "open"} => o.handle.id # 0
    /\ o.at = "http" => o.q.fallback
    /\ o.at = "open" => o.q.streamed
OpShape ==
    /\ op = [c \in Clients |-> op[c]]
    /\ \A c \in Clients : OpIs(op[c])
    /\ \A c, d \in Clients : op[c].id = op[d].id => c = d \/ op[c].id = 0

\* A call as a client may make it.
IsCall(call) ==
    \E q \in AnyRequest, i \in Nat : \E n, leader : call = Call(q, i, n, leader)

\* What the servers hold: the sizes and numbers that commands made.
ServerShape ==
    /\ IsCluster(server)
    /\ \A g \in server.groups : g.done < WordSize
    /\ server.projection.by \in 0..commands

\* A call given up is that of a command that ended with an error, and the only one of it.
LateShape ==
    /\ \A call \in late :
        /\ call.id \in 1..commands
        /\ IsCall(call)
        /\ \A c \in Clients : op[c].id = call.id =>
            /\ op[c].at = Done /\ op[c].error.name # "none"
            /\ op[c].q.rpc = call.rpc
    /\ \A a, b \in late : a.id = b.id => a = b

\* The connection the client is at is none it was redirected from.
Link ==
    /\ connection \in [id : Nat \ {0}, node : Node]
    /\ redirected \subseteq 1..connection.id
    /\ RedirectedConnectionIsLeft

Shape ==
    /\ commands \in 0..MaxCommands /\ faults \in 0..MaxFaults
    /\ Link /\ OpShape /\ ServerShape /\ LateShape

\* The events that were written.
WrittenIds == {server.log[k][2] : k \in 1..Len(server.log)}

\* An event is in the log once; one that nobody can write yet is not in it.
AppendInv ==
    /\ appends = [i \in 1..MaxCommands |-> appends[i]]
    /\ \A i \in 1..MaxCommands : i > commands => i \notin WrittenIds /\ appends[i] = "open"
    /\ \A c \in Clients : op[c].at # Done /\ op[c].q.rpc = "Append" =>
          op[c].id \notin WrittenIds /\ appends[op[c].id] = "open"
    /\ \A call \in late : call.rpc = "Append" =>
          call.id \notin WrittenIds /\ appends[call.id] \notin NotWritten \cup {"none"}
    /\ \A k, l \in 1..Len(server.log) :
          server.log[k][2] = server.log[l][2] /\ server.log[k][2] \in 1..MaxCommands => k = l
    /\ \A i \in 1..MaxCommands :
          /\ appends[i] = "none" => i \in WrittenIds
          /\ appends[i] \in NotWritten => i \notin WrittenIds

\* A command that updates the projection p of its own creation makes it emit, and
\* once it has done so without an error the projection does, if nobody touched it.
WillEmit(o, p) ==
    o.q.rpc = "UpdateProjection" => o.id # p.by \/ o.id = 0 \/ o.q.emit = "on"
HasEmit(o, p) ==
    /\ o.at = Done /\ o.id # 0 /\ o.error.name = "none" /\ o.q.rpc = "UpdateProjection"
    /\ p.exists /\ p.by = o.id /\ ~p.touched
    => p.emit
CallWillEmit(call, p) == call.rpc = "UpdateProjection" => call.id # p.by \/ call.emit = "on"
ProjectionInv ==
    /\ \A c \in Clients : WillEmit(op[c], server.projection) /\ HasEmit(op[c], server.projection)
    /\ \A call \in late : CallWillEmit(call, server.projection)

\* A command is at what was asked for, or at the update that follows it; one that has
\* come further than the answer of its call has no other call to make.
SecondCallInv ==
    \A c \in Clients :
        /\ op[c].asked.andThen = "none" \/ op[c].q.rpc = "UpdateProjection"
           \/ op[c].q = op[c].asked
        /\ op[c].at = "open" => op[c].q.andThen = "none"
        /\ Succeeded(c) => op[c].q.andThen = "none"

\* What a response carries after n events of t: the others, in their order, and
\* perhaps a position somewhere among them.
ContentItem == [kind : {"event", "position", "not-found"}, id : Int]
Straight(rest, t, n) ==
    /\ Len(rest) = Len(t) - n
    /\ \A k \in 1..Len(rest) : rest[k] = Event(t[n + k])
Around(rest, t, n, p) ==
    /\ Len(rest) = Len(t) - n + 1
    /\ p \in 1..Len(rest) /\ rest[p] = Position
    /\ \A k \in 1..(p - 1) : rest[k] = Event(t[n + k])
    /\ \A k \in (p + 1)..Len(rest) : rest[k] = Event(t[n + k - 1])
Remaining(rest, t, n) ==
    /\ rest \in Seq(ContentItem)
    /\ Straight(rest, t, n) \/ \E p \in 1..Len(rest) : Around(rest, t, n, p)

\* What was read is the first events of t, what is left the others.
Reading(items, rest, t) ==
    \/ rest = <<NotFound>>
    \/ /\ items \in Seq(Int) /\ Len(items) <= Len(t)
       /\ \A k \in 1..Len(items) : items[k] = t[k]
       /\ Remaining(rest, t, Len(items))
ReadInv ==
    /\ \A c \in Clients :
        op[c].at = "open" /\ op[c].q.rpc = "Read" =>
            \E t \in Seq(Int) : op[c].truth = {t} /\ Reading(op[c].items, op[c].rest, t)
    /\ \A c \in Clients :
        /\ op[c].at = Done /\ op[c].id # 0 /\ op[c].error.name = "none"
        /\ op[c].q.rpc = "Read" /\ op[c].q.takes = "all"
        => op[c].truth = {op[c].items}

-----------------------------------------------------------------------------
(* The requests. *)

RequestFields ==
    {"rpc", "kind", "source", "expected", "from", "strategy", "emit", "takes", "andThen",
     "streamed", "toAll", "fallback", "http", "reports", "streamReports", "leader",
     "deadline"}

\* What a request is known to be, by the call it makes.
LEMMA RequestIs ==
    ASSUME NEW q \in AnyRequest
    PROVE  /\ q.rpc = "Append" =>
                ~q.streamed /\ ~q.fallback /\ q.andThen = "none" /\ q.source \in Stream
           /\ q.rpc = "Read" =>
                q.streamed /\ q.andThen = "none" /\ q.source \in Stream \cup {All}
           /\ q.rpc \in listings => ~q.streamed /\ q.andThen = "none"
           /\ q.rpc = "UpdateProjection" =>
                ~q.streamed /\ ~q.fallback /\ q.andThen = "none"
           /\ q.rpc \in {"Delete", "Tombstone"} => q.source \in Stream
           /\ q.rpc \in {"CreateGroup", "UpdateGroup"} => q.from \in Nat \cup {-1}
<1>1. CASE q \in {NoRequest, EmitEnabled}
  BY <1>1 DEF NoRequest, EmitEnabled, update_projection, Projection, Request, listings
<1>2. CASE q \in Requests
  <2>1. ASSUME q.rpc = "Append"
        PROVE  ~q.streamed /\ ~q.fallback /\ q.andThen = "none" /\ q.source \in Stream
    <3>1. q = append_to_stream(q.source, q.expected) /\ q.source \in Stream
      BY <1>2, <2>1, RequestsAssumption
    <3>2. PICK s, e : q = append_to_stream(s, e)
      BY <3>1
    <3> QED
      BY <3>1, <3>2 DEF append_to_stream, Request
  <2>2. ASSUME q.rpc = "Read"
        PROVE  q.streamed /\ q.andThen = "none" /\ q.source \in Stream \cup {All}
    <3>1. /\ q = [read_stream(q.source) EXCEPT !.takes = q.takes]
          /\ q.source \in Stream \cup {All}
      BY <1>2, <2>2, RequestsAssumption
    <3>2. PICK s, e : q = [read_stream(s) EXCEPT !.takes = e]
      BY <3>1
    <3> QED
      BY <3>1, <3>2 DEF read_stream, Request
  <2>3. ASSUME q.rpc \in listings
        PROVE  ~q.streamed /\ q.andThen = "none"
    <3>1. q = Managed(Request(q.rpc, "Regular", q.source))
      BY <1>2, <2>3, RequestsAssumption
    <3>2. PICK r, s : q = Managed(Request(r, "Regular", s))
      BY <3>1
    <3> QED
      BY <3>2 DEF Managed, ToAll, Request
  <2>4. ASSUME q.rpc = "UpdateProjection"
        PROVE  ~q.streamed /\ ~q.fallback /\ q.andThen = "none"
    <3>1. q = update_projection(q.emit)
      BY <1>2, <2>4, RequestsAssumption
    <3>2. PICK e : q = update_projection(e)
      BY <3>1
    <3> QED
      BY <3>2 DEF update_projection, Projection, Request
  <2> QED
    BY <1>2, <2>1, <2>2, <2>3, <2>4, RequestsAssumption
<1> QED
  BY <1>1, <1>2 DEF AnyRequest

LEMMA CallOfIs ==
    ASSUME NEW c \in Clients
    PROVE  CallOf(c) = Call(op[c].q, op[c].id, op[c].handle.node,
                            op[c].at # "http" /\ RequiresLeader(op[c].q))
BY DEF CallOf, Call

LEMMA CallIs ==
    ASSUME NEW q, NEW i, NEW n, NEW leader
    PROVE  LET call == Call(q, i, n, leader)
           IN  /\ call.rpc = q.rpc /\ call.source = q.source /\ call.expected = q.expected
               /\ call.from = q.from /\ call.strategy = q.strategy /\ call.emit = q.emit
               /\ call.id = i /\ call.node = n
BY DEF Call

-----------------------------------------------------------------------------
(* The events of a stream. *)

\* A set of numbers that is not empty has a least one: by this a property of every
\* number is proved from its least counterexample.
LEMMA LeastNumber ==
    ASSUME NEW T \in SUBSET Nat, T # {}
    PROVE  \E n \in T : \A m \in T : n <= m
<1>1. PICK n \in T : \A m \in T : <<m, n>> \notin OpToRel(<, Nat)
  BY NatLessThanWellFounded, WFMin, Zenon
<1>2. \A m \in T : ~(m < n)
  BY <1>1 DEF OpToRel
<1> QED
  BY <1>2

\* f is the stream's events among the first n of the log, for each n.
IsWritten(f, log, stream, n) ==
    f = [k \in 0..n |-> IF k = 0 THEN <<>> ELSE Kept(f[k - 1], log[k], stream)]

LEMMA WrittenExists ==
    ASSUME NEW log, NEW stream, NEW n \in Nat
    PROVE  \E f : IsWritten(f, log, stream, n)
<1> DEFINE T == {m \in Nat : \A f : ~IsWritten(f, log, stream, m)}
<1> SUFFICES ASSUME T # {} PROVE FALSE
  OBVIOUS
<1>1. PICK m \in T : \A k \in T : m <= k
  <2>1. T \in SUBSET Nat
    OBVIOUS
  <2> QED
    BY <2>1, LeastNumber
<1>2. m \in Nat /\ \A f : ~IsWritten(f, log, stream, m)
  BY <1>1
<1>3. m # 0
  <2>1. IsWritten([k \in 0..0 |-> <<>>], log, stream, 0)
    BY DEF IsWritten
  <2> QED
    BY <1>2, <2>1
<1>4. PICK f : IsWritten(f, log, stream, m - 1)
  <2>1. m - 1 \in Nat /\ ~(m <= m - 1)
    BY <1>2, <1>3
  <2>2. m - 1 \notin T
    BY <1>1, <2>1
  <2> QED
    BY <2>1, <2>2
<1> DEFINE g == [k \in 0..m |-> IF k = m THEN Kept(f[m - 1], log[m], stream) ELSE f[k]]
<1>5. ASSUME NEW k \in 0..m
      PROVE  g[k] = IF k = 0 THEN <<>> ELSE Kept(g[k - 1], log[k], stream)
  <2>1. CASE k = m
    <3>1. m - 1 \in 0..m /\ m - 1 # m
      BY <1>2, <1>3
    <3>2. g[m - 1] = f[m - 1]
      BY <3>1
    <3> QED
      BY <1>3, <2>1, <3>2
  <2>2. CASE k # m
    <3>1. k \in 0..(m - 1) /\ g[k] = f[k]
      BY <1>2, <2>2
    <3>2. f[k] = IF k = 0 THEN <<>> ELSE Kept(f[k - 1], log[k], stream)
      BY <1>4, <3>1 DEF IsWritten
    <3>3. k # 0 => k - 1 \in 0..m /\ k - 1 # m
      BY <1>2, <2>2
    <3> QED
      BY <3>1, <3>2, <3>3
  <2> QED
    BY <2>1, <2>2
<1>6. IsWritten(g, log, stream, m)
  BY <1>5 DEF IsWritten
<1> QED
  BY <1>2, <1>6

LEMMA WrittenIs ==
    ASSUME NEW s, s.log \in Seq(Stream \X Int), NEW stream
    PROVE  Written(s, stream) \in Seq(Stream \X Int)
<1> PICK n \in Nat : n = Len(s.log)
  OBVIOUS
<1>1. PICK f : f = WrittenUpTo(s, stream)
  OBVIOUS
<1>2. IsWritten(f, s.log, stream, n)
  <2>1. PICK g : IsWritten(g, s.log, stream, n)
    BY WrittenExists
  <2> QED
    BY <1>1, <2>1 DEF WrittenUpTo, IsWritten
<1> DEFINE T == {k \in 0..n : f[k] \notin Seq(Stream \X Int)}
<1>3. T = {}
  <2> SUFFICES ASSUME T # {} PROVE FALSE
    OBVIOUS
  <2>1. PICK k \in T : \A j \in T : k <= j
    <3>1. T \in SUBSET Nat
      OBVIOUS
    <3> QED
      BY <3>1, LeastNumber
  <2>2. k \in 0..n /\ f[k] \notin Seq(Stream \X Int)
    BY <2>1
  <2>3. f[k] = IF k = 0 THEN <<>> ELSE Kept(f[k - 1], s.log[k], stream)
    BY <1>2, <2>2 DEF IsWritten
  <2>4. k # 0
    <3>1. <<>> \in Seq(Stream \X Int)
      OBVIOUS
    <3> QED
      BY <2>2, <2>3, <3>1
  <2>5. k - 1 \in 0..n /\ ~(k <= k - 1) /\ k \in 1..n
    BY <2>2, <2>4
  <2>6. k - 1 \notin T
    BY <2>1, <2>5
  <2>7. f[k - 1] \in Seq(Stream \X Int) /\ s.log[k] \in Stream \X Int
    BY <2>5, <2>6
  <2>8. Kept(f[k - 1], s.log[k], stream) \in Seq(Stream \X Int)
    BY <2>7, AppendProperties DEF Kept
  <2> QED
    BY <2>2, <2>3, <2>4, <2>8
<1>4. n \in 0..n
  OBVIOUS
<1> HIDE DEF T
<1>5. f[n] \in Seq(Stream \X Int)
  BY <1>3, <1>4 DEF T
<1> QED
  BY <1>1, <1>5 DEF Written

-----------------------------------------------------------------------------
(* The server. *)

\* What carrying a call out does to each part of the cluster.
\* Was the call carried out?
Taken(s, call) == Reply(s, call) = Accepted /\ ~WrongExpectedVersion(s, call)

LEMMA CallShape ==
    ASSUME NEW call, IsCall(call)
    PROVE  /\ call.id \in Nat
           /\ call.rpc \in {"Append", "Delete", "Tombstone"} => call.source \in Stream
           /\ call.rpc \in {"CreateGroup", "UpdateGroup"} => call.from \in Nat \cup {-1}
<1>1. PICK q \in AnyRequest, i \in Nat : \E n, leader : call = Call(q, i, n, leader)
  BY DEF IsCall
<1> PICK n, leader : call = Call(q, i, n, leader)
  BY <1>1
<1> QED
  BY CallIs, RequestIs

LEMMA CarriedLog ==
    ASSUME NEW s, IsCluster(s), NEW call
    PROVE  Carried(s, call).log = IF call.rpc = "Append" /\ Taken(s, call)
                                  THEN Append(s.log, <<call.source, call.id>>) ELSE s.log
BY DEF Carried, IsCluster, Taken

\* The creation of a projection is its command's; nothing else is.
LEMMA ProjectionCreated ==
    ASSUME NEW s, IsCluster(s), NEW call, call.rpc = "CreateProjection", Taken(s, call)
    PROVE  /\ Carried(s, call).projection.by = call.id
           /\ Carried(s, call).projection =
                [exists |-> TRUE, emit |-> FALSE, by |-> call.id, touched |-> FALSE]
BY DEF Carried, IsCluster, Taken

LEMMA ProjectionUpdated ==
    ASSUME NEW s, IsCluster(s), NEW call, call.rpc = "UpdateProjection", Taken(s, call)
    PROVE  /\ Carried(s, call).projection.exists = s.projection.exists
           /\ Carried(s, call).projection.by = s.projection.by
           /\ call.emit = "on" => Carried(s, call).projection.emit
           /\ Carried(s, call).projection.touched <=> Touches(s, call)
BY DEF Carried, IsCluster, Taken

LEMMA ProjectionLeft ==
    ASSUME NEW s, IsCluster(s), NEW call, NEW p, p = s.projection,
           ~(call.rpc \in {"CreateProjection", "UpdateProjection"} /\ Taken(s, call))
    PROVE  \/ Carried(s, call).projection = p
           \/ Carried(s, call).projection = [p EXCEPT !.exists = FALSE, !.touched = TRUE]
BY DEF Carried, IsCluster, Taken

LEMMA CarriedGroups ==
    ASSUME NEW s, IsCluster(s), NEW call, call.rpc \in {"CreateGroup", "UpdateGroup"} => call.from \in Nat \cup {-1}
    PROVE  LET t == Carried(s, call)
           IN  /\ IsFiniteSet(t.groups)
               /\ \A g \in t.groups :
                    /\ DOMAIN g = {"source", "from", "done", "strategy"}
                    /\ g.from \in Nat \cup {-1}
                    /\ g.done = -1 \/ \E h \in s.groups : g.done = h.done
               /\ \A g, h \in t.groups : g.source = h.source => g = h
<1> DEFINE t == Carried(s, call)
<1>1. CASE t.groups = s.groups
  BY <1>1 DEF IsCluster
<1>2. CASE call.rpc = "CreateGroup" /\ Taken(s, call)
  <2>1. Found(s, call) <=> Groups(s, call) # {}
    BY <1>2 DEF Found, ProjectionRpcs, UserRpcs
  <2>5. ~Found(s, call)
    BY <1>2 DEF Taken, Reply, Creates, Accepted, Refused, Status
  <2>6. Groups(s, call) = {}
    BY <2>1, <2>5
  <2>2. t.groups = s.groups \cup {Group(call, -1)}
    BY <1>2 DEF Carried, IsCluster, Taken
  <2>3. \A g \in s.groups : g.source # call.source
    BY <1>2, <2>6 DEF Groups
  <2>4. IsFiniteSet(t.groups)
    BY <2>2, FS_AddElement DEF IsCluster
  <2> QED
    BY <1>2, <2>2, <2>3, <2>4 DEF IsCluster, Group
<1>3. CASE call.rpc = "UpdateGroup" /\ Taken(s, call)
  <2>1. t.groups = {g \in s.groups : g.source # call.source}
                     \cup {Group(call, g.done) : g \in Groups(s, call)}
    BY <1>3 DEF Carried, IsCluster, Taken
  <2>2. IsFiniteSet(t.groups)
    <3>1. IsFiniteSet({g \in s.groups : g.source # call.source}) /\ IsFiniteSet(Groups(s, call))
      BY FS_Subset DEF IsCluster, Groups
    <3>2. IsFiniteSet({Group(call, g.done) : g \in Groups(s, call)})
      <4>1. CASE Groups(s, call) = {}
        <5>1. {Group(call, g.done) : g \in Groups(s, call)} = {}
          BY <4>1
        <5> QED
          BY <5>1, FS_EmptySet
      <4>2. ASSUME NEW h \in Groups(s, call)
            PROVE  IsFiniteSet({Group(call, g.done) : g \in Groups(s, call)})
        <5>1. \A g \in Groups(s, call) : g = h
          BY <1>3 DEF Groups, IsCluster
        <5>2. {Group(call, g.done) : g \in Groups(s, call)} = {Group(call, h.done)}
          BY <5>1
        <5> QED
          BY <5>2, FS_Singleton
      <4> QED
        BY <4>1, <4>2
    <3> PICK A, B : /\ A = {g \in s.groups : g.source # call.source}
                    /\ B = {Group(call, g.done) : g \in Groups(s, call)}
      OBVIOUS
    <3>3. IsFiniteSet(A \cup B)
      BY <3>1, <3>2, FS_Union
    <3> QED
      BY <2>1, <3>3
  <2>3. \A g \in Groups(s, call) : g \in s.groups /\ g.source = call.source
    BY <1>3 DEF Groups
  <2> QED
    BY <1>3, <2>1, <2>2, <2>3 DEF IsCluster, Group
<1>4. CASE call.rpc = "DeleteGroup" /\ Taken(s, call)
  <2>1. t.groups = s.groups \ Groups(s, call)
    BY <1>4 DEF Carried, IsCluster, Taken
  <2>2. IsFiniteSet(t.groups)
    BY <2>1, FS_Subset DEF IsCluster
  <2> QED
    BY <2>1, <2>2 DEF IsCluster
<1>5. t.groups = s.groups \/ (call.rpc \in {"CreateGroup", "UpdateGroup", "DeleteGroup"} /\ Taken(s, call))
  BY DEF Carried, IsCluster, Taken, Creates
<1> QED
  BY <1>1, <1>2, <1>3, <1>4, <1>5

\* What the cluster holds is of the same kind once it has carried out a call.
LEMMA ClusterStays ==
    ASSUME NEW s, IsCluster(s), NEW call, IsCall(call)
    PROVE  IsCluster(Carried(s, call))
<1> PICK t : t = Carried(s, call)
  OBVIOUS
<1>1. DOMAIN t = DOMAIN s
  BY DEF Carried
<1>2. t.leader \in Node \cup {NoNode}
  BY DEF Carried, IsCluster
<1>3. t.log \in Seq(Stream \X Int)
  <2>1. CASE call.rpc = "Append" /\ Taken(s, call)
    <3>1. t.log = Append(s.log, <<call.source, call.id>>)
      BY <2>1, CarriedLog
    <3>2. <<call.source, call.id>> \in Stream \X Int
      BY <2>1, CallShape
    <3> QED
      BY <3>1, <3>2, AppendProperties DEF IsCluster
  <2>2. CASE ~(call.rpc = "Append" /\ Taken(s, call))
    BY <2>2, CarriedLog DEF IsCluster
  <2> QED
    BY <2>1, <2>2
<1>4. t.start \in [Stream -> Nat]
  <2>1. t.start = IF call.rpc = "Delete" /\ Taken(s, call)
                  THEN [s.start EXCEPT ![call.source] = Len(Written(s, call.source))]
                  ELSE s.start
    BY DEF Carried, IsCluster, Taken
  <2>2. Len(Written(s, call.source)) \in Nat
    BY WrittenIs DEF IsCluster
  <2> PICK n \in Nat : n = Len(Written(s, call.source))
    BY <2>2
  <2> PICK old : old = s.start
    OBVIOUS
  <2>3. old \in [Stream -> Nat]
    BY DEF IsCluster
  <2>4. t.start = old \/ t.start = [old EXCEPT ![call.source] = n]
    BY <2>1
  <2> QED
    BY <2>3, <2>4
<1>5. t.tombstoned \subseteq Stream
  BY CallShape DEF Carried, IsCluster
<1>6. /\ IsFiniteSet(t.groups)
      /\ \A g \in t.groups :
            /\ DOMAIN g = {"source", "from", "done", "strategy"}
            /\ g.from \in Nat \cup {-1}
            /\ g.done = -1 \/ \E h \in s.groups : g.done = h.done
      /\ \A g, h \in t.groups : g.source = h.source => g = h
  BY CarriedGroups, CallShape
<1>7. \A g \in t.groups : g.done \in Nat \cup {-1}
  BY <1>6 DEF IsCluster
<1>8. t.projection \in [exists : BOOLEAN, emit : BOOLEAN, by : Nat, touched : BOOLEAN]
  <2> PICK p : p = s.projection
    OBVIOUS
  <2>1. p \in [exists : BOOLEAN, emit : BOOLEAN, by : Nat, touched : BOOLEAN]
    BY DEF IsCluster
  <2>2. CASE call.rpc = "CreateProjection" /\ Taken(s, call)
    <3>1. t.projection = [exists |-> TRUE, emit |-> FALSE, by |-> call.id, touched |-> FALSE]
      BY <2>2, ProjectionCreated
    <3>2. call.id \in Nat
      BY CallShape
    <3> QED
      BY <3>1, <3>2
  <2>3. CASE call.rpc = "UpdateProjection" /\ Taken(s, call)
    <3>1. t.projection = [p EXCEPT !.emit = IF call.emit = "none" THEN @ ELSE call.emit = "on",
                                   !.touched = Touches(s, call)]
      BY <2>3 DEF Carried, IsCluster, Taken
    <3>2. Touches(s, call) \in BOOLEAN
      BY DEF Touches
    <3> QED
      BY <2>1, <3>1, <3>2
  <2>4. CASE ~(call.rpc \in {"CreateProjection", "UpdateProjection"} /\ Taken(s, call))
    <3>1. \/ t.projection = p
          \/ t.projection = [p EXCEPT !.exists = FALSE, !.touched = TRUE]
      BY <2>4, ProjectionLeft
    <3> QED
      BY <2>1, <3>1
  <2> QED
    BY <2>2, <2>3, <2>4
<1> QED
  BY <1>1, <1>2, <1>3, <1>4, <1>5, <1>6, <1>7, <1>8 DEF IsCluster

LEMMA NotTaken ==
    ASSUME NEW s, NEW call, ~Taken(s, call)
    PROVE  Carried(s, call) = s
BY DEF Taken, Carried

LEMMA ListingIsTaken ==
    ASSUME NEW s, NEW call, call.rpc \in listings
    PROVE  Carried(s, call) = s
BY DEF Carried, listings

-----------------------------------------------------------------------------
(* The errors. *)

LEMMA ErrorNames ==
    /\ \A s : from_grpc(s).name # "none"
    /\ \A code \in {"Unavailable", "Cancelled", "TimeoutExpired", "DeadlineExceeded"} :
          from_grpc(Refused(code)).name \notin NotWritten
    /\ \A code : http_error(code).name # "none"
<1>1. \A code : CodeError(code) # "none"
  BY DEF CodeError
<1>2. \A s : from_grpc(s).name # "none"
  BY <1>1 DEF from_grpc, Failure, Error
<1>3. ASSUME NEW code \in {"Unavailable", "Cancelled", "TimeoutExpired", "DeadlineExceeded"}
      PROVE  from_grpc(Refused(code)).name \notin NotWritten
  BY DEF from_grpc, Refused, Status, Failure, Error, CodeError, NotWritten
<1>4. \A code : http_error(code).name # "none"
  BY DEF http_error, Failure, Error
<1> QED
  BY <1>2, <1>3, <1>4

-----------------------------------------------------------------------------
(* What a step of a client may be. *)

Become(c, o) == op' = [op EXCEPT ![c] = o]

\* The command is routed to the current connection.
Routes(c) ==
    /\ op[c].at = "selecting"
    /\ \E route \in {"grpc", "http"} :
          /\ route = "http" => op[c].q.fallback
          /\ Become(c, [op[c] EXCEPT !.at = route, !.handle = connection])
    /\ UNCHANGED <<server, late, commands, appends>>

\* It ends with an error; the server has done nothing, and may do so yet if the
\* error leaves that open.
EndsWith(c, e) ==
    /\ op[c].at # Done /\ e.name # "none"
    /\ Fail(c, e)
    /\ UNCHANGED <<server, commands>>
    /\ \/ late' = late
       \/ /\ late' = late \cup {CallOf(c)}
          /\ e.name \notin NotWritten /\ op[c].at = "grpc"
Ends(c) == \E e : EndsWith(c, e)

\* The server carries the call out and accepts it.
Accepts(c) ==
    /\ op[c].at \in {"grpc", "http"}
    /\ server' = Carried(server, CallOf(c)) /\ Taken(server, CallOf(c))
    /\ UNCHANGED <<late, commands>>

Continues(c) ==
    /\ Accepts(c)
    /\ Become(c, [op[c] EXCEPT !.at = "selecting", !.q = EmitEnabled])
    /\ UNCHANGED appends /\ op[c].q.andThen # "none"

Opens(c) ==
    /\ Accepts(c)
    /\ \E contents \in Contents(server, CallOf(c)) :
          Become(c, [op[c] EXCEPT !.at = "open", !.rest = contents, !.items = <<>>,
                                  !.truth = Truth(server, CallOf(c))])
    /\ UNCHANGED appends /\ op[c].q.streamed /\ op[c].q.andThen = "none"

\* How a group is answered: by gRPC or by HTTP.
InfoOf(c, g) == IF op[c].at = "grpc" THEN try_from_info(g) ELSE from_http_info(g)
InfosOf(c) == IF op[c].q.rpc \in listings THEN Groups(server, CallOf(c)) ELSE {}

Completes(c) ==
    /\ Accepts(c)
    /\ Finish(c, [op[c] EXCEPT !.infos = {InfoOf(c, g) : g \in InfosOf(c)},
                               !.truth = InfosOf(c)])
    /\ ~op[c].q.streamed /\ op[c].q.andThen = "none"

\* A content of the stream is taken, or the stream is left without an error.
Reads(c) ==
    /\ op[c].at = "open" /\ op[c].rest # <<>> /\ Head(op[c].rest).kind # "not-found"
    /\ Become(c, [op[c] EXCEPT
                    !.rest = Tail(op[c].rest),
                    !.items = IF Head(op[c].rest).kind = "event"
                              THEN Append(op[c].items, Head(op[c].rest).id)
                              ELSE op[c].items])
    /\ UNCHANGED <<server, late, commands, appends>>
Closes(c) ==
    /\ op[c].at = "open"
    /\ \/ op[c].rest = <<>> /\ Finish(c, op[c])
       \/ op[c].q.takes # "all" /\ \E items : Finish(c, [op[c] EXCEPT !.items = items])
    /\ UNCHANGED <<server, late, commands>>

ClientStep(c) ==
    \/ \E q \in Requests : Issue(c, q)
    \/ Routes(c) \/ Ends(c)
    \/ Continues(c) \/ Opens(c) \/ Completes(c)
    \/ Reads(c) \/ Closes(c)

\* Every step of a client is one of these.
LEMMA SelectionSteps ==
    ASSUME Shape, NEW c \in Clients, Selected(c) \/ SelectionFails(c)
    PROVE  ClientStep(c)
<1>1. DOMAIN op[c] = DOMAIN Idle /\ op = [d \in Clients |-> op[d]]
  BY DEF Shape, OpShape, OpIs
<1>2. CASE Selected(c) /\ Route(op[c].q, connection.node) = "unsupported"
  <2>1. EndsWith(c, Failure("UnsupportedFeature"))
    BY <1>2 DEF Selected, EndsWith, Failure, Error, Done
  <2> QED
    BY <2>1 DEF ClientStep, Ends
<1>3. CASE Selected(c) /\ Route(op[c].q, connection.node) # "unsupported"
  <2> PICK route : route = Route(op[c].q, connection.node)
    OBVIOUS
  <2>1. route \in {"grpc", "http"} /\ (route = "http" => op[c].q.fallback)
    BY <1>3 DEF Route
  <2>2. op' = [op EXCEPT ![c].at = route, ![c].handle = connection]
    BY <1>3 DEF Selected
  <2>3. op' = [op EXCEPT ![c] = [op[c] EXCEPT !.at = route, !.handle = connection]]
    BY <1>1, <2>2 DEF Idle
  <2>4. Routes(c)
    BY <1>3, <2>1, <2>3 DEF Routes, Become, Selected
  <2> QED
    BY <2>4 DEF ClientStep
<1>4. CASE SelectionFails(c)
  <2>1. EndsWith(c, Failure("GrpcConnectionError"))
    BY <1>4 DEF SelectionFails, EndsWith, Failure, Error, Done
  <2> QED
    BY <2>1 DEF ClientStep, Ends
<1> QED
  BY <1>2, <1>3, <1>4

LEMMA FailureSteps ==
    ASSUME NEW c \in Clients,
           GrpcRefused(c) \/ GrpcLost(c) \/ Expires(c) \/ StreamFails(c) \/ HttpFails(c)
    PROVE  Ends(c)
<1>1. CASE GrpcRefused(c)
  <2>1. PICK code : FailReporting(c, op[c].q.reports, from_grpc(Refused(code)))
    BY <1>1 DEF GrpcRefused
  <2>2. EndsWith(c, from_grpc(Refused(code)))
    BY <1>1, <2>1, ErrorNames DEF GrpcRefused, FailReporting, EndsWith, Done
  <2> QED
    BY <2>2 DEF Ends
<1>2. CASE GrpcLost(c)
  <2>1. PICK code \in {"Unavailable", "Cancelled"} :
            FailReporting(c, op[c].q.reports, from_grpc(Refused(code)))
    BY <1>2 DEF GrpcLost
  <2>2. EndsWith(c, from_grpc(Refused(code)))
    BY <1>2, <2>1, ErrorNames DEF GrpcLost, MayBeLate, FailReporting, EndsWith, Done
  <2> QED
    BY <2>2 DEF Ends
<1>3. CASE Expires(c)
  <2>1. PICK code \in {"TimeoutExpired", "DeadlineExceeded"}, how \in {op[c].q.reports, op[c].q.streamReports} :
            FailReporting(c, how, from_grpc(Refused(code)))
    BY <1>3 DEF Expires
  <2>2. EndsWith(c, from_grpc(Refused(code)))
    BY <1>3, <2>1, ErrorNames DEF Expires, MayBeLate, FailReporting, EndsWith, Done
  <2> QED
    BY <2>2 DEF Ends
<1>4. CASE StreamFails(c)
  <2>1. PICK s : FailReporting(c, op[c].q.streamReports, from_grpc(s))
    BY <1>4 DEF StreamFails
  <2>2. EndsWith(c, from_grpc(s))
    BY <1>4, <2>1, ErrorNames DEF StreamFails, FailReporting, EndsWith, Done
  <2> QED
    BY <2>2 DEF Ends
<1>5. CASE HttpFails(c)
  <2>1. PICK code : Fail(c, http_error(code))
    BY <1>5 DEF HttpFails
  <2>2. EndsWith(c, http_error(code))
    BY <1>5, <2>1, ErrorNames DEF HttpFails, EndsWith, Done
  <2> QED
    BY <2>2 DEF Ends
<1> QED
  BY <1>1, <1>2, <1>3, <1>4, <1>5

LEMMA StreamSteps ==
    ASSUME Shape, NEW c \in Clients, StreamItem(c) \/ StreamEnds(c)
    PROVE  ClientStep(c)
<1>1. DOMAIN op[c] = DOMAIN Idle /\ op = [d \in Clients |-> op[d]]
  BY DEF Shape, OpShape, OpIs
<1>2. CASE StreamEnds(c)
  BY <1>2 DEF StreamEnds, Closes, ClientStep
<1>3. CASE StreamItem(c)
  <2> PICK o, item : o = op[c] /\ item = Head(o.rest)
    OBVIOUS
  <2> DEFINE read == [o EXCEPT !.rest = Tail(@), !.items = Append(@, item.id)]
  <2>1. CASE item.kind = "event" /\ o.q.takes # "all"
    <3>1. Finish(c, read)
      BY <1>3, <2>1 DEF StreamItem, Content
    <3> PICK items : items = Append(o.items, item.id)
      OBVIOUS
    <3>2. [read EXCEPT !.at = Done, !.rest = <<>>]
            = [[o EXCEPT !.items = items] EXCEPT !.at = Done, !.rest = <<>>]
      BY <1>1 DEF Idle
    <3>3. Finish(c, [op[c] EXCEPT !.items = items])
      BY <1>1, <3>1, <3>2 DEF Finish, Idle
    <3>4. Closes(c)
      BY <1>3, <2>1, <3>3 DEF StreamItem, Closes
    <3> QED
      BY <3>4 DEF ClientStep
  <2>2. CASE item.kind = "event" /\ o.q.takes = "all"
    <3>1. Become(c, read) /\ UNCHANGED appends
      BY <1>3, <2>2 DEF StreamItem, Content, Become
    <3>2. Reads(c)
      BY <1>3, <2>2, <3>1 DEF Reads, Become, StreamItem
    <3> QED
      BY <3>2 DEF ClientStep
  <2>3. CASE item.kind = "not-found"
    <3>1. Fail(c, Failure("ResourceNotFound"))
      BY <1>3, <2>3 DEF StreamItem, Content
    <3>2. EndsWith(c, Failure("ResourceNotFound"))
      BY <1>3, <3>1 DEF StreamItem, EndsWith, Failure, Error, Done
    <3> QED
      BY <3>2 DEF ClientStep, Ends
  <2>4. CASE item.kind \notin {"event", "not-found"}
    <3>1. op' = [op EXCEPT ![c].rest = Tail(@)] /\ UNCHANGED appends
      BY <1>3, <2>4 DEF StreamItem, Content
    <3>2. [op EXCEPT ![c].rest = Tail(@)]
            = [op EXCEPT ![c] = [o EXCEPT !.rest = Tail(o.rest), !.items = o.items]]
      BY <1>1 DEF Idle
    <3>3. Reads(c)
      BY <1>3, <2>4, <3>1, <3>2 DEF Reads, Become, StreamItem
    <3> QED
      BY <3>3 DEF ClientStep
  <2> QED
    BY <2>1, <2>2, <2>3, <2>4
<1> QED
  BY <1>2, <1>3

LEMMA SucceedSteps ==
    ASSUME Shape, NEW c \in Clients, op[c].at \in {"grpc", "http"},
           server' = Carried(server, CallOf(c)), Taken(server, CallOf(c)),
           UNCHANGED <<late, commands>>, Succeed(c)
    PROVE  ClientStep(c)
<1>1. DOMAIN op[c] = DOMAIN Idle /\ op = [d \in Clients |-> op[d]] /\ op[c].q \in AnyRequest
  BY DEF Shape, OpShape, OpIs
<1> PICK call : call = CallOf(c)
  OBVIOUS
<1>2. Accepts(c) /\ call.rpc = op[c].q.rpc
  BY CallOfIs, CallIs DEF Accepts
<1>3. CASE op[c].q.andThen # "none"
  <2>1. op' = [op EXCEPT ![c].at = "selecting", ![c].q = EmitEnabled] /\ UNCHANGED appends
    BY <1>3 DEF Succeed, HasSecondCall
  <2>2. [op EXCEPT ![c].at = "selecting", ![c].q = EmitEnabled]
          = [op EXCEPT ![c] = [op[c] EXCEPT !.at = "selecting", !.q = EmitEnabled]]
    BY <1>1 DEF Idle
  <2>3. Continues(c)
    BY <1>2, <1>3, <2>1, <2>2 DEF Continues, Become
  <2> QED
    BY <2>3 DEF ClientStep
<1>4. CASE op[c].q.andThen = "none" /\ op[c].q.streamed
  <2>1. PICK contents \in Contents(server, call) :
            op' = [op EXCEPT ![c].at = "open", ![c].rest = contents, ![c].items = <<>>,
                             ![c].truth = Truth(server, call)]
    BY <1>4 DEF Succeed, HasSecondCall
  <2> PICK truth : truth = Truth(server, call)
    OBVIOUS
  <2>2. [op EXCEPT ![c].at = "open", ![c].rest = contents, ![c].items = <<>>, ![c].truth = truth]
          = [op EXCEPT ![c] = [op[c] EXCEPT !.at = "open", !.rest = contents, !.items = <<>>,
                                            !.truth = truth]]
    BY <1>1 DEF Idle
  <2>3. UNCHANGED appends
    BY <1>4 DEF Succeed, HasSecondCall
  <2>4. Opens(c)
    BY <1>2, <1>4, <2>1, <2>2, <2>3 DEF Opens, Become
  <2> QED
    BY <2>4 DEF ClientStep
<1> PICK infos : infos = InfosOf(c)
  OBVIOUS
<1>5. infos = IF call.rpc \in {"ListAll", "ListForStream", "GetInfo"}
              THEN Groups(server, call) ELSE {}
  BY <1>2 DEF InfosOf, listings
<1>6. CASE op[c].q.andThen = "none" /\ ~op[c].q.streamed /\ op[c].at = "grpc"
  <2>1. Finish(c, [op[c] EXCEPT !.infos = {try_from_info(g) : g \in infos}, !.truth = infos])
    BY <1>5, <1>6 DEF Succeed, HasSecondCall, listings
  <2>2. {try_from_info(g) : g \in infos} = {InfoOf(c, g) : g \in infos}
    BY <1>6 DEF InfoOf
  <2>3. Completes(c)
    BY <1>2, <1>6, <2>1, <2>2 DEF Completes
  <2> QED
    BY <2>3 DEF ClientStep
<1>7. CASE op[c].q.andThen = "none" /\ ~op[c].q.streamed /\ op[c].at = "http"
  <2>1. CASE Parsable(infos)
    <3>1. Finish(c, [op[c] EXCEPT !.infos = {from_http_info(g) : g \in infos}, !.truth = infos])
      BY <1>5, <1>7, <2>1 DEF Succeed, HasSecondCall, listings
    <3>2. {from_http_info(g) : g \in infos} = {InfoOf(c, g) : g \in infos}
      BY <1>7 DEF InfoOf
    <3>3. Completes(c)
      BY <1>2, <1>7, <3>1, <3>2 DEF Completes
    <3> QED
      BY <3>3 DEF ClientStep
  <2>2. CASE ~Parsable(infos)
    <3>1. Fail(c, Failure("InternalParsingError"))
      BY <1>5, <1>7, <2>2 DEF Succeed, HasSecondCall, listings
    <3>2. infos # {}
      BY <2>2 DEF Parsable
    <3>3. call.rpc \in listings
      BY <1>5, <3>2 DEF listings
    <3>4. server' = server
      BY <3>3, ListingIsTaken
    <3>5. EndsWith(c, Failure("InternalParsingError"))
      BY <1>7, <3>1, <3>4 DEF EndsWith, Failure, Error, Done
    <3> QED
      BY <3>5 DEF ClientStep, Ends
  <2> QED
    BY <2>1, <2>2
<1> QED
  BY <1>3, <1>4, <1>6, <1>7

LEMMA AnswerSteps ==
    ASSUME Shape, NEW c \in Clients, GrpcAnswered(c) \/ HttpAnswered(c)
    PROVE  ClientStep(c)
<1>1. OpIs(op[c])
  BY DEF Shape, OpShape
<1> PICK call : call = CallOf(c)
  OBVIOUS
<1>2. call.rpc = op[c].q.rpc
  BY CallOfIs, CallIs
<1>3. CASE GrpcAnswered(c) /\ Reply(server, call) # Accepted
  <2> PICK e : e = from_grpc(Reply(server, call))
    OBVIOUS
  <2>1. FailReporting(c, op[c].q.reports, e) /\ server' = Carried(server, call)
    BY <1>3 DEF GrpcAnswered
  <2>2. server' = server
    BY <1>3, <2>1, NotTaken DEF Taken
  <2>3. EndsWith(c, e)
    BY <1>3, <2>1, <2>2, ErrorNames DEF GrpcAnswered, FailReporting, EndsWith, Done
  <2> QED
    BY <2>3 DEF ClientStep, Ends
<1>4. CASE /\ GrpcAnswered(c) /\ Reply(server, call) = Accepted
           /\ WrongExpectedVersion(server, call)
  <2>1. Fail(c, Failure("WrongExpectedVersion")) /\ server' = Carried(server, call)
    BY <1>4 DEF GrpcAnswered, AppendAnswered
  <2>2. server' = server
    BY <1>4, <2>1, NotTaken DEF Taken
  <2>3. EndsWith(c, Failure("WrongExpectedVersion"))
    BY <1>4, <2>1, <2>2 DEF GrpcAnswered, EndsWith, Failure, Error, Done
  <2> QED
    BY <2>3 DEF ClientStep, Ends
<1>5. CASE GrpcAnswered(c) /\ Taken(server, call)
  <2>1. /\ op[c].at \in {"grpc", "http"} /\ server' = Carried(server, call)
        /\ UNCHANGED <<late, commands>> /\ Succeed(c)
    BY <1>5 DEF GrpcAnswered, AppendAnswered, Taken
  <2> QED
    BY <1>5, <2>1, SucceedSteps
<1>6. CASE HttpAnswered(c) /\ Reply(server, call) # Accepted
  <2> PICK e : e = http_error(Reply(server, call).code)
    OBVIOUS
  <2>1. Fail(c, e) /\ server' = Carried(server, call)
    BY <1>6 DEF HttpAnswered
  <2>2. server' = server
    BY <1>6, <2>1, NotTaken DEF Taken
  <2>3. EndsWith(c, e)
    BY <1>6, <2>1, <2>2, ErrorNames DEF HttpAnswered, EndsWith, Done
  <2> QED
    BY <2>3 DEF ClientStep, Ends
<1>7. CASE HttpAnswered(c) /\ Reply(server, call) = Accepted
  <2>1. call.rpc # "Append"
    BY <1>1, <1>2, <1>7, RequestIs DEF HttpAnswered, OpIs
  <2>2. Taken(server, call)
    BY <1>7, <2>1 DEF Taken, WrongExpectedVersion
  <2>3. /\ op[c].at \in {"grpc", "http"} /\ server' = Carried(server, call)
        /\ UNCHANGED <<late, commands>> /\ Succeed(c)
    BY <1>7 DEF HttpAnswered
  <2> QED
    BY <2>2, <2>3, SucceedSteps
<1> QED
  BY <1>3, <1>4, <1>5, <1>6, <1>7 DEF Taken

LEMMA ClientSteps ==
    ASSUME Shape, NEW c \in Clients, Client(c)
    PROVE  ClientStep(c)
BY SelectionSteps, FailureSteps, StreamSteps, AnswerSteps DEF Client, ClientStep

-----------------------------------------------------------------------------
(* What a step makes of the client's record. *)

LEMMA BecomeIs ==
    ASSUME OpShape, NEW c \in Clients, NEW o, Become(c, o)
    PROVE  /\ op' = [d \in Clients |-> op'[d]]
           /\ op'[c] = o
           /\ \A d \in Clients : d # c => op'[d] = op[d]
BY DEF OpShape, Become

\* The command is over, and o says how.
Over(c, o) ==
    /\ Become(c, o)
    /\ DOMAIN o = DOMAIN Idle
    /\ o.at = Done /\ o.asked = op[c].asked /\ o.q = op[c].q /\ o.id = op[c].id
    /\ o.handle = op[c].handle
    /\ appends' = IF o.q.rpc = "Append"
                  THEN [appends EXCEPT ![o.id] = o.error.name] ELSE appends

LEMMA FinishIs ==
    ASSUME NEW c \in Clients, NEW r, DOMAIN r = DOMAIN Idle,
           r.asked = op[c].asked, r.q = op[c].q, r.id = op[c].id, r.handle = op[c].handle,
           Finish(c, r)
    PROVE  \E o : /\ Over(c, o)
                  /\ o.error = r.error /\ o.infos = r.infos /\ o.truth = r.truth
                  /\ o.items = r.items
<1> DEFINE o == [r EXCEPT !.at = Done, !.rest = <<>>]
<1>1. /\ DOMAIN o = DOMAIN Idle
      /\ o.at = Done /\ o.asked = op[c].asked /\ o.q = op[c].q /\ o.id = op[c].id
      /\ o.handle = op[c].handle
      /\ o.error = r.error /\ o.infos = r.infos /\ o.truth = r.truth /\ o.items = r.items
  BY DEF Idle
<1>2. Become(c, o)
  BY DEF Finish, Become
<1>3. appends' = IF o.q.rpc = "Append" THEN [appends EXCEPT ![o.id] = o.error.name] ELSE appends
  BY <1>1 DEF Finish
<1> HIDE DEF o
<1> QED
  BY <1>1, <1>2, <1>3 DEF Over

LEMMA EndsIs ==
    ASSUME Shape, NEW c \in Clients, NEW e, EndsWith(c, e)
    PROVE  \E o : Over(c, o) /\ o.error = e
<1> DEFINE r == [op[c] EXCEPT !.error = e]
<1>1. /\ DOMAIN r = DOMAIN Idle /\ r.asked = op[c].asked /\ r.q = op[c].q /\ r.id = op[c].id
      /\ r.handle = op[c].handle /\ r.error = e
  BY DEF Shape, OpShape, OpIs, Idle
<1>2. Finish(c, r)
  BY DEF EndsWith, Fail
<1> HIDE DEF r
<1> QED
  BY <1>1, <1>2, FinishIs

LEMMA CompletesIs ==
    ASSUME Shape, NEW c \in Clients, Completes(c)
    PROVE  \E o : /\ Over(c, o) /\ o.error = op[c].error
                  /\ o.truth = InfosOf(c) /\ o.infos = {InfoOf(c, g) : g \in InfosOf(c)}
<1> PICK truth, infos : truth = InfosOf(c) /\ infos = {InfoOf(c, g) : g \in InfosOf(c)}
  OBVIOUS
<1> DEFINE r == [op[c] EXCEPT !.infos = infos, !.truth = truth]
<1>1. /\ DOMAIN r = DOMAIN Idle /\ r.asked = op[c].asked /\ r.q = op[c].q /\ r.id = op[c].id
      /\ r.handle = op[c].handle
      /\ r.error = op[c].error /\ r.infos = infos /\ r.truth = truth
  BY DEF Shape, OpShape, OpIs, Idle
<1>2. Finish(c, r)
  BY DEF Completes
<1> HIDE DEF r
<1> QED
  BY <1>1, <1>2, FinishIs

LEMMA ClosesIs ==
    ASSUME Shape, NEW c \in Clients, Closes(c)
    PROVE  \E o : /\ Over(c, o) /\ o.error = op[c].error /\ o.truth = op[c].truth
                  /\ op[c].q.takes = "all" => op[c].rest = <<>> /\ o.items = op[c].items
<1>1. DOMAIN op[c] = DOMAIN Idle
  BY DEF Shape, OpShape, OpIs
<1>2. CASE op[c].rest = <<>> /\ Finish(c, op[c])
  BY <1>1, <1>2, FinishIs
<1>3. ASSUME op[c].q.takes # "all", NEW items, Finish(c, [op[c] EXCEPT !.items = items])
      PROVE  \E o : Over(c, o) /\ o.error = op[c].error /\ o.truth = op[c].truth
  <2> DEFINE r == [op[c] EXCEPT !.items = items]
  <2>1. /\ DOMAIN r = DOMAIN Idle /\ r.asked = op[c].asked /\ r.q = op[c].q /\ r.id = op[c].id
        /\ r.handle = op[c].handle
        /\ r.error = op[c].error /\ r.truth = op[c].truth
    BY <1>1 DEF Idle
  <2>2. Finish(c, r)
    BY <1>3
  <2> HIDE DEF r
  <2> QED
    BY <2>1, <2>2, FinishIs
<1> QED
  BY <1>2, <1>3 DEF Closes

\* The command goes on, and o says where; what it has reported is as it was.
Further(c, o) ==
    /\ Become(c, o)
    /\ DOMAIN o = DOMAIN Idle
    /\ o.asked = op[c].asked /\ o.id = op[c].id /\ o.error = op[c].error
    /\ UNCHANGED appends

LEMMA FurtherIs ==
    ASSUME Shape, NEW c \in Clients
    PROVE  /\ Routes(c) => \E o : /\ Further(c, o)
                /\ o.at \in {"grpc", "http"} /\ (o.at = "http" => o.q.fallback)
                /\ o.q = op[c].q /\ o.handle = connection
           /\ Continues(c) => \E o : /\ Further(c, o)
                /\ o.at = "selecting" /\ o.q = EmitEnabled /\ o.handle = op[c].handle
           /\ Opens(c) => \E o : /\ Further(c, o)
                /\ o.at = "open" /\ o.q = op[c].q /\ o.handle = op[c].handle
                /\ o.rest \in Contents(server, CallOf(c)) /\ o.items = <<>>
                /\ o.truth = Truth(server, CallOf(c))
           /\ Reads(c) => \E o : /\ Further(c, o)
                /\ o.at = "open" /\ o.q = op[c].q /\ o.handle = op[c].handle
                /\ o.truth = op[c].truth /\ o.rest = Tail(op[c].rest)
                /\ o.items = IF Head(op[c].rest).kind = "event"
                             THEN Append(op[c].items, Head(op[c].rest).id)
                             ELSE op[c].items
<1>1. DOMAIN op[c] = DOMAIN Idle
  BY DEF Shape, OpShape, OpIs
<1>2. ASSUME Routes(c)
      PROVE  \E o : /\ Further(c, o)
                /\ o.at \in {"grpc", "http"} /\ (o.at = "http" => o.q.fallback)
                /\ o.q = op[c].q /\ o.handle = connection
  <2>1. PICK route \in {"grpc", "http"} :
            /\ route = "http" => op[c].q.fallback
            /\ Become(c, [op[c] EXCEPT !.at = route, !.handle = connection])
    BY <1>2 DEF Routes
  <2> PICK o : o = [op[c] EXCEPT !.at = route, !.handle = connection]
    OBVIOUS
  <2>2. /\ DOMAIN o = DOMAIN Idle /\ o.at = route /\ o.q = op[c].q /\ o.handle = connection
        /\ o.asked = op[c].asked /\ o.id = op[c].id /\ o.error = op[c].error
    BY <1>1 DEF Idle
  <2>3. Further(c, o)
    BY <1>2, <2>1, <2>2 DEF Routes, Further
  <2> QED
    BY <2>1, <2>2, <2>3
<1>3. ASSUME Continues(c)
      PROVE  \E o : /\ Further(c, o)
                /\ o.at = "selecting" /\ o.q = EmitEnabled /\ o.handle = op[c].handle
  <2> PICK o : o = [op[c] EXCEPT !.at = "selecting", !.q = EmitEnabled]
    OBVIOUS
  <2>1. /\ DOMAIN o = DOMAIN Idle /\ o.at = "selecting" /\ o.q = EmitEnabled
        /\ o.handle = op[c].handle /\ o.asked = op[c].asked /\ o.id = op[c].id
        /\ o.error = op[c].error
    BY <1>1 DEF Idle
  <2>2. Further(c, o)
    BY <1>3, <2>1 DEF Continues, Further
  <2> QED
    BY <2>1, <2>2
<1>4. ASSUME Opens(c)
      PROVE  \E o : /\ Further(c, o)
                /\ o.at = "open" /\ o.q = op[c].q /\ o.handle = op[c].handle
                /\ o.rest \in Contents(server, CallOf(c)) /\ o.items = <<>>
                /\ o.truth = Truth(server, CallOf(c))
  <2> PICK truth : truth = Truth(server, CallOf(c))
    OBVIOUS
  <2>1. PICK contents \in Contents(server, CallOf(c)) :
            Become(c, [op[c] EXCEPT !.at = "open", !.rest = contents, !.items = <<>>,
                                    !.truth = truth])
    BY <1>4 DEF Opens
  <2> PICK o : o = [op[c] EXCEPT !.at = "open", !.rest = contents, !.items = <<>>, !.truth = truth]
    OBVIOUS
  <2>2. /\ DOMAIN o = DOMAIN Idle /\ o.at = "open" /\ o.q = op[c].q
        /\ o.handle = op[c].handle /\ o.asked = op[c].asked /\ o.id = op[c].id
        /\ o.error = op[c].error
        /\ o.rest = contents /\ o.items = <<>> /\ o.truth = truth
    BY <1>1 DEF Idle
  <2>3. Further(c, o)
    BY <1>4, <2>1, <2>2 DEF Opens, Further
  <2> QED
    BY <2>2, <2>3
<1>5. ASSUME Reads(c)
      PROVE  \E o : /\ Further(c, o)
                /\ o.at = "open" /\ o.q = op[c].q /\ o.handle = op[c].handle
                /\ o.truth = op[c].truth /\ o.rest = Tail(op[c].rest)
                /\ o.items = IF Head(op[c].rest).kind = "event"
                             THEN Append(op[c].items, Head(op[c].rest).id)
                             ELSE op[c].items
  <2> PICK rest, items :
          /\ rest = Tail(op[c].rest)
          /\ items = IF Head(op[c].rest).kind = "event"
                     THEN Append(op[c].items, Head(op[c].rest).id) ELSE op[c].items
    OBVIOUS
  <2> PICK o : o = [op[c] EXCEPT !.rest = rest, !.items = items]
    OBVIOUS
  <2>1. /\ DOMAIN o = DOMAIN Idle /\ o.at = op[c].at /\ o.q = op[c].q
        /\ o.handle = op[c].handle /\ o.asked = op[c].asked /\ o.id = op[c].id
        /\ o.error = op[c].error
        /\ o.rest = rest /\ o.items = items /\ o.truth = op[c].truth
    BY <1>1 DEF Idle
  <2>2. Further(c, o)
    BY <1>5, <2>1 DEF Reads, Further
  <2> QED
    BY <1>5, <2>1, <2>2 DEF Reads
<1> QED
  BY <1>2, <1>3, <1>4, <1>5

-----------------------------------------------------------------------------
(* The shape of the state is kept. *)

LEMMA ShapeInit == Init => Shape
<1> SUFFICES ASSUME Init PROVE Shape
  OBVIOUS
<1>1. commands \in 0..MaxCommands /\ faults \in 0..MaxFaults
  BY CommandsAssumption DEF Init
<1>2. Link
  BY DEF Init, Link, RedirectedConnectionIsLeft
<1>3. OpIs(Idle)
  BY DEF Init, Link, OpIs, Idle, AnyRequest, NoConnection, Done
<1>4. OpShape
  BY <1>3 DEF Init, OpShape, Idle
<1>5. ServerShape
  BY InitialServersAssumption DEF Init, ServerShape
<1>6. LateShape
  BY DEF Init, LateShape
<1> QED
  BY <1>1, <1>2, <1>4, <1>5, <1>6 DEF Shape

\* A report leaves the connection it is about if it names a leader.
LEMMA ReportStep ==
    ASSUME Shape, NEW c \in Clients, op[c].at \in {"grpc", "http", "open"},
           NEW how \in {"handle_error", "report_error", "none"}, NEW e,
           FailReporting(c, how, e)
    PROVE  Link' /\ connection.id <= connection'.id
<1> PICK id : id = op[c].handle.id
  OBVIOUS
<1> PICK leaves \in BOOLEAN : leaves = (how = "handle_error" /\ e.name = "NotLeaderException")
  OBVIOUS
<1>1. id \in 1..connection.id /\ connection.id \in Nat /\ connection.node \in Node
  BY DEF Shape, OpShape, OpIs, Link
<1> PICK k, R : k = connection.id /\ R = redirected
  OBVIOUS
<1>2. \/ redirected' = R
      \/ leaves /\ redirected' = R \cup {id}
  BY DEF FailReporting
<1>5. R \subseteq 1..k /\ k \notin R /\ id \in 1..k /\ k \in Nat /\ k # 0
  BY <1>1 DEF Shape, Link, RedirectedConnectionIsLeft
<1>3. CASE leaves /\ connection.id = id
  <2>1. PICK n \in Node : connection' = [id |-> id + 1, node |-> n]
    BY <1>3 DEF FailReporting, Report, handle_error, Replace
  <2>2. connection'.id = k + 1 /\ connection' \in [id : Nat \ {0}, node : Node]
    BY <1>3, <1>5, <2>1
  <2>3. redirected' \subseteq 1..k
    BY <1>2, <1>5
  <2>4. 1..k \subseteq 1..(k + 1) /\ k + 1 \notin 1..k /\ k <= k + 1
    BY <1>5
  <2>5. redirected' \subseteq 1..(k + 1) /\ k + 1 \notin redirected'
    BY <2>3, <2>4
  <2> QED
    BY <2>2, <2>4, <2>5 DEF Link, RedirectedConnectionIsLeft
<1>4. CASE ~(leaves /\ connection.id = id)
  <2>1. connection' = connection
    <3>1. CASE how = "handle_error" /\ e.name = "NotLeaderException"
      <4>1. Replace(id)
        BY <3>1 DEF FailReporting, Report, handle_error
      <4>2. connection.id # id
        BY <1>4, <3>1
      <4> QED
        BY <4>1, <4>2 DEF Replace
    <3>2. CASE ~(how = "handle_error" /\ e.name = "NotLeaderException")
      BY <3>2 DEF FailReporting, Report, handle_error, report_error
    <3> QED
      BY <3>1, <3>2
  <2>2. redirected' \subseteq 1..k
    BY <1>2, <1>5
  <2>5. k <= k
    BY <1>5
  <2>4. k \notin redirected'
    <3>1. CASE redirected' = R
      <4>1. k \notin R
        BY <1>5
      <4> QED
        BY <3>1, <4>1
    <3>2. CASE leaves /\ redirected' = R \cup {id}
      <4>1. k # id
        BY <1>4, <3>2
      <4> QED
        BY <1>5, <3>2, <4>1
    <3> QED
      BY <1>2, <3>1, <3>2
  <2>3. connection \in [id : Nat \ {0}, node : Node]
    BY DEF Shape, Link
  <2> QED
    BY <2>1, <2>2, <2>3, <2>4, <2>5 DEF Link, RedirectedConnectionIsLeft
<1> QED
  BY <1>3, <1>4

LEMMA RequestReports ==
    ASSUME NEW q \in AnyRequest
    PROVE  {q.reports, q.streamReports} \subseteq {"handle_error", "report_error", "none"}
<1>1. CASE q \in Requests
  BY <1>1, RequestsAssumption
<1>2. CASE q \in {NoRequest, EmitEnabled}
  <2>1. q.reports = "handle_error" /\ q.streamReports = "handle_error"
    BY <1>2 DEF NoRequest, EmitEnabled, update_projection, Projection, Request
  <2> QED
    BY <2>1
<1> QED
  BY <1>1, <1>2 DEF AnyRequest

LEMMA LinkStep ==
    ASSUME Shape, [Next]_vars
    PROVE  Link' /\ connection.id <= connection'.id /\ faults' \in 0..MaxFaults
<1>1. connection.id \in Nat /\ Link /\ faults \in 0..MaxFaults
  BY DEF Shape, Link
<1>2. CASE UNCHANGED <<connection, redirected>>
  <2>1. Link' /\ connection.id <= connection'.id
    BY <1>1, <1>2 DEF Link, RedirectedConnectionIsLeft
  <2>2. faults' = faults \/ Fault
    BY DEF Next, vars, Client, Issue, Selected, SelectionFails, GrpcAnswered, GrpcRefused,
           GrpcLost, Expires, StreamItem, StreamEnds, StreamFails, HttpAnswered, HttpFails,
           CarryLate, Elect
  <2> QED
    BY <1>1, <2>1, <2>2, CommandsAssumption DEF Fault
<1>3. ASSUME NEW c \in Clients,
             \/ GrpcAnswered(c) \/ GrpcRefused(c) \/ GrpcLost(c) \/ Expires(c)
             \/ StreamFails(c)
      PROVE  Link' /\ connection.id <= connection'.id /\ faults' \in 0..MaxFaults
  <2>1. {op[c].q.reports, op[c].q.streamReports}
            \subseteq {"handle_error", "report_error", "none"}
    BY RequestReports DEF Shape, OpShape, OpIs
  <2>2. faults' \in 0..MaxFaults
    BY <1>1, <1>3, CommandsAssumption
       DEF GrpcAnswered, GrpcRefused, GrpcLost, Expires, StreamFails, Fault
  <2>3. \/ UNCHANGED <<connection, redirected>>
        \/ \E how \in {op[c].q.reports, op[c].q.streamReports} : \E e :
              /\ op[c].at \in {"grpc", "http", "open"} /\ FailReporting(c, how, e)
    BY <1>3 DEF GrpcAnswered, GrpcRefused, GrpcLost, Expires, StreamFails
  <2>4. CASE UNCHANGED <<connection, redirected>>
    BY <1>1, <2>2, <2>4 DEF Link, RedirectedConnectionIsLeft
  <2>5. ASSUME NEW how \in {op[c].q.reports, op[c].q.streamReports}, NEW e,
               op[c].at \in {"grpc", "http", "open"} /\ FailReporting(c, how, e)
        PROVE  Link' /\ connection.id <= connection'.id
    BY <2>1, <2>5, ReportStep
  <2> QED
    BY <2>2, <2>3, <2>4, <2>5
<1>4. \/ UNCHANGED <<connection, redirected>>
      \/ \E c \in Clients :
            \/ GrpcAnswered(c) \/ GrpcRefused(c) \/ GrpcLost(c) \/ Expires(c)
            \/ StreamFails(c)
  BY DEF Next, vars, Client, Issue, Selected, SelectionFails, StreamItem, StreamEnds,
         HttpAnswered, HttpFails, CarryLate, Elect
<1> QED
  BY <1>2, <1>3, <1>4

\* One client's record changes, and is still what a record may be.
LEMMA OpStep ==
    ASSUME Shape, NEW c \in Clients, NEW o, Become(c, o), OpIs(o)',
           commands' \in Nat, commands <= commands',
           connection'.id \in Nat, connection.id <= connection'.id,
           o.id = op[c].id \/ o.id = commands + 1
    PROVE  OpShape'
<1>1. /\ op' = [d \in Clients |-> op'[d]] /\ op'[c] = o
      /\ \A d \in Clients : d # c => op'[d] = op[d]
  BY BecomeIs DEF Shape
<1>2. commands \in Nat /\ connection.id \in Nat
  BY CommandsAssumption DEF Shape, Link
<1>3. ASSUME NEW d \in Clients PROVE OpIs(op[d])'
  <2>1. CASE d = c
    BY <1>1, <2>1
  <2>2. CASE d # c
    <3> PICK r : r = op[d]
      OBVIOUS
    <3>1. OpIs(r)
      BY DEF Shape, OpShape
    <3>2. OpIs(r)'
      BY <1>2, <3>1 DEF OpIs
    <3> QED
      BY <1>1, <2>2, <3>2
  <2> QED
    BY <2>1, <2>2
<1>4. ASSUME NEW d \in Clients, NEW f \in Clients, op'[d].id = op'[f].id
      PROVE  d = f \/ op'[d].id = 0
  <2>1. op[d].id \in 0..commands /\ op[f].id \in 0..commands
    BY DEF Shape, OpShape, OpIs
  <2>2. op[d].id = op[f].id => d = f \/ op[d].id = 0
    BY DEF Shape, OpShape
  <2> QED
    BY <1>1, <1>2, <1>4, <2>1, <2>2
<1> QED
  BY <1>1, <1>3, <1>4 DEF OpShape

LEMMA ServerStep ==
    ASSUME Shape, NEW call, IsCall(call), call.id <= commands,
           server' = Carried(server, call), commands' = commands
    PROVE  ServerShape'
<1>1. IsCluster(server) /\ commands \in Nat /\ call.id \in Nat
  BY CallShape, CommandsAssumption DEF Shape, ServerShape
<1>2. IsCluster(server')
  BY <1>1, ClusterStays
<1>3. \A g \in server'.groups : g.done < WordSize
  <2>1. \A g \in server'.groups : g.done = -1 \/ \E h \in server.groups : g.done = h.done
    BY <1>1, CarriedGroups, CallShape
  <2> QED
    BY <2>1, CommandsAssumption DEF Shape, ServerShape
<1>4. server'.projection.by \in 0..commands
  <2>1. server.projection.by \in 0..commands
    BY DEF Shape, ServerShape
  <2>2. CASE call.rpc = "CreateProjection" /\ Taken(server, call)
    <3>1. server'.projection =
            [exists |-> TRUE, emit |-> FALSE, by |-> call.id, touched |-> FALSE]
      BY <1>1, <2>2, ProjectionCreated
    <3>2. server'.projection.by = call.id
      BY <3>1
    <3> QED
      BY <1>1, <3>2
  <2>3. CASE call.rpc = "UpdateProjection" /\ Taken(server, call)
    BY <1>1, <2>1, <2>3, ProjectionUpdated
  <2>4. CASE ~(call.rpc \in {"CreateProjection", "UpdateProjection"} /\ Taken(server, call))
    <3> PICK p : p = server.projection
      OBVIOUS
    <3>1. p \in [exists : BOOLEAN, emit : BOOLEAN, by : Nat, touched : BOOLEAN]
      BY <1>1 DEF IsCluster
    <3>2. server'.projection \in {p, [p EXCEPT !.exists = FALSE, !.touched = TRUE]}
      BY <1>1, <2>4, ProjectionLeft
    <3> QED
      BY <2>1, <3>1, <3>2
  <2> QED
    BY <2>2, <2>3, <2>4
<1> QED
  BY <1>2, <1>3, <1>4 DEF ServerShape

\* The call of a command under way is one, and there is no other of that command.
LEMMA CallUnderWay ==
    ASSUME Shape, NEW c \in Clients, op[c].at # Done
    PROVE  /\ IsCall(CallOf(c)) /\ CallOf(c).id = op[c].id /\ CallOf(c).rpc = op[c].q.rpc
           /\ op[c].id \in 1..commands
           /\ \A call \in late : call.id # op[c].id
<1>1. OpIs(op[c]) /\ commands \in Nat
  BY CommandsAssumption DEF Shape, OpShape
<1>2. CallOf(c).id = op[c].id /\ CallOf(c).rpc = op[c].q.rpc
  BY CallOfIs, CallIs
<1>3. op[c].q \in AnyRequest /\ op[c].id \in Nat /\ op[c].id \in 1..commands
  BY <1>1 DEF OpIs
<1>4. IsCall(CallOf(c))
  BY <1>3, CallOfIs DEF IsCall
<1> QED
  BY <1>2, <1>3, <1>4 DEF Shape, LateShape

\* Late calls are as before, and the client's record is that of a command under way
\* or the end of one.
LEMMA LateStep ==
    ASSUME Shape, NEW c \in Clients, NEW o, Become(c, o), commands' = commands,
           op[c].at # Done, o.id = op[c].id,
           \/ late' = late
           \/ /\ late' = late \cup {CallOf(c)}
              /\ o.at = Done /\ o.error.name # "none" /\ o.q = op[c].q
    PROVE  LateShape'
<1>1. op'[c] = o /\ \A d \in Clients : d # c => op'[d] = op[d]
  BY BecomeIs DEF Shape
<1> PICK call : call = CallOf(c)
  OBVIOUS
<1>2. /\ IsCall(call) /\ call.id = op[c].id /\ call.rpc = op[c].q.rpc
      /\ op[c].id \in 1..commands /\ \A l \in late : l.id # op[c].id
  BY CallUnderWay
<1>3. ASSUME NEW l \in late
      PROVE  /\ l.id \in 1..commands' /\ IsCall(l)
             /\ \A d \in Clients : op'[d].id = l.id =>
                  op'[d].at = Done /\ op'[d].error.name # "none" /\ op'[d].q.rpc = l.rpc
  BY <1>1, <1>2 DEF Shape, LateShape
<1>4. \A a, b \in late : a.id = b.id => a = b
  BY DEF Shape, LateShape
<1>5. CASE late' = late
  BY <1>3, <1>4, <1>5 DEF LateShape
<1>6. CASE /\ late' = late \cup {call}
           /\ o.at = Done /\ o.error.name # "none" /\ o.q = op[c].q
  <2>1. ASSUME NEW d \in Clients, op'[d].id = call.id
        PROVE  op'[d].at = Done /\ op'[d].error.name # "none" /\ op'[d].q.rpc = call.rpc
    <3>1. CASE d = c
      BY <1>1, <1>2, <1>6, <3>1
    <3>2. CASE d # c
      BY <1>1, <1>2, <2>1, <3>2 DEF Shape, OpShape
    <3> QED
      BY <3>1, <3>2
  <2>2. \A a, b \in late' : a.id = b.id => a = b
    BY <1>2, <1>4, <1>6
  <2>3. call.id \in 1..commands' /\ IsCall(call)
    BY <1>2
  <2> QED
    BY <1>3, <1>6, <2>1, <2>2, <2>3 DEF LateShape
<1> QED
  BY <1>5, <1>6

\* The record of a command that goes on or is over is what a record may be.
LEMMA OpIsStep ==
    ASSUME Shape, NEW c \in Clients, NEW o, DOMAIN o = DOMAIN Idle, o.id = op[c].id,
           commands' = commands, connection'.id \in Nat, connection.id <= connection'.id,
           o.at \in {Done, "selecting", "grpc", "http", "open"}, o.q \in AnyRequest,
           o.handle = op[c].handle \/ o.handle = connection,
           o.at # Done => op[c].at # Done /\ o.error = op[c].error,
           o.at \in {"grpc", "http"} => o.handle = connection,
           o.at = "open" => op[c].at \in {"grpc", "http", "open"},
           o.at = "http" => o.q.fallback, o.at = "open" => o.q.streamed
    PROVE  OpIs(o)'
<1>1. OpIs(op[c]) /\ connection.id \in Nat \ {0} /\ commands \in Nat
  BY CommandsAssumption DEF Shape, OpShape, Link
<1>2. o.handle.id \in 0..connection.id /\ (o.at \in {"grpc", "http", "open"} => o.handle.id # 0)
  BY <1>1 DEF OpIs
<1> QED
  BY <1>1, <1>2 DEF OpIs

LEMMA ShapeIssue ==
    ASSUME Shape, NEW c \in Clients, NEW q \in Requests, Issue(c, q)
    PROVE  OpShape' /\ ServerShape' /\ LateShape' /\ commands' \in 0..MaxCommands
<1> PICK o : o = [Idle EXCEPT !.at = "selecting", !.asked = q, !.q = q, !.id = commands + 1]
  OBVIOUS
<1>1. /\ DOMAIN o = DOMAIN Idle /\ o.at = "selecting" /\ o.q = q /\ o.id = commands + 1
      /\ o.handle = NoConnection /\ o.error = Failure("none")
  BY DEF Idle
<1>2. /\ Become(c, o) /\ commands' = commands + 1 /\ commands < MaxCommands
      /\ UNCHANGED <<server, late, connection>>
  BY DEF Issue, Become
<1>3. commands \in Nat /\ connection.id \in Nat /\ commands' \in 0..MaxCommands
  BY <1>2, CommandsAssumption DEF Shape, Link
<1>4. OpIs(o)'
  <2>1. o.q \in AnyRequest /\ o.handle.id = 0
    BY <1>1 DEF AnyRequest, NoConnection
  <2> QED
    BY <1>1, <1>2, <1>3, <2>1 DEF OpIs, Done
<1>5. OpShape'
  <2>1. connection'.id \in Nat /\ connection.id <= connection'.id /\ commands' \in Nat /\ commands <= commands'
    BY <1>2, <1>3
  <2> QED
    BY <1>1, <1>2, <1>4, <2>1, OpStep
<1>6. ServerShape'
  BY <1>2, <1>3 DEF Shape, ServerShape
<1>7. LateShape'
  <2>1. op'[c] = o /\ \A d \in Clients : d # c => op'[d] = op[d]
    BY <1>2, BecomeIs DEF Shape
  <2>2. ASSUME NEW l \in late
        PROVE  /\ l.id \in 1..commands' /\ IsCall(l)
               /\ \A d \in Clients : op'[d].id = l.id =>
                    op'[d].at = Done /\ op'[d].error.name # "none" /\ op'[d].q.rpc = l.rpc
    <3>1. l.id \in 1..commands /\ IsCall(l)
      BY DEF Shape, LateShape
    <3>2. l.id # commands + 1 /\ l.id \in 1..commands'
      BY <1>2, <1>3, <3>1
    <3>3. \A d \in Clients : d # c /\ op[d].id = l.id =>
                  op[d].at = Done /\ op[d].error.name # "none" /\ op[d].q.rpc = l.rpc
      BY DEF Shape, LateShape
    <3> QED
      BY <1>1, <2>1, <3>1, <3>2, <3>3
  <2>3. \A a, b \in late : a.id = b.id => a = b
    BY DEF Shape, LateShape
  <2> QED
    BY <1>2, <2>2, <2>3 DEF LateShape
<1> QED
  BY <1>3, <1>5, <1>6, <1>7

\* A step of a client that is at work leaves the shape of what others hold.
LEMMA ShapeAtWork ==
    ASSUME Shape, NEW c \in Clients, connection'.id \in Nat, connection.id <= connection'.id,
           \/ Routes(c) \/ Ends(c)
           \/ Continues(c) \/ Opens(c) \/ Completes(c)
           \/ Reads(c) \/ Closes(c)
    PROVE  OpShape' /\ ServerShape' /\ LateShape' /\ commands' = commands
<1>1. OpIs(op[c]) /\ commands \in Nat
  BY CommandsAssumption DEF Shape, OpShape
<1>2. op[c].at # Done /\ commands' = commands
  BY <1>1 DEF Routes, Ends, EndsWith, Continues, Opens, Completes, Accepts, Reads, Closes, Done
<1>3. ServerShape'
  <2>1. CASE server' = server
    BY <1>2, <2>1 DEF Shape, ServerShape
  <2>2. CASE server' = Carried(server, CallOf(c))
    <3> PICK call : call = CallOf(c)
      OBVIOUS
    <3>1. IsCall(call) /\ call.id \in 1..commands
      BY <1>2, CallUnderWay
    <3> QED
      BY <1>1, <1>2, <2>2, <3>1, ServerStep
  <2> QED
    BY <2>1, <2>2 DEF Routes, Ends, EndsWith, Continues, Opens, Completes, Accepts, Reads, Closes
<1>4. PICK o :
        /\ Become(c, o) /\ OpIs(o)' /\ o.id = op[c].id
        /\ \/ late' = late
           \/ /\ late' = late \cup {CallOf(c)}
              /\ o.at = Done /\ o.error.name # "none" /\ o.q = op[c].q
  <2>1. CASE Ends(c)
    <3>1. PICK e : EndsWith(c, e)
      BY <2>1 DEF Ends
    <3>2. PICK o : Over(c, o) /\ o.error = e
      BY <3>1, EndsIs
    <3>3. OpIs(o)'
      BY <1>1, <1>2, <3>2, OpIsStep DEF Over, OpIs, Done
    <3> QED
      BY <3>1, <3>2, <3>3 DEF EndsWith, Over
  <2>2. CASE Completes(c) \/ Closes(c)
    <3>1. PICK o : Over(c, o) /\ o.error = op[c].error
      BY <2>2, CompletesIs, ClosesIs
    <3>2. OpIs(o)'
      BY <1>1, <1>2, <3>1, OpIsStep DEF Over, OpIs, Done
    <3> QED
      BY <2>2, <3>1, <3>2 DEF Over, Completes, Accepts, Closes
  <2>3. CASE Routes(c)
    <3>1. PICK o : /\ Further(c, o)
                   /\ o.at \in {"grpc", "http"} /\ (o.at = "http" => o.q.fallback)
                   /\ o.q = op[c].q /\ o.handle = connection
      BY <2>3, FurtherIs
    <3>2. OpIs(o)'
      BY <1>1, <1>2, <3>1, OpIsStep DEF Further, OpIs, Done
    <3> QED
      BY <2>3, <3>1, <3>2 DEF Further, Routes
  <2>4. CASE Continues(c)
    <3>1. PICK o : /\ Further(c, o)
                   /\ o.at = "selecting" /\ o.q = EmitEnabled /\ o.handle = op[c].handle
      BY <2>4, FurtherIs
    <3>2. OpIs(o)'
      BY <1>1, <1>2, <3>1, OpIsStep DEF Further, OpIs, Done, AnyRequest
    <3> QED
      BY <2>4, <3>1, <3>2 DEF Further, Continues, Accepts
  <2>5. CASE Opens(c) \/ Reads(c)
    <3>1. PICK o : /\ Further(c, o)
                   /\ o.at = "open" /\ o.q = op[c].q /\ o.handle = op[c].handle
      BY <2>5, FurtherIs
    <3>2. op[c].at \in {"grpc", "http", "open"} /\ op[c].q.streamed
      BY <1>1, <2>5 DEF Opens, Reads, Accepts, OpIs
    <3>3. OpIs(o)'
      BY <1>1, <1>2, <3>1, <3>2, OpIsStep DEF Further, OpIs, Done
    <3> QED
      BY <2>5, <3>1, <3>3 DEF Further, Opens, Accepts, Reads
  <2> QED
    BY <2>1, <2>2, <2>3, <2>4, <2>5
<1>5. OpShape'
  BY <1>1, <1>2, <1>4, OpStep
<1>6. LateShape'
  BY <1>2, <1>4, LateStep
<1> QED
  BY <1>2, <1>3, <1>5, <1>6

LEMMA ShapeStep ==
    ASSUME Shape, [Next]_vars
    PROVE  Shape'
<1>1. Link' /\ connection.id <= connection'.id /\ faults' \in 0..MaxFaults /\ connection'.id \in Nat
  BY LinkStep DEF Link
<1>2. CASE UNCHANGED vars
  BY <1>2 DEF vars, Shape, Link, RedirectedConnectionIsLeft, OpShape, OpIs, ServerShape, LateShape
<1>3. ASSUME NEW c \in Clients, Client(c) PROVE Shape'
  <2>1. ClientStep(c)
    BY <1>3, ClientSteps
  <2>2. CASE \E q \in Requests : Issue(c, q)
    BY <1>1, <2>2, ShapeIssue DEF Shape
  <2>3. CASE \/ Routes(c) \/ Ends(c)
             \/ Continues(c) \/ Opens(c) \/ Completes(c)
             \/ Reads(c) \/ Closes(c)
    BY <1>1, <2>3, ShapeAtWork DEF Shape
  <2> QED
    BY <2>1, <2>2, <2>3 DEF ClientStep
<1>4. ASSUME NEW call \in late, CarryLate(call) PROVE Shape'
  <2>1. /\ server' = Carried(server, call) /\ late' = late \ {call}
        /\ UNCHANGED <<connection, op, commands, faults, redirected>>
    BY <1>4 DEF CarryLate
  <2>2. IsCall(call) /\ call.id <= commands
    BY CommandsAssumption DEF Shape, LateShape
  <2>3. ServerShape'
    BY <2>1, <2>2, ServerStep
  <2>4. OpShape'
    BY <2>1 DEF Shape, OpShape, OpIs
  <2>5. LateShape'
    BY <2>1 DEF Shape, LateShape
  <2> QED
    BY <1>1, <2>1, <2>3, <2>4, <2>5 DEF Shape
<1>5. ASSUME NEW n \in Node, Elect(n) PROVE Shape'
  <2>1. /\ server' = [server EXCEPT !.leader = n]
        /\ UNCHANGED <<late, connection, op, commands, redirected>>
    BY <1>5 DEF Elect
  <2>2. ServerShape'
    BY <2>1 DEF Shape, ServerShape, IsCluster
  <2>3. OpShape' /\ LateShape'
    BY <2>1 DEF Shape, OpShape, OpIs, LateShape
  <2> QED
    BY <1>1, <2>1, <2>2, <2>3 DEF Shape
<1> QED
  BY <1>2, <1>3, <1>4, <1>5 DEF Next

-----------------------------------------------------------------------------
(* What is said of an append is true. *)

LEMMA LogIs ==
    ASSUME Shape
    PROVE  server.log \in Seq(Stream \X Int) /\ Len(server.log) \in Nat
BY DEF Shape, ServerShape, IsCluster

LEMMA SameLog ==
    ASSUME server'.log = server.log
    PROVE  WrittenIds' = WrittenIds
BY DEF WrittenIds

\* An event more is written, the first of its command.
LEMMA OneMoreEvent ==
    ASSUME Shape, NEW i \in Nat, NEW source \in Stream, i \notin WrittenIds,
           server'.log = Append(server.log, <<source, i>>),
           \A k, l \in 1..Len(server.log) :
                server.log[k][2] = server.log[l][2] /\ server.log[k][2] \in 1..MaxCommands => k = l
    PROVE  /\ WrittenIds' = WrittenIds \cup {i}
           /\ \A k, l \in 1..Len(server'.log) :
                server'.log[k][2] = server'.log[l][2] /\ server'.log[k][2] \in 1..MaxCommands => k = l
<1> PICK log, more : log = server.log /\ more = Append(log, <<source, i>>)
  OBVIOUS
<1> PICK n \in Nat : n = Len(log)
  BY LogIs
<1>1. /\ Len(more) = n + 1 /\ more[n + 1] = <<source, i>>
      /\ \A k \in 1..n : more[k] = log[k]
  <2>1. log \in Seq(Stream \X Int) /\ <<source, i>> \in Stream \X Int
    BY LogIs
  <2> QED
    BY <2>1, AppendProperties
<1>2. 1..(n + 1) = 1..n \cup {n + 1} /\ n + 1 \notin 1..n
  OBVIOUS
<1>3. \A k \in 1..n : log[k][2] # i
  BY DEF WrittenIds
<1>4. WrittenIds' = WrittenIds \cup {i}
  <2>1. WrittenIds' = {more[k][2] : k \in 1..(n + 1)} /\ WrittenIds = {log[k][2] : k \in 1..n}
    BY <1>1 DEF WrittenIds
  <2> QED
    BY <1>1, <1>2, <2>1
<1>6. ASSUME NEW k \in 1..(n + 1), NEW l \in 1..(n + 1), more[k][2] = more[l][2],
             more[k][2] \in 1..MaxCommands
      PROVE  k = l
  BY <1>1, <1>2, <1>3, <1>6
<1> QED
  BY <1>1, <1>4, <1>6

\* Nothing is written or told, and no append is under way that was not before.
LEMMA AppendsLeft ==
    ASSUME Shape, AppendInv, NEW c \in Clients, NEW o, Become(c, o), o.id = op[c].id,
           server'.log = server.log, UNCHANGED <<late, commands, appends>>,
           o.at # Done /\ o.q.rpc = "Append" => op[c].at # Done /\ op[c].q.rpc = "Append"
    PROVE  AppendInv'
<1>1. op'[c] = o /\ \A d \in Clients : d # c => op'[d] = op[d]
  BY BecomeIs DEF Shape
<1>2. WrittenIds' = WrittenIds
  BY SameLog
<1>3. \A d \in Clients : op'[d].at # Done /\ op'[d].q.rpc = "Append" =>
          op'[d].id \notin WrittenIds /\ appends[op'[d].id] = "open"
  BY <1>1 DEF AppendInv
<1> QED
  BY <1>2, <1>3 DEF AppendInv

LEMMA AppendsIssue ==
    ASSUME Shape, AppendInv, NEW c \in Clients, NEW q \in Requests, Issue(c, q)
    PROVE  AppendInv'
<1> PICK o : o = [Idle EXCEPT !.at = "selecting", !.asked = q, !.q = q, !.id = commands + 1]
  OBVIOUS
<1>1. /\ o.id = commands + 1 /\ Become(c, o) /\ commands' = commands + 1
      /\ UNCHANGED <<server, late, appends>> /\ commands < MaxCommands
  BY DEF Issue, Become, Idle
<1>2. op'[c] = o /\ \A d \in Clients : d # c => op'[d] = op[d]
  BY <1>1, BecomeIs DEF Shape
<1>3. WrittenIds' = WrittenIds
  BY <1>1, SameLog
<1>4. /\ commands \in Nat /\ commands + 1 \in 1..MaxCommands /\ commands + 1 > commands
      /\ \A i \in 1..MaxCommands : i > commands + 1 => i > commands
  BY <1>1, CommandsAssumption DEF Shape
<1>5. commands + 1 \notin WrittenIds /\ appends[commands + 1] = "open"
  BY <1>4 DEF AppendInv
<1>6. ASSUME NEW d \in Clients, op'[d].at # Done, op'[d].q.rpc = "Append"
      PROVE  op'[d].id \notin WrittenIds' /\ appends'[op'[d].id] = "open"
  <2>1. CASE d = c
    <3>1. op'[d].id = commands + 1
      BY <1>1, <1>2, <2>1
    <3> QED
      BY <1>1, <1>3, <1>5, <3>1
  <2>2. CASE d # c
    <3>1. op'[d] = op[d]
      BY <1>2, <2>2
    <3>2. op[d].id \notin WrittenIds /\ appends[op[d].id] = "open"
      BY <1>6, <3>1 DEF AppendInv
    <3> QED
      BY <1>1, <1>3, <3>1, <3>2
  <2> QED
    BY <2>1, <2>2
<1>7. ASSUME NEW i \in 1..MaxCommands, i > commands'
      PROVE  i \notin WrittenIds' /\ appends'[i] = "open"
  <2>1. i > commands
    BY <1>1, <1>4, <1>7
  <2> QED
    BY <1>1, <1>3, <2>1 DEF AppendInv
<1>8. /\ \A call \in late' : call.rpc = "Append" =>
            call.id \notin WrittenIds' /\ appends'[call.id] \notin NotWritten \cup {"none"}
      /\ \A k, l \in 1..Len(server'.log) :
            server'.log[k][2] = server'.log[l][2] /\ server'.log[k][2] \in 1..MaxCommands
                => k = l
      /\ \A i \in 1..MaxCommands :
            /\ appends'[i] = "none" => i \in WrittenIds'
            /\ appends'[i] \in NotWritten => i \notin WrittenIds'
      /\ appends' = [i \in 1..MaxCommands |-> appends'[i]]
  BY <1>1, <1>3 DEF AppendInv
<1> QED
  BY <1>6, <1>7, <1>8 DEF AppendInv

LEMMA AppendsEnd ==
    ASSUME Shape, AppendInv, NEW c \in Clients, NEW e, EndsWith(c, e)
    PROVE  AppendInv'
<1>1. PICK o : Over(c, o) /\ o.error = e
  BY EndsIs
<1>2. /\ op[c].at # Done /\ e.name # "none" /\ server' = server /\ commands' = commands
      /\ o.at = Done /\ o.q = op[c].q /\ o.id = op[c].id /\ Become(c, o)
  BY <1>1 DEF EndsWith, Over
<1>3. op'[c] = o /\ \A d \in Clients : d # c => op'[d] = op[d]
  BY <1>2, BecomeIs DEF Shape
<1>4. WrittenIds' = WrittenIds
  BY <1>2, SameLog
<1> PICK i, call : i = op[c].id /\ call = CallOf(c)
  OBVIOUS
<1>5. /\ call.id = i /\ call.rpc = op[c].q.rpc /\ i \in 1..commands
      /\ \A l \in late : l.id # i
  BY <1>2, CallUnderWay
<1>6. i \in 1..MaxCommands /\ ~(i > commands) /\ commands \in Nat
  BY <1>5, CommandsAssumption DEF Shape
<1>7. CASE op[c].q.rpc # "Append"
  <2>1. appends' = appends
    BY <1>1, <1>2, <1>7 DEF Over
  <2>2. \A l \in late' : l.rpc = "Append" => l \in late
    BY <1>5, <1>7 DEF EndsWith
  <2>3. \A d \in Clients : op'[d].at # Done /\ op'[d].q.rpc = "Append" =>
            op'[d].id \notin WrittenIds /\ appends[op'[d].id] = "open"
    BY <1>2, <1>3 DEF AppendInv
  <2> QED
    BY <1>2, <1>4, <2>1, <2>2, <2>3 DEF AppendInv
<1>8. CASE op[c].q.rpc = "Append"
  <2>1. appends' = [appends EXCEPT ![i] = e.name] /\ i \notin WrittenIds
    BY <1>1, <1>2, <1>8 DEF Over, AppendInv
  <2>2. /\ appends' = [j \in 1..MaxCommands |-> appends'[j]]
        /\ appends'[i] = e.name
        /\ \A j : j \in 1..MaxCommands /\ j # i => appends'[j] = appends[j]
    BY <1>6, <2>1 DEF AppendInv
  <2>3. \A l \in late' : l.rpc = "Append" =>
            l.id \notin WrittenIds /\ appends'[l.id] \notin NotWritten \cup {"none"}
    <3>1. ASSUME NEW l \in late, l.rpc = "Append"
          PROVE  l.id \notin WrittenIds /\ appends'[l.id] \notin NotWritten \cup {"none"}
      <4>1. l.id \in 1..MaxCommands /\ l.id # i
        BY <1>5, CommandsAssumption DEF Shape, LateShape
      <4> QED
        BY <2>2, <3>1, <4>1 DEF AppendInv
    <3>2. \/ late' = late
          \/ late' = late \cup {call} /\ e.name \notin NotWritten
      BY DEF EndsWith
    <3> QED
      BY <1>2, <1>5, <2>1, <2>2, <3>1, <3>2
  <2>4. \A d \in Clients : op'[d].at # Done /\ op'[d].q.rpc = "Append" =>
            op'[d].id \notin WrittenIds /\ appends'[op'[d].id] = "open"
    <3>1. ASSUME NEW d \in Clients, op'[d].at # Done, op'[d].q.rpc = "Append"
          PROVE  op'[d].id \notin WrittenIds /\ appends'[op'[d].id] = "open"
      <4>1. d # c /\ op'[d] = op[d]
        BY <1>2, <1>3, <3>1
      <4>2. op[d].id # i /\ op[d].id \in 1..MaxCommands
        <5>1. op[d].id \in 1..commands
          BY <3>1, <4>1, CallUnderWay
        <5> QED
          BY <1>5, <4>1, <5>1, CommandsAssumption DEF Shape, OpShape
      <4> QED
        BY <2>2, <3>1, <4>1, <4>2 DEF AppendInv
    <3> QED
      BY <3>1
  <2>5. \A j \in 1..MaxCommands :
            /\ j > commands => j \notin WrittenIds /\ appends'[j] = "open"
            /\ appends'[j] = "none" => j \in WrittenIds
            /\ appends'[j] \in NotWritten => j \notin WrittenIds
    BY <1>2, <1>6, <2>1, <2>2 DEF AppendInv
  <2> QED
    BY <1>2, <1>4, <2>2, <2>3, <2>4, <2>5 DEF AppendInv
<1> QED
  BY <1>7, <1>8

\* An event is written by the command i that is under way or was given up.
LEMMA AppendsWrite ==
    ASSUME Shape, AppendInv, NEW i \in 1..commands, NEW source \in Stream,
           i \notin WrittenIds, server'.log = Append(server.log, <<source, i>>),
           commands' = commands,
           appends' = appends \/ appends' = [appends EXCEPT ![i] = "none"],
           appends'[i] \notin NotWritten,
           \A d \in Clients : op'[d].at # Done /\ op'[d].q.rpc = "Append" =>
                op[d].at # Done /\ op'[d].q.rpc = op[d].q.rpc /\ op'[d].id = op[d].id /\ op[d].id # i,
           late' \subseteq late, \A l \in late' : l.id # i
    PROVE  AppendInv'
<1>1. i \in Nat /\ i \in 1..MaxCommands /\ ~(i > commands)
  BY CommandsAssumption DEF Shape
<1>2. /\ WrittenIds' = WrittenIds \cup {i}
      /\ \A k, l \in 1..Len(server'.log) :
            server'.log[k][2] = server'.log[l][2] /\ server'.log[k][2] \in 1..MaxCommands => k = l
  BY <1>1, OneMoreEvent DEF AppendInv
<1>3. /\ appends' = [j \in 1..MaxCommands |-> appends'[j]]
      /\ \A j : j \in 1..MaxCommands /\ j # i => appends'[j] = appends[j]
  BY <1>1 DEF AppendInv
<1>4. ASSUME NEW d \in Clients, op'[d].at # Done, op'[d].q.rpc = "Append"
      PROVE  op'[d].id \notin WrittenIds' /\ appends'[op'[d].id] = "open"
  <2>1. op[d].at # Done /\ op[d].q.rpc = "Append" /\ op'[d].id = op[d].id /\ op[d].id # i
    BY <1>4
  <2>2. op[d].id \in 1..MaxCommands
    <3>1. op[d].id \in 1..commands
      BY <2>1, CallUnderWay
    <3> QED
      BY <3>1, CommandsAssumption DEF Shape
  <2>3. op[d].id \notin WrittenIds /\ appends[op[d].id] = "open"
    BY <2>1 DEF AppendInv
  <2> PICK n : n = op[d].id
    OBVIOUS
  <2>4. n \notin WrittenIds'
    BY <1>2, <2>1, <2>3
  <2> QED
    BY <1>3, <2>1, <2>2, <2>3, <2>4
<1>5. ASSUME NEW l \in late', l.rpc = "Append"
      PROVE  l.id \notin WrittenIds' /\ appends'[l.id] \notin NotWritten \cup {"none"}
  <2>1. l \in late /\ l.id # i
    OBVIOUS
  <2>2. l.id \in 1..MaxCommands
    BY <2>1, CommandsAssumption DEF Shape, LateShape
  <2>3. l.id \notin WrittenIds /\ appends[l.id] \notin NotWritten \cup {"none"}
    BY <1>5, <2>1 DEF AppendInv
  <2> QED
    BY <1>2, <1>3, <2>1, <2>2, <2>3
<1>6. ASSUME NEW j \in 1..MaxCommands
      PROVE  /\ j > commands => j \notin WrittenIds' /\ appends'[j] = "open"
             /\ appends'[j] = "none" => j \in WrittenIds'
             /\ appends'[j] \in NotWritten => j \notin WrittenIds'
  <2>1. CASE j = i
    BY <1>1, <1>2, <2>1
  <2>2. CASE j # i
    BY <1>2, <1>3, <2>2 DEF AppendInv
  <2> QED
    BY <2>1, <2>2
<1> QED
  BY <1>2, <1>3, <1>4, <1>5, <1>6 DEF AppendInv

LEMMA AppendsStep ==
    ASSUME Shape, AppendInv, [Next]_vars
    PROVE  AppendInv'
<1>1. IsCluster(server) /\ commands \in Nat
  BY CommandsAssumption DEF Shape, ServerShape
<1>2. CASE UNCHANGED vars
  BY <1>2 DEF vars, AppendInv, WrittenIds
<1>3. ASSUME NEW c \in Clients, Client(c) PROVE AppendInv'
  <2>1. ClientStep(c)
    BY <1>3, ClientSteps
  <2>2. CASE \E q \in Requests : Issue(c, q)
    BY <2>2, AppendsIssue
  <2>3. CASE Ends(c)
    BY <2>3, AppendsEnd DEF Ends
  <2>4. CASE Routes(c)
    <3>1. PICK o : Further(c, o) /\ o.q = op[c].q
      BY <2>4, FurtherIs
    <3> QED
      BY <2>4, <3>1, AppendsLeft DEF Further, Routes, Done
  <2>5. CASE Closes(c)
    <3>1. PICK o : Over(c, o)
      BY <2>5, ClosesIs
    <3>2. op[c].q.rpc # "Append"
      BY <2>5, RequestIs DEF Closes, Shape, OpShape, OpIs
    <3> QED
      BY <2>5, <3>1, <3>2, AppendsLeft DEF Over, Closes, Done
  <2>6. CASE Reads(c)
    <3>1. PICK o : Further(c, o) /\ o.q = op[c].q
      BY <2>6, FurtherIs
    <3> QED
      BY <2>6, <3>1, AppendsLeft DEF Further, Reads, Done
  <2> PICK call, i : call = CallOf(c) /\ i = op[c].id
    OBVIOUS
  <2>7. ASSUME Continues(c) \/ Opens(c) \/ (Completes(c) /\ op[c].q.rpc # "Append")
        PROVE  AppendInv'
    <3>1. op[c].at # Done /\ op[c].q \in AnyRequest /\ Accepts(c)
      BY <2>7 DEF Continues, Opens, Completes, Accepts, Done, Shape, OpShape, OpIs
    <3>2. call.rpc = op[c].q.rpc /\ op[c].q.rpc # "Append"
      BY <2>7, <3>1, RequestIs, CallUnderWay DEF Continues, Opens
    <3>3. server'.log = server.log
      BY <1>1, <3>1, <3>2, CarriedLog DEF Accepts
    <3>4. CASE Continues(c)
      <4>1. PICK o : Further(c, o) /\ o.q = EmitEnabled
        BY <3>4, FurtherIs
      <4>2. o.q.rpc # "Append"
        BY <4>1 DEF EmitEnabled, update_projection, Projection, Request
      <4> QED
        BY <3>1, <3>3, <4>1, <4>2, AppendsLeft DEF Further, Accepts
    <3>5. CASE Opens(c)
      <4>1. PICK o : Further(c, o) /\ o.q = op[c].q
        BY <3>5, FurtherIs
      <4> QED
        BY <3>1, <3>2, <3>3, <4>1, AppendsLeft DEF Further, Accepts
    <3>6. CASE Completes(c)
      <4>1. PICK o : Over(c, o)
        BY <3>6, CompletesIs
      <4> QED
        BY <3>1, <3>2, <3>3, <4>1, AppendsLeft DEF Over, Accepts
    <3> QED
      BY <2>7, <3>4, <3>5, <3>6
  <2>8. ASSUME Completes(c), op[c].q.rpc = "Append"
        PROVE  AppendInv'
    <3>1. /\ op[c].at # Done /\ Taken(server, call) /\ server' = Carried(server, call)
          /\ late' = late /\ commands' = commands
      BY <2>8 DEF Completes, Accepts, Done
    <3>2. /\ IsCall(call) /\ call.id = i /\ call.rpc = "Append" /\ i \in 1..commands
          /\ \A l \in late : l.id # i
      BY <2>8, <3>1, CallUnderWay
    <3>3. call.source \in Stream /\ server'.log = Append(server.log, <<call.source, i>>)
      BY <1>1, <3>1, <3>2, CallShape, CarriedLog
    <3>4. op[c].error.name = "none" /\ i \notin WrittenIds
      BY <2>8, <3>1 DEF Shape, OpShape, OpIs, Failure, Error, AppendInv
    <3>5. PICK o : Over(c, o) /\ o.error = op[c].error
      BY <2>8, CompletesIs
    <3>6. appends' = [appends EXCEPT ![i] = "none"]
      BY <2>8, <3>4, <3>5 DEF Over
    <3>7. appends'[i] \notin NotWritten
      <4>1. i \in 1..MaxCommands
        BY <3>2, CommandsAssumption DEF Shape
      <4>2. appends'[i] = "none"
        BY <3>6, <4>1 DEF AppendInv
      <4> QED
        BY <4>2 DEF NotWritten
    <3>8. ASSUME NEW d \in Clients, op'[d].at # Done
          PROVE  op[d].at # Done /\ op'[d].q = op[d].q /\ op'[d].id = op[d].id /\ op[d].id # i
      <4>1. op'[c] = o /\ \A f \in Clients : f # c => op'[f] = op[f]
        BY <3>5, BecomeIs DEF Shape, Over
      <4>2. d # c
        BY <3>5, <3>8, <4>1 DEF Over
      <4> QED
        BY <3>2, <3>8, <4>1, <4>2, <1>1 DEF Shape, OpShape
    <3> QED
      BY <3>1, <3>2, <3>3, <3>4, <3>6, <3>7, <3>8, AppendsWrite
  <2> QED
    BY <2>1, <2>2, <2>3, <2>4, <2>5, <2>6, <2>7, <2>8 DEF ClientStep
<1>4. ASSUME NEW call \in late, CarryLate(call) PROVE AppendInv'
  <2>1. /\ server' = Carried(server, call) /\ late' = late \ {call}
        /\ UNCHANGED <<op, commands, appends>>
    BY <1>4 DEF CarryLate
  <2>2. /\ IsCall(call) /\ call.id \in 1..commands
        /\ \A l \in late' : l.id # call.id
        /\ \A d \in Clients : op[d].at # Done => op[d].id # call.id
    BY <2>1 DEF Shape, LateShape
  <2>3. CASE call.rpc = "Append" /\ Taken(server, call)
    <3>1. call.source \in Stream /\ server'.log = Append(server.log, <<call.source, call.id>>)
      BY <1>1, <2>1, <2>2, <2>3, CallShape, CarriedLog
    <3>2. call.id \notin WrittenIds /\ appends[call.id] \notin NotWritten
      BY <2>3 DEF AppendInv
    <3> QED
      BY <2>1, <2>2, <3>1, <3>2, AppendsWrite
  <2>4. CASE ~(call.rpc = "Append" /\ Taken(server, call))
    <3>1. server'.log = server.log
      BY <1>1, <2>1, <2>4, CarriedLog
    <3> QED
      BY <2>1, <3>1, SameLog DEF AppendInv
  <2> QED
    BY <2>3, <2>4
<1>5. ASSUME NEW n \in Node, Elect(n) PROVE AppendInv'
  <2>1. server'.log = server.log /\ UNCHANGED <<late, op, commands, appends>>
    BY <1>1, <1>5 DEF Elect, IsCluster
  <2> QED
    BY <2>1, SameLog DEF AppendInv
<1> QED
  BY <1>2, <1>3, <1>4, <1>5 DEF Next

LEMMA AppendsInit == Init => AppendInv
<1> SUFFICES ASSUME Init PROVE AppendInv
  OBVIOUS
<1>1. /\ server \in InitialServers /\ late = {} /\ \A c \in Clients : op[c].at = Done
      /\ appends = [i \in 1..MaxCommands |-> "open"]
  BY DEF Init, Idle
<1>2. \A k \in 1..Len(server.log) : server.log[k][2] \notin 1..MaxCommands
  BY <1>1, InitialServersAssumption
<1>3. \A i \in 1..MaxCommands : i \notin WrittenIds
  BY <1>2 DEF WrittenIds
<1> QED
  BY <1>1, <1>2, <1>3 DEF AppendInv, NotWritten

LEMMA AppendsAreTrue ==
    ASSUME Shape, AppendInv
    PROVE  AppendOutcomeIsTrue
<1>1. ASSUME NEW i \in 1..MaxCommands
      PROVE  /\ Cardinality(Occurrences(i)) <= 1
             /\ appends[i] = "none" => Occurrences(i) # {}
             /\ appends[i] \in NotWritten => Occurrences(i) = {}
  <2>1. /\ Occurrences(i) = {} => i \notin WrittenIds
        /\ i \notin WrittenIds => Occurrences(i) = {}
    BY DEF Occurrences, WrittenIds
  <2>2. \A k, l \in Occurrences(i) : k = l
    BY DEF Occurrences, AppendInv
  <2>3. Cardinality(Occurrences(i)) <= 1
    <3>1. CASE Occurrences(i) = {}
      <4>1. Cardinality(Occurrences(i)) = 0
        BY <3>1, FS_EmptySet
      <4> QED
        BY <4>1
    <3>2. ASSUME NEW k \in Occurrences(i) PROVE Cardinality(Occurrences(i)) <= 1
      <4>1. Occurrences(i) = {k}
        BY <2>2
      <4>2. Cardinality(Occurrences(i)) = 1
        BY <4>1, FS_Singleton
      <4> QED
        BY <4>2
    <3> QED
      BY <3>1, <3>2
  <2> QED
    BY <2>1, <2>3 DEF AppendInv
<1> QED
  BY <1>1 DEF AppendOutcomeIsTrue

-----------------------------------------------------------------------------
(* A projection that was created to emit does. *)

\* A call is carried out: what holds of a command that is not the call's still does.
LEMMA ProjectionCarried ==
    ASSUME NEW s, IsCluster(s), NEW call, NEW p, p = s.projection,
           NEW r, r = Carried(s, call).projection, CallWillEmit(call, p)
    PROVE  /\ \A o : /\ WillEmit(o, p) /\ HasEmit(o, p)
                     /\ call.rpc = "CreateProjection" /\ o.id = call.id
                            => o.q.rpc = "CreateProjection"
                     => WillEmit(o, r) /\ HasEmit(o, r)
           /\ \A l : CallWillEmit(l, p) /\ l.id # call.id => CallWillEmit(l, r)
           /\ \A o : /\ WillEmit(o, p) /\ o.id = call.id /\ o.q.rpc = call.rpc
                     /\ call.rpc = "UpdateProjection" => call.emit = o.q.emit
                     => WillEmit(o, r) /\ (Taken(s, call) => HasEmit(o, r))
<1>1. CASE call.rpc = "CreateProjection" /\ Taken(s, call)
  <2>1. r.by = call.id
    BY <1>1, ProjectionCreated
  <2>2. ASSUME NEW o, o.id = call.id => o.q.rpc = "CreateProjection"
        PROVE  WillEmit(o, r) /\ HasEmit(o, r)
    BY <2>1, <2>2 DEF WillEmit, HasEmit
  <2>3. \A l : l.id # call.id => CallWillEmit(l, r)
    BY <2>1 DEF CallWillEmit
  <2> QED
    BY <1>1, <2>2, <2>3
<1>2. CASE call.rpc = "UpdateProjection" /\ Taken(s, call)
  <2>1. /\ r.exists = p.exists /\ r.by = p.by /\ (call.emit = "on" => r.emit)
        /\ ~r.touched => ~p.touched /\ call.id = p.by
    BY <1>2, ProjectionUpdated DEF Touches
  <2>2. ASSUME NEW o, WillEmit(o, p), HasEmit(o, p) PROVE WillEmit(o, r) /\ HasEmit(o, r)
    BY <1>2, <2>1, <2>2 DEF WillEmit, HasEmit, CallWillEmit
  <2>3. ASSUME NEW o, WillEmit(o, p), o.id = call.id, call.emit = o.q.emit
        PROVE  WillEmit(o, r) /\ HasEmit(o, r)
    BY <1>2, <2>1, <2>3 DEF WillEmit, HasEmit, CallWillEmit
  <2>4. \A l : CallWillEmit(l, p) => CallWillEmit(l, r)
    BY <2>1 DEF CallWillEmit
  <2> QED
    BY <1>2, <2>2, <2>3, <2>4
<1>3. CASE ~(call.rpc \in {"CreateProjection", "UpdateProjection"} /\ Taken(s, call))
  <2>1. r = p \/ r = [p EXCEPT !.exists = FALSE, !.touched = TRUE]
    BY <1>3, ProjectionLeft
  <2>2. r = p \/ (r.by = p.by /\ ~r.exists)
    BY <2>1 DEF IsCluster
  <2> QED
    BY <1>3, <2>2 DEF WillEmit, HasEmit, CallWillEmit
<1> QED
  BY <1>1, <1>2, <1>3

\* The call of a command under way makes the projection emit if the command does.
LEMMA CallOfWillEmit ==
    ASSUME Shape, ProjectionInv, NEW c \in Clients, op[c].at # Done
    PROVE  CallWillEmit(CallOf(c), server.projection) /\ CallOf(c).emit = op[c].q.emit
<1>1. /\ CallOf(c).id = op[c].id /\ CallOf(c).rpc = op[c].q.rpc
      /\ CallOf(c).emit = op[c].q.emit /\ op[c].id # 0
  BY CallOfIs, CallIs DEF Shape, OpShape, OpIs
<1> QED
  BY <1>1 DEF ProjectionInv, WillEmit, CallWillEmit

\* Only the record of c changes.
LEMMA ProjectionsOfOthers ==
    ASSUME Shape, ProjectionInv, NEW c \in Clients, NEW o, Become(c, o),
           server' = server, WillEmit(o, server.projection), HasEmit(o, server.projection),
           \A call \in late' : CallWillEmit(call, server.projection)
    PROVE  ProjectionInv'
<1>1. op'[c] = o /\ \A d \in Clients : d # c => op'[d] = op[d]
  BY BecomeIs DEF Shape
<1> PICK p : p = server.projection /\ p = server'.projection
  OBVIOUS
<1>2. ASSUME NEW d \in Clients PROVE WillEmit(op'[d], p) /\ HasEmit(op'[d], p)
  BY <1>1 DEF ProjectionInv
<1> QED
  BY <1>2 DEF ProjectionInv, WillEmit, HasEmit, CallWillEmit

\* The call of c is carried out.
LEMMA ProjectionsAccepted ==
    ASSUME Shape, ProjectionInv, NEW c \in Clients, NEW o, Become(c, o), Accepts(c),
           WillEmit(o, server'.projection), HasEmit(o, server'.projection)
    PROVE  ProjectionInv'
<1> PICK call, p, r :
        /\ call = CallOf(c) /\ p = server.projection /\ r = server'.projection
  OBVIOUS
<1>1. op'[c] = o /\ \A d \in Clients : d # c => op'[d] = op[d]
  BY BecomeIs DEF Shape
<1>2. /\ op[c].at # Done /\ r = Carried(server, call).projection /\ late' = late
      /\ IsCluster(server)
  BY DEF Accepts, Done, Shape, ServerShape
<1>3. /\ call.id = op[c].id /\ \A l \in late : l.id # call.id
      /\ CallWillEmit(call, p) /\ op[c].id # 0
  BY <1>2, CallUnderWay, CallOfWillEmit
<1>4. ASSUME NEW d \in Clients PROVE WillEmit(op'[d], r) /\ HasEmit(op'[d], r)
  <2>1. CASE d = c
    BY <1>1, <2>1
  <2>2. CASE d # c
    <3>1. op'[d] = op[d] /\ op[d].id # call.id
      BY <1>1, <1>3, <2>2 DEF Shape, OpShape
    <3>2. WillEmit(op[d], p) /\ HasEmit(op[d], p)
      BY DEF ProjectionInv
    <3> QED
      BY <1>2, <1>3, <3>1, <3>2, ProjectionCarried
  <2> QED
    BY <2>1, <2>2
<1>5. ASSUME NEW l \in late PROVE CallWillEmit(l, r)
  BY <1>2, <1>3, ProjectionCarried DEF ProjectionInv
<1> QED
  BY <1>2, <1>4, <1>5 DEF ProjectionInv, WillEmit, HasEmit, CallWillEmit

LEMMA ProjectionsStep ==
    ASSUME Shape, ProjectionInv, [Next]_vars
    PROVE  ProjectionInv'
<1> PICK p : p = server.projection
  OBVIOUS
<1>1. IsCluster(server) /\ commands \in Nat /\ p.by \in 0..commands
  BY CommandsAssumption DEF Shape, ServerShape
<1>2. CASE UNCHANGED vars
  BY <1>2 DEF vars, ProjectionInv, WillEmit, HasEmit, CallWillEmit
<1>3. ASSUME NEW c \in Clients, Client(c) PROVE ProjectionInv'
  <2>1. ClientStep(c) /\ OpIs(op[c])
    BY <1>3, ClientSteps DEF Shape, OpShape
  <2>2. ASSUME NEW q \in Requests, Issue(c, q) PROVE ProjectionInv'
    <3> PICK o : o = [Idle EXCEPT !.at = "selecting", !.asked = q, !.q = q, !.id = commands + 1]
      OBVIOUS
    <3>1. /\ o.id = commands + 1 /\ o.at # Done /\ Become(c, o) /\ server' = server
          /\ late' = late
      BY <2>2 DEF Issue, Become, Idle, Done
    <3>2. WillEmit(o, p) /\ HasEmit(o, p)
      BY <1>1, <3>1 DEF WillEmit, HasEmit
    <3> QED
      BY <3>1, <3>2, ProjectionsOfOthers DEF ProjectionInv
  <2>3. ASSUME NEW e, EndsWith(c, e) PROVE ProjectionInv'
    <3>1. PICK o : Over(c, o) /\ o.error = e
      BY <2>3, EndsIs
    <3>2. server' = server /\ e.name # "none" /\ op[c].at # Done /\ late' \subseteq late \cup {CallOf(c)}
      BY <2>3 DEF EndsWith
    <3>3. WillEmit(o, p) /\ HasEmit(o, p)
      BY <3>1, <3>2 DEF Over, ProjectionInv, WillEmit, HasEmit
    <3>4. \A call \in late' : CallWillEmit(call, p)
      BY <3>2, CallOfWillEmit DEF ProjectionInv
    <3> QED
      BY <3>1, <3>2, <3>3, <3>4, ProjectionsOfOthers DEF Over
  <2>4. ASSUME NEW o, Further(c, o), o.at # Done, o.q = op[c].q, UNCHANGED <<server, late>>
        PROVE  ProjectionInv'
    <3>1. WillEmit(o, p) /\ HasEmit(o, p)
      BY <2>4 DEF Further, ProjectionInv, WillEmit, HasEmit
    <3> QED
      BY <2>4, <3>1, ProjectionsOfOthers DEF Further, ProjectionInv
  <2>5. CASE Routes(c)
    <3>1. PICK o : Further(c, o) /\ o.at \in {"grpc", "http"} /\ o.q = op[c].q
      BY <2>5, FurtherIs
    <3> QED
      BY <2>4, <2>5, <3>1 DEF Routes, Done
  <2>6. CASE Reads(c)
    <3>1. PICK o : Further(c, o) /\ o.at = "open" /\ o.q = op[c].q
      BY <2>6, FurtherIs
    <3> QED
      BY <2>4, <2>6, <3>1 DEF Reads, Done
  <2>7. CASE Closes(c)
    <3>1. PICK o : Over(c, o)
      BY <2>7, ClosesIs
    <3>2. op[c].q.streamed /\ UNCHANGED <<server, late>>
      BY <2>1, <2>7 DEF Closes, OpIs, Done
    <3>3. op[c].q.rpc # "UpdateProjection"
      BY <2>1, <3>2, RequestIs DEF OpIs
    <3>4. WillEmit(o, p) /\ HasEmit(o, p)
      BY <3>1, <3>3 DEF Over, WillEmit, HasEmit
    <3> QED
      BY <3>1, <3>2, <3>4, ProjectionsOfOthers DEF Over, ProjectionInv
  <2> PICK r : r = server'.projection
    OBVIOUS
  <2>8. CASE Continues(c)
    <3>1. PICK o : Further(c, o) /\ o.at = "selecting" /\ o.q = EmitEnabled
      BY <2>8, FurtherIs
    <3>2. o.q.emit = "on"
      BY <3>1 DEF EmitEnabled, update_projection, Projection, Request
    <3>3. WillEmit(o, r) /\ HasEmit(o, r)
      BY <3>1, <3>2 DEF WillEmit, HasEmit, Done
    <3> QED
      BY <2>8, <3>1, <3>3, ProjectionsAccepted DEF Continues, Further
  <2>9. CASE Opens(c)
    <3>1. PICK o : Further(c, o) /\ o.at = "open" /\ o.q = op[c].q
      BY <2>9, FurtherIs
    <3>2. op[c].q.rpc # "UpdateProjection"
      BY <2>1, <2>9, RequestIs DEF Opens, OpIs
    <3>3. WillEmit(o, r) /\ HasEmit(o, r)
      BY <3>1, <3>2 DEF WillEmit, HasEmit
    <3> QED
      BY <2>9, <3>1, <3>3, ProjectionsAccepted DEF Opens, Further
  <2>10. CASE Completes(c)
    <3>1. PICK o : Over(c, o)
      BY <2>10, CompletesIs
    <3> PICK call : call = CallOf(c)
      OBVIOUS
    <3>2. /\ Accepts(c) /\ op[c].at # Done
          /\ r = Carried(server, call).projection /\ Taken(server, call)
      BY <2>10 DEF Completes, Accepts, Done
    <3>3. /\ CallWillEmit(call, p) /\ o.id = call.id /\ o.q.rpc = call.rpc
          /\ call.emit = o.q.emit
      BY <3>1, <3>2, CallUnderWay, CallOfWillEmit DEF Over
    <3>4. WillEmit(o, p)
      BY <3>1 DEF Over, ProjectionInv, WillEmit
    <3>5. WillEmit(o, r) /\ HasEmit(o, r)
      BY <1>1, <3>2, <3>3, <3>4, ProjectionCarried
    <3> QED
      BY <3>1, <3>2, <3>5, ProjectionsAccepted DEF Over
  <2> QED
    BY <2>1, <2>2, <2>3, <2>5, <2>6, <2>7, <2>8, <2>9, <2>10 DEF ClientStep, Ends
<1>4. ASSUME NEW call \in late, CarryLate(call) PROVE ProjectionInv'
  <2> PICK r : r = server'.projection
    OBVIOUS
  <2>1. r = Carried(server, call).projection /\ late' = late \ {call} /\ op' = op
    BY <1>4 DEF CarryLate
  <2>2. /\ CallWillEmit(call, p) /\ \A l \in late' : l.id # call.id
        /\ \A d \in Clients : op[d].id = call.id => op[d].q.rpc = call.rpc
    BY <2>1 DEF Shape, LateShape, ProjectionInv
  <2>3. ASSUME NEW d \in Clients PROVE WillEmit(op[d], r) /\ HasEmit(op[d], r)
    <3>1. WillEmit(op[d], p) /\ HasEmit(op[d], p)
      BY DEF ProjectionInv
    <3> QED
      BY <1>1, <2>1, <2>2, <3>1, ProjectionCarried
  <2>4. ASSUME NEW l \in late' PROVE CallWillEmit(l, r)
    <3>1. CallWillEmit(l, p) /\ l.id # call.id
      BY <2>1, <2>2 DEF ProjectionInv
    <3> QED
      BY <1>1, <2>1, <2>2, <3>1, ProjectionCarried
  <2> QED
    BY <2>1, <2>3, <2>4 DEF ProjectionInv, WillEmit, HasEmit, CallWillEmit
<1>5. ASSUME NEW n \in Node, Elect(n) PROVE ProjectionInv'
  <2>1. server'.projection = p /\ UNCHANGED <<late, op>>
    BY <1>1, <1>5 DEF Elect, IsCluster
  <2> QED
    BY <2>1 DEF ProjectionInv, WillEmit, HasEmit, CallWillEmit
<1> QED
  BY <1>2, <1>3, <1>4, <1>5 DEF Next

-----------------------------------------------------------------------------
(* A listing is the server's. *)

\* What is answered of the groups: one info a group, of what it has processed.
Listed(infos, groups) ==
    /\ Cardinality(infos) = Cardinality(groups)
    /\ \A g \in groups : g.done >= 0 =>
          \E i \in infos :
              /\ <<i.source, i.done, i.strategy>> = <<g.source, g.done, g.strategy>>
              /\ StartsAt(i.from) = g.from
ListingInv ==
    \A c \in Clients :
        op[c].at = Done /\ op[c].id # 0 /\ op[c].error.name = "none"
        /\ op[c].q.rpc \in listings
            => Listed(op[c].infos, op[c].truth)

\* An info, by gRPC and by HTTP, says what the group is.
LEMMA InfoIs ==
    ASSUME NEW c \in Clients, NEW g, g.from \in Nat \cup {-1}, g.done \in Nat \cup {-1},
           g.done < WordSize
    PROVE  /\ InfoOf(c, g).source = g.source /\ InfoOf(c, g).strategy = g.strategy
           /\ g.done >= 0 => InfoOf(c, g).done = g.done
           /\ StartsAt(InfoOf(c, g).from) = g.from
<1>1. StartsAt(parse_stream_position(g.from)) = g.from
  <2>1. CASE g.from = -1
    BY <2>1 DEF StartsAt, parse_stream_position
  <2>2. CASE g.from = 0
    BY <2>2 DEF StartsAt, parse_stream_position
  <2>3. CASE g.from \in Nat \ {0}
    BY <2>3 DEF StartsAt, parse_stream_position, At
  <2> QED
    BY <2>1, <2>2, <2>3
<1>2. g.done >= 0 => u64(g.done) = g.done
  BY CommandsAssumption DEF u64
<1>3. CASE op[c].at = "grpc"
  BY <1>1, <1>3 DEF InfoOf, try_from_info
<1>4. CASE op[c].at # "grpc"
  BY <1>1, <1>2, <1>4 DEF InfoOf, from_http_info
<1> QED
  BY <1>3, <1>4

LEMMA ListingIs ==
    ASSUME Shape, NEW c \in Clients, op[c].q.rpc \in listings
    PROVE  Listed({InfoOf(c, g) : g \in InfosOf(c)}, InfosOf(c))
<1> PICK groups : groups = InfosOf(c)
  OBVIOUS
<1>1. groups \subseteq server.groups
  BY DEF InfosOf, Groups
<1>2. IsFiniteSet(groups)
  BY <1>1, FS_Subset DEF Shape, ServerShape, IsCluster
<1>3. /\ \A g \in groups : /\ g.from \in Nat \cup {-1} /\ g.done \in Nat \cup {-1}
                           /\ g.done < WordSize
      /\ \A g, h \in groups : g.source = h.source => g = h
  BY <1>1 DEF Shape, ServerShape, IsCluster
<1> PICK f : f = [g \in groups |-> InfoOf(c, g)]
  OBVIOUS
<1> PICK infos : infos = {InfoOf(c, g) : g \in groups}
  OBVIOUS
<1>4. \A g \in groups : /\ f[g] \in infos /\ f[g].source = g.source /\ f[g].strategy = g.strategy
                        /\ g.done >= 0 => f[g].done = g.done
                        /\ StartsAt(f[g].from) = g.from
  BY <1>3, InfoIs
<1>5. f \in [groups -> infos] /\ \A i \in infos : \E g \in groups : f[g] = i
  BY <1>4
<1>6. \A g, h \in groups : f[g] = f[h] => g = h
  BY <1>3, <1>4
<1>7. f \in Surjection(groups, infos) /\ f \in Injection(groups, infos)
  BY <1>5, <1>6, Fun_IsSurj, Fun_IsInj
<1>8. Cardinality(infos) = Cardinality(groups)
  BY <1>2, <1>7, FS_Surjection
<1> QED
  BY <1>4, <1>8 DEF Listed

LEMMA ListingsStep ==
    ASSUME Shape, ListingInv, [Next]_vars
    PROVE  ListingInv'
<1>1. CASE op' = op
  BY <1>1 DEF ListingInv
<1>2. ASSUME NEW c \in Clients, NEW o, Become(c, o),
             \/ o.at # Done \/ o.error.name # "none" \/ o.q.rpc \notin listings
             \/ Listed(o.infos, o.truth)
      PROVE  ListingInv'
  <2>1. op'[c] = o /\ \A d \in Clients : d # c => op'[d] = op[d]
    BY <1>2, BecomeIs DEF Shape
  <2> QED
    BY <1>2, <2>1 DEF ListingInv
<1>3. ASSUME NEW c \in Clients, Client(c) PROVE ListingInv'
  <2>1. ClientStep(c) /\ OpIs(op[c])
    BY <1>3, ClientSteps DEF Shape, OpShape
  <2>2. ASSUME NEW q \in Requests, Issue(c, q) PROVE ListingInv'
    <3> PICK o : o = [Idle EXCEPT !.at = "selecting", !.asked = q, !.q = q, !.id = commands + 1]
      OBVIOUS
    <3>1. o.at # Done /\ Become(c, o)
      BY <2>2 DEF Issue, Become, Idle, Done
    <3> QED
      BY <1>2, <3>1
  <2>3. ASSUME NEW e, EndsWith(c, e) PROVE ListingInv'
    <3>1. PICK o : Over(c, o) /\ o.error = e
      BY <2>3, EndsIs
    <3>2. e.name # "none" /\ Become(c, o)
      BY <2>3, <3>1 DEF EndsWith, Over
    <3> QED
      BY <1>2, <3>1, <3>2
  <2>4. CASE Routes(c) \/ Continues(c) \/ Opens(c) \/ Reads(c)
    <3>1. PICK o : Further(c, o) /\ o.at \in {"selecting", "grpc", "http", "open"}
      BY <2>4, FurtherIs
    <3>2. o.at # Done /\ Become(c, o)
      BY <3>1 DEF Further, Done
    <3> QED
      BY <1>2, <3>2
  <2>5. CASE Closes(c)
    <3>1. PICK o : Over(c, o)
      BY <2>5, ClosesIs
    <3>2. op[c].q.rpc \notin listings
      BY <2>1, <2>5, RequestIs DEF Closes, OpIs, Done
    <3>3. o.q.rpc \notin listings /\ Become(c, o)
      BY <3>1, <3>2 DEF Over
    <3> QED
      BY <1>2, <3>3
  <2>6. CASE Completes(c)
    <3>1. PICK o : /\ Over(c, o)
                   /\ o.truth = InfosOf(c) /\ o.infos = {InfoOf(c, g) : g \in InfosOf(c)}
      BY <2>6, CompletesIs
    <3>2. o.q.rpc \in listings => Listed(o.infos, o.truth)
      BY <3>1, ListingIs DEF Over
    <3>3. Become(c, o)
      BY <3>1 DEF Over
    <3> QED
      BY <1>2, <3>2, <3>3
  <2> QED
    BY <2>1, <2>2, <2>3, <2>4, <2>5, <2>6 DEF ClientStep, Ends
<1>4. op' = op \/ \E c \in Clients : Client(c)
  BY DEF Next, vars, CarryLate, Elect
<1> QED
  BY <1>1, <1>3, <1>4

-----------------------------------------------------------------------------
(* A read is complete. *)

LEMMA IsSeq ==
    ASSUME NEW S, NEW n \in Nat, NEW f \in [1..n -> S]
    PROVE  f \in Seq(S) /\ Len(f) = n
OBVIOUS

LEMMA ReadableIs ==
    ASSUME NEW s, IsCluster(s), NEW source \in Stream \cup {All}
    PROVE  Readable(s, source) \in Seq(Int)
<1>1. s.log \in Seq(Stream \X Int)
  BY DEF IsCluster
<1>2. CASE source = All
  <2>1. /\ Len(s.log) \in Nat
        /\ \A k \in 1..Len(s.log) : s.log[k][2] \in Int
    BY <1>1
  <2>2. [k \in 1..Len(s.log) |-> s.log[k][2]] \in Seq(Int)
    BY <2>1
  <2> QED
    BY <1>2, <2>2 DEF Readable
<1>3. CASE source # All
  <2> PICK events : events = Written(s, source)
    OBVIOUS
  <2>1. events \in Seq(Stream \X Int) /\ s.start[source] \in Nat
    BY <1>1, <1>3, WrittenIs DEF IsCluster
  <2> PICK start \in Nat : start = s.start[source]
    BY <2>1
  <2> PICK n \in Int : n = Len(events) - start
    BY <2>1
  <2>2. \A k \in 1..n : events[k + start][2] \in Int
    <3> SUFFICES ASSUME NEW k \in 1..n PROVE events[k + start][2] \in Int
      OBVIOUS
    <3>1. k + start \in 1..Len(events)
      <4>1. Len(events) \in Nat
        BY <2>1
      <4> QED
        BY <4>1
    <3>2. events[k + start] \in Stream \X Int
      BY <2>1, <3>1, ElementOfSeq
    <3> QED
      BY <3>2
  <2> PICK f : f = [k \in 1..n |-> events[k + start][2]]
    OBVIOUS
  <2>3. f \in Seq(Int)
    <3>1. CASE n \in Nat
      <4>1. f \in [1..n -> Int]
        BY <2>2
      <4> QED
        BY <3>1, <4>1, IsSeq
    <3>2. CASE n \notin Nat
      <4>1. 1..n = 1..0
        BY <3>2
      <4>2. f \in [1..0 -> Int]
        BY <2>2, <4>1
      <4> QED
        BY <4>2, IsSeq
    <3> QED
      BY <3>1, <3>2
  <2>4. f = Readable(s, source)
    BY <1>3 DEF Readable
  <2> QED
    BY <2>3, <2>4
<1> QED
  BY <1>2, <1>3

\* r is a, then e, then b.
Spliced(a, b, e, r) ==
    /\ Len(r) = Len(a) + Len(b) + 1
    /\ \A k \in 1..Len(r) :
         /\ k <= Len(a) => r[k] = a[k]
         /\ k = Len(a) + 1 => r[k] = e
         /\ k > Len(a) + 1 => r[k] = b[k - (Len(a) + 1)]
LEMMA SplicedIs ==
    ASSUME NEW S, NEW a \in Seq(S), NEW b \in Seq(S), NEW e \in S
    PROVE  a \o <<e>> \o b \in Seq(S) /\ Spliced(a, b, e, a \o <<e>> \o b)
<1>1. PICK d : d = <<e>>
  OBVIOUS
<1>2. d \in Seq(S) /\ Len(d) = 1 /\ d[1] = e
  BY <1>1
<1>3. /\ a \o d \in Seq(S) /\ Len(a \o d) = Len(a) + Len(d)
      /\ \A k \in 1..(Len(a) + Len(d)) :
            (a \o d)[k] = IF k <= Len(a) THEN a[k] ELSE d[k - Len(a)]
  BY <1>2, ConcatProperties
<1>4. PICK ad : ad = a \o d
  OBVIOUS
<1>5. /\ ad \o b \in Seq(S) /\ Len(ad \o b) = Len(ad) + Len(b)
      /\ \A k \in 1..(Len(ad) + Len(b)) :
            (ad \o b)[k] = IF k <= Len(ad) THEN ad[k] ELSE b[k - Len(ad)]
  BY <1>3, <1>4, ConcatProperties
<1>6. PICK r : r = ad \o b
  OBVIOUS
<1> PICK x \in Nat, y \in Nat : x = Len(a) /\ y = Len(b)
  OBVIOUS
<1>7. /\ Len(ad) = x + 1
      /\ \A k \in 1..(x + 1) : ad[k] = IF k <= x THEN a[k] ELSE d[k - x]
  BY <1>2, <1>3, <1>4
<1>8. /\ Len(r) = x + 1 + y
      /\ \A k \in 1..(x + 1 + y) : r[k] = IF k <= x + 1 THEN ad[k] ELSE b[k - (x + 1)]
  BY <1>5, <1>6, <1>7
<1>9. ASSUME NEW k \in 1..(x + 1 + y)
      PROVE  /\ k <= x => r[k] = a[k]
             /\ k = x + 1 => r[k] = e
             /\ k > x + 1 => r[k] = b[k - (x + 1)]
  <2>1. ASSUME k <= x PROVE r[k] = a[k]
    BY <1>7, <1>8, <2>1
  <2>2. ASSUME k = x + 1 PROVE r[k] = e
    <3>1. r[k] = ad[k] /\ ad[k] = d[k - x] /\ k - x = 1
      BY <1>7, <1>8, <2>2
    <3> QED
      BY <1>2, <3>1
  <2>3. ASSUME k > x + 1 PROVE r[k] = b[k - (x + 1)]
    BY <1>8, <2>3
  <2> QED
    BY <2>1, <2>2, <2>3
<1>10. Spliced(a, b, e, r)
  BY <1>8, <1>9 DEF Spliced
<1> QED
  BY <1>1, <1>4, <1>5, <1>6, <1>10

\* r is items with e inserted at i.
Inserted(items, i, e, r) ==
    /\ Len(r) = Len(items) + 1
    /\ \A k \in 1..Len(r) :
         /\ k < i => r[k] = items[k]
         /\ k = i => r[k] = e
         /\ k > i => r[k] = items[k - 1]

LEMMA InsertedIs ==
    ASSUME NEW S, NEW items \in Seq(S), NEW i \in 1..(Len(items) + 1), NEW e \in S
    PROVE  InsertAt(items, i, e) \in Seq(S) /\ Inserted(items, i, e, InsertAt(items, i, e))
<1> PICK m \in Nat : m = Len(items)
  OBVIOUS
<1>0. i \in Int /\ i - 1 \in Nat /\ m - i + 1 \in Nat
  OBVIOUS
<1>1. PICK a : a = SubSeq(items, 1, i - 1)
  OBVIOUS
<1>2. a \in Seq(S) /\ Len(a) = i - 1 /\ \A k \in 1..Len(a) : a[k] = items[k]
  <2>1. 1 \in Int /\ i - 1 \in Int /\ \A k \in 1..(i - 1) : items[k] \in S
    OBVIOUS
  <2> QED
    BY <1>1, <2>1, SubSeqProperties
<1>3. PICK b : b = SubSeq(items, i, m)
  OBVIOUS
<1>4. b \in Seq(S) /\ Len(b) = m - i + 1 /\ \A k \in 1..Len(b) : b[k] = items[i + k - 1]
  <2>1. i \in Int /\ m \in Int /\ \A k \in i..m : items[k] \in S
    OBVIOUS
  <2> QED
    BY <1>3, <2>1, SubSeqProperties
<1>5. InsertAt(items, i, e) = a \o <<e>> \o b
  BY <1>1, <1>3 DEF InsertAt
<1>6. PICK r : r = InsertAt(items, i, e) /\ r \in Seq(S) /\ Spliced(a, b, e, r)
  BY <1>2, <1>4, <1>5, SplicedIs
<1>7. /\ Len(r) = m + 1 /\ r[i] = e
      /\ \A k \in 1..(i - 1) : r[k] = a[k]
      /\ \A k \in (i + 1)..(m + 1) : r[k] = b[k - i]
  BY <1>0, <1>2, <1>4, <1>6 DEF Spliced
<1>8. ASSUME NEW k \in 1..(m + 1), k > i PROVE r[k] = items[k - 1]
  <2>1. k - i \in 1..(m - i + 1) /\ i + (k - i) - 1 = k - 1 /\ k \in (i + 1)..(m + 1)
    BY <1>8
  <2>2. r[k] = b[k - i]
    BY <1>7, <2>1
  <2> QED
    BY <1>4, <2>1, <2>2
<1>9. ASSUME NEW k \in 1..(m + 1), k < i PROVE r[k] = items[k]
  <2>1. k \in 1..(i - 1)
    BY <1>9
  <2> QED
    BY <1>2, <1>7, <2>1
<1>10. Inserted(items, i, e, r)
  BY <1>7, <1>8, <1>9 DEF Inserted
<1> QED
  BY <1>6, <1>10

\* A response to a read carries what the server has, or that there is no stream.
LEMMA ContentsAre ==
    ASSUME NEW s, IsCluster(s), NEW call, call.rpc = "Read",
           call.source \in Stream \cup {All}, NEW contents \in Contents(s, call)
    PROVE  \E t \in Seq(Int) : Truth(s, call) = {t} /\ Reading(<<>>, contents, t)
<1> PICK t : t = Readable(s, call.source)
  OBVIOUS
<1>1. t \in Seq(Int)
  BY ReadableIs
<1>2. Truth(s, call) = {t}
  BY DEF Truth, IsCluster
<1> PICK n \in Nat : n = Len(t)
  BY <1>1
<1> PICK items : items = [k \in 1..n |-> Event(t[k])]
  OBVIOUS
<1>3. items \in Seq(ContentItem) /\ Len(items) = n /\ \A k \in 1..n : items[k] = Event(t[k])
  <2>1. \A k \in 1..n : Event(t[k]) \in ContentItem
    BY <1>1 DEF Event, ContentItem
  <2> QED
    BY <2>1
<1>4. \/ contents = <<NotFound>> \/ contents = items
      \/ \E i \in 1..(n + 1) : contents = InsertAt(items, i, Position)
  BY <1>3 DEF Contents
<1>5. ASSUME contents = items PROVE Remaining(contents, t, 0)
  <2>1. \A k \in 1..n : contents[k] = Event(t[0 + k])
    BY <1>3, <1>5
  <2>2. Straight(contents, t, 0)
    BY <1>3, <1>5, <2>1 DEF Straight
  <2> QED
    BY <1>3, <1>5, <2>2 DEF Remaining
<1>6. ASSUME NEW i \in 1..(n + 1), contents = InsertAt(items, i, Position)
      PROVE  Remaining(contents, t, 0)
  <2>1. /\ Position \in ContentItem /\ n = Len(items) /\ items \in Seq(ContentItem)
        /\ i \in 1..(Len(items) + 1)
    BY <1>3 DEF Position, ContentItem
  <2>2. contents \in Seq(ContentItem) /\ Inserted(items, i, Position, contents)
    BY <1>6, <2>1, InsertedIs
  <2>3. /\ Len(contents) = n + 1 /\ contents[i] = Position
        /\ \A k \in 1..(i - 1) : contents[k] = items[k]
        /\ \A k \in (i + 1)..(n + 1) : contents[k] = items[k - 1]
    <3>1. Len(contents) = n + 1
      BY <2>1, <2>2 DEF Inserted
    <3>2. ASSUME NEW k \in 1..(n + 1)
          PROVE  /\ k < i => contents[k] = items[k]
                 /\ k = i => contents[k] = Position
                 /\ k > i => contents[k] = items[k - 1]
      BY <2>2, <3>1 DEF Inserted
    <3>3. contents[i] = Position
      BY <3>2
    <3>4. ASSUME NEW k \in (i + 1)..(n + 1) PROVE contents[k] = items[k - 1]
      <4>1. k \in 1..(n + 1) /\ k > i
        OBVIOUS
      <4> QED
        BY <3>2, <4>1
    <3>5. ASSUME NEW k \in 1..(i - 1) PROVE contents[k] = items[k]
      <4>1. k \in 1..(n + 1) /\ k < i
        OBVIOUS
      <4> QED
        BY <3>2, <4>1
    <3> QED
      BY <3>1, <3>3, <3>4, <3>5
  <2>4. ASSUME NEW k \in 1..(i - 1) PROVE contents[k] = Event(t[0 + k])
    <3>1. k \in 1..n /\ 0 + k = k
      OBVIOUS
    <3> QED
      BY <1>3, <2>3, <3>1
  <2>5. ASSUME NEW k \in (i + 1)..(n + 1) PROVE contents[k] = Event(t[0 + k - 1])
    <3>1. k - 1 \in 1..n /\ 0 + k - 1 = k - 1
      OBVIOUS
    <3> QED
      BY <1>3, <2>3, <3>1
  <2>6. Around(contents, t, 0, i)
    BY <2>3, <2>4, <2>5 DEF Around
  <2> QED
    BY <2>2, <2>3, <2>6 DEF Remaining
<1>7. Reading(<<>>, contents, t)
  <2>1. <<>> \in Seq(Int) /\ Len(<<>>) = 0
    OBVIOUS
  <2>2. contents = <<NotFound>> \/ Remaining(contents, t, Len(<<>>))
    BY <1>4, <1>5, <1>6, <2>1
  <2>3. Len(<<>>) <= Len(t) /\ \A k \in 1..Len(<<>>) : FALSE
    BY <2>1
  <2> QED
    BY <2>1, <2>2, <2>3 DEF Reading
<1> QED
  BY <1>1, <1>2, <1>7

\* An event that is next is the one t has next.
LEMMA EventTaken ==
    ASSUME NEW t \in Seq(Int), NEW items \in Seq(Int), NEW n \in Nat, n = Len(items),
           n + 1 <= Len(t), \A k \in 1..n : items[k] = t[k],
           NEW more, more = Append(items, t[n + 1])
    PROVE  /\ more \in Seq(Int) /\ Len(more) = n + 1 /\ Len(more) <= Len(t)
           /\ \A k \in 1..Len(more) : more[k] = t[k]
<1>1. t[n + 1] \in Int
  OBVIOUS
<1>2. /\ more \in Seq(Int) /\ Len(more) = n + 1 /\ more[n + 1] = t[n + 1]
      /\ \A k \in 1..n : more[k] = items[k]
  BY <1>1, AppendProperties
<1> QED
  BY <1>2

LEMMA ItemTaken ==
    ASSUME NEW t \in Seq(Int), NEW items, NEW rest, Reading(items, rest, t),
           rest # <<>>, Head(rest).kind # "not-found",
           NEW more, more = IF Head(rest).kind = "event"
                            THEN Append(items, Head(rest).id) ELSE items
    PROVE  Reading(more, Tail(rest), t)
<1>1. /\ items \in Seq(Int) /\ Len(items) <= Len(t)
      /\ \A k \in 1..Len(items) : items[k] = t[k]
      /\ Remaining(rest, t, Len(items))
  BY DEF Reading, NotFound
<1> PICK n \in Nat : n = Len(items)
  BY <1>1
<1> PICK m \in Nat : m = Len(rest)
  BY <1>1 DEF Remaining
<1>2. PICK h, tail : h = Head(rest) /\ tail = Tail(rest)
  OBVIOUS
<1>3. /\ m >= 1 /\ h = rest[1] /\ tail \in Seq(ContentItem) /\ Len(tail) = m - 1
      /\ \A k \in 1..(m - 1) : tail[k] = rest[k + 1]
  <2>1. rest \in Seq(ContentItem)
    BY <1>1 DEF Remaining
  <2>2. h = rest[1]
    BY <1>2, <2>1
  <2>3. /\ tail \in Seq(ContentItem) /\ Len(tail) = Len(rest) - 1
        /\ \A k \in 1..Len(tail) : tail[k] = rest[k + 1]
    BY <1>2, <2>1, HeadTailProperties
  <2>4. m >= 1
    BY <2>1, EmptySeq
  <2> QED
    BY <2>2, <2>3, <2>4
<1>4. ASSUME h = Event(t[n + 1]), n + 1 <= Len(t), Remaining(tail, t, n + 1)
      PROVE  Reading(more, tail, t)
  <2>1. h.kind = "event" /\ h.id = t[n + 1]
    BY <1>4 DEF Event
  <2>2. more = Append(items, t[n + 1])
    BY <1>2, <2>1
  <2>3. /\ more \in Seq(Int) /\ Len(more) = n + 1 /\ Len(more) <= Len(t)
        /\ \A k \in 1..Len(more) : more[k] = t[k]
    BY <1>1, <1>4, <2>2, EventTaken
  <2> QED
    BY <1>4, <2>3 DEF Reading
<1>5. CASE Straight(rest, t, n)
  <2>1. m = Len(t) - n /\ \A k \in 1..m : rest[k] = Event(t[n + k])
    BY <1>5 DEF Straight
  <2>2. h = Event(t[n + 1]) /\ n + 1 <= Len(t)
    BY <1>3, <2>1
  <2>3. ASSUME NEW k \in 1..(m - 1) PROVE tail[k] = Event(t[(n + 1) + k])
    <3>1. k + 1 \in 1..m /\ n + (k + 1) = (n + 1) + k
      OBVIOUS
    <3> QED
      BY <1>3, <2>1, <3>1
  <2>4. Len(tail) = Len(t) - (n + 1)
    BY <1>3, <2>1
  <2>5. Straight(tail, t, n + 1)
    BY <1>3, <2>3, <2>4 DEF Straight
  <2> QED
    BY <1>2, <1>3, <1>4, <2>2, <2>5 DEF Remaining
<1>6. ASSUME NEW p \in 1..m, Around(rest, t, n, p) PROVE Reading(more, tail, t)
  <2>1. /\ m = Len(t) - n + 1 /\ rest[p] = Position
        /\ \A k \in 1..(p - 1) : rest[k] = Event(t[n + k])
        /\ \A k \in (p + 1)..m : rest[k] = Event(t[n + k - 1])
    BY <1>6 DEF Around
  <2>2. CASE p = 1
    <3>1. more = items
      BY <1>2, <1>3, <2>1, <2>2 DEF Position
    <3>2. ASSUME NEW k \in 1..(m - 1) PROVE tail[k] = Event(t[n + k])
      <4>1. k + 1 \in (p + 1)..m /\ n + (k + 1) - 1 = n + k
        BY <2>2
      <4> QED
        BY <1>3, <2>1, <4>1
    <3>3. Len(tail) = Len(t) - n
      BY <1>3, <2>1
    <3>4. Straight(tail, t, n)
      BY <1>3, <3>2, <3>3 DEF Straight
    <3> QED
      BY <1>1, <1>3, <3>1, <3>4 DEF Reading, Remaining
  <2>3. CASE p > 1
    <3>1. h = Event(t[n + 1]) /\ n + 1 <= Len(t)
      BY <1>3, <2>1, <2>3
    <3>2. tail[p - 1] = Position /\ p - 1 \in 1..(m - 1)
      BY <1>3, <2>1, <2>3
    <3>3. ASSUME NEW k \in 1..(p - 1 - 1) PROVE tail[k] = Event(t[(n + 1) + k])
      <4>1. k + 1 \in 1..(p - 1) /\ k \in 1..(m - 1) /\ n + (k + 1) = (n + 1) + k
        OBVIOUS
      <4> QED
        BY <1>3, <2>1, <4>1
    <3>4. ASSUME NEW k \in (p - 1 + 1)..(m - 1) PROVE tail[k] = Event(t[(n + 1) + k - 1])
      <4>1. k + 1 \in (p + 1)..m /\ k \in 1..(m - 1) /\ n + (k + 1) - 1 = (n + 1) + k - 1
        OBVIOUS
      <4> QED
        BY <1>3, <2>1, <4>1
    <3>5. Len(tail) = Len(t) - (n + 1) + 1
      BY <1>3, <2>1
    <3>6. Around(tail, t, n + 1, p - 1)
      BY <1>3, <3>2, <3>3, <3>4, <3>5 DEF Around
    <3> QED
      BY <1>3, <1>4, <3>1, <3>2, <3>6 DEF Remaining
  <2> QED
    BY <2>2, <2>3
<1> QED
  BY <1>1, <1>2, <1>5, <1>6 DEF Remaining

LEMMA AllTaken ==
    ASSUME NEW t \in Seq(Int), NEW items, Reading(items, <<>>, t)
    PROVE  items = t
<1>1. /\ items \in Seq(Int) /\ \A k \in 1..Len(items) : items[k] = t[k]
      /\ Remaining(<<>>, t, Len(items))
  BY DEF Reading
<1>2. Straight(<<>>, t, Len(items))
  BY <1>1 DEF Remaining
<1>3. Len(items) = Len(t)
  BY <1>1, <1>2 DEF Straight
<1> QED
  BY <1>1, <1>3, SeqEqual

LEMMA ReadsStep ==
    ASSUME Shape, ReadInv, [Next]_vars
    PROVE  ReadInv'
<1>1. CASE op' = op
  BY <1>1 DEF ReadInv
<1>2. ASSUME NEW c \in Clients, NEW o, Become(c, o),
             o.at = "open" /\ o.q.rpc = "Read" =>
                \E t \in Seq(Int) : o.truth = {t} /\ Reading(o.items, o.rest, t),
             /\ o.at = Done /\ o.id # 0 /\ o.error.name = "none"
             /\ o.q.rpc = "Read" /\ o.q.takes = "all"
             => o.truth = {o.items}
      PROVE  ReadInv'
  <2>1. op'[c] = o /\ \A d \in Clients : d # c => op'[d] = op[d]
    BY <1>2, BecomeIs DEF Shape
  <2>2. ASSUME NEW d \in Clients
        PROVE  /\ op'[d].at = "open" /\ op'[d].q.rpc = "Read" =>
                      \E t \in Seq(Int) :
                          op'[d].truth = {t} /\ Reading(op'[d].items, op'[d].rest, t)
               /\ op'[d].at = Done /\ op'[d].id # 0 /\ op'[d].error.name = "none"
                      /\ op'[d].q.rpc = "Read" /\ op'[d].q.takes = "all"
                  => op'[d].truth = {op'[d].items}
    <3>1. CASE d = c
      BY <1>2, <2>1, <3>1
    <3>2. CASE d # c
      BY <2>1, <3>2 DEF ReadInv
    <3> QED
      BY <3>1, <3>2
  <2> QED
    BY <2>2 DEF ReadInv, Reading, Remaining, Straight, Around
<1>3. ASSUME NEW c \in Clients, Client(c) PROVE ReadInv'
  <2>1. ClientStep(c) /\ OpIs(op[c])
    BY <1>3, ClientSteps DEF Shape, OpShape
  <2>2. ASSUME NEW q \in Requests, Issue(c, q) PROVE ReadInv'
    <3> PICK o : o = [Idle EXCEPT !.at = "selecting", !.asked = q, !.q = q, !.id = commands + 1]
      OBVIOUS
    <3>1. o.at = "selecting" /\ Become(c, o)
      BY <2>2 DEF Issue, Become, Idle
    <3> QED
      BY <1>2, <3>1 DEF Done
  <2>3. ASSUME NEW e, EndsWith(c, e) PROVE ReadInv'
    <3>1. PICK o : Over(c, o) /\ o.error = e
      BY <2>3, EndsIs
    <3>2. e.name # "none" /\ Become(c, o) /\ o.at = Done
      BY <2>3, <3>1 DEF EndsWith, Over
    <3> QED
      BY <1>2, <3>1, <3>2 DEF Done
  <2>4. CASE Routes(c) \/ Continues(c)
    <3>1. PICK o : Further(c, o) /\ o.at \in {"selecting", "grpc", "http"}
      BY <2>4, FurtherIs
    <3>2. Become(c, o)
      BY <3>1 DEF Further
    <3> QED
      BY <1>2, <3>1, <3>2 DEF Done
  <2>5. CASE Opens(c)
    <3>1. PICK o : /\ Further(c, o) /\ o.at = "open" /\ o.q = op[c].q
                   /\ o.rest \in Contents(server, CallOf(c)) /\ o.items = <<>>
                   /\ o.truth = Truth(server, CallOf(c))
      BY <2>5, FurtherIs
    <3>2. Become(c, o)
      BY <3>1 DEF Further
    <3>3. ASSUME o.q.rpc = "Read"
          PROVE  \E t \in Seq(Int) : o.truth = {t} /\ Reading(o.items, o.rest, t)
      <4>1. CallOf(c).rpc = "Read" /\ CallOf(c).source = op[c].q.source
        BY <3>1, <3>3, CallOfIs, CallIs
      <4>2. CallOf(c).source \in Stream \cup {All}
        BY <2>1, <3>1, <3>3, <4>1, RequestIs DEF OpIs
      <4>3. IsCluster(server)
        BY DEF Shape, ServerShape
      <4> QED
        BY <3>1, <4>1, <4>2, <4>3, ContentsAre
    <3> QED
      BY <1>2, <3>1, <3>2, <3>3 DEF Done
  <2>6. CASE Reads(c)
    <3>1. PICK o : /\ Further(c, o) /\ o.at = "open" /\ o.q = op[c].q
                   /\ o.truth = op[c].truth /\ o.rest = Tail(op[c].rest)
                   /\ o.items = IF Head(op[c].rest).kind = "event"
                                THEN Append(op[c].items, Head(op[c].rest).id)
                                ELSE op[c].items
      BY <2>6, FurtherIs
    <3>2. Become(c, o) /\ op[c].at = "open" /\ op[c].rest # <<>>
          /\ Head(op[c].rest).kind # "not-found"
      BY <2>6, <3>1 DEF Further, Reads
    <3>3. ASSUME o.q.rpc = "Read"
          PROVE  \E t \in Seq(Int) : o.truth = {t} /\ Reading(o.items, o.rest, t)
      <4>1. PICK t \in Seq(Int) : op[c].truth = {t} /\ Reading(op[c].items, op[c].rest, t)
        BY <3>1, <3>2, <3>3 DEF ReadInv
      <4> PICK items, rest, more : items = op[c].items /\ rest = op[c].rest /\ more = o.items
        OBVIOUS
      <4>2. more = IF Head(rest).kind = "event" THEN Append(items, Head(rest).id) ELSE items
        BY <3>1
      <4>3. Reading(more, Tail(rest), t)
        BY <3>2, <4>1, <4>2, ItemTaken
      <4> QED
        BY <3>1, <4>1, <4>3
    <3> QED
      BY <1>2, <3>1, <3>2, <3>3 DEF Done
  <2>7. CASE Closes(c)
    <3>1. PICK o : /\ Over(c, o) /\ o.truth = op[c].truth
                   /\ op[c].q.takes = "all" => op[c].rest = <<>> /\ o.items = op[c].items
      BY <2>7, ClosesIs
    <3>2. Become(c, o) /\ op[c].at = "open" /\ o.q = op[c].q /\ o.at = Done
      BY <2>7, <3>1 DEF Over, Closes
    <3>3. ASSUME o.q.rpc = "Read", o.q.takes = "all" PROVE o.truth = {o.items}
      <4>1. PICK t \in Seq(Int) : op[c].truth = {t} /\ Reading(op[c].items, op[c].rest, t)
        BY <3>2, <3>3 DEF ReadInv
      <4>2. op[c].items = t
        BY <3>1, <3>2, <3>3, <4>1, AllTaken
      <4> QED
        BY <3>1, <3>2, <3>3, <4>1, <4>2
    <3> QED
      BY <1>2, <3>2, <3>3 DEF Done
  <2>8. CASE Completes(c)
    <3>1. PICK o : Over(c, o)
      BY <2>8, CompletesIs
    <3>2. op[c].q.rpc # "Read"
      BY <2>1, <2>8, RequestIs DEF Completes, OpIs
    <3>3. Become(c, o) /\ o.q.rpc # "Read"
      BY <3>1, <3>2 DEF Over
    <3> QED
      BY <1>2, <3>3
  <2> QED
    BY <2>1, <2>2, <2>3, <2>4, <2>5, <2>6, <2>7, <2>8 DEF ClientStep, Ends
<1>4. op' = op \/ \E c \in Clients : Client(c)
  BY DEF Next, vars, CarryLate, Elect
<1> QED
  BY <1>1, <1>3, <1>4

-----------------------------------------------------------------------------
(* The second call of create. *)

\* What SecondCallInv says of the record of one command.
SecondCallOf(o) ==
    /\ o.asked.andThen = "none" \/ o.q.rpc = "UpdateProjection" \/ o.q = o.asked
    /\ o.at = "open" => o.q.andThen = "none"
    /\ o.at = Done /\ o.id > 0 /\ o.error.name = "none" => o.q.andThen = "none"

LEMMA SecondCallStep ==
    ASSUME Shape, SecondCallInv, [Next]_vars
    PROVE  SecondCallInv'
<1>1. CASE op' = op
  BY <1>1 DEF SecondCallInv, Succeeded
<1>2. \A c \in Clients : SecondCallOf(op[c])
  BY DEF SecondCallInv, SecondCallOf, Succeeded
<1>3. ASSUME NEW c \in Clients, NEW o, Become(c, o), SecondCallOf(o)
      PROVE  SecondCallInv'
  <2>1. op'[c] = o /\ \A d \in Clients : d # c => op'[d] = op[d]
    BY <1>3, BecomeIs DEF Shape
  <2>2. \A d \in Clients : SecondCallOf(op'[d])
    BY <1>2, <1>3, <2>1
  <2> QED
    BY <2>2 DEF SecondCallInv, SecondCallOf, Succeeded
<1>4. ASSUME NEW c \in Clients, Client(c) PROVE SecondCallInv'
  <2>1. ClientStep(c) /\ SecondCallOf(op[c])
    BY <1>2, <1>4, ClientSteps
  <2>2. ASSUME NEW q \in Requests, Issue(c, q) PROVE SecondCallInv'
    <3> PICK o : o = [Idle EXCEPT !.at = "selecting", !.asked = q, !.q = q,
                                  !.id = commands + 1]
      OBVIOUS
    <3>1. o.at = "selecting" /\ o.asked = o.q /\ Become(c, o)
      BY <2>2 DEF Issue, Become, Idle
    <3> QED
      BY <1>3, <3>1 DEF SecondCallOf, Done
  <2>3. ASSUME NEW e, EndsWith(c, e) PROVE SecondCallInv'
    <3>1. PICK o : Over(c, o) /\ o.error = e
      BY <2>3, EndsIs
    <3> QED
      BY <1>3, <2>1, <2>3, <3>1 DEF EndsWith, Over, SecondCallOf, Done
  <2>4. CASE Routes(c)
    <3>1. PICK o : Further(c, o) /\ o.at \in {"grpc", "http"} /\ o.q = op[c].q
      BY <2>4, FurtherIs
    <3> QED
      BY <1>3, <2>1, <3>1 DEF Further, SecondCallOf, Done
  <2>5. CASE Continues(c)
    <3>1. PICK o : Further(c, o) /\ o.at = "selecting" /\ o.q = EmitEnabled
      BY <2>5, FurtherIs
    <3>2. EmitEnabled.rpc = "UpdateProjection"
      BY DEF EmitEnabled, update_projection, Projection, Request
    <3> QED
      BY <1>3, <3>1, <3>2 DEF Further, SecondCallOf, Done
  <2>6. CASE Opens(c)
    <3>1. PICK o : Further(c, o) /\ o.at = "open" /\ o.q = op[c].q
      BY <2>6, FurtherIs
    <3> QED
      BY <1>3, <2>1, <2>6, <3>1 DEF Opens, Further, SecondCallOf, Done
  <2>7. CASE Reads(c)
    <3>1. PICK o : Further(c, o) /\ o.at = "open" /\ o.q = op[c].q
      BY <2>7, FurtherIs
    <3> QED
      BY <1>3, <2>1, <2>7, <3>1 DEF Reads, Further, SecondCallOf, Done
  <2>8. CASE Closes(c)
    <3>1. PICK o : Over(c, o)
      BY <2>8, ClosesIs
    <3> QED
      BY <1>3, <2>1, <2>8, <3>1 DEF Closes, Over, SecondCallOf, Done
  <2>9. CASE Completes(c)
    <3>1. PICK o : Over(c, o)
      BY <2>9, CompletesIs
    <3> QED
      BY <1>3, <2>1, <2>9, <3>1 DEF Completes, Over, SecondCallOf, Done
  <2> QED
    BY <2>1, <2>2, <2>3, <2>4, <2>5, <2>6, <2>7, <2>8, <2>9 DEF ClientStep, Ends
<1>5. op' = op \/ \E c \in Clients : Client(c)
  BY DEF Next, vars, CarryLate, Elect
<1> QED
  BY <1>1, <1>4, <1>5

-----------------------------------------------------------------------------
(* The theorems. *)

\* Every variable holds what it should, and a command under way has a number of
\* its own.
THEOREM TypeCorrect == FairSpec => []TypeOK
<1>1. Shape => TypeOK
  BY DEF Shape, Link, OpShape, OpIs, ServerShape, IsCluster, TypeOK
<1>2. Init => Shape
  BY ShapeInit
<1>3. Shape /\ [Next]_vars => Shape'
  BY ShapeStep
<1> QED
  BY <1>1, <1>2, <1>3, PTL DEF FairSpec

\* A command that the server redirects moves the client off its connection
\* (handle_error, and the connection task that replaces the connection).
THEOREM RedirectedConnectionIsLeftCorrect == FairSpec => []RedirectedConnectionIsLeft
<1>1. Shape => RedirectedConnectionIsLeft
  BY DEF Shape, Link
<1>2. Init => Shape
  BY ShapeInit
<1>3. Shape /\ [Next]_vars => Shape'
  BY ShapeStep
<1> QED
  BY <1>1, <1>2, <1>3, PTL DEF FairSpec

\* append_to_stream tells the truth, for good: what it acknowledged is in the log
\* once, and what it refused outright is never written.
THEOREM AppendOutcomeIsTrueCorrect == FairSpec => []AppendOutcomeIsTrue
<1>1. Shape /\ AppendInv => AppendOutcomeIsTrue
  BY AppendsAreTrue
<1>2. Init => Shape /\ AppendInv
  BY ShapeInit, AppendsInit
<1>3. Shape /\ AppendInv /\ [Next]_vars => (Shape /\ AppendInv)'
  BY ShapeStep, AppendsStep
<1> QED
  BY <1>1, <1>2, <1>3, PTL DEF FairSpec

\* A projection that was asked to emit does when its create has returned without an
\* error, unless someone else has changed it: a create that succeeds has made its
\* second call (ProjectionClient::create), and that call has taken effect.
THEOREM CreatedProjectionsEmitCorrect == FairSpec => []CreatedProjectionsEmit
<1> DEFINE I == Shape /\ ProjectionInv /\ SecondCallInv
<1>1. I => CreatedProjectionsEmit
  <2> SUFFICES ASSUME I, NEW c \in Clients, Succeeded(c),
                      op[c].asked.andThen = "UpdateProjection",
                      server.projection.exists, server.projection.by = op[c].id,
                      ~server.projection.touched
               PROVE  server.projection.emit
    BY DEF CreatedProjectionsEmit
  <2>1. op[c].q.rpc = "UpdateProjection"
    BY DEF SecondCallInv
  <2> QED
    BY <2>1 DEF Shape, OpShape, OpIs, ProjectionInv, HasEmit, Succeeded
<1>2. Init => I
  <2> SUFFICES ASSUME Init PROVE ProjectionInv /\ SecondCallInv
    BY ShapeInit
  <2>1. late = {} /\ \A c \in Clients : op[c] = Idle
    BY DEF Init
  <2>2. Idle.id = 0 /\ Idle.asked = Idle.q /\ Idle.at = Done
    BY DEF Idle
  <2> QED
    BY <2>1, <2>2 DEF ProjectionInv, WillEmit, HasEmit, SecondCallInv, Succeeded, Done
<1>3. I /\ [Next]_vars => I'
  BY ShapeStep, ProjectionsStep, SecondCallStep
<1> QED
  BY <1>1, <1>2, <1>3, PTL DEF FairSpec

\* The listings and the info of a group are the server's, by gRPC and by HTTP
\* (SubscriptionInfo, and its JSON), for the groups that have processed something.
THEOREM ListingsAreTheServersCorrect == FairSpec => []ListingsAreTheServers
<1>1. Shape /\ ListingInv => ListingsAreTheServers
  BY DEF Shape, OpShape, OpIs, ListingInv, Listed, ListingsAreTheServers, Succeeded
<1>2. Init => Shape /\ ListingInv
  <2> SUFFICES ASSUME Init PROVE ListingInv
    BY ShapeInit
  <2>1. \A c \in Clients : op[c].id = 0
    BY DEF Init, Idle
  <2> QED
    BY <2>1 DEF ListingInv
<1>3. Shape /\ ListingInv /\ [Next]_vars => (Shape /\ ListingInv)'
  BY ShapeStep, ListingsStep
<1> QED
  BY <1>1, <1>2, <1>3, PTL DEF FairSpec

\* A read that ends without an error has delivered every event the server had when
\* it answered, in order (ReadStream::next, which skips the positions in between).
THEOREM ReadsAreCompleteCorrect == FairSpec => []ReadsAreComplete
<1>1. Shape /\ ReadInv => ReadsAreComplete
  BY DEF Shape, OpShape, OpIs, ReadInv, ReadsAreComplete, Succeeded
<1>2. Init => Shape /\ ReadInv
  <2> SUFFICES ASSUME Init PROVE ReadInv
    BY ShapeInit
  <2>1. \A c \in Clients : op[c].id = 0 /\ op[c].at = Done
    BY DEF Init, Idle
  <2> QED
    BY <2>1 DEF ReadInv, Done
<1>3. Shape /\ ReadInv /\ [Next]_vars => (Shape /\ ReadInv)'
  BY ShapeStep, ReadsStep
<1> QED
  BY <1>1, <1>2, <1>3, PTL DEF FairSpec

================================================================================
