------------------------------ MODULE Connection ------------------------------
(***************************************************************************)
(* The connection core of the client, trogon-eventstore/src/grpc.rs: one   *)
(* task (connection_state_machine) owns the NodeConnection and reads an    *)
(* unbounded channel of Msg; every operation of every client handle asks   *)
(* it for a connection (current_selected_node), runs, and reports the      *)
(* errors that condemn a connection (handle_error, Handle::report_error).  *)
(*                                                                         *)
(* A step of the task runs from one await to the next: the receive, the    *)
(* probe of a node (server features) and the selection of a node are       *)
(* separate steps, so that callers interleave with each of them.  The      *)
(* sleep between two discovery attempts changes nothing and is part of the *)
(* selection step.  What the cluster answers is left open.                 *)
(***************************************************************************)
EXTENDS Naturals, Sequences

CONSTANTS
    Callers,              \* the tasks that run operations through a client
    Node,                 \* the endpoints a probe can be sent to
    NoNode,               \* Option<Endpoint>::None
    NoCaller,             \* the absent addressee of a message
    MaxDiscoverAttempts,  \* ClientSettings::max_discover_attempts
    ClusterMode,          \* is NodeConnection::cluster_mode Some?
    FirstHost,            \* settings.hosts().first(), used without a cluster
    MaxConnections        \* bound: a connection with this id is not redirected

ASSUME ConnectionAssumption ==
    /\ NoNode \notin Node
    /\ NoCaller \notin Callers
    /\ MaxDiscoverAttempts \in Nat
    /\ ClusterMode \in BOOLEAN
    /\ FirstHost \in Node
    /\ MaxConnections \in Nat

VARIABLES
    mailbox,        \* the unbounded mpsc channel of Msg
    task,           \* what the task awaits: "recv", "connect", or "stopped"
    serving,        \* the message whose next() call is in progress
    conn_id,        \* NodeConnection::id; a fresh uuid is the next number
    conn_handle,    \* NodeConnection::handle
    handle_opt,     \* the task's own copy of the last handle
    selected_node,  \* local of next(): the node to probe
    attempts,       \* local of next()
    pc,             \* where each caller is
    held,           \* the Handle each caller runs its operation with
    lastReport,     \* history: what each caller's last operation reported
    redirected      \* history: the connections some caller saw redirected

taskVars == <<mailbox, task, serving, conn_id, conn_handle, handle_opt,
              selected_node, attempts>>
callerVars == <<pc, held>>
historyVars == <<lastReport, redirected>>
vars == <<taskVars, callerVars, historyVars>>

-----------------------------------------------------------------------------

NilId == 0
NoHandle == [id |-> NilId, endpoint |-> NoNode]
Handle == [id : Nat, endpoint : Node \cup {NoNode}]

GetChannel(c) ==
    [type |-> "GetChannel", caller |-> c, id |-> NilId, seed |-> NoNode]
CreateChannel(id, seed) ==
    [type |-> "CreateChannel", caller |-> NoCaller, id |-> id, seed |-> seed]
NoMsg == CreateChannel(NilId, NoNode)
Msg ==
    [type : {"GetChannel"}, caller : Callers, id : {NilId}, seed : {NoNode}]
    \cup [type : {"CreateChannel"}, caller : {NoCaller}, id : Nat,
          seed : Node \cup {NoNode}]

NoReport == [kind |-> "none", id |-> NilId]

\* The request c's oneshot sender travels with is still in the channel.
Queued(c) == \E i \in 1..Len(mailbox) : mailbox[i] = GetChannel(c)

Init ==
    /\ mailbox = <<>>
    /\ task = "recv"
    /\ serving = NoMsg
    /\ conn_id = NilId
    /\ conn_handle = NoHandle
    /\ handle_opt = NoHandle
    /\ selected_node = NoNode
    /\ attempts = 1
    /\ pc = [c \in Callers |-> "idle"]
    /\ held = [c \in Callers |-> NoHandle]
    /\ lastReport = [c \in Callers |-> NoReport]
    /\ redirected = {}

-----------------------------------------------------------------------------
(* The callers. *)

\* A send to the task; without a receiver it fails and its result is ignored.
Send(m) == mailbox' = IF task = "stopped" THEN mailbox ELSE Append(mailbox, m)

\* current_selected_node: send GetChannel and await the oneshot, or learn at
\* once that the task is gone.
current_selected_node(c) ==
    /\ pc[c] \notin {"waiting", "using"}
    /\ pc' = [pc EXCEPT ![c] = IF task = "stopped" THEN "closed" ELSE "waiting"]
    /\ Send(GetChannel(c))
    /\ UNCHANGED <<task, serving, conn_id, conn_handle, handle_opt,
                   selected_node, attempts, held, historyVars>>

EndOperation(c, report) ==
    /\ pc[c] = "using"
    /\ pc' = [pc EXCEPT ![c] = "idle"]
    /\ held' = [held EXCEPT ![c] = NoHandle]
    /\ lastReport' = [lastReport EXCEPT ![c] = report]
    /\ UNCHANGED <<task, serving, conn_id, conn_handle, handle_opt,
                   selected_node, attempts>>

\* The operation succeeds, or fails with an error handle_error does not act on.
OperationReturns(c) ==
    /\ EndOperation(c, NoReport)
    /\ UNCHANGED <<mailbox, redirected>>

\* handle_error on a ServerError, and Handle::report_error on any error.
OperationServerError(c) ==
    /\ EndOperation(c, [kind |-> "ServerError", id |-> held[c].id])
    /\ Send(CreateChannel(held[c].id, NoNode))
    /\ UNCHANGED redirected

\* handle_error on a NotLeaderException that names the leader.
OperationNotLeader(c) ==
    /\ held[c].id < MaxConnections
    /\ EndOperation(c, [kind |-> "NotLeader", id |-> held[c].id])
    /\ \E leader \in Node : Send(CreateChannel(held[c].id, leader))
    /\ redirected' = redirected \cup {held[c].id}

-----------------------------------------------------------------------------
(* The task. *)

\* resp.send(Ok(h)) when m carries a oneshot, nothing otherwise.
Reply(m, h) ==
    IF m.type = "GetChannel"
    THEN /\ pc' = [pc EXCEPT ![m.caller] = "using"]
         /\ held' = [held EXCEPT ![m.caller] = h]
    ELSE UNCHANGED callerVars

\* The message consumer.recv() takes.
Received == Head(mailbox)

\* Mutation of Receive: everything in the channel is taken as one message.
ReceiveDraining ==
    /\ task = "recv"
    /\ mailbox # <<>>
    /\ mailbox' = <<>>

Receive ==
    /\ task = "recv"
    /\ mailbox # <<>>
    /\ mailbox' = Tail(mailbox)

\* A GetChannel is answered from handle_opt if it can be; whatever else is
\* received goes through next().
CallsNext(m) == m.type = "CreateChannel" \/ handle_opt = NoHandle

AnswerGetChannel ==
    /\ Receive
    /\ ~CallsNext(Received)
    /\ Reply(Received, handle_opt)
    /\ UNCHANGED <<task, serving, conn_id, conn_handle, handle_opt,
                   selected_node, attempts, historyVars>>

\* Mutations of ReturnsCurrent: a report condemns whatever is current; the
\* handle is tested before the request.
ReturnsCurrentUncorrelated(m) == conn_handle # NoHandle /\ m.seed = NoNode
ReturnsCurrentUnasked(m) == conn_handle # NoHandle

\* next() answers with the handle it has: no node was requested, or the request
\* is about another connection than the current one.
ReturnsCurrent(m) ==
    /\ conn_handle # NoHandle
    /\ m.seed # NoNode => m.id # conn_id

\* Mutation of Remember: only the first connection is kept.
RememberFirst(h) == handle_opt' = IF handle_opt = NoHandle THEN h ELSE handle_opt

\* handle_opt = Some(handle), for either message.
Remember(h) == handle_opt' = h

KeepConnection ==
    /\ Receive
    /\ CallsNext(Received)
    /\ ReturnsCurrent(Received)
    /\ Remember(conn_handle)
    /\ Reply(Received, conn_handle)
    /\ UNCHANGED <<task, serving, conn_id, conn_handle, selected_node,
                   attempts, historyVars>>

\* next() drops the handle it has, if any, and starts to connect: to the node
\* of the request, or to one it has yet to select.
StartConnecting ==
    /\ Receive
    /\ CallsNext(Received)
    /\ ~ReturnsCurrent(Received)
    /\ task' = "connect"
    /\ serving' = Received
    /\ conn_handle' = NoHandle
    /\ selected_node' = Received.seed
    /\ attempts' = 1
    /\ UNCHANGED <<conn_id, handle_opt, callerVars, historyVars>>

\* Mutation of FreshId: the id of the replaced connection is used again.
ReusedId == conn_id

\* Uuid::new_v4(): an id no connection has had.
FreshId == conn_id + 1

\* Server features were read, or the node does not know the call.
ProbeSucceeds ==
    /\ task = "connect"
    /\ selected_node # NoNode
    /\ conn_id' = FreshId
    /\ conn_handle' = [id |-> conn_id', endpoint |-> selected_node]
    /\ Remember(conn_handle')
    /\ Reply(serving, conn_handle')
    /\ task' = "recv"
    /\ serving' = NoMsg
    /\ selected_node' = NoNode
    /\ attempts' = 1
    /\ UNCHANGED <<mailbox, historyVars>>

\* Mutation of Drop: the loop is left, the channel stays.
DropNothing(error) ==
    /\ mailbox' = mailbox
    /\ pc' = [c \in Callers |-> IF serving = GetChannel(c) THEN error ELSE pc[c]]

\* The caller next() served sees the error; the channel is dropped, and with it
\* the oneshot sender of every other request: those callers see it closed.
Drop(error) ==
    /\ mailbox' = <<>>
    /\ pc' = [c \in Callers |-> IF serving = GetChannel(c) THEN error
                                ELSE IF Queued(c) THEN "closed" ELSE pc[c]]

\* The loop is left.
Stop(error) ==
    /\ task' = "stopped"
    /\ serving' = NoMsg
    /\ selected_node' = NoNode
    /\ attempts' = 1
    /\ Drop(error)
    /\ UNCHANGED <<conn_id, conn_handle, handle_opt, held, historyVars>>

\* next() fails: any status but NotFound and Unimplemented gives up at once.
ProbeFails ==
    /\ task = "connect"
    /\ selected_node # NoNode
    /\ Stop("failed")

\* gossip::read panics on a member whose instance id is no uuid, and the task ends
\* with it: the caller next() served sees its sender dropped like the others.
SelectionPanics ==
    /\ task = "connect"
    /\ selected_node = NoNode
    /\ ClusterMode
    /\ Stop("closed")

\* gossip_timeout passes; the attempt was counted when the node was selected.
ProbeTimesOut ==
    /\ task = "connect"
    /\ selected_node # NoNode
    /\ selected_node' = NoNode
    /\ UNCHANGED <<mailbox, task, serving, conn_id, conn_handle, handle_opt,
                   attempts, callerVars, historyVars>>

\* node_selection may find no node; a single host is always at hand.
Candidates == IF ClusterMode THEN Node \cup {NoNode} ELSE {FirstHost}

\* Mutation of AttemptsLeft: the bound is tested before the count.
AttemptsLeftBefore == attempts <= MaxDiscoverAttempts

AttemptsLeft == attempts + 1 <= MaxDiscoverAttempts

\* The node found is kept only if another attempt is allowed: the one found on
\* the last attempt is never probed.
SelectNode ==
    /\ task = "connect"
    /\ selected_node = NoNode
    /\ IF AttemptsLeft
       THEN /\ attempts' = attempts + 1
            /\ selected_node' \in Candidates
            /\ UNCHANGED <<mailbox, task, serving, conn_id, conn_handle,
                           handle_opt, callerVars, historyVars>>
       ELSE Stop("failed")

-----------------------------------------------------------------------------

Task ==
    \/ AnswerGetChannel
    \/ KeepConnection
    \/ StartConnecting
    \/ ProbeSucceeds
    \/ ProbeFails
    \/ ProbeTimesOut
    \/ SelectNode
    \/ SelectionPanics

Caller(c) ==
    \/ current_selected_node(c)
    \/ OperationReturns(c)
    \/ OperationServerError(c)
    \/ OperationNotLeader(c)

Next == Task \/ \E c \in Callers : Caller(c)

Spec == Init /\ [][Next]_vars

\* The runtime polls the task while it can move, and gossip_timeout bounds
\* every probe; nothing obliges a caller to ask or an operation to end.
FairSpec == Spec /\ WF_vars(Task)

-----------------------------------------------------------------------------
(* Properties. *)

\* Every variable ranges over what the code declares it to hold.
TypeOK ==
    /\ mailbox \in Seq(Msg)
    /\ task \in {"recv", "connect", "stopped"}
    /\ serving \in Msg
    /\ conn_id \in Nat
    /\ conn_handle \in Handle
    /\ handle_opt \in Handle
    /\ selected_node \in Node \cup {NoNode}
    /\ attempts = 1 \/ attempts \in 1..MaxDiscoverAttempts
    /\ pc \in [Callers -> {"idle", "waiting", "using", "failed", "closed"}]
    /\ held \in [Callers -> Handle]
    /\ lastReport \in [Callers -> [kind : {"none", "ServerError", "NotLeader"},
                                   id : Nat]]
    /\ redirected \in SUBSET Nat

\* The two copies of the current connection, the task's handle_opt and
\* NodeConnection::handle, agree whenever the task takes a message: a caller
\* is never answered with a connection next() has given up.
HandlesAgree == task = "recv" => handle_opt = conn_handle

\* A connection is given up only because some operation was redirected on that
\* very connection: late reports about an older one, however many callers send
\* them and in whatever order, discard nothing (the correlation test of next).
OnlyRedirectedAreReplaced ==
    \A id \in 1..conn_id : id < conn_id => id \in redirected

\* A caller that was redirected and asks again runs on a newer connection: its
\* report is ahead of its request in the channel, whatever else is in between.
RedirectIsFollowed ==
    \A c \in Callers :
        pc[c] = "using" /\ lastReport[c].kind = "NotLeader" =>
            held[c].id > lastReport[c].id

\* A caller that awaits an answer is known to the task: its oneshot sender is in
\* the channel, or with the next() call in progress, and only once.
NoRequestIsLost ==
    /\ \A c \in Callers :
          pc[c] = "waiting" <=> Queued(c) \/ serving = GetChannel(c)
    /\ task = "stopped" => mailbox = <<>> /\ serving = NoMsg
    /\ \A c \in Callers : serving = GetChannel(c) => ~Queued(c)
    /\ \A i, j \in 1..Len(mailbox) :
          mailbox[i] = mailbox[j] /\ mailbox[i].type = "GetChannel" => i = j

\* handle_error logs "Starting node selection process" on a ServerError: the
\* caller's next operation would then not run on the connection it reported.
ServerErrorStartsSelection ==
    \A c \in Callers :
        pc[c] = "using" /\ lastReport[c].kind = "ServerError" =>
            held[c].id # lastReport[c].id

\* Every caller that asks for a connection gets one or an error, also when the
\* task stops with requests in its channel.
EveryRequestIsAnswered ==
    \A c \in Callers : pc[c] = "waiting" ~> pc[c] # "waiting"

-----------------------------------------------------------------------------
(* The strengthening that makes the safety properties inductive. *)

\* The current connection is the newest, and is missing only before the first
\* one or while next() replaces it; only then is a message being served.
CurrentIsNewest ==
    /\ conn_handle # NoHandle => conn_handle.id = conn_id
    /\ task = "recv" /\ conn_handle = NoHandle => conn_id = NilId
    /\ task # "connect" => serving = NoMsg
    /\ \A c \in Callers : held[c].id <= conn_id
    /\ \A c \in Callers : lastReport[c].id <= conn_id

\* A connection under replacement was redirected, and so is whatever a request
\* in the channel names.
RequestsNameRedirected ==
    /\ task = "connect" => conn_id = NilId \/ conn_id \in redirected
    /\ \A i \in 1..Len(mailbox) :
          mailbox[i].seed # NoNode => mailbox[i].id \in redirected

\* The redirection r that c reported is still in the channel, and ahead of c's
\* next request.
ReportAhead(c, r) ==
    \E j \in 1..Len(mailbox) :
        /\ mailbox[j].type = "CreateChannel"
        /\ mailbox[j].id = r
        /\ mailbox[j].seed # NoNode
        /\ \A i \in 1..Len(mailbox) : mailbox[i] = GetChannel(c) => j < i

RedirectIsUnderWay ==
    \A c \in Callers :
        lastReport[c].kind = "NotLeader" =>
            \/ conn_id > lastReport[c].id
            \/ task # "recv"
            \/ ReportAhead(c, lastReport[c].id)

ConnectionInv ==
    /\ TypeOK
    /\ HandlesAgree
    /\ CurrentIsNewest
    /\ RequestsNameRedirected
    /\ OnlyRedirectedAreReplaced
    /\ NoRequestIsLost
    /\ RedirectIsUnderWay
    /\ RedirectIsFollowed

-----------------------------------------------------------------------------
(* What the callers can rely on, without the channel and the task. *)

Service == INSTANCE ConnectionService WITH
    open    <- task # "stopped",
    current <- handle_opt,
    waiting <- {c \in Callers : pc[c] = "waiting"}

\* The task implements the connection service.
ImplementsService == Service!Spec

===============================================================================
