--------------------------- MODULE ConnectionProofs ---------------------------
(***************************************************************************)
(* What holds of the connection task for any callers, nodes and bounds.    *)
(***************************************************************************)
EXTENDS Connection, SequenceTheorems, TLAPS

\* The messages the callers build are messages of the channel.
LEMMA MessagesAreMsgs ==
    /\ \A c \in Callers : GetChannel(c) \in Msg
    /\ \A id \in Nat, seed \in Node \cup {NoNode} : CreateChannel(id, seed) \in Msg
    /\ NoMsg \in Msg
    /\ NoHandle \in Handle
BY DEF GetChannel, CreateChannel, NoMsg, Msg, NilId, NoHandle, Handle

\* A send leaves a channel of messages.
LEMMA SendType ==
    ASSUME mailbox \in Seq(Msg), NEW m \in Msg, Send(m)
    PROVE  mailbox' \in Seq(Msg)
BY DEF Send

\* What is received is a message, and messages remain.
LEMMA ReceiveType ==
    ASSUME mailbox \in Seq(Msg), Receive
    PROVE  /\ Received \in Msg
           /\ mailbox' \in Seq(Msg)
BY HeadTailProperties DEF Receive, Received

\* An answer moves its caller to a typed handle.
LEMMA ReplyType ==
    ASSUME TypeOK, NEW m \in Msg, NEW h \in Handle, Reply(m, h)
    PROVE  /\ pc' \in [Callers -> {"idle", "waiting", "using", "failed", "closed"}]
           /\ held' \in [Callers -> Handle]
<1> DEFINE States == {"idle", "waiting", "using", "failed", "closed"}
<1>0. pc \in [Callers -> States] /\ held \in [Callers -> Handle]
  BY DEF TypeOK
<1>1. CASE m.type = "GetChannel"
  <2>1. /\ pc' = [pc EXCEPT ![m.caller] = "using"]
        /\ held' = [held EXCEPT ![m.caller] = h]
    BY <1>1 DEF Reply
  <2>2. pc' \in [Callers -> States]
    <3>1. "using" \in States
      OBVIOUS
    <3> HIDE DEF States
    <3> QED
      BY <1>0, <2>1, <3>1
  <2>3. held' \in [Callers -> Handle]
    BY <1>0, <2>1
  <2> QED
    BY <2>2, <2>3
<1>2. CASE m.type # "GetChannel"
  <2>1. pc' = pc /\ held' = held
    BY <1>2 DEF Reply, callerVars
  <2> QED
    BY <1>0, <2>1
<1> QED
  BY <1>1, <1>2

\* The loop is left, by an error of next() or by a panic.
Stops == \E error \in {"failed", "closed"} : Stop(error)

\* The variables a step of the task leaves to the callers' history.
LEMMA StopType ==
    ASSUME TypeOK, Stops
    PROVE  TypeOK'
<1>1. pc' \in [Callers -> {"idle", "waiting", "using", "failed", "closed"}]
  BY DEF TypeOK, Stops, Stop, Drop
<1>2. mailbox' \in Seq(Msg) /\ serving' \in Msg
  BY MessagesAreMsgs DEF Stops, Stop, Drop
<1> QED
  BY <1>1, <1>2 DEF TypeOK, Stops, Stop, historyVars

\* Every step keeps every variable in its type (connection_state_machine, next,
\* current_selected_node and handle_error together).
LEMMA TypeStep == TypeOK /\ [Next]_vars => TypeOK'
<1> SUFFICES ASSUME TypeOK, [Next]_vars
             PROVE  TypeOK'
  OBVIOUS
<1>1. ASSUME NEW c \in Callers, current_selected_node(c)
      PROVE  TypeOK'
  <2>1. mailbox' \in Seq(Msg)
    BY <1>1, MessagesAreMsgs, SendType DEF current_selected_node, TypeOK
  <2> QED
    BY <1>1, <2>1 DEF current_selected_node, TypeOK, historyVars
<1>2. ASSUME NEW c \in Callers, OperationReturns(c)
      PROVE  TypeOK'
  BY <1>2, MessagesAreMsgs
  DEF OperationReturns, EndOperation, NoReport, NilId, TypeOK
<1>3. ASSUME NEW c \in Callers, OperationServerError(c)
      PROVE  TypeOK'
  <2>1. held[c].id \in Nat
    BY DEF TypeOK, Handle
  <2>2. mailbox' \in Seq(Msg)
    BY <1>3, <2>1, MessagesAreMsgs, SendType DEF OperationServerError, TypeOK
  <2> QED
    BY <1>3, <2>1, <2>2, MessagesAreMsgs DEF OperationServerError, EndOperation, TypeOK
<1>4. ASSUME NEW c \in Callers, OperationNotLeader(c)
      PROVE  TypeOK'
  <2>1. held[c].id \in Nat
    BY DEF TypeOK, Handle
  <2>2. mailbox' \in Seq(Msg)
    BY <1>4, <2>1, MessagesAreMsgs, SendType DEF OperationNotLeader, TypeOK
  <2>3. redirected' \in SUBSET Nat
    BY <1>4, <2>1 DEF OperationNotLeader, TypeOK
  <2> QED
    BY <1>4, <2>1, <2>2, <2>3, MessagesAreMsgs DEF OperationNotLeader, EndOperation, TypeOK
<1>5. CASE AnswerGetChannel
  <2>1. Received \in Msg /\ mailbox' \in Seq(Msg)
    BY <1>5, ReceiveType DEF AnswerGetChannel, TypeOK
  <2> QED
    BY <1>5, <2>1, ReplyType DEF AnswerGetChannel, TypeOK, historyVars
<1>6. CASE KeepConnection
  <2>1. Received \in Msg /\ mailbox' \in Seq(Msg)
    BY <1>6, ReceiveType DEF KeepConnection, TypeOK
  <2> QED
    BY <1>6, <2>1, ReplyType DEF KeepConnection, Remember, TypeOK, historyVars
<1>7. CASE StartConnecting
  <2>1. Received \in Msg /\ mailbox' \in Seq(Msg)
    BY <1>7, ReceiveType DEF StartConnecting, TypeOK
  <2>2. Received.seed \in Node \cup {NoNode}
    BY <2>1 DEF Msg
  <2> QED
    BY <1>7, <2>1, <2>2, MessagesAreMsgs
    DEF StartConnecting, TypeOK, historyVars, callerVars
<1>8. CASE ProbeSucceeds
  <2>1. conn_handle' \in Handle /\ conn_id' \in Nat
    BY <1>8 DEF ProbeSucceeds, FreshId, TypeOK, Handle
  <2> QED
    BY <1>8, <2>1, ReplyType, MessagesAreMsgs
    DEF ProbeSucceeds, Remember, TypeOK, historyVars
<1>9. CASE ProbeFails
  BY <1>9, StopType DEF ProbeFails, Stops
<1>10. CASE ProbeTimesOut
  BY <1>10 DEF ProbeTimesOut, TypeOK, historyVars, callerVars
<1>11. CASE SelectNode
  <2>1. CASE AttemptsLeft
    <3>1. attempts' \in 1..MaxDiscoverAttempts
      BY <1>11, <2>1, ConnectionAssumption DEF SelectNode, AttemptsLeft, TypeOK
    <3>2. selected_node' \in Node \cup {NoNode}
      BY <1>11, <2>1, ConnectionAssumption DEF SelectNode, Candidates
    <3> QED
      BY <1>11, <2>1, <3>1, <3>2 DEF SelectNode, TypeOK, historyVars, callerVars
  <2>2. CASE ~AttemptsLeft
    BY <1>11, <2>2, StopType DEF SelectNode, Stops
  <2> QED
    BY <2>1, <2>2
<1>12. CASE UNCHANGED vars
  BY <1>12 DEF vars, taskVars, callerVars, historyVars, TypeOK
<1>13. CASE SelectionPanics
  BY <1>13, StopType DEF SelectionPanics, Stops
<1> QED
  BY <1>1, <1>2, <1>3, <1>4, <1>5, <1>6, <1>7, <1>8, <1>9, <1>10, <1>11, <1>12, <1>13
  DEF Next, Task, Caller

\* Every variable of the connection core stays in its type; in particular next()
\* never counts more attempts than maxDiscoverAttempts.
THEOREM TypeCorrect == Spec => []TypeOK
<1>1. Init => TypeOK
  BY MessagesAreMsgs DEF Init, TypeOK, NoReport, NilId
<1> QED
  BY <1>1, TypeStep, PTL DEF Spec

-----------------------------------------------------------------------------
(* The channel, message by message. *)

\* A send to a running task adds its message at the end of the channel.
LEMMA SendAtEnd ==
    ASSUME mailbox \in Seq(Msg), NEW m \in Msg, Send(m), task # "stopped"
    PROVE  /\ Len(mailbox') = Len(mailbox) + 1
           /\ \A i \in 1..Len(mailbox) : mailbox'[i] = mailbox[i]
           /\ mailbox'[Len(mailbox) + 1] = m
BY AppendProperties DEF Send

\* A receive takes the first message and keeps the others in their order.
LEMMA ReceiveFirst ==
    ASSUME mailbox \in Seq(Msg), Receive
    PROVE  /\ Len(mailbox) \in Nat /\ Len(mailbox) >= 1
           /\ Received = mailbox[1]
           /\ Len(mailbox') = Len(mailbox) - 1
           /\ \A i \in 1..Len(mailbox') : mailbox'[i] = mailbox[i + 1]
BY HeadTailProperties DEF Receive, Received

\* The connection is the newest one, and the task and the node connection agree
\* on it: preserved by every step.
LEMMA CurrentStep ==
    ASSUME TypeOK, HandlesAgree, CurrentIsNewest, [Next]_vars
    PROVE  HandlesAgree' /\ CurrentIsNewest'
<1> USE DEF HandlesAgree, CurrentIsNewest, TypeOK, Handle
<1>1. ASSUME NEW c \in Callers, current_selected_node(c)
      PROVE  HandlesAgree' /\ CurrentIsNewest'
  BY <1>1 DEF current_selected_node, historyVars
<1>2. ASSUME NEW c \in Callers, NEW report,
             report.id = NilId \/ report.id = held[c].id,
             EndOperation(c, report)
      PROVE  HandlesAgree' /\ CurrentIsNewest'
  BY <1>2 DEF EndOperation, NoHandle, NilId
<1>3. ASSUME NEW c \in Callers, OperationReturns(c)
      PROVE  HandlesAgree' /\ CurrentIsNewest'
  BY <1>2, <1>3 DEF OperationReturns, NoReport
<1>4. ASSUME NEW c \in Callers, OperationServerError(c)
      PROVE  HandlesAgree' /\ CurrentIsNewest'
  BY <1>2, <1>4 DEF OperationServerError
<1>5. ASSUME NEW c \in Callers, OperationNotLeader(c)
      PROVE  HandlesAgree' /\ CurrentIsNewest'
  BY <1>2, <1>5 DEF OperationNotLeader
<1>6. ASSUME NEW m \in Msg, NEW h \in Handle, Reply(m, h), h.id <= conn_id'
      PROVE  \A c \in Callers : held'[c] = held[c] \/ held'[c].id <= conn_id'
  BY <1>6 DEF Reply, callerVars
<1>7. CASE AnswerGetChannel
  <2>1. Received \in Msg
    BY <1>7, ReceiveType DEF AnswerGetChannel
  <2>2. handle_opt.id <= conn_id
    BY <1>7, <2>1 DEF AnswerGetChannel, Receive, CallsNext, Msg
  <2> QED
    BY <1>6, <1>7, <2>1, <2>2 DEF AnswerGetChannel, historyVars
<1>8. CASE KeepConnection
  <2>1. Received \in Msg
    BY <1>8, ReceiveType DEF KeepConnection
  <2>2. conn_handle.id <= conn_id /\ task = "recv"
    BY <1>8 DEF KeepConnection, ReturnsCurrent, Receive
  <2> QED
    BY <1>6, <1>8, <2>1, <2>2 DEF KeepConnection, Remember, historyVars
<1>9. CASE StartConnecting
  BY <1>9 DEF StartConnecting, historyVars, callerVars
<1>10. CASE ProbeSucceeds
  <2>1. conn_handle' \in Handle /\ conn_handle'.id = conn_id' /\ conn_id' = conn_id + 1
    BY <1>10 DEF ProbeSucceeds, FreshId
  <2>2. \A c \in Callers : held'[c].id <= conn_id'
    <3>1. \A c \in Callers : held'[c] = held[c] \/ held'[c].id <= conn_id'
      <4>1. Reply(serving, conn_handle') /\ serving \in Msg
        BY <1>10 DEF ProbeSucceeds
      <4>2. conn_handle'.id <= conn_id'
        BY <2>1
      <4> HIDE DEF TypeOK, Handle, CurrentIsNewest, HandlesAgree
      <4> QED
        BY <1>6, <2>1, <4>1, <4>2
    <3>2. \A c \in Callers : held[c].id \in Nat /\ held[c].id <= conn_id
      OBVIOUS
    <3> QED
      BY <2>1, <3>1, <3>2
  <2>3. \A c \in Callers : lastReport'[c].id <= conn_id'
    BY <1>10, <2>1 DEF ProbeSucceeds, historyVars
  <2>4. conn_handle' # NoHandle
    BY <2>1 DEF NoHandle, NilId
  <2> QED
    BY <1>10, <2>1, <2>2, <2>3, <2>4 DEF ProbeSucceeds, Remember
<1>11. CASE Stops
  BY <1>11 DEF Stops, Stop, historyVars
<1>12. CASE ProbeTimesOut
  BY <1>12 DEF ProbeTimesOut, historyVars, callerVars
<1>13. CASE SelectNode
  BY <1>11, <1>13 DEF SelectNode, Stops, historyVars, callerVars
<1>14. CASE UNCHANGED vars
  BY <1>14 DEF vars, taskVars, callerVars, historyVars
<1> QED
  BY <1>1, <1>3, <1>4, <1>5, <1>7, <1>8, <1>9, <1>10, <1>11, <1>12, <1>13, <1>14
  DEF Next, Task, Caller, ProbeFails, SelectionPanics, Stops

\* A request names a redirected connection, and only such a connection is ever
\* replaced: preserved by every step.
LEMMA RedirectedStep ==
    ASSUME TypeOK, CurrentIsNewest, RequestsNameRedirected,
           OnlyRedirectedAreReplaced, [Next]_vars
    PROVE  RequestsNameRedirected' /\ OnlyRedirectedAreReplaced'
<1> USE DEF RequestsNameRedirected, OnlyRedirectedAreReplaced
<1> mailbox \in Seq(Msg) /\ conn_id \in Nat
  BY DEF TypeOK
<1>1. ASSUME NEW m \in Msg, Send(m), m.seed # NoNode => m.id \in redirected',
             redirected \subseteq redirected', UNCHANGED <<task, conn_id>>
      PROVE  RequestsNameRedirected' /\ OnlyRedirectedAreReplaced'
  <2>1. CASE task = "stopped"
    BY <1>1, <2>1 DEF Send
  <2>2. CASE task # "stopped"
    <3>1. \A i \in 1..Len(mailbox') :
             mailbox'[i].seed # NoNode => mailbox'[i].id \in redirected'
      BY <1>1, <2>2, SendAtEnd
    <3> QED
      BY <1>1, <3>1
  <2> QED
    BY <2>1, <2>2
<1>2. ASSUME NEW c \in Callers, current_selected_node(c)
      PROVE  RequestsNameRedirected' /\ OnlyRedirectedAreReplaced'
  <2>1. GetChannel(c).seed = NoNode
    BY DEF GetChannel
  <2> QED
    BY <1>1, <1>2, <2>1, MessagesAreMsgs DEF current_selected_node, historyVars
<1>3. ASSUME NEW c \in Callers, OperationReturns(c)
      PROVE  RequestsNameRedirected' /\ OnlyRedirectedAreReplaced'
  BY <1>3 DEF OperationReturns, EndOperation
<1>4. ASSUME NEW c \in Callers, OperationServerError(c)
      PROVE  RequestsNameRedirected' /\ OnlyRedirectedAreReplaced'
  <2>1. held[c].id \in Nat
    BY DEF TypeOK, Handle
  <2>2. CreateChannel(held[c].id, NoNode).seed = NoNode
    BY DEF CreateChannel
  <2> QED
    BY <1>1, <1>4, <2>1, <2>2, MessagesAreMsgs DEF OperationServerError, EndOperation
<1>5. ASSUME NEW c \in Callers, OperationNotLeader(c)
      PROVE  RequestsNameRedirected' /\ OnlyRedirectedAreReplaced'
  <2>1. held[c].id \in Nat
    BY DEF TypeOK, Handle
  <2>2. PICK leader \in Node : Send(CreateChannel(held[c].id, leader))
    BY <1>5 DEF OperationNotLeader
  <2>3. CreateChannel(held[c].id, leader).id = held[c].id
    BY DEF CreateChannel
  <2> QED
    BY <1>1, <1>5, <2>1, <2>2, <2>3, MessagesAreMsgs
    DEF OperationNotLeader, EndOperation
<1>6. ASSUME Receive, UNCHANGED <<conn_id, redirected>>,
             task' = "connect" => conn_id = NilId \/ conn_id \in redirected
      PROVE  RequestsNameRedirected' /\ OnlyRedirectedAreReplaced'
  <2>1. \A i \in 1..Len(mailbox') :
             mailbox'[i].seed # NoNode => mailbox'[i].id \in redirected'
    BY <1>6, ReceiveFirst
  <2> QED
    BY <1>6, <2>1
<1>7. CASE AnswerGetChannel
  BY <1>6, <1>7 DEF AnswerGetChannel, Receive, historyVars
<1>8. CASE KeepConnection
  BY <1>6, <1>8 DEF KeepConnection, Receive, historyVars
<1>9. CASE StartConnecting
  <2>1. task = "recv" /\ ~ReturnsCurrent(Received) /\ Receive
    BY <1>9 DEF StartConnecting, Receive
  <2>2. CASE conn_handle = NoHandle
    BY <1>6, <1>9, <2>1, <2>2 DEF StartConnecting, CurrentIsNewest, historyVars
  <2>3. CASE conn_handle # NoHandle
    <3>1. Received.seed # NoNode /\ Received.id = conn_id
      BY <2>1, <2>3 DEF ReturnsCurrent
    <3>2. conn_id \in redirected
      BY <2>1, <3>1, ReceiveFirst
    <3> QED
      BY <1>6, <1>9, <2>1, <3>2 DEF StartConnecting, historyVars
  <2> QED
    BY <2>2, <2>3
<1>10. CASE ProbeSucceeds
  BY <1>10 DEF ProbeSucceeds, FreshId, NilId, historyVars
<1>11. CASE Stops
  BY <1>11 DEF Stops, Stop, Drop, historyVars
<1>12. CASE ProbeTimesOut
  BY <1>12 DEF ProbeTimesOut, historyVars
<1>13. CASE SelectNode
  BY <1>11, <1>13 DEF SelectNode, Stops, historyVars
<1>14. CASE UNCHANGED vars
  BY <1>14 DEF vars, taskVars, historyVars
<1> QED
  BY <1>2, <1>3, <1>4, <1>5, <1>7, <1>8, <1>9, <1>10, <1>11, <1>12, <1>13, <1>14
  DEF Next, Task, Caller, ProbeFails, SelectionPanics, Stops

-----------------------------------------------------------------------------
(* The requests of the callers. *)

\* A request is known by its caller, and no CreateChannel is a request.
LEMMA RequestsDiffer ==
    /\ \A c, d \in Callers : GetChannel(c) = GetChannel(d) => c = d
    /\ \A c \in Callers : GetChannel(c).type = "GetChannel"
    /\ \A c \in Callers : GetChannel(c).caller = c
    /\ \A c \in Callers : GetChannel(c).seed = NoNode
    /\ \A m \in Msg : m.type = "GetChannel" =>
          m.caller \in Callers /\ m = GetChannel(m.caller)
    /\ \A id \in Nat, seed \in Node \cup {NoNode} :
          CreateChannel(id, seed).type = "CreateChannel"
    /\ NoMsg.type = "CreateChannel"
BY DEF GetChannel, CreateChannel, NoMsg, Msg, NilId

\* A send adds its own request to those in the channel, and no other.
LEMMA SendQueues ==
    ASSUME mailbox \in Seq(Msg), NEW m \in Msg, Send(m), task # "stopped",
           NEW c \in Callers
    PROVE  Queued(c)' <=> Queued(c) \/ m = GetChannel(c)
<1>1. Len(mailbox) \in Nat
  OBVIOUS
<1>2. ASSUME Queued(c) PROVE Queued(c)'
  BY <1>1, <1>2, SendAtEnd DEF Queued
<1>3. ASSUME m = GetChannel(c) PROVE Queued(c)'
  BY <1>1, <1>3, SendAtEnd DEF Queued
<1>4. ASSUME Queued(c)' PROVE Queued(c) \/ m = GetChannel(c)
  BY <1>1, <1>4, SendAtEnd DEF Queued
<1> QED
  BY <1>2, <1>3, <1>4

\* A receive takes its own request from those in the channel, and no other.
LEMMA ReceiveTakes ==
    ASSUME mailbox \in Seq(Msg), NoRequestIsLost, Receive, NEW c \in Callers
    PROVE  /\ Queued(c)' <=> Queued(c) /\ Received # GetChannel(c)
           /\ Received = GetChannel(c) => Queued(c)
<1>1. ASSUME Received = GetChannel(c) PROVE Queued(c) /\ ~Queued(c)'
  <2>1. Queued(c)
    BY <1>1, ReceiveFirst DEF Queued
  <2>2. ASSUME NEW i \in 1..Len(mailbox'), mailbox'[i] = GetChannel(c) PROVE FALSE
    <3>1. mailbox[i + 1] = mailbox[1] /\ i + 1 \in 1..Len(mailbox)
          /\ 1 \in 1..Len(mailbox)
      BY <1>1, <2>2, ReceiveFirst
    <3>2. mailbox[1].type = "GetChannel"
      BY <1>1, ReceiveFirst, RequestsDiffer
    <3> QED
      BY <3>1, <3>2, <2>2 DEF NoRequestIsLost
  <2> QED
    BY <2>1, <2>2 DEF Queued
<1>2. ASSUME Queued(c), Received # GetChannel(c) PROVE Queued(c)'
  <2>1. PICK i \in 1..Len(mailbox) : mailbox[i] = GetChannel(c)
    BY <1>2 DEF Queued
  <2>2. i # 1
    BY <1>2, <2>1, ReceiveFirst
  <2>3. i - 1 \in 1..Len(mailbox') /\ (i - 1) + 1 = i
    BY <2>2, ReceiveFirst
  <2>4. mailbox'[i - 1] = mailbox[i]
    BY <2>3, ReceiveFirst
  <2> QED
    BY <2>1, <2>3, <2>4 DEF Queued
<1>3. ASSUME Queued(c)' PROVE Queued(c)
  BY <1>3, ReceiveFirst DEF Queued
<1> QED
  BY <1>1, <1>2, <1>3

\* No two entries of the channel are the same request.
RequestsUnique ==
    \A i, j \in 1..Len(mailbox) :
        mailbox[i] = mailbox[j] /\ mailbox[i].type = "GetChannel" => i = j

\* A send of anything but a request already queued keeps requests unique.
LEMMA SendUnique ==
    ASSUME mailbox \in Seq(Msg), RequestsUnique, NEW m \in Msg, Send(m),
           task # "stopped",
           \A c \in Callers : m = GetChannel(c) => ~Queued(c)
    PROVE  RequestsUnique'
<1>1. Len(mailbox) \in Nat
  OBVIOUS
<1>2. ASSUME NEW i \in 1..Len(mailbox), mailbox[i] = m, m.type = "GetChannel"
      PROVE  FALSE
  BY <1>2, RequestsDiffer DEF Queued
<1> QED
  BY <1>1, <1>2, SendAtEnd DEF RequestsUnique

\* A receive keeps requests unique.
LEMMA ReceiveUnique ==
    ASSUME mailbox \in Seq(Msg), RequestsUnique, Receive
    PROVE  RequestsUnique'
<1> SUFFICES ASSUME NEW i \in 1..Len(mailbox'), NEW j \in 1..Len(mailbox'),
                    mailbox'[i] = mailbox'[j], mailbox'[i].type = "GetChannel"
             PROVE  i = j
  BY DEF RequestsUnique
<1>1. i + 1 \in 1..Len(mailbox) /\ j + 1 \in 1..Len(mailbox)
  BY ReceiveFirst
<1>2. mailbox[i + 1] = mailbox[j + 1] /\ mailbox[i + 1].type = "GetChannel"
  BY ReceiveFirst
<1> QED
  BY <1>1, <1>2 DEF RequestsUnique

\* A step that sends one CreateChannel and keeps who waits loses no request.
LEMMA ReportLosesNothing ==
    ASSUME TypeOK, NoRequestIsLost, NEW id \in Nat, NEW seed \in Node \cup {NoNode},
           Send(CreateChannel(id, seed)), UNCHANGED <<task, serving>>,
           \A c \in Callers : pc'[c] = "waiting" <=> pc[c] = "waiting"
    PROVE  NoRequestIsLost'
<1> DEFINE m == CreateChannel(id, seed)
<1>1. m \in Msg /\ \A c \in Callers : m # GetChannel(c)
  BY MessagesAreMsgs, RequestsDiffer
<1>2. mailbox \in Seq(Msg)
  BY DEF TypeOK
<1>3. CASE task = "stopped"
  BY <1>3 DEF Send, NoRequestIsLost, Queued
<1>4. CASE task # "stopped"
  <2>1. \A c \in Callers : Queued(c)' <=> Queued(c)
    BY <1>1, <1>2, <1>4, SendQueues
  <2>2. RequestsUnique'
    BY <1>1, <1>2, <1>4, SendUnique DEF NoRequestIsLost, RequestsUnique
  <2> QED
    BY <1>4, <2>1, <2>2 DEF NoRequestIsLost, RequestsUnique
<1> QED
  BY <1>3, <1>4

\* No step loses a caller's request (NoRequestIsLost is preserved).
LEMMA RequestsStep ==
    ASSUME TypeOK, HandlesAgree, CurrentIsNewest, NoRequestIsLost, [Next]_vars
    PROVE  NoRequestIsLost'
<1>0. /\ mailbox \in Seq(Msg)
      /\ serving \in Msg
      /\ pc \in [Callers -> {"idle", "waiting", "using", "failed", "closed"}]
      /\ RequestsUnique
      /\ \A c \in Callers : NoMsg # GetChannel(c)
  BY RequestsDiffer DEF TypeOK, NoRequestIsLost, RequestsUnique
<1>1. ASSUME NEW c \in Callers, current_selected_node(c)
      PROVE  NoRequestIsLost'
  <2>1. ~Queued(c) /\ serving # GetChannel(c) /\ Send(GetChannel(c))
    BY <1>1 DEF NoRequestIsLost, current_selected_node
  <2>2. CASE task = "stopped"
    BY <1>0, <1>1, <2>1, <2>2
    DEF current_selected_node, Send, NoRequestIsLost, Queued
  <2>3. CASE task # "stopped"
    <3>1. \A d \in Callers : Queued(d)' <=> Queued(d) \/ d = c
      BY <1>0, <2>1, <2>3, SendQueues, MessagesAreMsgs, RequestsDiffer
    <3>2. RequestsUnique'
      BY <1>0, <2>1, <2>3, SendUnique, MessagesAreMsgs, RequestsDiffer
    <3>3. \A d \in Callers : pc'[d] = IF d = c THEN "waiting" ELSE pc[d]
      BY <1>0, <1>1, <2>3 DEF current_selected_node
    <3>4. UNCHANGED <<task, serving>>
      BY <1>1 DEF current_selected_node
    <3> QED
      BY <2>1, <2>3, <3>1, <3>2, <3>3, <3>4 DEF NoRequestIsLost, RequestsUnique
  <2> QED
    BY <2>2, <2>3
<1>2. ASSUME NEW c \in Callers, NEW report, EndOperation(c, report)
      PROVE  \A d \in Callers : pc'[d] = "waiting" <=> pc[d] = "waiting"
  BY <1>0, <1>2 DEF EndOperation
<1>3. ASSUME NEW c \in Callers, OperationReturns(c)
      PROVE  NoRequestIsLost'
  BY <1>2, <1>3 DEF OperationReturns, EndOperation, NoRequestIsLost, Queued
<1>4. ASSUME NEW c \in Callers, OperationServerError(c)
      PROVE  NoRequestIsLost'
  <2>1. held[c].id \in Nat
    BY DEF TypeOK, Handle
  <2> QED
    BY <1>2, <1>4, <2>1, ReportLosesNothing DEF OperationServerError, EndOperation
<1>5. ASSUME NEW c \in Callers, OperationNotLeader(c)
      PROVE  NoRequestIsLost'
  <2>1. held[c].id \in Nat
    BY DEF TypeOK, Handle
  <2>2. PICK leader \in Node : Send(CreateChannel(held[c].id, leader))
    BY <1>5 DEF OperationNotLeader
  <2> QED
    BY <1>2, <1>5, <2>1, <2>2, ReportLosesNothing DEF OperationNotLeader, EndOperation
<1>6. ASSUME Receive, UNCHANGED <<task, serving>>, NEW h, Reply(Received, h)
      PROVE  NoRequestIsLost'
  <2>1. Received \in Msg /\ task = "recv" /\ serving = NoMsg
    BY <1>0, <1>6, ReceiveType DEF Receive, CurrentIsNewest
  <2>2. \A c \in Callers : pc'[c] = "waiting" <=>
                           pc[c] = "waiting" /\ Received # GetChannel(c)
    BY <1>0, <1>6, <2>1, RequestsDiffer DEF Reply, callerVars
  <2>3. \A c \in Callers : Queued(c)' <=> Queued(c) /\ Received # GetChannel(c)
    BY <1>0, <1>6, ReceiveTakes
  <2>4. RequestsUnique'
    BY <1>0, <1>6, ReceiveUnique
  <2> QED
    BY <1>0, <1>6, <2>1, <2>2, <2>3, <2>4 DEF NoRequestIsLost, RequestsUnique
<1>7. CASE AnswerGetChannel
  BY <1>6, <1>7 DEF AnswerGetChannel
<1>8. CASE KeepConnection
  BY <1>6, <1>8 DEF KeepConnection
<1>9. CASE StartConnecting
  <2>1. Receive /\ serving = NoMsg /\ serving' = Received /\ pc' = pc
        /\ task' = "connect"
    BY <1>9 DEF StartConnecting, Receive, CurrentIsNewest, callerVars
  <2>2. \A c \in Callers : /\ Queued(c)' <=> Queued(c) /\ Received # GetChannel(c)
                           /\ Received = GetChannel(c) => Queued(c)
    BY <1>0, <2>1, ReceiveTakes
  <2>3. RequestsUnique'
    BY <1>0, <2>1, ReceiveUnique
  <2> QED
    BY <1>0, <2>1, <2>2, <2>3 DEF NoRequestIsLost, RequestsUnique
<1>10. CASE ProbeSucceeds
  <2>1. mailbox' = mailbox /\ serving' = NoMsg /\ task' = "recv"
        /\ Reply(serving, conn_handle')
    BY <1>10 DEF ProbeSucceeds
  <2>2. \A c \in Callers : pc'[c] = "waiting" <=>
                           pc[c] = "waiting" /\ serving # GetChannel(c)
    BY <1>0, <2>1, RequestsDiffer DEF Reply, callerVars
  <2> QED
    BY <1>0, <2>1, <2>2 DEF NoRequestIsLost, Queued
<1>11. CASE Stops
  <2>1. mailbox' = <<>> /\ serving' = NoMsg
    BY <1>11 DEF Stops, Stop, Drop
  <2>2. \A c \in Callers : pc'[c] # "waiting"
    BY <1>0, <1>11 DEF Stops, Stop, Drop, NoRequestIsLost
  <2> QED
    BY <1>0, <2>1, <2>2 DEF NoRequestIsLost, Queued
<1>12. CASE ProbeTimesOut
  BY <1>12 DEF ProbeTimesOut, callerVars, NoRequestIsLost, Queued
<1>13. CASE SelectNode
  BY <1>11, <1>13 DEF SelectNode, Stops, callerVars, NoRequestIsLost, Queued
<1>14. CASE UNCHANGED vars
  BY <1>14 DEF vars, taskVars, callerVars, NoRequestIsLost, Queued
<1> QED
  BY <1>1, <1>3, <1>4, <1>5, <1>7, <1>8, <1>9, <1>10, <1>11, <1>12, <1>13, <1>14
  DEF Next, Task, Caller, ProbeFails, SelectionPanics, Stops

-----------------------------------------------------------------------------
(* The redirections the callers reported. *)

\* A report stays ahead of its caller's next request whatever is sent behind it.
LEMMA SendKeepsAhead ==
    ASSUME mailbox \in Seq(Msg), NEW m \in Msg, Send(m), task # "stopped",
           NEW c \in Callers, NEW r \in Nat, ReportAhead(c, r)
    PROVE  ReportAhead(c, r)'
<1>1. PICK j \in 1..Len(mailbox) :
        /\ mailbox[j].type = "CreateChannel"
        /\ mailbox[j].id = r
        /\ mailbox[j].seed # NoNode
        /\ \A i \in 1..Len(mailbox) : mailbox[i] = GetChannel(c) => j < i
  BY DEF ReportAhead
<1>2. Len(mailbox) \in Nat
  OBVIOUS
<1>3. j \in 1..Len(mailbox') /\ mailbox'[j] = mailbox[j]
  BY <1>2, SendAtEnd
<1>4. \A i \in 1..Len(mailbox') : mailbox'[i] = GetChannel(c) => j < i
  BY <1>1, <1>2, SendAtEnd
<1> QED
  BY <1>1, <1>3, <1>4 DEF ReportAhead

\* While a report is ahead of its caller's request, what is received is not that
\* request; it is the report itself, or the report stays ahead.
LEMMA ReceiveKeepsAhead ==
    ASSUME mailbox \in Seq(Msg), Receive, NEW c \in Callers, NEW r \in Nat,
           ReportAhead(c, r)
    PROVE  /\ Received # GetChannel(c)
           /\ \/ ReportAhead(c, r)'
              \/ /\ Received.type = "CreateChannel"
                 /\ Received.id = r
                 /\ Received.seed # NoNode
<1>1. PICK j \in 1..Len(mailbox) :
        /\ mailbox[j].type = "CreateChannel"
        /\ mailbox[j].id = r
        /\ mailbox[j].seed # NoNode
        /\ \A i \in 1..Len(mailbox) : mailbox[i] = GetChannel(c) => j < i
  BY DEF ReportAhead
<1>2. Received # GetChannel(c)
  BY <1>1, ReceiveFirst
<1>3. CASE j = 1
  BY <1>1, <1>2, <1>3, ReceiveFirst
<1>4. CASE j # 1
  <2>1. j - 1 \in 1..Len(mailbox') /\ mailbox'[j - 1] = mailbox[j]
    BY <1>4, ReceiveFirst
  <2>2. \A i \in 1..Len(mailbox') : mailbox'[i] = GetChannel(c) => j - 1 < i
    BY <1>1, ReceiveFirst
  <2> QED
    BY <1>1, <1>2, <2>1, <2>2 DEF ReportAhead
<1> QED
  BY <1>3, <1>4

\* Where the redirection r that c reported stands.
UnderWay(c, r) == conn_id > r \/ task # "recv" \/ ReportAhead(c, r)

\* A redirection is followed, or on its way ahead of its caller's next request:
\* preserved by every step.
LEMMA UnderWayStep ==
    ASSUME TypeOK, CurrentIsNewest, NoRequestIsLost, RedirectIsUnderWay, [Next]_vars
    PROVE  RedirectIsUnderWay'
<1> SUFFICES ASSUME NEW c \in Callers, NEW r \in Nat,
                    lastReport'[c].kind = "NotLeader", lastReport'[c].id = r
             PROVE  UnderWay(c, r)'
  <2>1. lastReport' \in [Callers -> [kind : {"none", "ServerError", "NotLeader"},
                                     id : Nat]]
    BY TypeStep DEF TypeOK
  <2>2. \A c \in Callers : lastReport'[c].id \in Nat
    BY <2>1
  <2> QED
    BY <2>2 DEF RedirectIsUnderWay, UnderWay, ReportAhead
<1>0. /\ mailbox \in Seq(Msg)
      /\ conn_id \in Nat
      /\ task \in {"recv", "connect", "stopped"}
      /\ lastReport \in [Callers -> [kind : {"none", "ServerError", "NotLeader"},
                                     id : Nat]]
  BY DEF TypeOK
<1>1. lastReport'[c] = lastReport[c] => UnderWay(c, r) /\ r <= conn_id
  BY DEF RedirectIsUnderWay, UnderWay, CurrentIsNewest
<1>2. ASSUME NEW m \in Msg, Send(m), UNCHANGED <<task, conn_id>>,
             lastReport'[c] = lastReport[c]
      PROVE  UnderWay(c, r)'
  <2>1. CASE task # "recv"
    BY <1>2, <2>1 DEF UnderWay
  <2>2. CASE task = "recv"
    BY <1>0, <1>1, <1>2, <2>2, SendKeepsAhead DEF UnderWay
  <2> QED
    BY <2>1, <2>2
<1>3. ASSUME NEW d \in Callers, current_selected_node(d)
      PROVE  UnderWay(c, r)'
  BY <1>2, <1>3, MessagesAreMsgs DEF current_selected_node, historyVars
<1>4. ASSUME NEW d \in Callers, OperationReturns(d)
      PROVE  UnderWay(c, r)'
  <2>1. lastReport'[c] = lastReport[c]
    BY <1>0, <1>4 DEF OperationReturns, EndOperation, NoReport
  <2> QED
    BY <1>1, <1>4, <2>1 DEF OperationReturns, EndOperation, UnderWay, ReportAhead
<1>5. ASSUME NEW d \in Callers, OperationServerError(d)
      PROVE  UnderWay(c, r)'
  <2>1. lastReport'[c] = lastReport[c]
    BY <1>0, <1>5 DEF OperationServerError, EndOperation
  <2>2. held[d].id \in Nat
    BY DEF TypeOK, Handle
  <2> QED
    BY <1>2, <1>5, <2>1, <2>2, MessagesAreMsgs DEF OperationServerError, EndOperation
<1>6. ASSUME NEW d \in Callers, OperationNotLeader(d)
      PROVE  UnderWay(c, r)'
  <2>1. held[d].id \in Nat
    BY DEF TypeOK, Handle
  <2>2. PICK leader \in Node : Send(CreateChannel(held[d].id, leader))
    BY <1>6 DEF OperationNotLeader
  <2> DEFINE m == CreateChannel(held[d].id, leader)
  <2>3. m \in Msg /\ UNCHANGED <<task, conn_id>>
    BY <1>6, <2>1, MessagesAreMsgs DEF OperationNotLeader, EndOperation
  <2>4. CASE c # d
    BY <1>0, <1>2, <1>6, <2>2, <2>3, <2>4 DEF OperationNotLeader, EndOperation
  <2>5. CASE c = d /\ task # "recv"
    BY <2>3, <2>5 DEF UnderWay
  <2>6. CASE c = d /\ task = "recv"
    <3>1. /\ m.type = "CreateChannel" /\ m.id = r /\ m.seed # NoNode
          /\ m # GetChannel(c)
      BY <1>0, <1>6, <2>6, ConnectionAssumption
      DEF OperationNotLeader, EndOperation, CreateChannel, GetChannel
    <3>2. ~Queued(c)
      BY <1>6, <2>6 DEF OperationNotLeader, EndOperation, NoRequestIsLost
    <3>3. Len(mailbox) \in Nat
      BY <1>0
    <3>4. /\ Len(mailbox') = Len(mailbox) + 1
          /\ \A i \in 1..Len(mailbox) : mailbox'[i] = mailbox[i]
          /\ mailbox'[Len(mailbox) + 1] = m
      BY <1>0, <2>2, <2>3, <2>6, SendAtEnd
    <3>5. Len(mailbox) + 1 \in 1..Len(mailbox')
      BY <3>3, <3>4
    <3>6. \A i \in 1..Len(mailbox) : mailbox'[i] # GetChannel(c)
      BY <3>2, <3>4 DEF Queued
    <3>7. \A i \in 1..Len(mailbox') : mailbox'[i] # GetChannel(c)
      BY <3>1, <3>3, <3>4, <3>6
    <3> HIDE DEF m
    <3> QED
      BY <3>1, <3>4, <3>5, <3>7 DEF UnderWay, ReportAhead
  <2> QED
    BY <1>0, <2>4, <2>5, <2>6
<1>7. CASE AnswerGetChannel
  <2>1. Received.type = "GetChannel"
    BY <1>0, <1>7, ReceiveType DEF AnswerGetChannel, CallsNext, Msg
  <2> QED
    BY <1>0, <1>1, <1>7, <2>1, ReceiveKeepsAhead
    DEF AnswerGetChannel, historyVars, UnderWay, Receive
<1>8. CASE KeepConnection
  <2>1. UNCHANGED <<task, conn_id, lastReport>> /\ Receive /\ task = "recv"
    BY <1>8 DEF KeepConnection, historyVars, Receive
  <2>2. Received.seed # NoNode => Received.id # conn_id
    BY <1>8 DEF KeepConnection, ReturnsCurrent
  <2> QED
    BY <1>0, <1>1, <2>1, <2>2, ReceiveKeepsAhead DEF UnderWay
<1>9. CASE StartConnecting
  BY <1>9 DEF StartConnecting, UnderWay
<1>10. CASE ProbeSucceeds
  BY <1>0, <1>1, <1>10 DEF ProbeSucceeds, FreshId, UnderWay, historyVars
<1>11. CASE Stops
  BY <1>11 DEF Stops, Stop, UnderWay
<1>12. CASE ProbeTimesOut
  BY <1>12 DEF ProbeTimesOut, UnderWay
<1>13. CASE SelectNode
  BY <1>11, <1>13 DEF SelectNode, Stops, UnderWay
<1>14. CASE UNCHANGED vars
  BY <1>1, <1>14 DEF vars, taskVars, historyVars, UnderWay, ReportAhead
<1> QED
  BY <1>3, <1>4, <1>5, <1>6, <1>7, <1>8, <1>9, <1>10, <1>11, <1>12, <1>13, <1>14
  DEF Next, Task, Caller, ProbeFails, SelectionPanics, Stops

\* An answered caller runs on a connection newer than any it saw redirected:
\* preserved by every step.
LEMMA FollowedStep ==
    ASSUME TypeOK, HandlesAgree, CurrentIsNewest, RedirectIsUnderWay,
           RedirectIsFollowed, [Next]_vars
    PROVE  RedirectIsFollowed'
<1> USE DEF RedirectIsFollowed
<1>0. /\ mailbox \in Seq(Msg)
      /\ pc \in [Callers -> {"idle", "waiting", "using", "failed", "closed"}]
      /\ held \in [Callers -> Handle]
      /\ \A c \in Callers : lastReport[c].id \in Nat
      /\ conn_id \in Nat
  BY DEF TypeOK
<1>1. ASSUME NEW c \in Callers, current_selected_node(c)
      PROVE  RedirectIsFollowed'
  BY <1>0, <1>1 DEF current_selected_node, historyVars
<1>2. ASSUME NEW c \in Callers, NEW report, EndOperation(c, report)
      PROVE  RedirectIsFollowed'
  BY <1>0, <1>2 DEF EndOperation, TypeOK
<1>3. ASSUME NEW m \in Msg, NEW h \in Handle, Reply(m, h), UNCHANGED lastReport,
             \A c \in Callers :
                m = GetChannel(c) /\ lastReport[c].kind = "NotLeader" =>
                    h.id > lastReport[c].id
      PROVE  RedirectIsFollowed'
  BY <1>0, <1>3, RequestsDiffer DEF Reply, callerVars
<1>4. ASSUME Receive, NEW h \in Handle, h.id = conn_id, Reply(Received, h),
             UNCHANGED lastReport
      PROVE  RedirectIsFollowed'
  <2>1. Received \in Msg /\ task = "recv"
    BY <1>0, <1>4, ReceiveType DEF Receive
  <2>2. ASSUME NEW c \in Callers, Received = GetChannel(c),
               lastReport[c].kind = "NotLeader"
        PROVE  conn_id > lastReport[c].id
    <3>1. ~ReportAhead(c, lastReport[c].id)
      BY <1>0, <1>4, <2>2, ReceiveKeepsAhead
    <3> QED
      BY <2>1, <2>2, <3>1 DEF RedirectIsUnderWay
  <2> QED
    BY <1>3, <1>4, <2>1, <2>2
<1>5. CASE AnswerGetChannel
  <2>1. Received \in Msg /\ Receive /\ task = "recv"
    BY <1>0, <1>5, ReceiveType DEF AnswerGetChannel, Receive
  <2>2. handle_opt # NoHandle /\ handle_opt = conn_handle
    BY <1>5, <2>1 DEF AnswerGetChannel, CallsNext, HandlesAgree
  <2>3. handle_opt \in Handle /\ handle_opt.id = conn_id
    BY <2>2 DEF TypeOK, CurrentIsNewest
  <2> QED
    BY <1>4, <1>5, <2>1, <2>3 DEF AnswerGetChannel, historyVars
<1>6. CASE KeepConnection
  <2>1. conn_handle \in Handle /\ conn_handle.id = conn_id
    BY <1>6 DEF KeepConnection, ReturnsCurrent, TypeOK, CurrentIsNewest
  <2> QED
    BY <1>4, <1>6, <2>1 DEF KeepConnection, historyVars
<1>7. CASE StartConnecting
  BY <1>7 DEF StartConnecting, historyVars, callerVars
<1>8. CASE ProbeSucceeds
  <2>1. /\ conn_handle' \in Handle
        /\ conn_handle'.id = conn_id + 1
        /\ serving \in Msg
    BY <1>8 DEF ProbeSucceeds, FreshId, TypeOK, Handle
  <2>2. \A c \in Callers : lastReport[c].id <= conn_id
    BY DEF CurrentIsNewest
  <2>3. Reply(serving, conn_handle') /\ UNCHANGED lastReport
    BY <1>8 DEF ProbeSucceeds, historyVars
  <2>4. \A c \in Callers : conn_handle'.id > lastReport[c].id
    BY <1>0, <2>1, <2>2
  <2> QED
    BY <1>3, <2>1, <2>3, <2>4
<1>9. CASE Stops
  BY <1>0, <1>9 DEF Stops, Stop, Drop, historyVars
<1>10. CASE ProbeTimesOut
  BY <1>10 DEF ProbeTimesOut, historyVars, callerVars
<1>11. CASE SelectNode
  BY <1>9, <1>11 DEF SelectNode, Stops, historyVars, callerVars
<1>12. CASE UNCHANGED vars
  BY <1>12 DEF vars, callerVars, historyVars
<1> QED
  BY <1>1, <1>2, <1>5, <1>6, <1>7, <1>8, <1>9, <1>10, <1>11, <1>12
  DEF Next, Task, Caller, OperationReturns, OperationServerError,
      OperationNotLeader, ProbeFails, SelectionPanics, Stops

-----------------------------------------------------------------------------
(* The theorems. *)

\* The strengthening holds before the first operation.
LEMMA InitConnectionInv == Init => ConnectionInv
<1> SUFFICES ASSUME Init PROVE ConnectionInv
  OBVIOUS
<1>1. TypeOK
  BY MessagesAreMsgs DEF Init, TypeOK, NoReport, NilId
<1>2. HandlesAgree /\ CurrentIsNewest
  BY DEF Init, HandlesAgree, CurrentIsNewest, NoHandle, NilId, NoReport
<1>3. RequestsNameRedirected /\ OnlyRedirectedAreReplaced
  BY DEF Init, RequestsNameRedirected, OnlyRedirectedAreReplaced, NilId
<1>4. NoRequestIsLost
  BY RequestsDiffer DEF Init, NoRequestIsLost, Queued
<1>5. RedirectIsUnderWay /\ RedirectIsFollowed
  BY DEF Init, RedirectIsUnderWay, RedirectIsFollowed, NoReport
<1> QED
  BY <1>1, <1>2, <1>3, <1>4, <1>5 DEF ConnectionInv

\* The strengthening is an invariant of the task and its callers together.
THEOREM ConnectionCorrect == Spec => []ConnectionInv
<1>1. ConnectionInv /\ [Next]_vars => ConnectionInv'
  BY TypeStep, CurrentStep, RedirectedStep, RequestsStep, UnderWayStep, FollowedStep
  DEF ConnectionInv
<1> QED
  BY <1>1, InitConnectionInv, PTL DEF Spec

\* A caller is never answered with a connection next() has given up: the task's
\* handle and NodeConnection's agree whenever a message is received.
THEOREM HandlesAgreeCorrect == Spec => []HandlesAgree
<1>1. ConnectionInv => HandlesAgree
  BY DEF ConnectionInv
<1> QED
  BY <1>1, ConnectionCorrect, PTL

\* However many callers report errors late, no connection is given up that was
\* not itself redirected (the id test in next()).
THEOREM OnlyRedirectedAreReplacedCorrect == Spec => []OnlyRedirectedAreReplaced
<1>1. ConnectionInv => OnlyRedirectedAreReplaced
  BY DEF ConnectionInv
<1> QED
  BY <1>1, ConnectionCorrect, PTL

\* A caller that was redirected to the leader never runs again on the connection
\* that redirected it, whatever the other callers do in between.
THEOREM RedirectIsFollowedCorrect == Spec => []RedirectIsFollowed
<1>1. ConnectionInv => RedirectIsFollowed
  BY DEF ConnectionInv
<1> QED
  BY <1>1, ConnectionCorrect, PTL

\* No oneshot is dropped unanswered while its caller waits, not even when the
\* task leaves its loop: each waiting caller's request is held exactly once.
THEOREM NoRequestIsLostCorrect == Spec => []NoRequestIsLost
<1>1. ConnectionInv => NoRequestIsLost
  BY DEF ConnectionInv
<1> QED
  BY <1>1, ConnectionCorrect, PTL

-----------------------------------------------------------------------------
(* The refinement of ConnectionService. *)

\* A caller holds a connection exactly while it uses one, and the task's copy of
\* the handle has the id of the last connection made, also while it is replaced.
ServiceInv ==
    /\ handle_opt.id = conn_id
    /\ \A c \in Callers : pc[c] = "using" <=> held[c] # NoHandle

LEMMA ServiceInvStep ==
    ASSUME ConnectionInv, ServiceInv, [Next]_vars
    PROVE  ServiceInv'
<1> USE DEF ServiceInv
<1>0. TypeOK /\ HandlesAgree /\ CurrentIsNewest /\ mailbox \in Seq(Msg)
  BY DEF ConnectionInv, TypeOK
<1>1. ASSUME NEW m \in Msg, NEW h \in Handle, h # NoHandle, Reply(m, h)
      PROVE  \A c \in Callers : pc'[c] = "using" <=> held'[c] # NoHandle
  <2>1. CASE m.type = "GetChannel"
    <3>1. /\ pc' = [pc EXCEPT ![m.caller] = "using"]
          /\ held' = [held EXCEPT ![m.caller] = h]
          /\ m.caller \in Callers
      BY <1>1, <2>1, RequestsDiffer DEF Reply
    <3> QED
      BY <1>0, <1>1, <3>1 DEF TypeOK
  <2>2. CASE m.type # "GetChannel"
    BY <1>1, <2>2 DEF Reply, callerVars
  <2> QED
    BY <2>1, <2>2
<1>2. ASSUME NEW c \in Callers, current_selected_node(c)
      PROVE  ServiceInv'
  BY <1>0, <1>2 DEF current_selected_node, TypeOK
<1>3. ASSUME NEW c \in Callers,
             OperationReturns(c) \/ OperationServerError(c) \/ OperationNotLeader(c)
      PROVE  ServiceInv'
  <2>1. /\ pc' = [pc EXCEPT ![c] = "idle"] /\ held' = [held EXCEPT ![c] = NoHandle]
        /\ UNCHANGED <<handle_opt, conn_id>>
    BY <1>3 DEF OperationReturns, OperationServerError, OperationNotLeader, EndOperation
  <2> QED
    BY <1>0, <2>1 DEF TypeOK
<1>4. CASE AnswerGetChannel
  <2>1. /\ Received \in Msg /\ handle_opt \in Handle /\ handle_opt # NoHandle
        /\ Reply(Received, handle_opt) /\ UNCHANGED <<handle_opt, conn_id>>
    BY <1>0, <1>4, ReceiveType, RequestsDiffer DEF AnswerGetChannel, CallsNext, TypeOK
  <2> QED
    BY <1>1, <2>1
<1>5. CASE KeepConnection
  <2>1. /\ Received \in Msg /\ conn_handle \in Handle /\ conn_handle # NoHandle
        /\ Reply(Received, conn_handle) /\ handle_opt' = conn_handle
        /\ conn_handle.id = conn_id /\ UNCHANGED conn_id
    BY <1>0, <1>5, ReceiveType
    DEF KeepConnection, ReturnsCurrent, Remember, TypeOK, CurrentIsNewest
  <2> QED
    BY <1>1, <2>1
<1>6. CASE StartConnecting
  BY <1>6 DEF StartConnecting, callerVars
<1>7. CASE ProbeSucceeds
  <2>1. /\ serving \in Msg /\ conn_handle' \in Handle /\ conn_handle'.id = conn_id'
        /\ conn_id' = conn_id + 1 /\ conn_id \in Nat
        /\ Reply(serving, conn_handle') /\ handle_opt' = conn_handle'
    BY <1>0, <1>7 DEF ProbeSucceeds, FreshId, Remember, TypeOK, Handle
  <2>2. conn_handle' # NoHandle
    BY <2>1 DEF NoHandle, NilId
  <2> QED
    BY <1>1, <2>1, <2>2
<1>8. CASE Stops
  <2>1. \A c \in Callers : serving = GetChannel(c) \/ Queued(c) => pc[c] = "waiting"
    BY DEF ConnectionInv, NoRequestIsLost
  <2>2. \A c \in Callers : pc'[c] = "using" <=> pc[c] = "using"
    BY <1>8, <2>1 DEF Stops, Stop, Drop
  <2> QED
    BY <1>8, <2>2 DEF Stops, Stop
<1>9. CASE ProbeTimesOut
  BY <1>9 DEF ProbeTimesOut, callerVars
<1>10. CASE SelectNode
  BY <1>8, <1>10 DEF SelectNode, Stops, callerVars
<1>11. CASE UNCHANGED vars
  BY <1>11 DEF vars, taskVars, callerVars
<1> QED
  BY <1>2, <1>3, <1>4, <1>5, <1>6, <1>7, <1>8, <1>9, <1>10, <1>11
  DEF Next, Task, Caller, ProbeFails, SelectionPanics, Stops

\* The callers that wait, as the service sees them.
Waiting == {c \in Callers : pc[c] = "waiting"}

\* An answer takes one caller out of those that wait, and gives it the connection.
LEMMA ReplyAnswers ==
    ASSUME ConnectionInv, NEW m \in Msg, NEW h \in Handle, Reply(m, h),
           m.type = "GetChannel",
           Queued(m.caller) \/ serving = GetChannel(m.caller)
    PROVE  /\ m.caller \in Waiting
           /\ Waiting' = Waiting \ {m.caller}
           /\ held' = [held EXCEPT ![m.caller] = h]
<1>1. /\ pc' = [pc EXCEPT ![m.caller] = "using"]
      /\ held' = [held EXCEPT ![m.caller] = h]
      /\ m.caller \in Callers
  BY RequestsDiffer DEF Reply
<1>2. pc[m.caller] = "waiting"
  BY <1>1 DEF ConnectionInv, NoRequestIsLost
<1>3. pc \in [Callers -> {"idle", "waiting", "using", "failed", "closed"}]
  BY DEF ConnectionInv, TypeOK
<1>4. \A c \in Callers : pc'[c] = IF c = m.caller THEN "using" ELSE pc[c]
  BY <1>1, <1>3
<1> QED
  BY <1>1, <1>2, <1>4 DEF Waiting

\* Every step is a step of the service or changes nothing the service shows.
LEMMA ServiceStep ==
    ASSUME ConnectionInv, ServiceInv, [Next]_vars
    PROVE  [Service!Next]_(Service!vars)
<1> DEFINE Stutter == UNCHANGED <<task # "stopped", handle_opt, Waiting, held>>
<1>0. /\ TypeOK /\ HandlesAgree /\ CurrentIsNewest /\ mailbox \in Seq(Msg)
      /\ NoRequestIsLost
  BY DEF ConnectionInv, TypeOK
<1>a. Stutter => UNCHANGED Service!vars
  BY DEF Waiting, Service!vars
<1>b. Service!None = NoHandle
  BY DEF Service!None, NoHandle, NilId
<1> HIDE DEF Stutter
<1>1. ASSUME NEW c \in Callers, current_selected_node(c)
      PROVE  [Service!Next]_(Service!vars)
  <2>1. /\ pc[c] \notin {"waiting", "using"}
        /\ pc' = [pc EXCEPT ![c] = IF task = "stopped" THEN "closed" ELSE "waiting"]
        /\ UNCHANGED <<task, handle_opt, held>>
    BY <1>1 DEF current_selected_node
  <2>2. \A d \in Callers : pc'[d] = IF d = c
                                    THEN IF task = "stopped" THEN "closed" ELSE "waiting"
                                    ELSE pc[d]
    BY <1>0, <2>1 DEF TypeOK
  <2>3. CASE task = "stopped"
    <3>1. Waiting' = Waiting
      BY <2>1, <2>2, <2>3 DEF Waiting
    <3> QED
      BY <1>a, <2>1, <3>1 DEF Stutter
  <2>4. CASE task # "stopped"
    <3>1. Waiting' = Waiting \cup {c} /\ c \notin Waiting
      BY <2>1, <2>2, <2>4 DEF Waiting
    <3>2. held[c] = Service!None
      BY <1>b, <2>1 DEF ServiceInv
    <3>3. Service!Ask(c)
      BY <2>1, <2>4, <3>1, <3>2 DEF Service!Ask, Waiting
    <3> QED
      BY <3>3 DEF Service!Next
  <2> QED
    BY <2>3, <2>4
<1>2. ASSUME NEW c \in Callers,
             OperationReturns(c) \/ OperationServerError(c) \/ OperationNotLeader(c)
      PROVE  [Service!Next]_(Service!vars)
  <2>1. /\ pc[c] = "using" /\ pc' = [pc EXCEPT ![c] = "idle"]
        /\ held' = [held EXCEPT ![c] = NoHandle] /\ UNCHANGED <<task, handle_opt>>
    BY <1>2 DEF OperationReturns, OperationServerError, OperationNotLeader, EndOperation
  <2>2. \A d \in Callers : pc'[d] = IF d = c THEN "idle" ELSE pc[d]
    BY <1>0, <2>1 DEF TypeOK
  <2>3. Waiting' = Waiting
    BY <2>1, <2>2 DEF Waiting
  <2>4. held[c] # Service!None
    BY <1>b, <2>1 DEF ServiceInv
  <2>5. Service!Done(c)
    BY <1>b, <2>1, <2>3, <2>4 DEF Service!Done, Waiting
  <2> QED
    BY <2>5 DEF Service!Next
<1>3. CASE AnswerGetChannel
  <2>1. /\ Received \in Msg /\ handle_opt \in Handle /\ handle_opt # NoHandle
        /\ Receive /\ Reply(Received, handle_opt) /\ Received.type = "GetChannel"
        /\ UNCHANGED <<task, handle_opt>> /\ task = "recv"
    <3>1. Received \in Msg /\ Receive
      BY <1>0, <1>3, ReceiveType DEF AnswerGetChannel
    <3> QED
      BY <1>0, <1>3, <3>1 DEF AnswerGetChannel, CallsNext, TypeOK, Receive, Msg
  <2>2. PICK c \in Callers : c = Received.caller
    BY <2>1, RequestsDiffer
  <2>3. Queued(c)
    BY <1>0, <2>1, <2>2, RequestsDiffer, ReceiveTakes
  <2>4. /\ c \in Waiting /\ Waiting' = Waiting \ {c}
        /\ held' = [held EXCEPT ![c] = handle_opt]
    BY <2>1, <2>2, <2>3, ReplyAnswers
  <2>5. Service!Answer(c)
    BY <1>b, <2>1, <2>4 DEF Service!Answer, Waiting
  <2> QED
    BY <2>5 DEF Service!Next
<1>4. CASE KeepConnection
  <2>1. /\ Received \in Msg /\ Receive /\ task = "recv" /\ UNCHANGED task
        /\ handle_opt' = conn_handle /\ conn_handle # NoHandle
        /\ CallsNext(Received) /\ Reply(Received, conn_handle)
    BY <1>0, <1>4, ReceiveType DEF KeepConnection, ReturnsCurrent, Remember, Receive
  <2>2. handle_opt' = handle_opt /\ handle_opt # NoHandle
    BY <1>0, <2>1 DEF HandlesAgree
  <2>3. UNCHANGED callerVars
    BY <2>1, <2>2 DEF CallsNext, Reply
  <2> QED
    BY <1>a, <2>1, <2>2, <2>3 DEF Stutter, callerVars, Waiting
<1>5. CASE StartConnecting
  BY <1>a, <1>5 DEF StartConnecting, Receive, Stutter, callerVars, Waiting
<1>6. CASE ProbeSucceeds
  <2>1. /\ serving \in Msg /\ conn_handle' \in Handle /\ Reply(serving, conn_handle')
        /\ handle_opt' = conn_handle' /\ task = "connect" /\ task' = "recv"
        /\ conn_handle' = [id |-> conn_id + 1, endpoint |-> selected_node]
        /\ selected_node \in Node
    BY <1>0, <1>6 DEF ProbeSucceeds, FreshId, Remember, TypeOK, Handle
  <2>2. Service!Newer
    BY <2>1 DEF Service!Newer, ServiceInv
  <2>3. CASE serving.type = "GetChannel"
    <3>1. PICK c \in Callers : c = serving.caller /\ serving = GetChannel(c)
      BY <2>1, <2>3, RequestsDiffer
    <3>2. /\ c \in Waiting /\ Waiting' = Waiting \ {c}
          /\ held' = [held EXCEPT ![c] = conn_handle']
      BY <2>1, <2>3, <3>1, ReplyAnswers
    <3>3. Service!Answer(c)
      BY <2>1, <2>2, <3>2 DEF Service!Answer, Waiting
    <3> QED
      BY <3>3 DEF Service!Next
  <2>4. CASE serving.type # "GetChannel"
    <3>1. Waiting' = Waiting /\ held' = held
      BY <2>1, <2>4 DEF Reply, callerVars, Waiting
    <3>2. Service!Connect
      BY <2>1, <2>2, <3>1 DEF Service!Connect, Waiting
    <3> QED
      BY <3>2 DEF Service!Next
  <2> QED
    BY <2>3, <2>4
<1>7. ASSUME Stops, task = "connect"
      PROVE  [Service!Next]_(Service!vars)
  <2>1. task' = "stopped" /\ UNCHANGED <<handle_opt, held>>
    BY <1>7 DEF Stops, Stop
  <2>2. \A c \in Callers : pc'[c] # "waiting"
    BY <1>0, <1>7 DEF Stops, Stop, Drop, NoRequestIsLost
  <2>3. Waiting' = {}
    BY <2>2 DEF Waiting
  <2>4. Service!Close
    BY <1>7, <2>1, <2>3 DEF Service!Close, Waiting
  <2> QED
    BY <2>4 DEF Service!Next
<1>8. CASE ProbeFails
  BY <1>7, <1>8 DEF ProbeFails, Stops
<1>9. CASE ProbeTimesOut
  BY <1>a, <1>9 DEF ProbeTimesOut, Stutter, callerVars, Waiting
<1>10. CASE SelectNode
  <2>1. CASE AttemptsLeft
    BY <1>a, <1>10, <2>1 DEF SelectNode, Stutter, callerVars, Waiting
  <2>2. CASE ~AttemptsLeft
    BY <1>7, <1>10, <2>2 DEF SelectNode, Stops
  <2> QED
    BY <2>1, <2>2
<1>11. CASE UNCHANGED vars
  BY <1>a, <1>11 DEF vars, taskVars, callerVars, Stutter, Waiting
<1>12. CASE SelectionPanics
  BY <1>7, <1>12 DEF SelectionPanics, Stops
<1> QED
  BY <1>1, <1>2, <1>3, <1>4, <1>5, <1>6, <1>8, <1>9, <1>10, <1>11, <1>12
  DEF Next, Task, Caller

\* The connection task and its channel do what the service promises, step by step:
\* one current connection, replaced by newer ones only, and each caller answered
\* with the one current at that moment or refused when the task stops for good.
THEOREM ServiceSafetyCorrect == Spec => Service!Init /\ [][Service!Next]_(Service!vars)
<1>1. Init => Service!Init /\ ServiceInv
  <2> SUFFICES ASSUME Init PROVE Service!Init /\ ServiceInv
    OBVIOUS
  <2>1. {c \in Callers : pc[c] = "waiting"} = {}
    BY DEF Init
  <2>2. Service!None = NoHandle
    BY DEF Service!None, NoHandle, NilId
  <2> QED
    BY <2>1, <2>2 DEF Init, Service!Init, ServiceInv, NoHandle, NilId
<1>2. ConnectionInv /\ ServiceInv /\ [Next]_vars => ServiceInv'
  BY ServiceInvStep
<1>3. ConnectionInv /\ ServiceInv /\ [Next]_vars => [Service!Next]_(Service!vars)
  BY ServiceStep
<1> QED
  BY <1>1, <1>2, <1>3, ConnectionCorrect, PTL DEF Spec

===============================================================================
