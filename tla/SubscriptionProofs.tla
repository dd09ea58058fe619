-------------------------- MODULE SubscriptionProofs ---------------------------
(***************************************************************************)
(* What holds of a catch-up subscription for any log, filter, retry policy *)
(* and number of failures.                                                 *)
(***************************************************************************)
EXTENDS Subscription, SequenceTheorems, TLAPS

\* The connection a stream runs on is the one its subscription would report, and
\* is older than the connection that followed a redirection; a redirection is not
\* followed once the task has stopped.
ConnectionsInOrder ==
    /\ channel_id = handle
    /\ handle <= current
    /\ open => redirected < current

\* The place the client resumes from is that of the last event returned.
ResumesAfterDelivered ==
    position = IF delivered = <<>> THEN first ELSE delivered[Len(delivered)]

\* What is on the wire are matching events of the log, in order, and none is
\* missing between the last event returned and any of them.
WireIsTheLog ==
    \A i \in 1..Len(wire) : wire[i] # Note =>
        /\ wire[i] \in Matching
        /\ position < wire[i] /\ wire[i] <= cursor /\ wire[i] <= log
        /\ \A j \in 1..Len(wire) : j < i => wire[j] < wire[i]
        /\ \A p \in Matching : position < p /\ p < wire[i] =>
              \E j \in 1..Len(wire) : j < i /\ wire[j] = p

\* An open stream has sent what it has read.
SentIsRead ==
    stream = "open" =>
        /\ position <= cursor
        /\ \A p \in Matching : position < p /\ p <= cursor =>
              \E j \in 1..Len(wire) : wire[j] = p

Numbered == position \in Nat /\ first \in Nat

FeedInv ==
    /\ TypeOK /\ Numbered
    /\ ResumesAfterDelivered
    /\ WireIsTheLog /\ SentIsRead
    /\ NoEventIsSkipped

-----------------------------------------------------------------------------
(* Types. *)

\* The head of the wire and what remains.
LEMMA TakeFirst ==
    ASSUME wire \in Seq(Nat), wire # <<>>
    PROVE  /\ Head(wire) = wire[1] /\ Head(wire) \in Nat
           /\ Len(wire) \in Nat /\ Len(wire) >= 1
           /\ Tail(wire) \in Seq(Nat) /\ Len(Tail(wire)) = Len(wire) - 1
           /\ \A i \in 1..Len(Tail(wire)) : Tail(wire)[i] = wire[i + 1]
BY HeadTailProperties

\* What a redirection does to the connections stays a number.
LEMMA HandleErrorType ==
    ASSUME TypeOK, NEW status \in Status, handle_error(status)
    PROVE  redirected' \in Nat /\ current' \in Nat
BY DEF TypeOK, handle_error

\* Every step keeps every variable in its type; no policy is exceeded.
LEMMA TypeStep == TypeOK /\ [Next]_vars => TypeOK'
<1> SUFFICES ASSUME TypeOK, [Next]_vars
             PROVE  TypeOK'
  OBVIOUS
<1>1. CASE Write
  BY <1>1 DEF Write, clientVars, taskVars, historyVars, TypeOK
<1>2. CASE Push
  <2>1. cursor' \in Nat /\ wire' \in Seq(Nat)
    <3>1. cursor + 1 \in Nat /\ Note \in Nat
      BY DEF TypeOK, Note
    <3>2. Append(wire, cursor + 1) \in Seq(Nat) /\ Append(wire, Note) \in Seq(Nat)
      BY <3>1, AppendProperties DEF TypeOK
    <3> QED
      BY <1>2, <3>1, <3>2 DEF Push, TypeOK
  <2> QED
    BY <1>2, <2>1 DEF Push, clientVars, taskVars, historyVars, TypeOK
<1>3. CASE Break
  <2>1. PICK n \in 0..Len(wire) : wire' = SubSeq(wire, 1, n)
    BY <1>3 DEF Break
  <2>2. wire' \in Seq(Nat)
    BY <2>1, SubSeqProperties DEF TypeOK
  <2> QED
    BY <1>3, <2>2 DEF Break, Fault, taskVars, TypeOK
<1>4. CASE Replace
  BY <1>4 DEF Replace, serverVars, clientVars, taskVars, historyVars, TypeOK
<1>15. CASE TaskStops
  <2>1. open' \in BOOLEAN
    BY <1>15 DEF TaskStops
  <2>2. faults' \in Nat
    BY <1>15 DEF TaskStops, Fault, TypeOK
  <2>3. UNCHANGED <<serverVars, clientVars, current, delivered, first, returned, redirected>>
    BY <1>15 DEF TaskStops
  <2> QED
    BY <2>1, <2>2, <2>3 DEF serverVars, clientVars, TypeOK
<1>5. CASE Call
  BY <1>5 DEF Call, serverVars, taskVars, TypeOK
<1>6. CASE HandleAnswered
  BY <1>6 DEF HandleAnswered, UseHandle, serverVars, taskVars, historyVars, TypeOK
<1>7. CASE HandleRefused
  BY <1>7 DEF HandleRefused, Return, serverVars, taskVars, TypeOK
<1>8. CASE ReadAccepted
  <2>1. StartOf(position) \in Nat /\ StartOf(first) \in Nat /\ <<Note>> \in Seq(Nat)
    BY DEF TypeOK, StartOf, Note
  <2> QED
    BY <1>8, <2>1 DEF ReadAccepted, taskVars, TypeOK
<1>9. CASE ReadRefused
  <2>1. PICK status \in Status :
          /\ handle_error(status)
          /\ IF status # "AccessDenied" /\ MayRetry
             THEN attempts' = attempts + 1 /\ awaiting' = "handle" /\ UNCHANGED returned
             ELSE Return(status) /\ UNCHANGED attempts
    BY <1>9 DEF ReadRefused
  <2>2. attempts' = 1 \/ attempts' \in 1..retry.limit
    BY <2>1 DEF TypeOK, MayRetry
  <2>3. awaiting' \in {"nothing", "handle"} /\ returned' \in Status \cup {"ok", "ConnectionFailed"}
    BY <2>1 DEF TypeOK, Return
  <2> QED
    BY <1>9, <2>1, <2>2, <2>3, HandleErrorType DEF ReadRefused, Fault, serverVars, TypeOK
<1>10. CASE ReceiveEvent
  <2>1. wire # <<>> /\ Head(wire) # Note /\ wire \in Seq(Nat)
    BY <1>10 DEF ReceiveEvent, TypeOK
  <2>2. Head(wire) \in Nat \ {Note} /\ wire' \in Seq(Nat)
    BY <1>10, <2>1, TakeFirst DEF ReceiveEvent
  <2>3. delivered' \in Seq(Nat \ {Note})
    BY <1>10, <2>2, AppendProperties DEF ReceiveEvent, TypeOK
  <2> QED
    BY <1>10, <2>2, <2>3 DEF ReceiveEvent, Resume, Return, taskVars, TypeOK
<1>11. CASE ReceiveNote
  BY <1>11, TakeFirst DEF ReceiveNote, Return, taskVars, TypeOK
<1>16. CASE ReceiveUnexpected
  BY <1>16, TakeFirst DEF ReceiveUnexpected, Fault, taskVars, TypeOK
<1>12. CASE StreamFails
  <2>1. redirected' \in Nat /\ current' \in Nat
    BY <1>12, HandleErrorType DEF StreamFails
  <2> QED
    BY <1>12, <2>1 DEF StreamFails, Forget, Return, serverVars, TypeOK
<1>13. CASE Cancel
  BY <1>13 DEF Cancel, Fault, taskVars, TypeOK
<1>14. CASE UNCHANGED vars
  BY <1>14 DEF vars, serverVars, clientVars, taskVars, historyVars, TypeOK
<1> QED
  BY <1>1, <1>2, <1>3, <1>4, <1>5, <1>6, <1>7, <1>8, <1>9, <1>10, <1>11, <1>12,
     <1>13, <1>14, <1>15, <1>16
  DEF Next, Proceed

LEMMA TypeInit == Init => TypeOK
<1> SUFFICES ASSUME Init PROVE TypeOK
  OBVIOUS
<1>1. retry \in [enabled : BOOLEAN, limit : Nat]
  <2>1. NoRetry \in [enabled : BOOLEAN, limit : Nat]
    BY DEF NoRetry
  <2>2. retry \in Policies \cup {NoRetry}
    BY DEF Init
  <2>3. Policies \subseteq [enabled : BOOLEAN, limit : Nat]
    BY SubscriptionAssumption
  <2> QED
    BY <2>1, <2>2, <2>3
<1>2. position \in Nat \cup {End}
  BY SubscriptionAssumption DEF Init
<1>3. wire \in Seq(Nat) /\ delivered \in Seq(Nat \ {Note})
  BY EmptySeq DEF Init
<1> QED
  BY <1>1, <1>2, <1>3 DEF Init, TypeOK

\* Every variable of a subscription stays in its type; in particular the attempts
\* of an outage never exceed the limit of the retry policy.
THEOREM TypeCorrect == Spec => []TypeOK
BY TypeInit, TypeStep, PTL DEF Spec

-----------------------------------------------------------------------------
(* Redirections. *)

\* A redirection moves the connection on, if it is still the one redirected.
LEMMA ConnectionsStep ==
    ASSUME TypeOK, ConnectionsInOrder, RedirectedReadsElsewhere, [Next]_vars
    PROVE  ConnectionsInOrder' /\ RedirectedReadsElsewhere'
<1> USE DEF TypeOK, ConnectionsInOrder, RedirectedReadsElsewhere
<1>1. ASSUME NEW status, handle_error(status), UNCHANGED <<channel_id, handle, open>>,
             awaiting' # "read"
      PROVE  ConnectionsInOrder' /\ RedirectedReadsElsewhere'
  BY <1>1 DEF handle_error
<1>2. CASE ReadRefused
  <2>1. PICK status \in Status :
          /\ handle_error(status)
          /\ IF status # "AccessDenied" /\ MayRetry
             THEN attempts' = attempts + 1 /\ awaiting' = "handle" /\ UNCHANGED returned
             ELSE Return(status) /\ UNCHANGED attempts
    BY <1>2 DEF ReadRefused
  <2> QED
    BY <1>1, <1>2, <2>1 DEF ReadRefused, Return
<1>3. CASE StreamFails
  BY <1>1, <1>3 DEF StreamFails, Return
<1>4. CASE HandleAnswered
  BY <1>4 DEF HandleAnswered, UseHandle, taskVars, historyVars
<1>5. CASE Write \/ Push \/ Break \/ Replace \/ TaskStops \/ UNCHANGED vars
  BY <1>5
  DEF Write, Push, Break, Replace, TaskStops, vars, clientVars, taskVars, historyVars
<1>6. CASE Call \/ Cancel
  BY <1>6 DEF Call, Cancel, taskVars
<1>7. CASE HandleRefused \/ ReadAccepted
  BY <1>7 DEF HandleRefused, ReadAccepted, Return, taskVars
<1>8. CASE ReceiveEvent \/ ReceiveNote \/ ReceiveUnexpected
  BY <1>8 DEF ReceiveEvent, ReceiveNote, ReceiveUnexpected, Return, taskVars
<1> QED
  BY <1>2, <1>3, <1>4, <1>5, <1>6, <1>7, <1>8 DEF Next, Proceed

\* A subscription that was redirected reads elsewhere, however many outages its
\* stream has seen (commands.rs, channel_id).
THEOREM RedirectedReadsElsewhereCorrect == Spec => []RedirectedReadsElsewhere
<1>1. Init => ConnectionsInOrder /\ RedirectedReadsElsewhere
  BY DEF Init, ConnectionsInOrder, RedirectedReadsElsewhere
<1>2. TypeOK /\ ConnectionsInOrder /\ RedirectedReadsElsewhere /\ [Next]_vars
        => (ConnectionsInOrder /\ RedirectedReadsElsewhere)'
  BY ConnectionsStep
<1> QED
  BY <1>1, <1>2, TypeCorrect, PTL DEF Spec

-----------------------------------------------------------------------------
(* The feed. *)

\* An action that leaves what the feed is made of, or only lets the log grow.
LEMMA FeedKept ==
    ASSUME FeedInv, TypeOK', UNCHANGED <<wire, cursor, position, first, delivered>>,
           log' \in Nat, log <= log', stream' = "open" => stream = "open"
    PROVE  FeedInv'
<1>1. WireIsTheLog'
  <2>1. \A i \in 1..Len(wire) : wire[i] \in Nat
    BY ElementOfSeq DEF FeedInv, TypeOK
  <2>2. wire' = wire /\ position' = position /\ cursor' = cursor /\ log \in Nat
    BY DEF FeedInv, TypeOK
  <2>3. \A i \in 1..Len(wire) : wire[i] <= log => wire[i] <= log'
    BY <2>1, <2>2
  <2> QED
    BY <2>2, <2>3 DEF FeedInv, WireIsTheLog
<1>2. SentIsRead'
  BY DEF FeedInv, SentIsRead
<1>3. ResumesAfterDelivered' /\ Numbered' /\ NoEventIsSkipped'
  BY DEF FeedInv, ResumesAfterDelivered, Numbered, NoEventIsSkipped
<1> QED
  BY <1>1, <1>2, <1>3 DEF FeedInv

\* The server reads one event further, and sends it when it matches.
LEMMA FeedPush == ASSUME FeedInv, TypeOK', Push PROVE FeedInv'
<1> USE DEF Push, clientVars, historyVars
<1>1. /\ wire \in Seq(Nat) /\ Len(wire) \in Nat /\ cursor \in Nat /\ log \in Nat
      /\ position \in Nat /\ cursor + 1 \in Nat /\ Note \in Nat
      /\ Matching \subseteq Nat
      /\ \A i \in 1..Len(wire) : wire[i] \in Nat
  BY SubscriptionAssumption, LenProperties, ElementOfSeq
  DEF FeedInv, TypeOK, Numbered, Note
<1>2. /\ position <= cursor
      /\ \A p \in Matching : position < p /\ p <= cursor =>
            \E j \in 1..Len(wire) : wire[j] = p
  BY DEF FeedInv, SentIsRead
<1>3. ResumesAfterDelivered' /\ Numbered' /\ NoEventIsSkipped'
  BY DEF FeedInv, ResumesAfterDelivered, Numbered, NoEventIsSkipped
<1>4. CASE wire' = wire
  <2>1. cursor + 1 \notin Matching
    <3>1. wire # Append(wire, cursor + 1)
      BY <1>1, AppendProperties
    <3> QED
      BY <1>4, <3>1
  <2>2. WireIsTheLog'
    BY <1>1, <1>4 DEF FeedInv, WireIsTheLog
  <2>3. SentIsRead'
    BY <1>1, <1>2, <1>4, <2>1 DEF SentIsRead
  <2> QED
    BY <1>3, <2>2, <2>3 DEF FeedInv
<1>5. ASSUME NEW e \in {cursor + 1, Note}, wire' = Append(wire, e),
             e = Note <=> cursor + 1 \notin Matching
      PROVE  FeedInv'
  <2>1. /\ Len(wire') = Len(wire) + 1
        /\ \A i \in 1..Len(wire) : wire'[i] = wire[i]
        /\ wire'[Len(wire) + 1] = e
    BY <1>1, <1>5, AppendProperties
  <2>2. ASSUME NEW i \in 1..Len(wire'), wire'[i] # Note
        PROVE  /\ wire'[i] \in Matching
               /\ position' < wire'[i] /\ wire'[i] <= cursor' /\ wire'[i] <= log'
    <3>1. CASE i \in 1..Len(wire)
      BY <1>1, <2>1, <2>2, <3>1 DEF FeedInv, WireIsTheLog
    <3>2. CASE i = Len(wire) + 1
      BY <1>1, <1>2, <1>5, <2>1, <2>2, <3>2
    <3> QED
      BY <1>1, <2>1, <3>1, <3>2
  <2>3. ASSUME NEW i \in 1..Len(wire'), wire'[i] # Note,
               NEW j \in 1..Len(wire'), j < i
        PROVE  wire'[j] < wire'[i]
    <3>1. j \in 1..Len(wire) /\ wire'[j] = wire[j]
      BY <1>1, <2>1, <2>3
    <3>2. CASE i \in 1..Len(wire)
      BY <1>1, <2>1, <2>3, <3>1, <3>2 DEF FeedInv, WireIsTheLog
    <3>3. CASE i = Len(wire) + 1
      <4>1. wire[j] = Note \/ wire[j] <= cursor
        BY <3>1 DEF FeedInv, WireIsTheLog
      <4>2. wire'[i] = cursor + 1
        BY <1>5, <2>1, <2>3, <3>3
      <4> QED
        BY <1>1, <3>1, <4>1, <4>2 DEF Note
    <3> QED
      BY <1>1, <2>1, <3>2, <3>3
  <2>4. ASSUME NEW i \in 1..Len(wire'), wire'[i] # Note,
               NEW p \in Matching, position' < p, p < wire'[i]
        PROVE  \E j \in 1..Len(wire') : j < i /\ wire'[j] = p
    <3>1. CASE i \in 1..Len(wire)
      <4>1. PICK j \in 1..Len(wire) : j < i /\ wire[j] = p
        BY <2>1, <2>4, <3>1 DEF FeedInv, WireIsTheLog
      <4> QED
        BY <1>1, <2>1, <4>1
    <3>2. CASE i = Len(wire) + 1
      <4>1. p <= cursor
        BY <1>1, <1>5, <2>1, <2>4, <3>2
      <4>2. PICK j \in 1..Len(wire) : wire[j] = p
        BY <1>2, <2>4, <4>1
      <4> QED
        BY <1>1, <2>1, <3>2, <4>2
    <3> QED
      BY <1>1, <2>1, <3>1, <3>2
  <2>5. WireIsTheLog'
    BY <2>2, <2>3, <2>4 DEF WireIsTheLog
  <2>6. ASSUME NEW p \in Matching, position' < p, p <= cursor'
        PROVE  \E j \in 1..Len(wire') : wire'[j] = p
    <3>1. CASE p = cursor + 1
      BY <1>1, <1>5, <2>1, <3>1
    <3>2. CASE p <= cursor
      <4>1. PICK j \in 1..Len(wire) : wire[j] = p
        BY <1>2, <2>6, <3>2
      <4> QED
        BY <1>1, <2>1, <4>1
    <3> QED
      BY <1>1, <2>6, <3>1, <3>2
  <2>7. SentIsRead'
    BY <1>1, <1>2, <2>6 DEF SentIsRead
  <2> QED
    BY <1>3, <2>5, <2>7 DEF FeedInv
<1>6. Note # cursor + 1
  BY <1>1 DEF Note
<1> QED
  BY <1>4, <1>5, <1>6

\* A prefix of the wire, on a stream that is no longer open.
LEMMA FeedBreak == ASSUME FeedInv, TypeOK', Break PROVE FeedInv'
<1>1. PICK n \in 0..Len(wire) : wire' = SubSeq(wire, 1, n)
  BY DEF Break
<1>2. /\ Len(wire) \in Nat /\ \A i \in 1..Len(wire) : wire[i] \in Nat
  BY LenProperties, ElementOfSeq DEF FeedInv, TypeOK
<1>3. Len(wire') = n /\ \A i \in 1..n : wire'[i] = wire[i]
  <2>1. n \in Int /\ n >= 0 /\ \A i \in 1..n : wire[i] \in Nat
    BY <1>2
  <2> QED
    BY <1>1, <2>1, SubSeqProperties
<1>4. UNCHANGED <<log, cursor, position, delivered, first>> /\ stream' # "open"
  BY DEF Break, Status
<1>5. ASSUME NEW i \in 1..Len(wire'), wire'[i] # Note
      PROVE  /\ wire'[i] \in Matching
             /\ position' < wire'[i] /\ wire'[i] <= cursor' /\ wire'[i] <= log'
             /\ \A j \in 1..Len(wire') : j < i => wire'[j] < wire'[i]
             /\ \A p \in Matching : position' < p /\ p < wire'[i] =>
                   \E j \in 1..Len(wire') : j < i /\ wire'[j] = p
  <2>1. i \in 1..Len(wire) /\ i \in 1..n /\ wire'[i] = wire[i]
    BY <1>2, <1>3
  <2>2. /\ wire[i] \in Matching
        /\ position < wire[i] /\ wire[i] <= cursor /\ wire[i] <= log
        /\ \A j \in 1..Len(wire) : j < i => wire[j] < wire[i]
    BY <1>5, <2>1 DEF FeedInv, WireIsTheLog
  <2>3. ASSUME NEW p \in Matching, position' < p, p < wire'[i]
        PROVE  \E j \in 1..Len(wire') : j < i /\ wire'[j] = p
    <3>1. PICK j \in 1..Len(wire) : j < i /\ wire[j] = p
      BY <1>4, <1>5, <2>1, <2>3 DEF FeedInv, WireIsTheLog
    <3> QED
      BY <1>2, <1>3, <2>1, <3>1
  <2>4. ASSUME NEW j \in 1..Len(wire'), j < i PROVE wire'[j] < wire'[i]
    <3>1. j \in 1..Len(wire) /\ wire'[j] = wire[j]
      BY <1>2, <1>3
    <3> QED
      BY <2>1, <2>2, <2>4, <3>1
  <2>5. /\ wire'[i] \in Matching
        /\ position' < wire'[i] /\ wire'[i] <= cursor' /\ wire'[i] <= log'
    BY <1>4, <2>1, <2>2
  <2> QED
    BY <2>3, <2>4, <2>5
<1>6. WireIsTheLog'
  BY <1>5 DEF WireIsTheLog
<1>7. ResumesAfterDelivered' /\ Numbered' /\ NoEventIsSkipped' /\ SentIsRead'
  BY <1>4 DEF FeedInv, ResumesAfterDelivered, Numbered, NoEventIsSkipped, SentIsRead
<1> QED
  BY <1>6, <1>7 DEF FeedInv

\* The next request starts where the client says, with nothing on the wire.
LEMMA FeedRead == ASSUME FeedInv, TypeOK', ReadAccepted PROVE FeedInv'
<1>1. StartOf(position) = position /\ StartOf(first) = first
  BY SubscriptionAssumption DEF FeedInv, Numbered, StartOf
<1>2. wire' = <<Note>> /\ Len(wire') = 1 /\ wire'[1] = Note
  BY DEF ReadAccepted
<1>3. UNCHANGED <<log, position, delivered, first>> /\ cursor' = position
  BY <1>1 DEF ReadAccepted
<1>4. WireIsTheLog'
  BY <1>2 DEF WireIsTheLog
<1>5. SentIsRead'
  BY <1>3, SubscriptionAssumption DEF SentIsRead, FeedInv, Numbered
<1>6. ResumesAfterDelivered' /\ Numbered' /\ NoEventIsSkipped'
  BY <1>3 DEF FeedInv, ResumesAfterDelivered, Numbered, NoEventIsSkipped
<1> QED
  BY <1>4, <1>5, <1>6 DEF FeedInv

\* The head of the wire is taken: it was a note, or the place to resume from moves
\* to it.
LEMMA WireTake ==
    ASSUME FeedInv, TypeOK', wire # <<>>, wire' = Tail(wire),
           UNCHANGED <<log, cursor, stream>>,
           position' = IF Head(wire) = Note THEN position ELSE Head(wire)
    PROVE  WireIsTheLog' /\ SentIsRead'
<1>1. /\ Len(wire) \in Nat /\ Len(wire) >= 1 /\ Head(wire) = wire[1]
      /\ Len(wire') = Len(wire) - 1
      /\ \A i \in 1..Len(wire') : wire'[i] = wire[i + 1]
      /\ \A i \in 1..Len(wire) : wire[i] \in Nat
      /\ position \in Nat /\ cursor \in Nat /\ log \in Nat
      /\ Matching \subseteq Nat \ {0}
  BY TakeFirst, ElementOfSeq, SubscriptionAssumption DEF FeedInv, TypeOK, Numbered
<1>2. position' \in Nat /\ position <= position' /\ wire[1] <= position'
  BY <1>1 DEF FeedInv, WireIsTheLog, Note
<1>3. ASSUME NEW i \in 1..Len(wire'), wire'[i] # Note
      PROVE  /\ wire'[i] \in Matching
             /\ position' < wire'[i] /\ wire'[i] <= cursor' /\ wire'[i] <= log'
  <2>1. i + 1 \in 1..Len(wire) /\ wire'[i] = wire[i + 1] /\ 1 \in 1..Len(wire)
    BY <1>1
  <2>2. wire[i + 1] \in Matching /\ position < wire[i + 1]
        /\ wire[i + 1] <= cursor /\ wire[i + 1] <= log /\ wire[1] < wire[i + 1]
    BY <1>1, <1>3, <2>1 DEF FeedInv, WireIsTheLog
  <2> QED
    BY <1>1, <2>1, <2>2
<1>4. ASSUME NEW i \in 1..Len(wire'), wire'[i] # Note,
             NEW j \in 1..Len(wire'), j < i
      PROVE  wire'[j] < wire'[i]
  <2>1. /\ i + 1 \in 1..Len(wire) /\ j + 1 \in 1..Len(wire) /\ j + 1 < i + 1
        /\ wire'[i] = wire[i + 1] /\ wire'[j] = wire[j + 1]
    BY <1>1, <1>4
  <2> QED
    BY <1>4, <2>1 DEF FeedInv, WireIsTheLog
<1>5. ASSUME NEW p \in Matching, position' < p,
             NEW j \in 1..Len(wire), wire[j] = p
      PROVE  j - 1 \in 1..Len(wire') /\ wire'[j - 1] = p
  <2>1. j # 1
    BY <1>1, <1>2, <1>5
  <2> QED
    BY <1>1, <1>5, <2>1
<1>6. ASSUME NEW i \in 1..Len(wire'), wire'[i] # Note,
             NEW p \in Matching, position' < p, p < wire'[i]
      PROVE  \E j \in 1..Len(wire') : j < i /\ wire'[j] = p
  <2>1. i + 1 \in 1..Len(wire) /\ wire'[i] = wire[i + 1] /\ position < p
    BY <1>1, <1>2, <1>6
  <2>2. PICK j \in 1..Len(wire) : j < i + 1 /\ wire[j] = p
    BY <1>6, <2>1 DEF FeedInv, WireIsTheLog
  <2>3. j - 1 \in 1..Len(wire') /\ wire'[j - 1] = p
    BY <1>5, <1>6, <2>2
  <2> QED
    BY <2>2, <2>3
<1>7. WireIsTheLog'
  BY <1>3, <1>4, <1>6 DEF WireIsTheLog
<1>8. ASSUME stream' = "open"
      PROVE  /\ position' <= cursor'
             /\ \A p \in Matching : position' < p /\ p <= cursor' =>
                   \E j \in 1..Len(wire') : wire'[j] = p
  <2>1. position' <= cursor'
    BY <1>1, <1>8 DEF FeedInv, SentIsRead, WireIsTheLog
  <2>2. ASSUME NEW p \in Matching, position' < p, p <= cursor'
        PROVE  \E j \in 1..Len(wire') : wire'[j] = p
    <3>1. position < p
      BY <1>1, <1>2, <2>2
    <3>2. PICK j \in 1..Len(wire) : wire[j] = p
      BY <1>8, <2>2, <3>1 DEF FeedInv, SentIsRead
    <3> QED
      BY <1>5, <2>2, <3>2
  <2> QED
    BY <2>1, <2>2
<1>9. SentIsRead'
  BY <1>8 DEF SentIsRead
<1> QED
  BY <1>7, <1>9

\* The event at the head of the wire is the next one the feed owes.
LEMMA HeadIsNext ==
    ASSUME FeedInv, wire # <<>>, Head(wire) # Note
    PROVE  /\ Head(wire) \in Matching
           /\ position < Head(wire) /\ Head(wire) <= log
           /\ \A q \in Matching : ~(position < q /\ q < Head(wire))
<1>1. /\ Head(wire) = wire[1] /\ 1 \in 1..Len(wire)
  BY TakeFirst DEF FeedInv, TypeOK
<1>2. ASSUME NEW q \in Matching, position < q, q < wire[1]
      PROVE  FALSE
  <2>1. PICK j \in 1..Len(wire) : j < 1 /\ wire[j] = q
    BY <1>1, <1>2 DEF FeedInv, WireIsTheLog
  <2> QED
    BY <2>1
<1> QED
  BY <1>1, <1>2 DEF FeedInv, WireIsTheLog

\* An event is returned: all the matching ones before it have been.
LEMMA FeedReceive == ASSUME FeedInv, TypeOK', ReceiveEvent PROVE FeedInv'
<1>1. /\ wire # <<>> /\ Head(wire) # Note /\ wire' = Tail(wire)
      /\ position' = Head(wire) /\ delivered' = Append(delivered, Head(wire))
      /\ UNCHANGED <<log, cursor, stream, first>>
  BY DEF ReceiveEvent, Resume
<1>2. WireIsTheLog' /\ SentIsRead'
  BY <1>1, WireTake
<1>3. /\ Head(wire) \in Nat \ {Note} /\ delivered \in Seq(Nat \ {Note})
      /\ position \in Nat /\ first \in Nat /\ Matching \subseteq Nat
  BY <1>1, TakeFirst, SubscriptionAssumption DEF FeedInv, TypeOK, Numbered
<1>4. /\ Len(delivered) \in Nat /\ delivered' # <<>>
      /\ Len(delivered') = Len(delivered) + 1
      /\ \A i \in 1..Len(delivered) : delivered'[i] = delivered[i]
      /\ delivered'[Len(delivered) + 1] = Head(wire)
  BY <1>1, <1>3, AppendProperties, LenProperties
<1>5. Numbered' /\ ResumesAfterDelivered'
  BY <1>1, <1>3, <1>4 DEF Numbered, ResumesAfterDelivered
<1>6. ASSUME NEW p \in Matching, first < p,
             NEW i \in 1..Len(delivered), p <= delivered[i]
      PROVE  \E j \in 1..i : delivered'[j] = p
  <2>1. PICK j \in 1..i : delivered[j] = p
    BY <1>6 DEF FeedInv, NoEventIsSkipped
  <2> QED
    BY <1>4, <2>1
<1>7. ASSUME NEW p \in Matching, NEW i \in 1..Len(delivered'),
             first' < p, p <= delivered'[i]
      PROVE  \E j \in 1..i : delivered'[j] = p
  <2>1. first < p
    BY <1>1, <1>7
  <2>2. CASE i \in 1..Len(delivered)
    BY <1>4, <1>6, <1>7, <2>1, <2>2
  <2>3. CASE i = Len(delivered) + 1 /\ p = Head(wire)
    BY <1>4, <2>3
  <2>4. CASE i = Len(delivered) + 1 /\ p # Head(wire)
    <3>1. p < Head(wire)
      BY <1>3, <1>4, <1>7, <2>4
    <3>2. p <= position
      BY <1>1, <1>3, <3>1, HeadIsNext
    <3>3. delivered # <<>> /\ position = delivered[Len(delivered)]
      BY <1>3, <2>1, <3>2 DEF FeedInv, ResumesAfterDelivered
    <3>4. Len(delivered) \in 1..Len(delivered)
      BY <1>3, <3>3, EmptySeq
    <3>5. PICK j \in 1..Len(delivered) : delivered'[j] = p
      BY <1>6, <2>1, <3>2, <3>3, <3>4
    <3> QED
      BY <1>4, <2>4, <3>5
  <2> QED
    BY <1>4, <2>2, <2>3, <2>4
<1>8. NoEventIsSkipped'
  BY <1>7 DEF NoEventIsSkipped
<1> QED
  BY <1>2, <1>5, <1>8 DEF FeedInv

\* A message without an event moves nothing but the wire.
LEMMA FeedNote ==
    ASSUME FeedInv, TypeOK', ReceiveNote \/ ReceiveUnexpected PROVE FeedInv'
<1>1. /\ wire # <<>> /\ Head(wire) = Note /\ wire' = Tail(wire)
      /\ UNCHANGED <<log, cursor, stream, position, first, delivered>>
  BY DEF ReceiveNote, ReceiveUnexpected
<1>2. WireIsTheLog' /\ SentIsRead'
  BY <1>1, WireTake
<1>3. ResumesAfterDelivered' /\ Numbered' /\ NoEventIsSkipped'
  BY <1>1 DEF FeedInv, ResumesAfterDelivered, Numbered, NoEventIsSkipped
<1> QED
  BY <1>2, <1>3 DEF FeedInv

\* The stream is dropped with the future.
LEMMA FeedCancel == ASSUME FeedInv, TypeOK', Cancel PROVE FeedInv'
<1>1. /\ wire' = <<>> /\ Len(wire') = 0 /\ stream' # "open"
      /\ UNCHANGED <<log, cursor, position, first, delivered>>
  BY DEF Cancel
<1>2. WireIsTheLog'
  BY <1>1 DEF WireIsTheLog
<1>3. ResumesAfterDelivered' /\ Numbered' /\ NoEventIsSkipped' /\ SentIsRead'
  BY <1>1 DEF FeedInv, ResumesAfterDelivered, Numbered, NoEventIsSkipped, SentIsRead
<1> QED
  BY <1>2, <1>3 DEF FeedInv

\* Whatever happens, what the feed rests on is kept.
LEMMA FeedStep == FeedInv /\ [Next]_vars => FeedInv'
<1> SUFFICES ASSUME FeedInv, [Next]_vars PROVE FeedInv'
  OBVIOUS
<1>1. TypeOK' /\ log \in Nat
  BY TypeStep DEF FeedInv, TypeOK
<1>2. CASE Write
  BY <1>1, <1>2, FeedKept DEF Write, clientVars, historyVars
<1>3. CASE Replace \/ TaskStops \/ HandleAnswered \/ UNCHANGED vars
  BY <1>1, <1>3, FeedKept
  DEF Replace, TaskStops, HandleAnswered, vars, serverVars, clientVars, historyVars
<1>4. CASE Call \/ HandleRefused \/ ReadRefused
  BY <1>1, <1>4, FeedKept DEF Call, HandleRefused, ReadRefused, serverVars
<1>5. CASE StreamFails
  BY <1>1, <1>5, FeedKept DEF StreamFails, Forget, serverVars
<1> QED
  BY <1>1, <1>2, <1>3, <1>4, <1>5, FeedPush, FeedBreak, FeedRead, FeedReceive,
     FeedNote, FeedCancel
  DEF Next, Proceed

LEMMA FeedInit == ASSUME End \notin Starts PROVE Init => FeedInv
<1> SUFFICES ASSUME Init PROVE FeedInv
  OBVIOUS
<1>1. TypeOK
  BY TypeInit
<1>2. Numbered
  BY SubscriptionAssumption DEF Init, Numbered
<1>3. wire = <<>> /\ delivered = <<>> /\ position = first /\ stream = "none"
  BY DEF Init
<1> QED
  BY <1>1, <1>2, <1>3
  DEF FeedInv, ResumesAfterDelivered, WireIsTheLog, SentIsRead, NoEventIsSkipped

\* The offset the client keeps is good for every resubscription of a subscription
\* that starts at a numbered place: no event is returned before one it owes
\* (commands.rs, next_subscription_event).
THEOREM NoEventIsSkippedCorrect ==
    ASSUME End \notin Starts
    PROVE  Spec => []NoEventIsSkipped
<1>1. Init => FeedInv
  BY FeedInit
<1>2. FeedInv /\ [Next]_vars => FeedInv'
  BY FeedStep
<1>3. FeedInv => NoEventIsSkipped
  BY DEF FeedInv
<1> QED
  BY <1>1, <1>2, <1>3, PTL DEF Spec

-----------------------------------------------------------------------------
(* The abstract feed. *)

\* Every step is a step of the feed, or none of its business.
LEMMA FeedSimulated ==
    ASSUME FeedInv, [Next]_vars
    PROVE  [Feed!Next]_(Feed!vars)
<1>1. CASE Write
  BY <1>1 DEF Write, clientVars, historyVars, Feed!Next, Feed!Write
<1>2. CASE ReceiveEvent
  <2>1. Feed!Reached = position
    BY DEF FeedInv, ResumesAfterDelivered, Feed!Reached
  <2>2. first # End
    BY SubscriptionAssumption DEF FeedInv, Numbered
  <2>3. /\ wire # <<>> /\ Head(wire) # Note
        /\ delivered' = Append(delivered, Head(wire)) /\ UNCHANGED <<log, first>>
    BY <1>2 DEF ReceiveEvent
  <2> QED
    BY <2>1, <2>2, <2>3, HeadIsNext DEF Feed!Next, Feed!Deliver
<1>3. CASE ReadAccepted
  BY <1>3, SubscriptionAssumption
  DEF ReadAccepted, FeedInv, Numbered, StartOf, Feed!vars
<1>4. CASE Push \/ Break \/ Replace \/ TaskStops \/ HandleAnswered \/ UNCHANGED vars
  BY <1>4 DEF Push, Break, Replace, TaskStops, HandleAnswered, vars, serverVars, clientVars,
     historyVars, Feed!vars
<1>5. CASE Call \/ HandleRefused \/ ReadRefused
  BY <1>5 DEF Call, HandleRefused, ReadRefused, serverVars, Feed!vars
<1>6. CASE ReceiveNote \/ ReceiveUnexpected \/ StreamFails \/ Cancel
  BY <1>6 DEF ReceiveNote, ReceiveUnexpected, StreamFails, Cancel, serverVars, Feed!vars
<1> QED
  BY <1>1, <1>2, <1>3, <1>4, <1>5, <1>6 DEF Next, Proceed

\* A subscription from a numbered place that resubscribes under failures gives the
\* application the feed of an uninterrupted stream.
THEOREM ImplementsFeedCorrect ==
    ASSUME End \notin Starts
    PROVE  Spec => ImplementsFeed
<1>1. Init => FeedInv /\ Feed!Init
  BY FeedInit DEF Init, Feed!Init
<1>2. FeedInv /\ [Next]_vars => FeedInv'
  BY FeedStep
<1>3. FeedInv /\ [Next]_vars => [Feed!Next]_(Feed!vars)
  BY FeedSimulated
<1> QED
  BY <1>1, <1>2, <1>3, PTL DEF Spec, ImplementsFeed, Feed!Spec

===============================================================================
