--------------------------- MODULE ReservationProofs ---------------------------
(***************************************************************************)
(* What holds of the idempotent reservation workflow for any workers,      *)
(* commands, stock, retry limit, number of deliveries and of faults.       *)
(***************************************************************************)
EXTENDS Reservation, SequenceTheorems, WellFoundedInduction, TLAPS

-----------------------------------------------------------------------------
(* Numbers and sequences. *)

\* A set of numbers that is not empty has a least one: by this a property of every
\* number is proved from its least counterexample.
LEMMA LeastNumber ==
    ASSUME NEW T \in SUBSET Nat, T # {}
    PROVE  \E n \in T : \A m \in T : n <= m
<1>1. PICK n \in T : \A m \in T : <<m, n>> \notin OpToRel(<, Nat)
  BY NatLessThanWellFounded, WFMin, Zenon
<1>2. \A m \in T : ~(m < n)
  BY <1>1 DEF OpToRel
<1> QED
  BY <1>2

\* A sequence of whatever elements.
IsSequence(s) == \E S : s \in Seq(S)

LEMMA SequenceLen == ASSUME NEW s, IsSequence(s) PROVE Len(s) \in Nat /\ (s = <<>> <=> Len(s) = 0)
BY DEF IsSequence

LEMMA AppendToSequence ==
    ASSUME NEW s, IsSequence(s), NEW e
    PROVE  /\ IsSequence(Append(s, e)) /\ Append(s, e) # <<>>
           /\ Len(Append(s, e)) = Len(s) + 1
           /\ Append(s, e)[Len(s) + 1] = e
           /\ \A i \in 1..Len(s) : Append(s, e)[i] = s[i]
<1>1. PICK S : s \in Seq(S)
  BY DEF IsSequence
<1>2. s \in Seq(S \cup {e})
  BY <1>1
<1>3. Append(s, e) \in Seq(S \cup {e})
  BY <1>2, AppendProperties
<1> QED
  BY <1>2, <1>3, AppendProperties DEF IsSequence

-----------------------------------------------------------------------------
(* The replay of the inventory's events. *)

\* f is the replay of the first n events.
IsReplay(f, events, n) ==
    f = [k \in 0..n |-> IF k = 0 THEN NotCreatedYet ELSE Replayed(f[k - 1], events[k])]

LEMMA ReplayExists ==
    ASSUME NEW events, NEW n \in Nat
    PROVE  \E f : IsReplay(f, events, n)
<1> DEFINE T == {m \in Nat : \A f : ~IsReplay(f, events, m)}
<1> SUFFICES ASSUME T # {} PROVE FALSE
  OBVIOUS
<1>1. PICK m \in T : \A k \in T : m <= k
  <2>1. T \in SUBSET Nat
    OBVIOUS
  <2> QED
    BY <2>1, LeastNumber
<1>2. m \in Nat /\ \A f : ~IsReplay(f, events, m)
  BY <1>1
<1>3. m # 0
  <2>1. IsReplay([k \in 0..0 |-> NotCreatedYet], events, 0)
    BY DEF IsReplay
  <2> QED
    BY <1>2, <2>1
<1>4. PICK f : IsReplay(f, events, m - 1)
  <2>1. m - 1 \in Nat /\ ~(m <= m - 1)
    BY <1>2, <1>3
  <2>2. m - 1 \notin T
    BY <1>1, <2>1
  <2> QED
    BY <2>1, <2>2
<1> DEFINE g == [k \in 0..m |-> IF k = m THEN Replayed(f[m - 1], events[m]) ELSE f[k]]
<1>5. ASSUME NEW k \in 0..m
      PROVE  g[k] = IF k = 0 THEN NotCreatedYet ELSE Replayed(g[k - 1], events[k])
  <2>1. CASE k = m
    <3>1. m - 1 \in 0..m /\ m - 1 # m
      BY <1>2, <1>3
    <3>2. g[m - 1] = f[m - 1]
      BY <3>1
    <3> QED
      BY <1>3, <2>1, <3>2
  <2>2. CASE k # m
    <3>1. k \in 0..(m - 1) /\ g[k] = f[k]
      BY <1>2, <2>2
    <3>2. f[k] = IF k = 0 THEN NotCreatedYet ELSE Replayed(f[k - 1], events[k])
      BY <1>4, <3>1 DEF IsReplay
    <3>3. k # 0 => k - 1 \in 0..m /\ k - 1 # m
      BY <1>2, <2>2
    <3> QED
      BY <3>1, <3>2, <3>3
  <2> QED
    BY <2>1, <2>2
<1>6. IsReplay(g, events, m)
  BY <1>5 DEF IsReplay
<1> QED
  BY <1>2, <1>6

LEMMA ReplayIsReplay ==
    ASSUME NEW events, Len(events) \in Nat
    PROVE  IsReplay(Replay(events), events, Len(events))
<1>1. \E f : f = [k \in 0..Len(events) |->
                    IF k = 0 THEN NotCreatedYet ELSE Replayed(f[k - 1], events[k])]
  BY ReplayExists DEF IsReplay
<1> QED
  BY <1>1 DEF Replay, IsReplay

\* Two replays agree as far as their events do.
LEMMA ReplaysAgree ==
    ASSUME NEW n \in Nat, NEW d, NEW e, \A i \in 1..n : d[i] = e[i],
           NEW m \in Nat, n <= m,
           NEW f, IsReplay(f, d, n), NEW g, IsReplay(g, e, m)
    PROVE  \A k \in 0..n : f[k] = g[k]
<1> DEFINE T == {k \in 0..n : f[k] # g[k]}
<1> SUFFICES ASSUME T # {} PROVE FALSE
  OBVIOUS
<1>1. PICK k \in T : \A j \in T : k <= j
  <2>1. T \in SUBSET Nat
    OBVIOUS
  <2> QED
    BY <2>1, LeastNumber
<1>2. k \in 0..n /\ k \in 0..m /\ f[k] # g[k]
  BY <1>1
<1>3. f[k] = IF k = 0 THEN NotCreatedYet ELSE Replayed(f[k - 1], d[k])
  BY <1>2 DEF IsReplay
<1>4. g[k] = IF k = 0 THEN NotCreatedYet ELSE Replayed(g[k - 1], e[k])
  BY <1>2 DEF IsReplay
<1>5. k # 0
  BY <1>2, <1>3, <1>4
<1>6. k - 1 \in 0..n /\ ~(k <= k - 1) /\ k \in 1..n
  BY <1>2, <1>5
<1>7. f[k - 1] = g[k - 1]
  BY <1>1, <1>6
<1> QED
  BY <1>2, <1>3, <1>4, <1>5, <1>6, <1>7

\* The inventory before any event.
LEMMA ReadNothing == read_inventory(<<>>) = NotCreatedYet
<1>1. Len(<<>>) = 0
  OBVIOUS
<1>2. IsReplay(Replay(<<>>), <<>>, 0)
  BY <1>1, ReplayIsReplay
<1>3. Replay(<<>>)[0] = NotCreatedYet
  BY <1>2 DEF IsReplay
<1> QED
  BY <1>1, <1>3 DEF read_inventory

\* One more event changes what was read before by its own replay.
LEMMA ReadOneMore ==
    ASSUME NEW s, IsSequence(s), NEW e
    PROVE  read_inventory(Append(s, e)) = Replayed(read_inventory(s), e)
<1> DEFINE n == Len(s)
           t == Append(s, e)
<1>1. n \in Nat /\ Len(t) = n + 1 /\ t[n + 1] = e /\ \A i \in 1..n : s[i] = t[i]
  BY SequenceLen, AppendToSequence
<1>2. IsReplay(Replay(s), s, n) /\ IsReplay(Replay(t), t, n + 1)
  <2>1. Len(t) = n + 1 /\ n + 1 \in Nat
    BY <1>1
  <2>2. IsReplay(Replay(t), t, Len(t))
    BY <2>1, ReplayIsReplay
  <2>3. IsReplay(Replay(s), s, Len(s))
    BY <1>1, ReplayIsReplay
  <2> QED
    BY <2>1, <2>2, <2>3
<1> HIDE DEF n, t
<1>3. Replay(s)[n] = Replay(t)[n]
  <2>1. n + 1 \in Nat /\ n <= n + 1 /\ n \in 0..n
    BY <1>1
  <2>2. n \in Nat /\ \A i \in 1..n : s[i] = t[i]
    BY <1>1
  <2>3. \A f, g : IsReplay(f, s, n) /\ IsReplay(g, t, n + 1)
                    => \A k \in 0..n : f[k] = g[k]
    BY <2>1, <2>2, ReplaysAgree
  <2>4. \A k \in 0..n : Replay(s)[k] = Replay(t)[k]
    BY <1>2, <2>3
  <2> QED
    BY <2>1, <2>4
<1>4. Replay(t)[n + 1] = Replayed(Replay(t)[n], t[n + 1])
  BY <1>1, <1>2 DEF IsReplay
<1> QED
  BY <1>1, <1>3, <1>4 DEF read_inventory, n, t

-----------------------------------------------------------------------------
(* The inductive invariant.  Everything in it but the deliveries is about the *)
(* streams of the server and the appends that may still reach them.           *)

Views ==
    [sound : BOOLEAN, sku : {NoSku, Sku}, available : Int,
     active : SUBSET {Held(c) : c \in Commands}]

\* The operation of c stands for c; it was found that c can take effect.
Claimed(c) == log[c.id] # <<>> /\ log[c.id][1].body.command = c
PreparedBy(c) == Claimed(c) /\ Len(log[c.id]) >= 2 /\ log[c.id][2].type = "prepared"

\* n was the revision of the inventory when it was found that c can take effect:
\* if it still is, c still can.
Fresh(c, n) ==
    /\ n \in 0..Revision(Inventory)
    /\ n = Revision(Inventory) =>
           reject_inventory_command(read_inventory(log[Inventory]), c) = NoOutcome

\* The event that follows revision n of the inventory is what the outcome of c
\* says it is; it will stay there.
Finished(c, n, type, what) ==
    /\ n + 1 <= Revision(Inventory)
    /\ what.type = type
    /\ \/ /\ type = "completed" /\ what.number = n + 1
          /\ log[Inventory][n + 2] = InventoryEvent(c)
       \/ /\ type = "conflicted"
          /\ log[Inventory][n + 2] # InventoryEvent(c)

Decision(c, request, e) ==
    /\ e.id = request.decision
    /\ \/ e.type = "prepared" /\ Fresh(c, e.body)
       \/ e.type = "rejected" /\ e.body.type = "rejected"

\* A stream holds the steps of its operation, each true when it was written.
Ordered(o) ==
    LET s == log[o]
    IN  /\ Len(s) <= 3
        /\ s # <<>> =>
               /\ s[1].type = "requested" /\ s[1].id = o
               /\ s[1].body.command \in Commands /\ s[1].body.command.id = o
        /\ Len(s) >= 2 => Decision(s[1].body.command, s[1].body, s[2])
        /\ Len(s) = 3 =>
               /\ s[2].type = "prepared"
               /\ s[3].id = s[1].body.terminal
               /\ Finished(s[1].body.command, s[2].body, s[3].type, s[3].body)

\* An event of the inventory is where its operation meant it to be.
InventoryOrdered ==
    \A i \in 1..Len(log[Inventory]) :
        \/ i = 1 /\ log[Inventory][i] = Created
        \/ i > 1 /\ \E c \in Commands :
               /\ log[Inventory][i] = InventoryEvent(c)
               /\ PreparedBy(c) /\ log[c.id][2].body = i - 2

\* What the inventory comes to; units are held for reservations it was told of.
InventorySound ==
    LET view == read_inventory(log[Inventory])
    IN  /\ view \in Views /\ view.sound
        /\ log[Inventory] # <<>> => view.sku = Sku
        /\ \A h \in view.active : \E i \in 2..Len(log[Inventory]), c \in Commands :
               log[Inventory][i] = InventoryEvent(c) /\ c.kind = "reserve" /\ h = Held(c)

LogType == DOMAIN log = Streams /\ \A s \in Streams : IsSequence(log[s])

LogInv ==
    /\ LogType
    /\ \A o \in OpIds : Ordered(o)
    /\ InventoryOrdered /\ InventorySound

\* An append is the creation, or a step of an operation: there is one place for
\* it in its stream, and at that place its event is true.
ProperFor(c, a) ==
    \/ /\ a.stream = Inventory /\ PreparedBy(c)
       /\ a.expected = log[c.id][2].body /\ a.event = InventoryEvent(c)
    \/ /\ a.stream = c.id /\ a.expected = NoStream
       /\ a.event.type = "requested" /\ a.event.id = c.id /\ a.event.body.command = c
    \/ /\ a.stream = c.id /\ a.expected = 0 /\ Claimed(c)
       /\ Decision(c, log[c.id][1].body, a.event)
    \/ /\ a.stream = c.id /\ a.expected = 1 /\ PreparedBy(c)
       /\ a.event.id = log[c.id][1].body.terminal
       /\ Finished(c, log[c.id][2].body, a.event.type, a.event.body)

Proper(a) == a = NoAppend \/ \E c \in Commands : ProperFor(c, a)

-----------------------------------------------------------------------------
(* Streams that grow. *)

\* Streams are only ever appended to.
Grows ==
    /\ \A s \in Streams :
           /\ Len(log[s]) <= Len(log'[s])
           /\ \A i \in 1..Len(log[s]) : log'[s][i] = log[s][i]
    /\ log'[Inventory] = log[Inventory] \/ Len(log[Inventory]) < Len(log'[Inventory])

\* Types of the streams of the model.
LEMMA StreamsOf ==
    /\ Inventory \in Streams
    /\ \A c \in Commands : c.id \in OpIds /\ c.id \in Streams /\ c.id # Inventory
    /\ \A o \in OpIds : o \in Streams /\ o # Inventory
    /\ \A c \in Commands : c.kind \in {"reserve", "release"} /\ c.quantity \in Nat
BY ReservationAssumption DEF Streams

LEMMA LengthOf ==
    ASSUME LogType, NEW s \in Streams
    PROVE  /\ Len(log[s]) \in Nat /\ (log[s] = <<>> <=> Len(log[s]) = 0)
           /\ Revision(s) = Len(log[s]) - 1 /\ Revision(s) \in Int
BY SequenceLen DEF LogType, Revision

\* What is claimed or prepared stays so, with the same events.
LEMMA ClaimsStay ==
    ASSUME LogType, LogType', Grows, NEW c \in Commands, Claimed(c)
    PROVE  /\ Claimed(c)' /\ log'[c.id][1] = log[c.id][1]
           /\ PreparedBy(c) => PreparedBy(c)' /\ log'[c.id][2] = log[c.id][2]
<1>1. c.id \in Streams
  BY StreamsOf
<1>2. Len(log[c.id]) \in Nat /\ Len(log'[c.id]) \in Nat
      /\ (log[c.id] = <<>> <=> Len(log[c.id]) = 0)
      /\ (log'[c.id] = <<>> <=> Len(log'[c.id]) = 0)
  BY <1>1, SequenceLen DEF LogType
<1>3. /\ Len(log[c.id]) <= Len(log'[c.id])
      /\ \A i \in 1..Len(log[c.id]) : log'[c.id][i] = log[c.id][i]
  BY <1>1 DEF Grows
<1>4. log'[c.id] # <<>> /\ log'[c.id][1] = log[c.id][1]
  BY <1>2, <1>3 DEF Claimed
<1>5. Claimed(c)'
  BY <1>4 DEF Claimed
<1>6. ASSUME PreparedBy(c) PROVE PreparedBy(c)' /\ log'[c.id][2] = log[c.id][2]
  <2>1. Len(log'[c.id]) >= 2 /\ log'[c.id][2] = log[c.id][2]
    BY <1>2, <1>3, <1>6 DEF PreparedBy
  <2> QED
    BY <1>5, <1>6, <2>1 DEF PreparedBy
<1> QED
  BY <1>4, <1>5, <1>6

\* What was decided stays true: a revision that was passed is never the last again.
LEMMA FreshStays ==
    ASSUME LogType, LogType', Grows, NEW c, NEW n, Fresh(c, n)
    PROVE  Fresh(c, n)'
<1>1. Inventory \in Streams
  BY StreamsOf
<1>2. Len(log[Inventory]) \in Nat /\ Len(log'[Inventory]) \in Nat
  BY <1>1, SequenceLen DEF LogType
<1>3. CASE log'[Inventory] = log[Inventory]
  BY <1>3 DEF Fresh, Revision
<1>4. CASE Len(log[Inventory]) < Len(log'[Inventory])
  BY <1>2, <1>4 DEF Fresh, Revision
<1> QED
  BY <1>3, <1>4 DEF Grows

LEMMA FinishedStays ==
    ASSUME LogType, LogType', Grows, NEW c, NEW n \in Nat, NEW type, NEW what,
           Finished(c, n, type, what)
    PROVE  Finished(c, n, type, what)'
<1>1. Inventory \in Streams
  BY StreamsOf
<1>2. Len(log[Inventory]) \in Nat /\ Len(log'[Inventory]) \in Nat
  BY <1>1, SequenceLen DEF LogType
<1>3. /\ Len(log[Inventory]) <= Len(log'[Inventory])
      /\ \A i \in 1..Len(log[Inventory]) : log'[Inventory][i] = log[Inventory][i]
  BY <1>1 DEF Grows
<1>4. n + 2 \in 1..Len(log[Inventory]) /\ n + 1 <= Len(log'[Inventory]) - 1
  BY <1>2, <1>3 DEF Finished, Revision
<1> QED
  BY <1>3, <1>4 DEF Finished, Revision

LEMMA DecisionStays ==
    ASSUME LogType, LogType', Grows, NEW c, NEW request, NEW e, Decision(c, request, e)
    PROVE  Decision(c, request, e)'
BY FreshStays DEF Decision

\* The body of a prepared decision is a revision.
LEMMA PreparedAt ==
    ASSUME LogInv, NEW c \in Commands, PreparedBy(c)
    PROVE  /\ Fresh(c, log[c.id][2].body)
           /\ log[c.id][2].body \in Nat
           /\ log[c.id][2].body <= Revision(Inventory)
           /\ Len(log[c.id]) \in {2, 3} /\ Len(log[c.id]) \in Nat
           /\ log[c.id][2].id = log[c.id][1].body.decision
<1>1. c.id \in OpIds /\ c.id \in Streams /\ Inventory \in Streams
  BY StreamsOf
<1>2. Ordered(c.id)
  BY <1>1 DEF LogInv
<1>3. Len(log[c.id]) \in Nat
  BY <1>1, LengthOf DEF LogInv
<1>4. Decision(c, log[c.id][1].body, log[c.id][2])
  BY <1>2 DEF Ordered, PreparedBy, Claimed
<1>5. Fresh(c, log[c.id][2].body)
  BY <1>4 DEF Decision, PreparedBy
<1>6. Revision(Inventory) \in Int
  BY <1>1, LengthOf DEF LogInv
<1>7. log[c.id][2].body \in 0..Revision(Inventory)
  BY <1>5 DEF Fresh
<1>8. Len(log[c.id]) \in {2, 3}
  <2>1. Len(log[c.id]) <= 3
    BY <1>2 DEF Ordered
  <2>2. Len(log[c.id]) >= 2
    BY DEF PreparedBy
  <2>3. \A n \in Nat : n >= 2 /\ n <= 3 => n \in {2, 3}
    OBVIOUS
  <2> QED
    BY <1>3, <2>1, <2>2, <2>3
<1>9. log[c.id][2].id = log[c.id][1].body.decision
  BY <1>4 DEF Decision
<1>10. \A n \in 0..Revision(Inventory) : n \in Nat /\ n <= Revision(Inventory)
  BY <1>6
<1> QED
  BY <1>3, <1>5, <1>7, <1>8, <1>9, <1>10

\* An append stays one that is true at its place.
LEMMA ProperStays ==
    ASSUME LogInv, LogType', Grows, NEW a, Proper(a)
    PROVE  Proper(a)'
<1>1. CASE a = NoAppend
  BY <1>1 DEF Proper
<1>2. ASSUME NEW c \in Commands, ProperFor(c, a) PROVE ProperFor(c, a)'
  <2>1. LogType
    BY DEF LogInv
  <2>2. CASE a.stream = Inventory /\ PreparedBy(c)
             /\ a.expected = log[c.id][2].body /\ a.event = InventoryEvent(c)
    BY <2>1, <2>2, ClaimsStay DEF ProperFor, PreparedBy
  <2>3. CASE a.stream = c.id /\ a.expected = NoStream
             /\ a.event.type = "requested" /\ a.event.id = c.id /\ a.event.body.command = c
    BY <2>3 DEF ProperFor
  <2>4. CASE a.stream = c.id /\ a.expected = 0 /\ Claimed(c)
             /\ Decision(c, log[c.id][1].body, a.event)
    <3>1. Claimed(c)' /\ log'[c.id][1] = log[c.id][1]
      BY <2>1, <2>4, ClaimsStay
    <3> PICK request : request = log[c.id][1].body
      OBVIOUS
    <3>2. Decision(c, request, a.event)'
      BY <2>1, <2>4, DecisionStays
    <3>3. Decision(c, log[c.id][1].body, a.event)'
      BY <3>1, <3>2
    <3> QED
      BY <2>4, <3>1, <3>3 DEF ProperFor
  <2>5. CASE a.stream = c.id /\ a.expected = 1 /\ PreparedBy(c)
             /\ a.event.id = log[c.id][1].body.terminal
             /\ Finished(c, log[c.id][2].body, a.event.type, a.event.body)
    <3>1. PreparedBy(c)' /\ log'[c.id][1] = log[c.id][1] /\ log'[c.id][2] = log[c.id][2]
      BY <2>1, <2>5, ClaimsStay DEF PreparedBy
    <3> PICK n : n = log[c.id][2].body
      OBVIOUS
    <3>2. n \in Nat
      BY <2>5, PreparedAt
    <3>3. Finished(c, n, a.event.type, a.event.body)'
      BY <2>1, <2>5, <3>2, FinishedStays
    <3>4. Finished(c, log[c.id][2].body, a.event.type, a.event.body)'
      BY <3>1, <3>3
    <3> QED
      BY <2>5, <3>1, <3>4 DEF ProperFor
  <2> QED
    BY <1>2, <2>2, <2>3, <2>4, <2>5 DEF ProperFor
<1> QED
  BY <1>1, <1>2 DEF Proper

-----------------------------------------------------------------------------
(* One write. *)

\* The stream of a write is one event longer, and no other stream has changed.
LEMMA WriteEffect ==
    ASSUME LogType, NEW a, a.stream \in Streams, Fits(a), Write(a)
    PROVE  /\ LogType' /\ Grows
           /\ log'[a.stream] = Append(log[a.stream], a.event)
           /\ Len(log[a.stream]) = a.expected + 1
           /\ Len(log'[a.stream]) = Len(log[a.stream]) + 1
           /\ log'[a.stream][Len(log[a.stream]) + 1] = a.event
           /\ \A s \in Streams : s # a.stream => log'[s] = log[s]
           /\ late' \subseteq late
<1>1. /\ log'[a.stream] = Append(log[a.stream], a.event)
      /\ DOMAIN log' = Streams
      /\ \A s \in Streams : s # a.stream => log'[s] = log[s]
      /\ late' \subseteq late
  BY DEF Write, LogType
<1>2. IsSequence(log[a.stream])
  BY DEF LogType
<1>3. /\ IsSequence(log'[a.stream])
      /\ Len(log'[a.stream]) = Len(log[a.stream]) + 1
      /\ log'[a.stream][Len(log[a.stream]) + 1] = a.event
      /\ \A i \in 1..Len(log[a.stream]) : log'[a.stream][i] = log[a.stream][i]
  BY <1>1, <1>2, AppendToSequence
<1>4. \A s \in Streams : Len(log[s]) \in Nat
  BY LengthOf
<1>5. LogType'
  BY <1>1, <1>3 DEF LogType
<1>6. Grows
  <2>1. ASSUME NEW s \in Streams
        PROVE  /\ Len(log[s]) <= Len(log'[s])
               /\ \A i \in 1..Len(log[s]) : log'[s][i] = log[s][i]
               /\ log'[s] = log[s] \/ Len(log[s]) < Len(log'[s])
    <3>1. CASE s = a.stream
      BY <1>3, <1>4, <3>1
    <3>2. CASE s # a.stream
      BY <1>1, <1>4, <3>2
    <3> QED
      BY <3>1, <3>2
  <2> QED
    BY <2>1, StreamsOf DEF Grows
<1>7. Len(log[a.stream]) = a.expected + 1
  BY <1>4 DEF Fits, Revision
<1> QED
  BY <1>1, <1>3, <1>5, <1>6, <1>7

\* An operation that was written in full, or rejected, is written no more.
LEMMA OrderedStays ==
    ASSUME LogInv, LogType', Grows, NEW o \in OpIds, log'[o] = log[o]
    PROVE  Ordered(o)'
<1>1. o \in Streams /\ Len(log[o]) \in Nat /\ (log[o] = <<>> <=> Len(log[o]) = 0)
  BY StreamsOf, LengthOf DEF LogInv
<1>2. Ordered(o) /\ LogType
  BY DEF LogInv
<1> PICK s : s = log[o]
  OBVIOUS
<1> PICK c : c = s[1].body.command
  OBVIOUS
<1>3. Len(s) >= 2 => Decision(c, s[1].body, s[2])'
  BY <1>2, DecisionStays DEF Ordered
<1>4. ASSUME Len(s) = 3 PROVE Finished(c, s[2].body, s[3].type, s[3].body)'
  <2>1. Finished(c, s[2].body, s[3].type, s[3].body)
    BY <1>2, <1>4 DEF Ordered
  <2>2. s[1].body.command \in Commands /\ c.id = o
    BY <1>1, <1>2, <1>4 DEF Ordered
  <2>3. PreparedBy(c)
    BY <1>1, <1>2, <1>4, <2>2 DEF Ordered, PreparedBy, Claimed
  <2>4. s[2].body \in Nat
    BY <2>2, <2>3, PreparedAt
  <2> QED
    BY <1>2, <2>1, <2>4, FinishedStays
<1>5. s = log'[o]
  OBVIOUS
<1> QED
  BY <1>2, <1>3, <1>4, <1>5 DEF Ordered

\* A step of an operation is written where it belongs.
LEMMA WriteOperation ==
    ASSUME LogInv, NEW c \in Commands, NEW a, ProperFor(c, a), a.stream = c.id,
           Fits(a), Write(a)
    PROVE  Ordered(c.id)'
<1>1. /\ c.id \in OpIds /\ c.id \in Streams /\ c.id # Inventory /\ LogType
      /\ Ordered(c.id)
  BY StreamsOf DEF LogInv
<1>2. /\ LogType' /\ Grows
      /\ Len(log[c.id]) = a.expected + 1
      /\ Len(log'[c.id]) = Len(log[c.id]) + 1
      /\ log'[c.id][Len(log[c.id]) + 1] = a.event
  BY <1>1, WriteEffect
<1>3. /\ Len(log[c.id]) \in Nat /\ Len(log'[c.id]) \in Nat
      /\ (log[c.id] = <<>> <=> Len(log[c.id]) = 0)
  BY <1>1, <1>2, LengthOf, SequenceLen DEF LogType
<1>4. CASE a.expected = NoStream
           /\ a.event.type = "requested" /\ a.event.id = c.id /\ a.event.body.command = c
  <2>1. Len(log'[c.id]) = 1 /\ log'[c.id][1] = a.event
    BY <1>2, <1>3, <1>4 DEF NoStream
  <2> QED
    BY <1>4, <2>1 DEF Ordered
<1>5. CASE a.expected = 0 /\ Claimed(c) /\ Decision(c, log[c.id][1].body, a.event)
  <2>1. Len(log'[c.id]) = 2 /\ log'[c.id][2] = a.event
    BY <1>2, <1>3, <1>5
  <2>2. log'[c.id][1] = log[c.id][1]
    BY <1>1, <1>2, <1>5, ClaimsStay
  <2> PICK request, e : request = log[c.id][1].body /\ e = a.event
    OBVIOUS
  <2>3. Decision(c, request, e)'
    BY <1>1, <1>2, <1>5, DecisionStays
  <2>4. log[c.id] # <<>> /\ request.command = c
    BY <1>5 DEF Claimed
  <2>5. log[c.id][1].type = "requested" /\ log[c.id][1].id = c.id
    BY <1>1, <2>4 DEF Ordered
  <2> QED
    BY <2>1, <2>2, <2>3, <2>4, <2>5 DEF Ordered
<1>6. CASE a.expected = 1 /\ PreparedBy(c)
           /\ a.event.id = log[c.id][1].body.terminal
           /\ Finished(c, log[c.id][2].body, a.event.type, a.event.body)
  <2>1. Len(log'[c.id]) = 3 /\ log'[c.id][3] = a.event
    BY <1>2, <1>3, <1>6
  <2>2. /\ Claimed(c) /\ log'[c.id][1] = log[c.id][1] /\ log'[c.id][2] = log[c.id][2]
    BY <1>1, <1>2, <1>6, ClaimsStay DEF PreparedBy
  <2> PICK request, d, e : request = log[c.id][1].body /\ d = log[c.id][2] /\ e = a.event
    OBVIOUS
  <2>3. Finished(c, d.body, e.type, e.body)'
    BY <1>1, <1>2, <1>6, PreparedAt, FinishedStays
  <2>4. log[c.id] # <<>> /\ request.command = c /\ d.type = "prepared"
    BY <1>6 DEF PreparedBy, Claimed
  <2>5. log[c.id][1].type = "requested" /\ log[c.id][1].id = c.id
    BY <1>1, <2>4 DEF Ordered
  <2>6. Decision(c, request, d)
    BY <1>1, <1>6, <2>4 DEF Ordered, PreparedBy
  <2>7. Decision(c, request, d)'
    BY <1>1, <1>2, <2>6, DecisionStays
  <2> QED
    BY <1>6, <2>1, <2>2, <2>3, <2>4, <2>5, <2>7 DEF Ordered
<1> QED
  BY <1>1, <1>4, <1>5, <1>6 DEF ProperFor

\* The inventory's events stay where their operations meant them to be.
LEMMA InventoryOrderedStays ==
    ASSUME LogInv, LogType', Grows, log'[Inventory] = log[Inventory]
    PROVE  InventoryOrdered'
<1> SUFFICES ASSUME NEW i \in 1..Len(log[Inventory]),
                    ~(i = 1 /\ log[Inventory][i] = Created)
             PROVE  i > 1 /\ \E c \in Commands :
                       /\ log[Inventory][i] = InventoryEvent(c)
                       /\ PreparedBy(c)' /\ log'[c.id][2].body = i - 2
  BY DEF InventoryOrdered
<1>1. PICK c \in Commands : /\ i > 1 /\ log[Inventory][i] = InventoryEvent(c)
                            /\ PreparedBy(c) /\ log[c.id][2].body = i - 2
  BY DEF LogInv, InventoryOrdered
<1>2. PreparedBy(c)' /\ log'[c.id][2] = log[c.id][2]
  BY <1>1, ClaimsStay DEF LogInv, PreparedBy
<1> QED
  BY <1>1, <1>2

-----------------------------------------------------------------------------
(* One write to the inventory. *)

\* The creation is the first event, with which there is stock.
LEMMA ReplayedCreation ==
    Replayed(NotCreatedYet, Created)
        = [sound |-> TRUE, sku |-> Sku, available |-> Available, active |-> {}]
BY DEF Replayed, NotCreatedYet, Created, Event

LEMMA ReplayedReserve ==
    ASSUME NEW view \in Views, NEW c \in Commands, c.kind = "reserve"
    PROVE  Replayed(view, InventoryEvent(c)) =
               [sound |-> /\ view.sound
                          /\ view.available >= c.quantity
                          /\ \A h \in view.active : h.reservation # c.reservation,
                sku |-> view.sku,
                available |-> view.available - c.quantity,
                active |-> view.active \cup {Held(c)}]
<1>1. /\ InventoryEvent(c).type = "reserve" /\ InventoryEvent(c).id = c.id
      /\ InventoryEvent(c).body = c
  BY DEF InventoryEvent, Event
<1> PICK e : e = InventoryEvent(c)
  OBVIOUS
<1> PICK b \in BOOLEAN :
       b = /\ view.sound /\ view.available >= c.quantity
           /\ \A h \in view.active : h.reservation # c.reservation
  BY DEF Views
<1>2. Replayed(view, e) =
         [view EXCEPT !.sound = b, !.available = view.available - c.quantity,
                      !.active = view.active \cup {Held(c)}]
  BY <1>1 DEF Replayed, Views
<1>3. view = [sound |-> view.sound, sku |-> view.sku, available |-> view.available,
              active |-> view.active]
  BY DEF Views
<1> QED
  BY <1>2, <1>3

LEMMA ReplayedRelease ==
    ASSUME NEW view \in Views, NEW c \in Commands, c.kind = "release"
    PROVE  Replayed(view, InventoryEvent(c)) =
               [sound |-> view.sound /\ Held(c) \in view.active,
                sku |-> view.sku,
                available |-> view.available + c.quantity,
                active |-> view.active \ {Held(c)}]
<1>1. /\ InventoryEvent(c).type = "release" /\ InventoryEvent(c).id = c.id
      /\ InventoryEvent(c).body = c
  BY DEF InventoryEvent, Event
<1> PICK e : e = InventoryEvent(c)
  OBVIOUS
<1> PICK b \in BOOLEAN : b = (view.sound /\ Held(c) \in view.active)
  BY DEF Views
<1>2. Replayed(view, e) =
         [view EXCEPT !.sound = b, !.available = view.available + c.quantity,
                      !.active = view.active \ {Held(c)}]
  BY <1>1 DEF Replayed, Views
<1>3. view = [sound |-> view.sound, sku |-> view.sku, available |-> view.available,
              active |-> view.active]
  BY DEF Views
<1> QED
  BY <1>2, <1>3

\* An operation whose event would follow the last one is not in the inventory, and
\* neither is another one for the same reservation.
LEMMA NotYetInInventory ==
    ASSUME LogInv, NEW c \in Commands, PreparedBy(c), log[c.id][2].body = Revision(Inventory)
    PROVE  \A i \in 1..Len(log[Inventory]), d \in Commands :
               log[Inventory][i] = InventoryEvent(d) => d.id # c.id
<1> SUFFICES ASSUME NEW i \in 1..Len(log[Inventory]), NEW d \in Commands,
                    log[Inventory][i] = InventoryEvent(d), d.id = c.id
             PROVE  FALSE
  OBVIOUS
<1>1. Len(log[Inventory]) \in Nat /\ Revision(Inventory) = Len(log[Inventory]) - 1
  BY StreamsOf, LengthOf DEF LogInv
<1>2. InventoryEvent(d).id = c.id /\ InventoryEvent(d) # Created
  BY StreamsOf, ReservationAssumption DEF InventoryEvent, Event, Created
<1>3. PICK e \in Commands : /\ i > 1 /\ log[Inventory][i] = InventoryEvent(e)
                            /\ PreparedBy(e) /\ log[e.id][2].body = i - 2
  BY <1>2 DEF LogInv, InventoryOrdered
<1>4. e.id = c.id
  BY <1>2, <1>3 DEF InventoryEvent, Event
<1>5. i - 2 = Len(log[Inventory]) - 1
  BY <1>1, <1>3, <1>4
<1> QED
  BY <1>1, <1>5

\* The first event of the inventory is its creation.
LEMMA WriteCreation ==
    ASSUME LogInv, Fits(NoAppend), Write(NoAppend)
    PROVE  InventoryOrdered' /\ InventorySound'
<1>1. NoAppend.stream = Inventory /\ NoAppend.expected = -1 /\ NoAppend.event = Created
  BY DEF NoAppend, NoStream
<1>2. Inventory \in Streams /\ LogType
  BY StreamsOf DEF LogInv
<1>3. /\ Len(log[Inventory]) = 0 /\ Len(log'[Inventory]) = 1
      /\ log'[Inventory][1] = Created
      /\ log'[Inventory] = Append(log[Inventory], Created)
  <2> PICK a : a = NoAppend
    OBVIOUS
  <2>1. Fits(a) /\ Write(a) /\ a.stream = Inventory /\ a.expected = -1 /\ a.event = Created
    BY <1>1
  <2>2. /\ Len(log[Inventory]) = -1 + 1
        /\ Len(log'[Inventory]) = Len(log[Inventory]) + 1
        /\ log'[Inventory][Len(log[Inventory]) + 1] = Created
        /\ log'[Inventory] = Append(log[Inventory], Created)
    BY <1>2, <2>1, WriteEffect
  <2> QED
    BY <2>2
<1>4. log[Inventory] = <<>> /\ IsSequence(log[Inventory])
  BY <1>2, <1>3, LengthOf DEF LogType
<1>5. read_inventory(log'[Inventory])
         = [sound |-> TRUE, sku |-> Sku, available |-> Available, active |-> {}]
  <2>1. read_inventory(log'[Inventory]) = Replayed(read_inventory(log[Inventory]), Created)
    BY <1>3, <1>4, ReadOneMore
  <2>2. read_inventory(log[Inventory]) = NotCreatedYet
    BY <1>4, ReadNothing
  <2> QED
    BY <2>1, <2>2, ReplayedCreation
<1>6. InventoryOrdered'
  BY <1>3 DEF InventoryOrdered
<1>7. Available \in Int
  BY ReservationAssumption
<1> QED
  BY <1>5, <1>6, <1>7 DEF InventorySound, Views

\* What was found to be allowed is still allowed when it is written.
LEMMA WriteInventory ==
    ASSUME LogInv, NEW c \in Commands, NEW a, PreparedBy(c), a.stream = Inventory,
           a.expected = log[c.id][2].body, a.event = InventoryEvent(c),
           Fits(a), Write(a)
    PROVE  /\ InventoryOrdered' /\ InventorySound'
           /\ read_inventory(log'[Inventory])
                = Replayed(read_inventory(log[Inventory]), InventoryEvent(c))
           /\ read_inventory(log'[Inventory]).sound
<1>1. /\ Inventory \in Streams /\ LogType /\ c.id \in Streams /\ c.id # Inventory
      /\ c.kind \in {"reserve", "release"} /\ c.quantity \in Nat
  BY StreamsOf DEF LogInv
<1>2. /\ LogType' /\ Grows
      /\ Len(log[Inventory]) = a.expected + 1
      /\ Len(log'[Inventory]) = Len(log[Inventory]) + 1
      /\ log'[Inventory][Len(log[Inventory]) + 1] = InventoryEvent(c)
      /\ log'[Inventory] = Append(log[Inventory], InventoryEvent(c))
      /\ \A s \in Streams : s # Inventory => log'[s] = log[s]
  BY <1>1, WriteEffect
<1> PICK n : n = Len(log[Inventory])
  OBVIOUS
<1>3. n \in Nat /\ n >= 1 /\ Revision(Inventory) = n - 1 /\ log[c.id][2].body = n - 1
  <2>1. log[c.id][2].body \in Nat
    BY PreparedAt
  <2>2. n \in Nat /\ Revision(Inventory) = n - 1
    BY <1>1, LengthOf
  <2> QED
    BY <1>2, <2>1, <2>2
<1> PICK view : view = read_inventory(log[Inventory])
  OBVIOUS
<1>4. view \in Views /\ view.sound /\ view.sku = Sku
  BY <1>1, <1>3, LengthOf DEF LogInv, InventorySound
<1>5. reject_inventory_command(view, c) = NoOutcome
  BY <1>3, PreparedAt DEF Fresh
<1>6. /\ c.kind = "reserve" => view.available >= c.quantity
      /\ c.kind = "release" => Held(c) \in view.active
  <2>1. "none" # "rejected"
    OBVIOUS
  <2>2. view.available \in Int /\ c.quantity \in Int
    BY <1>1, <1>4 DEF Views
  <2> QED
    BY <1>5, <2>1, <2>2 DEF reject_inventory_command, NoOutcome, Outcome
<1>7. \A h \in view.active : \E i \in 2..n, d \in Commands :
         log[Inventory][i] = InventoryEvent(d) /\ d.kind = "reserve" /\ h = Held(d)
  BY DEF LogInv, InventorySound
<1>8. ASSUME c.kind = "reserve", NEW h \in view.active
      PROVE  h.reservation # c.reservation
  <2>1. PICK i \in 2..n, d \in Commands :
           log[Inventory][i] = InventoryEvent(d) /\ d.kind = "reserve" /\ h = Held(d)
    BY <1>7
  <2>2. i \in 1..Len(log[Inventory])
    BY <1>3
  <2>3. d.id # c.id
    BY <1>3, <2>1, <2>2, NotYetInInventory
  <2>4. d.reservation # c.reservation
    BY <1>8, <2>1, <2>3, ReservationAssumption
  <2> QED
    BY <2>1, <2>4 DEF Held
<1> PICK after : after = read_inventory(log'[Inventory])
  OBVIOUS
<1>9. after = Replayed(view, InventoryEvent(c))
  BY <1>1, <1>2, ReadOneMore DEF LogType
<1>10. /\ after \in Views /\ after.sound /\ after.sku = Sku
       /\ \A h \in after.active : h \in view.active \/ (c.kind = "reserve" /\ h = Held(c))
  <2>1. /\ view.available - c.quantity \in Int /\ view.available + c.quantity \in Int
        /\ view.active \cup {Held(c)} \subseteq {Held(d) : d \in Commands}
        /\ view.active \ {Held(c)} \subseteq {Held(d) : d \in Commands}
    BY <1>1, <1>4 DEF Views
  <2>2. CASE c.kind = "reserve"
    <3>1. after = [sound |-> TRUE, sku |-> Sku,
                   available |-> view.available - c.quantity,
                   active |-> view.active \cup {Held(c)}]
      BY <1>4, <1>6, <1>8, <1>9, <2>2, ReplayedReserve
    <3> QED
      BY <2>1, <2>2, <3>1 DEF Views
  <2>3. CASE c.kind = "release"
    <3>1. after = [sound |-> TRUE, sku |-> Sku,
                   available |-> view.available + c.quantity,
                   active |-> view.active \ {Held(c)}]
      BY <1>4, <1>6, <1>9, <2>3, ReplayedRelease
    <3> QED
      BY <2>1, <3>1 DEF Views
  <2> QED
    BY <1>1, <2>2, <2>3
<1>11. InventoryOrdered'
  <2> SUFFICES ASSUME NEW i \in 1..(n + 1),
                      ~(i = 1 /\ log'[Inventory][i] = Created)
               PROVE  i > 1 /\ \E d \in Commands :
                         /\ log'[Inventory][i] = InventoryEvent(d)
                         /\ PreparedBy(d)' /\ log'[d.id][2].body = i - 2
    BY <1>2 DEF InventoryOrdered
  <2>1. CASE i = n + 1
    <3>1. PreparedBy(c)' /\ log'[c.id][2] = log[c.id][2]
      BY <1>1, <1>2, ClaimsStay DEF PreparedBy
    <3>2. log'[Inventory][i] = InventoryEvent(c) /\ i > 1 /\ n - 1 = i - 2
      BY <1>2, <1>3, <2>1
    <3> QED
      BY <1>3, <3>1, <3>2
  <2>2. CASE i # n + 1
    <3>1. i \in 1..n /\ log'[Inventory][i] = log[Inventory][i]
      BY <1>1, <1>2, <1>3, <2>2 DEF Grows
    <3>2. PICK d \in Commands : /\ i > 1 /\ log[Inventory][i] = InventoryEvent(d)
                                /\ PreparedBy(d) /\ log[d.id][2].body = i - 2
      BY <3>1 DEF LogInv, InventoryOrdered
    <3>3. PreparedBy(d)' /\ log'[d.id][2] = log[d.id][2]
      BY <1>1, <1>2, <3>2, ClaimsStay DEF PreparedBy
    <3> QED
      BY <3>1, <3>2, <3>3
  <2> QED
    BY <2>1, <2>2
<1>12. \A h \in after.active : \E i \in 2..(n + 1), d \in Commands :
          log'[Inventory][i] = InventoryEvent(d) /\ d.kind = "reserve" /\ h = Held(d)
  <2> SUFFICES ASSUME NEW h \in after.active
               PROVE  \E i \in 2..(n + 1), d \in Commands :
                         log'[Inventory][i] = InventoryEvent(d) /\ d.kind = "reserve" /\ h = Held(d)
    OBVIOUS
  <2>1. CASE h \in view.active
    <3>1. PICK i \in 2..n, d \in Commands :
             log[Inventory][i] = InventoryEvent(d) /\ d.kind = "reserve" /\ h = Held(d)
      BY <1>7, <2>1
    <3>2. log'[Inventory][i] = log[Inventory][i] /\ i \in 2..(n + 1)
      BY <1>1, <1>2, <1>3 DEF Grows
    <3> QED
      BY <3>1, <3>2
  <2>2. CASE c.kind = "reserve" /\ h = Held(c)
    <3>1. n + 1 \in 2..(n + 1)
      BY <1>3
    <3> QED
      BY <1>2, <2>2, <3>1
  <2> QED
    BY <1>10, <2>1, <2>2
<1>13. InventorySound'
  BY <1>2, <1>10, <1>12 DEF InventorySound
<1> QED
  BY <1>9, <1>10, <1>11, <1>13

-----------------------------------------------------------------------------
(* Any write. *)

LEMMA WriteLog ==
    ASSUME LogInv, NEW a, Proper(a), Fits(a), Write(a)
    PROVE  LogInv' /\ Grows /\ late' \subseteq late /\ a.stream \in Streams
<1>1. LogType /\ \A o \in OpIds : Ordered(o)
  BY DEF LogInv
<1>2. a.stream \in Streams
  BY StreamsOf DEF Proper, ProperFor, NoAppend
<1>3. /\ LogType' /\ Grows /\ late' \subseteq late
      /\ \A s \in Streams : s # a.stream => log'[s] = log[s]
  BY <1>1, <1>2, WriteEffect
<1>4. CASE a.stream = Inventory
  <2>1. InventoryOrdered' /\ InventorySound'
    <3>1. CASE a = NoAppend
      BY <3>1, WriteCreation
    <3>2. CASE \E c \in Commands : ProperFor(c, a)
      <4>1. PICK c \in Commands : ProperFor(c, a)
        BY <3>2
      <4>2. PreparedBy(c) /\ a.expected = log[c.id][2].body /\ a.event = InventoryEvent(c)
        BY <1>4, <4>1, StreamsOf DEF ProperFor
      <4> QED
        BY <1>4, <4>2, WriteInventory
    <3> QED
      BY <3>1, <3>2 DEF Proper
  <2>2. ASSUME NEW o \in OpIds PROVE Ordered(o)'
    BY <1>3, <1>4, <2>2, StreamsOf, OrderedStays
  <2> QED
    BY <1>2, <1>3, <2>1, <2>2 DEF LogInv
<1>5. CASE a.stream # Inventory
  <2>1. log'[Inventory] = log[Inventory]
    BY <1>3, <1>5, StreamsOf
  <2>2. InventoryOrdered'
    BY <1>3, <2>1, InventoryOrderedStays
  <2>3. InventorySound'
    BY <2>1 DEF LogInv, InventorySound
  <2>4. PICK c \in Commands : ProperFor(c, a)
    BY <1>5 DEF Proper, NoAppend
  <2>5. a.stream = c.id
    BY <1>5, <2>4 DEF ProperFor
  <2>6. Ordered(c.id)'
    BY <2>4, <2>5, WriteOperation
  <2>7. ASSUME NEW o \in OpIds PROVE Ordered(o)'
    <3>1. CASE o = c.id
      BY <2>6, <3>1
    <3>2. CASE o # c.id
      BY <1>3, <2>5, <2>7, <3>2, StreamsOf, OrderedStays
    <3> QED
      BY <3>1, <3>2
  <2> QED
    BY <1>2, <1>3, <2>2, <2>3, <2>7 DEF LogInv
<1> QED
  BY <1>4, <1>5

\* Where an operation stands is how long its stream is.
LEMMA StageOf ==
    ASSUME LogInv, NEW o \in OpIds, log[o] # <<>>
    PROVE  /\ Len(log[o]) \in {1, 2, 3}
           /\ Stage(log[o]) = log[o][Len(log[o])].type
           /\ Len(log[o]) = 1 => Stage(log[o]) = "requested"
           /\ Len(log[o]) = 2 => Stage(log[o]) \in {"prepared", "rejected"}
           /\ Len(log[o]) = 3 => /\ Stage(log[o]) \in {"completed", "conflicted"}
                                 /\ log[o][2].type = "prepared"
           /\ Stage(log[o]) \in Decided => log[o][Len(log[o])].body.type = Stage(log[o])
<1>1. o \in Streams /\ Len(log[o]) \in Nat /\ Len(log[o]) # 0
  BY StreamsOf, LengthOf DEF LogInv
<1>2. Ordered(o)
  BY DEF LogInv
<1>3. Len(log[o]) \in {1, 2, 3}
  <2>1. Len(log[o]) <= 3
    BY <1>2 DEF Ordered
  <2>2. \A n \in Nat : n # 0 /\ n <= 3 => n \in {1, 2, 3}
    OBVIOUS
  <2> QED
    BY <1>1, <2>1, <2>2
<1>4. CASE Len(log[o]) = 1
  BY <1>2, <1>4 DEF Ordered, Stage, Decided
<1>5. CASE Len(log[o]) = 2
  BY <1>2, <1>5 DEF Ordered, Stage, Decision, Decided
<1>6. CASE Len(log[o]) = 3
  BY <1>2, <1>6 DEF Ordered, Stage, Finished
<1> QED
  BY <1>3, <1>4, <1>5, <1>6 DEF Stage

\* An operation that is decided stays as it was decided.
LEMMA DecidedStays ==
    ASSUME LogInv, LogInv', Grows, NEW o \in OpIds, log[o] # <<>>, Stage(log[o]) \in Decided
    PROVE  /\ log'[o] # <<>> /\ Len(log'[o]) = Len(log[o])
           /\ log'[o][Len(log'[o])] = log[o][Len(log[o])]
           /\ Stage(log'[o]) = Stage(log[o])
<1>1. /\ o \in Streams /\ Len(log[o]) \in Nat /\ Len(log'[o]) \in Nat
      /\ (log'[o] = <<>> <=> Len(log'[o]) = 0)
  BY StreamsOf, LengthOf, SequenceLen DEF LogInv, LogType
<1>2. /\ Len(log[o]) <= Len(log'[o])
      /\ \A i \in 1..Len(log[o]) : log'[o][i] = log[o][i]
  BY <1>1 DEF Grows
<1>3. Len(log[o]) \in {2, 3} /\ (Len(log[o]) = 2 => log[o][2].type = "rejected")
  BY StageOf DEF Decided
<1>4. log'[o][2] = log[o][2]
  BY <1>2, <1>3
<1>5. Len(log'[o]) <= 3 /\ (Len(log'[o]) = 3 => log'[o][2].type = "prepared")
  BY DEF LogInv, Ordered
<1>6. Len(log'[o]) = Len(log[o])
  <2>1. \A m, n \in Nat : m <= n /\ n <= 3 /\ m \in {2, 3} /\ (m = 2 => n # 3) => n = m
    OBVIOUS
  <2>2. Len(log[o]) = 2 => Len(log'[o]) # 3
    BY <1>3, <1>4, <1>5
  <2> QED
    BY <1>1, <1>2, <1>3, <1>5, <2>1, <2>2
<1> QED
  BY <1>1, <1>2, <1>3, <1>6 DEF Stage

\* What the streams say of an operation is true of the inventory.
LEMMA LogsMatchInventory == LogInv => EffectMatchesOutcome
<1> SUFFICES ASSUME LogInv, NEW o \in OpIds
             PROVE  /\ \A i, j \in InventoryOf(o) : i = j
                    /\ log[o] # <<>> /\ Stage(log[o]) = "completed" =>
                          InventoryOf(o) = {log[o][3].body.number + 1}
                    /\ log[o] # <<>> /\ Stage(log[o]) \in {"rejected", "conflicted"} =>
                          InventoryOf(o) = {}
  BY DEF EffectMatchesOutcome
<1>1. /\ o \in Streams /\ Len(log[o]) \in Nat /\ (log[o] = <<>> <=> Len(log[o]) = 0)
      /\ Len(log[Inventory]) \in Nat /\ Revision(Inventory) = Len(log[Inventory]) - 1
      /\ Ordered(o)
  BY StreamsOf, LengthOf DEF LogInv
<1>2. ASSUME NEW i \in InventoryOf(o)
      PROVE  /\ Len(log[o]) >= 2 /\ log[o][2].type = "prepared"
             /\ log[o][2].body = i - 2 /\ i \in Nat
             /\ log[Inventory][i] = InventoryEvent(log[o][1].body.command)
  <2>1. i \in 1..Len(log[Inventory]) /\ log[Inventory][i].id = o
    BY DEF InventoryOf
  <2>2. log[Inventory][i] # Created
    BY <2>1, ReservationAssumption DEF Created, Event
  <2>3. PICK c \in Commands : /\ log[Inventory][i] = InventoryEvent(c)
                              /\ PreparedBy(c) /\ log[c.id][2].body = i - 2
    BY <2>1, <2>2 DEF LogInv, InventoryOrdered
  <2>4. c.id = o
    BY <2>1, <2>3 DEF InventoryEvent, Event
  <2> QED
    BY <1>1, <2>1, <2>3, <2>4 DEF PreparedBy, Claimed
<1>3. ASSUME NEW i \in InventoryOf(o), NEW j \in InventoryOf(o) PROVE i = j
  <2>1. i \in Nat /\ j \in Nat /\ i - 2 = j - 2
    BY <1>2
  <2> QED
    BY <2>1
<1> PICK n, c : n = log[o][2].body /\ c = log[o][1].body.command
  OBVIOUS
<1>4. ASSUME log[o] # <<>>, Stage(log[o]) \in {"completed", "conflicted"}
      PROVE  /\ Len(log[o]) = 3 /\ log[o][3].type = Stage(log[o]) /\ n \in Nat
             /\ Finished(c, n, log[o][3].type, log[o][3].body)
             /\ c.id = o /\ n + 2 \in 1..Len(log[Inventory])
  <2>1. Len(log[o]) = 3 /\ log[o][3].type = Stage(log[o])
    BY <1>4, StageOf
  <2>2. Finished(c, n, log[o][3].type, log[o][3].body) /\ c.id = o /\ c \in Commands
    BY <1>1, <2>1 DEF Ordered
  <2>3. PreparedBy(c)
    BY <1>1, <1>4, <2>1, <2>2 DEF Ordered, PreparedBy, Claimed
  <2>4. n \in Nat
    BY <2>2, <2>3, PreparedAt
  <2> QED
    BY <1>1, <2>1, <2>2, <2>4 DEF Finished
<1>5. ASSUME log[o] # <<>>, Stage(log[o]) = "completed"
      PROVE  InventoryOf(o) = {log[o][3].body.number + 1}
  <2>1. /\ log[o][3].body.number = n + 1 /\ log[Inventory][n + 2] = InventoryEvent(c)
        /\ n + 2 \in 1..Len(log[Inventory]) /\ c.id = o /\ n \in Nat
    BY <1>4, <1>5 DEF Finished
  <2>2. n + 2 \in InventoryOf(o)
    BY <2>1 DEF InventoryOf, InventoryEvent, Event
  <2>3. log[o][3].body.number + 1 = n + 2
    BY <2>1
  <2> QED
    BY <1>3, <2>2, <2>3
<1>6. ASSUME log[o] # <<>>, Stage(log[o]) = "conflicted"
      PROVE  InventoryOf(o) = {}
  <2> SUFFICES ASSUME NEW i \in InventoryOf(o) PROVE FALSE
    OBVIOUS
  <2>1. log[Inventory][n + 2] # InventoryEvent(c) /\ n \in Nat
    BY <1>4, <1>6 DEF Finished
  <2>2. n = i - 2 /\ i \in Nat /\ log[Inventory][i] = InventoryEvent(c)
    BY <1>2
  <2> QED
    BY <2>1, <2>2
<1>7. ASSUME log[o] # <<>>, Stage(log[o]) = "rejected"
      PROVE  InventoryOf(o) = {}
  <2>1. Len(log[o]) = 2 /\ log[o][2].type = "rejected"
    BY <1>7, StageOf
  <2> QED
    BY <1>2, <2>1
<1> QED
  BY <1>3, <1>5, <1>6, <1>7

-----------------------------------------------------------------------------
(* Deliveries: what a worker knows is in the streams, and what it sends is     *)
(* true there.                                                                 *)

IsDelivery(l) ==
    l = [pc |-> l.pc, job |-> l.job, attempt |-> l.attempt, known |-> l.known,
         sending |-> l.sending, failed |-> l.failed, answer |-> l.answer]

OnOperation(l) == l.pc \in {"append_operation_event", "read_back"}
OnInventory(l) == l.pc \in {"append_inventory", "read_occupant"}

UnderWay(l) ==
    /\ IsDelivery(l)
    /\ l.pc \in {"idle", "claim_operation", "decide_requested", "finish_prepared",
                 "append_operation_event", "append_inventory", "read_back",
                 "read_occupant"}
    /\ l.attempt \in 1..MaxAttempts
    /\ l.answer # Invalid.answer
    /\ l.pc # "idle" =>
           l.job \in Commands /\ l.answer = NoOutcome /\ log[Inventory] # <<>>

KnowsLog(l) ==
    /\ l.pc = "decide_requested" => Claimed(l.job) /\ l.known[1] = log[l.job.id][1]
    /\ l.pc = "finish_prepared" \/ OnInventory(l) =>
           /\ PreparedBy(l.job)
           /\ l.known[1] = log[l.job.id][1] /\ l.known[2] = log[l.job.id][2]

SendsProper(l) ==
    /\ OnOperation(l) \/ OnInventory(l) => Proper(l.sending)
    /\ OnOperation(l) =>
           /\ l.sending.stream = l.job.id
           /\ l.sending.expected \in {NoStream, 0, 1}
           /\ l.sending.expected # NoStream => Claimed(l.job)
    /\ l.pc = "read_back" /\ ~l.failed =>
           Len(log[l.job.id]) >= l.sending.expected + 2
    /\ OnInventory(l) =>
           /\ l.sending.stream = Inventory /\ l.sending.expected = l.known[2].body
           /\ l.sending.event = InventoryEvent(l.job)

Delivery(l) == UnderWay(l) /\ KnowsLog(l) /\ SendsProper(l)

\* An outcome that was returned for an operation is the one its stream holds.
IsOutcomeOf(o, outcome) ==
    /\ o \in OpIds /\ log[o] # <<>>
    /\ Stage(log[o]) \in Decided
    /\ outcome = log[o][Len(log[o])].body

Inv ==
    /\ LogInv
    /\ \A a \in late : Proper(a)
    /\ DOMAIN worker = Workers
    /\ \A w \in Workers : Delivery(worker[w])
    /\ \A a \in answered : IsOutcomeOf(a.id, a.outcome)
    /\ creation.step = "created" => log[Inventory] # <<>>
    /\ creation.step \in {"append", "read", "created", "failed"}
    /\ creation.attempt \in 1..MaxAttempts
    /\ creation = [step |-> creation.step, attempt |-> creation.attempt]

LEMMA InventoryGrows ==
    ASSUME LogType, LogType', Grows, log[Inventory] # <<>>
    PROVE  log'[Inventory] # <<>>
<1>1. /\ Len(log[Inventory]) \in Nat /\ Len(log[Inventory]) # 0
      /\ Len(log[Inventory]) <= Len(log'[Inventory])
  BY StreamsOf, LengthOf DEF Grows
<1>2. Len(log'[Inventory]) # 0
  BY <1>1, StreamsOf, SequenceLen DEF LogType
<1> QED
  BY <1>2, StreamsOf, SequenceLen DEF LogType

LEMMA NothingGrows ==
    ASSUME LogInv, UNCHANGED log
    PROVE  LogInv' /\ Grows
<1>1. LogInv'
  BY DEF LogInv, LogType, Ordered, Decision, Fresh, Finished, InventoryOrdered,
     InventorySound, PreparedBy, Claimed, Revision
<1>2. \A s \in Streams : Len(log[s]) \in Nat
  BY LengthOf DEF LogInv
<1> QED
  BY <1>1, <1>2 DEF Grows

\* What a delivery knows and sends is not undone by what others write.
LEMMA DeliveryStays ==
    ASSUME LogInv, LogInv', Grows, NEW l, Delivery(l)
    PROVE  Delivery(l)'
<1>1. LogType /\ LogType'
  BY DEF LogInv
<1>2. UnderWay(l)'
  BY <1>1, InventoryGrows DEF Delivery, UnderWay
<1>3. KnowsLog(l)'
  <2>1. CASE l.pc = "decide_requested"
    <3>1. l.job \in Commands /\ Claimed(l.job) /\ l.known[1] = log[l.job.id][1]
      BY <2>1 DEF Delivery, UnderWay, KnowsLog
    <3>2. Claimed(l.job)' /\ log'[l.job.id][1] = log[l.job.id][1]
      BY <1>1, <3>1, ClaimsStay
    <3> QED
      BY <2>1, <3>1, <3>2 DEF KnowsLog, OnInventory
  <2>2. CASE l.pc = "finish_prepared" \/ OnInventory(l)
    <3>1. /\ l.job \in Commands /\ PreparedBy(l.job)
          /\ l.known[1] = log[l.job.id][1] /\ l.known[2] = log[l.job.id][2]
      BY <2>2 DEF Delivery, UnderWay, KnowsLog, OnInventory
    <3>2. /\ PreparedBy(l.job)' /\ log'[l.job.id][1] = log[l.job.id][1]
          /\ log'[l.job.id][2] = log[l.job.id][2]
      BY <1>1, <3>1, ClaimsStay DEF PreparedBy
    <3> QED
      BY <2>2, <3>1, <3>2 DEF KnowsLog, OnInventory
  <2> QED
    BY <2>1, <2>2 DEF KnowsLog
<1>4. SendsProper(l)'
  <2>1. ASSUME OnOperation(l) \/ OnInventory(l) PROVE Proper(l.sending)'
    <3>1. Proper(l.sending)
      BY <2>1 DEF Delivery, SendsProper
    <3> PICK a : a = l.sending
      OBVIOUS
    <3> QED
      BY <1>1, <3>1, ProperStays
  <2>2. ASSUME OnOperation(l), l.sending.expected # NoStream PROVE Claimed(l.job)'
    <3>1. l.job \in Commands /\ Claimed(l.job)
      BY <2>2 DEF Delivery, UnderWay, SendsProper, OnOperation
    <3> QED
      BY <1>1, <3>1, ClaimsStay
  <2>3. ASSUME l.pc = "read_back", ~l.failed
        PROVE  Len(log'[l.job.id]) >= l.sending.expected + 2
    <3>1. /\ l.job.id \in Streams /\ l.sending.expected \in {-1, 0, 1}
          /\ Len(log[l.job.id]) >= l.sending.expected + 2
      BY <2>3, StreamsOf DEF Delivery, UnderWay, SendsProper, OnOperation, NoStream
    <3>2. /\ Len(log[l.job.id]) \in Nat /\ Len(log'[l.job.id]) \in Nat
          /\ Len(log[l.job.id]) <= Len(log'[l.job.id])
      BY <1>1, <3>1, LengthOf, SequenceLen DEF Grows, LogType
    <3>3. \A m, n \in Nat, k \in {-1, 0, 1} : m <= n /\ m >= k + 2 => n >= k + 2
      OBVIOUS
    <3> QED
      BY <3>1, <3>2, <3>3
  <2> QED
    BY <2>1, <2>2, <2>3 DEF Delivery, SendsProper
<1> QED
  BY <1>2, <1>3, <1>4 DEF Delivery

\* An outcome that was returned stays that of its operation.
LEMMA OutcomeStays ==
    ASSUME LogInv, LogInv', Grows, NEW o, NEW outcome, IsOutcomeOf(o, outcome)
    PROVE  IsOutcomeOf(o, outcome)'
BY DecidedStays DEF IsOutcomeOf

-----------------------------------------------------------------------------
(* What a worker does next. *)

Record(pc, job, attempt, known, sending, failed, answer) ==
    [pc |-> pc, job |-> job, attempt |-> attempt, known |-> known,
     sending |-> sending, failed |-> failed, answer |-> answer]

LEMMA IdleRecord ==
    Idle = Record("idle", NoCommand, 1, <<>>, NoAppend, FALSE, NoOutcome)
BY DEF Idle, Record

LEMMA BeginRecord ==
    ASSUME NEW c, NEW n
    PROVE  Begin(c, n) = Record("claim_operation", c, n, <<>>, NoAppend, FALSE, NoOutcome)
<1> PICK no, none, nothing, answer, one, nobody, at, begun :
       /\ no = FALSE /\ none = <<>> /\ nothing = NoAppend /\ answer = NoOutcome
       /\ one = 1 /\ nobody = NoCommand /\ at = "idle" /\ begun = "claim_operation"
  OBVIOUS
<1>1. Idle = [pc |-> at, job |-> nobody, attempt |-> one, known |-> none,
              sending |-> nothing, failed |-> no, answer |-> answer]
  BY DEF Idle
<1>2. Begin(c, n) = [pc |-> begun, job |-> c, attempt |-> n, known |-> none,
                     sending |-> nothing, failed |-> no, answer |-> answer]
  <2>1. Begin(c, n) = [Idle EXCEPT !.pc = begun, !.job = c, !.attempt = n]
    BY DEF Begin
  <2> QED
    BY <1>1, <2>1
<1> QED
  BY <1>2 DEF Record

LEMMA ReturnRecord ==
    ASSUME NEW what
    PROVE  Return(what) = Record("idle", NoCommand, 1, <<>>, NoAppend, FALSE, what)
<1> PICK no, none, nothing, answer :
       no = FALSE /\ none = <<>> /\ nothing = NoAppend /\ answer = NoOutcome
  OBVIOUS
<1>1. Idle = [pc |-> "idle", job |-> NoCommand, attempt |-> 1, known |-> none,
              sending |-> nothing, failed |-> no, answer |-> answer]
  BY DEF Idle
<1>2. Return(what) = [pc |-> "idle", job |-> NoCommand, attempt |-> 1, known |-> none,
                      sending |-> nothing, failed |-> no, answer |-> what]
  BY <1>1 DEF Return
<1> QED
  BY <1>2 DEF Record

LEMMA SendRecord ==
    ASSUME NEW l, IsDelivery(l), NEW n, NEW event
    PROVE  SendOperationEvent(l, n, event) =
               Record("append_operation_event", l.job, l.attempt, l.known,
                      [stream |-> l.job.id, expected |-> n, event |-> event],
                      l.failed, l.answer)
<1> PICK job, attempt, known, sending, failed, answer, pc :
       l = [pc |-> pc, job |-> job, attempt |-> attempt, known |-> known,
            sending |-> sending, failed |-> failed, answer |-> answer]
  BY DEF IsDelivery
<1> PICK a : a = [stream |-> job.id, expected |-> n, event |-> event]
  OBVIOUS
<1>1. SendOperationEvent(l, n, event) =
         [l EXCEPT !.pc = "append_operation_event", !.sending = a]
  BY DEF SendOperationEvent
<1>2. SendOperationEvent(l, n, event) =
         [pc |-> "append_operation_event", job |-> job, attempt |-> attempt,
          known |-> known, sending |-> a, failed |-> failed, answer |-> answer]
  BY <1>1
<1> QED
  BY <1>2 DEF Record

\* Outcomes that are none of an operation.
LEMMA NotDecided ==
    /\ NoOutcome.type \notin Decided /\ NoOutcome # Invalid.answer
    /\ Invalid.answer = Outcome("InvalidOperationStream", 0, NoCommand)
    /\ \A what : what.type \in Decided => what # Invalid.answer
    /\ \A type, number, detail : Outcome(type, number, detail).type = type
    /\ Outcome("ClientError", 0, NoCommand) # Invalid.answer
    /\ Outcome("OperationIdConflict", 0, NoCommand) # Invalid.answer
<1>1. Invalid.answer = Outcome("InvalidOperationStream", 0, NoCommand)
  BY ReturnRecord DEF Invalid, Record
<1>2. Invalid.answer.type = "InvalidOperationStream"
  BY <1>1 DEF Outcome
<1> QED
  BY <1>1, <1>2 DEF NoOutcome, Outcome, Decided

\* A delivery that is not under way, whatever it has returned.
LEMMA ReturnIsDelivery ==
    ASSUME NEW what, what # Invalid.answer
    PROVE  Delivery(Return(what)) /\ Return(what).answer = what
BY ReturnRecord, ReservationAssumption
DEF Record, Delivery, UnderWay, IsDelivery, KnowsLog, SendsProper, OnOperation, OnInventory

LEMMA IdleIsDelivery == Delivery(Idle) /\ Idle.answer = NoOutcome
BY IdleRecord, NotDecided, ReservationAssumption
DEF Record, Delivery, UnderWay, IsDelivery, KnowsLog, SendsProper, OnOperation, OnInventory

LEMMA BeginIsDelivery ==
    ASSUME NEW c \in Commands, NEW n \in 1..MaxAttempts, log[Inventory] # <<>>
    PROVE  Delivery(Begin(c, n)) /\ Begin(c, n).answer = NoOutcome
BY BeginRecord, NotDecided
DEF Record, Delivery, UnderWay, IsDelivery, KnowsLog, SendsProper, OnOperation, OnInventory

\* A call that fails is tried again or given up.
LEMMA RetryIsDelivery ==
    ASSUME NEW l, Delivery(l), l.pc # "idle"
    PROVE  Delivery(Retry(l)) /\ Retry(l).answer.type \notin Decided
<1>1. CASE l.attempt < MaxAttempts
  <2>1. l.attempt + 1 \in 1..MaxAttempts /\ l.job \in Commands /\ log[Inventory] # <<>>
    BY <1>1, ReservationAssumption DEF Delivery, UnderWay
  <2>2. Retry(l) = Begin(l.job, l.attempt + 1)
    BY <1>1 DEF Retry
  <2> QED
    BY <2>1, <2>2, BeginIsDelivery, NotDecided
<1>2. CASE ~(l.attempt < MaxAttempts)
  <2>1. Retry(l) = Return(Outcome("ClientError", 0, NoCommand))
    BY <1>2 DEF Retry
  <2>2. Outcome("ClientError", 0, NoCommand).type \notin Decided
    BY DEF Outcome, Decided
  <2> QED
    BY <2>1, <2>2, ReturnIsDelivery, NotDecided
<1> QED
  BY <1>1, <1>2

\* An append to the stream of the operation that is true there.
LEMMA SendIsDelivery ==
    ASSUME NEW l, Delivery(l), l.pc # "idle", NEW n \in {NoStream, 0, 1}, NEW event,
           ProperFor(l.job, [stream |-> l.job.id, expected |-> n, event |-> event]),
           n # NoStream => Claimed(l.job)
    PROVE  /\ Delivery(SendOperationEvent(l, n, event))
           /\ SendOperationEvent(l, n, event).answer = NoOutcome
<1> PICK a : a = [stream |-> l.job.id, expected |-> n, event |-> event]
  OBVIOUS
<1>1. l.job \in Commands /\ l.answer = NoOutcome /\ IsDelivery(l)
      /\ log[Inventory] # <<>> /\ l.attempt \in 1..MaxAttempts
  BY DEF Delivery, UnderWay
<1> PICK m : m = SendOperationEvent(l, n, event)
  OBVIOUS
<1>2. m = Record("append_operation_event", l.job, l.attempt, l.known, a, l.failed, NoOutcome)
  BY <1>1, SendRecord
<1>3. Proper(a)
  BY <1>1 DEF Proper
<1>4. UnderWay(m)
  BY <1>1, <1>2, NotDecided DEF UnderWay, Record, IsDelivery
<1>5. KnowsLog(m)
  BY <1>2 DEF KnowsLog, OnInventory, Record
<1>6. SendsProper(m)
  <2>1. m.sending = a /\ m.job = l.job /\ m.pc = "append_operation_event"
    BY <1>2 DEF Record
  <2>2. a.stream = l.job.id /\ a.expected = n
    OBVIOUS
  <2> QED
    BY <1>3, <2>1, <2>2 DEF SendsProper, OnOperation, OnInventory
<1> QED
  BY <1>2, <1>4, <1>5, <1>6 DEF Delivery, Record

\* A stream of an operation is one that read_operation accepts.
LEMMA OrderedIsConsistent ==
    ASSUME LogInv, NEW o \in OpIds
    PROVE  Consistent(o, log[o])
<1>1. Ordered(o) /\ o \in Streams
  BY StreamsOf DEF LogInv
<1>2. Len(log[o]) \in Nat /\ (log[o] = <<>> <=> Len(log[o]) = 0)
  BY <1>1, LengthOf DEF LogInv
<1>3. Len(log[o]) = 3 => log[o][3].type \in {"completed", "conflicted"}
  BY <1>1 DEF Ordered, Finished
<1>4. Len(log[o]) >= 2 => /\ log[o][2].type \in {"prepared", "rejected"}
                          /\ log[o][2].id = log[o][1].body.decision
  BY <1>1 DEF Ordered, Decision
<1> QED
  BY <1>1, <1>2, <1>3, <1>4 DEF Ordered, Consistent

\* The loop of execute_operation goes on with what it read.
LEMMA ContinueIsDelivery ==
    ASSUME LogInv, NEW l, Delivery(l), l.pc # "idle", Claimed(l.job)
    PROVE  /\ Delivery(Continue(l, log[l.job.id]))
           /\ Continue(l, log[l.job.id]).answer.type \in Decided =>
                 IsOutcomeOf(l.job.id, Continue(l, log[l.job.id]).answer)
<1> PICK o, s : o = l.job.id /\ s = log[o]
  OBVIOUS
<1>1. /\ l.job \in Commands /\ o \in OpIds /\ log[Inventory] # <<>> /\ s # <<>>
      /\ l.answer = NoOutcome /\ IsDelivery(l) /\ l.attempt \in 1..MaxAttempts
  BY StreamsOf DEF Delivery, UnderWay, Claimed
<1>2. CASE Stage(s) \in Decided
  <2>1. Continue(l, s) = Return(s[Len(s)].body)
    BY <1>2 DEF Continue
  <2>2. s[Len(s)].body.type = Stage(s)
    BY <1>1, <1>2, StageOf
  <2>3. s[Len(s)].body # Invalid.answer
    BY <1>2, <2>2, NotDecided
  <2>4. Delivery(Continue(l, s)) /\ Continue(l, s).answer = s[Len(s)].body
    BY <2>1, <2>3, ReturnIsDelivery
  <2> QED
    BY <1>1, <1>2, <2>4 DEF IsOutcomeOf
<1>3. CASE Stage(s) \notin Decided
  <2> PICK at : at = IF Stage(s) = "requested" THEN "decide_requested" ELSE "finish_prepared"
    OBVIOUS
  <2> PICK job, attempt, known, sending, failed, answer, pc, nothing :
         /\ nothing = NoAppend
         /\ l = [pc |-> pc, job |-> job, attempt |-> attempt, known |-> known,
                 sending |-> sending, failed |-> failed, answer |-> answer]
    BY <1>1 DEF IsDelivery
  <2> PICK m : m = Continue(l, s)
    OBVIOUS
  <2>1. m = [l EXCEPT !.known = s, !.sending = nothing, !.pc = at]
    BY <1>3 DEF Continue
  <2>2. m = [pc |-> at, job |-> job, attempt |-> attempt, known |-> s,
             sending |-> nothing, failed |-> failed, answer |-> answer]
    BY <2>1
  <2>3. m.pc = at /\ m.job = l.job /\ m.known = s /\ m.answer = NoOutcome
        /\ m.attempt = l.attempt /\ IsDelivery(m)
    BY <1>1, <2>2 DEF IsDelivery
  <2>4. UnderWay(m)
    BY <1>1, <2>3, NotDecided DEF UnderWay
  <2>5. KnowsLog(m)
    <3>1. CASE Stage(s) = "requested"
      BY <1>1, <2>3, <3>1 DEF KnowsLog, OnInventory
    <3>2. CASE Stage(s) # "requested"
      <4>1. Len(s) = 2 /\ Stage(s) = "prepared" /\ Stage(s) = s[2].type
        BY <1>1, <1>3, <3>2, StageOf DEF Decided
      <4>2. PreparedBy(l.job)
        BY <1>1, <4>1 DEF PreparedBy
      <4> QED
        BY <2>3, <3>2, <4>2 DEF KnowsLog, OnInventory
    <3> QED
      BY <3>1, <3>2
  <2>6. SendsProper(m)
    BY <2>3 DEF SendsProper, OnOperation, OnInventory
  <2> QED
    BY <2>3, <2>4, <2>5, <2>6, NotDecided DEF Delivery
<1> QED
  BY <1>2, <1>3

\* The stream that was read stands for the command, or for another one.
LEMMA ValidateIsDelivery ==
    ASSUME LogInv, NEW l, Delivery(l), l.pc # "idle", log[l.job.id] # <<>>
    PROVE  /\ Delivery(Validate(l, log[l.job.id]))
           /\ Validate(l, log[l.job.id]).answer.type \in Decided =>
                 IsOutcomeOf(l.job.id, Validate(l, log[l.job.id]).answer)
<1>1. CASE Requested(log[l.job.id]).command = l.job
  <2>1. Claimed(l.job)
    BY <1>1 DEF Claimed, Requested
  <2>2. Validate(l, log[l.job.id]) = Continue(l, log[l.job.id])
    BY <1>1 DEF Validate
  <2> QED
    BY <2>1, <2>2, ContinueIsDelivery
<1>2. CASE Requested(log[l.job.id]).command # l.job
  <2>1. Validate(l, log[l.job.id]) = Return(Outcome("OperationIdConflict", 0, NoCommand))
    BY <1>2 DEF Validate
  <2>2. Outcome("OperationIdConflict", 0, NoCommand).type \notin Decided
    BY DEF Outcome, Decided
  <2> QED
    BY <2>1, <2>2, ReturnIsDelivery, NotDecided
<1> QED
  BY <1>1, <1>2

\* The outcome of a prepared operation is true of the inventory.
LEMMA RecordIsDelivery ==
    ASSUME NEW l, Delivery(l), OnInventory(l), NEW what,
           Finished(l.job, l.sending.expected, what.type, what)
    PROVE  Delivery(RecordOutcome(l, what)) /\ RecordOutcome(l, what).answer = NoOutcome
<1>1. /\ l.pc # "idle" /\ PreparedBy(l.job) /\ Claimed(l.job)
      /\ l.known[1] = log[l.job.id][1] /\ l.known[2] = log[l.job.id][2]
      /\ l.sending.expected = l.known[2].body
  BY DEF Delivery, KnowsLog, SendsProper, OnInventory, PreparedBy
<1> PICK event : event = Event(what.type, Requested(l.known).terminal, what)
  OBVIOUS
<1>2. event.type = what.type /\ event.body = what /\ event.id = log[l.job.id][1].body.terminal
  BY <1>1 DEF Event, Requested
<1>3. RecordOutcome(l, what) = SendOperationEvent(l, 1, event)
  BY DEF RecordOutcome, RevisionOfDecision
<1> PICK a : a = [stream |-> l.job.id, expected |-> 1, event |-> event]
  OBVIOUS
<1>4. ProperFor(l.job, a)
  <2>1. a.stream = l.job.id /\ a.expected = 1 /\ a.event = event
    OBVIOUS
  <2>2. Finished(l.job, log[l.job.id][2].body, event.type, event.body)
    BY <1>1, <1>2
  <2> QED
    BY <1>1, <1>2, <2>1, <2>2 DEF ProperFor
<1> QED
  BY <1>1, <1>3, <1>4, SendIsDelivery

\* The sender does not learn whether its append was carried out.
LEMMA UnsureIsDelivery ==
    ASSUME NEW l, Delivery(l), Appending(l)
    PROVE  Delivery(Learn(l, TRUE)) /\ Learn(l, TRUE).answer = NoOutcome
<1>1. /\ l.job \in Commands /\ log[Inventory] # <<>>
      /\ l.answer = NoOutcome /\ IsDelivery(l) /\ l.attempt \in 1..MaxAttempts
  BY DEF Delivery, UnderWay, Appending
<1>2. PICK job, attempt, known, sending, failed, answer, pc :
         l = [pc |-> pc, job |-> job, attempt |-> attempt, known |-> known,
              sending |-> sending, failed |-> failed, answer |-> answer]
  BY <1>1 DEF IsDelivery
<1>3. PICK m, yes : m = Learn(l, yes) /\ yes = TRUE
  OBVIOUS
<1>4. CASE l.pc = "append_operation_event"
  <2>1. m = [l EXCEPT !.pc = "read_back", !.failed = yes]
    BY <1>3, <1>4 DEF Learn
  <2>2. m = [pc |-> "read_back", job |-> job, attempt |-> attempt, known |-> known,
             sending |-> sending, failed |-> yes, answer |-> answer]
    BY <1>2, <2>1
  <2>3. m.pc = "read_back" /\ m.job = l.job /\ m.sending = l.sending /\ m.answer = NoOutcome
        /\ m.attempt = l.attempt /\ m.failed = TRUE /\ IsDelivery(m)
    <3>1. m.pc = "read_back" /\ m.job = l.job /\ m.sending = l.sending /\ m.answer = NoOutcome
          /\ m.attempt = l.attempt /\ m.failed = yes
      BY <1>1, <1>2, <2>2
    <3>2. IsDelivery(m)
      BY <2>2 DEF IsDelivery
    <3> QED
      BY <1>3, <3>1, <3>2
  <2>4. UnderWay(m)
    BY <1>1, <2>3, NotDecided DEF UnderWay
  <2>5. KnowsLog(m) /\ SendsProper(m)
    BY <1>4, <2>3 DEF Delivery, KnowsLog, SendsProper, OnOperation, OnInventory
  <2> QED
    BY <1>3, <2>3, <2>4, <2>5 DEF Delivery
<1>5. CASE l.pc = "append_inventory"
  <2>1. m = [l EXCEPT !.pc = "read_occupant"]
    BY <1>3, <1>5 DEF Learn, Await
  <2>2. m = [pc |-> "read_occupant", job |-> job, attempt |-> attempt, known |-> known,
             sending |-> sending, failed |-> failed, answer |-> answer]
    BY <1>2, <2>1
  <2>3. m.pc = "read_occupant" /\ m.job = l.job /\ m.sending = l.sending /\ m.answer = NoOutcome
        /\ m.known = l.known /\ m.attempt = l.attempt /\ IsDelivery(m)
    <3>1. m.pc = "read_occupant" /\ m.job = l.job /\ m.sending = l.sending
          /\ m.answer = NoOutcome /\ m.known = l.known /\ m.attempt = l.attempt
      BY <1>1, <1>2, <2>2
    <3>2. IsDelivery(m)
      BY <2>2 DEF IsDelivery
    <3> QED
      BY <1>3, <3>1, <3>2
  <2>4. UnderWay(m)
    BY <1>1, <2>3, NotDecided DEF UnderWay
  <2>5. KnowsLog(m) /\ SendsProper(m)
    BY <1>5, <2>3 DEF Delivery, KnowsLog, SendsProper, OnOperation, OnInventory
  <2> QED
    BY <1>3, <2>3, <2>4, <2>5 DEF Delivery
<1> QED
  BY <1>4, <1>5 DEF Appending

\* The event of an append is at its place in its stream.
IsStored(a) ==
    /\ Len(log[a.stream]) >= a.expected + 2
    /\ a.stream = Inventory => log[Inventory][a.expected + 2] = a.event

StoredGoesOn ==
    \A l : LogInv /\ Delivery(l) /\ Appending(l) /\ IsStored(l.sending) =>
        Delivery(Learn(l, FALSE)) /\ Learn(l, FALSE).answer = NoOutcome

\* The sender learns that its event is stored, and goes on from there.
LEMMA StoredIsDelivery == StoredGoesOn
<1> SUFFICES ASSUME LogInv, NEW l, Delivery(l), Appending(l), IsStored(l.sending)
             PROVE  Delivery(Learn(l, FALSE)) /\ Learn(l, FALSE).answer = NoOutcome
  BY DEF StoredGoesOn
<1>1. /\ l.job \in Commands /\ log[Inventory] # <<>>
      /\ l.answer = NoOutcome /\ IsDelivery(l) /\ l.attempt \in 1..MaxAttempts
  BY DEF Delivery, UnderWay, Appending
<1>2. PICK job, attempt, known, sending, failed, answer, pc :
         l = [pc |-> pc, job |-> job, attempt |-> attempt, known |-> known,
              sending |-> sending, failed |-> failed, answer |-> answer]
  BY <1>1 DEF IsDelivery
<1>3. PICK m, no : m = Learn(l, no) /\ no = FALSE
  OBVIOUS
<1>4. CASE l.pc = "append_operation_event"
  <2>1. m = [l EXCEPT !.pc = "read_back", !.failed = no]
    BY <1>3, <1>4 DEF Learn
  <2>2. m = [pc |-> "read_back", job |-> job, attempt |-> attempt, known |-> known,
             sending |-> sending, failed |-> no, answer |-> answer]
    BY <1>2, <2>1
  <2>3. m.pc = "read_back" /\ m.job = l.job /\ m.sending = l.sending /\ m.answer = NoOutcome
        /\ m.attempt = l.attempt /\ IsDelivery(m)
    <3>1. m.pc = "read_back" /\ m.job = l.job /\ m.sending = l.sending /\ m.answer = NoOutcome
          /\ m.attempt = l.attempt
      BY <1>1, <1>2, <2>2
    <3>2. IsDelivery(m)
      BY <2>2 DEF IsDelivery
    <3> QED
      BY <3>1, <3>2
  <2>4. UnderWay(m)
    BY <1>1, <2>3, NotDecided DEF UnderWay
  <2>5. Len(log[l.job.id]) >= l.sending.expected + 2
    BY <1>4 DEF IsStored, Delivery, SendsProper, OnOperation
  <2>6. KnowsLog(m) /\ SendsProper(m)
    BY <1>4, <2>3, <2>5 DEF Delivery, KnowsLog, SendsProper, OnOperation, OnInventory
  <2> QED
    BY <1>3, <2>3, <2>4, <2>6 DEF Delivery
<1>5. CASE l.pc = "append_inventory"
  <2>1. /\ l.sending.stream = Inventory /\ l.sending.event = InventoryEvent(l.job)
        /\ PreparedBy(l.job) /\ OnInventory(l)
    BY <1>5 DEF Delivery, KnowsLog, SendsProper, OnInventory
  <2> PICK n : n = l.sending.expected
    OBVIOUS
  <2> PICK what : what = Outcome("completed", n + 1, NoCommand)
    OBVIOUS
  <2>2. Finished(l.job, n, what.type, what)
    <3>1. what.type = "completed" /\ what.number = n + 1
      BY DEF Outcome
    <3>2. /\ Len(log[Inventory]) >= n + 2
          /\ log[Inventory][n + 2] = InventoryEvent(l.job)
      BY <2>1 DEF IsStored
    <3>3. n + 1 <= Revision(Inventory)
      <4>1. Len(log[Inventory]) \in Nat /\ Revision(Inventory) = Len(log[Inventory]) - 1
        BY StreamsOf, LengthOf DEF LogInv
      <4>2. n \in Int
        BY <1>1, <1>5, <2>1, PreparedAt DEF Delivery, KnowsLog, SendsProper, OnInventory
      <4> QED
        BY <3>2, <4>1, <4>2
    <3> QED
      BY <3>1, <3>2, <3>3 DEF Finished
  <2>3. Learn(l, FALSE) = RecordOutcome(l, what)
    BY <1>5 DEF Learn
  <2> QED
    BY <2>1, <2>2, <2>3, RecordIsDelivery
<1> QED
  BY <1>4, <1>5 DEF Appending

-----------------------------------------------------------------------------
(* Steps. *)

\* A worker goes on with l; every other one is where it was.
LEMMA BecomeStep ==
    ASSUME Inv, LogInv', Grows, NEW w \in Workers, NEW l, Become(w, l), Delivery(l)',
           NEW o, o = worker[w].job.id,
           l.answer.type \in Decided => IsOutcomeOf(o, l.answer)'
    PROVE  /\ DOMAIN worker' = Workers
           /\ \A v \in Workers : Delivery(worker[v])'
           /\ \A a \in answered' : IsOutcomeOf(a.id, a.outcome)'
<1>1. worker' = [worker EXCEPT ![w] = l] /\ DOMAIN worker = Workers /\ LogInv
  BY DEF Become, Inv
<1>2. ASSUME NEW v \in Workers PROVE Delivery(worker[v])'
  <2>1. CASE v = w
    <3>1. worker'[v] = l
      BY <1>1, <2>1
    <3> QED
      BY <3>1
  <2>2. CASE v # w
    <3>1. worker'[v] = worker[v]
      BY <1>1, <2>2
    <3> PICK m : m = worker[v]
      OBVIOUS
    <3>2. Delivery(m)
      BY DEF Inv
    <3>3. Delivery(m)'
      BY <1>1, <3>2, DeliveryStays
    <3> QED
      BY <3>1, <3>3
  <2> QED
    BY <2>1, <2>2
<1>3. ASSUME NEW a \in answered' PROVE IsOutcomeOf(a.id, a.outcome)'
  <2>1. CASE a \in answered
    <3>1. IsOutcomeOf(a.id, a.outcome)
      BY <2>1 DEF Inv
    <3> QED
      BY <1>1, <3>1, OutcomeStays
  <2>2. CASE a \notin answered
    <3>1. l.answer.type \in Decided /\ a = [id |-> worker[w].job.id, outcome |-> l.answer]
      BY <2>2 DEF Become
    <3>2. IsOutcomeOf(o, l.answer)' /\ a.id = o /\ a.outcome = l.answer
      BY <3>1
    <3> QED
      BY <3>2
  <2> QED
    BY <2>1, <2>2
<1> QED
  BY <1>1, <1>2, <1>3

\* A step of a worker that writes nothing.
LEMMA QuietStep ==
    ASSUME Inv, UNCHANGED <<log, creation>>, \A a \in late' : Proper(a),
           NEW w \in Workers, NEW l, Become(w, l), Delivery(l),
           l.answer.type \in Decided => IsOutcomeOf(worker[w].job.id, l.answer)
    PROVE  Inv'
<1>1. LogInv /\ LogInv' /\ Grows
  BY NothingGrows DEF Inv
<1>2. Delivery(l)'
  BY <1>1, DeliveryStays
<1> PICK o : o = worker[w].job.id
  OBVIOUS
<1>3. l.answer.type \in Decided => IsOutcomeOf(o, l.answer)'
  BY <1>1, OutcomeStays
<1>4. /\ DOMAIN worker' = Workers
      /\ \A v \in Workers : Delivery(worker[v])'
      /\ \A a \in answered' : IsOutcomeOf(a.id, a.outcome)'
  BY <1>1, <1>2, <1>3, BecomeStep, Zenon
<1>5. ASSUME NEW a \in late' PROVE Proper(a)'
  <2>1. Proper(a)
    OBVIOUS
  <2> QED
    BY <1>1, <2>1, ProperStays DEF LogInv
<1> QED
  BY <1>1, <1>4, <1>5 DEF Inv

\* Who goes on after a write: nobody, or a worker; the creation may be done.
WorkersGoOn ==
    \/ UNCHANGED <<worker, answered>>
    \/ \E w \in Workers : \E l : Become(w, l) /\ Delivery(l)' /\ l.answer.type \notin Decided
CreationGoesOn ==
    \/ UNCHANGED creation
    \/ log'[Inventory] # <<>> /\ IsCreated

LEMMA WriteStep ==
    ASSUME Inv, NEW a, Proper(a), Fits(a), Write(a), WorkersGoOn, CreationGoesOn
    PROVE  Inv'
<1>1. LogInv /\ LogInv' /\ Grows /\ late' \subseteq late
  BY WriteLog DEF Inv
<1>2. ASSUME NEW b \in late' PROVE Proper(b)'
  <2>1. Proper(b)
    BY <1>1 DEF Inv
  <2> QED
    BY <1>1, <2>1, ProperStays DEF LogInv
<1>3. /\ DOMAIN worker' = Workers
      /\ \A v \in Workers : Delivery(worker[v])'
      /\ \A b \in answered' : IsOutcomeOf(b.id, b.outcome)'
  <2>1. CASE UNCHANGED <<worker, answered>>
    <3>1. ASSUME NEW v \in Workers PROVE Delivery(worker[v])'
      <4> PICK m : m = worker[v]
        OBVIOUS
      <4>1. Delivery(m)
        BY DEF Inv
      <4>2. Delivery(m)'
        BY <1>1, <4>1, DeliveryStays
      <4>3. worker'[v] = m
        BY <2>1
      <4> QED
        BY <4>2, <4>3
    <3>2. ASSUME NEW b \in answered' PROVE IsOutcomeOf(b.id, b.outcome)'
      <4>1. IsOutcomeOf(b.id, b.outcome)
        BY <2>1 DEF Inv
      <4> QED
        BY <1>1, <4>1, OutcomeStays
    <3> QED
      BY <2>1, <3>1, <3>2 DEF Inv
  <2>2. CASE \E w \in Workers : \E l :
                Become(w, l) /\ Delivery(l)' /\ l.answer.type \notin Decided
    <3>1. PICK w \in Workers :
             \E l : Become(w, l) /\ Delivery(l)' /\ l.answer.type \notin Decided
      BY <2>2
    <3>2. PICK l : Become(w, l) /\ Delivery(l)' /\ l.answer.type \notin Decided
      BY <3>1
    <3> PICK o : o = worker[w].job.id
      OBVIOUS
    <3> QED
      BY <1>1, <3>2, BecomeStep
  <2> QED
    BY <2>1, <2>2 DEF WorkersGoOn
<1>4. creation'.step = "created" => log'[Inventory] # <<>>
  <2>1. CASE UNCHANGED creation
    BY <1>1, <2>1, InventoryGrows DEF Inv, LogInv
  <2>2. CASE log'[Inventory] # <<>>
    BY <2>2
  <2> QED
    BY <2>1, <2>2 DEF CreationGoesOn
<1>5. /\ creation'.step \in {"append", "read", "created", "failed"}
      /\ creation'.attempt \in 1..MaxAttempts
      /\ creation' = [step |-> creation'.step, attempt |-> creation'.attempt]
  BY ReservationAssumption DEF Inv, IsCreated, CreationGoesOn
<1> QED
  BY <1>1, <1>2, <1>3, <1>4, <1>5 DEF Inv

\* What a worker is known to be at before it goes on.
LEMMA WorkerIs ==
    ASSUME Inv, NEW w \in Workers
    PROVE  /\ Delivery(worker[w])
           /\ worker[w].pc # "idle" =>
                 /\ worker[w].job \in Commands /\ worker[w].job.id \in OpIds
                 /\ worker[w].answer = NoOutcome /\ log[Inventory] # <<>>
BY StreamsOf DEF Inv, Delivery, UnderWay

LEMMA DeliverStep ==
    ASSUME Inv, NEW w \in Workers, NEW c \in Commands, Deliver(w, c)
    PROVE  Inv'
<1>1. /\ Become(w, Begin(c, 1)) /\ UNCHANGED <<log, late, creation>>
      /\ log[Inventory] # <<>>
  BY DEF Deliver, Inv, serverVars
<1>2. Delivery(Begin(c, 1)) /\ Begin(c, 1).answer = NoOutcome
  BY <1>1, BeginIsDelivery, ReservationAssumption
<1>3. \A a \in late' : Proper(a)
  BY <1>1 DEF Inv
<1> QED
  BY <1>1, <1>2, <1>3, QuietStep, NotDecided

LEMMA ClaimStep ==
    ASSUME Inv, NEW w \in Workers, ClaimOperation(w)
    PROVE  Inv'
<1> PICK l : l = worker[w]
  OBVIOUS
<1>1. /\ Delivery(l) /\ l.pc = "claim_operation" /\ l.job \in Commands /\ l.job.id \in OpIds
      /\ LogInv /\ UNCHANGED <<log, late, creation>>
  BY WorkerIs DEF ClaimOperation, Inv, serverVars
<1>2. \A a \in late' : Proper(a)
  BY <1>1 DEF Inv
<1>3. CASE log[l.job.id] = <<>>
  <2> PICK request : request = [command |-> l.job, decision |-> uuids + 1, terminal |-> uuids + 2]
    OBVIOUS
  <2> PICK event : event = Event("requested", l.job.id, request)
    OBVIOUS
  <2> PICK m : m = SendOperationEvent(l, NoStream, event)
    OBVIOUS
  <2>1. Become(w, m)
    BY <1>3 DEF ClaimOperation
  <2>2. ProperFor(l.job, [stream |-> l.job.id, expected |-> NoStream, event |-> event])
    <3>1. event.type = "requested" /\ event.id = l.job.id /\ event.body.command = l.job
      BY DEF Event
    <3> QED
      BY <3>1 DEF ProperFor
  <2>3. Delivery(m) /\ m.answer = NoOutcome
    BY <1>1, <2>2, SendIsDelivery
  <2> QED
    BY <1>1, <1>2, <2>1, <2>3, QuietStep, NotDecided
<1>4. CASE log[l.job.id] # <<>>
  <2> PICK m : m = Validate(l, log[l.job.id])
    OBVIOUS
  <2>1. Become(w, m)
    BY <1>1, <1>4, OrderedIsConsistent DEF ClaimOperation
  <2>2. Delivery(m) /\ (m.answer.type \in Decided => IsOutcomeOf(l.job.id, m.answer))
    BY <1>1, <1>4, ValidateIsDelivery
  <2> QED
    BY <1>1, <1>2, <2>1, <2>2, QuietStep
<1> QED
  BY <1>3, <1>4

\* The view that a decision is made on is sound: nothing panics.
LEMMA DecideStep ==
    ASSUME Inv, NEW w \in Workers, DecideRequested(w)
    PROVE  Inv'
<1> PICK l : l = worker[w]
  OBVIOUS
<1>1. /\ Delivery(l) /\ l.pc = "decide_requested" /\ l.job \in Commands
      /\ log[Inventory] # <<>> /\ LogInv /\ UNCHANGED <<log, late, creation>>
  BY WorkerIs DEF DecideRequested, Inv, serverVars
<1>2. \A a \in late' : Proper(a)
  BY <1>1 DEF Inv
<1>3. Claimed(l.job) /\ l.known[1] = log[l.job.id][1]
  BY <1>1 DEF Delivery, KnowsLog
<1> PICK view : view = read_inventory(log[Inventory])
  OBVIOUS
<1>4. view.sound /\ view.sku = Sku /\ view.sku # NoSku
  BY <1>1, ReservationAssumption DEF LogInv, InventorySound
<1> PICK request : request = Requested(l.known)
  OBVIOUS
<1>5. request = log[l.job.id][1].body /\ request.command = l.job
  BY <1>3 DEF Requested, Claimed
<1> PICK why : why = reject_inventory_command(view, l.job)
  OBVIOUS
<1> PICK event :
       event = IF why # NoOutcome
               THEN Event("rejected", DecisionId(request), why)
               ELSE Event("prepared", DecisionId(request), Revision(Inventory))
  OBVIOUS
<1> PICK m : m = SendOperationEvent(l, 0, event)
  OBVIOUS
<1>6. Become(w, m)
  BY <1>4, <1>5 DEF DecideRequested
<1>7. Decision(l.job, request, event)
  <2>1. CASE why # NoOutcome
    <3>1. event.type = "rejected" /\ event.id = request.decision /\ event.body = why
      BY <2>1 DEF Event, DecisionId
    <3>2. why.type = "rejected"
      BY <2>1 DEF reject_inventory_command, Outcome
    <3> QED
      BY <3>1, <3>2 DEF Decision
  <2>2. CASE why = NoOutcome
    <3>1. /\ event.type = "prepared" /\ event.id = request.decision
          /\ event.body = Revision(Inventory)
      BY <2>2 DEF Event, DecisionId
    <3>2. Revision(Inventory) \in 0..Revision(Inventory)
      BY <1>1, StreamsOf, LengthOf DEF LogInv
    <3>3. Fresh(l.job, Revision(Inventory))
      BY <2>2, <3>2 DEF Fresh
    <3> QED
      BY <3>1, <3>3 DEF Decision
  <2> QED
    BY <2>1, <2>2
<1>8. ProperFor(l.job, [stream |-> l.job.id, expected |-> 0, event |-> event])
  BY <1>3, <1>5, <1>7 DEF ProperFor
<1>9. Delivery(m) /\ m.answer = NoOutcome
  BY <1>1, <1>3, <1>8, SendIsDelivery
<1> QED
  BY <1>1, <1>2, <1>6, <1>9, QuietStep, NotDecided

LEMMA FinishStep ==
    ASSUME Inv, NEW w \in Workers, FinishPrepared(w)
    PROVE  Inv'
<1>1. PICK l : l = worker[w]
  OBVIOUS
<1>2. /\ Delivery(l) /\ l.pc = "finish_prepared" /\ l.job \in Commands
      /\ log[Inventory] # <<>> /\ l.answer = NoOutcome
      /\ LogInv /\ UNCHANGED <<log, late, creation>>
  BY <1>1, WorkerIs DEF FinishPrepared, Inv, serverVars
<1>3. \A a \in late' : Proper(a)
  BY <1>2 DEF Inv
<1>4. /\ PreparedBy(l.job) /\ Claimed(l.job)
      /\ l.known[1] = log[l.job.id][1] /\ l.known[2] = log[l.job.id][2]
  BY <1>2 DEF Delivery, KnowsLog, PreparedBy
<1>5. PICK a : a = [stream |-> Inventory, expected |-> l.known[2].body,
                    event |-> InventoryEvent(l.job)]
  OBVIOUS
<1>6. Requested(l.known).command = l.job /\ ExpectedRevision(l.known) = l.known[2].body
  BY <1>4 DEF Requested, ExpectedRevision, Prepared, Claimed
<1>7. PICK m : m = [l EXCEPT !.pc = "append_inventory", !.sending = a]
  OBVIOUS
<1>8. Become(w, m)
  BY <1>1, <1>5, <1>6, <1>7 DEF FinishPrepared
<1>9. PICK job, attempt, known, sending, failed, answer, pc :
         l = [pc |-> pc, job |-> job, attempt |-> attempt, known |-> known,
              sending |-> sending, failed |-> failed, answer |-> answer]
  BY <1>2 DEF Delivery, UnderWay, IsDelivery
<1>10. m = [pc |-> "append_inventory", job |-> job, attempt |-> attempt, known |-> known,
            sending |-> a, failed |-> failed, answer |-> answer]
  BY <1>7, <1>9
<1>11. /\ m.pc = "append_inventory" /\ m.job = l.job /\ m.attempt = l.attempt
       /\ m.known = l.known /\ m.sending = a /\ m.answer = NoOutcome
  BY <1>2, <1>9, <1>10
<1>12. IsDelivery(m)
  BY <1>10 DEF IsDelivery
<1>13. UnderWay(m)
  BY <1>2, <1>11, <1>12, NotDecided DEF Delivery, UnderWay
<1>14. a.stream = Inventory /\ a.expected = l.known[2].body /\ a.event = InventoryEvent(l.job)
  BY <1>5
<1>15. Proper(a)
  BY <1>2, <1>4, <1>14 DEF Proper, ProperFor
<1>16. KnowsLog(m) /\ SendsProper(m)
  BY <1>4, <1>11, <1>14, <1>15 DEF KnowsLog, SendsProper, OnOperation, OnInventory
<1>17. Delivery(m)
  BY <1>13, <1>16 DEF Delivery
<1> QED
  BY <1>2, <1>3, <1>8, <1>11, <1>17, QuietStep, NotDecided

\* An event that the server takes for the one it has of an operation is that one.
LEMMA StoredIsTheEvent ==
    ASSUME LogInv, NEW l, Delivery(l), Appending(l), Stored(l.sending)
    PROVE  IsStored(l.sending)
<1> PICK a : a = l.sending
  OBVIOUS
<1>1. /\ l.job \in Commands /\ l.job.id \in OpIds /\ l.job.id \in Streams /\ LogType
      /\ Inventory \in Streams
  BY StreamsOf DEF Delivery, UnderWay, Appending, LogInv
<1>2. a.stream \in Streams /\ a.expected \in Int
  <2>1. CASE l.pc = "append_operation_event"
    BY <1>1, <2>1 DEF Delivery, SendsProper, OnOperation, NoStream
  <2>2. CASE l.pc = "append_inventory"
    <3>1. PreparedBy(l.job) /\ a.expected = log[l.job.id][2].body /\ a.stream = Inventory
      BY <2>2 DEF Delivery, KnowsLog, SendsProper, OnInventory
    <3> QED
      BY <1>1, <3>1, PreparedAt
  <2> QED
    BY <2>1, <2>2 DEF Appending
<1>3. Len(log[a.stream]) >= a.expected + 2
  <2>1. Len(log[a.stream]) \in Nat
    BY <1>1, <1>2, LengthOf
  <2> QED
    BY <1>2, <2>1 DEF Stored, Revision
<1>4. ASSUME a.stream = Inventory
      PROVE  log[Inventory][a.expected + 2] = a.event
  <2>1. l.pc = "append_inventory"
    BY <1>1, <1>4, StreamsOf DEF Appending, Delivery, SendsProper, OnOperation
  <2>2. /\ PreparedBy(l.job) /\ a.expected = log[l.job.id][2].body
        /\ a.event = InventoryEvent(l.job) /\ a.expected \in Nat
    BY <1>1, <2>1, PreparedAt DEF Delivery, KnowsLog, SendsProper, OnInventory
  <2> PICK i : i = a.expected + 2
    OBVIOUS
  <2>3. i \in 1..Len(log[Inventory])
    BY <1>1, <1>3, <1>4, <2>2, LengthOf
  <2>4. log[Inventory][i].id = l.job.id
    BY <1>4, <2>2 DEF Stored, InventoryEvent, Event
  <2>5. log[Inventory][i] # Created
    BY <1>1, <2>4, ReservationAssumption DEF Created, Event
  <2>6. PICK d \in Commands : log[Inventory][i] = InventoryEvent(d) /\ PreparedBy(d)
    BY <2>3, <2>5 DEF LogInv, InventoryOrdered
  <2>7. d.id = l.job.id
    BY <2>4, <2>6 DEF InventoryEvent, Event
  <2>8. d = l.job
    BY <2>2, <2>6, <2>7 DEF PreparedBy, Claimed
  <2> QED
    BY <2>2, <2>6, <2>8
<1> QED
  BY <1>3, <1>4 DEF IsStored

LEMMA AppendStep ==
    ASSUME Inv, NEW w \in Workers, AppendAnswered(w)
    PROVE  Inv'
<1> PICK l, a : l = worker[w] /\ a = l.sending
  OBVIOUS
<1>1. /\ Delivery(l) /\ Appending(l) /\ LogInv /\ Proper(a) /\ l.pc # "idle"
      /\ UNCHANGED creation
  BY WorkerIs DEF AppendAnswered, Inv, Appending, Delivery, SendsProper, OnOperation, OnInventory
<1>2. CASE Fits(a) /\ Write(a) /\ Become(w, Learn(l, FALSE))
  <2>1. LogInv' /\ Grows /\ a.stream \in Streams
    BY <1>1, <1>2, WriteLog
  <2>2. Delivery(l)'
    BY <1>1, <2>1, DeliveryStays
  <2>3. IsStored(a)'
    <3>1. /\ Len(log[a.stream]) = a.expected + 1
          /\ Len(log'[a.stream]) = Len(log[a.stream]) + 1
          /\ log'[a.stream][Len(log[a.stream]) + 1] = a.event
      BY <1>1, <1>2, <2>1, WriteEffect DEF LogInv
    <3>2. Len(log[a.stream]) \in Nat /\ a.expected \in Int
      <4>1. Len(log[a.stream]) \in Nat
        BY <1>1, <2>1, LengthOf DEF LogInv
      <4>2. CASE l.pc = "append_operation_event"
        BY <1>1, <4>1, <4>2 DEF Delivery, SendsProper, OnOperation, NoStream
      <4>3. CASE l.pc = "append_inventory"
        <5>1. PreparedBy(l.job) /\ a.expected = log[l.job.id][2].body /\ l.job \in Commands
          BY <1>1, <4>3 DEF Delivery, UnderWay, KnowsLog, SendsProper, OnInventory
        <5> QED
          BY <1>1, <4>1, <5>1, PreparedAt
      <4> QED
        BY <1>1, <4>2, <4>3 DEF Appending
    <3>3. Len(log'[a.stream]) = a.expected + 2 /\ Len(log[a.stream]) + 1 = a.expected + 2
      BY <3>1, <3>2
    <3>4. Len(log'[a.stream]) >= a.expected + 2
      BY <3>2, <3>3
    <3> QED
      BY <3>1, <3>3, <3>4 DEF IsStored
  <2>4. StoredGoesOn'
    BY StoredIsDelivery, PTL
  <2>5. Delivery(Learn(l, FALSE))' /\ Learn(l, FALSE).answer = NoOutcome
    BY <1>1, <2>1, <2>2, <2>3, <2>4 DEF StoredGoesOn
  <2> PICK m : m = Learn(l, FALSE)
    OBVIOUS
  <2>6. Become(w, m) /\ Delivery(m)' /\ m.answer.type \notin Decided
    BY <1>2, <2>5, NotDecided
  <2>7. WorkersGoOn
    BY <2>6 DEF WorkersGoOn
  <2>8. Proper(a) /\ Fits(a) /\ Write(a)
    BY <1>1, <1>2
  <2>9. CreationGoesOn
    <3>1. UNCHANGED creation
      BY <1>1
    <3> QED
      BY <3>1 DEF CreationGoesOn
  <2> QED
    BY <2>7, <2>8, <2>9, WriteStep
<1>3. CASE Stored(a) /\ Become(w, Learn(l, FALSE)) /\ UNCHANGED serverVars
  <2>1. UNCHANGED <<log, creation>> /\ \A b \in late' : Proper(b)
    BY <1>1, <1>3 DEF Inv, serverVars
  <2>2. Delivery(Learn(l, FALSE)) /\ Learn(l, FALSE).answer = NoOutcome
    BY <1>1, <1>3, StoredIsTheEvent, StoredIsDelivery DEF StoredGoesOn
  <2> PICK m : m = Learn(l, FALSE)
    OBVIOUS
  <2>3. Become(w, m) /\ Delivery(m) /\ m.answer.type \notin Decided
    BY <1>3, <2>2, NotDecided
  <2> QED
    BY <2>1, <2>3, QuietStep
<1>4. CASE ~Fits(a) /\ Become(w, Learn(l, TRUE)) /\ UNCHANGED serverVars
  <2>1. UNCHANGED <<log, creation>> /\ \A b \in late' : Proper(b)
    BY <1>1, <1>4 DEF Inv, serverVars
  <2> PICK m : m = Learn(l, TRUE)
    OBVIOUS
  <2>2. Become(w, m) /\ Delivery(m) /\ m.answer.type \notin Decided
    BY <1>1, <1>4, UnsureIsDelivery, NotDecided
  <2> QED
    BY <2>1, <2>2, QuietStep
<1> QED
  BY <1>2, <1>3, <1>4 DEF AppendAnswered

LEMMA ReadBackStep ==
    ASSUME Inv, NEW w \in Workers, ReadBack(w)
    PROVE  Inv'
<1> PICK l, a, s : l = worker[w] /\ a = l.sending /\ s = log[l.job.id]
  OBVIOUS
<1>1. /\ Delivery(l) /\ l.pc = "read_back" /\ l.job \in Commands /\ l.job.id \in OpIds
      /\ LogInv /\ UNCHANGED <<log, late, creation>>
  BY WorkerIs DEF ReadBack, Inv, serverVars
<1>2. \A b \in late' : Proper(b)
  BY <1>1 DEF Inv
<1>3. /\ a.stream = l.job.id /\ a.expected \in {NoStream, 0, 1}
      /\ a.expected # NoStream => Claimed(l.job)
      /\ ~l.failed => Len(s) >= a.expected + 2
  BY <1>1 DEF Delivery, SendsProper, OnOperation
<1>4. Consistent(l.job.id, s)
  BY <1>1, OrderedIsConsistent
<1> PICK m :
       m = IF Len(s) - 1 < a.expected + 1
           THEN IF l.failed THEN Retry(l) ELSE Invalid
           ELSE IF a.expected = NoStream THEN Validate(l, s) ELSE Continue(l, s)
  OBVIOUS
<1>5. Become(w, m)
  BY <1>3, <1>4 DEF ReadBack, StoredBy
<1>6. Len(s) \in Nat /\ (s = <<>> <=> Len(s) = 0)
  BY <1>1, StreamsOf, LengthOf DEF LogInv
<1>7. CASE Len(s) - 1 < a.expected + 1
  <2>1. l.failed
    BY <1>3, <1>6, <1>7 DEF NoStream
  <2>2. m = Retry(l)
    BY <1>7, <2>1
  <2> QED
    BY <1>1, <1>2, <1>5, <2>2, RetryIsDelivery, QuietStep
<1>8. CASE ~(Len(s) - 1 < a.expected + 1) /\ a.expected = NoStream
  <2>1. m = Validate(l, s) /\ s # <<>>
    BY <1>6, <1>8 DEF NoStream
  <2>2. Delivery(m) /\ (m.answer.type \in Decided => IsOutcomeOf(l.job.id, m.answer))
    BY <1>1, <2>1, ValidateIsDelivery
  <2> QED
    BY <1>1, <1>2, <1>5, <2>2, QuietStep
<1>9. CASE ~(Len(s) - 1 < a.expected + 1) /\ a.expected # NoStream
  <2>1. m = Continue(l, s)
    BY <1>9
  <2>2. Delivery(m) /\ (m.answer.type \in Decided => IsOutcomeOf(l.job.id, m.answer))
    BY <1>1, <1>3, <1>9, <2>1, ContinueIsDelivery
  <2> QED
    BY <1>1, <1>2, <1>5, <2>2, QuietStep
<1> QED
  BY <1>7, <1>8, <1>9

LEMMA ReadOccupantStep ==
    ASSUME Inv, NEW w \in Workers, ReadOccupant(w)
    PROVE  Inv'
<1> PICK l : l = worker[w]
  OBVIOUS
<1>0. PICK n : n = l.sending.expected
  OBVIOUS
<1>1. /\ Delivery(l) /\ l.pc = "read_occupant" /\ l.job \in Commands
      /\ LogInv /\ UNCHANGED <<log, late, creation>>
  BY WorkerIs DEF ReadOccupant, Inv, serverVars
<1>2. \A b \in late' : Proper(b)
  BY <1>1 DEF Inv
<1>3. /\ OnInventory(l) /\ PreparedBy(l.job) /\ n = log[l.job.id][2].body
      /\ l.known[1] = log[l.job.id][1] /\ n \in Nat
  BY <1>0, <1>1, PreparedAt DEF Delivery, KnowsLog, SendsProper, OnInventory
<1>4. Requested(l.known).command = l.job
  BY <1>3 DEF Requested, PreparedBy, Claimed
<1>5. Len(log[Inventory]) \in Nat /\ Revision(Inventory) = Len(log[Inventory]) - 1
  BY <1>1, StreamsOf, LengthOf DEF LogInv
<1>6. CASE n + 1 > Revision(Inventory)
  <2>1. Become(w, Retry(l))
    BY <1>0, <1>6 DEF ReadOccupant
  <2> PICK m : m = Retry(l)
    OBVIOUS
  <2> QED
    BY <1>1, <1>2, <2>1, RetryIsDelivery, QuietStep
<1>7. CASE ~(n + 1 > Revision(Inventory))
  <2>1. (n + 1) + 1 = n + 2 /\ n + 1 <= Revision(Inventory)
    <3>1. \A j \in Nat, k \in Int : (j + 1) + 1 = j + 2 /\ (~(j + 1 > k) => j + 1 <= k)
      OBVIOUS
    <3>2. n \in Nat /\ Revision(Inventory) \in Int /\ ~(n + 1 > Revision(Inventory))
      BY <1>3, <1>5, <1>7
    <3> HIDE DEF Revision
    <3> QED
      BY <3>1, <3>2
  <2>2. PICK e : e = log[Inventory][n + 2]
    OBVIOUS
  <2>3. PICK what : what = IF e = InventoryEvent(l.job)
                           THEN Outcome("completed", n + 1, NoCommand)
                           ELSE Outcome("conflicted", n + 1, e.id)
    OBVIOUS
  <2>4. Become(w, RecordOutcome(l, what))
    BY <1>0, <1>4, <1>7, <2>1, <2>2, <2>3 DEF ReadOccupant, Matches
  <2>5. Finished(l.job, n, what.type, what)
    <3>1. CASE e = InventoryEvent(l.job)
      <4>1. what.type = "completed" /\ what.number = n + 1
        BY <2>3, <3>1 DEF Outcome
      <4> QED
        BY <2>1, <2>2, <3>1, <4>1 DEF Finished
    <3>2. CASE e # InventoryEvent(l.job)
      <4>1. what.type = "conflicted"
        BY <2>3, <3>2 DEF Outcome
      <4> QED
        BY <2>1, <2>2, <3>2, <4>1 DEF Finished
    <3> QED
      BY <3>1, <3>2
  <2>6. Delivery(RecordOutcome(l, what)) /\ RecordOutcome(l, what).answer = NoOutcome
    <3>1. Finished(l.job, l.sending.expected, what.type, what)
      BY <1>0, <2>5
    <3> QED
      BY <1>1, <1>3, <3>1, RecordIsDelivery
  <2> PICK m : m = RecordOutcome(l, what)
    OBVIOUS
  <2>7. Become(w, m) /\ Delivery(m) /\ m.answer.type \notin Decided
    BY <2>4, <2>6, NotDecided
  <2> QED
    BY <1>1, <1>2, <2>7, QuietStep
<1> QED
  BY <1>6, <1>7

\* An append that may be under way when its sender is gone is true all the same.
LEMMA SentIsProper ==
    ASSUME Inv, NEW w \in Workers, Appending(worker[w])
    PROVE  Proper(worker[w].sending) /\ worker[w].pc # "idle"
BY WorkerIs DEF Appending, Delivery, SendsProper, OnOperation, OnInventory

LEMMA AnswerLostStep ==
    ASSUME Inv, NEW w \in Workers, AnswerLost(w)
    PROVE  Inv'
<1> PICK l : l = worker[w]
  OBVIOUS
<1>1. /\ Delivery(l) /\ Appending(l) /\ Proper(l.sending)
      /\ late' = late \cup {l.sending} /\ UNCHANGED <<log, creation>>
  BY WorkerIs, SentIsProper DEF AnswerLost
<1>2. \A a \in late' : Proper(a)
  <2> SUFFICES ASSUME NEW a \in late' PROVE Proper(a)
    OBVIOUS
  <2>1. CASE a \in late
    BY <2>1 DEF Inv
  <2>2. CASE a = l.sending
    <3>1. Proper(l.sending)
      BY <1>1
    <3> QED
      BY <2>2, <3>1
  <2> QED
    BY <1>1, <2>1, <2>2
<1> PICK m : m = Learn(l, TRUE)
  OBVIOUS
<1>3. Become(w, m) /\ Delivery(m) /\ m.answer.type \notin Decided
  <2>1. Become(w, m)
    BY DEF AnswerLost
  <2>2. Delivery(m) /\ m.answer = NoOutcome
    BY <1>1, UnsureIsDelivery
  <2> QED
    BY <2>1, <2>2, NotDecided
<1> QED
  BY <1>1, <1>2, <1>3, QuietStep

LEMMA ReadFailsStep ==
    ASSUME Inv, NEW w \in Workers, ReadFails(w)
    PROVE  Inv'
<1> PICK l : l = worker[w]
  OBVIOUS
<1>1. Delivery(l) /\ l.pc # "idle" /\ UNCHANGED <<log, late, creation>>
  BY WorkerIs DEF ReadFails, serverVars
<1>2. \A a \in late' : Proper(a)
  BY <1>1 DEF Inv
<1> PICK m : m = Retry(l)
  OBVIOUS
<1>3. Become(w, m) /\ Delivery(m) /\ m.answer.type \notin Decided
  BY <1>1, RetryIsDelivery DEF ReadFails
<1> QED
  BY <1>1, <1>2, <1>3, QuietStep

LEMMA CrashStep ==
    ASSUME Inv, NEW w \in Workers, Crash(w)
    PROVE  Inv'
<1> PICK l : l = worker[w]
  OBVIOUS
<1>1. /\ UNCHANGED <<log, creation>>
      /\ late' = IF Appending(l) THEN late \cup {l.sending} ELSE late
  BY DEF Crash
<1>2. \A a \in late' : Proper(a)
  <2> SUFFICES ASSUME NEW a \in late' PROVE Proper(a)
    OBVIOUS
  <2>1. CASE a \in late
    BY <2>1 DEF Inv
  <2>2. CASE Appending(l) /\ a = l.sending
    <3>1. Proper(l.sending)
      BY <2>2, SentIsProper
    <3> QED
      BY <2>2, <3>1
  <2> QED
    BY <1>1, <2>1, <2>2
<1> PICK m : m = Idle
  OBVIOUS
<1>3. Become(w, m) /\ Delivery(m) /\ m.answer.type \notin Decided
  BY IdleIsDelivery, NotDecided DEF Crash
<1> QED
  BY <1>1, <1>2, <1>3, QuietStep

LEMMA LateAppendStep ==
    ASSUME Inv, LateAppend
    PROVE  Inv'
<1>1. PICK a \in late : Fits(a) /\ Write(a)
  BY DEF LateAppend
<1>2. Proper(a)
  BY DEF Inv
<1>3. WorkersGoOn /\ CreationGoesOn
  BY DEF LateAppend, WorkersGoOn, CreationGoesOn
<1> QED
  BY <1>1, <1>2, <1>3, WriteStep

\* A step of the creation that writes nothing.
LEMMA CreationQuiet ==
    ASSUME Inv, UNCHANGED <<log, worker, answered>>, \A a \in late' : Proper(a),
           creation'.step = "created" => log[Inventory] # <<>>,
           creation'.step \in {"append", "read", "created", "failed"},
           creation'.attempt \in 1..MaxAttempts,
           creation' = [step |-> creation'.step, attempt |-> creation'.attempt]
    PROVE  Inv'
<1>1. LogInv /\ LogInv' /\ Grows
  BY NothingGrows DEF Inv
<1>2. ASSUME NEW a \in late' PROVE Proper(a)'
  <2>1. Proper(a)
    OBVIOUS
  <2> QED
    BY <1>1, <2>1, ProperStays DEF LogInv
<1>3. ASSUME NEW v \in Workers PROVE Delivery(worker[v])'
  <2> PICK m : m = worker[v]
    OBVIOUS
  <2>1. Delivery(m)
    BY DEF Inv
  <2>2. Delivery(m)'
    BY <1>1, <2>1, DeliveryStays
  <2> QED
    BY <2>2
<1>4. ASSUME NEW b \in answered' PROVE IsOutcomeOf(b.id, b.outcome)'
  <2>1. IsOutcomeOf(b.id, b.outcome)
    BY DEF Inv
  <2> QED
    BY <1>1, <2>1, OutcomeStays
<1> QED
  BY <1>1, <1>2, <1>3, <1>4 DEF Inv

\* Where the creation can stand next.
LEMMA CreationRecord ==
    ASSUME Inv
    PROVE  /\ \A step : Creating(step) => creation' = [step |-> step, attempt |-> creation.attempt]
           /\ IsCreated => creation' = [step |-> "created", attempt |-> 1]
           /\ NotCreated => \/ /\ creation.attempt + 1 \in 1..MaxAttempts
                               /\ creation' = [step |-> "append", attempt |-> creation.attempt + 1]
                            \/ creation' = [step |-> "failed", attempt |-> creation.attempt]
<1>1. PICK at, n : creation = [step |-> at, attempt |-> n] /\ n \in 1..MaxAttempts
  BY DEF Inv
<1>2. creation.attempt = n
  BY <1>1
<1>3. ASSUME NEW step, Creating(step)
      PROVE  creation' = [step |-> step, attempt |-> creation.attempt]
  BY <1>1, <1>2, <1>3 DEF Creating
<1>4. ASSUME NotCreated
      PROVE  \/ /\ creation.attempt + 1 \in 1..MaxAttempts
                /\ creation' = [step |-> "append", attempt |-> creation.attempt + 1]
             \/ creation' = [step |-> "failed", attempt |-> creation.attempt]
  <2>1. CASE creation.attempt < MaxAttempts
    BY <1>1, <1>2, <1>4, <2>1, ReservationAssumption DEF NotCreated
  <2>2. CASE ~(creation.attempt < MaxAttempts)
    <3>1. creation' = [creation EXCEPT !.step = "failed"]
      BY <1>4, <2>2 DEF NotCreated
    <3> QED
      BY <1>1, <1>2, <3>1
  <2> QED
    BY <2>1, <2>2
<1> QED
  BY <1>3, <1>4 DEF IsCreated

LEMMA CreationReadStep ==
    ASSUME Inv, CreationRead \/ CreationReadFails
    PROVE  Inv'
<1>1. UNCHANGED <<log, late, worker, answered>> /\ creation.attempt \in 1..MaxAttempts
  BY DEF CreationRead, CreationReadFails, serverVars, Inv
<1>2. \A a \in late' : Proper(a)
  BY <1>1 DEF Inv
<1>3. CASE IsCreated /\ log[Inventory] # <<>>
  <2>1. PICK at, n : creation' = [step |-> at, attempt |-> n] /\ at = "created" /\ n = 1
    BY <1>3, CreationRecord
  <2>2. creation'.step = at /\ creation'.attempt = n
    BY <2>1
  <2>3. n \in 1..MaxAttempts
    BY <2>1, ReservationAssumption
  <2> QED
    BY <1>1, <1>2, <1>3, <2>1, <2>2, <2>3, CreationQuiet
<1>4. CASE NotCreated
  <2>1. PICK at, n : /\ creation' = [step |-> at, attempt |-> n]
                     /\ at \in {"append", "failed"} /\ n \in 1..MaxAttempts
    BY <1>1, <1>4, CreationRecord
  <2>2. creation'.step = at /\ creation'.attempt = n
    BY <2>1
  <2> QED
    BY <1>1, <1>2, <2>1, <2>2, CreationQuiet
<1> QED
  BY <1>3, <1>4 DEF CreationRead, CreationReadFails

\* The creation goes on to look for its event.
LEMMA CreationUnsureStep ==
    ASSUME Inv, Creating("read"), UNCHANGED <<log, worker, answered>>,
           \A a \in late' : Proper(a)
    PROVE  Inv'
<1>1. PICK at, n : creation' = [step |-> at, attempt |-> n] /\ at = "read" /\ n = creation.attempt
  BY CreationRecord
<1>2. creation'.step = at /\ creation'.attempt = n
  BY <1>1
<1>3. n \in 1..MaxAttempts
  BY <1>1 DEF Inv
<1> QED
  BY <1>1, <1>2, <1>3, CreationQuiet

LEMMA CreationLostStep ==
    ASSUME Inv, CreationLost
    PROVE  Inv'
<1>1. Proper(NoAppend)
  BY DEF Proper
<1>2. \A a \in late' : Proper(a)
  <2> SUFFICES ASSUME NEW a \in late' PROVE Proper(a)
    OBVIOUS
  <2>1. CASE a \in late
    BY <2>1 DEF Inv
  <2>2. CASE a = NoAppend
    BY <1>1, <2>2
  <2> QED
    BY <2>1, <2>2 DEF CreationLost
<1> QED
  BY <1>2, CreationUnsureStep DEF CreationLost

LEMMA CreationAnsweredStep ==
    ASSUME Inv, CreationAnswered
    PROVE  Inv'
<1> PICK a : a = NoAppend
  OBVIOUS
<1>1. Proper(a) /\ a.stream = Inventory /\ a.expected = -1 /\ LogInv
  BY DEF Proper, NoAppend, NoStream, Inv
<1>2. CASE Fits(a) /\ Write(a) /\ IsCreated
  <2>1. LogInv' /\ log'[Inventory] # <<>>
    BY <1>1, <1>2, WriteLog, WriteEffect, AppendToSequence DEF LogInv
  <2>2. WorkersGoOn /\ CreationGoesOn
    BY <1>2, <2>1 DEF CreationAnswered, WorkersGoOn, CreationGoesOn
  <2> QED
    BY <1>1, <1>2, <2>2, WriteStep
<1>3. CASE Stored(a) /\ IsCreated /\ UNCHANGED serverVars
  <2>1. UNCHANGED <<log, late, worker, answered>> /\ \A b \in late' : Proper(b)
    BY <1>3 DEF CreationAnswered, serverVars, Inv
  <2>2. log[Inventory] # <<>>
    <3>1. Len(log[Inventory]) \in Nat /\ (log[Inventory] = <<>> <=> Len(log[Inventory]) = 0)
      BY <1>1, StreamsOf, LengthOf DEF LogInv
    <3> QED
      BY <1>1, <1>3, <3>1 DEF Stored, Revision
  <2>3. PICK at, n : creation' = [step |-> at, attempt |-> n] /\ at = "created" /\ n = 1
    BY <1>3, CreationRecord
  <2>4. creation'.step = at /\ creation'.attempt = n
    BY <2>3
  <2>5. n \in 1..MaxAttempts
    BY <2>3, ReservationAssumption
  <2> QED
    BY <2>1, <2>2, <2>3, <2>4, <2>5, CreationQuiet
<1>4. CASE ~Fits(a) /\ Creating("read") /\ UNCHANGED serverVars
  <2>1. UNCHANGED <<log, late, worker, answered>> /\ \A b \in late' : Proper(b)
    BY <1>4 DEF CreationAnswered, serverVars, Inv
  <2> QED
    BY <1>4, <2>1, CreationUnsureStep
<1> QED
  BY <1>2, <1>3, <1>4 DEF CreationAnswered

-----------------------------------------------------------------------------
(* The invariant holds in every behaviour. *)

LEMMA InvInit ==
    ASSUME Init
    PROVE  Inv
<1> PICK empty : empty = <<>>
  OBVIOUS
<1>1. log = [s \in Streams |-> empty] /\ Len(empty) = 0 /\ IsSequence(empty)
  BY DEF Init, IsSequence
<1>2. LogType
  BY <1>1 DEF LogType
<1>3. \A o \in OpIds : Ordered(o)
  <2> SUFFICES ASSUME NEW o \in OpIds PROVE Ordered(o)
    OBVIOUS
  <2>1. log[o] = empty
    BY <1>1, StreamsOf
  <2> QED
    BY <1>1, <2>1 DEF Ordered
<1>4. log[Inventory] = empty
  BY <1>1, StreamsOf
<1>5. InventoryOrdered
  BY <1>1, <1>4 DEF InventoryOrdered
<1>6. InventorySound
  <2>1. read_inventory(log[Inventory]) = NotCreatedYet
    BY <1>4, ReadNothing
  <2>2. NotCreatedYet \in Views
    BY DEF NotCreatedYet, Views
  <2>3. NotCreatedYet.sound /\ NotCreatedYet.active = {}
    BY DEF NotCreatedYet
  <2> QED
    BY <1>4, <2>1, <2>2, <2>3 DEF InventorySound
<1>7. DOMAIN worker = Workers /\ \A w \in Workers : Delivery(worker[w])
  <2>1. ASSUME NEW w \in Workers PROVE Delivery(worker[w])
    <3> PICK m : m = Idle
      OBVIOUS
    <3>1. worker[w] = m
      BY DEF Init
    <3> QED
      BY <3>1, IdleIsDelivery
  <2> QED
    BY <2>1 DEF Init
<1>8. /\ creation.step = "append" /\ creation.attempt = 1
      /\ creation = [step |-> creation.step, attempt |-> creation.attempt]
  BY DEF Init
<1>9. 1 \in 1..MaxAttempts
  BY ReservationAssumption
<1> QED
  BY <1>2, <1>3, <1>5, <1>6, <1>7, <1>8, <1>9 DEF Init, Inv, LogInv

LEMMA InvStep ==
    ASSUME Inv, [Next]_vars
    PROVE  Inv'
<1>1. ASSUME NEW w \in Workers,
             \/ \E c \in Commands : Deliver(w, c)
             \/ Step(w)
             \/ AnswerLost(w) \/ ReadFails(w) \/ Crash(w)
      PROVE  Inv'
  BY <1>1, DeliverStep, ClaimStep, DecideStep, FinishStep, AppendStep, ReadBackStep,
     ReadOccupantStep, AnswerLostStep, ReadFailsStep, CrashStep DEF Step
<1>2. CASE UNCHANGED vars
  <2>1. UNCHANGED <<log, late, worker, answered, creation>>
    BY <1>2 DEF vars, serverVars
  <2> QED
    BY <2>1, CreationQuiet DEF Inv
<1> QED
  BY <1>1, <1>2, CreationAnsweredStep, CreationReadStep, CreationLostStep, LateAppendStep
  DEF Next

THEOREM InvCorrect == Spec => []Inv
BY InvInit, InvStep, PTL DEF Spec

-----------------------------------------------------------------------------
(* What the runs check of one instance. *)

\* The state is what the program can be in: every stream holds the steps of its
\* operation in the order of the workflow, and every delivery is under way with a
\* command or idle (idempotent_reservation.rs: execute_operation, read_operation).
THEOREM TypeCorrect == Spec => []TypeOK
<1>1. Inv => TypeOK
  <2> SUFFICES ASSUME Inv PROVE TypeOK
    OBVIOUS
  <2>1. DOMAIN log = Streams /\ \A o \in OpIds : Consistent(o, log[o])
    BY OrderedIsConsistent DEF Inv, LogInv, LogType
  <2>2. \A i \in 1..Len(log[Inventory]) :
           \/ i = 1 /\ log[Inventory][i] = Created
           \/ i > 1 /\ \E c \in Commands : log[Inventory][i] = InventoryEvent(c)
    BY DEF Inv, LogInv, InventoryOrdered
  <2>3. ASSUME NEW w \in Workers
        PROVE  /\ worker[w].pc \in {"idle", "claim_operation", "decide_requested",
                                    "finish_prepared", "append_operation_event",
                                    "append_inventory", "read_back", "read_occupant",
                                    "panicked"}
               /\ worker[w].pc # "idle" => worker[w].job \in Commands
               /\ worker[w].attempt \in 1..MaxAttempts
    BY WorkerIs DEF Delivery, UnderWay
  <2> QED
    BY <2>1, <2>2, <2>3 DEF TypeOK, Inv
<1> QED
  BY <1>1, InvCorrect, PTL

\* However often an operation is delivered, by whichever worker and after whatever
\* fault, it is answered with the one outcome that its stream holds.
THEOREM OneOutcomeCorrect == Spec => []OneOutcome
<1>1. Inv => OneOutcome
  BY DEF Inv, OneOutcome, IsOutcomeOf
<1> QED
  BY <1>1, InvCorrect, PTL

\* An operation takes effect at most once, and takes effect exactly if its outcome
\* says so, whichever of its appends arrive late or twice.
THEOREM EffectMatchesOutcomeCorrect == Spec => []EffectMatchesOutcome
<1>1. Inv => EffectMatchesOutcome
  BY LogsMatchInventory DEF Inv
<1> QED
  BY <1>1, InvCorrect, PTL

\* No assertion of the replay fails and no stream is taken for an invalid one.
THEOREM AssertionsHoldCorrect == Spec => []AssertionsHold
<1>1. Inv => AssertionsHold
  <2> SUFFICES ASSUME Inv PROVE AssertionsHold
    OBVIOUS
  <2>1. read_inventory(log[Inventory]).sound
    BY DEF Inv, LogInv, InventorySound
  <2>2. \A w \in Workers : worker[w].pc # "panicked" /\ worker[w].answer # Invalid.answer
    BY WorkerIs DEF Delivery, UnderWay
  <2> QED
    BY <2>1, <2>2 DEF AssertionsHold
<1> QED
  BY <1>1, InvCorrect, PTL

-----------------------------------------------------------------------------
(* The refinement. *)

ClaimedOf(o) == IF log[o] = <<>> THEN NoCommand ELSE log[o][1].body.command
OutcomeOf(o) ==
    IF InventoryOf(o) # {} THEN "completed"
    ELSE IF log[o] # <<>> /\ Stage(log[o]) \in Decided THEN Stage(log[o])
    ELSE "none"
Free == IF log[Inventory] = <<>> THEN Available ELSE Inventoried.available
Holding == Inventoried.active

\* Steps of the service, in terms of the streams.
LEMMA NothingSeen ==
    ASSUME \A o \in OpIds : ClaimedOf(o)' = ClaimedOf(o) /\ OutcomeOf(o)' = OutcomeOf(o),
           Free' = Free, Holding' = Holding
    PROVE  UNCHANGED Service!serviceVars
BY DEF Service!serviceVars, ClaimedOf, OutcomeOf, Free, Holding, Requested

LEMMA ClaimSeen ==
    ASSUME NEW c \in Commands, ClaimedOf(c.id) = NoCommand, ClaimedOf(c.id)' = c,
           \A o \in OpIds : o # c.id => ClaimedOf(o)' = ClaimedOf(o),
           \A o \in OpIds : OutcomeOf(o)' = OutcomeOf(o),
           Free' = Free, Holding' = Holding
    PROVE  Service!Claim(c)
BY StreamsOf DEF Service!Claim, ClaimedOf, OutcomeOf, Free, Holding, Requested

LEMMA TurnDownSeen ==
    ASSUME NEW c \in Commands, ClaimedOf(c.id) = c, OutcomeOf(c.id) = "none",
           \A o \in OpIds : ClaimedOf(o)' = ClaimedOf(o),
           \A o \in OpIds : o # c.id => OutcomeOf(o)' = OutcomeOf(o),
           OutcomeOf(c.id)' \in {"rejected", "conflicted"},
           Free' = Free, Holding' = Holding
    PROVE  Service!TurnDown(c)
BY StreamsOf
DEF Service!TurnDown, Service!Undecided, Service!Decide, ClaimedOf, OutcomeOf, Free, Holding,
    Requested

LEMMA ReserveSeen ==
    ASSUME NEW c \in Commands, ClaimedOf(c.id) = c, OutcomeOf(c.id) = "none",
           c.kind = "reserve", Free >= c.quantity,
           \A h \in Holding : h.reservation # c.reservation,
           Free' = Free - c.quantity, Holding' = Holding \cup {Held(c)},
           \A o \in OpIds : ClaimedOf(o)' = ClaimedOf(o),
           \A o \in OpIds : o # c.id => OutcomeOf(o)' = OutcomeOf(o),
           OutcomeOf(c.id)' = "completed"
    PROVE  Service!Reserve(c)
BY StreamsOf
DEF Service!Reserve, Service!Undecided, Service!Decide, Service!Held, Held, ClaimedOf,
    OutcomeOf, Free, Holding, Requested

LEMMA ReleaseSeen ==
    ASSUME NEW c \in Commands, ClaimedOf(c.id) = c, OutcomeOf(c.id) = "none",
           c.kind = "release", Held(c) \in Holding,
           Free' = Free + c.quantity, Holding' = Holding \ {Held(c)},
           \A o \in OpIds : ClaimedOf(o)' = ClaimedOf(o),
           \A o \in OpIds : o # c.id => OutcomeOf(o)' = OutcomeOf(o),
           OutcomeOf(c.id)' = "completed"
    PROVE  Service!Release(c)
BY StreamsOf
DEF Service!Release, Service!Undecided, Service!Decide, Service!Held, Held, ClaimedOf,
    OutcomeOf, Free, Holding, Requested

\* The log changes by one append that is true at its place, if it changes.
LEMMA LogStep ==
    ASSUME Inv, [Next]_vars
    PROVE  UNCHANGED log \/ \E a : Proper(a) /\ Fits(a) /\ Write(a)
<1>1. CASE CreationAnswered
  <2>1. Proper(NoAppend)
    BY DEF Proper
  <2> QED
    BY <1>1, <2>1 DEF CreationAnswered, serverVars
<1>2. CASE LateAppend
  <2>1. PICK a \in late : Fits(a) /\ Write(a)
    BY <1>2 DEF LateAppend
  <2>2. Proper(a)
    BY DEF Inv
  <2> QED
    BY <2>1, <2>2
<1>3. ASSUME NEW w \in Workers, AppendAnswered(w)
      PROVE  UNCHANGED log \/ \E a : Proper(a) /\ Fits(a) /\ Write(a)
  <2>1. Proper(worker[w].sending)
    BY <1>3, SentIsProper DEF AppendAnswered
  <2> QED
    BY <1>3, <2>1 DEF AppendAnswered, serverVars
<1>4. ASSUME NEW w \in Workers, ClaimOperation(w) \/ DecideRequested(w) \/ FinishPrepared(w)
                                  \/ ReadBack(w) \/ ReadOccupant(w) \/ AnswerLost(w)
                                  \/ ReadFails(w) \/ Crash(w) \/ \E c \in Commands : Deliver(w, c)
      PROVE  UNCHANGED log
  BY <1>4 DEF ClaimOperation, DecideRequested, FinishPrepared, ReadBack, ReadOccupant,
     AnswerLost, ReadFails, Crash, Deliver, serverVars
<1>5. CASE CreationRead \/ CreationLost \/ CreationReadFails \/ UNCHANGED vars
  BY <1>5 DEF CreationRead, CreationLost, CreationReadFails, vars, serverVars
<1> QED
  BY <1>1, <1>2, <1>3, <1>4, <1>5 DEF Next, Step

\* What is seen of an operation is in its own stream and the inventory.
LEMMA OperationSeen ==
    ASSUME NEW o \in OpIds, log'[o] = log[o]
    PROVE  /\ ClaimedOf(o)' = ClaimedOf(o)
           /\ InventoryOf(o)' = InventoryOf(o) => OutcomeOf(o)' = OutcomeOf(o)
BY DEF ClaimedOf, OutcomeOf, Stage

LEMMA InventorySeen ==
    ASSUME log'[Inventory] = log[Inventory]
    PROVE  /\ \A o \in OpIds : InventoryOf(o)' = InventoryOf(o)
           /\ Free' = Free /\ Holding' = Holding
BY DEF InventoryOf, Free, Holding, Inventoried

\* The operations that are in the inventory are the prepared ones.
LEMMA InInventory ==
    ASSUME LogInv, NEW o \in OpIds, NEW i \in InventoryOf(o)
    PROVE  /\ Len(log[o]) >= 2 /\ log[o][2].type = "prepared" /\ log[o][2].body = i - 2
           /\ i \in 1..Len(log[Inventory])
<1>1. i \in 1..Len(log[Inventory]) /\ log[Inventory][i].id = o
  BY DEF InventoryOf
<1>2. log[Inventory][i] # Created
  BY <1>1, ReservationAssumption DEF Created, Event
<1>3. PICK c \in Commands : /\ log[Inventory][i] = InventoryEvent(c)
                            /\ PreparedBy(c) /\ log[c.id][2].body = i - 2
  BY <1>1, <1>2 DEF LogInv, InventoryOrdered
<1>4. c.id = o
  BY <1>1, <1>3 DEF InventoryEvent, Event
<1> QED
  BY <1>1, <1>3, <1>4 DEF PreparedBy

\* The inventory of an append to it: one operation more.
LEMMA AppendSeen ==
    ASSUME LogType, NEW e, log'[Inventory] = Append(log[Inventory], e), NEW o
    PROVE  /\ e.id = o => InventoryOf(o)' # {}
           /\ e.id # o => InventoryOf(o)' = InventoryOf(o)
<1> PICK s, t, n : s = log[Inventory] /\ t = log'[Inventory] /\ n = Len(s)
  OBVIOUS
<1>1. /\ n \in Nat /\ t = Append(s, e) /\ Len(t) = n + 1 /\ t[n + 1] = e
      /\ \A i \in 1..n : t[i] = s[i]
  BY StreamsOf, SequenceLen, AppendToSequence DEF LogType
<1>2. /\ InventoryOf(o) = {i \in 1..n : s[i].id = o}
      /\ InventoryOf(o)' = {i \in 1..(n + 1) : t[i].id = o}
  BY <1>1 DEF InventoryOf
<1>3. 1..(n + 1) = (1..n) \cup {n + 1}
  BY <1>1
<1>4. {i \in 1..(n + 1) : t[i].id = o}
        = {i \in 1..n : s[i].id = o} \cup (IF e.id = o THEN {n + 1} ELSE {})
  BY <1>1, <1>3
<1>5. e.id = o => InventoryOf(o)' # {}
  BY <1>2, <1>4
<1>6. e.id # o => InventoryOf(o)' = InventoryOf(o)
  BY <1>2, <1>4
<1> QED
  BY <1>5, <1>6

LEMMA CreationSeen ==
    ASSUME LogInv, NEW a, a = NoAppend, Fits(a), Write(a)
    PROVE  UNCHANGED Service!serviceVars
<1>1. a.stream = Inventory /\ a.expected = -1 /\ a.event = Created
  BY DEF NoAppend, NoStream
<1>2. /\ LogType /\ Inventory \in Streams /\ log'[Inventory] = Append(log[Inventory], Created)
      /\ Len(log[Inventory]) = -1 + 1 /\ \A o \in OpIds : log'[o] = log[o]
  BY <1>1, StreamsOf, WriteEffect DEF LogInv
<1>3. log[Inventory] = <<>> /\ log'[Inventory] # <<>>
  <2>1. IsSequence(log[Inventory]) /\ (log[Inventory] = <<>> <=> Len(log[Inventory]) = 0)
    BY <1>2, SequenceLen DEF LogType
  <2>2. log[Inventory] = <<>>
    BY <1>2, <2>1
  <2>3. log'[Inventory] # <<>>
    BY <1>2, <2>1, AppendToSequence
  <2> QED
    BY <2>2, <2>3
<1>4. \A o \in OpIds : InventoryOf(o)' = InventoryOf(o)
  <2> SUFFICES ASSUME NEW o \in OpIds PROVE InventoryOf(o)' = InventoryOf(o)
    OBVIOUS
  <2>1. Created.id # o
    BY ReservationAssumption DEF Created, Event
  <2> QED
    BY <1>2, <2>1, AppendSeen
<1>5. read_inventory(log[Inventory]) = NotCreatedYet
  BY <1>3, ReadNothing
<1>6. read_inventory(log'[Inventory])
         = [sound |-> TRUE, sku |-> Sku, available |-> Available, active |-> {}]
  BY <1>2, <1>5, StreamsOf, ReadOneMore, ReplayedCreation DEF LogType
<1>7. Free' = Free /\ Holding' = Holding
  BY <1>3, <1>5, <1>6 DEF Free, Holding, Inventoried, NotCreatedYet
<1>8. ASSUME NEW o \in OpIds
      PROVE  ClaimedOf(o)' = ClaimedOf(o) /\ OutcomeOf(o)' = OutcomeOf(o)
  BY <1>2, <1>4, OperationSeen
<1> QED
  BY <1>7, <1>8, NothingSeen

LEMMA InventoryWriteSeen ==
    ASSUME LogInv, NEW c \in Commands, NEW a, PreparedBy(c), a.stream = Inventory,
           a.expected = log[c.id][2].body, a.event = InventoryEvent(c),
           Fits(a), Write(a)
    PROVE  Service!Reserve(c) \/ Service!Release(c)
<1> PICK view, after, n : /\ view = read_inventory(log[Inventory]) /\ n = log[c.id][2].body
                          /\ after = read_inventory(log'[Inventory])
  OBVIOUS
<1>1. /\ LogType /\ Inventory \in Streams /\ c.id \in OpIds /\ n \in Nat
      /\ c.kind \in {"reserve", "release"}
      /\ Len(log[Inventory]) \in Nat /\ Revision(Inventory) = Len(log[Inventory]) - 1
  BY StreamsOf, LengthOf, PreparedAt DEF LogInv
<1>2. /\ log'[Inventory] = Append(log[Inventory], InventoryEvent(c))
      /\ Len(log[Inventory]) = n + 1 /\ \A o \in OpIds : log'[o] = log[o]
  BY <1>1, StreamsOf, WriteEffect
<1>3. log[Inventory] # <<>> /\ log'[Inventory] # <<>>
  <2>1. Len(log[Inventory]) # 0
    BY <1>1, <1>2
  <2> QED
    BY <1>1, <1>2, <2>1, LengthOf, AppendToSequence DEF LogType
<1>4. after = Replayed(view, InventoryEvent(c)) /\ after.sound
  BY WriteInventory
<1>5. view \in Views /\ view.sound
  BY DEF LogInv, InventorySound
<1>6. /\ Free = view.available /\ Free' = after.available
      /\ Holding = view.active /\ Holding' = after.active
  BY <1>3 DEF Free, Holding, Inventoried
<1>7. ClaimedOf(c.id) = c
  BY DEF PreparedBy, Claimed, ClaimedOf
<1>8. \A o \in OpIds : ClaimedOf(o)' = ClaimedOf(o)
  BY <1>2, OperationSeen
<1>9. InventoryOf(c.id) = {}
  <2> SUFFICES ASSUME NEW i \in InventoryOf(c.id) PROVE FALSE
    OBVIOUS
  <2>1. n = i - 2 /\ i \in 1..Len(log[Inventory])
    BY <1>1, InInventory
  <2> QED
    BY <1>1, <1>2, <2>1
<1>10. OutcomeOf(c.id) = "none"
  <2>1. Ordered(c.id)
    BY <1>1 DEF LogInv
  <2>2. Len(log[c.id]) = 2
    <3> SUFFICES ASSUME Len(log[c.id]) = 3 PROVE FALSE
      BY PreparedAt
    <3>1. n + 1 <= Revision(Inventory)
      BY <2>1 DEF Ordered, Finished
    <3> QED
      BY <1>1, <1>2, <3>1
  <2>3. Stage(log[c.id]) = "prepared"
    BY <2>2 DEF Stage, PreparedBy
  <2> QED
    BY <1>9, <2>3 DEF OutcomeOf, Decided
<1>11. \A o \in OpIds : o # c.id => OutcomeOf(o)' = OutcomeOf(o)
  <2> SUFFICES ASSUME NEW o \in OpIds, o # c.id PROVE OutcomeOf(o)' = OutcomeOf(o)
    OBVIOUS
  <2>1. InventoryEvent(c).id # o
    BY DEF InventoryEvent, Event
  <2>2. InventoryOf(o)' = InventoryOf(o)
    BY <1>1, <1>2, <2>1, AppendSeen
  <2> QED
    BY <1>2, <2>2, OperationSeen
<1>12. OutcomeOf(c.id)' = "completed"
  <2> PICK o : o = c.id
    OBVIOUS
  <2>1. InventoryEvent(c).id = o
    BY DEF InventoryEvent, Event
  <2>2. InventoryOf(o)' # {}
    BY <1>1, <1>2, <2>1, AppendSeen
  <2> QED
    BY <2>2 DEF OutcomeOf
<1>13. CASE c.kind = "reserve"
  <2>1. /\ view.available >= c.quantity
        /\ \A h \in view.active : h.reservation # c.reservation
        /\ after.available = view.available - c.quantity
        /\ after.active = view.active \cup {Held(c)}
    BY <1>4, <1>5, <1>13, ReplayedReserve
  <2> QED
    BY <1>6, <1>7, <1>8, <1>10, <1>11, <1>12, <1>13, <2>1, ReserveSeen
<1>14. CASE c.kind = "release"
  <2> PICK h : h = (view.sound /\ Held(c) \in view.active)
    OBVIOUS
  <2>1. after = [sound |-> h, sku |-> view.sku,
                 available |-> view.available + c.quantity,
                 active |-> view.active \ {Held(c)}]
    BY <1>4, <1>5, <1>14, ReplayedRelease
  <2>2. /\ after.sound = h
        /\ after.available = view.available + c.quantity
        /\ after.active = view.active \ {Held(c)}
    BY <2>1
  <2>3. Held(c) \in view.active
    BY <1>4, <2>2, Zenon
  <2> QED
    BY <1>6, <1>7, <1>8, <1>10, <1>11, <1>12, <1>14, <2>2, <2>3, ReleaseSeen
<1> QED
  BY <1>1, <1>13, <1>14

\* An append to the stream of an operation: its claim, its end without an effect,
\* or nothing that a caller could tell.
LEMMA OperationWriteSeen ==
    ASSUME LogInv, LogInv', NEW c \in Commands, NEW a, ProperFor(c, a), a.stream = c.id,
           Fits(a), Write(a)
    PROVE  Service!Claim(c) \/ Service!TurnDown(c) \/ UNCHANGED Service!serviceVars
<1> PICK o, s, t, n : o = c.id /\ s = log[o] /\ t = log'[o] /\ n = Len(s)
  OBVIOUS
<1>1. /\ LogType /\ LogType' /\ o \in OpIds /\ o \in Streams /\ o # Inventory
      /\ Inventory \in Streams
  BY StreamsOf DEF LogInv
<1>2. /\ t = Append(s, a.event) /\ Len(s) = a.expected + 1 /\ Len(t) = Len(s) + 1
      /\ t[Len(s) + 1] = a.event
      /\ \A p \in Streams : p # o => log'[p] = log[p]
  BY <1>1, WriteEffect
<1>3. /\ n \in Nat /\ IsSequence(s) /\ (s = <<>> <=> n = 0) /\ t # <<>>
      /\ \A i \in 1..n : t[i] = s[i]
  BY <1>1, <1>2, SequenceLen, AppendToSequence DEF LogType
<1>4. log'[Inventory] = log[Inventory]
  BY <1>1, <1>2
<1>5. /\ Free' = Free /\ Holding' = Holding
      /\ \A p \in OpIds : InventoryOf(p)' = InventoryOf(p)
  BY <1>4, InventorySeen
<1>6. ASSUME NEW p \in OpIds, p # o
      PROVE  ClaimedOf(p)' = ClaimedOf(p) /\ OutcomeOf(p)' = OutcomeOf(p)
  <2>1. log'[p] = log[p]
    BY <1>1, <1>2, <1>6, StreamsOf
  <2> QED
    BY <1>5, <2>1, OperationSeen
\* What there is to see of the operation itself.
<1>7. /\ ClaimedOf(o) = IF n = 0 THEN NoCommand ELSE s[1].body.command
      /\ ClaimedOf(o)' = t[1].body.command
  BY <1>3 DEF ClaimedOf
<1>8. ASSUME InventoryOf(o) = {}
      PROVE  /\ OutcomeOf(o) = IF n # 0 /\ Stage(s) \in Decided THEN Stage(s) ELSE "none"
             /\ OutcomeOf(o)' = IF Stage(t) \in Decided THEN Stage(t) ELSE "none"
  <2>1. InventoryOf(o) = {} /\ InventoryOf(o)' = {}
    BY <1>1, <1>5, <1>8
  <2>2. (log[o] # <<>> <=> n # 0) /\ log'[o] # <<>>
    BY <1>3
  <2>3. Stage(s) = Stage(log[o]) /\ Stage(t) = Stage(log'[o])
    OBVIOUS
  <2>4. OutcomeOf(o) = IF n # 0 /\ Stage(s) \in Decided THEN Stage(s) ELSE "none"
    BY <2>1, <2>2, <2>3 DEF OutcomeOf
  <2>5. OutcomeOf(o)' = IF Stage(t) \in Decided THEN Stage(t) ELSE "none"
    BY <2>1, <2>2, <2>3 DEF OutcomeOf
  <2> QED
    BY <2>4, <2>5
<1>9. Stage(t) = a.event.type
  BY <1>2, <1>3 DEF Stage
<1>10. ASSUME n < 2 PROVE InventoryOf(o) = {}
  <2> SUFFICES ASSUME NEW i \in InventoryOf(o) PROVE FALSE
    OBVIOUS
  <2>1. Len(log[o]) >= 2
    BY <1>1, InInventory
  <2> QED
    BY <1>3, <1>10, <2>1
<1>11. CASE a.expected = NoStream /\ a.event.type = "requested" /\ a.event.body.command = c
  <2>1. n = 0 /\ t[1] = a.event
    BY <1>2, <1>3, <1>11 DEF NoStream
  <2>2. ClaimedOf(o) = NoCommand /\ ClaimedOf(o)' = c
    BY <1>7, <1>11, <2>1
  <2>3. OutcomeOf(o) = "none" /\ OutcomeOf(o)' = "none"
    BY <1>8, <1>9, <1>10, <1>11, <2>1 DEF Decided
  <2>4. \A p \in OpIds : OutcomeOf(p)' = OutcomeOf(p)
    BY <1>6, <2>3
  <2> QED
    BY <1>5, <1>6, <2>2, <2>4, ClaimSeen
<1>12. ASSUME n # 0, Claimed(c) PROVE ClaimedOf(o) = c /\ ClaimedOf(o)' = c
  <2>1. t[1] = s[1]
    BY <1>3, <1>12
  <2> QED
    BY <1>7, <1>12, <2>1 DEF Claimed
<1>13. CASE a.expected = 0 /\ Claimed(c) /\ Decision(c, log[c.id][1].body, a.event)
  <2>1. n = 1 /\ InventoryOf(o) = {}
    BY <1>2, <1>3, <1>10, <1>13
  <2>2. ClaimedOf(o) = c /\ ClaimedOf(o)' = c
    BY <1>12, <1>13, <2>1
  <2>3. OutcomeOf(o) = "none"
    <3>1. Stage(s) = "requested"
      <4>1. log[o] # <<>> /\ Len(log[o]) = 1
        BY <1>3, <2>1
      <4> QED
        BY <1>1, <4>1, StageOf
    <3> QED
      BY <1>8, <2>1, <3>1 DEF Decided
  <2>4. CASE a.event.type = "prepared"
    <3>1. OutcomeOf(o)' = "none"
      BY <1>8, <1>9, <2>1, <2>4 DEF Decided
    <3> QED
      BY <1>5, <1>6, <2>2, <2>3, <3>1, NothingSeen
  <2>5. CASE a.event.type = "rejected"
    <3>1. OutcomeOf(o)' = "rejected"
      BY <1>8, <1>9, <2>1, <2>5 DEF Decided
    <3> QED
      BY <1>5, <1>6, <2>2, <2>3, <3>1, TurnDownSeen
  <2> QED
    BY <1>13, <2>4, <2>5 DEF Decision
<1>14. CASE /\ a.expected = 1 /\ PreparedBy(c)
            /\ Finished(c, log[c.id][2].body, a.event.type, a.event.body)
  <2>1. n = 2 /\ n # 0 /\ Claimed(c) /\ Stage(s) = "prepared"
    BY <1>2, <1>3, <1>14 DEF PreparedBy, Stage
  <2>2. ClaimedOf(o) = c /\ ClaimedOf(o)' = c
    BY <1>12, <2>1
  <2> PICK m : m = log[o][2].body
    OBVIOUS
  <2>3. m \in Nat /\ m + 2 \in 1..Len(log[Inventory])
    <3>1. m \in Nat /\ m + 1 <= Revision(Inventory)
      BY <1>14, PreparedAt DEF Finished
    <3>2. Len(log[Inventory]) \in Nat /\ Revision(Inventory) = Len(log[Inventory]) - 1
      BY <1>1, LengthOf
    <3>3. \A j, k \in Nat : j + 1 <= k - 1 => j + 2 \in 1..k
      OBVIOUS
    <3> QED
      BY <3>1, <3>2, <3>3
  <2>4. CASE a.event.type = "completed"
    <3>1. log[Inventory][m + 2] = InventoryEvent(c)
      BY <1>14, <2>4 DEF Finished
    <3>2. m + 2 \in InventoryOf(o)
      BY <2>3, <3>1 DEF InventoryOf, InventoryEvent, Event
    <3>3. OutcomeOf(o) = "completed" /\ OutcomeOf(o)' = "completed"
      BY <1>1, <1>5, <3>2 DEF OutcomeOf
    <3> QED
      BY <1>5, <1>6, <2>2, <3>3, NothingSeen
  <2>5. CASE a.event.type = "conflicted"
    <3>1. log[Inventory][m + 2] # InventoryEvent(c)
      BY <1>14, <2>5 DEF Finished
    <3>2. InventoryOf(o) = {}
      <4> SUFFICES ASSUME NEW i \in InventoryOf(o) PROVE FALSE
        OBVIOUS
      <4>1. m = i - 2 /\ i \in 1..Len(log[Inventory]) /\ log[Inventory][i].id = o
        BY <1>1, InInventory DEF InventoryOf
      <4>2. i = m + 2 /\ i > 1
        BY <2>3, <4>1
      <4>3. PICK d \in Commands : log[Inventory][i] = InventoryEvent(d) /\ PreparedBy(d)
        BY <4>1, <4>2 DEF LogInv, InventoryOrdered
      <4>4. d.id = o
        BY <4>1, <4>3 DEF InventoryEvent, Event
      <4>5. d = c
        BY <2>1, <4>3, <4>4 DEF PreparedBy, Claimed
      <4> QED
        BY <3>1, <4>2, <4>3, <4>5
    <3>3. OutcomeOf(o) = "none"
      BY <1>8, <2>1, <3>2 DEF Decided
    <3>4. OutcomeOf(o)' = "conflicted"
      BY <1>8, <1>9, <2>5, <3>2 DEF Decided
    <3> QED
      BY <1>5, <1>6, <2>2, <3>3, <3>4, TurnDownSeen
  <2> QED
    BY <1>14, <2>4, <2>5 DEF Finished
<1> QED
  BY <1>1, <1>11, <1>13, <1>14 DEF ProperFor

LEMMA ServiceInitially ==
    ASSUME Init
    PROVE  Service!ServiceInit
<1>1. Inv /\ log = [s \in Streams |-> <<>>]
  BY InvInit DEF Init
<1>2. log[Inventory] = <<>> /\ \A o \in OpIds : log[o] = <<>>
  BY <1>1, StreamsOf
<1>3. read_inventory(log[Inventory]) = NotCreatedYet
  BY <1>2, ReadNothing
<1>4. Free = Available /\ Holding = {}
  BY <1>2, <1>3 DEF Free, Holding, Inventoried, NotCreatedYet
<1>5. ASSUME NEW o \in OpIds
      PROVE  ClaimedOf(o) = NoCommand /\ OutcomeOf(o) = "none"
  <2>1. InventoryOf(o) = {}
    BY <1>2 DEF InventoryOf
  <2> QED
    BY <1>2, <2>1 DEF ClaimedOf, OutcomeOf
<1> QED
  BY <1>4, <1>5 DEF Service!ServiceInit, ClaimedOf, OutcomeOf, Free, Holding, Requested

LEMMA ServiceStep ==
    ASSUME Inv, [Next]_vars
    PROVE  [Service!ServiceNext]_(Service!serviceVars)
<1>1. Inv' /\ LogInv /\ LogInv'
  BY InvStep DEF Inv
<1>2. CASE UNCHANGED log
  <2>1. UNCHANGED Service!serviceVars
    <3>1. log' = log
      BY <1>2
    <3>2. /\ Free' = Free /\ Holding' = Holding
          /\ \A o \in OpIds : InventoryOf(o)' = InventoryOf(o)
      BY <3>1, InventorySeen
    <3>3. ASSUME NEW o \in OpIds
          PROVE  ClaimedOf(o)' = ClaimedOf(o) /\ OutcomeOf(o)' = OutcomeOf(o)
      BY <3>1, <3>2, OperationSeen
    <3> QED
      BY <3>2, <3>3, NothingSeen
  <2> QED
    BY <2>1
<1>3. CASE \E a : Proper(a) /\ Fits(a) /\ Write(a)
  <2>1. PICK a : Proper(a) /\ Fits(a) /\ Write(a)
    BY <1>3
  <2>2. CASE a = NoAppend
    BY <1>1, <2>1, <2>2, CreationSeen
  <2>3. ASSUME NEW c \in Commands, ProperFor(c, a)
        PROVE  [Service!ServiceNext]_(Service!serviceVars)
    <3>1. CASE a.stream = Inventory
      <4>1. PreparedBy(c) /\ a.expected = log[c.id][2].body /\ a.event = InventoryEvent(c)
        BY <2>3, <3>1, StreamsOf DEF ProperFor
      <4>2. Service!Reserve(c) \/ Service!Release(c)
        BY <1>1, <2>1, <3>1, <4>1, InventoryWriteSeen
      <4> QED
        BY <4>2 DEF Service!ServiceNext
    <3>2. CASE a.stream = c.id
      <4>1. Service!Claim(c) \/ Service!TurnDown(c) \/ UNCHANGED Service!serviceVars
        BY <1>1, <2>1, <2>3, <3>2, OperationWriteSeen
      <4> QED
        BY <4>1 DEF Service!ServiceNext
    <3> QED
      BY <2>3, <3>1, <3>2 DEF ProperFor
  <2> QED
    BY <2>1, <2>2, <2>3 DEF Proper
<1> QED
  BY <1>2, <1>3, LogStep

\* The workflow does what ReservationService promises: an operation is claimed once
\* and decided once, and a completed one changes the stock in the one step that
\* appends its event, on the stock of that moment.
THEOREM ImplementsServiceCorrect == Spec => ImplementsService
<1>1. Init => Service!ServiceInit
  BY ServiceInitially
<1>2. Inv /\ [Next]_vars => [Service!ServiceNext]_(Service!serviceVars)
  BY ServiceStep
<1> QED
  BY <1>1, <1>2, InvCorrect, PTL DEF Spec, ImplementsService, Service!ServiceSpec

===============================================================================
