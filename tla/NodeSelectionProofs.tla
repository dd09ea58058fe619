-------------------------- MODULE NodeSelectionProofs --------------------------
(***************************************************************************)
(* What holds of the selection of a node for any seeds, nodes and gossip.  *)
(***************************************************************************)
EXTENDS NodeSelection, FiniteSetTheorems, SequenceTheorems, WellFoundedInduction, TLAPS

-----------------------------------------------------------------------------
(* min_by. *)

\* A set of numbers that is not empty has a least one: by this a property of every
\* number is proved from its least counterexample.
LEMMA LeastNumber ==
    ASSUME NEW T \in SUBSET Nat, T # {}
    PROVE  \E n \in T : \A m \in T : n <= m
<1>1. PICK n \in T : \A m \in T : <<m, n>> \notin OpToRel(<, Nat)
  BY NatLessThanWellFounded, WFMin, Zenon
<1>2. \A m \in T : ~(m < n)
  BY <1>1 DEF OpToRel
<1> QED
  BY <1>2

\* f is what min_by may have kept after each of the first n members.
IsKept(f, p, members, n) ==
    f = [k \in 0..n |-> IF k = 0 THEN {} ELSE Compared(p, members, f[k - 1], k)]

LEMMA KeptExists ==
    ASSUME NEW p, NEW members, NEW n \in Nat
    PROVE  \E f : IsKept(f, p, members, n)
<1> DEFINE T == {m \in Nat : \A f : ~IsKept(f, p, members, m)}
<1> SUFFICES ASSUME T # {} PROVE FALSE
  OBVIOUS
<1>1. PICK m \in T : \A k \in T : m <= k
  <2>1. T \in SUBSET Nat
    OBVIOUS
  <2> QED
    BY <2>1, LeastNumber
<1>2. m \in Nat /\ \A f : ~IsKept(f, p, members, m)
  BY <1>1
<1>3. m # 0
  <2>1. IsKept([k \in 0..0 |-> {}], p, members, 0)
    BY DEF IsKept
  <2> QED
    BY <1>2, <2>1
<1>4. PICK f : IsKept(f, p, members, m - 1)
  <2>1. m - 1 \in Nat /\ ~(m <= m - 1)
    BY <1>2, <1>3
  <2>2. m - 1 \notin T
    BY <1>1, <2>1
  <2> QED
    BY <2>1, <2>2
<1> DEFINE g == [k \in 0..m |-> IF k = m THEN Compared(p, members, f[m - 1], m) ELSE f[k]]
<1>5. ASSUME NEW k \in 0..m
      PROVE  g[k] = IF k = 0 THEN {} ELSE Compared(p, members, g[k - 1], k)
  <2>1. CASE k = m
    <3>1. m - 1 \in 0..m /\ m - 1 # m
      BY <1>2, <1>3
    <3>2. g[m - 1] = f[m - 1]
      BY <3>1
    <3> QED
      BY <1>3, <2>1, <3>2
  <2>2. CASE k # m
    <3>1. k \in 0..(m - 1) /\ g[k] = f[k]
      BY <1>2, <2>2
    <3>2. f[k] = IF k = 0 THEN {} ELSE Compared(p, members, f[k - 1], k)
      BY <1>4, <3>1 DEF IsKept
    <3>3. k # 0 => k - 1 \in 0..m /\ k - 1 # m
      BY <1>2, <2>2
    <3> QED
      BY <3>1, <3>2, <3>3
  <2> QED
    BY <2>1, <2>2
<1>6. IsKept(g, p, members, m)
  BY <1>5 DEF IsKept
<1> QED
  BY <1>2, <1>6

\* MinBy is the last of what it may have kept.
LEMMA MinByIsKept ==
    ASSUME NEW p, NEW members, Len(members) \in Nat
    PROVE  \E f : IsKept(f, p, members, Len(members)) /\ MinBy(p, members) = f[Len(members)]
<1>1. \E f : f = [k \in 0..Len(members) |->
                    IF k = 0 THEN {} ELSE Compared(p, members, f[k - 1], k)]
  <2>1. PICK f : IsKept(f, p, members, Len(members))
    BY KeptExists
  <2> QED
    BY <2>1 DEF IsKept
<1> QED
  BY <1>1 DEF MinBy, IsKept

Preferred(p, members) ==
    {i \in 1..Len(members) : members[i].is_alive /\ match_preference(p, members[i].state)}

\* What holds of the places S that min_by may have kept after the n-th member: they
\* are eligible, there is one if there could be, and if a preferred member was seen
\* all of them are preferred.
GoodSoFar(p, members, n, S) ==
    /\ S \subseteq Eligible(members)
    /\ (\E i \in Eligible(members) : i <= n) => S # {}
    /\ (\E i \in Preferred(p, members) : i <= n) => S \subseteq Preferred(p, members)

\* A preferred member is one that passes the filters.
LEMMA PreferredServe ==
    ASSUME NEW p, NEW members
    PROVE  Preferred(p, members) \subseteq Eligible(members)
BY DEF Preferred, Eligible, match_preference, allowed_states, Leader, Follower,
   ReadOnlyReplica, ReadOnlyLeaderLess, PreReadOnlyReplica, Manager, ShuttingDown, Shutdown

\* One comparison, which is no order: whatever is drawn, nothing that matters is lost.
LEMMA ComparedIsGood ==
    ASSUME NEW p, NEW members, Len(members) \in Nat, NEW n \in 1..Len(members),
           NEW S, GoodSoFar(p, members, n - 1, S)
    PROVE  GoodSoFar(p, members, n, Compared(p, members, S, n))
<1> DEFINE C == Compared(p, members, S, n)
<1>1. \A i \in Nat : i <= n => i <= n - 1 \/ i = n
  OBVIOUS
<1>2. /\ Eligible(members) \subseteq Nat /\ Preferred(p, members) \subseteq Nat
      /\ Preferred(p, members) \subseteq Eligible(members)
  <2>1. Eligible(members) \subseteq Nat
    BY DEF Eligible
  <2> QED
    BY <2>1, PreferredServe
<1>3. CASE n \notin Eligible(members)
  <2>1. C = S
    BY <1>3 DEF Compared
  <2> QED
    BY <1>1, <1>2, <1>3, <2>1 DEF GoodSoFar
<1>4. CASE n \in Eligible(members)
  <2>1. C = {k \in S : "Less" \in Orderings(p, members[k], members[n])}
            \cup {k \in {n} : \/ S = {}
                              \/ \E j \in S : "Greater" \in Orderings(p, members[j], members[n])}
    BY <1>4 DEF Compared
  <2>2. C \subseteq Eligible(members)
    BY <1>4, <2>1 DEF GoodSoFar
  <2>3. C # {}
    BY <2>1 DEF Orderings
  <2>4. ASSUME NEW i \in Preferred(p, members), i <= n, NEW k \in C
        PROVE  k \in Preferred(p, members)
    <3>1. CASE k = n
      <4>1. CASE n \in Preferred(p, members)
        BY <3>1, <4>1
      <4>2. CASE n \notin Preferred(p, members)
        <5>1. i <= n - 1 /\ S \subseteq Preferred(p, members) /\ S # {}
          BY <1>1, <1>2, <2>4, <4>2 DEF GoodSoFar
        <5>2. CASE n \in S
          BY <4>2, <5>1, <5>2
        <5>3. CASE n \notin S
          <6>1. PICK j \in S : "Greater" \in Orderings(p, members[j], members[n])
            BY <2>1, <3>1, <5>1, <5>3
          <6>2. match_preference(p, members[j].state) /\ p # "Random"
            BY <5>1 DEF Preferred, match_preference
          <6>3. ~match_preference(p, members[n].state)
            BY <1>4, <4>2 DEF Preferred, Eligible
          <6> QED
            BY <6>1, <6>2, <6>3 DEF Orderings, TossUp
        <5> QED
          BY <5>2, <5>3
      <4> QED
        BY <4>1, <4>2
    <3>2. CASE k # n
      <4>1. k \in S /\ "Less" \in Orderings(p, members[k], members[n])
        BY <2>1, <3>2
      <4>2. CASE i = n
        <5>1. match_preference(p, members[n].state) /\ p # "Random"
          BY <4>2 DEF Preferred, match_preference
        <5>2. match_preference(p, members[k].state)
          BY <4>1, <5>1 DEF Orderings, TossUp
        <5> QED
          BY <4>1, <5>2 DEF GoodSoFar, Eligible, Preferred
      <4>3. CASE i # n
        <5>1. i <= n - 1
          BY <1>1, <1>2, <2>4, <4>3
        <5> QED
          BY <4>1, <5>1 DEF GoodSoFar
      <4> QED
        BY <4>2, <4>3
    <3> QED
      BY <3>1, <3>2
  <2> QED
    BY <2>2, <2>3, <2>4 DEF GoodSoFar
<1> QED
  BY <1>3, <1>4

\* Whatever the order of the members and the numbers drawn, min_by has a member if one
\* is eligible, an eligible one, and a preferred one if there is one.
LEMMA MinByIsGood ==
    ASSUME NEW p, NEW members, Len(members) \in Nat
    PROVE  GoodSoFar(p, members, Len(members), MinBy(p, members))
<1> PICK N : N = Len(members)
  OBVIOUS
<1>1. PICK f : IsKept(f, p, members, N) /\ MinBy(p, members) = f[N]
  BY MinByIsKept
<1> DEFINE T == {n \in 0..N : ~GoodSoFar(p, members, n, f[n])}
<1> SUFFICES ASSUME T # {} PROVE FALSE
  BY <1>1
<1>2. PICK n \in T : \A k \in T : n <= k
  <2>1. T \in SUBSET Nat
    OBVIOUS
  <2> QED
    BY <2>1, LeastNumber
<1>3. n \in 0..N /\ ~GoodSoFar(p, members, n, f[n])
  BY <1>2
<1>4. f[n] = IF n = 0 THEN {} ELSE Compared(p, members, f[n - 1], n)
  BY <1>1, <1>3 DEF IsKept
<1>5. CASE n = 0
  <2>1. GoodSoFar(p, members, 0, {})
    BY DEF GoodSoFar, Eligible, Preferred
  <2> QED
    BY <1>3, <1>4, <1>5, <2>1
<1>6. CASE n # 0
  <2>1. n - 1 \in 0..N /\ ~(n <= n - 1) /\ n \in 1..Len(members)
    BY <1>3, <1>6
  <2>2. GoodSoFar(p, members, n - 1, f[n - 1])
    BY <1>2, <2>1
  <2> QED
    BY <1>3, <1>4, <1>6, <2>1, <2>2, ComparedIsGood
<1> QED
  BY <1>5, <1>6

-----------------------------------------------------------------------------
(* The selection. *)

Member == [instance_id : {"uuid", "malformed"}, state : Int, is_alive : BOOLEAN,
           http_end_point : Node \cup {NoNode}]

LEMMA GossipMembers ==
    ASSUME NEW members \in Gossip
    PROVE  /\ Len(members) \in Nat
           /\ \A i \in 1..Len(members) : members[i] \in Member
<1>1. members \in Seq(Member)
  BY NodeSelectionAssumption DEF Member
<1> QED
  BY <1>1, ElementOfSeq

\* Nothing can be selected from no answer.
LEMMA NoAnswerIsEmpty == Eligible(NoAnswer) = {} /\ Len(NoAnswer) = 0
BY DEF Eligible, NoAnswer

\* Where the node selected comes from.
Selection ==
    \/ selected = NoNode /\ from = NoAnswer
    \/ /\ pc = "done" /\ from \in Gossip
       /\ Readable(from) /\ Eligible(from) # {}
       /\ selected \in determine_best_node(preference, from)

\* Every seed was asked or is still to be; none that was asked, but the last one,
\* knew a node to serve.
Searched ==
    /\ asked \cup {candidates[i] : i \in 1..Len(candidates)} = Seeds
    /\ selected = NoNode =>
           \A s \in Seeds : Readable(answers[s]) => Eligible(answers[s]) = {}
    /\ pc = "done" /\ selected = NoNode => candidates = <<>>

Types ==
    /\ preference \in Preferences
    /\ candidates \in Seq(Seeds)
    /\ asked \subseteq Seeds
    /\ answers \in [Seeds -> Gossip \cup {NoAnswer}]
    /\ pc \in {"asking", "done", "panicked"}

IInv == Types /\ Selection /\ Searched

\* What determine_best_node answers is the endpoint of an eligible member.
LEMMA BestIsANode ==
    ASSUME NEW p, NEW members \in Gossip, Readable(members),
           NEW n \in determine_best_node(p, members)
    PROVE  /\ n \in Node
           /\ \E i \in Eligible(members) : n = members[i].http_end_point
<1>1. PICK i \in MinBy(p, members) : n = members[i].http_end_point
  BY DEF determine_best_node
<1>2. i \in Eligible(members)
  BY GossipMembers, MinByIsGood DEF GoodSoFar
<1>3. i \in 1..Len(members) /\ members[i] \in Member
  BY <1>2, GossipMembers DEF Eligible
<1>4. n \in Node
  BY <1>1, <1>3 DEF Readable, IsMember, Member
<1> QED
  BY <1>1, <1>2, <1>4

LEMMA IInvInit ==
    ASSUME Init
    PROVE  IInv
<1>1. Cardinality(Seeds) \in Nat
  BY NodeSelectionAssumption, FS_CardinalityType
<1> PICK N : N = Cardinality(Seeds)
  OBVIOUS
<1>2. candidates \in [1..N -> Seeds]
  BY DEF Init, Shuffles
<1>3. candidates \in Seq(Seeds) /\ Len(candidates) = N
  BY <1>1, <1>2
<1>4. {candidates[i] : i \in 1..N} = Seeds
  <2>1. candidates \in Injection(1..N, Seeds)
    BY <1>2 DEF Init, Shuffles, Injection, IsInjective
  <2>2. Cardinality(1..N) = N
    BY <1>1, FS_Interval
  <2>3. candidates \in Surjection(1..N, Seeds)
    BY <2>1, <2>2, NodeSelectionAssumption, FS_Injection
  <2> QED
    BY <1>2, <2>3 DEF Surjection
<1>5. answers = [s \in Seeds |-> NoAnswer]
  BY DEF Init
<1> QED
  BY <1>3, <1>4, <1>5, NoAnswerIsEmpty DEF Init, IInv, Types, Selection, Searched

\* The next seed is asked, and has nothing to offer.
LEMMA GoOnStep ==
    ASSUME IInv, Ask, GoOn, answers' \in [Seeds -> Gossip \cup {NoAnswer}],
           \A s \in Seeds : Readable(answers'[s]) => Eligible(answers'[s]) = {}
    PROVE  IInv'
<1>1. /\ candidates \in Seq(Seeds) /\ candidates # <<>> /\ pc = "asking"
      /\ Head(candidates) \in Seeds
  BY DEF IInv, Types, Ask
<1>2. Tail(candidates) \in Seq(Seeds) /\ Len(Tail(candidates)) = Len(candidates) - 1
      /\ \A i \in 1..(Len(candidates) - 1) : Tail(candidates)[i] = candidates[i + 1]
      /\ Head(candidates) = candidates[1] /\ Len(candidates) \in Nat \ {0}
  BY <1>1, HeadTailProperties
<1>3. {candidates[i] : i \in 1..Len(candidates)}
         = {Head(candidates)} \cup {Tail(candidates)[i] : i \in 1..Len(Tail(candidates))}
  <2>1. \A i \in 1..Len(candidates) : i = 1 \/ i - 1 \in 1..(Len(candidates) - 1)
    BY <1>2
  <2>2. \A i \in 1..Len(candidates) : i # 1 => Tail(candidates)[i - 1] = candidates[i]
    BY <1>2, <2>1
  <2>3. \A i \in 1..(Len(candidates) - 1) : i + 1 \in 1..Len(candidates)
    BY <1>2
  <2> QED
    BY <1>2, <2>1, <2>2, <2>3
<1>4. Types'
  BY <1>1, <1>2 DEF IInv, Types, Ask, GoOn
<1>5. Selection'
  BY DEF IInv, Selection, Ask, GoOn
<1>6. Searched'
  <2>1. asked' \cup {candidates'[i] : i \in 1..Len(candidates')} = Seeds
    BY <1>3 DEF IInv, Searched, Ask, GoOn
  <2> QED
    BY <1>1, <2>1 DEF Searched, GoOn
<1> QED
  BY <1>4, <1>5, <1>6 DEF IInv

LEMMA IInvStep ==
    ASSUME IInv, [Next]_vars
    PROVE  IInv'
<1>1. CASE CandidateFails
  <2>1. pc = "asking" /\ selected = NoNode /\ UNCHANGED answers
    BY <1>1 DEF CandidateFails, Ask, IInv, Selection
  <2> QED
    BY <1>1, <2>1, GoOnStep DEF CandidateFails, IInv, Types, Searched
<1>2. ASSUME NEW members \in Gossip, Ask,
             answers' = [answers EXCEPT ![Head(candidates)] = members],
             IF Readable(members) /\ Eligible(members) # {}
             THEN /\ selected' \in determine_best_node(preference, members)
                  /\ from' = members
                  /\ pc' = "done"
                  /\ UNCHANGED candidates
             ELSE GoOn
      PROVE  IInv'
  <2>1. /\ pc = "asking" /\ selected = NoNode /\ Head(candidates) \in Seeds
        /\ answers \in [Seeds -> Gossip \cup {NoAnswer}]
    BY <1>2 DEF Ask, IInv, Selection, Types
  <2>2. answers' \in [Seeds -> Gossip \cup {NoAnswer}]
    BY <1>2, <2>1
  <2>3. CASE Readable(members) /\ Eligible(members) # {}
    <3>1. selected' \in Node /\ selected' # NoNode
      BY <1>2, <2>3, BestIsANode, NodeSelectionAssumption
    <3>2. Selection'
      BY <1>2, <2>3 DEF Selection, Ask
    <3>3. Types'
      BY <1>2, <2>1, <2>2, <2>3 DEF IInv, Types, Ask
    <3>4. asked' = asked \cup {Head(candidates)} /\ candidates' = candidates
      BY <1>2, <2>3 DEF Ask
    <3>5. Searched'
      BY <2>1, <3>1, <3>4 DEF IInv, Searched
    <3> QED
      BY <3>2, <3>3, <3>5 DEF IInv
  <2>4. CASE ~(Readable(members) /\ Eligible(members) # {})
    <3>1. \A s \in Seeds : Readable(answers'[s]) => Eligible(answers'[s]) = {}
      BY <1>2, <2>1, <2>4 DEF IInv, Searched
    <3> QED
      BY <1>2, <2>2, <2>4, <3>1, GoOnStep
  <2> QED
    BY <2>3, <2>4
<1>3. CASE Exhausted
  BY <1>3 DEF Exhausted, IInv, Types, Selection, Searched
<1>4. CASE UNCHANGED vars
  BY <1>4 DEF vars, IInv, Types, Selection, Searched
<1>5. CASE CandidatePanics
  <2>1. PICK members \in Gossip :
           /\ Panics(members)
           /\ answers' = [answers EXCEPT ![Head(candidates)] = members]
    BY <1>5 DEF CandidatePanics
  <2>2. /\ pc = "asking" /\ pc' = "panicked" /\ Head(candidates) \in Seeds
        /\ asked' = asked \cup {Head(candidates)}
        /\ UNCHANGED <<preference, candidates, selected, from>>
    BY <1>5 DEF CandidatePanics, Ask, IInv, Types
  <2>3. ~Readable(members)
    BY <2>1 DEF Panics, Readable, IsMember
  <2>4. Types'
    BY <2>1, <2>2 DEF IInv, Types
  <2>5. Selection'
    BY <2>2 DEF IInv, Selection
  <2>6. Searched'
    <3>1. Head(candidates) \in {candidates[i] : i \in 1..Len(candidates)}
      BY <1>5, HeadTailProperties DEF CandidatePanics, Ask, IInv, Types
    <3>2. asked' \cup {candidates'[i] : i \in 1..Len(candidates')} = Seeds
      BY <2>2, <3>1 DEF IInv, Searched
    <3>3. answers \in [Seeds -> Gossip \cup {NoAnswer}]
      BY DEF IInv, Types
    <3>4. \A s \in Seeds : answers'[s] = IF s = Head(candidates) THEN members ELSE answers[s]
      BY <2>1, <2>2, <3>3
    <3> QED
      BY <2>2, <2>3, <3>2, <3>4 DEF IInv, Searched
  <2> QED
    BY <2>4, <2>5, <2>6 DEF IInv
<1> QED
  BY <1>1, <1>2, <1>3, <1>4, <1>5 DEF Next, CandidateAnswers

THEOREM SelectionCorrect == Spec => []IInv
BY IInvInit, IInvStep, PTL DEF Spec

-----------------------------------------------------------------------------
(* What the run checks of one instance. *)

\* A selection stays in its type, and what it selects has an endpoint
\* (grpc.rs: node_selection).
THEOREM TypeCorrect == Spec => []TypeOK
<1>1. IInv => TypeOK
  <2> SUFFICES ASSUME IInv PROVE TypeOK
    OBVIOUS
  <2>1. selected \in IF from = NoAnswer THEN {NoNode} ELSE Node
    <3>1. CASE selected = NoNode /\ from = NoAnswer
      BY <3>1
    <3>2. CASE /\ from \in Gossip /\ Readable(from) /\ Eligible(from) # {}
               /\ selected \in determine_best_node(preference, from)
      BY <3>2, BestIsANode, NoAnswerIsEmpty
    <3> QED
      BY <3>1, <3>2 DEF IInv, Selection
  <2> QED
    BY <2>1 DEF IInv, Types, TypeOK
<1> QED
  BY <1>1, SelectionCorrect, PTL

\* The node selected is alive, in a state that serves clients, and a preferred one if
\* the gossip knows one, in whatever order it lists its members and whatever numbers
\* are drawn (grpc.rs: determine_best_node).
THEOREM BestNodeIsSelectedCorrect == Spec => []BestNodeIsSelected
<1>1. IInv => BestNodeIsSelected
  <2> SUFFICES ASSUME IInv PROVE BestNodeIsSelected
    OBVIOUS
  <2>1. CASE selected = NoNode /\ from = NoAnswer
    BY <2>1, NoAnswerIsEmpty DEF BestNodeIsSelected, SelectedServes, PreferenceIsHonoured
  <2>2. CASE /\ from \in Gossip /\ Readable(from) /\ Eligible(from) # {}
             /\ selected \in determine_best_node(preference, from)
    <3>1. GoodSoFar(preference, from, Len(from), MinBy(preference, from))
      BY <2>2, GossipMembers, MinByIsGood
    <3>2. PICK k \in MinBy(preference, from) : selected = from[k].http_end_point
      BY <2>2 DEF determine_best_node
    <3>3. k \in Eligible(from)
      BY <3>1 DEF GoodSoFar
    <3>4. SelectedServes
      BY <2>2, <3>2, <3>3 DEF SelectedServes, Eligible, Readable, IsMember, allowed_states
    <3>5. PreferenceIsHonoured
      <4>1. ASSUME NEW i \in Preferred(preference, from)
            PROVE  k \in Preferred(preference, from)
        <5>1. i <= Len(from)
          BY <2>2, GossipMembers DEF Preferred
        <5> QED
          BY <3>1, <5>1 DEF GoodSoFar
      <4> QED
        BY <3>2, <4>1 DEF PreferenceIsHonoured, Preferred
    <3> QED
      BY <3>4, <3>5 DEF BestNodeIsSelected
  <2> QED
    BY <2>1, <2>2 DEF IInv, Selection
<1> QED
  BY <1>1, SelectionCorrect, PTL

\* No node is found only when every seed was asked and none knew one to serve.
THEOREM GivesUpLastCorrect == Spec => []GivesUpLast
<1>1. IInv => GivesUpLast
  <2> SUFFICES ASSUME IInv, pc = "done", selected = NoNode
               PROVE  /\ asked = Seeds
                      /\ \A s \in Seeds : Readable(answers[s]) => Eligible(answers[s]) = {}
    BY DEF GivesUpLast
  <2>1. candidates = <<>>
    BY DEF IInv, Searched
  <2>2. {candidates[i] : i \in 1..Len(candidates)} = {}
    BY <2>1
  <2> QED
    BY <2>2 DEF IInv, Searched
<1> QED
  BY <1>1, SelectionCorrect, PTL

===============================================================================
