----------------------------- MODULE NodeSelection ----------------------------
(***************************************************************************)
(* The selection of a node in a cluster, trogon-eventstore/src/grpc.rs     *)
(* (node_selection, determine_best_node) and operations/gossip.rs (read):  *)
(* the seeds are asked for their gossip one after the other, in a random   *)
(* order, until one of them knows a node the client may connect to.        *)
(*                                                                         *)
(* No call of next() ever stores previous_candidates, so every selection   *)
(* starts from the seeds, and failed_endpoint excludes nobody.             *)
(***************************************************************************)
EXTENDS Integers, Sequences, FiniteSets

CONSTANTS
    Seeds,        \* the seeds of the cluster, or its DNS name alone
    Node,         \* endpoints
    NoNode,       \* no endpoint
    Preferences,  \* the values of nodePreference to try
    Gossip        \* the lists of members a seed may answer with

ASSUME NodeSelectionAssumption ==
    /\ IsFiniteSet(Seeds)
    /\ NoNode \notin Node
    /\ Preferences \subseteq {"Leader", "Follower", "Random", "ReadOnlyReplica"}
    /\ Gossip \subseteq Seq([instance_id : {"uuid", "malformed"}, state : Int,
                             is_alive : BOOLEAN, http_end_point : Node \cup {NoNode}])

VARIABLES
    preference,  \* settings.preference
    candidates,  \* the seeds not asked yet, shuffled
    asked,       \* history: the seeds asked
    answers,     \* history: what each of them answered
    selected,    \* the result: a node, or NoNode
    from,        \* history: the gossip the result comes from
    pc           \* "asking", "done" or "panicked"

vars == <<preference, candidates, asked, answers, selected, from, pc>>

-----------------------------------------------------------------------------
(* The states of a node, by their number on the wire. *)

Follower == 6
Leader == 8
Manager == 9
ShuttingDown == 10
Shutdown == 11
ReadOnlyLeaderLess == 12
PreReadOnlyReplica == 13
ReadOnlyReplica == 14
VNodeState == 0..15

match_preference(p, state) ==
    \/ p = "Leader" /\ state = Leader
    \/ p = "Follower" /\ state = Follower
    \/ /\ p = "ReadOnlyReplica"
       /\ state \in {ReadOnlyReplica, ReadOnlyLeaderLess, PreReadOnlyReplica}

allowed_states(state) == state \notin {Manager, ShuttingDown, Shutdown}

-----------------------------------------------------------------------------

IsMember(member) ==
    /\ member.state \in VNodeState
    /\ member.instance_id = "uuid"
    /\ member.http_end_point # NoNode

\* Mutation of Readable: the endpoint is not looked at.
ReadableAnywhere(members) ==
    \A i \in 1..Len(members) :
        members[i].state \in VNodeState /\ members[i].instance_id = "uuid"

\* gossip::read: one member with an unknown state or no endpoint spoils the answer.
Readable(members) == \A i \in 1..Len(members) : IsMember(members[i])

\* The conversion of an instance id that is no uuid is unwrapped, behind the test of
\* the state and ahead of that of the endpoint.
Panics(members) ==
    \E i \in 1..Len(members) :
        /\ members[i].state \in VNodeState /\ members[i].instance_id = "malformed"
        /\ \A j \in 1..(i - 1) : IsMember(members[j])

\* The places of the members that pass the filters.
Eligible(members) ==
    {i \in 1..Len(members) : members[i].is_alive /\ allowed_states(members[i].state)}

\* Any two members when there is no preference, and two preferred ones.
TossUp(p, a, b) ==
    p = "Random" \/ (match_preference(p, a.state) /\ match_preference(p, b.state))

\* Mutation of Orderings: the member preferred is the greater one.
OrderingsReversed(p, a, b) ==
    IF TossUp(p, a, b) THEN {"Less", "Greater"}
    ELSE IF match_preference(p, a.state) THEN {"Greater"} ELSE {"Less"}

\* What the comparison of a and b may answer; a random number decides a toss-up.
Orderings(p, a, b) ==
    IF TossUp(p, a, b) THEN {"Less", "Greater"}
    ELSE IF match_preference(p, a.state) THEN {"Less"} ELSE {"Greater"}

\* min_by keeps the first of two members unless it is the greater one: the places
\* it may have kept after the n-th member, from those before it.
Compared(p, members, before, n) ==
    IF n \notin Eligible(members) THEN before
    ELSE {k \in before : "Less" \in Orderings(p, members[k], members[n])}
         \cup {k \in {n} : \/ before = {}
                          \/ \E j \in before :
                                "Greater" \in Orderings(p, members[j], members[n])}

MinBy(p, members) ==
    LET kept[n \in 0..Len(members)] ==
            IF n = 0 THEN {} ELSE Compared(p, members, kept[n - 1], n)
    IN  kept[Len(members)]

determine_best_node(p, members) ==
    {members[k].http_end_point : k \in MinBy(p, members)}

-----------------------------------------------------------------------------

\* The orders shuffle may put the seeds in.
Shuffles ==
    {order \in [1..Cardinality(Seeds) -> Seeds] :
        \A i, j \in 1..Cardinality(Seeds) : order[i] = order[j] => i = j}

NoAnswer == <<>>

Init ==
    /\ preference \in Preferences
    /\ candidates \in Shuffles
    /\ asked = {}
    /\ answers = [s \in Seeds |-> NoAnswer]
    /\ selected = NoNode
    /\ from = NoAnswer
    /\ pc = "asking"

\* Mutation of GoOn: the first seed ends the search.
GoOnNever == candidates' = <<>> /\ UNCHANGED <<selected, from, pc>>

\* Nothing from this seed: the next one is asked.
GoOn == candidates' = Tail(candidates) /\ UNCHANGED <<selected, from, pc>>

Ask ==
    /\ pc = "asking" /\ candidates # <<>>
    /\ asked' = asked \cup {Head(candidates)}
    /\ UNCHANGED preference

\* The call fails, or gossip_timeout passes first.
CandidateFails ==
    /\ Ask
    /\ GoOn
    /\ UNCHANGED answers

CandidateAnswers ==
    /\ Ask
    /\ \E members \in Gossip :
          /\ ~Panics(members)
          /\ answers' = [answers EXCEPT ![Head(candidates)] = members]
          /\ IF Readable(members) /\ Eligible(members) # {}
             THEN /\ selected' \in determine_best_node(preference, members)
                  /\ from' = members
                  /\ pc' = "done"
                  /\ UNCHANGED candidates
             ELSE GoOn

\* The panic unwinds the connection task.
CandidatePanics ==
    /\ Ask
    /\ \E members \in Gossip :
          /\ Panics(members)
          /\ answers' = [answers EXCEPT ![Head(candidates)] = members]
    /\ pc' = "panicked"
    /\ UNCHANGED <<candidates, selected, from>>

Exhausted ==
    /\ pc = "asking" /\ candidates = <<>>
    /\ pc' = "done"
    /\ UNCHANGED <<preference, candidates, asked, answers, selected, from>>

Next == CandidateFails \/ CandidateAnswers \/ CandidatePanics \/ Exhausted

Spec == Init /\ [][Next]_vars

-----------------------------------------------------------------------------
(* Properties. *)

\* Every variable ranges over what the code declares it to hold; what is selected
\* has an endpoint.
TypeOK ==
    /\ preference \in Preferences
    /\ candidates \in Seq(Seeds)
    /\ asked \subseteq Seeds
    /\ answers \in [Seeds -> Gossip \cup {NoAnswer}]
    /\ selected \in IF from = NoAnswer THEN {NoNode} ELSE Node
    /\ pc \in {"asking", "done", "panicked"}

\* The gossip names the node selected, alive and in a state that serves clients.
SelectedServes ==
    selected # NoNode =>
        \E i \in 1..Len(from) :
            /\ from[i].http_end_point = selected
            /\ from[i].is_alive
            /\ from[i].state \in VNodeState \ {Manager, ShuttingDown, Shutdown}

\* A preferred member is selected if there is one.
PreferenceIsHonoured ==
    LET preferred == {i \in 1..Len(from) : /\ from[i].is_alive
                                           /\ match_preference(preference, from[i].state)}
    IN  preferred # {} => \E i \in preferred : selected = from[i].http_end_point

\* The random comparison, which is no order, loses no member: whatever the order of
\* the gossip and the numbers drawn, the node selected serves clients and is a
\* preferred one if there is one.
BestNodeIsSelected == SelectedServes /\ PreferenceIsHonoured

\* The selection finds no node only after every seed was asked and none that
\* could be read knew a node to serve.
GivesUpLast ==
    pc = "done" /\ selected = NoNode =>
        /\ asked = Seeds
        /\ \A s \in Seeds :
              Readable(answers[s]) => Eligible(answers[s]) = {}

===============================================================================
