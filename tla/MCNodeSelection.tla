---------------------------- MODULE MCNodeSelection ----------------------------
(* A small instance of NodeSelection: the i-th member of a gossip is node i. *)
EXTENDS NodeSelection

CONSTANTS s1, s2, n1, n2, n3

TwoSeeds == {s1, s2}
ThreeNodes == {n1, n2, n3}
AllPreferences == {"Leader", "Follower", "Random", "ReadOnlyReplica"}

\* A leader, dead or alive, a follower, a replica, a node that has shut down, a state of
\* a later server, a member without an endpoint, and one whose instance id is no uuid.
Kinds ==
    {<<Leader, TRUE, TRUE, "uuid">>, <<Leader, FALSE, TRUE, "uuid">>,
     <<Follower, TRUE, TRUE, "uuid">>, <<PreReadOnlyReplica, TRUE, TRUE, "uuid">>,
     <<Shutdown, TRUE, TRUE, "uuid">>, <<16, TRUE, TRUE, "uuid">>,
     <<Follower, TRUE, FALSE, "uuid">>, <<Follower, TRUE, TRUE, "malformed">>}

Serving ==
    {<<Leader, TRUE, TRUE, "uuid">>, <<Follower, TRUE, TRUE, "uuid">>,
     <<PreReadOnlyReplica, TRUE, TRUE, "uuid">>}

\* Any two members, and three that serve.
MCGossip ==
    LET node == <<n1, n2, n3>>
        Member(kind, i) == [state |-> kind[1], is_alive |-> kind[2], instance_id |-> kind[4],
                            http_end_point |-> IF kind[3] THEN node[i] ELSE NoNode]
        Lists(kinds, n) == {[i \in 1..n |-> Member(ks[i], i)] : ks \in [1..n -> kinds]}
    IN  Lists(Kinds, 0) \cup Lists(Kinds, 1) \cup Lists(Kinds, 2) \cup Lists(Serving, 3)

===============================================================================
