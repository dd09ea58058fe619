------------------------------ MODULE MCCommands -------------------------------
(* A small instance of Commands: two clients, a new node and an old one. *)
EXTENDS Commands

CONSTANTS c1, c2, old, new

TwoClients == {c1, c2}
TwoNodes == {old, new}

Subscription(method) == <<Subscriptions, method, {}>>
MCMethods ==
    [n \in Node |->
        IF n = new
        THEN {<<Streams, "batchappend", {}>>, <<Subscriptions, "create", {"all"}>>}
             \cup {Subscription(m) : m \in MANAGEMENT}
        ELSE {<<Subscriptions, "create", {}>>, Subscription("list")}]

\* One stream, "s", and its metadata.
MCStreams == {"s", "$$s"}
MCMetadataStream == [s \in {"s"} |-> "$$s"]
MCStrategies == {"DispatchToSingle", "RoundRobin", "Pinned", "PinnedByCorrelation"}

Stored(source, from, done, strategy) ==
    [source |-> source, from |-> from, done |-> done, strategy |-> strategy]

\* Two events in the stream and one of metadata; no group, one of each, or one the
\* HTTP interface answers with a strategy of its own.
MCServers ==
    [leader : {new}, log : {<<<<"s", -1>>, <<"$$s", -2>>, <<"s", -3>>>>},
     start : {[s \in MCStreams |-> 0]}, tombstoned : {{}},
     groups :
        {{Stored("s", 0, 1, "Pinned"), Stored(All, -1, 7, "RoundRobin")},
         {Stored("s", -1, -1, "by-tenant")}},
     projection : {[exists |-> FALSE, emit |-> FALSE, by |-> 0, touched |-> FALSE]},
     user : {FALSE}]

\* Of the commands that differ in nothing but their call, one.
OneOf(requests) == CHOOSE q \in requests : TRUE

MCRequests ==
    {append_to_stream("s", 1), set_stream_metadata("s", AnyRevision),
     read_stream("s"), read_all, get_stream_metadata("s"),
     delete_stream("s", 1), tombstone_stream("s", StreamExists),
     create_persistent_subscription("$$s", 0, "RoundRobin"),
     update_persistent_subscription(All, 5, "Pinned"),
     delete_persistent_subscription("s"),
     list_all_persistent_subscriptions, list_persistent_subscriptions_for_stream("s"),
     get_persistent_subscription_info(All),
     replay_parked_messages("s"),
     create_projection(TRUE), update_projection("off"), delete_projection, get_status,
     OneOf(projection_switches),
     resign_node, create_user, OneOf(user_changes), stats}
===============================================================================
