-------------------------------- MODULE MCValues -------------------------------
(* A client is configured from any of the connection strings; with one of them *)
(* it writes and reads a few events, with another the metadata of a stream.    *)
EXTENDS Settings, Events

vars == <<sVars, eVars>>

-----------------------------------------------------------------------------

MCLowerCase ==
    [MaxDiscoverAttempts |-> "maxdiscoverattempts", GOSSIPTIMEOUT |-> "gossiptimeout",
     TLS |-> "tls", nOdEpReFeReNcE |-> "nodepreference", Follower |-> "follower",
     keepAliveInterval |-> "keepaliveinterval", keepAliveTimeout |-> "keepalivetimeout",
     defaultDeadline |-> "defaultdeadline", userCertFile |-> "usercertfile",
     userKeyFile |-> "userkeyfile", TraceParent |-> "traceparent"]

Seed(host, port) == [host |-> host, port |-> port]
NumberOf(name, n) == [name |-> name, text |-> "number", number |-> n]
TextOf(name, text) == [name |-> name, text |-> text, number |-> NotANumber]

\* No user, one with a password, and users with commas in the name or the password.
Users ==
    {NoUser, [name |-> <<"user">>, password |-> "plain"],
     [name |-> <<"us", "er">>, password |-> "none"],
     [name |-> <<"us", "er">>, password |-> "plain"],
     [name |-> <<"user">>, password |-> "commas"]}

\* Up to three hosts, each with any port or none.
HostLists == UNION {[1..n -> {Seed("a", NoPort), Seed("b", 1111), Seed("c", BadPort)}] : n \in 0..3}

Urls ==
    [scheme : {"esdb", "esdb+discover", "http"}, user : Users, hosts : HostLists,
     path : {<<>>, <<"">>, <<"p">>}, params : {<<>>}]

Params ==
    {NumberOf("MaxDiscoverAttempts", 7), TextOf("maxdiscoverattempts", "word"),
     NumberOf("discoveryinterval", -1), NumberOf("GOSSIPTIMEOUT", 1),
     TextOf("TLS", "false"), TextOf("tlsverifycert", "no"),
     TextOf("nOdEpReFeReNcE", "Follower"), TextOf("nodepreference", "random"),
     TextOf("nodepreference", "any"), TextOf("nodepreference", "leader,random"),
     TextOf("connectionname", "name"), TextOf("connectionname", "x,y"),
     TextOf("tls", "true,false"),
     TextOf("userCertFile", "file"), TextOf("userKeyFile", "file"),
     TextOf("tlscafile", "p,q/file"), TextOf("dnslookuptype", "srv")}
    \cup {NumberOf(name, n) : name \in {"keepAliveInterval", "keepAliveTimeout"},
                              n \in {-33, -1, 0, 9999, 10000}}
    \cup {NumberOf("defaultDeadline", n) : n \in {-2, -1, 0, 1}}

MCSlashed ==
    [t \in {"x,y", "p,q/file", "leader,random", "true,false"} |->
        CASE t = "x,y" -> "x/y" [] t = "p,q/file" -> "p/q/file"
          [] t = "leader,random" -> "leader/random" [] t = "true,false" -> "true/false"]

StringOf(hosts, params) ==
    [scheme |-> "esdb", user |-> NoUser, hosts |-> hosts, path |-> <<>>, params |-> params]
Configured(params) == StringOf(<<Seed("a", NoPort)>>, params)

\* Strings with parameters are URLs, or have hosts with ports.
MCStrings ==
    Urls \cup
    {StringOf(hosts, params) :
        hosts \in {<<Seed("a", NoPort)>>, <<Seed("a", 1111), Seed("b", NoPort)>>},
        params \in UNION {[1..n -> Params] : n \in 0..2}}

MCCustoms ==
    {Empty, <<"opaque">>, Object([tenant |-> <<"text", "north">>]),
     Object([TraceParent |-> <<"span", 0>>, tenant |-> <<"number", 1>>])}

MCCalls ==
    {<<"set", "max_count", 12>>, <<"set", "max_age", 3>>, <<"set", "truncate_before", 1>>,
     <<"set", "cache_control", 4>>, <<"set", "acl", UserStream>>, <<"set", "acl", SystemStream>>,
     <<"role", "$r", "admin">>, <<"role", "$r", "ops">>, <<"role", "$mw", "admin">>,
     <<"property", "foo", <<"text", "bar">>>>, <<"property", "$maxCount", <<"number", 3>>>>}

-----------------------------------------------------------------------------

Init == SettingsInit /\ EventsInit

Next ==
    \/ SettingsNext /\ UNCHANGED eVars
    \/ /\ parsing = "done" /\ UNCHANGED sVars
       /\ \/ string = Configured(<<>>) /\ EventsNext
          \/ string = Configured(<<TextOf("TLS", "false")>>) /\ MetadataNext

Spec == Init /\ [][Next]_vars

===============================================================================
