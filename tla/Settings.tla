------------------------------- MODULE Settings --------------------------------
(***************************************************************************)
(* ClientSettings::from_str (grpc.rs): a connection string becomes the     *)
(* settings of a client, one parameter after the other, or is refused.     *)
(*                                                                         *)
(* A string is a record of its parts: scheme, user (a name, in the pieces  *)
(* between its commas, and a password), hosts (each a name and a port,     *)
(* which may be absent or unreadable), the segments of its path, which end *)
(* at slashes or commas, and its parameters (each a name with a value, a   *)
(* text or a number).  Durations are in milliseconds.                      *)
(***************************************************************************)
EXTENDS Integers, Sequences, SequencesExt, FiniteSetsExt, Letters

CONSTANTS
    Strings,       \* the connection strings
    Slashed,       \* each text with commas, mapped to it with slashes for them
    NoPort,        \* a host without a port
    BadPort,       \* a host whose port is no 16-bit number
    NotANumber,    \* the number of a value that is none
    Forever        \* u64::MAX milliseconds

\* An optional setting that is absent, and a string without a user.
NoText == "none"
NoUser == [name |-> <<>>, password |-> "none"]

Preferences == {"follower", "random", "leader", "readonlyreplica"}

\* What a connection string is a record of.  A password with commas begins with what
\* is no port number; no word that is looked for has a comma or a slash.
ASSUME SettingsAssumption ==
    /\ NoPort # BadPort
    /\ \A s \in Strings :
        /\ s.hosts \in Seq([host : STRING, port : Nat \cup {NoPort, BadPort}])
        /\ s.user = NoUser \/ Len(s.user.name) \in Nat \ {0}
        /\ s.user.password \in {"none", "plain", "commas"}
        /\ s.path \in Seq(STRING)
        /\ s.params \in Seq([name : STRING, text : STRING, number : Int \cup {NotANumber}])
    /\ NoText \notin DOMAIN Slashed
    /\ \A text \in DOMAIN Slashed :
        /\ {text, Slashed[text]} \cap {"true", "false"} = {}
        /\ {to_lowercase(text), to_lowercase(Slashed[text])} \cap Preferences = {}

VARIABLES
    string,        \* what is parsed
    settings,      \* the settings so far
    at,            \* how many parameters are read
    parsing        \* "url", "params", "done" or "failed"

sVars == <<string, settings, at, parsing>>

-----------------------------------------------------------------------------

DefaultPort == 2113
KEEP_ALIVE_INTERVAL_IN_MS == 10000
KEEP_ALIVE_TIMEOUT_IN_MS == 10000

Default ==
    [dns_discover |-> FALSE, hosts |-> <<>>, max_discover_attempts |-> 3,
     discovery_interval |-> 500, gossip_timeout |-> 3000, preference |-> "leader",
     secure |-> TRUE, tls_verify_cert |-> TRUE, default_user_name |-> NoUser,
     keep_alive_interval |-> KEEP_ALIVE_INTERVAL_IN_MS,
     keep_alive_timeout |-> KEEP_ALIVE_TIMEOUT_IN_MS, default_deadline |-> NotANumber,
     connection_name |-> NoText, user_cert_file |-> NoText, user_key_file |-> NoText,
     tls_ca_file |-> NoText]

Endpoint(host, port) == [host |-> host, port |-> IF port = NoPort THEN DefaultPort ELSE port]

\* The rest of a connection string with several hosts is a list of gossip seeds.
parse_gossip_seeds(seeds) == [i \in DOMAIN seeds |-> Endpoint(seeds[i].host, seeds[i].port)]

Readable(seeds) == \A i \in DOMAIN seeds : seeds[i].port # BadPort

-----------------------------------------------------------------------------

(* The URL.  The crate url takes what precedes the path for one host and one  *)
(* port: of several hosts the last alone may have one.                        *)

Hosts == string.hosts
IsUrl == Readable(Hosts) /\ \A i \in 1..Len(Hosts) - 1 : Hosts[i].port = NoPort

\* What follows the first host once commas are made slashes: the other hosts,
\* and the segments of the path.
Segments ==
    Tail(Hosts) \o [i \in DOMAIN string.path |-> [host |-> string.path[i], port |-> NoPort]]

\* parse_from_url: one host with its port, or the seeds of a host with commas.
\* The port of the URL is not looked at then.
UrlHosts ==
    IF Len(Hosts) = 1 THEN parse_gossip_seeds(Hosts)
    ELSE [i \in DOMAIN Hosts |-> Endpoint(Hosts[i].host, NoPort)]

\* from_str: "esdb://host1:1234,host2:4321" is no URL; it is read again with all its
\* commas replaced, those of the user and of the parameters too.
replace(text) == IF text \in DOMAIN Slashed THEN Slashed[text] ELSE text

\* A user whose name has commas is cut off by the first: what precedes it is the host
\* of the URL, and the last piece goes with the first host, as "piece@host".
User == string.user
UserIsCut == Len(User.name) > 1
FirstHosts ==
    IF UserIsCut
    THEN [i \in 1..(Len(User.name) - 1) |-> [host |-> User.name[i], port |-> NoPort]]
         \o <<[host |-> <<Last(User.name), Hosts[1].host>>, port |-> Hosts[1].port]>>
    ELSE <<Hosts[1]>>

RewrittenHosts == parse_gossip_seeds(FirstHosts \o Segments)

KnownScheme == string.scheme \in {"esdb", "esdb+discover"}

\* Url has_host, and the path that a single URL may have.
ValidUrl == IsUrl /\ Hosts # <<>> /\ string.path \in {<<>>, <<"">>}

\* Cut off with a password, it leaves what is no host with a port.
ValidUser == User.password = "none" \/ (User.password = "plain" /\ ~UserIsCut)
ValidRewritten == ~IsUrl /\ Len(Hosts) > 1 /\ Readable(Hosts) /\ ValidUser

WithUrl(hosts, user) ==
    [Default EXCEPT !.dns_discover = string.scheme = "esdb+discover",
                    !.default_user_name = user, !.hosts = hosts]

ParseUrl ==
    /\ parsing = "url"
    /\ UNCHANGED <<string, at>>
    /\ \/ /\ KnownScheme /\ ValidUrl
          /\ settings' = WithUrl(UrlHosts, User) /\ parsing' = "params"
       \/ /\ KnownScheme /\ ValidRewritten
          /\ settings' = WithUrl(RewrittenHosts, IF UserIsCut THEN NoUser ELSE User)
          /\ parsing' = "params"
       \/ /\ ~(KnownScheme /\ (ValidUrl \/ ValidRewritten))
          /\ parsing' = "failed" /\ UNCHANGED settings

-----------------------------------------------------------------------------

(* The parameters. *)

param == string.params[at + 1]
Name == to_lowercase(param.name)
number == param.number

\* A text in the string that is parsed.
query_text == IF IsUrl THEN param.text ELSE replace(param.text)

Read(names) == parsing = "params" /\ at < Len(string.params) /\ Name \in names

Set(field, value) ==
    /\ settings' = [settings EXCEPT ![field] = value]
    /\ at' = at + 1
    /\ UNCHANGED <<string, parsing>>
Skip == at' = at + 1 /\ UNCHANGED <<string, settings, parsing>>
Refuse == parsing' = "failed" /\ UNCHANGED <<string, settings, at>>

Fields ==
    [maxdiscoverattempts |-> "max_discover_attempts", discoveryinterval |-> "discovery_interval",
     gossiptimeout |-> "gossip_timeout", tls |-> "secure", tlsverifycert |-> "tls_verify_cert",
     nodepreference |-> "preference", keepaliveinterval |-> "keep_alive_interval",
     keepalivetimeout |-> "keep_alive_timeout", defaultdeadline |-> "default_deadline",
     connectionname |-> "connection_name", usercertfile |-> "user_cert_file",
     userkeyfile |-> "user_key_file", tlscafile |-> "tls_ca_file"]

\* parse_param::<usize> and ::<u64>.
Unsigned ==
    /\ Read({"maxdiscoverattempts", "discoveryinterval", "gossiptimeout"})
    /\ IF number # NotANumber /\ number >= 0 THEN Set(Fields[Name], number) ELSE Refuse

\* parse_param::<bool>.
Switch ==
    /\ Read({"tls", "tlsverifycert"})
    /\ IF query_text \in {"true", "false"} THEN Set(Fields[Name], query_text = "true") ELSE Refuse

Preference ==
    /\ Read({"nodepreference"})
    /\ LET value == to_lowercase(query_text)
       IN  IF value \in Preferences
           THEN Set("preference", value) ELSE Refuse

\* Mutation of TooShort: an interval of zero, which disables nothing, is taken.
TooShortButZero(value) == value > 0 /\ value < KEEP_ALIVE_INTERVAL_IN_MS

\* An interval below the recommended one is passed over with a warning.
TooShort(value) ==
    /\ value >= 0
    /\ value < IF Name = "keepaliveinterval" THEN KEEP_ALIVE_INTERVAL_IN_MS
               ELSE KEEP_ALIVE_TIMEOUT_IN_MS

Duration(value) == IF value = -1 THEN Forever ELSE value

KeepAlive ==
    /\ Read({"keepaliveinterval", "keepalivetimeout"})
    /\ IF number = NotANumber \/ number < -1 THEN Refuse
       ELSE IF TooShort(number) THEN Skip
       ELSE Set(Fields[Name], Duration(number))

Deadline ==
    /\ Read({"defaultdeadline"})
    /\ IF number = NotANumber \/ number < -1 THEN Refuse
       ELSE Set("default_deadline", Duration(number))

Texts == {"connectionname", "usercertfile", "userkeyfile", "tlscafile"}
Text ==
    /\ Read(Texts)
    /\ Set(Fields[Name], query_text)

Ignored ==
    /\ parsing = "params" /\ at < Len(string.params) /\ Name \notin DOMAIN Fields
    /\ Skip

\* A user certificate needs both of its files.
CheckCertificate ==
    /\ parsing = "params" /\ at = Len(string.params)
    /\ parsing' = IF (settings.user_cert_file = NoText) # (settings.user_key_file = NoText)
                  THEN "failed" ELSE "done"
    /\ UNCHANGED <<string, settings, at>>

SettingsInit ==
    /\ string \in Strings
    /\ settings = Default /\ at = 0 /\ parsing = "url"

SettingsNext ==
    \/ ParseUrl \/ CheckCertificate
    \/ Unsigned \/ Switch \/ Preference \/ KeepAlive \/ Deadline \/ Text \/ Ignored

SettingsSpec == SettingsInit /\ [][SettingsNext]_sVars

-----------------------------------------------------------------------------

(* Properties. *)

\* What a value means for its field, whatever precedes or follows it: refused,
\* without effect, or a value.
Meaning(p) ==
    LET name == to_lowercase(p.name)
        n == p.number
        IsNumber == n # NotANumber
    IN  CASE name \in {"keepaliveinterval", "keepalivetimeout"} ->
                IF ~IsNumber \/ n < -1 THEN <<"refused">>
                ELSE IF n >= 0 /\ n < 10000 THEN <<"nothing">>
                ELSE <<"value", IF n = -1 THEN Forever ELSE n>>
          [] name = "defaultdeadline" ->
                IF ~IsNumber \/ n < -1 THEN <<"refused">>
                ELSE <<"value", IF n = -1 THEN Forever ELSE n>>
          [] name \in {"maxdiscoverattempts", "discoveryinterval", "gossiptimeout"} ->
                IF IsNumber /\ n >= 0 THEN <<"value", n>> ELSE <<"refused">>
          [] name \in {"tls", "tlsverifycert"} ->
                IF p.text \in {"true", "false"} THEN <<"value", p.text = "true">> ELSE <<"refused">>
          [] name = "nodepreference" ->
                IF to_lowercase(p.text) \in Preferences
                THEN <<"value", to_lowercase(p.text)>> ELSE <<"refused">>
          [] name \in Texts -> <<"value", p.text>>
          [] OTHER -> <<"nothing">>

\* The value of a field is that of the last parameter that gives it one.
Written(name) ==
    LET given == {i \in DOMAIN string.params :
                    /\ to_lowercase(string.params[i].name) = name
                    /\ Meaning(string.params[i])[1] = "value"}
    IN  IF given = {} THEN Default[Fields[name]] ELSE Meaning(string.params[Max(given)])[2]

\* What is read for it: the commas of a text become slashes when those of the hosts do.
AsRead(name, value) == IF IsUrl \/ name \notin Texts THEN value ELSE replace(value)

\* A client does what its connection string says: once accepted, each parameter has
\* its last effective value or its default, in whatever order and case they are
\* written; the hosts are those written, in their order, and the user is; and each
\* host has its port.  Three exceptions are what the code does: a port given to the
\* last of several hosts only is lost; and where an earlier host has one, a text has
\* slashes for its commas, and a user whose name has commas is taken for hosts.
SettingsAsWritten ==
    parsing = "done" =>
        /\ \A name \in DOMAIN Fields : settings[Fields[name]] = AsRead(name, Written(name))
        /\ \A i \in DOMAIN string.params : Meaning(string.params[i])[1] # "refused"
        /\ settings.dns_discover = (string.scheme = "esdb+discover")
        /\ IsUrl \/ ~UserIsCut =>
            /\ settings.default_user_name = User
            /\ Len(settings.hosts) >= Len(Hosts)
            /\ \A i \in DOMAIN Hosts :
                  /\ settings.hosts[i].host = Hosts[i].host
                  /\ IF Hosts[i].port = NoPort THEN settings.hosts[i].port = 2113
                     ELSE (IsUrl /\ Len(Hosts) > 1) \/ settings.hosts[i].port = Hosts[i].port

===============================================================================
