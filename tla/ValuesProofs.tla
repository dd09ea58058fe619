------------------------------ MODULE ValuesProofs ------------------------------
(***************************************************************************)
(* What holds of the values the client makes and passes on: the settings   *)
(* of any connection string, any events, traces and stream metadata.       *)
(***************************************************************************)
EXTENDS Settings, Events, FiniteSetTheorems, SequenceTheorems, WellFoundedInduction, TLAPS

-----------------------------------------------------------------------------
(* Settings. *)

\* What is read of a string after n of its parameters.
GivenUpTo(name, n) ==
    {i \in 1..n : /\ to_lowercase(string.params[i].name) = name
                  /\ Meaning(string.params[i])[1] = "value"}
WrittenUpTo(name, n) ==
    IF GivenUpTo(name, n) = {} THEN Default[Fields[name]]
    ELSE Meaning(string.params[Max(GivenUpTo(name, n))])[2]

\* The hosts, and what else the URL says.
UrlIsRead ==
    /\ settings.dns_discover = (string.scheme = "esdb+discover")
    /\ IsUrl \/ ~UserIsCut =>
        /\ settings.default_user_name = User
        /\ Len(settings.hosts) >= Len(Hosts)
        /\ \A i \in DOMAIN Hosts :
              /\ settings.hosts[i].host = Hosts[i].host
              /\ IF Hosts[i].port = NoPort THEN settings.hosts[i].port = 2113
                 ELSE (IsUrl /\ Len(Hosts) > 1) \/ settings.hosts[i].port = Hosts[i].port

SettingsInv ==
    /\ string \in Strings
    /\ at \in 0..Len(string.params)
    /\ parsing \in {"url", "params", "done", "failed"}
    /\ parsing = "url" => at = 0
    /\ parsing = "done" => at = Len(string.params)
    /\ parsing \in {"params", "done"} =>
          /\ DOMAIN settings = DOMAIN Default
          /\ UrlIsRead
          /\ \A name \in DOMAIN Fields : settings[Fields[name]] = AsRead(name, WrittenUpTo(name, at))
          /\ \A i \in 1..at : Meaning(string.params[i])[1] # "refused"

FieldNames ==
    {"maxdiscoverattempts", "discoveryinterval", "gossiptimeout", "tls", "tlsverifycert",
     "nodepreference", "keepaliveinterval", "keepalivetimeout", "defaultdeadline",
     "connectionname", "usercertfile", "userkeyfile", "tlscafile"}

LEMMA FieldsAre ==
    /\ DOMAIN Fields = FieldNames
    /\ \A name \in FieldNames :
          Fields[name] \in DOMAIN Default \ {"dns_discover", "default_user_name", "hosts"}
    /\ \A a, b \in FieldNames : Fields[a] = Fields[b] => a = b
<1>1. DOMAIN Fields = FieldNames
  BY DEF Fields, FieldNames
<1>2. \A name \in FieldNames :
          Fields[name] \in DOMAIN Default \ {"dns_discover", "default_user_name", "hosts"}
  BY DEF Fields, FieldNames, Default
<1>3. \A a, b \in FieldNames : Fields[a] = Fields[b] => a = b
  BY DEF Fields, FieldNames
<1> QED
  BY <1>1, <1>2, <1>3

LEMMA ParamIs ==
    ASSUME string \in Strings, at \in 0..Len(string.params), at < Len(string.params)
    PROVE  /\ at + 1 \in 1..Len(string.params)
           /\ param.number \in Int \cup {NotANumber}
<1>1. string.params \in Seq([name : STRING, text : STRING, number : Int \cup {NotANumber}])
  BY SettingsAssumption
<1> HIDE DEF param
<1>2. Len(string.params) \in Nat /\ at + 1 \in 1..Len(string.params)
  BY <1>1
<1>3. param \in [name : STRING, text : STRING, number : Int \cup {NotANumber}]
  BY <1>1, <1>2, ElementOfSeq DEF param
<1> QED
  BY <1>2, <1>3

\* The cases of Meaning exclude one another.
LEMMA KeepAliveMeans ==
    ASSUME NEW p, NEW n, n = p.number,
           to_lowercase(p.name) \in {"keepaliveinterval", "keepalivetimeout"}
    PROVE  Meaning(p) = IF n = NotANumber \/ n < -1 THEN <<"refused">>
                        ELSE IF n >= 0 /\ n < 10000 THEN <<"nothing">>
                        ELSE <<"value", IF n = -1 THEN Forever ELSE n>>
BY DEF Meaning, Texts

LEMMA DeadlineMeans ==
    ASSUME NEW p, NEW n, n = p.number, to_lowercase(p.name) = "defaultdeadline"
    PROVE  Meaning(p) = IF n = NotANumber \/ n < -1 THEN <<"refused">>
                        ELSE <<"value", IF n = -1 THEN Forever ELSE n>>
BY DEF Meaning, Texts

LEMMA UnsignedMeans ==
    ASSUME NEW p, NEW n, n = p.number,
           to_lowercase(p.name) \in {"maxdiscoverattempts", "discoveryinterval", "gossiptimeout"}
    PROVE  Meaning(p) = IF n # NotANumber /\ n >= 0 THEN <<"value", n>> ELSE <<"refused">>
BY DEF Meaning, Texts

LEMMA SwitchMeans ==
    ASSUME NEW p, to_lowercase(p.name) \in {"tls", "tlsverifycert"}
    PROVE  Meaning(p) = IF p.text \in {"true", "false"} THEN <<"value", p.text = "true">>
                        ELSE <<"refused">>
BY DEF Meaning, Texts

LEMMA PreferenceMeans ==
    ASSUME NEW p, NEW value, value = to_lowercase(p.text),
           to_lowercase(p.name) = "nodepreference"
    PROVE  Meaning(p) = IF value \in Preferences
                        THEN <<"value", value>> ELSE <<"refused">>
BY DEF Meaning, Texts

LEMMA TextMeans ==
    ASSUME NEW p, to_lowercase(p.name) \in Texts
    PROVE  Meaning(p) = <<"value", p.text>>
BY DEF Meaning, Texts

LEMMA OtherMeans ==
    ASSUME NEW p, to_lowercase(p.name) \notin FieldNames
    PROVE  Meaning(p) = <<"nothing">>
BY DEF Meaning, FieldNames, Texts

\* A parameter does what it means.
Effect ==
    \/ /\ Meaning(param)[1] = "refused" /\ Refuse
    \/ /\ Meaning(param)[1] = "nothing" /\ Skip
    \/ /\ Meaning(param)[1] = "value" /\ Name \in FieldNames
       /\ Set(Fields[Name], AsRead(Name, Meaning(param)[2]))

\* Commas and slashes make no difference to the words that are looked for.
LEMMA ReplaceKeepsWords ==
    ASSUME NEW t, NEW u, u = replace(t)
    PROVE  /\ u \in {"true", "false"} \/ t \in {"true", "false"} => u = t
           /\ to_lowercase(u) \in Preferences \/ to_lowercase(t) \in Preferences => u = t
BY SettingsAssumption DEF replace

LEMMA ParametersMean ==
    ASSUME string \in Strings, at \in 0..Len(string.params), at < Len(string.params),
           Unsigned \/ Switch \/ Preference \/ KeepAlive \/ Deadline \/ Text \/ Ignored
    PROVE  Effect
<1> PICK p : p = param
  OBVIOUS
<1>1. p.number \in Int \cup {NotANumber}
  BY ParamIs
<1>2. CASE Unsigned
  BY <1>1, <1>2, UnsignedMeans
  DEF Unsigned, Read, Name, number, Effect, FieldNames, AsRead, Texts
<1> PICK q : q = query_text
  OBVIOUS
<1>9. q = p.text \/ q = replace(p.text)
  BY DEF query_text
<1>10. \A value : Name \notin Texts => AsRead(Name, value) = value
  BY DEF AsRead
<1>3. CASE Switch
  <2>1. Name \in {"tls", "tlsverifycert"} /\ Name \notin Texts /\ Name \in FieldNames
    BY <1>3 DEF Switch, Read, Texts, FieldNames
  <2>2. /\ q \in {"true", "false"} <=> p.text \in {"true", "false"}
        /\ q \in {"true", "false"} => q = p.text
    BY <1>9, ReplaceKeepsWords
  <2>3. Meaning(param) = IF p.text \in {"true", "false"} THEN <<"value", p.text = "true">>
                         ELSE <<"refused">>
    BY <2>1, SwitchMeans DEF Name
  <2>4. IF q \in {"true", "false"} THEN Set(Fields[Name], q = "true") ELSE Refuse
    BY <1>3 DEF Switch
  <2> QED
    BY <1>10, <2>1, <2>2, <2>3, <2>4 DEF Effect
<1>4. CASE Preference
  <2>1. Name = "nodepreference" /\ Name \notin Texts /\ Name \in FieldNames
        /\ Fields[Name] = "preference"
    BY <1>4 DEF Preference, Read, Texts, FieldNames, Fields
  <2> PICK word, read : word = to_lowercase(p.text) /\ read = to_lowercase(q)
    OBVIOUS
  <2>2. word \in Preferences \/ read \in Preferences => word = read
    BY <1>9, ReplaceKeepsWords
  <2>3. Meaning(param) = IF word \in Preferences THEN <<"value", word>> ELSE <<"refused">>
    BY <2>1, PreferenceMeans DEF Name
  <2>4. IF read \in Preferences THEN Set("preference", read) ELSE Refuse
    BY <1>4 DEF Preference
  <2> QED
    BY <1>10, <2>1, <2>2, <2>3, <2>4 DEF Effect
<1>5. CASE KeepAlive
  <2>1. Name \in {"keepaliveinterval", "keepalivetimeout"}
    BY <1>5 DEF KeepAlive, Read
  <2>2. TooShort(number) <=> number >= 0 /\ number < 10000
    BY DEF TooShort, KEEP_ALIVE_INTERVAL_IN_MS, KEEP_ALIVE_TIMEOUT_IN_MS
  <2> QED
    BY <1>5, <2>1, <2>2, KeepAliveMeans
    DEF KeepAlive, Name, number, Effect, FieldNames, Duration, AsRead, Texts
<1>6. CASE Deadline
  BY <1>1, <1>6, DeadlineMeans
  DEF Deadline, Read, Name, number, Effect, FieldNames, Duration, Fields, AsRead, Texts
<1>7. CASE Text
  BY <1>7, TextMeans DEF Text, Read, Name, Effect, FieldNames, AsRead, Texts, query_text
<1>8. CASE Ignored
  BY <1>8, OtherMeans, FieldsAre DEF Ignored, Name, Effect
<1> QED
  BY <1>2, <1>3, <1>4, <1>5, <1>6, <1>7, <1>8

\* The hosts of a URL, or of a string that is none.
LEMMA HostsAre ==
    ASSUME string \in Strings
    PROVE  /\ Hosts \in Seq([host : STRING, port : Nat \cup {NoPort, BadPort}])
           /\ Len(Hosts) \in Nat /\ DOMAIN Hosts = 1..Len(Hosts)
           /\ string.path \in Seq(STRING)
<1>1. /\ Hosts \in Seq([host : STRING, port : Nat \cup {NoPort, BadPort}])
      /\ string.path \in Seq(STRING)
  BY SettingsAssumption DEF Hosts
<1> HIDE DEF Hosts
<1>2. Len(Hosts) \in Nat /\ DOMAIN Hosts = 1..Len(Hosts)
  BY <1>1
<1> QED
  BY <1>1, <1>2

LEMMA UrlHostsAreWritten ==
    ASSUME string \in Strings, IsUrl
    PROVE  /\ Len(UrlHosts) >= Len(Hosts)
           /\ \A i \in DOMAIN Hosts :
                 /\ UrlHosts[i].host = Hosts[i].host
                 /\ IF Hosts[i].port = NoPort THEN UrlHosts[i].port = 2113
                    ELSE Len(Hosts) > 1 \/ UrlHosts[i].port = Hosts[i].port
<1>1. Len(Hosts) \in Nat /\ DOMAIN Hosts = 1..Len(Hosts)
  BY HostsAre
<1> HIDE DEF Hosts
<1>2. CASE Len(Hosts) = 1
  <2>1. UrlHosts = [i \in 1..Len(Hosts) |-> Endpoint(Hosts[i].host, Hosts[i].port)]
    BY <1>1, <1>2 DEF UrlHosts, parse_gossip_seeds
  <2>2. Len(UrlHosts) = Len(Hosts)
    BY <1>1, <2>1
  <2> QED
    BY <1>1, <2>1, <2>2 DEF Endpoint, DefaultPort
<1>3. CASE Len(Hosts) # 1
  <2>1. UrlHosts = [i \in 1..Len(Hosts) |-> Endpoint(Hosts[i].host, NoPort)]
    BY <1>1, <1>3 DEF UrlHosts
  <2>2. Len(UrlHosts) = Len(Hosts)
    BY <1>1, <2>1
  <2> QED
    BY <1>1, <1>3, <2>1, <2>2 DEF Endpoint, DefaultPort
<1> QED
  BY <1>2, <1>3

LEMMA RewrittenHostsAreWritten ==
    ASSUME string \in Strings, Len(Hosts) > 1, ~UserIsCut
    PROVE  /\ Len(RewrittenHosts) >= Len(Hosts)
           /\ \A i \in DOMAIN Hosts :
                 /\ RewrittenHosts[i].host = Hosts[i].host
                 /\ IF Hosts[i].port = NoPort THEN RewrittenHosts[i].port = 2113
                    ELSE RewrittenHosts[i].port = Hosts[i].port
<1> DEFINE H == [host : STRING, port : Nat \cup {NoPort, BadPort}]
           more == [i \in DOMAIN string.path |-> [host |-> string.path[i], port |-> NoPort]]
           all == <<Hosts[1]>> \o Segments
<1>1. Hosts \in Seq(H) /\ Len(Hosts) \in Nat /\ DOMAIN Hosts = 1..Len(Hosts)
  BY HostsAre
<1>2. more \in Seq(H)
  <2>1. string.path \in Seq(STRING) /\ Len(string.path) \in Nat
        /\ DOMAIN string.path = 1..Len(string.path)
    BY HostsAre
  <2>2. \A i \in 1..Len(string.path) : string.path[i] \in STRING
    BY <2>1, ElementOfSeq
  <2> QED
    BY <2>1, <2>2
<1> HIDE DEF Hosts, more, H
<1>3. Segments = Tail(Hosts) \o more
  BY DEF Segments, more, Hosts
<1>4. Tail(Hosts) \in Seq(H) /\ Len(Tail(Hosts)) = Len(Hosts) - 1
      /\ \A i \in 1..(Len(Hosts) - 1) : Tail(Hosts)[i] = Hosts[i + 1]
  BY <1>1
<1>5. Segments \in Seq(H) /\ Len(Segments) = Len(Hosts) - 1 + Len(more) /\ Len(more) \in Nat
      /\ \A i \in 1..(Len(Hosts) - 1) : Segments[i] = Tail(Hosts)[i]
  BY <1>1, <1>2, <1>3, <1>4
<1>6. Hosts[1] \in H
  BY <1>1
<1>7. all \in Seq(H) /\ Len(all) = Len(Hosts) + Len(more)
      /\ \A i \in 1..Len(all) : all[i] = IF i = 1 THEN Hosts[1] ELSE Segments[i - 1]
  BY <1>1, <1>5, <1>6
<1>8. \A i \in 1..Len(Hosts) : i \in 1..Len(all) /\ all[i] = Hosts[i]
  BY <1>1, <1>4, <1>5, <1>7
<1>9. RewrittenHosts = [i \in 1..Len(all) |-> Endpoint(all[i].host, all[i].port)]
  BY <1>7 DEF RewrittenHosts, FirstHosts, parse_gossip_seeds, H
<1> HIDE DEF all
<1>10. Len(RewrittenHosts) = Len(all)
  BY <1>1, <1>5, <1>7, <1>9
<1> QED
  BY <1>1, <1>5, <1>7, <1>8, <1>9, <1>10 DEF Endpoint, DefaultPort

\* A default has no commas.
LEMMA DefaultIsRead ==
    ASSUME NEW name \in Texts
    PROVE  replace(Default[Fields[name]]) = Default[Fields[name]]
<1>1. Default[Fields[name]] = NoText
  BY DEF Texts, Default, Fields
<1> QED
  BY <1>1, SettingsAssumption DEF replace

LEMMA UrlStep ==
    ASSUME SettingsInv, ParseUrl
    PROVE  SettingsInv'
<1> USE DEF SettingsInv
<1>1. string' = string /\ at' = at /\ at = 0 /\ string \in Strings
  BY DEF ParseUrl
<1>2. CASE parsing' = "failed"
  BY <1>1, <1>2
<1>3. CASE parsing' # "failed"
  <2>1. PICK hosts, user :
           /\ settings' = WithUrl(hosts, user) /\ parsing' = "params"
           /\ \/ IsUrl /\ hosts = UrlHosts /\ user = User
              \/ /\ ~IsUrl /\ Len(Hosts) > 1 /\ hosts = RewrittenHosts
                 /\ user = IF UserIsCut THEN NoUser ELSE User
    BY <1>3 DEF ParseUrl, ValidUrl, ValidRewritten
  <2>2. /\ DOMAIN settings' = DOMAIN Default
        /\ settings'.dns_discover = (string.scheme = "esdb+discover")
        /\ settings'.default_user_name = user
        /\ settings'.hosts = hosts
        /\ \A name \in FieldNames : settings'[Fields[name]] = Default[Fields[name]]
    <3>1. {"dns_discover", "default_user_name", "hosts"} \subseteq DOMAIN Default
      BY DEF Default
    <3> QED
      BY <2>1, <3>1, FieldsAre DEF WithUrl
  <2>3. UrlIsRead'
    BY <1>1, <2>1, <2>2, UrlHostsAreWritten, RewrittenHostsAreWritten
    DEF UrlIsRead, Hosts, IsUrl, Readable, User, UserIsCut
  <2>4. \A name : GivenUpTo(name, 0)' = {}
    BY DEF GivenUpTo
  <2>5. \A name \in FieldNames : AsRead(name, Default[Fields[name]])' = Default[Fields[name]]
    BY DefaultIsRead DEF AsRead
  <2> QED
    BY <1>1, <2>1, <2>2, <2>3, <2>4, <2>5, FieldsAre DEF WrittenUpTo, AsRead
<1> QED
  BY <1>2, <1>3

LEMMA MaxOf ==
    ASSUME NEW n \in Nat, NEW S \in SUBSET (1..n)
    PROVE  Max(S \cup {n + 1}) = n + 1
<1>1. n + 1 \in S \cup {n + 1} /\ \A y \in S \cup {n + 1} : n + 1 >= y
  OBVIOUS
<1>2. \A x \in S \cup {n + 1} : (\A y \in S \cup {n + 1} : x >= y) => x = n + 1
  <2> SUFFICES ASSUME NEW x \in S \cup {n + 1}, x >= n + 1 PROVE x = n + 1
    OBVIOUS
  <2> QED
    OBVIOUS
<1> QED
  BY <1>1, <1>2 DEF Max

LEMMA UrlStays == string' = string => (IsUrl' <=> IsUrl)
BY DEF IsUrl, Hosts, Readable

LEMMA ParameterStep ==
    ASSUME SettingsInv, parsing = "params", at < Len(string.params), Effect
    PROVE  SettingsInv'
<1> USE DEF SettingsInv
<1>1. at + 1 \in 1..Len(string.params) /\ at \in Nat
  BY ParamIs, SettingsAssumption
<1>2. CASE Refuse
  BY <1>2 DEF Refuse
<1>3. ASSUME string' = string, parsing' = parsing, at' = at + 1, UNCHANGED settings,
             Meaning(param)[1] = "nothing"
      PROVE  SettingsInv'
  <2>1. \A name : GivenUpTo(name, at + 1) = GivenUpTo(name, at)
    BY <1>1, <1>3 DEF GivenUpTo, param
  <2>2. UrlIsRead'
    BY <1>3 DEF UrlIsRead, Hosts, IsUrl, Readable, User, UserIsCut
  <2>3. \A name : WrittenUpTo(name, at)' = WrittenUpTo(name, at)
    BY <1>3, <2>1 DEF WrittenUpTo, GivenUpTo
  <2> QED
    BY <1>1, <1>3, <2>1, <2>2, <2>3, UrlStays DEF param, AsRead
<1>4. ASSUME string' = string, parsing' = parsing, at' = at + 1, Name \in FieldNames,
             settings' = [settings EXCEPT ![Fields[Name]] = AsRead(Name, Meaning(param)[2])],
             Meaning(param)[1] = "value"
      PROVE  SettingsInv'
  <2>1. \A name : GivenUpTo(name, at + 1) =
                     IF name = Name THEN GivenUpTo(name, at) \cup {at + 1} ELSE GivenUpTo(name, at)
    BY <1>1, <1>4 DEF GivenUpTo, param, Name
  <2>2. \A name : GivenUpTo(name, at) \in SUBSET (1..at)
    BY DEF GivenUpTo
  <2>3. \A name : GivenUpTo(name, at)' = GivenUpTo(name, at + 1)
    BY <1>4 DEF GivenUpTo
  <2>4. DOMAIN settings' = DOMAIN Default /\ UrlIsRead'
    <3>1. DOMAIN settings = DOMAIN Default /\ UrlIsRead
      BY <1>4
    <3> HIDE DEF SettingsInv
    <3>2. Fields[Name] \in DOMAIN Default \ {"dns_discover", "default_user_name", "hosts"}
      BY <1>4, FieldsAre
    <3>3. {"dns_discover", "default_user_name", "hosts"} \subseteq DOMAIN Default
      BY DEF Default
    <3>4. /\ DOMAIN settings' = DOMAIN Default
          /\ settings'.dns_discover = settings.dns_discover
          /\ settings'.default_user_name = settings.default_user_name
          /\ settings'.hosts = settings.hosts
      BY <1>4, <3>1, <3>2, <3>3
    <3> QED
      BY <1>4, <3>1, <3>4 DEF UrlIsRead, Hosts, IsUrl, Readable, User, UserIsCut
  <2>5. ASSUME NEW name \in FieldNames
        PROVE  settings'[Fields[name]] = AsRead(name, WrittenUpTo(name, at)')
    <3>1. CASE name = Name
      <4>1. Max(GivenUpTo(name, at)') = at + 1 /\ GivenUpTo(name, at)' # {}
        <5>1. GivenUpTo(name, at)' = GivenUpTo(name, at) \cup {at + 1}
          BY <2>1, <2>3, <3>1
        <5>2. GivenUpTo(name, at) \in SUBSET (1..at)
          BY <2>2
        <5> HIDE DEF SettingsInv
        <5>3. Max(GivenUpTo(name, at) \cup {at + 1}) = at + 1
          BY <1>1, <5>2, MaxOf
        <5> QED
          BY <5>1, <5>3
      <4>2. WrittenUpTo(name, at)' = Meaning(param)[2]
        BY <1>4, <4>1 DEF WrittenUpTo, param
      <4> QED
        BY <1>4, <3>1, <4>2, FieldsAre
    <3>2. CASE name # Name
      <4>1. WrittenUpTo(name, at)' = WrittenUpTo(name, at)
        BY <1>4, <2>1, <2>3, <3>2 DEF WrittenUpTo
      <4>2. settings'[Fields[name]] = settings[Fields[name]]
        BY <1>4, <3>2, FieldsAre
      <4> QED
        BY <4>1, <4>2, FieldsAre
    <3> QED
      BY <3>1, <3>2
  <2>6. ASSUME NEW i \in 1..(at + 1)
        PROVE  Meaning(string.params[i])[1] # "refused"
    <3>1. i \in 1..at \/ i = at + 1
      BY <1>1
    <3> QED
      BY <1>4, <3>1 DEF param
  <2> QED
    BY <1>1, <1>4, <2>4, <2>5, <2>6, FieldsAre, UrlStays DEF AsRead
<1> QED
  BY <1>2, <1>3, <1>4 DEF Effect, Skip, Set

\* What was read so far stays read.
LEMMA NothingIsRead ==
    ASSUME SettingsInv, UNCHANGED <<string, settings, at>>,
           \/ parsing' = parsing
           \/ parsing = "params" /\ parsing' = "failed"
           \/ parsing = "params" /\ at = Len(string.params) /\ parsing' = "done"
    PROVE  SettingsInv'
<1>1. UrlIsRead' <=> UrlIsRead
  BY DEF UrlIsRead, Hosts, IsUrl, Readable, User, UserIsCut
<1>2. \A name : WrittenUpTo(name, at)' = WrittenUpTo(name, at)
  BY DEF WrittenUpTo, GivenUpTo
<1> QED
  BY <1>1, <1>2, UrlStays DEF SettingsInv, AsRead

LEMMA SettingsInvInit == SettingsInit => SettingsInv
BY SettingsAssumption DEF SettingsInit, SettingsInv

LEMMA SettingsInvStep == SettingsInv /\ [SettingsNext]_sVars => SettingsInv'
<1> SUFFICES ASSUME SettingsInv, [SettingsNext]_sVars PROVE SettingsInv'
  OBVIOUS
<1>1. CASE ParseUrl
  BY <1>1, UrlStep
<1>2. CASE CheckCertificate
  BY <1>2, NothingIsRead DEF CheckCertificate
<1>3. CASE Unsigned \/ Switch \/ Preference \/ KeepAlive \/ Deadline \/ Text \/ Ignored
  <2>1. parsing = "params" /\ at < Len(string.params)
    BY <1>3 DEF Unsigned, Switch, Preference, KeepAlive, Deadline, Text, Ignored, Read
  <2> QED
    BY <1>3, <2>1, ParametersMean, ParameterStep DEF SettingsInv
<1>4. CASE UNCHANGED sVars
  BY <1>4, NothingIsRead DEF sVars
<1> QED
  BY <1>1, <1>2, <1>3, <1>4 DEF SettingsNext

\* A client does what its connection string says, however many hosts and parameters
\* it has (ClientSettings::from_str, grpc.rs).
THEOREM SettingsAsWrittenCorrect == SettingsSpec => []SettingsAsWritten
<1>1. SettingsInv => SettingsAsWritten
  <2> SUFFICES ASSUME SettingsInv, parsing = "done" PROVE SettingsAsWritten
    BY DEF SettingsAsWritten
  <2>1. at = Len(string.params) /\ DOMAIN string.params = 1..at
    BY SettingsAssumption DEF SettingsInv
  <2>2. \A name : Written(name) = WrittenUpTo(name, at)
    BY <2>1 DEF Written, WrittenUpTo, GivenUpTo
  <2> QED
    BY <2>1, <2>2 DEF SettingsInv, SettingsAsWritten, UrlIsRead
<1> QED
  BY <1>1, SettingsInvInit, SettingsInvStep, PTL DEF SettingsSpec

-----------------------------------------------------------------------------
(* Sequences. *)

\* A sequence of whatever elements.
IsSequence(s) == \E S : s \in Seq(S)

LEMMA SequenceIs ==
    ASSUME NEW s, IsSequence(s)
    PROVE  Len(s) \in Nat /\ DOMAIN s = 1..Len(s) /\ (s = <<>> <=> Len(s) = 0)
BY DEF IsSequence

LEMMA Joined ==
    ASSUME NEW a, NEW b, IsSequence(a), IsSequence(b)
    PROVE  /\ IsSequence(a \o b)
           /\ Len(a \o b) = Len(a) + Len(b)
           /\ DOMAIN (a \o b) = 1..(Len(a) + Len(b))
           /\ \A i \in 1..(Len(a) + Len(b)) :
                 (a \o b)[i] = IF i <= Len(a) THEN a[i] ELSE b[i - Len(a)]
<1>1. PICK S, T : a \in Seq(S) /\ b \in Seq(T)
  BY DEF IsSequence
<1>2. a \in Seq(S \cup T) /\ b \in Seq(S \cup T)
  BY <1>1
<1>3. a \o b \in Seq(S \cup T)
  BY <1>2
<1>4. /\ Len(a \o b) = Len(a) + Len(b)
      /\ \A i \in 1..(Len(a) + Len(b)) :
            (a \o b)[i] = IF i <= Len(a) THEN a[i] ELSE b[i - Len(a)]
  BY <1>2
<1> QED
  BY <1>3, <1>4, SequenceIs DEF IsSequence

LEMMA MappedIs ==
    ASSUME NEW n \in Nat, NEW f, f = [i \in 1..n |-> f[i]]
    PROVE  IsSequence(f) /\ Len(f) = n /\ DOMAIN f = 1..n
<1> DEFINE S == {f[i] : i \in 1..n}
<1>1. f \in [1..n -> S]
  OBVIOUS
<1>2. f \in Seq(S) /\ Len(f) = n
  BY <1>1
<1> QED
  BY <1>1, <1>2 DEF IsSequence

-----------------------------------------------------------------------------
(* JSON objects: their names, what they hold, and that no name comes twice. *)

Keys(o) == {o[i][1] : i \in DOMAIN o}
Holds(o, key, v) == \E i \in DOMAIN o : o[i] = <<key, v>>
Unique(o) == \A i, j \in DOMAIN o : o[i][1] = o[j][1] => i = j

LEMMA JoinedObjects ==
    ASSUME NEW a, NEW b, IsSequence(a), IsSequence(b)
    PROVE  /\ IsSequence(a \o b)
           /\ Keys(a \o b) = Keys(a) \cup Keys(b)
           /\ \A k, v : Holds(a \o b, k, v) <=> Holds(a, k, v) \/ Holds(b, k, v)
           /\ Unique(a) /\ Unique(b) /\ Keys(a) \cap Keys(b) = {} => Unique(a \o b)
<1> DEFINE o == a \o b
           n == Len(a)
           m == Len(b)
<1>1. /\ IsSequence(o) /\ DOMAIN o = 1..(n + m) /\ n \in Nat /\ m \in Nat
      /\ DOMAIN a = 1..n /\ DOMAIN b = 1..m
      /\ \A i \in 1..(n + m) : o[i] = IF i <= n THEN a[i] ELSE b[i - n]
  BY Joined, SequenceIs
<1> HIDE DEF o, n, m
<1>2. \A i \in 1..n : i \in 1..(n + m) /\ o[i] = a[i]
  BY <1>1
<1>3. \A i \in 1..m : n + i \in 1..(n + m) /\ o[n + i] = b[i]
  <2> TAKE i \in 1..m
  <2>1. n + i \in 1..(n + m) /\ ~(n + i <= n) /\ n + i - n = i
    BY <1>1
  <2> QED
    BY <1>1, <2>1
<1>4. ASSUME NEW i \in 1..(n + m)
      PROVE  \/ i \in 1..n /\ o[i] = a[i]
             \/ \E j \in 1..m : i = n + j /\ o[i] = b[j]
  <2>1. CASE i <= n
    BY <1>1, <2>1
  <2>2. CASE ~(i <= n)
    <3>1. i - n \in 1..m /\ i = n + (i - n)
      BY <1>1, <2>2
    <3> QED
      BY <1>1, <2>2, <3>1
  <2> QED
    BY <2>1, <2>2
<1>5. Keys(o) = Keys(a) \cup Keys(b)
  <2>1. Keys(o) \subseteq Keys(a) \cup Keys(b)
    BY <1>1, <1>4 DEF Keys
  <2>2. Keys(a) \subseteq Keys(o)
    BY <1>1, <1>2 DEF Keys
  <2>3. Keys(b) \subseteq Keys(o)
    BY <1>1, <1>3 DEF Keys
  <2> QED
    BY <2>1, <2>2, <2>3
<1>6. ASSUME NEW k, NEW v
      PROVE  Holds(o, k, v) <=> Holds(a, k, v) \/ Holds(b, k, v)
  <2>1. Holds(o, k, v) => Holds(a, k, v) \/ Holds(b, k, v)
    BY <1>1, <1>4 DEF Holds
  <2>2. Holds(a, k, v) => Holds(o, k, v)
    BY <1>1, <1>2 DEF Holds
  <2>3. Holds(b, k, v) => Holds(o, k, v)
    BY <1>1, <1>3 DEF Holds
  <2> QED
    BY <2>1, <2>2, <2>3
<1>7. ASSUME Unique(a), Unique(b), Keys(a) \cap Keys(b) = {}
      PROVE  Unique(o)
  <2> SUFFICES ASSUME NEW i \in 1..(n + m), NEW j \in 1..(n + m), o[i][1] = o[j][1]
               PROVE  i = j
    BY <1>1 DEF Unique
  <2>1. \A x \in 1..n, y \in 1..m : a[x][1] # b[y][1]
    BY <1>1, <1>7 DEF Keys
  <2>2. CASE i \in 1..n /\ j \in 1..n
    BY <1>1, <1>2, <1>7, <2>2 DEF Unique
  <2>3. CASE i \in 1..n /\ j \notin 1..n
    BY <1>2, <1>4, <2>1, <2>3
  <2>4. CASE i \notin 1..n /\ j \in 1..n
    BY <1>2, <1>4, <2>1, <2>4
  <2>5. CASE i \notin 1..n /\ j \notin 1..n
    <3>1. PICK x \in 1..m, y \in 1..m : /\ i = n + x /\ o[i] = b[x]
                                        /\ j = n + y /\ o[j] = b[y]
      BY <1>4, <2>5
    <3> QED
      BY <1>1, <1>7, <3>1 DEF Unique
  <2> QED
    BY <2>2, <2>3, <2>4, <2>5
<1> QED
  BY <1>1, <1>5, <1>6, <1>7 DEF o

\* A member, or none.
Single(key, option, v) == IF option = None THEN <<>> ELSE <<<<key, v>>>>

LEMMA SingleIs ==
    ASSUME NEW key, NEW option, NEW v
    PROVE  /\ IsSequence(Single(key, option, v))
           /\ Keys(Single(key, option, v)) = IF option = None THEN {} ELSE {key}
           /\ \A k, w : Holds(Single(key, option, v), k, w) <=> option # None /\ k = key /\ w = v
           /\ Unique(Single(key, option, v))
<1>1. CASE option = None
  <2>1. Single(key, option, v) = <<>> /\ DOMAIN <<>> = {} /\ <<>> \in Seq({})
    BY <1>1 DEF Single
  <2> QED
    BY <1>1, <2>1 DEF Keys, Holds, Unique, IsSequence
<1>2. CASE option # None
  <2> DEFINE s == <<<<key, v>>>>
  <2>1. Single(key, option, v) = s
    BY <1>2 DEF Single
  <2>2. DOMAIN s = {1} /\ s[1] = <<key, v>> /\ s \in Seq({<<key, v>>})
    OBVIOUS
  <2> HIDE DEF s
  <2>3. Keys(s) = {key} /\ Unique(s)
    BY <2>2 DEF Keys, Unique
  <2>4. ASSUME NEW k, NEW w PROVE Holds(s, k, w) <=> k = key /\ w = v
    BY <2>2 DEF Holds
  <2> QED
    BY <1>2, <2>1, <2>2, <2>3, <2>4 DEF IsSequence
<1> QED
  BY <1>1, <1>2

\* What is found of a name.
LEMMA PlacesOf ==
    ASSUME NEW o, Unique(o), NEW key
    PROVE  /\ key \notin Keys(o) => {i \in DOMAIN o : o[i][1] = key} = {}
           /\ \A v : Holds(o, key, v) =>
                 \E i \in DOMAIN o : {j \in DOMAIN o : o[j][1] = key} = {i} /\ o[i][2] = v
<1>1. key \notin Keys(o) => {i \in DOMAIN o : o[i][1] = key} = {}
  BY DEF Keys
<1>2. ASSUME NEW v, Holds(o, key, v)
      PROVE  \E i \in DOMAIN o : {j \in DOMAIN o : o[j][1] = key} = {i} /\ o[i][2] = v
  <2>1. PICK i \in DOMAIN o : o[i] = <<key, v>>
    BY <1>2 DEF Holds
  <2>2. o[i][1] = key /\ o[i][2] = v
    BY <2>1
  <2> QED
    BY <2>2 DEF Unique
<1> QED
  BY <1>1, <1>2

\* The custom properties, as members.
CustomMembers(properties) ==
    LET custom == SetToSeq(DOMAIN properties)
    IN  [i \in DOMAIN custom |-> <<custom[i], properties[custom[i]]>>]

LEMMA SetToSeqIs ==
    ASSUME NEW S, IsFiniteSet(S)
    PROVE  /\ DOMAIN SetToSeq(S) = 1..Cardinality(S) /\ Cardinality(S) \in Nat
           /\ \A i \in 1..Cardinality(S) : SetToSeq(S)[i] \in S
           /\ \A x \in S : \E i \in 1..Cardinality(S) : SetToSeq(S)[i] = x
           /\ \A i, j \in 1..Cardinality(S) : SetToSeq(S)[i] = SetToSeq(S)[j] => i = j
<1> DEFINE n == Cardinality(S)
           s == SetToSeq(S)
<1>1. n \in Nat /\ \E f \in [1..n -> S] : IsInjective(f)
  BY FS_CardinalityType DEF ExistsBijection, Bijection, Injection, IsInjective
<1>2. s \in [1..n -> S] /\ IsInjective(s)
  BY <1>1 DEF SetToSeq
<1>3. s \in Injection(1..n, S)
  BY <1>2 DEF Injection, IsInjective
<1>4. Cardinality(1..n) = Cardinality(S)
  BY <1>1, FS_Interval
<1> HIDE DEF s, n
<1>5. s \in Surjection(1..n, S)
  BY <1>3, <1>4, FS_Injection
<1> QED
  BY <1>1, <1>2, <1>5 DEF Surjection, IsInjective, s, n

LEMMA CustomIs ==
    ASSUME NEW f, IsFiniteSet(DOMAIN f)
    PROVE  /\ IsSequence(CustomMembers(f))
           /\ Keys(CustomMembers(f)) = DOMAIN f
           /\ Unique(CustomMembers(f))
           /\ \A k \in DOMAIN f : Holds(CustomMembers(f), k, f[k])
<1> DEFINE S == DOMAIN f
           n == Cardinality(S)
           s == SetToSeq(S)
           c == [i \in 1..n |-> <<s[i], f[s[i]]>>]
<1>1. /\ DOMAIN s = 1..n /\ n \in Nat
      /\ \A i \in 1..n : s[i] \in S
      /\ \A x \in S : \E i \in 1..n : s[i] = x
      /\ \A i, j \in 1..n : s[i] = s[j] => i = j
  BY SetToSeqIs
<1>2. CustomMembers(f) = c
  BY <1>1 DEF CustomMembers
<1> HIDE DEF s, n
<1>3. IsSequence(c) /\ DOMAIN c = 1..n
  BY <1>1, MappedIs
<1>4. \A i \in 1..n : c[i] = <<s[i], f[s[i]]>> /\ c[i][1] = s[i]
  OBVIOUS
<1> HIDE DEF c
<1>5. Keys(c) = S
  <2>1. \A i \in 1..n : c[i][1] \in S
    BY <1>1, <1>4
  <2>2. \A x \in S : \E i \in 1..n : c[i][1] = x
    BY <1>1, <1>4
  <2> QED
    BY <1>3, <2>1, <2>2 DEF Keys
<1>6. Unique(c)
  BY <1>1, <1>3, <1>4 DEF Unique
<1>7. \A k \in S : Holds(c, k, f[k])
  BY <1>1, <1>3, <1>4 DEF Holds
<1> QED
  BY <1>2, <1>3, <1>5, <1>6, <1>7

-----------------------------------------------------------------------------
(* Stream metadata, written and read. *)

IsRoles(option) == option = None \/ \E roles : IsSequence(roles) /\ option = Some(roles)
IsAcl(acl) ==
    \/ acl \in {UserStream, SystemStream}
    \/ \E roles : /\ acl = Stream(roles) /\ roles = [kind \in Roles |-> roles[kind]]
                  /\ \A kind \in Roles : IsRoles(roles[kind])
IsDuration(option) == option = None \/ \E d \in Nat : option = Some(d)
IsMetadata(m) ==
    /\ m = [max_count |-> m.max_count, max_age |-> m.max_age,
            truncate_before |-> m.truncate_before, cache_control |-> m.cache_control,
            acl |-> m.acl, custom_properties |-> m.custom_properties]
    /\ m.max_count = None \/ \E n : m.max_count = Some(n)
    /\ m.truncate_before = None \/ \E n : m.truncate_before = Some(n)
    /\ IsDuration(m.max_age) /\ IsDuration(m.cache_control)
    /\ m.acl = None \/ \E acl : IsAcl(acl) /\ m.acl = Some(acl)
    /\ m.custom_properties = [k \in DOMAIN m.custom_properties |-> m.custom_properties[k]]
    /\ IsFiniteSet(DOMAIN m.custom_properties)

\* What each kind of member is read as.
LEMMA NumberIsRead ==
    ASSUME NEW n
    PROVE  ParseNumber(Number(n)) = Some(Some(n))
BY DEF ParseNumber, Number

LEMMA DurationIsRead ==
    ASSUME NEW d \in Nat
    PROVE  deserialize_duration(serialize_duration(d)) = Some(Millis(Some(d)))
<1>1. (d \div TicksPerMilli) * TicksPerMilli = d - (d % TicksPerMilli)
  BY StreamMetadataAssumption
<1>2. Millis(Some(d)) = Some(d - (d % TicksPerMilli))
  BY DEF Millis, Some, None
<1> QED
  BY <1>1, <1>2 DEF deserialize_duration, serialize_duration, Number

LEMMA RolesAreRead ==
    ASSUME NEW roles, IsSequence(roles)
    PROVE  deserialize_roles(serialize_roles(roles)) = Some(Some(roles))
<1>1. CASE Len(roles) = 1
  <2>1. roles = <<roles[1]>>
    BY <1>1 DEF IsSequence
  <2>2. serialize_roles(roles) = <<"text", roles[1]>>
    BY <1>1 DEF serialize_roles, String
  <2>3. deserialize_roles(<<"text", roles[1]>>) = Some(Some(<<roles[1]>>))
    BY DEF deserialize_roles
  <2> QED
    BY <2>1, <2>2, <2>3
<1>2. CASE Len(roles) # 1
  <2>1. serialize_roles(roles) = <<"list", roles>>
    BY <1>2 DEF serialize_roles
  <2> QED
    BY <2>1 DEF deserialize_roles
<1> QED
  BY <1>1, <1>2

\* The members of an object are found, each as it was written; others are absent.
LEMMA FoundNumber ==
    ASSUME NEW o, Unique(o), NEW key
    PROVE  /\ key \notin Keys(o) => MemberOf(o, key, ParseNumber) = Some(None)
           /\ \A v : Holds(o, key, v) => MemberOf(o, key, ParseNumber) = ParseNumber(v)
BY PlacesOf DEF MemberOf

LEMMA FoundDuration ==
    ASSUME NEW o, Unique(o), NEW key
    PROVE  /\ key \notin Keys(o) => MemberOf(o, key, deserialize_duration) = Some(None)
           /\ \A v : Holds(o, key, v) =>
                 MemberOf(o, key, deserialize_duration) = deserialize_duration(v)
BY PlacesOf DEF MemberOf

LEMMA FoundRoles ==
    ASSUME NEW o, Unique(o), NEW key
    PROVE  /\ key \notin Keys(o) => MemberOf(o, key, deserialize_roles) = Some(None)
           /\ \A v : Holds(o, key, v) =>
                 MemberOf(o, key, deserialize_roles) = deserialize_roles(v)
BY PlacesOf DEF MemberOf

LEMMA FoundAcl ==
    ASSUME NEW o, Unique(o), NEW key
    PROVE  /\ key \notin Keys(o) => MemberOf(o, key, deserialize_acl) = Some(None)
           /\ \A v : Holds(o, key, v) =>
                 MemberOf(o, key, deserialize_acl) = deserialize_acl(v)
BY PlacesOf DEF MemberOf

\* An object of five members, each of which may be absent.
Five(o, k1, p1, v1, k2, p2, v2, k3, p3, v3, k4, p4, v4, k5, p5, v5) ==
    o = Single(k1, p1, v1) \o Single(k2, p2, v2) \o Single(k3, p3, v3)
        \o Single(k4, p4, v4) \o Single(k5, p5, v5)

LEMMA FiveMembers ==
    ASSUME NEW k1, NEW k2, NEW k3, NEW k4, NEW k5,
           NEW p1, NEW p2, NEW p3, NEW p4, NEW p5, NEW v1, NEW v2, NEW v3, NEW v4, NEW v5,
           NEW o, Five(o, k1, p1, v1, k2, p2, v2, k3, p3, v3, k4, p4, v4, k5, p5, v5)
    PROVE  /\ IsSequence(o)
           /\ \A k : k \in Keys(o) <=> \/ p1 # None /\ k = k1
                                       \/ p2 # None /\ k = k2
                                       \/ p3 # None /\ k = k3
                                       \/ p4 # None /\ k = k4
                                       \/ p5 # None /\ k = k5
           /\ (p1 # None => Holds(o, k1, v1)) /\ (p2 # None => Holds(o, k2, v2))
           /\ (p3 # None => Holds(o, k3, v3)) /\ (p4 # None => Holds(o, k4, v4))
           /\ (p5 # None => Holds(o, k5, v5))
           /\ /\ k1 # k2 /\ k1 # k3 /\ k1 # k4 /\ k1 # k5 /\ k2 # k3
              /\ k2 # k4 /\ k2 # k5 /\ k3 # k4 /\ k3 # k5 /\ k4 # k5
              => Unique(o)
<1> DEFINE s1 == Single(k1, p1, v1)
           s2 == Single(k2, p2, v2)
           s3 == Single(k3, p3, v3)
           s4 == Single(k4, p4, v4)
           s5 == Single(k5, p5, v5)
           o2 == s1 \o s2
           o3 == o2 \o s3
           o4 == o3 \o s4
<1>1. /\ IsSequence(s1) /\ Unique(s1) /\ Keys(s1) = IF p1 = None THEN {} ELSE {k1}
      /\ \A k, w : Holds(s1, k, w) <=> p1 # None /\ k = k1 /\ w = v1
  BY SingleIs
<1>2. /\ IsSequence(s2) /\ Unique(s2) /\ Keys(s2) = IF p2 = None THEN {} ELSE {k2}
      /\ \A k, w : Holds(s2, k, w) <=> p2 # None /\ k = k2 /\ w = v2
  BY SingleIs
<1>3. /\ IsSequence(s3) /\ Unique(s3) /\ Keys(s3) = IF p3 = None THEN {} ELSE {k3}
      /\ \A k, w : Holds(s3, k, w) <=> p3 # None /\ k = k3 /\ w = v3
  BY SingleIs
<1>4. /\ IsSequence(s4) /\ Unique(s4) /\ Keys(s4) = IF p4 = None THEN {} ELSE {k4}
      /\ \A k, w : Holds(s4, k, w) <=> p4 # None /\ k = k4 /\ w = v4
  BY SingleIs
<1>5. /\ IsSequence(s5) /\ Unique(s5) /\ Keys(s5) = IF p5 = None THEN {} ELSE {k5}
      /\ \A k, w : Holds(s5, k, w) <=> p5 # None /\ k = k5 /\ w = v5
  BY SingleIs
<1>6. o = o4 \o s5
  BY DEF Five
<1> HIDE DEF s1, s2, s3, s4, s5
<1>7. /\ IsSequence(o2) /\ Keys(o2) = Keys(s1) \cup Keys(s2)
      /\ \A k, w : Holds(o2, k, w) <=> Holds(s1, k, w) \/ Holds(s2, k, w)
      /\ Keys(s1) \cap Keys(s2) = {} => Unique(o2)
  BY <1>1, <1>2, JoinedObjects
<1> HIDE DEF o2
<1>8. /\ IsSequence(o3) /\ Keys(o3) = Keys(o2) \cup Keys(s3)
      /\ \A k, w : Holds(o3, k, w) <=> Holds(o2, k, w) \/ Holds(s3, k, w)
      /\ Unique(o2) /\ Keys(o2) \cap Keys(s3) = {} => Unique(o3)
  BY <1>3, <1>7, JoinedObjects
<1> HIDE DEF o3
<1>9. /\ IsSequence(o4) /\ Keys(o4) = Keys(o3) \cup Keys(s4)
      /\ \A k, w : Holds(o4, k, w) <=> Holds(o3, k, w) \/ Holds(s4, k, w)
      /\ Unique(o3) /\ Keys(o3) \cap Keys(s4) = {} => Unique(o4)
  BY <1>4, <1>8, JoinedObjects
<1> HIDE DEF o4
<1>10. /\ IsSequence(o) /\ Keys(o) = Keys(o4) \cup Keys(s5)
       /\ \A k, w : Holds(o, k, w) <=> Holds(o4, k, w) \/ Holds(s5, k, w)
       /\ Unique(o4) /\ Keys(o4) \cap Keys(s5) = {} => Unique(o)
  BY <1>5, <1>6, <1>9, JoinedObjects
<1>11. ASSUME k1 # k2, k1 # k3, k1 # k4, k1 # k5, k2 # k3,
              k2 # k4, k2 # k5, k3 # k4, k3 # k5, k4 # k5
       PROVE  Unique(o)
  <2>1. Unique(o2)
    BY <1>1, <1>2, <1>7, <1>11
  <2>2. Unique(o3)
    BY <1>1, <1>2, <1>3, <1>7, <1>8, <1>11, <2>1
  <2>3. Unique(o4)
    BY <1>1, <1>2, <1>3, <1>4, <1>7, <1>8, <1>9, <1>11, <2>2
  <2> QED
    BY <1>1, <1>2, <1>3, <1>4, <1>5, <1>7, <1>8, <1>9, <1>10, <1>11, <2>3
<1>12. Keys(o) = Keys(s1) \cup Keys(s2) \cup Keys(s3) \cup Keys(s4) \cup Keys(s5)
  BY <1>7, <1>8, <1>9, <1>10
<1>13. \A k, w : Holds(o, k, w) <=> \/ Holds(s1, k, w) \/ Holds(s2, k, w) \/ Holds(s3, k, w)
                                    \/ Holds(s4, k, w) \/ Holds(s5, k, w)
  BY <1>7, <1>8, <1>9, <1>10
<1>14. \A k : k \in Keys(o) <=> \/ p1 # None /\ k = k1
                                \/ p2 # None /\ k = k2
                                \/ p3 # None /\ k = k3
                                \/ p4 # None /\ k = k4
                                \/ p5 # None /\ k = k5
  BY <1>1, <1>2, <1>3, <1>4, <1>5, <1>12
<1>15. /\ (p1 # None => Holds(o, k1, v1)) /\ (p2 # None => Holds(o, k2, v2))
       /\ (p3 # None => Holds(o, k3, v3)) /\ (p4 # None => Holds(o, k4, v4))
       /\ (p5 # None => Holds(o, k5, v5))
  BY <1>1, <1>2, <1>3, <1>4, <1>5, <1>13
<1> QED
  BY <1>10, <1>11, <1>14, <1>15

LEMMA RolesMembers ==
    ASSUME NEW p1, NEW p2, NEW p3, NEW p4, NEW p5, NEW v1, NEW v2, NEW v3, NEW v4, NEW v5,
           NEW o, Five(o, "$r", p1, v1, "$w", p2, v2, "$d", p3, v3, "$mr", p4, v4,
                       "$mw", p5, v5)
    PROVE  /\ Unique(o)
           /\ (p1 = None => "$r" \notin Keys(o)) /\ (p1 # None => Holds(o, "$r", v1))
           /\ (p2 = None => "$w" \notin Keys(o)) /\ (p2 # None => Holds(o, "$w", v2))
           /\ (p3 = None => "$d" \notin Keys(o)) /\ (p3 # None => Holds(o, "$d", v3))
           /\ (p4 = None => "$mr" \notin Keys(o)) /\ (p4 # None => Holds(o, "$mr", v4))
           /\ (p5 = None => "$mw" \notin Keys(o)) /\ (p5 # None => Holds(o, "$mw", v5))
<1>1. /\ IsSequence(o)
      /\ \A k : k \in Keys(o) <=> \/ p1 # None /\ k = "$r"
                                  \/ p2 # None /\ k = "$w"
                                  \/ p3 # None /\ k = "$d"
                                  \/ p4 # None /\ k = "$mr"
                                  \/ p5 # None /\ k = "$mw"
  BY FiveMembers
<1>2. /\ (p1 # None => Holds(o, "$r", v1)) /\ (p2 # None => Holds(o, "$w", v2))
      /\ (p3 # None => Holds(o, "$d", v3)) /\ (p4 # None => Holds(o, "$mr", v4))
      /\ (p5 # None => Holds(o, "$mw", v5))
  BY FiveMembers
<1>3. Unique(o)
  BY FiveMembers
<1> QED
  BY <1>1, <1>2, <1>3

\* The object of an acl.
LEMMA RolesObject ==
    ASSUME NEW V, NEW roles, NEW o,
           Five(o, "$r", roles["$r"], V["$r"], "$w", roles["$w"], V["$w"],
                "$d", roles["$d"], V["$d"], "$mr", roles["$mr"], V["$mr"],
                "$mw", roles["$mw"], V["$mw"])
    PROVE  /\ Unique(o)
           /\ \A kind \in Roles : /\ roles[kind] = None => kind \notin Keys(o)
                                  /\ roles[kind] # None => Holds(o, kind, V[kind])
<1>1. /\ Unique(o)
      /\ roles["$r"] = None => "$r" \notin Keys(o)
      /\ roles["$r"] # None => Holds(o, "$r", V["$r"])
      /\ roles["$w"] = None => "$w" \notin Keys(o)
      /\ roles["$w"] # None => Holds(o, "$w", V["$w"])
      /\ roles["$d"] = None => "$d" \notin Keys(o)
      /\ roles["$d"] # None => Holds(o, "$d", V["$d"])
      /\ roles["$mr"] = None => "$mr" \notin Keys(o)
      /\ roles["$mr"] # None => Holds(o, "$mr", V["$mr"])
      /\ roles["$mw"] = None => "$mw" \notin Keys(o)
      /\ roles["$mw"] # None => Holds(o, "$mw", V["$mw"])
  BY RolesMembers
<1> QED
  BY <1>1 DEF Roles

\* A role that is in the object is read back, one that is not has the default.
LEMMA AclIsRead ==
    ASSUME NEW acl, IsAcl(acl)
    PROVE  deserialize_acl(serialize_acl(acl)) = Some(Some(acl))
<1>1. CASE acl = UserStream
  BY <1>1 DEF serialize_acl, deserialize_acl, UserStream, SystemStream, String
<1>2. CASE acl = SystemStream
  BY <1>2 DEF serialize_acl, deserialize_acl, UserStream, SystemStream, String
<1>3. ASSUME NEW roles, acl = Stream(roles), roles = [kind \in Roles |-> roles[kind]],
             \A kind \in Roles : IsRoles(roles[kind])
      PROVE  deserialize_acl(serialize_acl(acl)) = Some(Some(acl))
  <2> DEFINE V == [kind \in Roles |-> serialize_roles(roles[kind][1])]
  <2>1. acl # UserStream /\ acl # SystemStream /\ acl[2] = roles
    BY <1>3 DEF Stream, UserStream, SystemStream
  <2>2. PICK o : /\ serialize_acl(acl) = <<"object", o>>
                 /\ Five(o, "$r", roles["$r"], V["$r"], "$w", roles["$w"], V["$w"],
                         "$d", roles["$d"], V["$d"], "$mr", roles["$mr"], V["$mr"],
                         "$mw", roles["$mw"], V["$mw"])
    BY <2>1 DEF serialize_acl, Member, Single, Five, Roles
  <2>3. /\ Unique(o)
        /\ \A kind \in Roles : /\ roles[kind] = None => kind \notin Keys(o)
                               /\ roles[kind] # None => Holds(o, kind, V[kind])
    BY <2>2, RolesObject
  <2>4. ASSUME NEW kind \in Roles
        PROVE  MemberOf(o, kind, deserialize_roles) = Some(roles[kind])
    <3>1. CASE roles[kind] = None
      BY <2>3, <3>1, FoundRoles
    <3>2. CASE roles[kind] # None
      <4>1. PICK some : IsSequence(some) /\ roles[kind] = Some(some)
        BY <1>3, <3>2 DEF IsRoles
      <4>2. roles[kind][1] = some
        BY <4>1 DEF Some
      <4> QED
        BY <2>3, <3>2, <4>1, <4>2, FoundRoles, RolesAreRead
    <3> QED
      BY <3>1, <3>2
  <2> DEFINE read == [kind \in Roles |-> MemberOf(o, kind, deserialize_roles)]
  <2>5. \A kind \in Roles : read[kind] = Some(roles[kind])
    BY <2>4
  <2>6. deserialize_acl(<<"object", o>>) =
            IF \E kind \in Roles : read[kind] = None THEN None
            ELSE Some(Some(Stream([kind \in Roles |-> read[kind][1]])))
    BY DEF deserialize_acl, String
  <2> HIDE DEF read
  <2>7. \A kind \in Roles : read[kind] # None /\ read[kind][1] = roles[kind]
    BY <2>5 DEF Some, None
  <2>8. [kind \in Roles |-> read[kind][1]] = [kind \in Roles |-> roles[kind]]
    BY <2>7
  <2> QED
    BY <1>3, <2>2, <2>6, <2>7, <2>8
<1> QED
  BY <1>1, <1>2, <1>3 DEF IsAcl


\* The members of stream metadata that have names of the system's.
LEMMA SystemMembers ==
    ASSUME NEW p1, NEW p2, NEW p3, NEW p4, NEW p5, NEW v1, NEW v2, NEW v3, NEW v4, NEW v5,
           NEW o, Five(o, "$maxCount", p1, v1, "$maxAge", p2, v2, "$tb", p3, v3,
                       "$cacheControl", p4, v4, "$acl", p5, v5)
    PROVE  /\ IsSequence(o) /\ Unique(o) /\ Keys(o) \subseteq Names
           /\ (p1 = None => "$maxCount" \notin Keys(o)) /\ (p1 # None => Holds(o, "$maxCount", v1))
           /\ (p2 = None => "$maxAge" \notin Keys(o)) /\ (p2 # None => Holds(o, "$maxAge", v2))
           /\ (p3 = None => "$tb" \notin Keys(o)) /\ (p3 # None => Holds(o, "$tb", v3))
           /\ (p4 = None => "$cacheControl" \notin Keys(o))
           /\ (p4 # None => Holds(o, "$cacheControl", v4))
           /\ (p5 = None => "$acl" \notin Keys(o)) /\ (p5 # None => Holds(o, "$acl", v5))
<1>1. /\ IsSequence(o)
      /\ \A k : k \in Keys(o) <=> \/ p1 # None /\ k = "$maxCount"
                                  \/ p2 # None /\ k = "$maxAge"
                                  \/ p3 # None /\ k = "$tb"
                                  \/ p4 # None /\ k = "$cacheControl"
                                  \/ p5 # None /\ k = "$acl"
  BY FiveMembers
<1>2. /\ (p1 # None => Holds(o, "$maxCount", v1)) /\ (p2 # None => Holds(o, "$maxAge", v2))
      /\ (p3 # None => Holds(o, "$tb", v3)) /\ (p4 # None => Holds(o, "$cacheControl", v4))
      /\ (p5 # None => Holds(o, "$acl", v5))
  BY FiveMembers
<1>3. Unique(o)
  BY FiveMembers
<1> QED
  BY <1>1, <1>2, <1>3 DEF Names

\* Metadata is read as it was written, in the precision of a duration.
LEMMA MetadataIsRead ==
    ASSUME NEW m, IsMetadata(m), DOMAIN m.custom_properties \cap Names = {}
    PROVE  from_json(to_json(m)) = Some(Rounded(m))
<1> DEFINE c == m.custom_properties
           w == CustomMembers(c)
<1>1. PICK o : /\ to_json(m) = o \o w
               /\ Five(o, "$maxCount", m.max_count, Number(m.max_count[1]),
                       "$maxAge", m.max_age, serialize_duration(m.max_age[1]),
                       "$tb", m.truncate_before, Number(m.truncate_before[1]),
                       "$cacheControl", m.cache_control, serialize_duration(m.cache_control[1]),
                       "$acl", m.acl, serialize_acl(m.acl[1]))
  BY DEF to_json, Member, Single, Five, CustomMembers
<1>2. /\ IsSequence(o) /\ Unique(o) /\ Keys(o) \subseteq Names
      /\ m.max_count = None => "$maxCount" \notin Keys(o)
      /\ m.max_count # None => Holds(o, "$maxCount", Number(m.max_count[1]))
      /\ m.max_age = None => "$maxAge" \notin Keys(o)
      /\ m.max_age # None => Holds(o, "$maxAge", serialize_duration(m.max_age[1]))
      /\ m.truncate_before = None => "$tb" \notin Keys(o)
      /\ m.truncate_before # None => Holds(o, "$tb", Number(m.truncate_before[1]))
      /\ m.cache_control = None => "$cacheControl" \notin Keys(o)
      /\ m.cache_control # None =>
            Holds(o, "$cacheControl", serialize_duration(m.cache_control[1]))
      /\ m.acl = None => "$acl" \notin Keys(o)
      /\ m.acl # None => Holds(o, "$acl", serialize_acl(m.acl[1]))
  BY <1>1, SystemMembers
<1>3. /\ IsSequence(w) /\ Keys(w) = DOMAIN c /\ Unique(w)
      /\ \A k \in DOMAIN c : Holds(w, k, c[k])
  BY CustomIs DEF IsMetadata
<1> DEFINE object == to_json(m)
<1> HIDE DEF w, object
<1>4. /\ Unique(object) /\ Keys(object) = Keys(o) \cup DOMAIN c
      /\ \A k, v : Holds(object, k, v) <=> Holds(o, k, v) \/ Holds(w, k, v)
  <2>1. object = o \o w
    BY <1>1 DEF object
  <2>2. Keys(o) \cap Keys(w) = {}
    BY <1>2, <1>3
  <2> QED
    BY <1>2, <1>3, <2>1, <2>2, JoinedObjects
<1>5. \A k \in Names : k \notin DOMAIN c
  OBVIOUS
<1>6. MemberOf(object, "$maxCount", ParseNumber) = Some(m.max_count)
  <2>0. "$maxCount" \in Names
    BY DEF Names
  <2>1. CASE m.max_count = None
    BY <1>2, <1>4, <1>5, <2>0, <2>1, FoundNumber
  <2>2. CASE m.max_count # None
    <3>1. PICK n : m.max_count = Some(n)
      BY <2>2 DEF IsMetadata
    <3>2. m.max_count[1] = n
      BY <3>1 DEF Some
    <3>3. Holds(object, "$maxCount", Number(n))
      BY <1>2, <1>4, <2>2, <3>2
    <3>4. MemberOf(object, "$maxCount", ParseNumber) = ParseNumber(Number(n))
      BY <1>4, <3>3, FoundNumber
    <3> QED
      BY <3>1, <3>4, NumberIsRead
  <2> QED
    BY <2>1, <2>2
<1>7. MemberOf(object, "$tb", ParseNumber) = Some(m.truncate_before)
  <2>0. "$tb" \in Names
    BY DEF Names
  <2>1. CASE m.truncate_before = None
    BY <1>2, <1>4, <1>5, <2>0, <2>1, FoundNumber
  <2>2. CASE m.truncate_before # None
    <3>1. PICK n : m.truncate_before = Some(n)
      BY <2>2 DEF IsMetadata
    <3>2. m.truncate_before[1] = n
      BY <3>1 DEF Some
    <3>3. Holds(object, "$tb", Number(n))
      BY <1>2, <1>4, <2>2, <3>2
    <3>4. MemberOf(object, "$tb", ParseNumber) = ParseNumber(Number(n))
      BY <1>4, <3>3, FoundNumber
    <3> QED
      BY <3>1, <3>4, NumberIsRead
  <2> QED
    BY <2>1, <2>2
<1>8. MemberOf(object, "$maxAge", deserialize_duration) = Some(Millis(m.max_age))
  <2>0. "$maxAge" \in Names
    BY DEF Names
  <2>1. CASE m.max_age = None
    BY <1>2, <1>4, <1>5, <2>0, <2>1, FoundDuration DEF Millis
  <2>2. CASE m.max_age # None
    <3>1. PICK d \in Nat : m.max_age = Some(d)
      BY <2>2 DEF IsMetadata, IsDuration
    <3>2. m.max_age[1] = d
      BY <3>1 DEF Some
    <3> QED
      BY <1>2, <1>4, <2>2, <3>1, <3>2, FoundDuration, DurationIsRead
  <2> QED
    BY <2>1, <2>2
<1>9. MemberOf(object, "$cacheControl", deserialize_duration) = Some(Millis(m.cache_control))
  <2>0. "$cacheControl" \in Names
    BY DEF Names
  <2>1. CASE m.cache_control = None
    BY <1>2, <1>4, <1>5, <2>0, <2>1, FoundDuration DEF Millis
  <2>2. CASE m.cache_control # None
    <3>1. PICK d \in Nat : m.cache_control = Some(d)
      BY <2>2 DEF IsMetadata, IsDuration
    <3>2. m.cache_control[1] = d
      BY <3>1 DEF Some
    <3> QED
      BY <1>2, <1>4, <2>2, <3>1, <3>2, FoundDuration, DurationIsRead
  <2> QED
    BY <2>1, <2>2
<1>10. MemberOf(object, "$acl", deserialize_acl) = Some(m.acl)
  <2>0. "$acl" \in Names
    BY DEF Names
  <2>1. CASE m.acl = None
    BY <1>2, <1>4, <1>5, <2>0, <2>1, FoundAcl
  <2>2. CASE m.acl # None
    <3>1. PICK acl : IsAcl(acl) /\ m.acl = Some(acl)
      BY <2>2 DEF IsMetadata
    <3>2. m.acl[1] = acl
      BY <3>1 DEF Some
    <3>3. Holds(object, "$acl", serialize_acl(acl))
      BY <1>2, <1>4, <2>2, <3>2
    <3>4. MemberOf(object, "$acl", deserialize_acl) = deserialize_acl(serialize_acl(acl))
      BY <1>4, <3>3, FoundAcl
    <3> QED
      BY <3>1, <3>4, AclIsRead
  <2> QED
    BY <2>1, <2>2
<1> DEFINE custom == {object[i][1] : i \in DOMAIN object} \ Names
<1>11. custom = DOMAIN c
  <2>1. custom = Keys(object) \ Names
    BY DEF Keys
  <2> QED
    BY <1>2, <1>4, <2>1
<1>12. ASSUME NEW k \in DOMAIN c
       PROVE  object[CHOOSE i \in DOMAIN object : object[i][1] = k][2] = c[k]
  <2>1. PICK i \in DOMAIN object : object[i] = <<k, c[k]>>
    BY <1>3, <1>4 DEF Holds
  <2>2. \A j \in DOMAIN object : object[j][1] = k => j = i
    BY <1>4, <2>1 DEF Unique
  <2>3. \A j : j \in DOMAIN object /\ object[j][1] = k <=> j = i
    BY <2>1, <2>2
  <2>4. (CHOOSE j \in DOMAIN object : object[j][1] = k) = i
    BY <2>3
  <2>5. object[i][2] = c[k]
    BY <2>1
  <2> QED
    BY <2>4, <2>5
<1> DEFINE properties == [k \in custom |-> object[CHOOSE i \in DOMAIN object : object[i][1] = k][2]]
<1>13. properties = c
  <2>1. properties = [k \in DOMAIN c |-> c[k]]
    BY <1>11, <1>12
  <2> QED
    BY <2>1 DEF IsMetadata
<1>14. from_json(object) =
           Some([max_count |-> m.max_count, max_age |-> Millis(m.max_age),
                 truncate_before |-> m.truncate_before,
                 cache_control |-> Millis(m.cache_control), acl |-> m.acl,
                 custom_properties |-> c])
  <2>1. \A x : Some(x) # None /\ Some(x)[1] = x
    BY DEF Some, None
  <2> HIDE DEF c
  <2> QED
    BY <1>6, <1>7, <1>8, <1>9, <1>10, <1>13, <2>1 DEF from_json
<1>15. Rounded(m) =
           [max_count |-> m.max_count, max_age |-> Millis(m.max_age),
            truncate_before |-> m.truncate_before,
            cache_control |-> Millis(m.cache_control), acl |-> m.acl,
            custom_properties |-> c]
  <2> DEFINE plain == [max_count |-> m.max_count, max_age |-> m.max_age,
                       truncate_before |-> m.truncate_before,
                       cache_control |-> m.cache_control, acl |-> m.acl,
                       custom_properties |-> c]
  <2>1. m = plain
    BY DEF IsMetadata
  <2> DEFINE half == [plain EXCEPT !.max_age = Millis(m.max_age)]
  <2>2. half = [max_count |-> m.max_count, max_age |-> Millis(m.max_age),
                truncate_before |-> m.truncate_before,
                cache_control |-> m.cache_control, acl |-> m.acl, custom_properties |-> c]
    OBVIOUS
  <2>3. [plain EXCEPT !.max_age = Millis(m.max_age), !.cache_control = Millis(m.cache_control)] =
            [half EXCEPT !.cache_control = Millis(m.cache_control)]
    OBVIOUS
  <2> HIDE DEF plain, half
  <2>4. [half EXCEPT !.cache_control = Millis(m.cache_control)] =
            [max_count |-> m.max_count, max_age |-> Millis(m.max_age),
             truncate_before |-> m.truncate_before,
             cache_control |-> Millis(m.cache_control), acl |-> m.acl,
             custom_properties |-> c]
    BY <2>2
  <2> QED
    BY <2>1, <2>3, <2>4 DEF Rounded
<1> QED
  BY <1>14, <1>15 DEF object

-----------------------------------------------------------------------------
(* The trace of an append, put into the metadata of an event. *)

LEMMA LeastNumber ==
    ASSUME NEW T \in SUBSET Nat, T # {}
    PROVE  \E n \in T : \A m \in T : n <= m
<1>1. PICK n \in T : \A m \in T : <<m, n>> \notin OpToRel(<, Nat)
  BY NatLessThanWellFounded, WFMin, Zenon
<1>2. \A m \in T : ~(m < n)
  BY <1>1 DEF OpToRel
<1> QED
  BY <1>2

\* One name set by the propagator.
Put(carrier, key, context) ==
    carrier_set(carrier, key, IF key = "traceparent" THEN <<"span", context>>
                              ELSE <<"text", "">>)
AnyOf(s) == CHOOSE x \in s : TRUE

\* g is what becomes of the fields for every n of the names, or fewer.
UpTo(n) == {s \in SUBSET Propagated : Cardinality(s) <= n}
IsFolded(g, fields, context, n) ==
    g = [s \in UpTo(n) |-> IF s = {} THEN fields ELSE Put(g[s \ {AnyOf(s)}], AnyOf(s), context)]

\* A set of the names with one of them less.
LEMMA OneLess ==
    ASSUME NEW n \in Nat, NEW s \in UpTo(n), s # {}
    PROVE  /\ AnyOf(s) \in s /\ n # 0
           /\ s \ {AnyOf(s)} \in UpTo(n - 1)
           /\ Cardinality(s) \in Nat
           /\ Cardinality(s \ {AnyOf(s)}) = Cardinality(s) - 1
<1>1. AnyOf(s) \in s
  BY DEF AnyOf
<1>2. IsFiniteSet(s) /\ s \in SUBSET Propagated /\ Cardinality(s) <= n
  BY EventsAssumption, FS_Subset DEF UpTo
<1>3. Cardinality(s) \in Nat /\ Cardinality(s \ {AnyOf(s)}) = Cardinality(s) - 1
  BY <1>1, <1>2, FS_RemoveElement, FS_CardinalityType
<1>4. Cardinality(s) # 0
  BY <1>2, FS_EmptySet
<1> QED
  BY <1>1, <1>2, <1>3, <1>4 DEF UpTo

LEMMA FoldedExists ==
    ASSUME NEW fields, NEW context, NEW n \in Nat
    PROVE  \E g : IsFolded(g, fields, context, n)
<1> DEFINE T == {m \in Nat : \A g : ~IsFolded(g, fields, context, m)}
<1> SUFFICES ASSUME T # {} PROVE FALSE
  OBVIOUS
<1>1. PICK m \in T : \A k \in T : m <= k
  <2>1. T \in SUBSET Nat
    OBVIOUS
  <2> QED
    BY <2>1, LeastNumber
<1>2. m \in Nat /\ \A g : ~IsFolded(g, fields, context, m)
  BY <1>1
<1>3. m # 0
  <2>1. ASSUME m = 0 PROVE FALSE
    <3> DEFINE g == [s \in UpTo(0) |-> fields]
    <3>1. \A s \in UpTo(0) : s = {}
      BY OneLess
    <3>2. IsFolded(g, fields, context, 0)
      BY <3>1 DEF IsFolded
    <3> QED
      BY <1>2, <2>1, <3>2
  <2> QED
    BY <2>1
<1>4. PICK f : IsFolded(f, fields, context, m - 1)
  <2>1. m - 1 \in Nat /\ ~(m <= m - 1)
    BY <1>2, <1>3
  <2>2. m - 1 \notin T
    BY <1>1, <2>1
  <2> QED
    BY <2>1, <2>2
<1> DEFINE g == [s \in UpTo(m) |-> IF s = {} THEN fields
                                   ELSE Put(f[s \ {AnyOf(s)}], AnyOf(s), context)]
<1>5. \A s \in UpTo(m - 1) : s \in UpTo(m) /\ g[s] = f[s]
  <2> TAKE s \in UpTo(m - 1)
  <2>1. s \in UpTo(m)
    <3>1. IsFiniteSet(s)
      BY EventsAssumption, FS_Subset DEF UpTo
    <3>2. Cardinality(s) \in Nat
      BY <3>1, FS_CardinalityType
    <3> QED
      BY <1>2, <3>2 DEF UpTo
  <2>2. f[s] = IF s = {} THEN fields ELSE Put(f[s \ {AnyOf(s)}], AnyOf(s), context)
    BY <1>4 DEF IsFolded
  <2> QED
    BY <2>1, <2>2
<1>6. ASSUME NEW s \in UpTo(m)
      PROVE  g[s] = IF s = {} THEN fields ELSE Put(g[s \ {AnyOf(s)}], AnyOf(s), context)
  <2>1. CASE s = {}
    BY <2>1
  <2>2. CASE s # {}
    <3>1. s \ {AnyOf(s)} \in UpTo(m - 1)
      BY <1>2, <2>2, OneLess
    <3>2. g[s \ {AnyOf(s)}] = f[s \ {AnyOf(s)}]
      BY <1>5, <3>1
    <3>3. g[s] = Put(f[s \ {AnyOf(s)}], AnyOf(s), context)
      BY <2>2
    <3> QED
      BY <2>2, <3>2, <3>3
  <2> QED
    BY <2>1, <2>2
<1> DEFINE h == [s \in UpTo(m) |-> IF s = {} THEN fields
                                   ELSE Put(g[s \ {AnyOf(s)}], AnyOf(s), context)]
<1>7. IsFolded(g, fields, context, m)
  <2>1. g = h
    BY <1>6
  <2> HIDE DEF g
  <2> QED
    BY <2>1 DEF IsFolded
<1> QED
  BY <1>2, <1>7

LEMMA InjectIsFolded ==
    ASSUME NEW fields, NEW context
    PROVE  /\ Cardinality(Propagated) \in Nat
           /\ Propagated \in UpTo(Cardinality(Propagated))
           /\ \E g : /\ IsFolded(g, fields, context, Cardinality(Propagated))
                     /\ Inject(fields, context) = g[Propagated]
<1> DEFINE n == Cardinality(Propagated)
<1>1. n \in Nat
  BY EventsAssumption, FS_CardinalityType
<1>2. UpTo(n) = SUBSET Propagated
  BY EventsAssumption, FS_Subset DEF UpTo
<1>3. \E g : g = [s \in SUBSET Propagated |->
                    IF s = {} THEN fields ELSE Put(g[s \ {AnyOf(s)}], AnyOf(s), context)]
  <2>1. PICK g : IsFolded(g, fields, context, n)
    BY <1>1, FoldedExists
  <2>2. g = [s \in UpTo(n) |->
                IF s = {} THEN fields ELSE Put(g[s \ {AnyOf(s)}], AnyOf(s), context)]
    BY <2>1 DEF IsFolded
  <2> QED
    BY <1>2, <2>2
<1>4. Inject(fields, context) =
        (CHOOSE g : g = [s \in SUBSET Propagated |->
            IF s = {} THEN fields ELSE Put(g[s \ {AnyOf(s)}], AnyOf(s), context)])[Propagated]
  BY DEF Inject, FoldSet, MapThenFoldSet, Put, AnyOf
<1> QED
  BY <1>1, <1>2, <1>3, <1>4 DEF IsFolded

\* What of the fields is the application's, and what they say of the trace once the
\* propagator has set it.
OwnOf(fields) == [k \in {k \in DOMAIN fields : to_lowercase(k) \notin Trace} |-> fields[k]]
IsTraced(fields, context) ==
    /\ "traceparent" \in DOMAIN fields /\ fields["traceparent"] = <<"span", context>>
    /\ \A k \in DOMAIN fields : to_lowercase(k) = "traceparent" => k = "traceparent"

LEMMA PutKeepsOwn ==
    ASSUME NEW carrier, NEW key \in Propagated, NEW context
    PROVE  /\ OwnOf(Put(carrier, key, context)) = OwnOf(carrier)
           /\ key = "traceparent" => IsTraced(Put(carrier, key, context), context)
           /\ IsTraced(carrier, context) => IsTraced(Put(carrier, key, context), context)
<1>0. /\ to_lowercase(key) = key /\ to_lowercase("traceparent") = "traceparent"
      /\ "traceparent" \in Trace /\ \A name \in Trace : to_lowercase(name) = name
  BY EventsAssumption
<1>1. is_persisted_trace_field(key) <=> key \in Trace
  BY <1>0 DEF is_persisted_trace_field, eq_ignore_ascii_case
<1>2. CASE key \notin Trace
  <2>1. Put(carrier, key, context) = carrier
    BY <1>1, <1>2 DEF Put, carrier_set
  <2> QED
    BY <1>0, <1>2, <2>1
<1>3. CASE key \in Trace
  <2> DEFINE value == IF key = "traceparent" THEN <<"span", context>> ELSE <<"text", "">>
             others == {k \in DOMAIN carrier : to_lowercase(k) # key}
             new == [k \in others \cup {key} |-> IF k = key THEN value ELSE carrier[k]]
  <2>1. Put(carrier, key, context) = new
    BY <1>0, <1>1, <1>3 DEF Put, carrier_set, eq_ignore_ascii_case
  <2>2. DOMAIN new = others \cup {key} /\ key \notin others /\ new[key] = value
    BY <1>0
  <2>3. \A k \in others : new[k] = carrier[k]
    BY <1>0
  <2> HIDE DEF new, value
  <2>4. {k \in DOMAIN new : to_lowercase(k) \notin Trace}
            = {k \in DOMAIN carrier : to_lowercase(k) \notin Trace}
    BY <1>0, <1>3, <2>2
  <2>5. \A k \in DOMAIN carrier : to_lowercase(k) \notin Trace => new[k] = carrier[k]
    BY <1>3, <2>3
  <2>6. OwnOf(new) = OwnOf(carrier)
    BY <2>4, <2>5 DEF OwnOf
  <2>7. ASSUME key = "traceparent" PROVE IsTraced(new, context)
    <3>1. new[key] = <<"span", context>>
      BY <2>2, <2>7 DEF value
    <3> QED
      BY <2>2, <2>7, <3>1 DEF IsTraced
  <2>8. ASSUME IsTraced(carrier, context), key # "traceparent" PROVE IsTraced(new, context)
    <3>1. "traceparent" \in others
      BY <1>0, <2>8 DEF IsTraced
    <3>2. new["traceparent"] = <<"span", context>>
      BY <2>3, <2>8, <3>1 DEF IsTraced
    <3>3. \A k \in DOMAIN new : to_lowercase(k) = "traceparent" => k = "traceparent"
      BY <1>0, <2>2, <2>8 DEF IsTraced
    <3> QED
      BY <2>2, <3>1, <3>2, <3>3 DEF IsTraced
  <2> QED
    BY <2>1, <2>6, <2>7, <2>8
<1> QED
  BY <1>2, <1>3

LEMMA FoldedKeepsOwn ==
    ASSUME NEW fields, NEW context, NEW n \in Nat, NEW g, IsFolded(g, fields, context, n),
           NEW s \in UpTo(n)
    PROVE  /\ OwnOf(g[s]) = OwnOf(fields)
           /\ "traceparent" \in s => IsTraced(g[s], context)
<1> DEFINE Kept(r) == /\ OwnOf(g[r]) = OwnOf(fields)
                      /\ "traceparent" \in r => IsTraced(g[r], context)
           T == {m \in Nat : \E r \in UpTo(n) : Cardinality(r) = m /\ ~Kept(r)}
<1>1. ASSUME T # {} PROVE FALSE
  <2>1. T \in SUBSET Nat
    OBVIOUS
  <2>2. PICK m \in T : \A k \in T : m <= k
    BY <1>1, <2>1, LeastNumber
  <2>3. PICK r \in UpTo(n) : Cardinality(r) = m /\ ~Kept(r)
    BY <2>2
  <2> HIDE DEF Kept
  <2>4. CASE r = {}
    <3>1. g[r] = fields
      BY <2>4 DEF IsFolded
    <3> QED
      BY <2>3, <2>4, <3>1 DEF Kept
  <2>5. CASE r # {}
    <3> DEFINE x == AnyOf(r)
               less == r \ {x}
    <3>1. /\ x \in r /\ n # 0 /\ less \in UpTo(n - 1)
          /\ m \in Nat /\ Cardinality(less) = m - 1
      BY <2>3, <2>5, OneLess
    <3>2. x \in Propagated
      BY <3>1 DEF UpTo
    <3>3. less \in UpTo(n)
      <4>1. IsFiniteSet(less)
        BY <3>1, EventsAssumption, FS_Subset DEF UpTo
      <4>2. Cardinality(less) \in Nat
        BY <4>1, FS_CardinalityType
      <4> QED
        BY <3>1, <4>2 DEF UpTo
    <3>4. Cardinality(less) \in Nat
      BY <3>1, <3>3, EventsAssumption, FS_Subset, FS_CardinalityType DEF UpTo
    <3>5. Kept(less)
      <4>1. m - 1 \in Nat /\ ~(m <= m - 1)
        BY <3>1, <3>4
      <4>2. m - 1 \notin T
        BY <2>2, <4>1
      <4> QED
        BY <3>1, <3>3, <4>1, <4>2
    <3>6. g[r] = Put(g[less], x, context)
      BY <2>5 DEF IsFolded
    <3> HIDE DEF x, less
    <3>7. Kept(r)
      <4>1. "traceparent" \in r => x = "traceparent" \/ "traceparent" \in less
        BY DEF less
      <4> QED
        BY <3>2, <3>5, <3>6, <4>1, PutKeepsOwn DEF Kept
    <3> QED
      BY <2>3, <3>7
  <2> QED
    BY <2>4, <2>5
<1>2. Cardinality(s) \in Nat
  BY EventsAssumption, FS_Subset, FS_CardinalityType DEF UpTo
<1>3. Kept(s)
  BY <1>1, <1>2
<1> QED
  BY <1>3

\* The propagator leaves what is the application's, and its trace is the only one.
LEMMA InjectedTrace ==
    ASSUME NEW fields, NEW context
    PROVE  /\ OwnOf(Inject(fields, context)) = OwnOf(fields)
           /\ IsTraced(Inject(fields, context), context)
<1>1. PICK g : /\ IsFolded(g, fields, context, Cardinality(Propagated))
               /\ Inject(fields, context) = g[Propagated]
  BY InjectIsFolded
<1> QED
  BY <1>1, InjectIsFolded, FoldedKeepsOwn, EventsAssumption

\* What is extracted of what was injected.
LEMMA ExtractedTrace ==
    ASSUME NEW fields, NEW context, propagates
    PROVE  extract_event_context(Object(Inject(fields, context))) = {context}
<1> DEFINE new == Inject(fields, context)
           found == carrier_get(new, "traceparent")
<1>1. IsTraced(new, context)
  BY InjectedTrace
<1>2. to_lowercase("traceparent") = "traceparent"
  BY EventsAssumption
<1> HIDE DEF new
<1>3. found = {"traceparent"}
  BY <1>1, <1>2 DEF carrier_get, eq_ignore_ascii_case, IsTraced
<1>4. extract_event_context(Object(new)) =
          {IF new[k][1] = "span" THEN new[k][2] ELSE 0 : k \in found}
          \cup {0 : none \in IF found = {} THEN {0} ELSE {}}
  BY DEF extract_event_context, Object
<1>5. {0 : none \in IF found = {} THEN {0} ELSE {}} = {}
  BY <1>3
<1>6. {IF new[k][1] = "span" THEN new[k][2] ELSE 0 : k \in found} = {context}
  BY <1>1, <1>3 DEF IsTraced
<1> QED
  BY <1>4, <1>5, <1>6 DEF new

-----------------------------------------------------------------------------
(* What holds of the events a server was given and of what was read of them. *)

IsBytes(bytes) == bytes[1] = "empty" => bytes = Empty
IsEventData(event) ==
    /\ event = [id_opt |-> event.id_opt, type |-> event.type,
                content_type |-> event.content_type, payload |-> event.payload,
                custom_metadata |-> event.custom_metadata]
    /\ \/ event.custom_metadata = None
       \/ \E bytes : IsBytes(bytes) /\ event.custom_metadata = Some(bytes)

\* The metadata that is stored for an event: what it was given, or the trace of its
\* append and what of it is the application's.
Carries(p, bytes, w) ==
    IF p /\ w.span # 0 /\ Given(w.event)[1] \in {"empty", "object"}
    THEN \E fields : /\ bytes = Object(Inject(fields, w.span))
                     /\ OwnOf(fields) = Own(Given(w.event))
    ELSE bytes = Given(w.event)

Agrees(p, entry, w) ==
    /\ entry.request.type = w.event.type /\ entry.request.data = w.event.payload
    /\ entry.request.content_type = w.event.content_type
    /\ w.event.id_opt # None => entry.request.id = w.event.id_opt[1]
    /\ IsBytes(entry.request.custom_metadata)
    /\ Carries(p, entry.request.custom_metadata, w)

IsRead(w, p, r) == r.by # "broken link" /\ p /\ w.span # 0
                   /\ Given(w.event)[1] \in {"empty", "object"} => r.link = w.span

\* An answer is to an event that was set.
Answers(answer, w) ==
    \/ DOMAIN w.of[1].custom_properties \cap Names # {}
    \/ answer[1] = "Success" /\ answer[2] = Rounded(w.of[1])

LogInv ==
    /\ log = [s \in Streams |-> log[s]] /\ written = [s \in Streams |-> written[s]]
    /\ \A s \in Streams :
          /\ IsSequence(log[s]) /\ IsSequence(written[s]) /\ Len(log[s]) = Len(written[s])
          /\ \A i \in DOMAIN log[s] : Agrees(propagates, log[s][i], written[s][i])
BatchInv == IsSequence(batch) /\ \A i \in DOMAIN batch : IsEventData(batch[i])
SetInv ==
    \A i \in DOMAIN log["$$orders"] :
        \E m : /\ IsMetadata(m) /\ written["$$orders"][i].of = Some(m)
               /\ log["$$orders"][i].request.data = <<"metadata", to_json(m)>>
ResultInv ==
    result # None =>
        \E s \in Streams : \E events, n :
            /\ result = Some([stream |-> s, events |-> events, next_expected_version |-> n])
            /\ \A k \in DOMAIN events :
                  /\ n + 1 - Len(events) + k \in DOMAIN written[s]
                  /\ written[s][n + 1 - Len(events) + k].event = events[k]
ReceivedInv ==
    received # None =>
        \E r : /\ received = Some(r) /\ r.revision + 1 \in DOMAIN written["orders"]
               /\ IsBytes(r.custom_metadata)
               /\ IsRead(written["orders"][r.revision + 1], propagates, r)
MetadataInv ==
    metadata[1] \in {"Success", "InternalParsingError"} =>
        \E i \in DOMAIN written["$$orders"] : Answers(metadata, written["$$orders"][i])

EventsInv ==
    /\ LogInv /\ BatchInv /\ IsMetadata(builder) /\ SetInv
    /\ ResultInv /\ ReceivedInv /\ MetadataInv

\* An event as it is put into the request and stored.
LEMMA SentIs ==
    ASSUME NEW event, IsEventData(event), NEW context, NEW of, NEW stream, NEW nth
    PROVE  /\ Agrees(propagates,
                     Store(stream, AppendReq(inject_event_context(event, context), nth), nth),
                     [event |-> event, span |-> context, of |-> of])
           /\ Store(stream, AppendReq(inject_event_context(event, context), nth), nth).request.data
                  = event.payload
<1> DEFINE sent == inject_event_context(event, context)
           request == AppendReq(sent, nth)
           w == [event |-> event, span |-> context, of |-> of]
           given == IF event.custom_metadata \in {None, Some(Empty)}
                    THEN Object([k \in {} |-> Empty])
                    ELSE event.custom_metadata[1]
<1>1. Store(stream, request, nth).request = request
  BY DEF Store
<1>2. w.event = event /\ w.span = context
  OBVIOUS
<1>3. /\ IsBytes(Given(event))
      /\ Given(event)[1] = "empty" <=> event.custom_metadata \in {None, Some(Empty)}
  <2>1. CASE event.custom_metadata = None
    BY <2>1 DEF Given, IsBytes, Empty
  <2>2. CASE event.custom_metadata # None
    <3>1. PICK bytes : IsBytes(bytes) /\ event.custom_metadata = Some(bytes)
      BY <2>2 DEF IsEventData
    <3>2. Given(event) = bytes
      BY <2>2, <3>1 DEF Given, Some
    <3>3. Some(bytes) = Some(Empty) <=> bytes = Empty
      BY DEF Some
    <3>4. Empty[1] = "empty"
      BY DEF Empty
    <3> QED
      BY <2>2, <3>1, <3>2, <3>3, <3>4 DEF IsBytes
  <2> QED
    BY <2>1, <2>2
<1>4. Given(event)[1] # "empty" => given = Given(event)
  BY <1>3 DEF Given
<1>5. Given(event)[1] = "empty" => given = Object([k \in {} |-> Empty])
  BY <1>3
<1>6. sent = IF context = 0 \/ ~propagates \/ given[1] # "object" THEN event
             ELSE [event EXCEPT !.custom_metadata = Some(Object(Inject(given[2], context)))]
  BY DEF inject_event_context
<1>7. given[1] = "object" <=> Given(event)[1] \in {"empty", "object"}
  BY <1>4, <1>5 DEF Object
<1> HIDE DEF sent, given
<1>8. /\ sent.type = event.type /\ sent.content_type = event.content_type
      /\ sent.payload = event.payload /\ sent.id_opt = event.id_opt
  BY <1>6 DEF IsEventData
<1>9. /\ request.type = event.type /\ request.content_type = event.content_type
      /\ request.data = event.payload
      /\ event.id_opt # None => request.id = event.id_opt[1]
      /\ request.custom_metadata = Given(sent)
  BY <1>8 DEF AppendReq, Given
<1>10. \/ given[1] # "object"
       \/ /\ Own(given) = OwnOf(given[2])
          /\ Own(given) = Own(Given(event))
  <2>1. CASE Given(event)[1] = "empty"
    <3>1. given = Object([k \in {} |-> Empty])
      BY <1>5, <2>1
    <3>2. given[1] = "object" /\ given[2] = [k \in {} |-> Empty]
      BY <3>1 DEF Object
    <3>3. OwnOf([k \in {} |-> Empty]) = [k \in {} |-> Empty]
      BY DEF OwnOf
    <3>4. Own(Given(event)) = [k \in {} |-> Empty]
      BY <2>1 DEF Own
    <3> QED
      BY <3>2, <3>3, <3>4 DEF Own, OwnOf
  <2>2. CASE Given(event)[1] # "empty"
    BY <1>4, <2>2 DEF Own, OwnOf
  <2> QED
    BY <2>1, <2>2
<1>11. IsBytes(request.custom_metadata) /\ Carries(propagates, request.custom_metadata, w)
  <2>1. CASE context = 0 \/ ~propagates \/ given[1] # "object"
    <3>1. sent = event
      BY <1>6, <2>1
    <3> QED
      BY <1>2, <1>3, <1>7, <1>9, <2>1, <3>1 DEF Carries
  <2>2. CASE ~(context = 0 \/ ~propagates \/ given[1] # "object")
    <3>1. sent = [event EXCEPT !.custom_metadata = Some(Object(Inject(given[2], context)))]
      BY <1>6, <2>2
    <3>2. sent.custom_metadata = Some(Object(Inject(given[2], context)))
      BY <3>1 DEF IsEventData
    <3>3. Given(sent) = Object(Inject(given[2], context))
      BY <3>2 DEF Given, Some, None
    <3>4. IsBytes(Given(sent))
      BY <3>3 DEF IsBytes, Object
    <3> QED
      BY <1>2, <1>7, <1>9, <1>10, <2>2, <3>3, <3>4 DEF Carries
  <2> QED
    BY <2>1, <2>2
<1> HIDE DEF request, w
<1> QED
  <2>1. Agrees(propagates, Store(stream, request, nth), w)
    BY <1>1, <1>2, <1>9, <1>11 DEF Agrees
  <2> QED
    BY <1>1, <1>9, <2>1 DEF request, sent, w

\* An append: what was there stays, and each of its events is stored as it was given.
LEMMA SendStep ==
    ASSUME LogInv, NEW stream \in Streams, NEW events, IsSequence(events),
           \A k \in DOMAIN events : IsEventData(events[k]),
           NEW context, NEW of, Send(stream, events, context, of), propagates' = propagates
    PROVE  /\ LogInv'
           /\ ResultInv'
           /\ \A s \in Streams : \A i \in DOMAIN written[s] :
                 /\ i \in DOMAIN written'[s] /\ written'[s][i] = written[s][i]
                 /\ i \in DOMAIN log'[s] /\ log'[s][i] = log[s][i]
           /\ \A s \in Streams : \A i \in DOMAIN log'[s] :
                 \/ i \in DOMAIN log[s]
                 \/ /\ s = stream /\ written'[s][i].of = of
                    /\ \E k \in DOMAIN events : log'[s][i].request.data = events[k].payload
<1> DEFINE entry(k) == Store(stream, AppendReq(inject_event_context(events[k], context), k), k)
           w(k) == [event |-> events[k], span |-> context, of |-> of]
           a == [k \in DOMAIN events |-> entry(k)]
           b == [k \in DOMAIN events |-> w(k)]
           m == Len(events)
           n == Len(log[stream])
<1>1. m \in Nat /\ DOMAIN events = 1..m
  BY SequenceIs
<1>2. /\ IsSequence(a) /\ Len(a) = m /\ DOMAIN a = 1..m
      /\ IsSequence(b) /\ Len(b) = m /\ DOMAIN b = 1..m
  BY <1>1, MappedIs
<1>3. /\ n \in Nat /\ IsSequence(log[stream]) /\ DOMAIN log[stream] = 1..n
      /\ IsSequence(written[stream]) /\ DOMAIN written[stream] = 1..n
      /\ Len(written[stream]) = n
  BY SequenceIs DEF LogInv
<1>4. /\ log' = [log EXCEPT ![stream] = log[stream] \o a]
      /\ written' = [written EXCEPT ![stream] = written[stream] \o b]
      /\ result' = Some([stream |-> stream, events |-> events,
                         next_expected_version |-> WriteResult(Len(log[stream] \o a) - 1)])
  <2> DEFINE sent == [i \in DOMAIN events |-> inject_event_context(events[i], context)]
  <2>1. [i \in DOMAIN sent |-> Store(stream, AppendReq(sent[i], i), i)] = a
    OBVIOUS
  <2> QED
    BY <2>1 DEF Send
<1>5. \A k \in 1..m : a[k] = entry(k) /\ b[k] = w(k)
  BY <1>1
<1>6. \A k \in 1..m : /\ Agrees(propagates, a[k], b[k])
                      /\ a[k].request.data = events[k].payload
                      /\ b[k].of = of /\ b[k].event = events[k]
  <2> TAKE k \in 1..m
  <2>1. IsEventData(events[k])
    BY <1>1
  <2>2. Agrees(propagates, entry(k), w(k)) /\ entry(k).request.data = events[k].payload
    BY <2>1, SentIs
  <2> QED
    BY <1>5, <2>2
<1> HIDE DEF a, b, n, m
<1>7. /\ IsSequence(log[stream] \o a) /\ Len(log[stream] \o a) = n + m
      /\ DOMAIN (log[stream] \o a) = 1..(n + m)
      /\ \A i \in 1..(n + m) :
            (log[stream] \o a)[i] = IF i <= n THEN log[stream][i] ELSE a[i - n]
  BY <1>2, <1>3, Joined DEF n
<1>8. /\ IsSequence(written[stream] \o b) /\ Len(written[stream] \o b) = n + m
      /\ DOMAIN (written[stream] \o b) = 1..(n + m)
      /\ \A i \in 1..(n + m) :
            (written[stream] \o b)[i] = IF i <= n THEN written[stream][i] ELSE b[i - n]
  BY <1>2, <1>3, Joined
<1>9. \A s \in Streams : /\ log'[s] = IF s = stream THEN log[stream] \o a ELSE log[s]
                         /\ written'[s] = IF s = stream THEN written[stream] \o b ELSE written[s]
  BY <1>4 DEF LogInv
<1>10. /\ log' = [s \in Streams |-> log'[s]]
       /\ written' = [s \in Streams |-> written'[s]]
  BY <1>4 DEF LogInv
<1>11. \A s \in Streams : DOMAIN written[s] = DOMAIN log[s]
  BY SequenceIs DEF LogInv
<1>12. \A i \in 1..n : /\ i \in 1..(n + m)
                       /\ (log[stream] \o a)[i] = log[stream][i]
                       /\ (written[stream] \o b)[i] = written[stream][i]
  BY <1>1, <1>3, <1>7, <1>8 DEF m
<1>13. \A k \in 1..m : /\ n + k \in 1..(n + m)
                       /\ (log[stream] \o a)[n + k] = a[k]
                       /\ (written[stream] \o b)[n + k] = b[k]
  <2> TAKE k \in 1..m
  <2>1. n + k \in 1..(n + m) /\ ~(n + k <= n) /\ n + k - n = k
    BY <1>1, <1>3
  <2> DEFINE i == n + k
  <2>2. /\ (log[stream] \o a)[i] = IF i <= n THEN log[stream][i] ELSE a[i - n]
        /\ (written[stream] \o b)[i] = IF i <= n THEN written[stream][i] ELSE b[i - n]
    BY <1>7, <1>8, <2>1
  <2>3. i \in 1..(n + m) /\ ~(i <= n) /\ i - n = k
    BY <1>1, <1>3, <2>1
  <2>4. (log[stream] \o a)[i] = a[k] /\ (written[stream] \o b)[i] = b[k]
    BY <2>2, <2>3
  <2> QED
    BY <2>1, <2>4
<1>14. \A i \in 1..(n + m) : i \in 1..n \/ \E k \in 1..m : i = n + k
  <2> TAKE i \in 1..(n + m)
  <2>1. CASE i <= n
    BY <2>1, <1>3
  <2>2. CASE ~(i <= n)
    <3>1. i - n \in 1..m /\ i = n + (i - n)
      BY <1>1, <1>3, <2>2
    <3> QED
      BY <3>1
  <2> QED
    BY <2>1, <2>2
<1> DEFINE c == log[stream] \o a
           d == written[stream] \o b
<1> HIDE DEF c, d
<1>15. \A s \in Streams : \A i \in DOMAIN written[s] :
          /\ i \in DOMAIN written'[s] /\ written'[s][i] = written[s][i]
          /\ i \in DOMAIN log'[s] /\ log'[s][i] = log[s][i]
  <2> TAKE s \in Streams
  <2>1. CASE s = stream
    BY <1>3, <1>7, <1>8, <1>9, <1>12, <2>1
  <2>2. CASE s # stream
    BY <1>9, <1>11, <2>2
  <2> QED
    BY <2>1, <2>2
<1>16. \A s \in Streams : \A i \in DOMAIN log'[s] :
          \/ i \in DOMAIN log[s]
          \/ /\ s = stream /\ written'[s][i].of = of
             /\ \E k \in DOMAIN events : log'[s][i].request.data = events[k].payload
  <2> TAKE s \in Streams
  <2>1. CASE s = stream
    <3> SUFFICES ASSUME NEW i \in DOMAIN log'[s], i \notin DOMAIN log[s]
                 PROVE  /\ written'[s][i].of = of
                        /\ \E k \in DOMAIN events : log'[s][i].request.data = events[k].payload
      BY <2>1
    <3>1. i \in 1..(n + m) /\ i \notin 1..n
      BY <1>3, <1>7, <1>9, <2>1
    <3>2. PICK k \in 1..m : i = n + k
      BY <1>14, <3>1
    <3>3. log'[s][i] = a[k] /\ written'[s][i] = b[k]
      BY <1>9, <1>13, <2>1, <3>2
    <3> QED
      BY <1>1, <1>6, <3>3 DEF m
  <2>2. CASE s # stream
    BY <1>9, <2>2
  <2> QED
    BY <2>1, <2>2
<1>17. \A s \in Streams :
          /\ IsSequence(log'[s]) /\ IsSequence(written'[s]) /\ Len(log'[s]) = Len(written'[s])
          /\ \A i \in DOMAIN log'[s] : Agrees(propagates, log'[s][i], written'[s][i])
  <2> TAKE s \in Streams
  <2>1. CASE s = stream
    <3>1. IsSequence(c) /\ IsSequence(d) /\ Len(c) = Len(d) /\ DOMAIN c = 1..(n + m)
      BY <1>7, <1>8 DEF c, d
    <3>2. ASSUME NEW i \in 1..(n + m) PROVE Agrees(propagates, c[i], d[i])
      <4>1. CASE i \in 1..n
        <5>1. c[i] = log[stream][i] /\ d[i] = written[stream][i]
          BY <1>12, <4>1 DEF c, d
        <5> QED
          BY <1>3, <4>1, <5>1 DEF LogInv
      <4>2. CASE i \notin 1..n
        <5>1. PICK k \in 1..m : i = n + k
          BY <1>14, <4>2
        <5>2. c[i] = a[k] /\ d[i] = b[k]
          BY <1>13, <5>1 DEF c, d
        <5> QED
          BY <1>6, <5>2
      <4> QED
        BY <4>1, <4>2
    <3>3. log'[s] = c /\ written'[s] = d
      BY <1>9, <2>1 DEF c, d
    <3> QED
      BY <3>1, <3>2, <3>3
  <2>2. CASE s # stream
    <3>1. log'[s] = log[s] /\ written'[s] = written[s]
      BY <1>9, <2>2
    <3> QED
      BY <3>1 DEF LogInv
  <2> QED
    BY <2>1, <2>2
<1>18. LogInv'
  BY <1>10, <1>17 DEF LogInv
<1>19. ResultInv'
  <2> DEFINE v == WriteResult(Len(log[stream] \o a) - 1)
  <2>1. \A k \in DOMAIN events : v + 1 - Len(events) + k = n + k
    <3> TAKE k \in DOMAIN events
    <3>1. m # 0 /\ k \in Nat
      BY <1>1 DEF m
    <3>2. v = n + m - 1
      BY <1>1, <1>3, <1>7, <3>1 DEF WriteResult, NoStream
    <3> QED
      BY <1>1, <1>3, <3>1, <3>2 DEF m
  <2> HIDE DEF v
  <2>2. \A k \in DOMAIN events : /\ n + k \in DOMAIN written'[stream]
                                 /\ written'[stream][n + k].event = events[k]
    BY <1>1, <1>6, <1>8, <1>9, <1>13 DEF m
  <2>3. result' = Some([stream |-> stream, events |-> events, next_expected_version |-> v])
    BY <1>4 DEF v
  <2>4. \A k \in DOMAIN events :
            /\ v + 1 - Len(events) + k \in DOMAIN written'[stream]
            /\ written'[stream][v + 1 - Len(events) + k].event = events[k]
    BY <2>1, <2>2
  <2>5. \E s \in Streams : \E evs, x :
           /\ result' = Some([stream |-> s, events |-> evs, next_expected_version |-> x])
           /\ \A k \in DOMAIN evs :
                 /\ x + 1 - Len(evs) + k \in DOMAIN written'[s]
                 /\ written'[s][x + 1 - Len(evs) + k].event = evs[k]
    <3> WITNESS stream \in Streams
    <3> WITNESS events, v
    <3> QED
      BY <2>3, <2>4
  <2> QED
    BY <2>5 DEF ResultInv
<1> QED
  BY <1>15, <1>16, <1>18, <1>19

LEMMA EventsInvInit == EventsInit => EventsInv
<1> SUFFICES ASSUME EventsInit PROVE EventsInv
  OBVIOUS
<1>1. IsSequence(<<>>) /\ DOMAIN <<>> = {}
  <2>1. <<>> \in Seq({})
    OBVIOUS
  <2> QED
    BY <2>1 DEF IsSequence
<1>2. \A s \in Streams : log[s] = <<>> /\ written[s] = <<>>
  BY DEF EventsInit
<1>3. LogInv
  BY <1>1, <1>2 DEF EventsInit, LogInv
<1>4. BatchInv
  BY <1>1 DEF EventsInit, BatchInv
<1>5. IsMetadata(builder)
  <2>1. IsFiniteSet({})
    BY FS_EmptySet
  <2> DEFINE none == [k \in {} |-> None]
  <2>2. DOMAIN none = {} /\ none = [k \in DOMAIN none |-> none[k]]
    OBVIOUS
  <2> HIDE DEF none
  <2>3. builder = [max_count |-> None, max_age |-> None, truncate_before |-> None,
                   cache_control |-> None, acl |-> None, custom_properties |-> none]
    BY DEF EventsInit, StreamMetadataBuilder, none
  <2>4. /\ builder.max_count = None /\ builder.max_age = None /\ builder.truncate_before = None
        /\ builder.cache_control = None /\ builder.acl = None /\ builder.custom_properties = none
    BY <2>3
  <2> QED
    BY <2>1, <2>2, <2>3, <2>4 DEF IsMetadata, IsDuration
<1>6. SetInv
  BY <1>1, <1>2 DEF SetInv, Streams
<1>7. ResultInv /\ ReceivedInv /\ MetadataInv
  BY DEF EventsInit, ResultInv, ReceivedInv, MetadataInv
<1> QED
  BY <1>3, <1>4, <1>5, <1>6, <1>7 DEF EventsInv

\* What is built of stream metadata.
LEMMA BuilderStep == IsMetadata(builder) /\ BuildMetadata => IsMetadata(builder')
<1> SUFFICES ASSUME IsMetadata(builder), BuildMetadata PROVE IsMetadata(builder')
  OBVIOUS
<1> DEFINE m == builder
<1>0. m = [max_count |-> m.max_count, max_age |-> m.max_age,
           truncate_before |-> m.truncate_before, cache_control |-> m.cache_control,
           acl |-> m.acl, custom_properties |-> m.custom_properties]
  BY DEF IsMetadata
<1>1. PICK call \in Calls :
        builder' = CASE call[1] = "property" -> insert_custom_property(m, call[2], call[3])
                     [] call[1] = "role" ->
                          With(m, "acl", Stream(AddRole(
                              IF m.acl # None /\ m.acl[1][1] = "Stream"
                              THEN m.acl[1][2] ELSE StreamAclBuilder, call[2], call[3])))
                     [] OTHER -> With(m, call[2], call[3])
  BY DEF BuildMetadata
<1>2. \/ call[1] = "property"
      \/ call[1] = "role" /\ call[2] \in Roles
      \/ call[1] = "set" /\ call[2] \in {"max_count", "truncate_before"}
      \/ call[1] = "set" /\ call[2] \in {"max_age", "cache_control"} /\ call[3] \in Nat
      \/ call[1] = "set" /\ call[2] = "acl" /\ call[3] \in {UserStream, SystemStream}
  BY EventsAssumption
<1>3. CASE call[1] = "property"
  <2> DEFINE f == m.custom_properties
             g == [k \in DOMAIN f \cup {call[2]} |-> IF k = call[2] THEN call[3] ELSE f[k]]
  <2>1. DOMAIN g = DOMAIN f \cup {call[2]} /\ g = [k \in DOMAIN g |-> g[k]]
    OBVIOUS
  <2>2. IsFiniteSet(DOMAIN g)
    BY <2>1, FS_AddElement DEF IsMetadata
  <2>3. builder' = [m EXCEPT !.custom_properties = g]
    BY <1>1, <1>3 DEF insert_custom_property
  <2> HIDE DEF g
  <2>4. builder' = [max_count |-> m.max_count, max_age |-> m.max_age,
                    truncate_before |-> m.truncate_before, cache_control |-> m.cache_control,
                    acl |-> m.acl, custom_properties |-> g]
    BY <1>0, <2>3
  <2> QED
    BY <2>1, <2>2, <2>4 DEF IsMetadata
<1>4. CASE call[1] = "role" /\ call[2] \in Roles
  <2> DEFINE roles == IF m.acl # None /\ m.acl[1][1] = "Stream"
                      THEN m.acl[1][2] ELSE StreamAclBuilder
             new == AddRole(roles, call[2], call[3])
  <2>1. roles = [kind \in Roles |-> roles[kind]] /\ \A kind \in Roles : IsRoles(roles[kind])
    <3>1. CASE m.acl # None /\ m.acl[1][1] = "Stream"
      <4>1. PICK acl : IsAcl(acl) /\ m.acl = Some(acl)
        BY <3>1 DEF IsMetadata
      <4>2. m.acl[1] = acl /\ acl \notin {UserStream, SystemStream}
        BY <3>1, <4>1 DEF Some, UserStream, SystemStream
      <4>3. PICK r : /\ acl = Stream(r) /\ r = [kind \in Roles |-> r[kind]]
                     /\ \A kind \in Roles : IsRoles(r[kind])
        BY <4>1, <4>2 DEF IsAcl
      <4>4. roles = r
        BY <3>1, <4>2, <4>3 DEF Stream
      <4> QED
        BY <4>3, <4>4
    <3>2. CASE ~(m.acl # None /\ m.acl[1][1] = "Stream")
      <4>1. roles = [kind \in Roles |-> None]
        BY <3>2 DEF StreamAclBuilder
      <4> HIDE DEF roles
      <4> QED
        BY <4>1 DEF IsRoles
    <3> QED
      BY <3>1, <3>2
  <2> HIDE DEF roles
  <2> DEFINE now == IF roles[call[2]] = None THEN Some(<<call[3]>>)
                    ELSE Some(Append(roles[call[2]][1], call[3]))
  <2>2. IsRoles(now)
    <3>1. CASE roles[call[2]] = None
      <4>1. <<call[3]>> \in Seq({call[3]})
        OBVIOUS
      <4> QED
        BY <3>1, <4>1 DEF IsRoles, IsSequence
    <3>2. CASE roles[call[2]] # None
      <4>1. PICK r : IsSequence(r) /\ roles[call[2]] = Some(r)
        BY <1>4, <2>1, <3>2 DEF IsRoles
      <4>2. roles[call[2]][1] = r
        BY <4>1 DEF Some
      <4>3. PICK S : r \in Seq(S)
        BY <4>1 DEF IsSequence
      <4>4. r \in Seq(S \cup {call[3]})
        BY <4>3
      <4>5. Append(r, call[3]) \in Seq(S \cup {call[3]})
        BY <4>4
      <4> QED
        BY <3>2, <4>2, <4>5 DEF IsRoles, IsSequence
    <3> QED
      BY <3>1, <3>2
  <2>3. new = [roles EXCEPT ![call[2]] = now]
    BY DEF AddRole
  <2> HIDE DEF now, new
  <2>4. new = [kind \in Roles |-> new[kind]] /\ \A kind \in Roles : IsRoles(new[kind])
    BY <2>1, <2>2, <2>3
  <2>5. IsAcl(Stream(new))
    BY <2>4 DEF IsAcl
  <2>6. builder' = [m EXCEPT !["acl"] = Some(Stream(new))]
    BY <1>1, <1>4 DEF With, new, roles
  <2>7. builder' = [max_count |-> m.max_count, max_age |-> m.max_age,
                    truncate_before |-> m.truncate_before, cache_control |-> m.cache_control,
                    acl |-> Some(Stream(new)), custom_properties |-> m.custom_properties]
    BY <1>0, <2>6
  <2> QED
    BY <2>5, <2>7 DEF IsMetadata
<1>5. CASE call[1] = "set"
  <2>1. builder' = [m EXCEPT ![call[2]] = Some(call[3])]
    BY <1>1, <1>5 DEF With
  <2>2. CASE call[2] = "max_count"
    <3>1. builder' = [max_count |-> Some(call[3]), max_age |-> m.max_age,
                      truncate_before |-> m.truncate_before, cache_control |-> m.cache_control,
                      acl |-> m.acl, custom_properties |-> m.custom_properties]
      BY <1>0, <2>1, <2>2
    <3> QED
      BY <3>1 DEF IsMetadata
  <2>3. CASE call[2] = "truncate_before"
    <3>1. builder' = [max_count |-> m.max_count, max_age |-> m.max_age,
                      truncate_before |-> Some(call[3]), cache_control |-> m.cache_control,
                      acl |-> m.acl, custom_properties |-> m.custom_properties]
      BY <1>0, <2>1, <2>3
    <3> QED
      BY <3>1 DEF IsMetadata
  <2>4. CASE call[2] = "max_age" /\ call[3] \in Nat
    <3>1. builder' = [max_count |-> m.max_count, max_age |-> Some(call[3]),
                      truncate_before |-> m.truncate_before, cache_control |-> m.cache_control,
                      acl |-> m.acl, custom_properties |-> m.custom_properties]
      BY <1>0, <2>1, <2>4
    <3> QED
      BY <2>4, <3>1 DEF IsMetadata, IsDuration
  <2>5. CASE call[2] = "cache_control" /\ call[3] \in Nat
    <3>1. builder' = [max_count |-> m.max_count, max_age |-> m.max_age,
                      truncate_before |-> m.truncate_before, cache_control |-> Some(call[3]),
                      acl |-> m.acl, custom_properties |-> m.custom_properties]
      BY <1>0, <2>1, <2>5
    <3> QED
      BY <2>5, <3>1 DEF IsMetadata, IsDuration
  <2>6. CASE call[2] = "acl" /\ call[3] \in {UserStream, SystemStream}
    <3>1. builder' = [max_count |-> m.max_count, max_age |-> m.max_age,
                      truncate_before |-> m.truncate_before, cache_control |-> m.cache_control,
                      acl |-> Some(call[3]), custom_properties |-> m.custom_properties]
      BY <1>0, <2>1, <2>6
    <3>2. IsAcl(call[3])
      BY <2>6 DEF IsAcl
    <3> QED
      BY <3>1, <3>2 DEF IsMetadata
  <2> QED
    BY <1>2, <1>5, <2>2, <2>3, <2>4, <2>5, <2>6
<1> QED
  BY <1>2, <1>3, <1>4, <1>5

\* A step that sends nothing.
LEMMA NothingIsSent ==
    ASSUME EventsInv, UNCHANGED <<propagates, log, written>>
    PROVE  /\ LogInv' /\ SetInv'
           /\ UNCHANGED result => ResultInv'
           /\ UNCHANGED received => ReceivedInv'
           /\ UNCHANGED metadata => MetadataInv'
<1>1. LogInv'
  BY DEF EventsInv, LogInv
<1>2. SetInv'
  BY DEF EventsInv, SetInv
<1>3. ASSUME UNCHANGED result PROVE ResultInv'
  BY <1>3 DEF EventsInv, ResultInv
<1>4. ASSUME UNCHANGED received PROVE ReceivedInv'
  BY <1>4 DEF EventsInv, ReceivedInv
<1>5. ASSUME UNCHANGED metadata PROVE MetadataInv'
  BY <1>5 DEF EventsInv, MetadataInv
<1> QED
  BY <1>1, <1>2, <1>3, <1>4, <1>5

\* What was written stays, and so do the answers that speak of it.
LEMMA AnswersStay ==
    ASSUME EventsInv, propagates' = propagates,
           \A s \in Streams : \A i \in DOMAIN written[s] :
              i \in DOMAIN written'[s] /\ written'[s][i] = written[s][i]
    PROVE  /\ UNCHANGED received => ReceivedInv'
           /\ UNCHANGED metadata => MetadataInv'
<1>0. "orders" \in Streams /\ "$$orders" \in Streams
  BY DEF Streams
<1>1. ASSUME UNCHANGED received PROVE ReceivedInv'
  <2> SUFFICES ASSUME received # None PROVE ReceivedInv'
    BY <1>1 DEF ReceivedInv
  <2>1. PICK r : /\ received = Some(r) /\ r.revision + 1 \in DOMAIN written["orders"]
                 /\ IsBytes(r.custom_metadata)
                 /\ IsRead(written["orders"][r.revision + 1], propagates, r)
    BY DEF EventsInv, ReceivedInv
  <2>2. /\ r.revision + 1 \in DOMAIN written'["orders"]
        /\ written'["orders"][r.revision + 1] = written["orders"][r.revision + 1]
    BY <1>0, <2>1
  <2>3. /\ received' = Some(r)
        /\ IsRead(written'["orders"][r.revision + 1], propagates', r)
    BY <1>1, <2>1, <2>2
  <2> QED
    BY <2>1, <2>2, <2>3 DEF ReceivedInv
<1>2. ASSUME UNCHANGED metadata PROVE MetadataInv'
  <2> SUFFICES ASSUME metadata[1] \in {"Success", "InternalParsingError"} PROVE MetadataInv'
    BY <1>2 DEF MetadataInv
  <2>1. PICK i \in DOMAIN written["$$orders"] : Answers(metadata, written["$$orders"][i])
    BY DEF EventsInv, MetadataInv
  <2>2. i \in DOMAIN written'["$$orders"] /\ Answers(metadata', written'["$$orders"][i])
    BY <1>0, <1>2, <2>1
  <2> QED
    BY <2>2 DEF MetadataInv
<1> QED
  BY <1>1, <1>2

\* The events of a batch.
LEMMA NewStep == EventsInv /\ New => EventsInv'
<1> SUFFICES ASSUME EventsInv, New PROVE EventsInv'
  OBVIOUS
<1>1. UNCHANGED <<propagates, builder, span, log, written, result, received, metadata>>
  BY DEF New
<1>2. PICK type \in Types :
        \E event \in {json(type, <<"data", calls>>), binary(type, <<"data", calls>>)} :
            batch' = Append(batch, event)
  BY DEF New
<1>3. PICK event \in {json(type, <<"data", calls>>), binary(type, <<"data", calls>>)} :
            batch' = Append(batch, event)
  BY <1>2
<1>4. IsEventData(event)
  BY <1>3 DEF IsEventData, json, binary, EventData
<1>5. BatchInv'
  <2>1. PICK S : batch \in Seq(S)
    BY DEF EventsInv, BatchInv, IsSequence
  <2>2. batch \in Seq(S \cup {event})
    BY <2>1
  <2>3. /\ batch' \in Seq(S \cup {event}) /\ Len(batch') = Len(batch) + 1
        /\ \A i \in 1..Len(batch) : batch'[i] = batch[i]
        /\ batch'[Len(batch) + 1] = event
    BY <1>3, <2>2
  <2>4. Len(batch) \in Nat /\ DOMAIN batch = 1..Len(batch) /\ DOMAIN batch' = 1..(Len(batch) + 1)
    BY <2>2, <2>3
  <2>5. \A i \in 1..(Len(batch) + 1) : i \in 1..Len(batch) \/ i = Len(batch) + 1
    BY <2>4
  <2>6. \A i \in 1..Len(batch) : IsEventData(batch[i])
    BY <2>4 DEF EventsInv, BatchInv
  <2>7. \A i \in DOMAIN batch' : IsEventData(batch'[i])
    BY <1>4, <2>3, <2>4, <2>5, <2>6
  <2> QED
    BY <2>3, <2>7 DEF BatchInv, IsSequence
<1> QED
  BY <1>1, <1>5, NothingIsSent DEF EventsInv

LEMMA ChangeStep ==
    ASSUME EventsInv, NEW event, IsEventData(event), Change(event)
    PROVE  EventsInv'
<1>1. /\ UNCHANGED <<propagates, builder, span, log, written, result, received, metadata>>
      /\ batch' = [batch EXCEPT ![Len(batch)] = event]
  BY DEF Change
<1>2. BatchInv'
  <2>1. PICK S : batch \in Seq(S)
    BY DEF EventsInv, BatchInv, IsSequence
  <2>2. batch \in Seq(S \cup {event})
    BY <2>1
  <2> DEFINE changed == [batch EXCEPT ![Len(batch)] = event]
  <2>3. /\ batch' \in Seq(S \cup {event}) /\ DOMAIN batch' = DOMAIN batch
        /\ \A i \in DOMAIN batch : batch'[i] = batch[i] \/ batch'[i] = event
    <3>1. changed \in Seq(S \cup {event})
      <4>1. /\ Len(batch) \in Nat
            /\ batch \in [1..Len(batch) -> S \cup {event}]
        BY <2>2
      <4>2. changed \in [1..Len(batch) -> S \cup {event}]
        BY <4>1
      <4> HIDE DEF changed
      <4> QED
        BY <4>1, <4>2
    <3>2. /\ DOMAIN changed = DOMAIN batch
          /\ \A i \in DOMAIN batch : changed[i] = batch[i] \/ changed[i] = event
      OBVIOUS
    <3> QED
      BY <1>1, <3>1, <3>2
  <2>4. \A i \in DOMAIN batch : IsEventData(batch[i])
    BY DEF EventsInv, BatchInv
  <2>5. \A i \in DOMAIN batch' : IsEventData(batch'[i])
    BY <2>3, <2>4
  <2> QED
    BY <2>3, <2>5 DEF BatchInv, IsSequence
<1> QED
  BY <1>1, <1>2, NothingIsSent DEF EventsInv

LEMMA LastIsEvent ==
    ASSUME EventsInv, batch # <<>>
    PROVE  IsEventData(Last(batch))
<1>1. Len(batch) \in DOMAIN batch
  BY SequenceIs DEF EventsInv, BatchInv
<1> QED
  BY <1>1 DEF EventsInv, BatchInv, Last

\* An event of a batch with another identity, or other metadata.
LEMMA ChangedIsEvent ==
    ASSUME NEW event, IsEventData(event), NEW id, NEW bytes, IsBytes(bytes)
    PROVE  /\ IsEventData([event EXCEPT !.id_opt = id])
           /\ IsEventData([event EXCEPT !.custom_metadata = Some(bytes)])
<1>1. event = [id_opt |-> event.id_opt, type |-> event.type,
               content_type |-> event.content_type, payload |-> event.payload,
               custom_metadata |-> event.custom_metadata]
  BY DEF IsEventData
<1> DEFINE a == [event EXCEPT !.id_opt = id]
           b == [event EXCEPT !.custom_metadata = Some(bytes)]
<1>2. a = [id_opt |-> id, type |-> event.type, content_type |-> event.content_type,
           payload |-> event.payload, custom_metadata |-> event.custom_metadata]
  BY <1>1
<1>3. b = [id_opt |-> event.id_opt, type |-> event.type,
           content_type |-> event.content_type, payload |-> event.payload,
           custom_metadata |-> Some(bytes)]
  BY <1>1
<1> HIDE DEF a, b
<1>4. IsEventData(a)
  BY <1>2 DEF IsEventData
<1>5. IsEventData(b)
  BY <1>3 DEF IsEventData
<1> QED
  BY <1>4, <1>5 DEF a, b

LEMMA AppendStep == EventsInv /\ AppendToStream => EventsInv'
<1> SUFFICES ASSUME EventsInv, AppendToStream PROVE EventsInv'
  OBVIOUS
<1>1. /\ batch' = <<>>
      /\ UNCHANGED <<propagates, builder, calls, received, metadata>>
  BY DEF AppendToStream
<1>2. PICK context \in Contexts : Send("orders", batch, context, None)
  BY DEF AppendToStream
<1>3. "orders" \in Streams /\ "$$orders" \in Streams /\ "orders" # "$$orders"
  BY DEF Streams
<1>4. /\ LogInv' /\ ResultInv'
      /\ \A s \in Streams : \A i \in DOMAIN written[s] :
            /\ i \in DOMAIN written'[s] /\ written'[s][i] = written[s][i]
            /\ i \in DOMAIN log'[s] /\ log'[s][i] = log[s][i]
      /\ \A s \in Streams : \A i \in DOMAIN log'[s] : i \in DOMAIN log[s] \/ s = "orders"
  BY <1>1, <1>2, <1>3, SendStep DEF EventsInv, BatchInv
<1>5. BatchInv'
  <2>1. <<>> \in Seq({}) /\ DOMAIN <<>> = {}
    OBVIOUS
  <2> QED
    BY <1>1, <2>1 DEF BatchInv, IsSequence
<1>6. \A s \in Streams : DOMAIN written[s] = DOMAIN log[s]
  BY SequenceIs DEF EventsInv, LogInv
<1>7. SetInv'
  <2> SUFFICES ASSUME NEW i \in DOMAIN log'["$$orders"]
               PROVE  \E m : /\ IsMetadata(m) /\ written'["$$orders"][i].of = Some(m)
                             /\ log'["$$orders"][i].request.data = <<"metadata", to_json(m)>>
    BY DEF SetInv
  <2>1. i \in DOMAIN log["$$orders"]
    BY <1>3, <1>4
  <2>2. /\ written'["$$orders"][i] = written["$$orders"][i]
        /\ log'["$$orders"][i] = log["$$orders"][i]
    BY <1>3, <1>4, <1>6, <2>1
  <2> QED
    BY <2>1, <2>2 DEF EventsInv, SetInv
<1>8. ReceivedInv' /\ MetadataInv'
  BY <1>1, <1>4, AnswersStay
<1> QED
  BY <1>1, <1>4, <1>5, <1>7, <1>8 DEF EventsInv

LEMMA SetStep == EventsInv /\ set_stream_metadata => EventsInv'
<1> SUFFICES ASSUME EventsInv, set_stream_metadata PROVE EventsInv'
  OBVIOUS
<1> DEFINE event == json("$metadata", <<"metadata", to_json(builder)>>)
<1>1. UNCHANGED <<propagates, batch, builder, calls, received, metadata>>
  BY DEF set_stream_metadata
<1>2. PICK context \in Contexts : Send("$$orders", <<event>>, context, Some(builder))
  BY DEF set_stream_metadata
<1>3. "orders" \in Streams /\ "$$orders" \in Streams
  BY DEF Streams
<1>4. IsEventData(event) /\ event.payload = <<"metadata", to_json(builder)>>
  BY DEF IsEventData, json, EventData
<1> HIDE DEF event
<1>5. /\ IsSequence(<<event>>)
      /\ \A k \in DOMAIN <<event>> : IsEventData(<<event>>[k]) /\ <<event>>[k] = event
  <2>1. <<event>> \in Seq({event}) /\ DOMAIN <<event>> = {1} /\ <<event>>[1] = event
    OBVIOUS
  <2> QED
    BY <1>4, <2>1 DEF IsSequence
<1>6. /\ LogInv' /\ ResultInv'
      /\ \A s \in Streams : \A i \in DOMAIN written[s] :
            /\ i \in DOMAIN written'[s] /\ written'[s][i] = written[s][i]
            /\ i \in DOMAIN log'[s] /\ log'[s][i] = log[s][i]
      /\ \A s \in Streams : \A i \in DOMAIN log'[s] :
            \/ i \in DOMAIN log[s]
            \/ /\ written'[s][i].of = Some(builder)
               /\ \E k \in DOMAIN <<event>> : log'[s][i].request.data = <<event>>[k].payload
  BY <1>1, <1>2, <1>3, <1>5, SendStep DEF EventsInv
<1>7. BatchInv'
  BY <1>1 DEF EventsInv, BatchInv
<1>8. \A s \in Streams : DOMAIN written[s] = DOMAIN log[s]
  BY SequenceIs DEF EventsInv, LogInv
<1>9. SetInv'
  <2> SUFFICES ASSUME NEW i \in DOMAIN log'["$$orders"]
               PROVE  \E m : /\ IsMetadata(m) /\ written'["$$orders"][i].of = Some(m)
                             /\ log'["$$orders"][i].request.data = <<"metadata", to_json(m)>>
    BY DEF SetInv
  <2>1. CASE i \in DOMAIN log["$$orders"]
    <3>1. /\ written'["$$orders"][i] = written["$$orders"][i]
          /\ log'["$$orders"][i] = log["$$orders"][i]
      BY <1>3, <1>6, <1>8, <2>1
    <3> QED
      BY <2>1, <3>1 DEF EventsInv, SetInv
  <2>2. CASE i \notin DOMAIN log["$$orders"]
    <3>1. written'["$$orders"][i].of = Some(builder)
      BY <1>3, <1>6, <2>2
    <3>2. log'["$$orders"][i].request.data = <<"metadata", to_json(builder)>>
      BY <1>3, <1>4, <1>5, <1>6, <2>2
    <3> QED
      BY <3>1, <3>2 DEF EventsInv
  <2> QED
    BY <2>1, <2>2
<1>10. ReceivedInv' /\ MetadataInv'
  BY <1>1, <1>6, AnswersStay
<1> QED
  BY <1>1, <1>6, <1>7, <1>9, <1>10 DEF EventsInv

LEMMA GetStep == EventsInv /\ get_stream_metadata => EventsInv'
<1> SUFFICES ASSUME EventsInv, get_stream_metadata PROVE EventsInv'
  OBVIOUS
<1> DEFINE versions == log["$$orders"]
           i == Len(versions)
<1>1. UNCHANGED <<propagates, batch, builder, calls, span, log, written, result, received>>
  BY DEF get_stream_metadata
<1>2. MetadataInv'
  <2>0. "$$orders" \in Streams
    BY DEF Streams
  <2>1. CASE versions = <<>>
    BY <2>1 DEF get_stream_metadata, MetadataInv
  <2>2. CASE versions # <<>>
    <3>1. i \in DOMAIN versions /\ i \in DOMAIN written["$$orders"]
      BY <2>0, <2>2, SequenceIs DEF EventsInv, LogInv
    <3>2. PICK m : /\ IsMetadata(m) /\ written["$$orders"][i].of = Some(m)
                   /\ versions[i].request.data = <<"metadata", to_json(m)>>
      BY <3>1 DEF EventsInv, SetInv
    <3>3. metadata' = LET read == from_json(Last(versions).request.data[2])
                      IN  IF read = None THEN <<"InternalParsingError">>
                          ELSE <<"Success", read[1], Last(versions).revision>>
      BY <2>2 DEF get_stream_metadata
    <3>4. Last(versions).request.data[2] = to_json(m)
      BY <3>2 DEF Last
    <3>5. written["$$orders"][i].of[1] = m
      BY <3>2 DEF Some
    <3> HIDE DEF i, versions
    <3>6. Answers(metadata', written["$$orders"][i])
      <4>1. CASE DOMAIN m.custom_properties \cap Names # {}
        BY <3>5, <4>1 DEF Answers
      <4>2. CASE DOMAIN m.custom_properties \cap Names = {}
        <5>1. from_json(to_json(m)) = Some(Rounded(m))
          BY <3>2, <4>2, MetadataIsRead
        <5>2. metadata' = <<"Success", Rounded(m), Last(versions).revision>>
          BY <3>3, <3>4, <5>1 DEF Some, None
        <5> QED
          BY <3>5, <5>2 DEF Answers
      <4> QED
        BY <4>1, <4>2
    <3> QED
      BY <1>1, <3>1, <3>6 DEF MetadataInv
  <2> QED
    BY <2>1, <2>2
<1>3. BatchInv'
  BY <1>1 DEF EventsInv, BatchInv
<1> QED
  BY <1>1, <1>2, <1>3, NothingIsSent DEF EventsInv

LEMMA PlaceIs ==
    ASSUME EventsInv, NEW i \in DOMAIN log["orders"]
    PROVE  /\ i \in Nat /\ i - 1 + 1 = i /\ i \in DOMAIN written["orders"]
           /\ Agrees(propagates, log["orders"][i], written["orders"][i])
<1>1. "orders" \in Streams
  BY DEF Streams
<1>2. /\ IsSequence(log["orders"]) /\ IsSequence(written["orders"])
      /\ Len(log["orders"]) = Len(written["orders"])
      /\ Agrees(propagates, log["orders"][i], written["orders"][i])
  BY <1>1 DEF EventsInv, LogInv
<1>3. i \in 1..Len(log["orders"]) /\ Len(log["orders"]) \in Nat
  BY <1>2, SequenceIs
<1>4. DOMAIN written["orders"] = 1..Len(log["orders"])
  BY <1>2, SequenceIs
<1>5. i \in Nat
  BY <1>3
<1>6. i - 1 + 1 = i
  BY <1>5
<1> QED
  BY <1>2, <1>3, <1>4, <1>5, <1>6

LEMMA ReceiveStep == EventsInv /\ Receive => EventsInv'
<1> SUFFICES ASSUME EventsInv, Receive PROVE EventsInv'
  OBVIOUS
<1>1. UNCHANGED <<propagates, batch, builder, calls, span, log, written, result, metadata>>
  BY DEF Receive
<1>2. PICK i \in DOMAIN log["orders"], by \in {"event", "resolved link", "broken link"} :
        LET event == RecordedEvent(log["orders"][i])
            delivered == IF by = "broken link" THEN LinkTo(i - 1) ELSE event
            original == IF by = "event" THEN event ELSE LinkTo(i - 1)
        IN  \E context \in extract_event_context(delivered.custom_metadata) :
              received' = Some([by |-> by, revision |-> i - 1, message_id |-> original.id,
                                event_type |-> delivered.event_type, link |-> context,
                                custom_metadata |-> delivered.custom_metadata])
  BY DEF Receive
<1> DEFINE event == RecordedEvent(log["orders"][i])
           delivered == IF by = "broken link" THEN LinkTo(i - 1) ELSE event
           original == IF by = "event" THEN event ELSE LinkTo(i - 1)
           w == written["orders"][i]
<1>3. PICK context \in extract_event_context(delivered.custom_metadata) :
        received' = Some([by |-> by, revision |-> i - 1, message_id |-> original.id,
                          event_type |-> delivered.event_type, link |-> context,
                          custom_metadata |-> delivered.custom_metadata])
  BY <1>2
<1> DEFINE r == [by |-> by, revision |-> i - 1, message_id |-> original.id,
                 event_type |-> delivered.event_type, link |-> context,
                 custom_metadata |-> delivered.custom_metadata]
<1>4. /\ received' = Some(r) /\ r.by = by /\ r.revision = i - 1 /\ r.link = context
      /\ r.custom_metadata = delivered.custom_metadata
  BY <1>3
<1>5. "orders" \in Streams
  BY DEF Streams
<1>6. /\ i \in Nat /\ i - 1 + 1 = i /\ i \in DOMAIN written["orders"]
      /\ Agrees(propagates, log["orders"][i], w)
  BY PlaceIs
<1>7. event.custom_metadata = log["orders"][i].request.custom_metadata
  BY DEF RecordedEvent
<1> HIDE DEF event, r, w, original
<1>8. IsBytes(delivered.custom_metadata)
  <2>1. CASE by = "broken link"
    BY <2>1 DEF LinkTo, IsBytes
  <2>2. CASE by # "broken link"
    BY <1>6, <1>7, <2>2 DEF Agrees
  <2> QED
    BY <2>1, <2>2
<1>9. IsRead(w, propagates, r)
  <2> SUFFICES ASSUME by # "broken link", propagates, w.span # 0,
                      Given(w.event)[1] \in {"empty", "object"}
               PROVE  context = w.span
    BY <1>4 DEF IsRead
  <2>1. delivered.custom_metadata = log["orders"][i].request.custom_metadata
    BY <1>7
  <2>2. PICK fields : delivered.custom_metadata = Object(Inject(fields, w.span))
    BY <1>6, <2>1 DEF Agrees, Carries
  <2>3. extract_event_context(delivered.custom_metadata) = {w.span}
    BY <2>2, ExtractedTrace
  <2> QED
    BY <1>3, <2>3
<1>10. ReceivedInv'
  <2>1. r.revision + 1 = i
    BY <1>4, <1>6
  <2>2. r.revision + 1 \in DOMAIN written'["orders"]
    BY <1>1, <1>6, <2>1
  <2>3. IsRead(written'["orders"][r.revision + 1], propagates', r)
    BY <1>1, <1>9, <2>1 DEF w
  <2>4. IsBytes(r.custom_metadata)
    BY <1>4, <1>8
  <2> QED
    BY <1>4, <2>2, <2>3, <2>4 DEF ReceivedInv
<1>11. BatchInv'
  BY <1>1 DEF EventsInv, BatchInv
<1> QED
  BY <1>1, <1>10, <1>11, NothingIsSent DEF EventsInv

LEMMA EventsInvStep == EventsInv /\ [EventsNext \/ MetadataNext]_eVars => EventsInv'
<1> SUFFICES ASSUME EventsInv, [EventsNext \/ MetadataNext]_eVars PROVE EventsInv'
  OBVIOUS
<1>1. CASE New
  BY <1>1, NewStep
<1>2. CASE WithId
  <2>1. IsEventData(Last(batch))
    BY <1>2, LastIsEvent DEF WithId, Change
  <2>2. IsBytes(Empty)
    BY DEF IsBytes
  <2>3. IsEventData([Last(batch) EXCEPT !.id_opt = Some(<<"given", calls>>)])
    BY <2>1, <2>2, ChangedIsEvent
  <2> QED
    BY <1>2, <2>3, ChangeStep DEF WithId
<1>3. CASE WithMetadata
  <2>1. PICK bytes \in Customs : Change([Last(batch) EXCEPT !.custom_metadata = Some(bytes)])
    BY <1>3 DEF WithMetadata
  <2>2. IsEventData(Last(batch))
    BY <2>1, LastIsEvent DEF Change
  <2>3. IsBytes(bytes)
    BY EventsAssumption DEF IsBytes, Empty
  <2>4. IsEventData([Last(batch) EXCEPT !.custom_metadata = Some(bytes)])
    BY <2>2, <2>3, ChangedIsEvent
  <2> QED
    BY <2>1, <2>4, ChangeStep
<1>4. CASE Forward
  <2> DEFINE bytes == received[1].custom_metadata
  <2>1. Change([Last(batch) EXCEPT !.custom_metadata = Some(bytes)])
    BY <1>4 DEF Forward
  <2>2. IsEventData(Last(batch))
    BY <2>1, LastIsEvent DEF Change
  <2>3. IsBytes(bytes)
    <3>1. PICK r : received = Some(r) /\ IsBytes(r.custom_metadata)
      BY <1>4 DEF Forward, EventsInv, ReceivedInv
    <3> QED
      BY <3>1 DEF Some
  <2> HIDE DEF bytes
  <2>4. IsEventData([Last(batch) EXCEPT !.custom_metadata = Some(bytes)])
    BY <2>2, <2>3, ChangedIsEvent
  <2> QED
    BY <2>1, <2>4, ChangeStep
<1>5. CASE AppendToStream
  BY <1>5, AppendStep
<1>6. CASE Receive
  BY <1>6, ReceiveStep
<1>7. CASE BuildMetadata
  <2>1. UNCHANGED <<propagates, batch, span, log, written, result, received, metadata>>
    BY <1>7 DEF BuildMetadata
  <2>2. BatchInv'
    BY <2>1 DEF EventsInv, BatchInv
  <2>3. IsMetadata(builder')
    BY <1>7, BuilderStep DEF EventsInv
  <2> QED
    BY <2>1, <2>2, <2>3, NothingIsSent DEF EventsInv
<1>8. CASE set_stream_metadata
  BY <1>8, SetStep
<1>9. CASE get_stream_metadata
  BY <1>9, GetStep
<1>10. CASE UNCHANGED eVars
  <2>1. UNCHANGED <<propagates, batch, builder, log, written, result, received, metadata>>
    BY <1>10 DEF eVars
  <2>2. BatchInv'
    BY <2>1 DEF EventsInv, BatchInv
  <2> QED
    BY <2>1, <2>2, NothingIsSent DEF EventsInv
<1> QED
  BY <1>1, <1>2, <1>3, <1>4, <1>5, <1>6, <1>7, <1>8, <1>9, <1>10 DEF EventsNext, MetadataNext

LEMMA EventsInvHolds == EventsSpec => []EventsInv
BY EventsInvInit, EventsInvStep, PTL DEF EventsSpec

\* An event is read as it was written, at the revision its append answered, and so is
\* stream metadata, whatever the application and the propagator make of them
\* (EventData and StreamMetadata, types.rs; EventMetadataCarrier, observability.rs).
THEOREM WrittenIsReadCorrect == EventsSpec => []WrittenIsRead
<1>1. EventsInv => WrittenIsRead
  <2> SUFFICES ASSUME EventsInv PROVE WrittenIsRead
    OBVIOUS
  <2>1. ASSUME NEW s \in Streams, NEW i \in DOMAIN log[s]
        PROVE  LET w == written[s][i]
                   read == RecordedEvent(log[s][i])
               IN  /\ read.event_type = w.event.type /\ read.data = w.event.payload
                   /\ read.is_json = (w.event.content_type = "application/json")
                   /\ w.event.id_opt # None => read.id = w.event.id_opt[1]
                   /\ IF Traced(w) THEN Own(read.custom_metadata) = Own(Given(w.event))
                      ELSE read.custom_metadata = Given(w.event)
    <3> DEFINE w == written[s][i]
               entry == log[s][i]
    <3>1. Agrees(propagates, entry, w)
      BY DEF EventsInv, LogInv
    <3> HIDE DEF w, entry
    <3>2. IF Traced(w)
          THEN Own(entry.request.custom_metadata) = Own(Given(w.event))
          ELSE entry.request.custom_metadata = Given(w.event)
      <4>1. CASE Traced(w)
        <5>1. PICK fields : /\ entry.request.custom_metadata = Object(Inject(fields, w.span))
                            /\ OwnOf(fields) = Own(Given(w.event))
          BY <3>1, <4>1 DEF Agrees, Carries, Traced
        <5>2. Own(Object(Inject(fields, w.span))) = OwnOf(Inject(fields, w.span))
          BY DEF Own, OwnOf, Object
        <5> QED
          BY <4>1, <5>1, <5>2, InjectedTrace
      <4>2. CASE ~Traced(w)
        BY <3>1, <4>2 DEF Agrees, Carries, Traced
      <4> QED
        BY <4>1, <4>2
    <3> QED
      BY <3>1, <3>2 DEF Agrees, RecordedEvent, w, entry
  <2>2. ASSUME NEW r \in ToSet(result), NEW k \in DOMAIN r.events
        PROVE  written[r.stream][r.next_expected_version + 1 - Len(r.events) + k].event
                   = r.events[k]
    <3>1. result # None
      BY DEF ToSet, None
    <3>2. PICK s \in Streams : \E events, n :
             /\ result = Some([stream |-> s, events |-> events, next_expected_version |-> n])
             /\ \A j \in DOMAIN events :
                   /\ n + 1 - Len(events) + j \in DOMAIN written[s]
                   /\ written[s][n + 1 - Len(events) + j].event = events[j]
      BY <3>1 DEF EventsInv, ResultInv
    <3>3. PICK events, n :
             /\ result = Some([stream |-> s, events |-> events, next_expected_version |-> n])
             /\ \A j \in DOMAIN events :
                   written[s][n + 1 - Len(events) + j].event = events[j]
      BY <3>2
    <3>4. r = [stream |-> s, events |-> events, next_expected_version |-> n]
      BY <3>3 DEF ToSet, Some
    <3> QED
      BY <3>3, <3>4
  <2>3. EventsComeBack
    BY <2>1, <2>2 DEF EventsComeBack
  <2>4. MetadataComesBack
    <3> SUFFICES ASSUME metadata[1] \in {"Success", "InternalParsingError"}
                 PROVE  \E w \in ToSet(written["$$orders"]) :
                            \/ DOMAIN w.of[1].custom_properties \cap Names # {}
                            \/ metadata[1] = "Success" /\ metadata[2] = Rounded(w.of[1])
      BY DEF MetadataComesBack
    <3>1. PICK i \in DOMAIN written["$$orders"] : Answers(metadata, written["$$orders"][i])
      BY DEF EventsInv, MetadataInv
    <3>2. written["$$orders"][i] \in ToSet(written["$$orders"])
      BY DEF ToSet
    <3> QED
      BY <3>1, <3>2 DEF Answers
  <2> QED
    BY <2>3, <2>4 DEF WrittenIsRead
<1> QED
  BY <1>1, EventsInvHolds, PTL

\* The span of a receive is linked to the append that wrote the event, whatever trace
\* the application passed on with it (SubscriptionReceive, observability.rs).
THEOREM LinksToTheAppendCorrect == EventsSpec => []LinksToTheAppend
<1>1. EventsInv => LinksToTheAppend
  <2> SUFFICES ASSUME EventsInv, NEW r \in ToSet(received)
               PROVE  LET w == written["orders"][r.revision + 1]
                      IN  r.by # "broken link" /\ Traced(w) => r.link = w.span
    BY DEF LinksToTheAppend
  <2>1. received # None
    BY DEF ToSet, None
  <2>2. PICK x : received = Some(x) /\ IsRead(written["orders"][x.revision + 1], propagates, x)
    BY <2>1 DEF EventsInv, ReceivedInv
  <2>3. r = x
    BY <2>2 DEF ToSet, Some
  <2> QED
    BY <2>2, <2>3 DEF IsRead, Traced
<1> QED
  BY <1>1, EventsInvHolds, PTL

===============================================================================
