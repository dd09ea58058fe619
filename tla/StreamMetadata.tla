---------------------------- MODULE StreamMetadata -----------------------------
(***************************************************************************)
(* StreamMetadata, Acl and StreamAcl (types.rs): how they are built, and   *)
(* how they are written to JSON and read from it.  An Option is a sequence *)
(* of at most one element; a JSON value is tagged with its kind, and an    *)
(* object is the sequence of its members, in which a name may come twice.  *)
(* A duration counts parts of a millisecond.  The reading of null, which   *)
(* the client never writes, is left out.                                   *)
(***************************************************************************)
EXTENDS Integers, Sequences, SequencesExt

CONSTANT
    TicksPerMilli    \* the precision of Duration

ASSUME StreamMetadataAssumption == TicksPerMilli \in Nat \ {0}

None == <<>>
Some(x) == <<x>>

Roles == {"$r", "$w", "$d", "$mr", "$mw"}

-----------------------------------------------------------------------------

(* The builders. *)

StreamMetadataBuilder ==
    [max_count |-> None, max_age |-> None, truncate_before |-> None,
     cache_control |-> None, acl |-> None, custom_properties |-> [k \in {} |-> None]]

\* max_count, max_age, truncate_before, cache_control and acl.
With(m, field, value) == [m EXCEPT ![field] = Some(value)]

insert_custom_property(m, key, value) ==
    [m EXCEPT !.custom_properties =
        [k \in DOMAIN m.custom_properties \cup {key} |->
            IF k = key THEN value ELSE m.custom_properties[k]]]

UserStream == <<"UserStream">>
SystemStream == <<"SystemStream">>
Stream(roles) == <<"Stream", roles>>

StreamAclBuilder == [kind \in Roles |-> None]

\* add_read_roles and its kind: a role joins those the builder has.
AddRole(acl, kind, role) ==
    [acl EXCEPT ![kind] = IF @ = None THEN Some(<<role>>) ELSE Some(Append(@[1], role))]

-----------------------------------------------------------------------------

(* Writing. *)

Number(n) == <<"number", n>>
String(s) == <<"text", s>>

Member(key, option, Write(_)) ==
    IF option = None THEN <<>> ELSE <<<<key, Write(option[1])>>>>

serialize_duration(d) == Number(d \div TicksPerMilli)

\* One role is a text, several or none are a list.
serialize_roles(roles) == IF Len(roles) = 1 THEN String(roles[1]) ELSE <<"list", roles>>

serialize_acl(acl) ==
    CASE acl = UserStream -> String("$userStreamAcl")
      [] acl = SystemStream -> String("$systemStreamAcl")
      [] OTHER -> <<"object", Member("$r", acl[2]["$r"], serialize_roles)
                              \o Member("$w", acl[2]["$w"], serialize_roles)
                              \o Member("$d", acl[2]["$d"], serialize_roles)
                              \o Member("$mr", acl[2]["$mr"], serialize_roles)
                              \o Member("$mw", acl[2]["$mw"], serialize_roles)>>

to_json(m) ==
    LET custom == SetToSeq(DOMAIN m.custom_properties)
    IN  Member("$maxCount", m.max_count, Number)
        \o Member("$maxAge", m.max_age, serialize_duration)
        \o Member("$tb", m.truncate_before, Number)
        \o Member("$cacheControl", m.cache_control, serialize_duration)
        \o Member("$acl", m.acl, serialize_acl)
        \o [i \in DOMAIN custom |-> <<custom[i], m.custom_properties[custom[i]]>>]

-----------------------------------------------------------------------------

(* Reading: Some of what is read, or None for an error. *)

\* A member that is absent is the default, one that comes twice an error.
MemberOf(object, key, Parse(_)) ==
    LET places == {i \in DOMAIN object : object[i][1] = key}
    IN  CASE places = {} -> Some(None)
          [] \E i, j \in places : i # j -> None
          [] OTHER -> Parse(object[CHOOSE i \in places : TRUE][2])

ParseNumber(json) == IF json[1] = "number" THEN Some(Some(json[2])) ELSE None

deserialize_duration(json) ==
    IF json[1] = "number" THEN Some(Some(json[2] * TicksPerMilli)) ELSE None

\* Mutation of deserialize_roles: a list is needed.
RolesFromLists(json) == IF json[1] = "list" THEN Some(Some(json[2])) ELSE None

deserialize_roles(json) ==
    CASE json[1] = "text" -> Some(Some(<<json[2]>>))
      [] json[1] = "list" -> Some(Some(json[2]))
      [] OTHER -> None

deserialize_acl(json) ==
    CASE json = String("$userStreamAcl") -> Some(Some(UserStream))
      [] json = String("$systemStreamAcl") -> Some(Some(SystemStream))
      [] json[1] = "object" ->
            LET read == [kind \in Roles |-> MemberOf(json[2], kind, deserialize_roles)]
            IN  IF \E kind \in Roles : read[kind] = None THEN None
                ELSE Some(Some(Stream([kind \in Roles |-> read[kind][1]])))
      [] OTHER -> None

Names == {"$maxCount", "$maxAge", "$tb", "$cacheControl", "$acl"}

from_json(object) ==
    LET custom == {object[i][1] : i \in DOMAIN object} \ Names
        max_count == MemberOf(object, "$maxCount", ParseNumber)
        max_age == MemberOf(object, "$maxAge", deserialize_duration)
        truncate_before == MemberOf(object, "$tb", ParseNumber)
        cache_control == MemberOf(object, "$cacheControl", deserialize_duration)
        acl == MemberOf(object, "$acl", deserialize_acl)
    IN  IF max_count = None \/ max_age = None \/ truncate_before = None
           \/ cache_control = None \/ acl = None THEN None
        ELSE Some([max_count |-> max_count[1], max_age |-> max_age[1],
                   truncate_before |-> truncate_before[1],
                   cache_control |-> cache_control[1], acl |-> acl[1],
                   custom_properties |->
                      [k \in custom |->
                          object[CHOOSE i \in DOMAIN object : object[i][1] = k][2]]])

===============================================================================
