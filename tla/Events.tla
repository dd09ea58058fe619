-------------------------------- MODULE Events ---------------------------------
(***************************************************************************)
(* The way of an event: EventData is built (types.rs), given the trace of  *)
(* the append that carries it (observability.rs), put into the request and *)
(* read back (event_store/generated.rs), and linked to that append by the  *)
(* span of its receiver.  Stream metadata goes the same way, as the event  *)
(* of a stream of its own.                                                 *)
(*                                                                         *)
(* Bytes are tagged: empty, an object of named values, or anything else.   *)
(* A span is numbered; 0 is the context of no valid span.  The server      *)
(* stores what it is given and numbers it; it accepts every append.        *)
(***************************************************************************)
EXTENDS StreamMetadata, Letters

CONSTANTS
    Types,           \* of events
    Customs,         \* the metadata an application gives an event
    Trace,           \* its names: "traceparent" and "tracestate"
    Propagated,      \* what the propagator injects: Trace, and perhaps others
    Calls,           \* the calls of StreamMetadataBuilder
    MaxCalls,        \* bound: calls of builders
    MaxEvents,       \* bound: events appended
    MaxSpans         \* bound: operations under a valid span

\* Names of the trace and of the propagator are in lower case, and there is a trace;
\* a builder is given values of the kind it is for.
ASSUME EventsAssumption ==
    /\ \A name \in Trace \cup Propagated : to_lowercase(name) = name
    /\ "traceparent" \in Trace \cap Propagated /\ IsFiniteSet(Propagated)
    /\ \A bytes \in Customs : bytes[1] = "empty" => bytes = <<"empty">>
    /\ \A call \in Calls :
        \/ call[1] = "property"
        \/ call[1] = "role" /\ call[2] \in Roles
        \/ call[1] = "set" /\ call[2] \in {"max_count", "truncate_before"}
        \/ call[1] = "set" /\ call[2] \in {"max_age", "cache_control"} /\ call[3] \in Nat
        \/ call[1] = "set" /\ call[2] = "acl" /\ call[3] \in {UserStream, SystemStream}

VARIABLES
    propagates,   \* whether the application has installed a propagator
    batch,        \* the events built for the next append
    builder,      \* the metadata built
    calls,        \* how many builder calls were made
    span,         \* the last span started
    log,          \* what the server holds of a stream and of its metadata stream
    written,      \* history: the events of log as given, the span of their append, and
                  \* the metadata they were made of
    result,       \* the last WriteResult, with the stream and the events of its append
    received,     \* the span of the last receive, with the event that was delivered
    metadata      \* the last answer of get_stream_metadata

eVars == <<propagates, batch, builder, calls, span, log, written, result, received, metadata>>

Streams == {"orders", "$$orders"}

-----------------------------------------------------------------------------

(* EventData. *)

Empty == <<"empty">>
Object(fields) == <<"object", fields>>

EventData(type, content_type, payload) ==
    [id_opt |-> None, type |-> type, content_type |-> content_type, payload |-> payload,
     custom_metadata |-> None]

json(type, payload) == EventData(type, "application/json", payload)
binary(type, payload) == EventData(type, "application/octet-stream", payload)

-----------------------------------------------------------------------------

(* The context of an event. *)

is_persisted_trace_field(key) == \E name \in Trace : eq_ignore_ascii_case(key, name)

\* Mutation of carrier_set: a field of another case is left beside the new one.
CarrierSetBeside(fields, key, value) ==
    IF ~is_persisted_trace_field(key) THEN fields
    ELSE [k \in DOMAIN fields \cup {key} |-> IF k = key THEN value ELSE fields[k]]

\* EventMetadataCarrier::set.
carrier_set(fields, key, value) ==
    IF ~is_persisted_trace_field(key) THEN fields
    ELSE LET others == {k \in DOMAIN fields : ~eq_ignore_ascii_case(k, key)}
         IN  [k \in others \cup {key} |-> IF k = key THEN value ELSE fields[k]]

Inject(fields, context) ==
    FoldSet(LAMBDA key, carrier :
                carrier_set(carrier, key, IF key = "traceparent" THEN <<"span", context>>
                                          ELSE <<"text", "">>),
            fields, Propagated)

\* What is not an object is left as it is.
inject_event_context(event, context) ==
    LET given == IF event.custom_metadata \in {None, Some(Empty)} THEN Object([k \in {} |-> Empty])
                 ELSE event.custom_metadata[1]
    IN  IF context = 0 \/ ~propagates \/ given[1] # "object" THEN event
        ELSE [event EXCEPT !.custom_metadata = Some(Object(Inject(given[2], context)))]

\* EventMetadataCarrier::get: the first of several, in the order of the map.
carrier_get(fields, name) ==
    {k \in DOMAIN fields : eq_ignore_ascii_case(k, name) /\ fields[k][1] \in {"span", "text"}}

\* The contexts that may be extracted.
extract_event_context(bytes) ==
    IF ~propagates \/ bytes[1] # "object" THEN {0}
    ELSE LET found == carrier_get(bytes[2], "traceparent")
         IN  {IF bytes[2][k][1] = "span" THEN bytes[2][k][2] ELSE 0 : k \in found}
             \cup {0 : none \in IF found = {} THEN {0} ELSE {}}

-----------------------------------------------------------------------------

(* The requests and answers. *)

Recorded == Len(log["orders"]) + Len(log["$$orders"])

\* From<EventData> for AppendReq, and what the server makes of it.
AppendReq(event, nth) ==
    [id |-> IF event.id_opt = None THEN <<"new", Recorded + nth>> ELSE event.id_opt[1],
     type |-> event.type, content_type |-> event.content_type,
     custom_metadata |-> IF event.custom_metadata = None THEN Empty ELSE event.custom_metadata[1],
     data |-> event.payload]

Store(stream, request, nth) ==
    [request |-> request, revision |-> Len(log[stream]) + nth - 1]

\* From<RecordedEvent>; its position and the date of its creation are left out.
RecordedEvent(proto) ==
    [id |-> proto.request.id, revision |-> proto.revision, event_type |-> proto.request.type,
     is_json |-> proto.request.content_type = "application/json",
     custom_metadata |-> proto.request.custom_metadata, data |-> proto.request.data]

NoStream == -1

\* From<append_resp::Success>.
WriteResult(current) == IF current = NoStream THEN 0 ELSE current

\* One append of events to a stream, under a span; of is what they say.
Send(stream, events, context, of) ==
    LET sent == [i \in DOMAIN events |-> inject_event_context(events[i], context)]
        stored == log[stream] \o
                  [i \in DOMAIN sent |-> Store(stream, AppendReq(sent[i], i), i)]
    IN  /\ Recorded + Len(events) <= MaxEvents
        /\ log' = [log EXCEPT ![stream] = stored]
        /\ written' = [written EXCEPT ![stream] =
                          @ \o [i \in DOMAIN events |->
                                   [event |-> events[i], span |-> context, of |-> of]]]
        /\ result' = Some([stream |-> stream, events |-> events,
                           next_expected_version |-> WriteResult(Len(stored) - 1)])

\* client_operation: a span is started for each operation; it is valid unless no
\* tracer is installed.
Contexts == {0} \cup {n \in {span + 1} : n <= MaxSpans}

-----------------------------------------------------------------------------

Counted == calls < MaxCalls /\ calls' = calls + 1

\* EventData::json and binary.
New ==
    /\ Counted
    /\ Recorded + Len(batch) < MaxEvents
    /\ \E type \in Types :
          \E event \in {json(type, <<"data", calls>>), binary(type, <<"data", calls>>)} :
              batch' = Append(batch, event)
    /\ UNCHANGED <<propagates, builder, span, log, written, result, received, metadata>>

Change(event) ==
    /\ Counted
    /\ batch # <<>>
    /\ batch' = [batch EXCEPT ![Len(batch)] = event]
    /\ UNCHANGED <<propagates, builder, span, log, written, result, received, metadata>>

WithId == Change([Last(batch) EXCEPT !.id_opt = Some(<<"given", calls>>)])

\* metadata and metadata_as_json.
WithMetadata ==
    \E bytes \in Customs : Change([Last(batch) EXCEPT !.custom_metadata = Some(bytes)])

\* An application passes the metadata of an event it received on with a new one.
Forward ==
    /\ received # None
    /\ Change([Last(batch) EXCEPT !.custom_metadata = Some(received[1].custom_metadata)])

AppendToStream ==
    \E context \in Contexts :
        /\ Send("orders", batch, context, None)
        /\ span' = IF context = 0 THEN span ELSE context
        /\ batch' = <<>>
        /\ UNCHANGED <<propagates, builder, calls, received, metadata>>

BuildMetadata ==
    /\ Counted
    /\ \E call \in Calls :
          builder' = CASE call[1] = "property" -> insert_custom_property(builder, call[2], call[3])
                       [] call[1] = "role" ->
                            With(builder, "acl", Stream(AddRole(
                                IF builder.acl # None /\ builder.acl[1][1] = "Stream"
                                THEN builder.acl[1][2] ELSE StreamAclBuilder, call[2], call[3])))
                       [] OTHER -> With(builder, call[2], call[3])
    /\ UNCHANGED <<propagates, batch, span, log, written, result, received, metadata>>

set_stream_metadata ==
    \E context \in Contexts :
        /\ Send("$$orders", <<json("$metadata", <<"metadata", to_json(builder)>>)>>, context,
                Some(builder))
        /\ span' = IF context = 0 THEN span ELSE context
        /\ UNCHANGED <<propagates, batch, builder, calls, received, metadata>>

\* The server keeps the last event of a metadata stream.
get_stream_metadata ==
    LET versions == log["$$orders"]
    IN  /\ metadata' = IF versions = <<>> THEN <<"NotFound">>
                       ELSE LET read == from_json(Last(versions).request.data[2])
                            IN  IF read = None THEN <<"InternalParsingError">>
                                ELSE <<"Success", read[1], Last(versions).revision>>
        /\ UNCHANGED <<propagates, batch, builder, calls, span, log, written, result, received>>

\* What a link to an event is, as an event.
LinkTo(revision) ==
    [id |-> <<"link", revision>>, revision |-> revision, event_type |-> "$>", is_json |-> FALSE,
     custom_metadata |-> Empty, data |-> <<"link", revision>>]

\* SubscriptionReceive::complete: the span names the event that was read or the
\* link that led to it, and is linked to the context of the event delivered.
Receive ==
    \E i \in DOMAIN log["orders"], by \in {"event", "resolved link", "broken link"} :
        LET event == RecordedEvent(log["orders"][i])
            delivered == IF by = "broken link" THEN LinkTo(i - 1) ELSE event
            original == IF by = "event" THEN event ELSE LinkTo(i - 1)
        IN  \E context \in extract_event_context(delivered.custom_metadata) :
              /\ received' = Some([by |-> by, revision |-> i - 1, message_id |-> original.id,
                                   event_type |-> delivered.event_type, link |-> context,
                                   custom_metadata |-> delivered.custom_metadata])
              /\ UNCHANGED <<propagates, batch, builder, calls, span, log, written, result,
                             metadata>>

EventsInit ==
    /\ propagates \in BOOLEAN
    /\ batch = <<>> /\ builder = StreamMetadataBuilder /\ calls = 0 /\ span = 0
    /\ log = [s \in Streams |-> <<>>] /\ written = [s \in Streams |-> <<>>]
    /\ result = None /\ received = None /\ metadata = <<"none">>

EventsNext == New \/ WithId \/ WithMetadata \/ Forward \/ AppendToStream \/ Receive

MetadataNext == BuildMetadata \/ set_stream_metadata \/ get_stream_metadata

EventsSpec == EventsInit /\ [][EventsNext \/ MetadataNext]_eVars

-----------------------------------------------------------------------------

(* Properties. *)

\* The metadata an application gave an event, and what of it is the application's.
Given(event) == IF event.custom_metadata = None THEN Empty ELSE event.custom_metadata[1]
Own(bytes) ==
    IF bytes[1] # "object" THEN [k \in {} |-> Empty]
    ELSE [k \in {k \in DOMAIN bytes[2] : to_lowercase(k) \notin Trace} |-> bytes[2][k]]

Traced(w) == propagates /\ w.span # 0 /\ Given(w.event)[1] \in {"empty", "object"}

\* An event is read as it was written, at the revision its append answered: its
\* type, its payload, its identity and the metadata of the application, to which
\* a trace was added at most. (types.rs, EventData and RecordedEvent.)
EventsComeBack ==
    /\ \A s \in Streams : \A i \in DOMAIN log[s] :
          LET w == written[s][i]
              read == RecordedEvent(log[s][i])
          IN  /\ read.event_type = w.event.type /\ read.data = w.event.payload
              /\ read.is_json = (w.event.content_type = "application/json")
              /\ w.event.id_opt # None => read.id = w.event.id_opt[1]
              /\ IF Traced(w) THEN Own(read.custom_metadata) = Own(Given(w.event))
                 ELSE read.custom_metadata = Given(w.event)
    /\ \A r \in ToSet(result) : \A k \in DOMAIN r.events :
          written[r.stream][r.next_expected_version + 1 - Len(r.events) + k].event = r.events[k]

\* The precision a duration has in JSON.
Millis(option) ==
    IF option = None THEN None ELSE Some(option[1] - (option[1] % TicksPerMilli))

Rounded(m) == [m EXCEPT !.max_age = Millis(@), !.cache_control = Millis(@)]

\* Stream metadata is read as it was set, whatever combination of its parts is:
\* "isomorphic" (types.rs, metadata_tests), but for parts of a millisecond, and
\* unless a custom property has the name of one of the system's.
MetadataComesBack ==
    metadata[1] \in {"Success", "InternalParsingError"} =>
        \E w \in ToSet(written["$$orders"]) :
            \/ DOMAIN w.of[1].custom_properties \cap Names # {}
            \/ metadata[1] = "Success" /\ metadata[2] = Rounded(w.of[1])

\* What is written through the client is what is read through it.
WrittenIsRead == EventsComeBack /\ MetadataComesBack

\* The span of a receive is linked to the append that wrote the event: not to an
\* older one whose trace the application passed on, in whatever case, and not to
\* that of the link it came by.
LinksToTheAppend ==
    \A r \in ToSet(received) :
        LET w == written["orders"][r.revision + 1]
        IN  r.by # "broken link" /\ Traced(w) => r.link = w.span

===============================================================================
