\* Connection strings, stream metadata and the traces of events.
SPECIFICATION Spec
CONSTANTS
    LowerCase <- MCLowerCase
    Strings <- MCStrings
    Slashed <- MCSlashed
    NoPort = 0
    BadPort = 99999
    NotANumber = 999999
    Forever = 1000000
    TicksPerMilli = 2
    Types = {"created"}
    Customs <- MCCustoms
    Trace = {"traceparent", "tracestate"}
    Propagated = {"traceparent", "tracestate", "baggage"}
    Calls <- MCCalls
    MaxCalls = 4
    MaxEvents = 2
    MaxSpans = 2
\* A string that is refused is not read further, and the bounds are reached.
CHECK_DEADLOCK FALSE
INVARIANT SettingsAsWritten
INVARIANT WrittenIsRead
INVARIANT LinksToTheAppend
