------------------------------ MODULE EventFeed -------------------------------
(***************************************************************************)
(* What a catch-up subscription promises: from the place it starts at, the *)
(* events that match its filter reach the application one by one, in the   *)
(* order of the log, none twice and none left out.                         *)
(***************************************************************************)
EXTENDS Naturals, Sequences

CONSTANTS Matching, End, Starts

VARIABLES
    log,        \* the number of events in the log
    first,      \* the events after this place are wanted; End: not known yet
    delivered   \* the places of the events handed over, in order

vars == <<log, first, delivered>>

Init ==
    /\ log = 0
    /\ first \in Starts
    /\ delivered = <<>>

Reached == IF delivered = <<>> THEN first ELSE delivered[Len(delivered)]

Write ==
    /\ log' = log + 1
    /\ UNCHANGED <<first, delivered>>

\* "The end" is where the log ends at that moment.
Start ==
    /\ first = End
    /\ first' = log
    /\ UNCHANGED <<log, delivered>>

Deliver ==
    /\ first # End
    /\ \E p \in Matching :
          /\ Reached < p /\ p <= log
          /\ \A q \in Matching : ~(Reached < q /\ q < p)
          /\ delivered' = Append(delivered, p)
    /\ UNCHANGED <<log, first>>

Next == Write \/ Start \/ Deliver

Spec == Init /\ [][Next]_vars

===============================================================================
