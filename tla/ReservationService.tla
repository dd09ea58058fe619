--------------------------- MODULE ReservationService --------------------------
(***************************************************************************)
(* What the idempotent reservation workflow promises its callers: each     *)
(* operation stands for one command and is decided once; a completed one   *)
(* changes the stock in a single step that the stock of that moment        *)
(* allows, whatever was read before; nothing else changes the stock.       *)
(***************************************************************************)
EXTENDS Integers

CONSTANTS OpIds, Commands, Available, NoCommand

VARIABLES
    claimed,    \* the command each operation stands for
    outcome,    \* what became of it
    available,  \* the units that are free
    active      \* the reservations that hold units, with their quantity

serviceVars == <<claimed, outcome, available, active>>

ServiceInit ==
    /\ claimed = [o \in OpIds |-> NoCommand]
    /\ outcome = [o \in OpIds |-> "none"]
    /\ available = Available
    /\ active = {}

Undecided(c) == claimed[c.id] = c /\ outcome[c.id] = "none"
Decide(c, what) == outcome' = [outcome EXCEPT ![c.id] = what]
Held(c) == [reservation |-> c.reservation, quantity |-> c.quantity]

Claim(c) ==
    /\ claimed[c.id] = NoCommand
    /\ claimed' = [claimed EXCEPT ![c.id] = c]
    /\ UNCHANGED <<outcome, available, active>>

Reserve(c) ==
    /\ Undecided(c) /\ c.kind = "reserve"
    /\ available >= c.quantity
    /\ \A h \in active : h.reservation # c.reservation
    /\ available' = available - c.quantity
    /\ active' = active \cup {Held(c)}
    /\ Decide(c, "completed")
    /\ UNCHANGED claimed

Release(c) ==
    /\ Undecided(c) /\ c.kind = "release"
    /\ Held(c) \in active
    /\ available' = available + c.quantity
    /\ active' = active \ {Held(c)}
    /\ Decide(c, "completed")
    /\ UNCHANGED claimed

\* Without an effect, for good.
TurnDown(c) ==
    /\ Undecided(c)
    /\ \E what \in {"rejected", "conflicted"} : Decide(c, what)
    /\ UNCHANGED <<claimed, available, active>>

ServiceNext ==
    \E c \in Commands : Claim(c) \/ Reserve(c) \/ Release(c) \/ TurnDown(c)

ServiceSpec == ServiceInit /\ [][ServiceNext]_serviceVars
===============================================================================
