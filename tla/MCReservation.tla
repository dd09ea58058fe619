----------------------------- MODULE MCReservation -----------------------------
(* A small instance of Reservation. *)
EXTENDS Reservation, TLC

CONSTANTS w1, w2, opA, opB, resA, resB

TwoWorkers == {w1, w2}
TwoOps == {opA, opB}

Command(id, kind, reservation, quantity) ==
    [id |-> id, kind |-> kind, reservation |-> reservation, sku |-> Sku,
     quantity |-> quantity]

\* As in main: a reservation, a competitor for the same unit, and the release of
\* the first reservation, which reuses the id of the competitor.
MCCommands ==
    {Command(opA, "reserve", resA, 1), Command(opB, "reserve", resB, 1),
     Command(opB, "release", resA, 1)}
===============================================================================
