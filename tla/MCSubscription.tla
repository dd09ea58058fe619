---------------------------- MODULE MCSubscription ----------------------------
(* Small instances of Subscription. *)
EXTENDS Subscription

\* The third event does not pass the filter.
MCMatching == {1, 2, 4}
Numbered == {0, 1}
AtTheEnd == {End}
TwoAttempts == {[enabled |-> TRUE, limit |-> 2]}
SomePolicies == {[enabled |-> TRUE, limit |-> 0], [enabled |-> TRUE, limit |-> 2]}
Forever == {[enabled |-> TRUE, limit |-> MaxFaults + 1]}

===============================================================================
