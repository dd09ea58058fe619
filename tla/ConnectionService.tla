-------------------------- MODULE ConnectionService ---------------------------
(***************************************************************************)
(* What current_selected_node promises its callers, with no channel, no    *)
(* task and no probe: there is one current connection; it is replaced only *)
(* by a newer one; a caller that waits is answered with the connection     *)
(* current at that moment, or refused when the service closes, for good.   *)
(***************************************************************************)
EXTENDS Naturals

CONSTANTS Callers, Node, NoNode

VARIABLES
    open,      \* does the service still answer?
    current,   \* the current connection; the one with id 0 is none
    waiting,   \* the callers that asked and have no answer yet
    held       \* the connection each caller runs its operation with

vars == <<open, current, waiting, held>>

None == [id |-> 0, endpoint |-> NoNode]

Init ==
    /\ open = TRUE
    /\ current = None
    /\ waiting = {}
    /\ held = [c \in Callers |-> None]

Ask(c) ==
    /\ open
    /\ c \notin waiting
    /\ held[c] = None
    /\ waiting' = waiting \cup {c}
    /\ UNCHANGED <<open, current, held>>

Done(c) ==
    /\ held[c] # None
    /\ held' = [held EXCEPT ![c] = None]
    /\ UNCHANGED <<open, current, waiting>>

\* current' is a newer connection, on some node.
Newer == \E n \in Node : current' = [id |-> current.id + 1, endpoint |-> n]

Connect ==
    /\ open
    /\ Newer
    /\ UNCHANGED <<open, waiting, held>>

\* c is answered with the connection that is current, perhaps just made.
Answer(c) ==
    /\ open
    /\ c \in waiting
    /\ \/ current # None /\ UNCHANGED current
       \/ Newer
    /\ waiting' = waiting \ {c}
    /\ held' = [held EXCEPT ![c] = current']
    /\ UNCHANGED open

\* Everyone who waits is refused, and nobody is answered any more.
Close ==
    /\ open
    /\ open' = FALSE
    /\ waiting' = {}
    /\ UNCHANGED <<current, held>>

Next ==
    \/ Connect
    \/ Close
    \/ \E c \in Callers : Ask(c) \/ Answer(c) \/ Done(c)

\* Whoever waits is answered or refused in the end.
Settle(c) == c \in waiting /\ (Answer(c) \/ Close)

Spec ==
    /\ Init
    /\ [][Next]_vars
    /\ \A c \in Callers : WF_vars(Settle(c))

===============================================================================
