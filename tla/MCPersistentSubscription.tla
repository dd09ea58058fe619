----------------------- MODULE MCPersistentSubscription -----------------------
(* Small instances of PersistentSubscription. *)
EXTENDS PersistentSubscription, TLC

\* The second item is a link to the first; both are in the group.
MCItems == {"e1", "e2"}
MCTarget == "e2" :> "e1"

===============================================================================
