---------------------------- MODULE AllocRegistry ----------------------------
(***************************************************************************)
(* What the allocator table promises to its clients: a partial function    *)
(* from ids to the callbacks registered under them.  An id that is bound   *)
(* is not bound again, a binding changes only by being removed, whole, and *)
(* the shutdown of the library is final.                                   *)
(***************************************************************************)
EXTENDS Integers

CONSTANTS Id, Callback

VARIABLES registered, open

vars == <<registered, open>>

Bound == DOMAIN registered

Init == registered = [id \in {} |-> 0] /\ open = TRUE

Register(id, cb) ==
    /\ open
    /\ id \notin Bound
    /\ registered' = [k \in Bound \cup {id} |-> IF k = id THEN cb ELSE registered[k]]
    /\ UNCHANGED open

Unregister(id) ==
    /\ id \in Bound
    /\ registered' = [k \in Bound \ {id} |-> registered[k]]
    /\ UNCHANGED open

Close ==
    /\ open
    /\ registered' = [id \in {} |-> 0]
    /\ open' = FALSE

Next ==
    \/ \E id \in Id, cb \in Callback : Register(id, cb)
    \/ \E id \in Bound : Unregister(id)
    \/ Close

Spec == Init /\ [][Next]_vars

=============================================================================
