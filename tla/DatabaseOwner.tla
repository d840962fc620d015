--------------------------- MODULE DatabaseOwner ---------------------------
(***************************************************************************)
(* What the process promises about its databases: they are open for one    *)
(* operation at a time, they are closed between two of them, and after a   *)
(* reset they stay closed.                                                 *)
(***************************************************************************)
CONSTANT Ops

VARIABLES
    owners,   \* the operations that have a database open
    ended     \* the process was reset

vars == <<owners, ended>>

Init == owners = {} /\ ended = FALSE

Take(o) ==
    /\ ~ended
    /\ owners = {}
    /\ owners' = {o}
    /\ UNCHANGED ended

Drop ==
    /\ owners' = {}
    /\ UNCHANGED ended

End ==
    /\ owners = {}
    /\ ended' = TRUE
    /\ UNCHANGED owners

Next == Drop \/ End \/ \E o \in Ops : Take(o)

Spec == Init /\ [][Next]_vars

=============================================================================
