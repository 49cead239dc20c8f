----------------------- MODULE SimultaneousAssignment -----------------------
(***************************************************************************)
(* What the phis of a block promise: all of them are assigned in one step, *)
(* each from the value its source had before that step, and no other       *)
(* location changes.                                                       *)
(***************************************************************************)
EXTENDS Integers

CONSTANT Locations

VARIABLES
    wanted,    \* the source of each assigned location
    value,     \* value[l]: the location whose initial value l holds
    assigned   \* whether the assignment has happened

Init ==
    /\ value = [l \in Locations |-> l]
    /\ assigned \in BOOLEAN
    /\ assigned => DOMAIN wanted = {}

Assign ==
    /\ ~assigned
    /\ assigned' = TRUE
    /\ value' = [l \in Locations |->
                    IF l \in DOMAIN wanted THEN value[wanted[l]] ELSE value[l]]
    /\ UNCHANGED wanted

Spec == Init /\ [][Assign]_<<wanted, value, assigned>>
=============================================================================
