-------------------------- MODULE GetterConnection --------------------------
(***************************************************************************)
(* What the two phases of a Better_Getter connection, GetterLink and       *)
(* GetterGatt, have in common: what is under way to the peripheral, and    *)
(* how much of it gets lost.                                               *)
(***************************************************************************)

CONSTANTS
    MaxDrops,   \* bound: requests that are not answered at all
    NONE

VARIABLES
    asked,      \* requests that are not answered yet, in their order
    drops
=============================================================================
