------------------------- MODULE MCSniffleRotation -------------------------
(* Small instances of SniffleRotation. *)
EXTENDS SniffleRotation, TLC

PidSymmetry == Permutations(Pids)
============================================================================
