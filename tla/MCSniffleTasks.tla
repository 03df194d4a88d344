--------------------------- MODULE MCSniffleTasks ---------------------------
(* Small instances of SniffleTasks. *)
EXTENDS SniffleTasks
=============================================================================
