---------------------------- MODULE MCBtidalpool ----------------------------
(* Small instances of Btidalpool for TLC. *)
EXTENDS Btidalpool, TLC

CONSTANTS i1, i2, u1, u2, h1, h2

Ask(i, u, cmd, h, valid) ==
    [ip |-> i, user |-> u, cmd |-> cmd, h |-> h, valid |-> valid]

(* Uploads of two contents, one of them also asked for by hash. *)
UploadMenu ==
    {Ask(i1, u1, "upload", h, TRUE) : h \in {h1, h2}}
      \cup {Ask(i1, u1, "upload", h2, FALSE), Ask(i1, u2, "check_hash", h1, TRUE)}

(* Uploads of one content from two addresses, and one of every other kind. *)
AllMenu ==
    UploadMenu \cup {Ask(i2, u1, "upload", h1, TRUE), Ask(i1, u1, "query", h1, TRUE),
                     Ask(i1, u1, "other", h1, TRUE)}

RequestSymmetry == Permutations(Requests)
=============================================================================
