----------------------------- MODULE MCLmpPrint -----------------------------
(* Devices for LmpPrint: names of no, one and several fragments up to the  *)
(* 248 bytes a name may have, on both sides of 127; up to three pages.     *)
EXTENDS LmpPrint

Names == {0, 1, 14, 15, 28, 29, 127, 128, 248}
Pages == 0..3
=============================================================================
