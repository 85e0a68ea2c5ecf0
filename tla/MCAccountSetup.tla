--------------------------- MODULE MCAccountSetup ---------------------------
(* Instances of AccountSetup for TLC. *)
EXTENDS AccountSetup
CONSTANTS m1, m2, a1, x1
=============================================================================
