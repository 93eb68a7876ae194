--------------------------- MODULE MCDynamicModem ---------------------------
(* Modes are only compared with each other and stored: permuting them maps    *)
(* behaviours to behaviours, and the invariants do not tell them apart.       *)
EXTENDS DynamicModem, TLC

ModesSymmetry == Permutations(Modes)
=============================================================================
