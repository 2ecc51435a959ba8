---------------------------- MODULE MCKeystore ----------------------------
(***************************************************************************)
(* Instances of Keystore for TLC.                                          *)
(***************************************************************************)
EXTENDS Keystore, TLC

MCSymmetry == Permutations(Calls)

=============================================================================
