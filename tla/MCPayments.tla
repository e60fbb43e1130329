---------------------------- MODULE MCPayments ----------------------------
(* Instances of Payments for TLC. *)
EXTENDS Payments, TLC

HashSymmetry == Permutations(Hashes)
===========================================================================
