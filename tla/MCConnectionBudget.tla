------------------------ MODULE MCConnectionBudget ------------------------
(* Instances of ConnectionBudget for TLC.                                  *)
EXTENDS ConnectionBudget, TLC

PaymentSymmetry == Permutations(Payments)
===========================================================================
