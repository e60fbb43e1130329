-------------------------- MODULE MCGuardSpendCap --------------------------
EXTENDS GuardSpendCap, TLC

Request(amtMsat, amt, feeMsat, feeSat, invoice) ==
  [amtMsat |-> amtMsat, amt |-> amt, feeMsat |-> feeMsat, feeSat |-> feeSat,
   invoice |-> invoice]

(* A small and a large payment, an amount in satoshis that wraps to a small *)
(* one, and a negative one.                                                 *)
MCRequests ==
  {Request(0, 0, 1, 0, 1), Request(0, 1, 0, 0, 0), Request(0, 11, 0, 0, 0),
   Request(-5, 0, 0, 0, 0)}

Symmetry == Permutations(Payments)
=============================================================================
