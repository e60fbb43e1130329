--------------------------- MODULE MCNwcRequests ---------------------------
(* Instances of NwcRequests for TLC. *)
EXTENDS NwcRequests, TLC

NwcSymmetry ==
  Permutations(Events) \cup Permutations(Relays) \cup Permutations(Workers)
=============================================================================
