------------------------------- MODULE Escrow -------------------------------
(***************************************************************************)
(* What the wallet promises about reservations, whatever happens between   *)
(* the server, its database and the node: money is held before it can      *)
(* leave, every hold is closed at most once, a hold is given back only if  *)
(* its money never leaves, and a hold is kept only for an invoice that was *)
(* paid.  The operator may overrule the app on a single hold; from then on *)
(* the outcome of that hold is the operator's word.                        *)
(***************************************************************************)
EXTENDS Integers

CONSTANTS Rows,     \* holds that can be made
          Hashes,   \* invoices
          Charge    \* what one hold takes

VARIABLES status,     \* "none", "pending", "settled" or "failed"
          hash,       \* the invoice of each hold
          moved,      \* holds whose money has left
          overruled,  \* holds the operator decided
          balance     \* what is free

vars == <<status, hash, moved, overruled, balance>>

Init ==
  /\ status = [r \in Rows |-> "none"]
  /\ hash \in [Rows -> Hashes]
  /\ moved = {} /\ overruled = {}
  /\ balance = 0

Hold(r) ==
  /\ status[r] = "none"
  /\ balance >= Charge
  /\ status' = [status EXCEPT ![r] = "pending"]
  /\ balance' = balance - Charge
  /\ UNCHANGED <<hash, moved, overruled>>

(* The network pays: once per invoice, and only for money that is held.    *)
Move(r) ==
  /\ status[r] = "pending" \/ r \in overruled
  /\ \A q \in moved : hash[q] # hash[r]
  /\ moved' = moved \cup {r}
  /\ UNCHANGED <<status, hash, overruled, balance>>

(* Part of the hold may come back, or a fee beyond it be taken.            *)
Keep(r) ==
  /\ status[r] = "pending"
  /\ \E q \in moved : hash[q] = hash[r]
  /\ status' = [status EXCEPT ![r] = "settled"]
  /\ balance' \in Nat /\ balance' <= balance + Charge
  /\ UNCHANGED <<hash, moved, overruled>>

GiveBack(r) ==
  /\ status[r] = "pending" /\ r \notin moved
  /\ status' = [status EXCEPT ![r] = "failed"]
  /\ balance' = balance + Charge
  /\ UNCHANGED <<hash, moved, overruled>>

Overrule(r) ==
  /\ status[r] = "pending"
  /\ overruled' = overruled \cup {r}
  /\ \/ status' = [status EXCEPT ![r] = "settled"] /\ balance' = balance
     \/ status' = [status EXCEPT ![r] = "failed"] /\ balance' = balance + Charge
  /\ UNCHANGED <<hash, moved>>

SetCeiling ==
  /\ balance' \in Nat
  /\ UNCHANGED <<status, hash, moved, overruled>>

Next ==
  \/ \E r \in Rows : Hold(r) \/ Move(r) \/ Keep(r) \/ GiveBack(r) \/ Overrule(r)
  \/ SetCeiling

Spec == Init /\ [][Next]_vars
=============================================================================
