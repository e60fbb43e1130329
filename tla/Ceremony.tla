------------------------------ MODULE Ceremony ------------------------------
(***************************************************************************)
(* What the guard promises about the operator's controls.  A control may   *)
(* be tightened by anybody.  It is loosened only with a permit the         *)
(* operator was offered for exactly that change: one permit is open at a   *)
(* time, none is taken after it has expired, none is offered twice and     *)
(* none serves twice.  At all times the limits can be told apart: a        *)
(* single payment never has more room than the window it counts against.   *)
(***************************************************************************)
EXTENDS Integers

CONSTANTS Controls,   \* "sending" (0 off, 1 on), "spend_cap", "payment_cap"
          Values,     \* what a control may be set to
          Codes       \* what identifies a permit

VARIABLES controls,   \* [Controls -> Values]
          open,       \* the permit on offer, or NoPermit
          taken,      \* the permit that is being used, or NoPermit
          used        \* every code there has been

vars == <<controls, open, taken, used>>

NoPermit == [code |-> 0]
Changes == [control : Controls, value : Values]
Permits == [code : Codes, change : Changes, expired : BOOLEAN]

PairOK(c) == c["payment_cap"] <= c["spend_cap"]

Init ==
  /\ controls \in [Controls -> Values] /\ PairOK(controls)
  /\ open = NoPermit /\ taken = NoPermit /\ used = {}

(* A new permit displaces the one that is open.                            *)
Offer ==
  /\ \E p \in Permits :
       /\ p.code \notin used /\ ~p.expired
       /\ open' = p /\ used' = used \cup {p.code}
  /\ UNCHANGED <<controls, taken>>

(* A code may be lost before it is ever offered.                           *)
Spoil ==
  /\ \E c \in Codes : used' = used \cup {c}
  /\ UNCHANGED <<controls, open, taken>>

Expire ==
  /\ open \in Permits
  /\ open' = [code |-> open.code, change |-> open.change, expired |-> TRUE]
  /\ UNCHANGED <<controls, taken, used>>

Withdraw ==
  /\ open' = NoPermit
  /\ UNCHANGED <<controls, taken, used>>

Take ==
  /\ open \in Permits /\ ~open.expired /\ taken = NoPermit
  /\ taken' = open /\ open' = NoPermit
  /\ UNCHANGED <<controls, used>>

Loosen ==
  /\ taken \in Permits /\ taken' = NoPermit
  /\ controls' = [controls EXCEPT ![taken.change.control] = taken.change.value]
  /\ PairOK(controls')
  /\ UNCHANGED <<open, used>>

(* The process dies and with it what it had in hand.                       *)
Lose ==
  /\ taken' = NoPermit
  /\ UNCHANGED <<controls, open, used>>

Tighten ==
  /\ \E c \in Controls, v \in Values :
       v < controls[c] /\ controls' = [controls EXCEPT ![c] = v]
  /\ PairOK(controls')
  /\ UNCHANGED <<open, taken, used>>

Next ==
  \/ Offer \/ Spoil \/ Expire \/ Withdraw \/ Take \/ Loosen \/ Lose \/ Tighten

Spec == Init /\ [][Next]_vars
=============================================================================
