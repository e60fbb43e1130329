----------------------- MODULE ConnectionBudgetProofs -----------------------
(***************************************************************************)
(* What holds of a connection's budget for any number of payments, edits,  *)
(* failed reloads and crashes.                                             *)
(*                                                                         *)
(* No change of the operator's is lost, because the nudge comes after the  *)
(* write and a reload that has read an older row leaves the nudge in the   *)
(* channel (Told).  The counter begins again no sooner than a period later *)
(* because an edit carries the moment of renewal over, and one that read   *)
(* it before a roll is told by that (Windows).  A correction is made once, *)
(* because only the call that closes the row owes it; a send may not       *)
(* outlast the age at which the resolver takes over (Corrections).  And no *)
(* request can spend past the budget, because the counter never holds less *)
(* than all the payments still have in it (Covered).                       *)
(***************************************************************************)
EXTENDS ConnectionBudget, FiniteSums, TLAPS

(* What a reload has read is the newest row, or another reload will come.  *)
Newest == [active |-> ~revoked, limits |-> limits]

Told ==
  /\ ~revoked => open
  /\ \A r \in reading, q \in reading : r = q
  /\ \A r \in reading : ~r.active => revoked
  /\ \A r \in reading : r = Newest \/ tell # {} \/ demand
  /\ NoChangeIsLost

(* The moment of renewal lies a period after the counter began; where      *)
(* there is none, nobody holds limits by which the counter would roll.     *)
NobodyRolls ==
  /\ limits.period = "none" /\ served.period = "none"
  /\ \A r \in reading : r.limits.period = "none"
  /\ \A p \in Payments : ~rolls[p]

Kept(moment) == moment # 0 /\ moment >= begun + Period

Windows ==
  /\ begun <= clock
  /\ ~loose => Kept(renews) \/ (renews = 0 /\ NobodyRolls)
  /\ form.open => form.from <= renews
  /\ form.open /\ ~loose /\ form.from = renews /\ form.limits.budget # NoLimit
       => Kept(form.renews)

(* Who owes a correction, and who may come to owe one.                     *)
Owes(p) == step[p] \in {"correct", "release"}
Ahead(p) == step[p] \in {"idle", "permitted", "measured", "charged", "reserved",
                         "sending"}

Corrections ==
  \A p \in Payments :
    /\ fixes[p] \in {0, 1}
    /\ Owes(p) \/ p \in due => fixes[p] = 0
    /\ ~(Owes(p) /\ p \in due)
    /\ Ahead(p) => fixes[p] = 0 /\ p \notin old /\ p \notin due
    /\ step[p] \in {"idle", "permitted", "measured", "charged"}
         => row[p] = "none" /\ fate[p] = "none"
    /\ step[p] = "reserved" => row[p] = "pending" /\ fate[p] = "none"
    /\ step[p] = "sending" => row[p] = "pending"
    /\ row[p] = "pending" /\ fate[p] # "none" => fixes[p] = 0 /\ ~Owes(p)
    /\ fate[p] = "inflight" => row[p] = "pending"
    /\ p \in due => row[p] # "pending"

(* Why a correction is of the right sign: who owes one knows the outcome,  *)
(* and an outcome is of a payment that has its row.                        *)
Outcomes ==
  \A p \in Payments :
    /\ step[p] = "correct" => fate[p] = "won"
    /\ step[p] = "release" => fate[p] \in {"none", "lost"}
    /\ p \in due => fate[p] \in {"won", "lost"} /\ row[p] = Outcome(p)
    /\ fate[p] # "none" => row[p] # "none"

(* What each payment has in the counter: its charge until it is corrected, *)
(* and what it really cost from then on.                                   *)
Charged(p) ==
  \/ step[p] \in {"charged", "reserved", "sending", "correct", "release"}
  \/ row[p] # "none"

Held(p) ==
  IF fixes[p] = 0 THEN (IF Charged(p) THEN Charge ELSE 0)
  ELSE IF fate[p] = "won" THEN Amount + fee[p] ELSE 0

Holdings == [p \in Payments |-> Held(p)]

Covered == window = 1 => SumFunctionOnSet(Holdings, Payments) <= used

-----------------------------------------------------------------------------
(* The values a form starts from, and the charge.                          *)
LEMMA Kinds ==
  /\ Unbounded \in Limits /\ Charge \in Nat
  /\ NoForm \in [open : BOOLEAN, limits : Limits, renews : Nat, from : Nat]
<1>1. Unbounded \in Limits
  BY DEF Unbounded, Limits, MaybeBudget
<1>2. Charge \in Nat
  BY BudgetAssumption DEF Charge
<1> QED
  BY <1>1, <1>2 DEF NoForm

(* What a route may cost is a number.                                      *)
LEMMA WholeFees ==
  ASSUME NEW f \in Fees \cup {0}
  PROVE  f \in Int
<1>1. Fees \subseteq 0..MaxFee
  BY BudgetAssumption
<1> QED
  BY <1>1

(* A correction, or one that could not be written, leaves numbers.         *)
LEMMA StepAdjust ==
  ASSUME TypeOK, NEW p \in Payments, NEW settled \in BOOLEAN, TryToAdjust(p, settled)
  PROVE  /\ used' \in Nat /\ fixes' \in [Payments -> Nat]
         /\ losses' \in 0..MaxFaults
<1> USE BudgetAssumption DEF TypeOK
<1>1. CASE AdjustBudget(p, settled) /\ UNCHANGED losses
  <2>1. fee[p] \in Int /\ MaxFee \in Int /\ Charge \in Int
    <3>1. fee[p] \in Fees \cup {0}
      OBVIOUS
    <3>2. fee[p] \in Int
      BY <3>1, WholeFees
    <3>3. MaxFee \in Int
      OBVIOUS
    <3>4. Charge \in Int
      BY Kinds
    <3> QED
      BY <3>2, <3>3, <3>4
  <2>2. BudgetCorrection(p, settled) \in Int
    BY <2>1 DEF BudgetCorrection
  <2> QED
    BY <1>1, <2>2 DEF AdjustBudget
<1>2. CASE misses + losses < MaxFaults /\ losses' = losses + 1 /\ UNCHANGED <<columns, fixes>>
  BY <1>2 DEF columns
<1> QED
  BY <1>1, <1>2 DEF TryToAdjust

(* Each step keeps the types.                                              *)
LEMMA StepTypeOK ==
  ASSUME TypeOK, [Next]_vars
  PROVE  TypeOK'
<1> USE BudgetAssumption DEF TypeOK, columns, service, operator, payments, bounds
<1>1. ASSUME NEW f \in Forms, EditRead(f) PROVE TypeOK'
  BY <1>1 DEF EditRead, Forms, WithDefault, KeptRenewal, Limits, MaybeBudget
<1>2. ASSUME EditWrite PROVE TypeOK'
  <2>1. form' = NoForm
    BY <1>2 DEF EditWrite
  <2>2. CASE UNCHANGED <<columns, tell>>
    BY <1>2, <2>1, <2>2, Kinds DEF EditWrite
  <2>3. CASE /\ limits' = form.limits /\ renews' = form.renews
             /\ loose' = (loose \/ form.limits.budget = NoLimit \/ form.from # renews)
             /\ tell' = tell \cup {"edit"}
             /\ UNCHANGED <<used, revoked, window, begun>>
    <3>1. loose' \in BOOLEAN
      BY <2>3
    <3> QED
      BY <1>2, <2>1, <2>3, <3>1, Kinds DEF EditWrite
  <2> QED
    BY <1>2, <2>2, <2>3 DEF EditWrite
<1>3. ASSUME Revoke PROVE TypeOK'
  BY <1>3 DEF Revoke
<1>4. ASSUME NEW t \in {"edit", "revoke"}, Nudge(t) PROVE TypeOK'
  BY <1>4 DEF Nudge
<1>5. ASSUME ReloadRead PROVE TypeOK'
  <2>1. [active |-> ~revoked, limits |-> limits] \in [active : BOOLEAN, limits : Limits]
    OBVIOUS
  <2>2. reading' \subseteq [active : BOOLEAN, limits : Limits]
    BY <1>5, <2>1 DEF ReloadRead
  <2>3. misses' \in 0..MaxFaults
    BY <1>5 DEF ReloadRead
  <2> QED
    BY <1>5, <2>2, <2>3 DEF ReloadRead
<1>6. ASSUME ReloadApply PROVE TypeOK'
  BY <1>6 DEF ReloadApply
<1>7. ASSUME NEW p \in Payments, Permit(p) PROVE TypeOK'
  BY <1>7 DEF Permit
<1>8. ASSUME NEW p \in Payments, Measure(p) PROVE TypeOK'
  BY <1>8 DEF Measure
<1>9. ASSUME NEW p \in Payments, ReserveBudget(p) PROVE TypeOK'
  <2>1. Counted(p) \in Nat /\ clock \in Nat /\ Period \in Nat
    BY DEF Counted
  <2>2. used' \in Nat
    BY <1>9, <2>1, Kinds DEF ReserveBudget
  <2>3. renews' \in Nat /\ window' \in Nat \ {0} /\ begun' \in Nat /\ loose' \in BOOLEAN
    <3>1. CASE Expired(p)
      <4>1. /\ renews' = clock + Period /\ window' = window + 1
            /\ begun' = clock /\ loose' = FALSE
        BY <1>9, <3>1 DEF ReserveBudget
      <4>2. renews' \in Nat /\ begun' \in Nat
        BY <2>1, <4>1
      <4>3. window' \in Nat \ {0}
        BY <4>1
      <4> QED
        BY <4>1, <4>2, <4>3
    <3>2. CASE ~Expired(p)
      BY <1>9, <3>2 DEF ReserveBudget
    <3> QED
      BY <3>1, <3>2
  <2>4. step' \in [Payments -> {"idle", "permitted", "measured", "charged", "reserved",
                            "sending", "correct", "release", "answered"}]
        /\ rolls' \in [Payments -> BOOLEAN]
    BY <1>9 DEF ReserveBudget
  <2> QED
    BY <1>9, <2>2, <2>3, <2>4 DEF ReserveBudget
<1>10. ASSUME NEW p \in Payments, RefuseBudget(p) PROVE TypeOK'
  BY <1>10 DEF RefuseBudget
<1>11. ASSUME NEW p \in Payments, WalletRefuses(p) PROVE TypeOK'
  BY <1>11 DEF WalletRefuses, Goto
<1>12. ASSUME NEW p \in Payments, WalletReserves(p) PROVE TypeOK'
  BY <1>12 DEF WalletReserves, Goto
<1>13. ASSUME NEW p \in Payments, MarkDispatched(p) PROVE TypeOK'
  BY <1>13 DEF MarkDispatched, Goto
<1>14. ASSUME NEW p \in Payments, NotSent(p) PROVE TypeOK'
  BY <1>14 DEF NotSent, Goto
<1>15. ASSUME NEW p \in Payments, TerminalAnswer(p) PROVE TypeOK'
  BY <1>15 DEF TerminalAnswer, Goto, Closes, Outcome, Unbooked
<1>16. ASSUME NEW p \in Payments, Correct(p) PROVE TypeOK'
  <2>1. used' \in Nat /\ fixes' \in [Payments -> Nat] /\ losses' \in 0..MaxFaults
    BY <1>16, StepAdjust DEF Correct
  <2> QED
    BY <1>16, <2>1 DEF Correct, Goto, TryToAdjust, AdjustBudget
<1>17. ASSUME NEW p \in Payments, Unknown(p) PROVE TypeOK'
  BY <1>17 DEF Unknown, Goto
<1>18. ASSUME NEW p \in Payments, Resolve(p) PROVE TypeOK'
  BY <1>18 DEF Resolve, Closes, Outcome
<1>19. ASSUME NEW p \in Payments, CorrectResolved(p) PROVE TypeOK'
  <2>1. used' \in Nat /\ fixes' \in [Payments -> Nat] /\ losses' \in 0..MaxFaults
    BY <1>19, StepAdjust DEF CorrectResolved
  <2> QED
    BY <1>19, <2>1 DEF CorrectResolved, TryToAdjust, AdjustBudget
<1>20. ASSUME NEW p \in Payments, CloseWithoutNode(p) PROVE TypeOK'
  BY <1>20 DEF CloseWithoutNode, Closes
<1>21. ASSUME NEW p \in Payments, NodeTakes(p) PROVE TypeOK'
  BY <1>21 DEF NodeTakes
<1>22. ASSUME NEW p \in Payments, NodeEnds(p) PROVE TypeOK'
  BY <1>22 DEF NodeEnds
<1>23. ASSUME NEW p \in Payments, Age(p) PROVE TypeOK'
  BY <1>23 DEF Age
<1>24. ASSUME Tick PROVE TypeOK'
  BY <1>24 DEF Tick
<1>25. ASSUME Restart PROVE TypeOK'
  <2>1. /\ form' \in [open : BOOLEAN, limits : Limits, renews : Nat, from : Nat]
        /\ tell' = {} /\ demand' = FALSE /\ reading' = {} /\ edits' = edits
        /\ UNCHANGED columns
    BY <1>25, Kinds DEF Restart
  <2>2. open' \in BOOLEAN /\ served' \in Limits
    BY <1>25 DEF Restart
  <2>3. /\ step' \in [Payments -> {"idle", "permitted", "measured", "charged", "reserved",
                                 "sending", "correct", "release", "answered"}]
        /\ rolls' \in [Payments -> BOOLEAN]
    BY <1>25 DEF Restart
  <2>4. /\ old' \subseteq Payments /\ due' = {} /\ UNCHANGED <<row, marked, fate, fee, fixes>>
        /\ clock' = clock /\ misses' = misses /\ losses' \in 0..MaxFaults
    BY <1>25 DEF Restart
  <2> QED
    BY <2>1, <2>2, <2>3, <2>4
<1>26. CASE UNCHANGED vars
  BY <1>26 DEF vars
<1> QED
  BY <1>1, <1>2, <1>3, <1>4, <1>5, <1>6, <1>7, <1>8, <1>9, <1>10, <1>11, <1>12,
     <1>13, <1>14, <1>15, <1>16, <1>17, <1>18, <1>19, <1>20, <1>21, <1>22,
     <1>23, <1>24, <1>25, <1>26
     DEF Next, Reload, Ladder, Recovery

-----------------------------------------------------------------------------
(* Most steps of a payment and of the node leave row, service and operator *)
(* as they are.                                                            *)
Quiet ==
  /\ UNCHANGED <<limits, renews, revoked, window, begun, loose, service, operator,
                 misses>>
  /\ \A p \in Payments : rolls'[p] => rolls[p]
  /\ clock' >= clock

Loud ==
  \/ \E f \in Forms : EditRead(f)
  \/ EditWrite \/ Revoke
  \/ \E t \in {"edit", "revoke"} : Nudge(t)
  \/ ReloadRead \/ ReloadApply
  \/ \E p \in Payments : Measure(p) \/ ReserveBudget(p)
  \/ Restart

LEMMA LoudOrQuiet ==
  ASSUME TypeOK, [Next]_vars
  PROVE  Loud \/ Quiet
<1> USE BudgetAssumption DEF TypeOK, Quiet, columns, service, operator, payments, bounds
<1>1. ASSUME NEW p \in Payments, Permit(p) PROVE Quiet
  BY <1>1 DEF Permit
<1>2. ASSUME NEW p \in Payments, RefuseBudget(p) PROVE Quiet
  BY <1>2 DEF RefuseBudget
<1>3. ASSUME NEW p \in Payments, WalletRefuses(p) PROVE Quiet
  BY <1>3 DEF WalletRefuses
<1>4. ASSUME NEW p \in Payments, WalletReserves(p) PROVE Quiet
  BY <1>4 DEF WalletReserves
<1>5. ASSUME NEW p \in Payments, MarkDispatched(p) PROVE Quiet
  BY <1>5 DEF MarkDispatched
<1>6. ASSUME NEW p \in Payments, NotSent(p) PROVE Quiet
  BY <1>6 DEF NotSent
<1>7. ASSUME NEW p \in Payments, TerminalAnswer(p) PROVE Quiet
  BY <1>7 DEF TerminalAnswer
<1>8. ASSUME NEW p \in Payments, Correct(p) PROVE Quiet
  BY <1>8 DEF Correct, TryToAdjust, AdjustBudget
<1>9. ASSUME NEW p \in Payments, Unknown(p) PROVE Quiet
  BY <1>9 DEF Unknown
<1>10. ASSUME NEW p \in Payments, Resolve(p) PROVE Quiet
  BY <1>10 DEF Resolve
<1>11. ASSUME NEW p \in Payments, CorrectResolved(p) PROVE Quiet
  BY <1>11 DEF CorrectResolved, TryToAdjust, AdjustBudget
<1>12. ASSUME NEW p \in Payments, CloseWithoutNode(p) PROVE Quiet
  BY <1>12 DEF CloseWithoutNode
<1>13. ASSUME NEW p \in Payments, NodeTakes(p) PROVE Quiet
  BY <1>13 DEF NodeTakes
<1>14. ASSUME NEW p \in Payments, NodeEnds(p) PROVE Quiet
  BY <1>14 DEF NodeEnds
<1>15. ASSUME NEW p \in Payments, Age(p) PROVE Quiet
  BY <1>15 DEF Age
<1>16. ASSUME Tick PROVE Quiet
  BY <1>16 DEF Tick
<1>17. CASE UNCHANGED vars
  BY <1>17 DEF vars
<1> QED
  BY <1>1, <1>2, <1>3, <1>4, <1>5, <1>6, <1>7, <1>8, <1>9, <1>10, <1>11, <1>12,
     <1>13, <1>14, <1>15, <1>16, <1>17
     DEF Next, Reload, Ladder, Recovery, Loud

-----------------------------------------------------------------------------
(* Every step keeps what the operator wrote on its way to the service.     *)
LEMMA StepTold ==
  ASSUME TypeOK, Told, [Next]_vars
  PROVE  Told'
<1> USE DEF TypeOK, Told, NoChangeIsLost, Behind, Newest, columns, service, operator, payments,
            bounds
<1>1. ASSUME NEW f \in Forms, EditRead(f) PROVE Told'
  BY <1>1 DEF EditRead
<1>2. ASSUME EditWrite PROVE Told'
  BY <1>2 DEF EditWrite
<1>3. ASSUME Revoke PROVE Told'
  BY <1>3 DEF Revoke
<1>4. ASSUME NEW t \in {"edit", "revoke"}, Nudge(t) PROVE Told'
  BY <1>4 DEF Nudge
<1>5. ASSUME ReloadRead PROVE Told'
  BY <1>5, BudgetAssumption DEF ReloadRead
<1>6. ASSUME ReloadApply PROVE Told'
  <2>1. PICK r \in reading : /\ open' = (open /\ r.active)
                            /\ served' = IF open' THEN r.limits ELSE served
    BY <1>6 DEF ReloadApply
  <2>2. /\ reading' = {} /\ tell' = tell /\ demand' = demand /\ misses' = misses
        /\ limits' = limits /\ revoked' = revoked
    BY <1>6 DEF ReloadApply
  <2>3. CASE r = Newest
    BY <2>1, <2>2, <2>3
  <2>4. CASE r # Newest
    <3>1. tell # {} \/ demand
      BY <2>1, <2>4
    <3>2. ~revoked => r.active
      BY <2>1
    <3> QED
      BY <2>1, <2>2, <3>1, <3>2
  <2> QED
    BY <2>3, <2>4
<1>7. ASSUME NEW p \in Payments, Measure(p) PROVE Told'
  BY <1>7 DEF Measure
<1>8. ASSUME NEW p \in Payments, ReserveBudget(p) PROVE Told'
  BY <1>8 DEF ReserveBudget
<1>9. ASSUME Restart PROVE Told'
  BY <1>9 DEF Restart
<1>10. ASSUME Quiet PROVE Told'
  BY <1>10 DEF Quiet
<1> QED
  BY <1>1, <1>2, <1>3, <1>4, <1>5, <1>6, <1>7, <1>8, <1>9, <1>10, LoudOrQuiet DEF Loud

-----------------------------------------------------------------------------
(* Every step keeps the moment of renewal a period away.                   *)
LEMMA StepWindows ==
  ASSUME TypeOK, Windows, [Next]_vars
  PROVE  Windows'
<1> USE BudgetAssumption DEF TypeOK, Windows, Kept, NobodyRolls, columns, service,
            operator, payments, bounds
<1>1. ASSUME NEW f \in Forms, EditRead(f) PROVE Windows'
  BY <1>1 DEF EditRead, KeptRenewal
<1>2. ASSUME EditWrite PROVE Windows'
  BY <1>2 DEF EditWrite, NoForm
<1>3. ASSUME Revoke PROVE Windows'
  BY <1>3 DEF Revoke
<1>4. ASSUME NEW t \in {"edit", "revoke"}, Nudge(t) PROVE Windows'
  BY <1>4 DEF Nudge
<1>5. ASSUME ReloadRead PROVE Windows'
  BY <1>5 DEF ReloadRead
<1>6. ASSUME ReloadApply PROVE Windows'
  BY <1>6 DEF ReloadApply
<1>7. ASSUME NEW p \in Payments, Measure(p) PROVE Windows'
  BY <1>7 DEF Measure
<1>8. ASSUME NEW p \in Payments, ReserveBudget(p) PROVE Windows'
  <2>1. UNCHANGED <<limits, form, clock, served, reading>>
    BY <1>8 DEF ReserveBudget
  <2>2. rolls' \in [Payments -> BOOLEAN] /\ \A q \in Payments : rolls'[q] => rolls[q]
    BY <1>8 DEF ReserveBudget
  <2>3. CASE Expired(p)
    <3>1. renews' = clock + Period /\ begun' = clock /\ loose' = FALSE
      BY <1>8, <2>3 DEF ReserveBudget
    <3>2. renews < renews'
      BY <2>3, <3>1 DEF Expired
    <3> QED
      BY <2>1, <3>1, <3>2
  <2>4. CASE ~Expired(p)
    <3>1. UNCHANGED <<renews, begun, loose>>
      BY <1>8, <2>4 DEF ReserveBudget
    <3> QED
      BY <2>1, <2>2, <3>1
  <2> QED
    BY <2>3, <2>4
<1>9. ASSUME Restart PROVE Windows'
  BY <1>9 DEF Restart, NoForm
<1>10. ASSUME Quiet PROVE Windows'
  <2>1. /\ UNCHANGED <<limits, renews, begun, loose, form, served, reading>>
        /\ clock' >= clock /\ \A p \in Payments : rolls'[p] => rolls[p]
    BY <1>10 DEF Quiet
  <2>2. clock' \in Nat
    BY StepTypeOK
  <2> QED
    BY <2>1, <2>2
<1> QED
  BY <1>1, <1>2, <1>3, <1>4, <1>5, <1>6, <1>7, <1>8, <1>9, <1>10, LoudOrQuiet DEF Loud

(* A step that begins the counter again comes a period after the last one. *)
LEMMA StepNoEarlyWindow ==
  ASSUME TypeOK, Windows, [Next]_vars
  PROVE  window' # window /\ ~loose => clock >= begun + Period
<1> USE BudgetAssumption DEF TypeOK, Windows, Kept, NobodyRolls, columns, service,
            operator, payments, bounds
<1>1. ASSUME NEW p \in Payments, ReserveBudget(p), window' # window, ~loose
      PROVE  clock >= begun + Period
  BY <1>1 DEF ReserveBudget, Expired
<1>2. ASSUME Loud, window' # window
      PROVE  \E p \in Payments : ReserveBudget(p)
  BY <1>2 DEF Loud, EditRead, EditWrite, Revoke, Nudge, ReloadRead, ReloadApply, Measure,
              Restart
<1>3. ASSUME Quiet PROVE window' = window
  BY <1>3 DEF Quiet
<1> QED
  BY <1>1, <1>2, <1>3, LoudOrQuiet

-----------------------------------------------------------------------------
(* Every step keeps the correction with one party, if no send outlasts the *)
(* age at which the resolver takes its row over.                           *)
LEMMA StepCorrections ==
  ASSUME TypeOK, ~SlowSends, Corrections, [Next]_vars
  PROVE  Corrections'
<1> USE DEF TypeOK, Corrections, Owes, Ahead, columns, service, operator, payments,
            bounds, vars
<1>1. ASSUME NEW p \in Payments, Permit(p) PROVE Corrections'
  BY <1>1 DEF Permit
<1>2. ASSUME NEW p \in Payments, Measure(p) PROVE Corrections'
  BY <1>2 DEF Measure
<1>3. ASSUME NEW p \in Payments, ReserveBudget(p) PROVE Corrections'
  BY <1>3 DEF ReserveBudget
<1>4. ASSUME NEW p \in Payments, RefuseBudget(p) PROVE Corrections'
  BY <1>4 DEF RefuseBudget
<1>5. ASSUME NEW p \in Payments, WalletRefuses(p) PROVE Corrections'
  BY <1>5 DEF WalletRefuses, Goto
<1>6. ASSUME NEW p \in Payments, WalletReserves(p) PROVE Corrections'
  BY <1>6 DEF WalletReserves, Goto
<1>7. ASSUME NEW p \in Payments, MarkDispatched(p) PROVE Corrections'
  BY <1>7 DEF MarkDispatched, Goto
<1>8. ASSUME NEW p \in Payments, NotSent(p) PROVE Corrections'
  BY <1>8 DEF NotSent, Goto
<1>9. ASSUME NEW p \in Payments, TerminalAnswer(p) PROVE Corrections'
  BY <1>9 DEF TerminalAnswer, Goto, Closes, Outcome, Unbooked
<1>10. ASSUME NEW p \in Payments, Correct(p) PROVE Corrections'
  BY <1>10 DEF Correct, Goto, TryToAdjust, AdjustBudget
<1>11. ASSUME NEW p \in Payments, Unknown(p) PROVE Corrections'
  BY <1>11 DEF Unknown, Goto
<1>12. ASSUME NEW p \in Payments, Resolve(p) PROVE Corrections'
  BY <1>12 DEF Resolve, Closes, Outcome
<1>13. ASSUME NEW p \in Payments, CorrectResolved(p) PROVE Corrections'
  BY <1>13 DEF CorrectResolved, TryToAdjust, AdjustBudget
<1>14. ASSUME NEW p \in Payments, CloseWithoutNode(p) PROVE Corrections'
  BY <1>14 DEF CloseWithoutNode, Closes
<1>15. ASSUME NEW p \in Payments, NodeTakes(p) PROVE Corrections'
  BY <1>15 DEF NodeTakes
<1>16. ASSUME NEW p \in Payments, NodeEnds(p) PROVE Corrections'
  BY <1>16 DEF NodeEnds
<1>17. ASSUME NEW p \in Payments, Age(p) PROVE Corrections'
  BY <1>17 DEF Age
<1>18. ASSUME Restart PROVE Corrections'
  BY <1>18 DEF Restart
<1>19. ASSUME UNCHANGED <<step, payments>> PROVE Corrections'
  BY <1>19
<1> QED
  BY <1>1, <1>2, <1>3, <1>4, <1>5, <1>6, <1>7, <1>8, <1>9, <1>10, <1>11, <1>12,
     <1>13, <1>14, <1>15, <1>16, <1>17, <1>18, <1>19
     DEF Next, Reload, Ladder, Recovery, EditRead, EditWrite, Revoke, Nudge, ReloadRead,
         ReloadApply, Tick

(* A closed row keeps its correction within reach.                         *)
LEMMA StepNoCorrectionIsLost ==
  ASSUME TypeOK, ~SlowSends, Corrections, NoCorrectionIsLost, [Next]_vars
  PROVE  NoCorrectionIsLost'
<1> USE DEF TypeOK, Corrections, NoCorrectionIsLost, Owes, Ahead, columns, service,
            operator, payments, bounds, vars
<1>1. ASSUME NEW p \in Payments, Permit(p) PROVE NoCorrectionIsLost'
  BY <1>1 DEF Permit
<1>2. ASSUME NEW p \in Payments, Measure(p) PROVE NoCorrectionIsLost'
  BY <1>2 DEF Measure
<1>3. ASSUME NEW p \in Payments, ReserveBudget(p) PROVE NoCorrectionIsLost'
  BY <1>3 DEF ReserveBudget
<1>4. ASSUME NEW p \in Payments, RefuseBudget(p) PROVE NoCorrectionIsLost'
  BY <1>4 DEF RefuseBudget
<1>5. ASSUME NEW p \in Payments, WalletRefuses(p) PROVE NoCorrectionIsLost'
  BY <1>5 DEF WalletRefuses, Goto
<1>6. ASSUME NEW p \in Payments, WalletReserves(p) PROVE NoCorrectionIsLost'
  BY <1>6 DEF WalletReserves, Goto
<1>7. ASSUME NEW p \in Payments, MarkDispatched(p) PROVE NoCorrectionIsLost'
  BY <1>7 DEF MarkDispatched, Goto
<1>8. ASSUME NEW p \in Payments, NotSent(p) PROVE NoCorrectionIsLost'
  BY <1>8 DEF NotSent, Goto
<1>9. ASSUME NEW p \in Payments, TerminalAnswer(p) PROVE NoCorrectionIsLost'
  BY <1>9 DEF TerminalAnswer, Goto, Closes, Outcome, Unbooked
<1>10. ASSUME NEW p \in Payments, Correct(p) PROVE NoCorrectionIsLost'
  BY <1>10 DEF Correct, Goto, TryToAdjust, AdjustBudget
<1>11. ASSUME NEW p \in Payments, Unknown(p) PROVE NoCorrectionIsLost'
  BY <1>11 DEF Unknown, Goto
<1>12. ASSUME NEW p \in Payments, Resolve(p) PROVE NoCorrectionIsLost'
  BY <1>12 DEF Resolve, Closes, Outcome
<1>13. ASSUME NEW p \in Payments, CorrectResolved(p) PROVE NoCorrectionIsLost'
  BY <1>13 DEF CorrectResolved, TryToAdjust, AdjustBudget
<1>14. ASSUME NEW p \in Payments, CloseWithoutNode(p) PROVE NoCorrectionIsLost'
  BY <1>14 DEF CloseWithoutNode, Closes
<1>15. ASSUME NEW p \in Payments, NodeTakes(p) PROVE NoCorrectionIsLost'
  BY <1>15 DEF NodeTakes
<1>16. ASSUME NEW p \in Payments, NodeEnds(p) PROVE NoCorrectionIsLost'
  BY <1>16 DEF NodeEnds
<1>17. ASSUME NEW p \in Payments, Age(p) PROVE NoCorrectionIsLost'
  BY <1>17 DEF Age
<1>18. ASSUME Restart PROVE NoCorrectionIsLost'
  BY <1>18 DEF Restart
<1>19. ASSUME UNCHANGED <<step, payments, losses>> PROVE NoCorrectionIsLost'
  BY <1>19
<1> QED
  BY <1>1, <1>2, <1>3, <1>4, <1>5, <1>6, <1>7, <1>8, <1>9, <1>10, <1>11, <1>12,
     <1>13, <1>14, <1>15, <1>16, <1>17, <1>18, <1>19
     DEF Next, Reload, Ladder, Recovery, EditRead, EditWrite, Revoke, Nudge, ReloadRead,
         ReloadApply, Tick

-----------------------------------------------------------------------------
(* Every step keeps the outcomes that corrections go by.                   *)
LEMMA StepOutcomes ==
  ASSUME TypeOK, ~SlowSends, Corrections, Outcomes, [Next]_vars
  PROVE  Outcomes'
<1> USE DEF TypeOK, Corrections, Outcomes, Owes, Ahead, Outcome, columns, service, operator,
            payments, bounds, vars
<1>1. ASSUME NEW p \in Payments, Permit(p) PROVE Outcomes'
  BY <1>1 DEF Permit
<1>2. ASSUME NEW p \in Payments, Measure(p) PROVE Outcomes'
  BY <1>2 DEF Measure
<1>3. ASSUME NEW p \in Payments, ReserveBudget(p) PROVE Outcomes'
  BY <1>3 DEF ReserveBudget
<1>4. ASSUME NEW p \in Payments, RefuseBudget(p) PROVE Outcomes'
  BY <1>4 DEF RefuseBudget
<1>5. ASSUME NEW p \in Payments, WalletRefuses(p) PROVE Outcomes'
  BY <1>5 DEF WalletRefuses, Goto
<1>6. ASSUME NEW p \in Payments, WalletReserves(p) PROVE Outcomes'
  BY <1>6 DEF WalletReserves, Goto
<1>7. ASSUME NEW p \in Payments, MarkDispatched(p) PROVE Outcomes'
  BY <1>7 DEF MarkDispatched, Goto
<1>8. ASSUME NEW p \in Payments, NotSent(p) PROVE Outcomes'
  BY <1>8 DEF NotSent, Goto
<1>9. ASSUME NEW p \in Payments, TerminalAnswer(p) PROVE Outcomes'
  BY <1>9 DEF TerminalAnswer, Goto, Closes, Outcome, Unbooked
<1>10. ASSUME NEW p \in Payments, Correct(p) PROVE Outcomes'
  BY <1>10 DEF Correct, Goto, TryToAdjust, AdjustBudget
<1>11. ASSUME NEW p \in Payments, Unknown(p) PROVE Outcomes'
  BY <1>11 DEF Unknown, Goto
<1>12. ASSUME NEW p \in Payments, Resolve(p) PROVE Outcomes'
  BY <1>12 DEF Resolve, Closes, Outcome
<1>13. ASSUME NEW p \in Payments, CorrectResolved(p) PROVE Outcomes'
  BY <1>13 DEF CorrectResolved, TryToAdjust, AdjustBudget, Outcome
<1>14. ASSUME NEW p \in Payments, CloseWithoutNode(p) PROVE Outcomes'
  BY <1>14 DEF CloseWithoutNode, Closes, Outcome
<1>15. ASSUME NEW p \in Payments, NodeTakes(p) PROVE Outcomes'
  BY <1>15 DEF NodeTakes
<1>16. ASSUME NEW p \in Payments, NodeEnds(p) PROVE Outcomes'
  BY <1>16 DEF NodeEnds
<1>17. ASSUME NEW p \in Payments, Age(p) PROVE Outcomes'
  BY <1>17 DEF Age
<1>18. ASSUME Restart PROVE Outcomes'
  BY <1>18 DEF Restart
<1>19. ASSUME UNCHANGED <<step, payments>> PROVE Outcomes'
  BY <1>19
<1> QED
  BY <1>1, <1>2, <1>3, <1>4, <1>5, <1>6, <1>7, <1>8, <1>9, <1>10, <1>11,
     <1>12, <1>13, <1>14, <1>15, <1>16, <1>17, <1>18, <1>19
     DEF Next, Reload, Ladder, Recovery, EditRead, EditWrite, Revoke, Nudge, ReloadRead,
         ReloadApply, Tick

(* A route costs no more than the fee reserve.                             *)
LEMMA FeesInReserve == TypeOK => \A p \in Payments : fee[p] \in 0..MaxFee
<1> SUFFICES ASSUME TypeOK, NEW p \in Payments PROVE fee[p] \in 0..MaxFee
  OBVIOUS
<1>1. fee[p] \in Fees \cup {0}
  BY DEF TypeOK
<1>2. Fees \cup {0} \subseteq 0..MaxFee
  BY BudgetAssumption
<1> QED BY <1>1, <1>2

(* What a payment has in the counter is a number, and at least what it has *)
(* cost or may still cost.                                                 *)
LEMMA HoldingsTyped ==
  TypeOK => \A p \in Payments : Held(p) \in Nat /\ Holdings[p] = Held(p)
<1> SUFFICES ASSUME TypeOK, NEW p \in Payments PROVE Held(p) \in Nat
  BY DEF Holdings
<1>1. fee[p] \in 0..MaxFee /\ Amount \in Nat /\ Charge \in Nat
  BY Kinds, FeesInReserve, BudgetAssumption
<1> QED BY <1>1 DEF Held

LEMMA HoldingsCover ==
  ASSUME TypeOK, Corrections, Outcomes, NEW p \in Payments
  PROVE  Committed(p) \in Nat /\ Committed(p) <= Held(p)
<1>1. fee[p] \in 0..MaxFee /\ Amount \in Nat /\ MaxFee \in Nat /\ Charge = Amount + MaxFee
  BY BudgetAssumption, FeesInReserve DEF Charge
<1> QED BY <1>1 DEF TypeOK, Corrections, Outcomes, Committed, Held, Charged, Ahead

(* The steps that charge nothing and correct nothing take nothing out of   *)
(* the counter.                                                            *)
Falls ==
  /\ UNCHANGED <<used, window, fixes>>
  /\ \A p \in Payments :
       /\ Charged(p)' => Charged(p)
       /\ fixes[p] # 0 => fate'[p] = fate[p] /\ fee'[p] = fee[p]

LEMMA ChargeOrFall ==
  ASSUME TypeOK, ~SlowSends, Corrections, Outcomes, [Next]_vars
  PROVE  \/ Falls
         \/ \E p \in Payments : ReserveBudget(p) \/ Correct(p) \/ CorrectResolved(p)
<1> USE DEF TypeOK, Corrections, Falls, Charged, Owes, Ahead, columns, service, operator,
            payments, bounds, vars
<1>1. ASSUME NEW p \in Payments, Permit(p) PROVE Falls
  BY <1>1 DEF Permit
<1>2. ASSUME NEW p \in Payments, Measure(p) PROVE Falls
  BY <1>2 DEF Measure
<1>3. ASSUME NEW p \in Payments, RefuseBudget(p) PROVE Falls
  BY <1>3 DEF RefuseBudget
<1>4. ASSUME NEW p \in Payments, WalletRefuses(p) PROVE Falls
  BY <1>4 DEF WalletRefuses, Goto
<1>5. ASSUME NEW p \in Payments, WalletReserves(p) PROVE Falls
  BY <1>5 DEF WalletReserves, Goto
<1>6. ASSUME NEW p \in Payments, MarkDispatched(p) PROVE Falls
  BY <1>6 DEF MarkDispatched, Goto
<1>7. ASSUME NEW p \in Payments, NotSent(p) PROVE Falls
  BY <1>7 DEF NotSent, Goto
<1>8. ASSUME NEW p \in Payments, TerminalAnswer(p) PROVE Falls
  BY <1>8 DEF TerminalAnswer, Goto, Closes, Outcome, Unbooked
<1>9. ASSUME NEW p \in Payments, Unknown(p) PROVE Falls
  BY <1>9 DEF Unknown, Goto
<1>10. ASSUME NEW p \in Payments, Resolve(p) PROVE Falls
  BY <1>10 DEF Resolve, Closes, Outcome
<1>11. ASSUME NEW p \in Payments, CloseWithoutNode(p) PROVE Falls
  BY <1>11 DEF CloseWithoutNode, Closes, Outcome
<1>12. ASSUME NEW p \in Payments, NodeTakes(p) PROVE Falls
  BY <1>12 DEF NodeTakes
<1>13. ASSUME NEW p \in Payments, NodeEnds(p) PROVE Falls
  BY <1>13 DEF NodeEnds
<1>14. ASSUME NEW p \in Payments, Age(p) PROVE Falls
  BY <1>14 DEF Age
<1>15. ASSUME Restart PROVE Falls
  BY <1>15 DEF Restart
<1>16. ASSUME UNCHANGED <<step, payments, used, window>> PROVE Falls
  BY <1>16
<1> QED
  BY <1>1, <1>2, <1>3, <1>4, <1>5, <1>6, <1>7, <1>8, <1>9, <1>10, <1>11,
     <1>12, <1>13, <1>14, <1>15, <1>16
     DEF Next, Reload, Ladder, Recovery, EditRead, EditWrite, Revoke, Nudge, ReloadRead,
         ReloadApply, Tick

(* A correction takes as much out of the counter as it takes from what the *)
(* payment has in it, or stops at zero.                                    *)
LEMMA AdjustMoves ==
  ASSUME TypeOK, Corrections, Outcomes, NEW p \in Payments, NEW settled \in BOOLEAN,
         AdjustBudget(p, settled), fixes[p] = 0, Charged(p), UNCHANGED <<fate, fee>>,
         settled <=> fate[p] = "won",
         \A q \in Payments \ {p} : step'[q] = step[q] /\ row'[q] = row[q]
  PROVE  /\ Held(p)' = Held(p) + BudgetCorrection(p, settled)
         /\ \A q \in Payments \ {p} : Held(q)' = Held(q)
         /\ BudgetCorrection(p, settled) \in Int
         /\ used' >= used + BudgetCorrection(p, settled)
<1>1. fee[p] \in 0..MaxFee /\ Amount \in Nat /\ MaxFee \in Nat /\ Charge = Amount + MaxFee
      /\ used \in Nat
  <2>1. fee[p] \in 0..MaxFee
    BY FeesInReserve
  <2> QED BY <2>1, BudgetAssumption DEF TypeOK, Charge
<1>2. fixes' = [fixes EXCEPT ![p] = 1]
  BY DEF AdjustBudget, TypeOK
<1>3. Held(p) = Charge /\ Held(p)' = IF settled THEN Amount + fee[p] ELSE 0
  BY <1>2 DEF Held, TypeOK
<1>4. \A q \in Payments \ {p} : Held(q)' = Held(q)
  BY <1>2 DEF Held, Charged, TypeOK
<1>5. BudgetCorrection(p, settled) \in Int
      /\ BudgetCorrection(p, settled) = IF settled THEN fee[p] - MaxFee ELSE -Charge
  BY <1>1 DEF BudgetCorrection
<1>6. used' >= used + BudgetCorrection(p, settled)
  BY <1>1, <1>5 DEF AdjustBudget
<1> QED BY <1>1, <1>3, <1>4, <1>5, <1>6

(* Every step leaves in the counter what the payments have in it.          *)
LEMMA StepCovered ==
  ASSUME IsFiniteSet(Payments), TypeOK, ~SlowSends, Corrections, Outcomes, Covered,
         [Next]_vars
  PROVE  Covered'
<1> DEFINE Total == SumFunctionOnSet(Holdings, Payments)
<1>0. /\ Covered <=> (window = 1 => Total <= used)
      /\ Covered' <=> (window' = 1 => Total' <= used')
  BY DEF Covered
<1>1. TypeOK' /\ Corrections' /\ Outcomes'
  BY StepTypeOK, StepCorrections, StepOutcomes
<1>2. /\ \A p \in Payments : Held(p) \in Nat /\ Holdings[p] = Held(p)
      /\ \A p \in Payments : Held(p)' \in Nat /\ Holdings'[p] = Held(p)'
  <2>1. (\A p \in Payments : Held(p) \in Nat /\ Holdings[p] = Held(p))'
    BY <1>1, HoldingsTyped, PTL
  <2> QED BY <2>1, HoldingsTyped
<1>3. Total \in Nat /\ Total' \in Nat /\ used \in Nat /\ used' \in Nat
  <2>1. Total \in Nat /\ Total' \in Nat
    BY <1>2, SumIsNat
  <2> QED BY <1>1, <2>1 DEF TypeOK
<1>4. ASSUME NEW p \in Payments, \A q \in Payments \ {p} : Held(q)' = Held(q)
      PROVE  Total' = Total - Held(p) + Held(p)'
  BY <1>2, <1>4, SumMoves
<1>5. CASE Falls
  <2>1. \A p \in Payments : Held(p)' <= Held(p)
    <3>1. Charge \in Nat
      BY Kinds
    <3> QED BY <1>2, <1>5, <3>1 DEF Falls, Held, Charge
  <2>2. Total' <= Total
    BY <1>2, <2>1, SumGrows
  <2> HIDE DEF Total
  <2>3. used' = used /\ window' = window
    BY <1>5 DEF Falls
  <2> QED BY <1>0, <1>3, <2>2, <2>3
<1>6. ASSUME NEW p \in Payments, ReserveBudget(p) PROVE Covered'
  <2> SUFFICES ASSUME window' = 1 PROVE Total' <= used'
    BY DEF Covered
  <2>1. window = 1 /\ used' = used + Charge
    BY <1>6 DEF ReserveBudget, Counted, TypeOK
  <2>2. \A q \in Payments \ {p} : Held(q)' = Held(q)
    BY <1>6 DEF ReserveBudget, Held, Charged, payments, TypeOK
  <2>3. Held(p) = 0 /\ Held(p)' = Charge
    BY <1>6 DEF ReserveBudget, Held, Charged, payments, TypeOK, Corrections, Ahead
  <2>4. Total' = Total - Held(p) + Held(p)'
    BY <1>4, <2>2
  <2>5. Charge \in Nat
    BY Kinds
  <2> HIDE DEF Total
  <2> QED BY <1>0, <1>3, <2>1, <2>3, <2>4, <2>5
<1>7. ASSUME NEW p \in Payments, Correct(p) \/ CorrectResolved(p) PROVE Covered'
  <2> DEFINE settled == IF Correct(p) THEN step[p] = "correct" ELSE row[p] = "settled"
  <2>1. CASE AdjustBudget(p, settled)
    <3>1. fixes[p] = 0 /\ Charged(p) /\ UNCHANGED <<fate, fee>>
      BY <1>7 DEF Correct, CorrectResolved, Corrections, Outcomes, Owes, Charged, Outcome
    <3>2. settled \in BOOLEAN /\ (settled <=> fate[p] = "won")
      BY <1>7 DEF Correct, CorrectResolved, Outcomes, Outcome
    <3>3. \A q \in Payments \ {p} : step'[q] = step[q] /\ row'[q] = row[q]
      BY <1>7 DEF Correct, CorrectResolved, Goto, TypeOK
    <3>4. /\ Held(p)' = Held(p) + BudgetCorrection(p, settled)
          /\ \A q \in Payments \ {p} : Held(q)' = Held(q)
          /\ BudgetCorrection(p, settled) \in Int
          /\ used' >= used + BudgetCorrection(p, settled)
      <4> HIDE DEF settled
      <4> QED BY <2>1, <3>1, <3>2, <3>3, AdjustMoves
    <3>5. Total' = Total - Held(p) + Held(p)'
      BY <1>4, <3>4
    <3>6. window' = window /\ Held(p) \in Nat
      BY <1>2, <2>1 DEF AdjustBudget
    <3> HIDE DEF Total, settled
    <3> QED BY <1>0, <1>3, <3>4, <3>5, <3>6
  <2>2. CASE UNCHANGED <<columns, fixes>>
    <3>1. Falls
      BY <1>7, <2>2 DEF Falls, Correct, CorrectResolved, Charged, Goto, TypeOK, columns
    <3> QED BY <1>5, <3>1
  <2> QED BY <1>7, <2>1, <2>2 DEF Correct, CorrectResolved, TryToAdjust
<1> QED BY <1>5, <1>6, <1>7, ChargeOrFall

(* A step that charges finds room for the charge beside all the payments   *)
(* have cost or may still cost.                                            *)
LEMMA StepCharges ==
  ASSUME IsFiniteSet(Payments), TypeOK, Corrections, Outcomes, Covered, [Next]_vars,
         NEW p \in Payments, step[p] = "measured", step'[p] = "charged"
  PROVE  /\ ~revoked
         /\ window' = 1 /\ limits.budget # NoLimit =>
              SumFunction([q \in Payments |-> Committed(q)]) + Charge <= limits.budget
<1>1. ReserveBudget(p)
  BY DEF TypeOK, Next, Reload, Ladder, Recovery, EditRead, EditWrite, Revoke, Nudge, ReloadRead,
         ReloadApply, Tick, Permit, Measure, RefuseBudget, WalletRefuses, WalletReserves,
         MarkDispatched, NotSent, TerminalAnswer, Unbooked, Correct, Unknown, Resolve,
         CorrectResolved, CloseWithoutNode, NodeTakes, NodeEnds, Age, Restart, Goto,
         ReserveBudget, payments, vars
<1>2. ~revoked
  BY <1>1 DEF ReserveBudget, HasRoom
<1>3. ASSUME window' = 1, limits.budget # NoLimit
      PROVE  SumFunction([q \in Payments |-> Committed(q)]) + Charge <= limits.budget
  <2> DEFINE Sent == [q \in Payments |-> Committed(q)]
             Spent == SumFunctionOnSet(Sent, Payments)
             Total == SumFunctionOnSet(Holdings, Payments)
  <2>1. window = 1 /\ used + Charge <= limits.budget
    BY <1>1, <1>3 DEF ReserveBudget, HasRoom, Counted, TypeOK
  <2>2. \A q \in Payments : /\ Sent[q] \in Nat /\ Holdings[q] \in Nat
                            /\ Sent[q] <= Holdings[q]
    BY HoldingsTyped, HoldingsCover
  <2>3. Spent <= Total
    <3> HIDE DEF Sent
    <3> QED BY <2>2, SumGrows
  <2>4. Spent \in Nat /\ Total \in Nat
    <3> HIDE DEF Sent
    <3> QED BY <2>2, SumIsNat
  <2>5. Total <= used
    BY <2>1 DEF Covered
  <2>6. SumFunction(Sent) = Spent
    BY DEF SumFunction
  <2>7. used \in Nat /\ Charge \in Nat /\ limits.budget \in Nat
    BY <1>3, Kinds, BudgetAssumption DEF TypeOK, Limits, MaybeBudget
  <2> HIDE DEF Spent, Total, Sent
  <2>8. Spent + Charge <= limits.budget
    BY <2>1, <2>3, <2>4, <2>5, <2>7
  <2> QED BY <2>6, <2>8 DEF Sent
<1> QED BY <1>2, <1>3

-----------------------------------------------------------------------------
(* Everything holds at first.                                              *)
LEMMA InitInv ==
  ASSUME Init
  PROVE  TypeOK /\ Told /\ Windows /\ Corrections /\ NoCorrectionIsLost /\ Outcomes
<1> USE BudgetAssumption DEF Init, Unbounded, NoForm
<1>1. TypeOK
  <2>1. limits \in Limits
    BY Kinds DEF Limits, MaybeBudget
  <2>2. /\ step \in [Payments -> {"idle"}] /\ rolls \in [Payments -> BOOLEAN]
        /\ row \in [Payments -> {"none"}] /\ fate \in [Payments -> {"none"}]
        /\ fee \in [Payments -> {0}] /\ fixes \in [Payments -> {0}]
    OBVIOUS
  <2>3. form \in [open : BOOLEAN, limits : Limits, renews : Nat, from : Nat]
    BY Kinds
  <2>4. served \in Limits /\ used \in Nat /\ renews \in Nat /\ revoked \in BOOLEAN
        /\ open \in BOOLEAN /\ demand \in BOOLEAN /\ loose \in BOOLEAN
    BY <2>1
  <2>5. window \in Nat \ {0} /\ begun \in Nat /\ edits \in 0..MaxEdits
        /\ clock \in 0..MaxClock /\ misses \in 0..MaxFaults /\ losses \in 0..MaxFaults
    OBVIOUS
  <2> QED
    BY <2>1, <2>2, <2>3, <2>4, <2>5 DEF TypeOK
<1>2. Told
  BY DEF Told, NoChangeIsLost, Behind, Newest
<1>3. Windows
  <2>1. CASE limits.period = "daily"
    BY <2>1 DEF Windows, Kept
  <2>2. CASE limits.period # "daily"
    <3>1. limits = Unbounded /\ served = Unbounded
      BY <2>2
    <3> QED
      BY <3>1 DEF Windows, NobodyRolls
  <2> QED
    BY <2>1, <2>2
<1>4. Corrections /\ NoCorrectionIsLost /\ Outcomes
  BY DEF Corrections, NoCorrectionIsLost, Owes, Ahead, Outcomes
<1> QED
  BY <1>1, <1>2, <1>3, <1>4

(* At first nothing is in the counter.                                     *)
LEMMA InitCovered ==
  ASSUME IsFiniteSet(Payments), Init
  PROVE  Covered
<1>1. TypeOK
  BY InitInv
<1> DEFINE Nothing == [p \in Payments |-> 0]
<1>2. \A p \in Payments : Holdings[p] = 0 /\ Nothing[p] = 0
  BY <1>1, HoldingsTyped DEF Init, Held, Charged
<1> HIDE DEF Nothing
<1>3. SumFunctionOnSet(Holdings, Payments) = 0
  BY <1>2, SumOfZeros
<1> QED BY <1>3 DEF Init, Covered

(* The values stay of their kinds; above all the counter, to which signed  *)
(* corrections are added, never falls below zero (AdjustNWCBudget).        *)
THEOREM BudgetTyped == Spec => []TypeOK
<1>1. TypeOK /\ [Next]_vars => TypeOK'
  BY StepTypeOK
<1> QED
  BY <1>1, InitInv, PTL DEF Spec

(* What the operator changed reaches the service, unless a reload failed.  *)
THEOREM ChangesAreTold == Spec => []NoChangeIsLost
<1>1. TypeOK /\ Told /\ [Next]_vars => Told'
  BY StepTold
<1>2. Told => NoChangeIsLost
  BY DEF Told
<1> QED
  BY <1>1, <1>2, BudgetTyped, InitInv, PTL DEF Spec

(* No edit makes the counter begin again early, except as the property     *)
(* says (UpdateNWCConnectionLimits, ReserveNWCBudget).                     *)
THEOREM WindowsKeepTheirLength == Spec => NoEarlyWindow
<1>1. TypeOK /\ Windows /\ [Next]_vars => Windows'
  BY StepWindows
<1>2. TypeOK /\ Windows /\ [Next]_vars
        => [window' # window /\ ~loose => clock >= begun + Period]_vars
  BY StepNoEarlyWindow
<1> QED
  BY <1>1, <1>2, BudgetTyped, InitInv, PTL DEF Spec, NoEarlyWindow

(* As long as no send outlasts wallet.UnresolvedAfter, ladder and resolver *)
(* between them correct the budget at most once.                           *)
THEOREM OneCorrection ==
  ASSUME ~SlowSends
  PROVE  Spec => []CorrectedAtMostOnce
<1>1. TypeOK /\ Corrections /\ [Next]_vars => Corrections'
  BY StepCorrections
<1>2. Corrections => CorrectedAtMostOnce
  BY DEF Corrections, CorrectedAtMostOnce
<1> QED
  BY <1>1, <1>2, BudgetTyped, InitInv, PTL DEF Spec

(* Under the same condition, only a crash or a failing statement loses the *)
(* correction of a row that was closed.                                    *)
THEOREM NoCorrectionLost ==
  ASSUME ~SlowSends
  PROVE  Spec => []NoCorrectionIsLost
<1>1. TypeOK /\ Corrections /\ [Next]_vars => Corrections'
  BY StepCorrections
<1>2. TypeOK /\ Corrections /\ NoCorrectionIsLost /\ [Next]_vars => NoCorrectionIsLost'
  BY StepNoCorrectionIsLost
<1> QED
  BY <1>1, <1>2, BudgetTyped, InitInv, PTL DEF Spec

(* No request can spend past the budget: while the counter has not begun   *)
(* again, a payment is charged only if it fits the budget in force at that *)
(* moment together with all that was spent or may be, and never on a       *)
(* connection that is revoked (payInvoice, ReserveNWCBudget).              *)
THEOREM ChargesFit ==
  ASSUME IsFiniteSet(Payments), ~SlowSends
  PROVE  Spec => ChargesFitTheBudget
<1> DEFINE Inv == TypeOK /\ Corrections /\ Outcomes /\ Covered
           Fits == \A p \in Payments : step[p] = "measured" /\ step'[p] = "charged" =>
                     /\ ~revoked
                     /\ window' = 1 /\ limits.budget # NoLimit =>
                          SumFunction([q \in Payments |-> Committed(q)]) + Charge
                            <= limits.budget
<1>1. Init => Inv
  BY InitInv, InitCovered
<1>2. Inv /\ [Next]_vars => Inv'
  BY StepTypeOK, StepCorrections, StepOutcomes, StepCovered
<1>3. Inv /\ [Next]_vars => [Fits]_vars
  BY StepCharges
<1> QED
  BY <1>1, <1>2, <1>3, PTL DEF Spec, ChargesFitTheBudget
=============================================================================
