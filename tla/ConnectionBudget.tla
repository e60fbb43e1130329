-------------------------- MODULE ConnectionBudget --------------------------
(***************************************************************************)
(* The spending budget of one paired NWC connection.  §8's ladder          *)
(* (internal/nwc/pay.go) charges it with amount plus fee reserve before a  *)
(* payment and corrects it when the payment ends; the resolver             *)
(* (cmd/brollyzapper/payments.go) corrects it for payments whose ladder is *)
(* gone.  The budget is a column of nwc_connections, the reservation a row *)
(* of txns, and no transaction spans the two: every arrow between them is  *)
(* a place where a crash, or the other corrector, fits.                    *)
(*                                                                         *)
(* The operator edits the limits of the connection, or revokes it, while   *)
(* it is served (internal/api/pages_connections.go).  The service reads    *)
(* permissions, cap and period from a copy of the row, which it refreshes  *)
(* when it is nudged (internal/nwc/run.go); budget and revocation are      *)
(* asked of the row itself.                                                *)
(*                                                                         *)
(* The life of a reservation is Payments', reduced to what the budget can  *)
(* tell apart: whether the row is open, whether it is old enough for the   *)
(* resolver, and what became of it at the node.  All payments ask for the  *)
(* same amount; of the per-payment cap the model keeps whether it lets     *)
(* that amount pass.  A pause is NwcRequests'.                             *)
(***************************************************************************)
EXTENDS Integers, FiniteSets, Functions

CONSTANTS Payments,     \* pay_invoice requests of the connection
          Amount,       \* what each asks for
          MaxFee,       \* its fee reserve
          Fees,         \* what the route may cost
          Budgets,      \* what budget_msat may be set to
          Default,      \* DefaultConnectionBudgetMsat
          NoLimit,      \* a limit column that is NULL
          Period,       \* the length of a window
          MaxClock,     \* bound: the last moment of the clock
          SlowSends,    \* a send may outlast wallet.UnresolvedAfter
          MaxEdits,     \* bound: forms submitted by the operator
          MaxFaults     \* bound: crashes, and statements that fail

ASSUME BudgetAssumption ==
  /\ Amount \in Nat \ {0} /\ MaxFee \in Nat /\ Fees \subseteq 0..MaxFee
  /\ Budgets \subseteq Nat /\ Default \in Budgets /\ NoLimit \notin Nat
  /\ Period \in Nat \ {0} /\ MaxClock \in Nat /\ SlowSends \in BOOLEAN
  /\ MaxEdits \in Nat /\ MaxFaults \in Nat

VARIABLES
  (* the nwc_connections row *)
  limits,   \* permissions, cap, budget_msat and budget_period
  used,     \* budget_used_msat
  renews,   \* budget_renews_at, 0 for NULL
  revoked,
  (* the service *)
  served,   \* connection.current, the copy of the row it serves by
  open,     \* the connection is among those served
  demand,   \* the demand channel, which holds one nudge
  reading,  \* the row a reload has read and not yet applied
  (* the operator's handlers *)
  form,     \* an edit between its two statements
  tell,     \* changes that are written and have not nudged the service
  (* the payments *)
  step,     \* where the ladder of each payment is
  rolls,    \* whether the period in its snapshot of the limits rolls
  row,      \* the state of its txns row
  marked,   \* payments whose row has dispatched_at
  old,      \* payments whose row is before wallet.UnresolvedCutoff
  due,      \* payments the resolver has closed and not yet corrected
  (* the node *)
  fate,     \* what the node has made of each payment
  fee,      \* what the route of each cost
  (* history and bounds *)
  window,   \* how often the counter has begun, the first time included
  begun,    \* when it began last
  loose,    \* since then a limit was lifted, or an edit overtook a roll
  fixes,    \* corrections made for each payment
  clock, edits,
  misses,   \* reloads that could not read the rows
  losses    \* crashes, and corrections that could not be written

columns == <<limits, used, renews, revoked, window, begun, loose>>
service == <<served, open, demand, reading>>
operator == <<form, tell, edits>>
payments == <<row, marked, old, due, fate, fee, fixes>>
bounds == <<clock, misses, losses>>
vars == <<columns, service, operator, step, rolls, payments, bounds>>

Charge == Amount + MaxFee
MaybeBudget == Budgets \cup {NoLimit}
Limits == [pay : BOOLEAN, cap : BOOLEAN, budget : MaybeBudget,
           period : {"none", "daily"}]
Unbounded == [pay |-> TRUE, cap |-> TRUE, budget |-> NoLimit, period |-> "none"]
NoForm == [open |-> FALSE, limits |-> Unbounded, renews |-> 0, from |-> 0]

Init ==
  /\ limits \in {Unbounded,
                 [Unbounded EXCEPT !.budget = Default, !.period = "daily"]}
  /\ used = 0 /\ renews = IF limits.period = "daily" THEN Period ELSE 0
  /\ revoked = FALSE
  /\ served = limits /\ open = TRUE /\ demand = FALSE /\ reading = {}
  /\ form = NoForm /\ tell = {} /\ edits = 0
  /\ step = [p \in Payments |-> "idle"] /\ rolls = [p \in Payments |-> FALSE]
  /\ row = [p \in Payments |-> "none"]
  /\ marked = {} /\ old = {} /\ due = {}
  /\ fate = [p \in Payments |-> "none"] /\ fee = [p \in Payments |-> 0]
  /\ window = 1 /\ begun = 0 /\ loose = FALSE
  /\ fixes = [p \in Payments |-> 0]
  /\ clock = 0 /\ misses = 0 /\ losses = 0

-----------------------------------------------------------------------------
(***************************************************************************)
(* The operator (updateConnection, revokeConnection).  Each changes the    *)
(* row and nudges the service afterwards.                                  *)
(***************************************************************************)

(* postedLimits: what a form may say.  A blank budget is NoLimit; "No      *)
(* limits" together with a limit is refused.  A cap on a pairing that may   *)
(* not pay does nothing and is left out.                                   *)
Forms == {f \in [pay : BOOLEAN, cap : BOOLEAN, budget : MaybeBudget,
                 unlimited : BOOLEAN] :
            (f.unlimited => f.budget = NoLimit /\ f.cap) /\ (f.pay \/ f.cap)}

(* store.withDefaultLimits: the budget of a paying connection for which    *)
(* none was given, unless the operator said so.                            *)
WithDefault(f) ==
  IF f.pay /\ f.budget = NoLimit /\ ~f.unlimited THEN Default ELSE f.budget

(* store.UpdateNWCConnectionLimits: read the row, work out the window that *)
(* is kept, and write in a second statement.  No form sets a period other  *)
(* than daily.                                                             *)
KeptRenewal == IF renews # 0 THEN renews ELSE clock + Period

EditRead(f) ==
  /\ ~form.open /\ "edit" \notin tell /\ edits < MaxEdits /\ ~revoked
  /\ edits' = edits + 1
  /\ LET b == WithDefault(f)
     IN form' = [open   |-> TRUE,
                 limits |-> [pay |-> f.pay, cap |-> f.cap, budget |-> b,
                             period |-> IF b = NoLimit THEN "none" ELSE "daily"],
                 renews |-> IF b = NoLimit THEN 0 ELSE KeptRenewal,
                 from   |-> renews]
  /\ UNCHANGED <<columns, service, tell, step, rolls, payments, bounds>>

(* Mutation: the window is not carried over.                               *)
ForgetsTheWindow ==
  /\ form.open
  /\ form' = NoForm
  /\ \/ UNCHANGED <<columns, tell>>
     \/ /\ ~revoked
        /\ limits' = form.limits /\ renews' = 0
        /\ loose' = (loose \/ form.limits.budget = NoLimit \/ form.from # renews)
        /\ tell' = tell \cup {"edit"}
        /\ UNCHANGED <<used, revoked, window, begun>>
  /\ UNCHANGED <<service, edits, step, rolls, payments, bounds>>

(* store.SetNWCConnectionLimits, which leaves the counter alone and a      *)
(* revoked row too; or the statement fails.                                *)
EditWrite ==
  /\ form.open
  /\ form' = NoForm
  /\ \/ UNCHANGED <<columns, tell>>
     \/ /\ ~revoked
        /\ limits' = form.limits /\ renews' = form.renews
        /\ loose' = (loose \/ form.limits.budget = NoLimit \/ form.from # renews)
        /\ tell' = tell \cup {"edit"}
        /\ UNCHANGED <<used, revoked, window, begun>>
  /\ UNCHANGED <<service, edits, step, rolls, payments, bounds>>

(* store.RevokeNWCConnection.                                              *)
Revoke ==
  /\ ~revoked
  /\ revoked' = TRUE
  /\ tell' = tell \cup {"revoke"}
  /\ UNCHANGED <<limits, used, renews, window, begun, loose, service, form, edits,
                 step, rolls, payments, bounds>>

(* nudge: the channel holds one, and one is enough.                        *)
Nudge(t) ==
  /\ t \in tell
  /\ tell' = tell \ {t}
  /\ demand' = TRUE
  /\ UNCHANGED <<columns, served, open, reading, form, edits, step, rolls, payments,
                 bounds>>

-----------------------------------------------------------------------------
(***************************************************************************)
(* Service.reload: read the active rows, then refresh the copy or close    *)
(* the connection.  One that could not read waits for the next nudge.      *)
(***************************************************************************)
ReloadRead ==
  /\ demand /\ reading = {}
  /\ demand' = FALSE
  /\ \/ reading' = {[active |-> ~revoked, limits |-> limits]} /\ UNCHANGED misses
     \/ misses + losses < MaxFaults /\ misses' = misses + 1 /\ UNCHANGED reading
  /\ UNCHANGED <<columns, served, open, operator, step, rolls, payments, clock,
                 losses>>

(* Mutation: only a connection that is gone is looked at.                  *)
RefreshesNothing ==
  /\ \E r \in reading : open' = (open /\ r.active)
  /\ reading' = {}
  /\ UNCHANGED <<columns, served, demand, operator, step, rolls, payments, bounds>>

ReloadApply ==
  /\ \E r \in reading :
       /\ open' = (open /\ r.active)
       /\ served' = IF open' THEN r.limits ELSE served
  /\ reading' = {}
  /\ UNCHANGED <<columns, demand, operator, step, rolls, payments, bounds>>

-----------------------------------------------------------------------------
(***************************************************************************)
(* Permission, limits, and the budget columns.                             *)
(***************************************************************************)

(* Service.permits: the pay group, before anything else.                   *)
Permit(p) ==
  /\ step[p] = "idle" /\ open
  /\ step' = [step EXCEPT ![p] = IF served.pay THEN "permitted" ELSE "answered"]
  /\ UNCHANGED <<columns, service, operator, rolls, payments, bounds>>

(* One snapshot of the limits: the cap is measured by it, and nextRenewal  *)
(* tells by it whether the budget rolls.                                   *)
Measure(p) ==
  /\ step[p] = "permitted"
  /\ step' = [step EXCEPT ![p] = IF served.cap THEN "measured" ELSE "answered"]
  /\ rolls' = [rolls EXCEPT ![p] = served.cap /\ served.period = "daily"]
  /\ UNCHANGED <<columns, service, operator, payments, bounds>>

(* store.ReserveNWCBudget: one guarded UPDATE that rolls an expired window *)
(* and takes the charge.                                                   *)
Expired(p) == rolls[p] /\ (renews = 0 \/ renews <= clock)
Counted(p) == IF Expired(p) THEN 0 ELSE used

IgnoresTheBudget(p) == ~revoked

HasRoom(p) ==
  /\ ~revoked
  /\ limits.budget # NoLimit => Counted(p) + Charge <= limits.budget

ReserveBudget(p) ==
  /\ step[p] = "measured" /\ HasRoom(p)
  /\ used' = Counted(p) + Charge
  /\ IF Expired(p)
     THEN /\ renews' = clock + Period /\ window' = window + 1
          /\ begun' = clock /\ loose' = FALSE
     ELSE UNCHANGED <<renews, window, begun, loose>>
  /\ step' = [step EXCEPT ![p] = "charged"]
  /\ rolls' = [rolls EXCEPT ![p] = FALSE]
  /\ UNCHANGED <<limits, revoked, service, operator, payments, bounds>>

(* BudgetRefused, BudgetConnectionGone.                                    *)
RefuseBudget(p) ==
  /\ step[p] = "measured" /\ ~HasRoom(p)
  /\ step' = [step EXCEPT ![p] = "answered"]
  /\ rolls' = [rolls EXCEPT ![p] = FALSE]
  /\ UNCHANGED <<columns, service, operator, payments, bounds>>

(* nwc.BudgetCorrection.                                                   *)
BudgetCorrection(p, settled) == IF settled THEN fee[p] - MaxFee ELSE -Charge

KeepsTheSign(p, settled) ==
  /\ used' = used + BudgetCorrection(p, settled)
  /\ fixes' = [fixes EXCEPT ![p] = @ + 1]
  /\ UNCHANGED <<limits, renews, revoked, window, begun, loose>>

(* store.AdjustNWCBudget: whatever window the counter is in by now, and    *)
(* never below zero.                                                       *)
AdjustBudget(p, settled) ==
  /\ used' = IF used + BudgetCorrection(p, settled) < 0 THEN 0
             ELSE used + BudgetCorrection(p, settled)
  /\ fixes' = [fixes EXCEPT ![p] = @ + 1]
  /\ UNCHANGED <<limits, renews, revoked, window, begun, loose>>

(* Who corrects may find the statement failing, and does not repeat it.    *)
TryToAdjust(p, settled) ==
  \/ AdjustBudget(p, settled) /\ UNCHANGED losses
  \/ /\ misses + losses < MaxFaults /\ losses' = losses + 1
     /\ UNCHANGED <<columns, fixes>>

-----------------------------------------------------------------------------
(***************************************************************************)
(* The ladder (Service.payInvoice over nwcSpend.Pay).                      *)
(***************************************************************************)
Goto(p, s) == step' = [step EXCEPT ![p] = s]

(* The wallet refuses, by its balance, a freeze or an open payment of the  *)
(* same invoice: nothing was dispatched, the charge is to be returned.     *)
WalletRefuses(p) ==
  /\ step[p] = "charged"
  /\ Goto(p, "release")
  /\ UNCHANGED <<columns, service, operator, rolls, payments, bounds>>

WalletReserves(p) ==
  /\ step[p] = "charged"
  /\ row' = [row EXCEPT ![p] = "pending"]
  /\ Goto(p, "reserved")
  /\ UNCHANGED <<columns, service, operator, rolls, marked, old, due, fate,
                 fee, fixes, bounds>>

(* MarkDispatched; a marker that cannot be written ends in the arm of the  *)
(* unknown outcome, which keeps the charge.                                *)
MarkDispatched(p) ==
  /\ step[p] = "reserved"
  /\ \/ marked' = marked \cup {p} /\ Goto(p, "sending")
     \/ UNCHANGED marked /\ Goto(p, "answered")
  /\ UNCHANGED <<columns, service, operator, rolls, row, old, due, fate,
                 fee, fixes, bounds>>

(* The node has provably nothing (lnd.ErrNotSent): the marker comes off    *)
(* and the charge is to be returned.                                       *)
NotSent(p) ==
  /\ step[p] = "sending" /\ fate[p] = "none"
  /\ marked' = marked \ {p}
  /\ Goto(p, "release")
  /\ UNCHANGED <<columns, service, operator, rolls, row, old, due, fate,
                 fee, fixes, bounds>>

(* Any other error: the outcome is unknown and the charge is kept.         *)
Unknown(p) ==
  /\ step[p] = "sending"
  /\ Goto(p, "answered")
  /\ UNCHANGED <<columns, service, operator, rolls, payments, bounds>>

(* The node's terminal answer closes the row, or finds it closed, which is *)
(* agreement; a booking that fails leaves both row and budget to the       *)
(* resolver.  Marker and age of a row that is closed are read by nobody.   *)
Outcome(p) == IF fate[p] = "won" THEN "settled" ELSE "failed"

Closes(p, outcome) ==
  /\ row' = IF row[p] = "pending" THEN [row EXCEPT ![p] = outcome] ELSE row
  /\ marked' = marked \ {p} /\ old' = old \ {p}

IgnoresUnbooked(p) == Goto(p, IF fate[p] = "won" THEN "correct" ELSE "release")

Unbooked(p) == Goto(p, "answered")

TerminalAnswer(p) ==
  /\ step[p] = "sending" /\ fate[p] \in {"won", "lost"}
  /\ \/ /\ Closes(p, Outcome(p))
        /\ Goto(p, IF fate[p] = "won" THEN "correct" ELSE "release")
     \/ /\ row[p] = "pending" /\ UNCHANGED <<row, marked, old>>
        /\ Unbooked(p)
  /\ UNCHANGED <<columns, service, operator, rolls, due, fate, fee, fixes, bounds>>

(* The ladder's own correction.                                            *)
Correct(p) ==
  /\ step[p] \in {"correct", "release"}
  /\ TryToAdjust(p, step[p] = "correct")
  /\ Goto(p, "answered")
  /\ UNCHANGED <<service, operator, rolls, row, marked, old, due, fate, fee,
                 clock, misses>>

-----------------------------------------------------------------------------
(***************************************************************************)
(* The resolver and the operator.                                          *)
(***************************************************************************)

(* Mutation: a failed payment is closed without its charge coming back.    *)
ResolvesWithoutReturn(p) ==
  /\ p \in old /\ due = {} /\ fate[p] \in {"won", "lost"} /\ row[p] = "pending"
  /\ Closes(p, Outcome(p))
  /\ due' = IF fate[p] = "won" THEN {p} ELSE {}
  /\ UNCHANGED <<columns, service, operator, step, rolls, fate, fee, fixes, bounds>>

(* resolveOne with a terminal answer: close the row, and owe a correction  *)
(* only if this call closed it.  The live path may close it first.         *)
Resolve(p) ==
  /\ p \in old /\ due = {} /\ fate[p] \in {"won", "lost"} /\ row[p] = "pending"
  /\ Closes(p, Outcome(p))
  /\ due' = {p}
  /\ UNCHANGED <<columns, service, operator, step, rolls, fate, fee, fixes, bounds>>

(* correctConnectionBudget.                                                *)
CorrectResolved(p) ==
  /\ p \in due
  /\ TryToAdjust(p, row[p] = "settled")
  /\ due' = due \ {p}
  /\ UNCHANGED <<service, operator, step, rolls, row, marked, old, fate,
                 fee, clock, misses>>

(* A row that was never handed over is reversed, and one the node knows    *)
(* nothing of is left to the operator, who may say either; neither touches *)
(* the budget.                                                             *)
CloseWithoutNode(p) ==
  /\ p \in old /\ due = {} /\ fate[p] = "none" /\ row[p] = "pending"
  /\ Closes(p, "failed") \/ (p \in marked /\ Closes(p, "settled"))
  /\ UNCHANGED <<columns, service, operator, step, rolls, due, fate, fee, fixes,
                 bounds>>

-----------------------------------------------------------------------------
(***************************************************************************)
(* The node, the clock and the process.                                    *)
(***************************************************************************)
NodeTakes(p) ==
  /\ step[p] = "sending" /\ fate[p] = "none"
  /\ row[p] = "pending" /\ p \notin old
  /\ fate' = [fate EXCEPT ![p] = "inflight"]
  /\ UNCHANGED <<columns, service, operator, step, rolls, row, marked, old,
                 due, fee, fixes, bounds>>

NodeEnds(p) ==
  /\ fate[p] = "inflight"
  /\ \/ /\ fate' = [fate EXCEPT ![p] = "won"]
        /\ \E f \in Fees : fee' = [fee EXCEPT ![p] = f]
     \/ fate' = [fate EXCEPT ![p] = "lost"] /\ UNCHANGED fee
  /\ UNCHANGED <<columns, service, operator, step, rolls, row, marked, old,
                 due, fixes, bounds>>

(* wallet.UnresolvedAfter passes.  A ladder that waits for the node is the *)
(* only one that can take that long.                                       *)
Age(p) ==
  /\ row[p] = "pending" /\ p \notin old
  /\ step[p] = "answered" \/ (SlowSends /\ step[p] = "sending")
  /\ old' = old \cup {p}
  /\ UNCHANGED <<columns, service, operator, step, rolls, row, marked, due,
                 fate, fee, fixes, bounds>>

Tick ==
  /\ clock < MaxClock
  /\ clock' = clock + 1
  /\ UNCHANGED <<columns, service, operator, step, rolls, payments, misses,
                 losses>>

Restart ==
  /\ misses + losses < MaxFaults
  /\ losses' = losses + 1
  /\ step' = [p \in Payments |-> IF step[p] = "idle" THEN "idle" ELSE "answered"]
  /\ rolls' = [p \in Payments |-> FALSE]
  /\ due' = {}
  /\ old' = old \cup {p \in Payments : row[p] = "pending"}
  /\ form' = NoForm /\ tell' = {} /\ demand' = FALSE /\ reading' = {}
  /\ open' = ~revoked /\ served' = IF revoked THEN served ELSE limits
  /\ UNCHANGED <<columns, edits, row, marked, fate, fee, fixes, clock, misses>>

Ladder(p) ==
  \/ Measure(p) \/ ReserveBudget(p) \/ RefuseBudget(p)
  \/ WalletRefuses(p) \/ WalletReserves(p)
  \/ MarkDispatched(p) \/ NotSent(p) \/ TerminalAnswer(p) \/ Correct(p)

Recovery(p) == Resolve(p) \/ CorrectResolved(p) \/ CloseWithoutNode(p)

Reload == ReloadRead \/ ReloadApply

Next ==
  \/ \E f \in Forms : EditRead(f)
  \/ EditWrite \/ Revoke
  \/ \E t \in {"edit", "revoke"} : Nudge(t)
  \/ Reload
  \/ \E p \in Payments : Permit(p) \/ Ladder(p) \/ Unknown(p) \/ Recovery(p)
  \/ \E p \in Payments : NodeTakes(p) \/ NodeEnds(p) \/ Age(p)
  \/ Tick
  \/ Restart

Spec == Init /\ [][Next]_vars

-----------------------------------------------------------------------------
TypeOK ==
  /\ limits \in Limits /\ used \in Nat /\ renews \in Nat /\ revoked \in BOOLEAN
  /\ served \in Limits /\ open \in BOOLEAN /\ demand \in BOOLEAN
  /\ reading \subseteq [active : BOOLEAN, limits : Limits]
  /\ form \in [open : BOOLEAN, limits : Limits, renews : Nat, from : Nat]
  /\ tell \subseteq {"edit", "revoke"} /\ edits \in 0..MaxEdits
  /\ step \in [Payments -> {"idle", "permitted", "measured", "charged", "reserved",
                            "sending", "correct", "release", "answered"}]
  /\ rolls \in [Payments -> BOOLEAN]
  /\ row \in [Payments -> {"none", "pending", "settled", "failed"}]
  /\ marked \subseteq Payments /\ old \subseteq Payments /\ due \subseteq Payments
  /\ fate \in [Payments -> {"none", "inflight", "won", "lost"}]
  /\ fee \in [Payments -> Fees \cup {0}]
  /\ window \in Nat \ {0} /\ begun \in Nat /\ loose \in BOOLEAN
  /\ fixes \in [Payments -> Nat]
  /\ clock \in 0..MaxClock /\ misses \in 0..MaxFaults /\ losses \in 0..MaxFaults

(* The correction adds a signed number to a running total, so it is not    *)
(* idempotent: of the ladder and the resolver at most one may make it, and *)
(* make it once (closeReservation's bool, PayResult.Unbooked).             *)
CorrectedAtMostOnce == \A p \in Payments : fixes[p] <= 1

(* What a payment that was charged has cost, or may still cost.            *)
Committed(p) ==
  IF fate[p] = "won" THEN Amount + fee[p]
  ELSE IF fate[p] = "inflight" \/ step[p] \in {"charged", "reserved", "sending"}
  THEN Charge ELSE 0

(* payInvoice: no request can spend past a budget, because the check and   *)
(* the increment are never separated.  As long as the counter has not      *)
(* begun again, a payment is charged only if it fits the budget in force   *)
(* at that moment together with all that was spent or may be, whatever     *)
(* edits, crashes, corrections and resolver passes came before; and never  *)
(* on a connection that is revoked.                                        *)
ChargesFitTheBudget ==
  [][\A p \in Payments : step[p] = "measured" /\ step'[p] = "charged" =>
       /\ ~revoked
       /\ window' = 1 /\ limits.budget # NoLimit =>
            SumFunction([q \in Payments |-> Committed(q)]) + Charge <= limits.budget]_vars

(* The counter begins again no sooner than a period after it last began,   *)
(* whatever edits, reloads and restarts come between: lowering a limit    *)
(* never hands out a fresh window (UpdateNWCConnectionLimits).  Two things *)
(* are excepted: the operator lifted the limit meanwhile, and the moment   *)
(* was overwritten by an edit that had read the row before it changed.     *)
NoEarlyWindow ==
  [][window' # window /\ ~loose => clock >= begun + Period]_vars

(* A row that was closed by the node's answer has had its correction, or   *)
(* whoever closed it still holds that one step, unless the process died in *)
(* between or the correction could not be written: no transaction spans    *)
(* the two (PayResult.Unbooked, resolveOne).                               *)
NoCorrectionIsLost ==
  \A p \in Payments :
    fate[p] \in {"won", "lost"} /\ row[p] \in {"settled", "failed"} =>
      fixes[p] = 1 \/ step[p] \in {"correct", "release"} \/ p \in due
                   \/ losses > 0

(* No change of the operator's is lost: as long as the service still goes  *)
(* by an older row, the handler that wrote has its nudge to give, or the   *)
(* channel holds one, or the reload under way has read the newest row      *)
(* (nudge after the write; Service.Run).  Only a reload that failed is not *)
(* repeated.                                                               *)
Behind == IF revoked THEN open ELSE served # limits

NoChangeIsLost ==
  Behind /\ misses = 0 =>
    \/ tell # {} \/ demand
    \/ [active |-> ~revoked, limits |-> limits] \in reading
=============================================================================
