------------------------------ MODULE Payments ------------------------------
(***************************************************************************)
(* Outbound payments: the reservation ledger (internal/store/balance.go),  *)
(* the wallet's freezes in front of it (internal/wallet), the live payment *)
(* path and the resolver (cmd/brollyzapper/payments.go), all racing over   *)
(* one table of reservations, against a Lightning node that is shared with *)
(* other applications.                                                     *)
(*                                                                         *)
(* One element of Rows is one payment_out row of the txns table together   *)
(* with the goroutine that made it.  One element of Hashes is one invoice. *)
(* A step is one SQL transaction, one answer of the node, or one thing the *)
(* node does by itself; between two steps of one goroutine anything else   *)
(* may happen, a crash of the process included.                            *)
(*                                                                         *)
(* Abstracted: every invoice has the same Amount and the same fee reserve  *)
(* MaxFee; the route's real fee is drawn from Fees and may exceed the      *)
(* reserve.  The bound MaxMsat of the ledger is out of reach of Allocations*)
(* here.                                                                   *)
(***************************************************************************)
EXTENDS Integers, Functions

CONSTANTS Rows,         \* the reservations that can be made, in id order
          Hashes,       \* invoices
          Amount,       \* what an invoice asks for, in msat
          MaxFee,       \* wallet.MaxFee of that amount
          Fees,         \* what a route may turn out to cost
          Allocations,  \* the ceilings the operator may set
          MaxAttempts,  \* store.MaxResolveAttempts
          MaxRestarts,  \* bound: crashes of the process
          MaxOutages    \* bound: times the node becomes unreachable

ASSUME PaymentsAssumption ==
  /\ Rows \subseteq Nat \ {0}
  /\ Amount \in Nat \ {0}
  /\ MaxFee \in Nat
  /\ Fees \subseteq Nat
  /\ Allocations \subseteq Nat
  /\ MaxAttempts \in Nat \ {0}
  /\ MaxRestarts \in Nat
  /\ MaxOutages \in Nat

VARIABLES
  (* the txns and balance_entries tables *)
  state,       \* txns.state of each row, "none" before it exists
  hash,        \* txns.payment_hash
  dispatched,  \* rows whose dispatched_at is set
  stale,       \* rows created before wallet.UnresolvedCutoff
  attempts,    \* txns.resolve_attempts
  named,       \* rows with an unresolvable_reason
  net,         \* sum of the balance entries of each row
  excess,      \* sum of the fee-excess adjustment of each row
  allocated,   \* sum of every entry the operator made by hand
  balance,     \* SUM(amount_msat) over balance_entries
  frozen,      \* a reconciliation shortfall is recorded
  asserted,    \* history: rows the operator closed
  (* the live path: where each payment's goroutine is *)
  pc,
  (* the resolver's pass *)
  todo,        \* rows of the snapshot still to be worked
  seen,        \* rows of the snapshot that were marked dispatched in it
  expired,     \* resolveTimeout has run out for this pass
  verdict,     \* what TrackPayment said of the oldest row of todo
  (* the node and the network *)
  record,      \* the node's payment record of each hash
  by,          \* the row whose request the record is about, 0 for none
  paid,        \* the row whose request moved the money, 0 for none
  cost,        \* what the route of that payment cost
  wire,        \* rows whose SendPaymentV2 request has not reached LND's handler
  up,          \* the node answers
  (* bounds *)
  restarts, outages

book     == <<state, dispatched, attempts, named, net, excess, balance, asserted>>
resolver == <<todo, seen, expired, verdict>>
node     == <<record, by, paid, cost, wire, up, outages>>
vars     == <<state, hash, dispatched, stale, attempts, named, net, excess,
              allocated, balance, frozen, asserted, pc, todo, seen, expired,
              verdict, record, by, paid, cost, wire, up, restarts, outages>>

Charge    == Amount + MaxFee
Pending   == {r \in Rows : state[r] = "pending"}
Closed    == {r \in Rows : state[r] \in {"settled", "failed"}}

(* Steps of a goroutine that follow one another within milliseconds, far   *)
(* inside the five minutes of wallet.UnresolvedAfter.                      *)
Prompt == {"reserved", "marked", "refused", "unsent", "won", "lost"}

Init ==
  /\ state = [r \in Rows |-> "none"]
  /\ hash \in [Rows -> Hashes]
  /\ dispatched = {} /\ stale = {} /\ named = {} /\ asserted = {}
  /\ attempts = [r \in Rows |-> 0]
  /\ net = [r \in Rows |-> 0] /\ excess = [r \in Rows |-> 0]
  /\ allocated = 0 /\ balance = 0
  /\ frozen = FALSE
  /\ pc = [r \in Rows |-> "idle"]
  /\ todo = {} /\ seen = {} /\ expired = FALSE /\ verdict = "none"
  /\ record = [h \in Hashes |-> "none"]
  /\ by = [h \in Hashes |-> 0]
  /\ paid = [h \in Hashes |-> 0]
  /\ cost = [h \in Hashes |-> 0]
  /\ wire = {}
  /\ up = TRUE
  /\ restarts = 0 /\ outages = 0

-----------------------------------------------------------------------------
(***************************************************************************)
(* The store: each operator is the effect of one transaction of            *)
(* internal/store/balance.go on the tables; what it does not mention is    *)
(* left alone by the caller's UNCHANGED.                                   *)
(***************************************************************************)

(* store.ReserveSpend: the partial unique index over pending hashes, and   *)
(* the single entry of amount plus fee reserve that may not overdraw.      *)
IgnoresBalance(r) == \A q \in Pending : hash[q] # hash[r]

CanReserve(r) ==
  /\ \A q \in Pending : hash[q] # hash[r]
  /\ balance >= Charge

ReserveSpend(r) ==
  /\ state' = [state EXCEPT ![r] = "pending"]
  /\ net' = [net EXCEPT ![r] = -Charge]
  /\ balance' = balance - Charge

(* What a settled route leaves of the reserve, and what it took beyond it. *)
WholeReserve(r) == MaxFee

Refund(r) == IF cost[hash[r]] < MaxFee THEN MaxFee - cost[hash[r]] ELSE 0
Over(r)   == IF cost[hash[r]] > MaxFee THEN cost[hash[r]] - MaxFee ELSE 0

(* store.closeReservation: only a pending row can be closed.               *)
Closable(r) == r \in Pending

(* store.SettleSpend: book at most the reserved fee, return the rest of    *)
(* the reserve, and take an excess off the ceiling as an adjustment.       *)
CanSettle(r) == Closable(r) /\ balance + Refund(r) - Over(r) >= 0

SettleSpend(r) ==
  /\ state' = [state EXCEPT ![r] = "settled"]
  /\ net' = [net EXCEPT ![r] = @ + Refund(r)]
  /\ excess' = [excess EXCEPT ![r] = @ + Over(r)]
  /\ balance' = balance + Refund(r) - Over(r)

(* store.ReverseSpend.                                                     *)
AmountOnly(r) == Amount

Returned(r) == Charge

ReverseSpend(r) ==
  /\ state' = [state EXCEPT ![r] = "failed"]
  /\ net' = [net EXCEPT ![r] = @ + Returned(r)]
  /\ balance' = balance + Returned(r)
  /\ UNCHANGED excess

(* payments.closeReservation with the node's terminal answer: settle or    *)
(* reverse; a row somebody else closed is agreement, a booking that fails  *)
(* leaves the row as it was.                                               *)
Booked(r, won) == IF won THEN CanSettle(r) ELSE Closable(r)

CloseReservation(r, won) ==
  \/ Booked(r, won) /\ won /\ SettleSpend(r)
  \/ Booked(r, won) /\ ~won /\ ReverseSpend(r)
  \/ ~Booked(r, won) /\ UNCHANGED <<state, net, excess, balance>>

-----------------------------------------------------------------------------
(***************************************************************************)
(* The live path: cmd/brollyzapper payInvoice.                             *)
(***************************************************************************)

(* wallet.Reserve up to the insert: the two freezes.  Ids are handed out   *)
(* in order.                                                               *)
Admit(r) ==
  /\ state[r] = "none" /\ pc[r] = "idle"
  /\ \A q \in Rows : q < r => state[q] # "none" \/ pc[q] # "idle"
  /\ ~frozen
  /\ stale \cap Pending = {}
  /\ pc' = [pc EXCEPT ![r] = "admitted"]
  /\ UNCHANGED <<book, hash, stale, allocated, frozen, resolver, node, restarts>>

(* The insert, in the same call; a refusal ends the payment and nothing    *)
(* was written (ErrNotDispatched).                                         *)
Reserve(r) ==
  /\ pc[r] = "admitted"
  /\ \/ CanReserve(r) /\ ReserveSpend(r) /\ pc' = [pc EXCEPT ![r] = "reserved"]
     \/ ~CanReserve(r) /\ pc' = [pc EXCEPT ![r] = "idle"] /\ UNCHANGED <<state, net, balance>>
  /\ UNCHANGED <<hash, dispatched, stale, attempts, named, excess, allocated,
                 frozen, asserted, resolver, node, restarts>>

(* MarkDispatched before the send; when the marker cannot be written the   *)
(* payment is not sent and the row stays pending.                          *)
SendsUnmarked(r) ==
  /\ pc[r] = "reserved"
  /\ dispatched' \in {dispatched \cup ({r} \cap Pending), dispatched}
  /\ pc' = [pc EXCEPT ![r] = "marked"]
  /\ UNCHANGED <<state, attempts, named, net, excess, balance, asserted, hash,
                 stale, allocated, frozen, resolver, node, restarts>>

MarkDispatched(r) ==
  /\ pc[r] = "reserved"
  /\ \/ /\ r \in Pending
        /\ dispatched' = dispatched \cup {r}
        /\ pc' = [pc EXCEPT ![r] = "marked"]
     \/ /\ pc' = [pc EXCEPT ![r] = "idle"]
        /\ UNCHANGED dispatched
  /\ UNCHANGED <<state, attempts, named, net, excess, balance, asserted, hash,
                 stale, allocated, frozen, resolver, node, restarts>>

(* lnd.Client.SendPayment opens the stream: the request is on its way, or  *)
(* there is no connection or no stream (ErrNotSent).                       *)
SendPayment(r) ==
  /\ pc[r] = "marked"
  /\ \/ up /\ wire' = wire \cup {r} /\ pc' = [pc EXCEPT ![r] = "sending"]
     \/ UNCHANGED wire /\ pc' = [pc EXCEPT ![r] = "unsent"]
  /\ UNCHANGED <<book, hash, stale, allocated, frozen, resolver,
                 record, by, paid, cost, up, outages, restarts>>

(* The stream ends from underneath (IsTransportOrCallerFailure): the fate  *)
(* is unknown, the row stays as it is, and the request may still land.     *)
TakesABreakForAnAnswer(r) ==
  /\ pc[r] = "sending"
  /\ pc' = [pc EXCEPT ![r] = "refused"]
  /\ UNCHANGED <<book, hash, stale, allocated, frozen, resolver, node, restarts>>

StreamBreaks(r) ==
  /\ pc[r] = "sending"
  /\ pc' = [pc EXCEPT ![r] = "idle"]
  /\ UNCHANGED <<book, hash, stale, allocated, frozen, resolver, node, restarts>>

(* consume returns the terminal update of the payment this request made.   *)
Answer(r) ==
  /\ pc[r] = "sending" /\ up
  /\ \/ paid[hash[r]] = r /\ pc' = [pc EXCEPT ![r] = "won"]
     \/ /\ record[hash[r]] = "failed" /\ by[hash[r]] = r
        /\ pc' = [pc EXCEPT ![r] = "lost"]
  /\ UNCHANGED <<book, hash, stale, allocated, frozen, resolver, node, restarts>>

(* neverInitiated: LND's handler refused the request; ask it once whether  *)
(* it has a record of the hash.  Only a provable absence makes it a        *)
(* payment that was not sent; a record, or no answer in time, leaves it    *)
(* unknown.                                                                *)
AskRecord(r) ==
  /\ pc[r] = "refused"
  /\ \/ up /\ record[hash[r]] = "none" /\ pc' = [pc EXCEPT ![r] = "unsent"]
     \/ pc' = [pc EXCEPT ![r] = "idle"]
  /\ UNCHANGED <<book, hash, stale, allocated, frozen, resolver, node, restarts>>

(* ClearDispatched takes the marker back off a pending row; the write may  *)
(* fail, which leaves the marker.                                          *)
ClearDispatched(r) ==
  /\ pc[r] = "unsent"
  /\ \/ dispatched' = dispatched \ ({r} \cap Pending)
     \/ UNCHANGED dispatched
  /\ pc' = [pc EXCEPT ![r] = "idle"]
  /\ UNCHANGED <<state, attempts, named, net, excess, balance, asserted, hash,
                 stale, allocated, frozen, resolver, node, restarts>>

(* The terminal answer is booked.                                          *)
CloseLive(r) ==
  /\ pc[r] \in {"won", "lost"}
  /\ CloseReservation(r, pc[r] = "won")
  /\ pc' = [pc EXCEPT ![r] = "idle"]
  /\ UNCHANGED <<dispatched, attempts, named, asserted, hash, stale, allocated,
                 frozen, resolver, node, restarts>>

-----------------------------------------------------------------------------
(***************************************************************************)
(* The resolver: resolvePendingPayments, at startup and on every           *)
(* reconciliation tick or demand, one pass at a time.                      *)
(***************************************************************************)
Unresolved == stale \cap Pending
Current(r) == r \in todo /\ \A q \in todo : r <= q

(* PendingPaymentsBefore: a snapshot of the rows, dispatch marker included.*)
StartPass ==
  /\ todo = {} /\ Unresolved # {}
  /\ todo' = Unresolved
  /\ seen' = Unresolved \cap dispatched
  /\ expired' = FALSE
  /\ UNCHANGED <<book, hash, stale, allocated, frozen, pc, verdict, node, restarts>>

(* TrackPayment of the oldest row left.  A payment in flight is waited for;*)
(* an unreachable node, or a pass whose time has run out, is an error.     *)
Tracked(h) ==
  IF expired \/ ~up THEN "error"
  ELSE IF record[h] = "none" THEN "absent" ELSE record[h]

Track(r) ==
  /\ Current(r) /\ verdict = "none"
  /\ Tracked(hash[r]) # "inflight"
  /\ verdict' = Tracked(hash[r])
  /\ UNCHANGED <<book, hash, stale, allocated, frozen, pc, todo, seen, expired,
                 node, restarts>>

(* resolveTimeout runs out while TrackPayment waits, for a payment in      *)
(* flight or for a node that neither answers nor refuses.                  *)
Deadline(r) ==
  /\ Current(r) /\ verdict = "none" /\ ~expired
  /\ record[hash[r]] = "inflight" \/ ~up
  /\ expired' = TRUE
  /\ UNCHANGED <<book, hash, stale, allocated, frozen, pc, todo, seen, verdict,
                 node, restarts>>

NextRow(r) == todo' = todo \ {r} /\ verdict' = "none"

(* No record, and the snapshot says it was never handed over: reverse it.  *)
IgnoresTheMarker(r) ==
  /\ Current(r) /\ verdict = "absent"
  /\ CloseReservation(r, FALSE)
  /\ NextRow(r)
  /\ UNCHANGED <<dispatched, attempts, named, asserted, hash, stale, allocated,
                 frozen, pc, seen, expired, node, restarts>>

ReverseUnsent(r) ==
  /\ Current(r) /\ verdict = "absent" /\ r \notin seen
  /\ CloseReservation(r, FALSE)
  /\ NextRow(r)
  /\ UNCHANGED <<dispatched, attempts, named, asserted, hash, stale, allocated,
                 frozen, pc, seen, expired, node, restarts>>

(* No record of a payment that was handed over: name it for the operator.  *)
NameForgotten(r) ==
  /\ Current(r) /\ verdict = "absent" /\ r \in seen
  /\ named' = named \cup ({r} \cap Pending)
  /\ NextRow(r)
  /\ UNCHANGED <<state, dispatched, attempts, net, excess, balance, asserted, hash,
                 stale, allocated, frozen, pc, seen, expired, node, restarts>>

(* countAttempt: NoteResolveAttempt and, at the limit, MarkUnresolvable.   *)
(* The counter only matters up to the limit.                               *)
NeverNames(r) ==
  /\ attempts' = IF r \in Pending /\ attempts[r] < MaxAttempts
                 THEN [attempts EXCEPT ![r] = @ + 1] ELSE attempts
  /\ UNCHANGED named

CountAttempt(r) ==
  /\ attempts' = IF r \in Pending /\ attempts[r] < MaxAttempts
                 THEN [attempts EXCEPT ![r] = @ + 1] ELSE attempts
  /\ named' = IF r \in Pending /\ attempts'[r] = MaxAttempts
              THEN named \cup {r} ELSE named

(* The node could not be asked.  Every statement of the pass runs on the   *)
(* pass's own context, so once that has expired the failure is not counted.*)
NoAnswer(r) ==
  /\ Current(r) /\ verdict = "error"
  /\ IF expired THEN UNCHANGED <<attempts, named>> ELSE CountAttempt(r)
  /\ NextRow(r)
  /\ UNCHANGED <<state, dispatched, net, excess, balance, asserted, hash, stale,
                 allocated, frozen, pc, seen, expired, node, restarts>>

(* A terminal answer is booked; a booking that fails is counted, and a     *)
(* success, or a row found closed, forgets the failed passes.              *)
BookAnswer(r) ==
  /\ Current(r) /\ verdict \in {"succeeded", "failed"}
  /\ CloseReservation(r, verdict = "succeeded")
  /\ IF Closable(r) /\ ~Booked(r, verdict = "succeeded")
     THEN CountAttempt(r)
     ELSE attempts' = [attempts EXCEPT ![r] = 0] /\ UNCHANGED named
  /\ NextRow(r)
  /\ UNCHANGED <<dispatched, asserted, hash, stale, allocated, frozen, pc, seen,
                 expired, node, restarts>>

-----------------------------------------------------------------------------
(***************************************************************************)
(* The operator and reconciliation.                                        *)
(***************************************************************************)

(* store.AssertPaymentOutcome: only a pending row the resolver has named,  *)
(* checked in the transaction that closes it.  "Settled" keeps the whole   *)
(* reservation, "failed" returns it.                                       *)
Assertable(r) == Closable(r) /\ r \in named

AssertOutcome(r) ==
  /\ Assertable(r)
  /\ \/ state' = [state EXCEPT ![r] = "settled"] /\ UNCHANGED <<net, excess, balance>>
     \/ ReverseSpend(r)
  /\ asserted' = asserted \cup {r}
  /\ UNCHANGED <<dispatched, attempts, named, hash, stale, allocated, frozen, pc,
                 resolver, node, restarts>>

(* wallet.Allocate and wallet.Deallocate through store.AdjustBalance: the  *)
(* ceiling may not be lowered below what is free.                          *)
AdjustBalance(to) ==
  /\ to # allocated
  /\ balance + (to - allocated) >= 0
  /\ allocated' = to
  /\ balance' = balance + (to - allocated)
  /\ UNCHANGED <<state, dispatched, attempts, named, net, excess, asserted, hash,
                 stale, frozen, pc, resolver, node, restarts>>

(* recon.Check records or clears the shortfall.  What it compares, the     *)
(* node's channel balance, belongs to every application on that node, so   *)
(* the outcome is any.                                                     *)
ReconCheck ==
  /\ up
  /\ frozen' = ~frozen
  /\ UNCHANGED <<book, hash, stale, allocated, pc, resolver, node, restarts>>

-----------------------------------------------------------------------------
(***************************************************************************)
(* The process and the clock.                                              *)
(***************************************************************************)

(* A crash and the next start: goroutines and the pass are gone, and the   *)
(* new start is a later cutoff.  A row made in the second of that start    *)
(* stays outside it.  A request that was on its way has landed or is lost  *)
(* by then.                                                                *)
Restart ==
  /\ restarts < MaxRestarts /\ wire = {}
  /\ restarts' = restarts + 1
  /\ pc' = [r \in Rows |-> "idle"]
  /\ todo' = {} /\ seen' = {} /\ expired' = FALSE /\ verdict' = "none"
  /\ \E old \in SUBSET Pending : stale' = stale \cup old
  /\ UNCHANGED <<book, hash, allocated, frozen, node>>

(* wallet.UnresolvedAfter has passed since the row was made.  Not while    *)
(* the row's own goroutine is between two prompt steps, nor while its      *)
(* request is still on its way.                                            *)
Age(r) ==
  /\ r \in Pending \ stale /\ pc[r] \notin Prompt /\ r \notin wire
  /\ stale' = stale \cup {r}
  /\ UNCHANGED <<book, hash, allocated, frozen, pc, resolver, node, restarts>>

-----------------------------------------------------------------------------
(***************************************************************************)
(* The node and the network (external).  Modelled from how the code uses   *)
(* them: SendPaymentV2 and TrackPaymentV2 as internal/lnd/payments.go      *)
(* describes them, and the other applications of a shared node.            *)
(***************************************************************************)

(* The handler initiates a payment unless it has one in flight or settled  *)
(* for the hash.                                                           *)
NodeAccepts(r) ==
  /\ r \in wire /\ record[hash[r]] \in {"none", "failed"}
  /\ wire' = wire \ {r}
  /\ record' = [record EXCEPT ![hash[r]] = "inflight"]
  /\ by' = [by EXCEPT ![hash[r]] = r]
  /\ UNCHANGED <<book, hash, stale, allocated, frozen, pc, resolver, paid, cost,
                 up, outages, restarts>>

(* The handler refuses: before initiating anything, or because it already  *)
(* has a payment for the hash.                                             *)
NodeRefuses(r) ==
  /\ r \in wire
  /\ wire' = wire \ {r}
  /\ pc' = [pc EXCEPT ![r] = IF @ = "sending" THEN "refused" ELSE @]
  /\ UNCHANGED <<book, hash, stale, allocated, frozen, resolver, record, by, paid,
                 cost, up, outages, restarts>>

(* The request never reaches the handler.                                  *)
RequestLost(r) ==
  /\ r \in wire
  /\ wire' = wire \ {r}
  /\ UNCHANGED <<book, hash, stale, allocated, frozen, pc, resolver, record, by,
                 paid, cost, up, outages, restarts>>

(* The payee settles an invoice once; the route's cost is then known.      *)
PaymentSettles(h) ==
  /\ record[h] = "inflight" /\ paid[h] = 0
  /\ record' = [record EXCEPT ![h] = "succeeded"]
  /\ paid' = [paid EXCEPT ![h] = by[h]]
  /\ \E f \in Fees : cost' = [cost EXCEPT ![h] = f]
  /\ UNCHANGED <<book, hash, stale, allocated, frozen, pc, resolver, by, wire, up,
                 outages, restarts>>

PaymentFails(h) ==
  /\ record[h] = "inflight"
  /\ record' = [record EXCEPT ![h] = "failed"]
  /\ UNCHANGED <<book, hash, stale, allocated, frozen, pc, resolver, by, paid, cost,
                 wire, up, outages, restarts>>

(* Another application runs deletepayments.                                *)
RecordDeleted(h) ==
  /\ record[h] \in {"succeeded", "failed"}
  /\ record' = [record EXCEPT ![h] = "none"]
  /\ UNCHANGED <<book, hash, stale, allocated, frozen, pc, resolver, by, paid, cost,
                 wire, up, outages, restarts>>

NodeDown ==
  /\ up /\ outages < MaxOutages
  /\ up' = FALSE /\ outages' = outages + 1
  /\ UNCHANGED <<book, hash, stale, allocated, frozen, pc, resolver, record, by,
                 paid, cost, wire, restarts>>

NodeUp ==
  /\ ~up /\ up' = TRUE
  /\ UNCHANGED <<book, hash, stale, allocated, frozen, pc, resolver, record, by,
                 paid, cost, wire, outages, restarts>>

-----------------------------------------------------------------------------
Live(r) ==
  \/ Admit(r) \/ Reserve(r) \/ MarkDispatched(r) \/ SendPayment(r)
  \/ Answer(r) \/ AskRecord(r) \/ ClearDispatched(r) \/ CloseLive(r)

Resolve(r) ==
  \/ Track(r) \/ Deadline(r) \/ ReverseUnsent(r) \/ NameForgotten(r)
  \/ NoAnswer(r) \/ BookAnswer(r)

Request(r) == NodeAccepts(r) \/ NodeRefuses(r) \/ RequestLost(r)
Network(h) == PaymentSettles(h) \/ PaymentFails(h) \/ RecordDeleted(h)

Next ==
  \/ \E r \in Rows : Live(r) \/ StreamBreaks(r)
  \/ StartPass
  \/ \E r \in Rows : Resolve(r)
  \/ \E r \in Rows : AssertOutcome(r)
  \/ \E to \in Allocations : AdjustBalance(to)
  \/ ReconCheck
  \/ Restart
  \/ \E r \in Rows : Age(r)
  \/ \E r \in Rows : Request(r)
  \/ \E h \in Hashes : Network(h)
  \/ NodeDown
  \/ NodeUp

Spec == Init /\ [][Next]_vars

-----------------------------------------------------------------------------
(***************************************************************************)
(* What must hold.                                                         *)
(***************************************************************************)
TypeOK ==
  /\ state \in [Rows -> {"none", "pending", "settled", "failed"}]
  /\ hash \in [Rows -> Hashes]
  /\ dispatched \subseteq Rows /\ stale \subseteq Rows
  /\ named \subseteq Rows /\ asserted \subseteq Rows
  /\ attempts \in [Rows -> 0..MaxAttempts]
  /\ net \in [Rows -> Int] /\ excess \in [Rows -> Nat]
  /\ allocated \in Nat /\ balance \in Nat
  /\ frozen \in BOOLEAN
  /\ pc \in [Rows -> {"idle", "admitted", "sending"} \cup Prompt]
  /\ todo \subseteq Rows /\ seen \subseteq Rows
  /\ expired \in BOOLEAN
  /\ verdict \in {"none", "absent", "succeeded", "failed", "error"}
  /\ record \in [Hashes -> {"none", "inflight", "succeeded", "failed"}]
  /\ by \in [Hashes -> Rows \cup {0}] /\ paid \in [Hashes -> Rows \cup {0}]
  /\ cost \in [Hashes -> Nat]
  /\ wire \subseteq Rows
  /\ up \in BOOLEAN
  /\ restarts \in 0..MaxRestarts /\ outages \in 0..MaxOutages

(* Money has moved for row r, or the node may still make it move.          *)
Movable(r) ==
  \/ r \in wire
  \/ record[hash[r]] = "inflight" /\ by[hash[r]] = r
  \/ paid[hash[r]] = r

(* The rule the whole path is built around (payInvoice, resolveOne): the   *)
(* app gives a reservation back only when its payment did not and will not *)
(* happen, whichever of the live path and the resolver does it and however *)
(* crashes, lost requests and deleted node records interleave with them.   *)
(* Rows the operator closed are the operator's word.                       *)
NeverReversesAPayment ==
  \A r \in Rows : state[r] = "failed" /\ r \notin asserted => ~Movable(r)

(* What dispatched_at is for (MarkSpendDispatched): as long as the row is  *)
(* open, a missing marker proves that the node was never handed the        *)
(* payment.                                                                *)
MarkerNeverLies ==
  \A r \in Pending : r \notin dispatched => ~Movable(r)

(* What the entries of one row must come to: the whole reserve while it is *)
(* open or when the operator settled it, amount plus the capped fee with   *)
(* the excess apart once it is settled, nothing once it is reversed.       *)
RowBalances(r) ==
  LET fee == IF cost[hash[r]] < MaxFee THEN cost[hash[r]] ELSE MaxFee IN
  /\ state[r] \in {"none", "failed"} => net[r] = 0 /\ excess[r] = 0
  /\ state[r] = "pending" => net[r] = -Charge /\ excess[r] = 0
  /\ state[r] = "settled" /\ r \in asserted => net[r] = -Charge /\ excess[r] = 0
  /\ state[r] = "settled" /\ r \notin asserted =>
       net[r] = -(Amount + fee) /\ excess[r] = Over(r)

(* Each row's entries come to exactly what its outcome says, however often *)
(* the live path, the resolver and the operator try to close it.           *)
LedgerMatchesOutcome == \A r \in Rows : RowBalances(r)

(* A row the app books as settled is for an invoice the network settled.   *)
SettledWasPaid ==
  \A r \in Rows : state[r] = "settled" /\ r \notin asserted => paid[hash[r]] # 0

(* The operator's ceiling bounds what the node can have spent for the app: *)
(* the free balance plus everything the network really settled for rows    *)
(* the app itself decides never exceeds what was allocated                 *)
(* (appendBalanceEntry, SettleSpend).                                      *)
BalanceCoversSpend ==
  LET fee(h) == IF cost[h] < MaxFee THEN cost[h] ELSE MaxFee
      ours   == {h \in Hashes : paid[h] \in Rows \ asserted}
  IN balance + SumFunction([h \in ours |-> Amount + fee(h)]) <= allocated

(* A closed row never changes again (closeReservation).                    *)
ClosedForGood ==
  [][\A r \in Closed : state'[r] = state[r] /\ net'[r] = net[r]]_vars

(* Every payment reaches an end: booked, reversed, or named for the        *)
(* operator (resolvePendingPayments, countAttempt).                        *)
EveryPaymentIsDecided ==
  \A r \in Rows : (state[r] = "pending") ~> (r \in Closed \cup named)

(* The live path and the resolver run; the node settles or fails what is   *)
(* in flight, requests land or are lost, outages end.                      *)
AppFairness ==
  /\ \A r \in Rows : WF_vars(Live(r)) /\ WF_vars(Age(r))
  /\ WF_vars(StartPass)
  /\ \A r \in Rows : WF_vars(Resolve(r))

NodeFairness ==
  /\ \A r \in Rows : WF_vars(Request(r))
  /\ \A h \in Hashes : WF_vars(PaymentSettles(h) \/ PaymentFails(h))
  /\ WF_vars(NodeUp)

FairSpec == Spec /\ AppFairness /\ NodeFairness

-----------------------------------------------------------------------------
(***************************************************************************)
(* The abstract promise, and what the sources say that the code does not   *)
(* do.                                                                     *)
(***************************************************************************)

(* The rows, the wallet and the node together behave as an escrow.         *)
Abstract == INSTANCE Escrow WITH
  status    <- state,
  moved     <- {r \in Rows : paid[hash[r]] = r},
  overruled <- asserted,
  Charge    <- Charge

RefinesEscrow == Abstract!Spec

(* migrations/0008: settling two rows of one invoice debits the ledger     *)
(* twice for a single payment.  The unique index rules it out for two rows *)
(* that are open at once; it does not for an invoice that is paid again    *)
(* after its first row settled.                                            *)
DebitedOncePerInvoice ==
  \A q, r \in Rows :
    /\ state[q] = "settled" /\ state[r] = "settled"
    /\ {q, r} \cap asserted = {} /\ hash[q] = hash[r]
    => q = r
=============================================================================
