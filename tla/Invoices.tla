------------------------------ MODULE Invoices ------------------------------
(***************************************************************************)
(* Receiving money: an invoice is minted on the node and recorded by the   *)
(* LNURL callback (internal/lnurl) or by an NWC make_invoice, and is       *)
(* credited when the node's invoice stream (internal/lnd/stream.go)        *)
(* reports its settlement.  The durable resume point last_settle_index     *)
(* says from where a new stream reads.                                     *)
(*                                                                         *)
(* One step is one SQL transaction, one call to the node, or one message.  *)
(* The node is shared with other applications, so settlements of invoices  *)
(* this application never minted arrive on the stream as well.             *)
(*                                                                         *)
(* Abstracted: amounts (a credit is an entry for what was paid), the       *)
(* invoice's texts, the backoff between two streams, and the clock of the  *)
(* expiry sweep: any open row may be past due.  Messages about invoices    *)
(* that are not settled change nothing and are left out.                   *)
(***************************************************************************)
EXTENDS Integers, FiniteSets

CONSTANTS Hashes,      \* payment hashes of invoices on the node
          Foreign,     \* those other applications mint
          NoHash,      \* what an idle stream handles
          Kinds,       \* what an invoice can carry: see kind
          FirstIndex,  \* the settle index handled before the first state
          MaxCrashes,  \* bound: crashes of the process
          MaxBreaks,   \* bound: streams the node or the network ends
          MaxFaults    \* bound: statements that fail

ASSUME InvoicesAssumption ==
  /\ Foreign \subseteq Hashes /\ NoHash \notin Hashes
  /\ Kinds \subseteq {"plain", "zap", "broken"}
  /\ FirstIndex \in Nat
  /\ MaxCrashes \in Nat /\ MaxBreaks \in Nat /\ MaxFaults \in Nat

VARIABLES
  (* the node *)
  index,     \* the settle index of each invoice, 0 while it is unpaid
  last,      \* the node's latest settle index
  (* the callbacks *)
  call,      \* how far the call that mints each invoice is
  kind,      \* "plain", or a "zap" request, or one that no longer parses
  (* the database *)
  row,       \* invoices.state, "none" without a row
  txns,      \* hashes with a settled invoice_in row in txns
  credits,   \* balance entries per hash
  crediting, \* the credit_received setting
  resume,    \* the last_settle_index setting
  (* the stream *)
  open,      \* a subscription is up
  cursor,    \* the settle index up to which it has delivered
  stage,     \* what the handler of a delivered settlement has done
  cur,       \* the settlement it is handling
  (* bounds *)
  crashes, breaks, faults

minting == <<call, kind>>
ledger  == <<row, txns, credits>>
stream  == <<open, cursor, stage, cur>>
bounds  == <<crashes, breaks, faults>>
vars    == <<index, last, minting, ledger, crediting, resume, stream, bounds>>

Init ==
  /\ index = [h \in Hashes |-> 0] /\ last = FirstIndex
  /\ call = [h \in Hashes |-> "none"]
  /\ kind = [h \in Hashes |-> "plain"]
  /\ row = [h \in Hashes |-> "none"]
  /\ txns = {} /\ credits = [h \in Hashes |-> 0]
  /\ crediting = TRUE /\ resume = FirstIndex
  /\ open = FALSE /\ cursor = 0 /\ stage = "waiting" /\ cur = NoHash
  /\ crashes = 0 /\ breaks = 0 /\ faults = 0

-----------------------------------------------------------------------------
(***************************************************************************)
(* Minting: the node first, the row second, the answer last.               *)
(***************************************************************************)

(* The node adds an invoice for a call of Callback or Mint.                *)
AddInvoice(h, k) ==
  /\ h \notin Foreign /\ call[h] = "none"
  /\ call' = [call EXCEPT ![h] = "minted"]
  /\ kind' = [kind EXCEPT ![h] = k]
  /\ UNCHANGED <<index, last, ledger, crediting, resume, stream, bounds>>

CreateInvoice(h) ==
  /\ call[h] = "minted"
  /\ row' = [row EXCEPT ![h] = "open"]
  /\ call' = [call EXCEPT ![h] = "recorded"]
  /\ UNCHANGED <<index, last, kind, txns, credits, crediting, resume, stream, bounds>>

(* The row cannot be written: the caller gets an error and no invoice.     *)
CreateFails(h) ==
  /\ call[h] = "minted" /\ faults < MaxFaults
  /\ faults' = faults + 1
  /\ call' = [call EXCEPT ![h] = "failed"]
  /\ UNCHANGED <<index, last, kind, ledger, crediting, resume, stream, crashes, breaks>>

Answerable(h) == call[h] = "recorded"

(* The caller is given the invoice, and from here on it can be paid.       *)
Answer(h) ==
  /\ Answerable(h)
  /\ call' = [call EXCEPT ![h] = "answered"]
  /\ UNCHANGED <<index, last, kind, ledger, crediting, resume, stream, bounds>>

-----------------------------------------------------------------------------
(***************************************************************************)
(* The node.  An index of zero asks for no backlog, by its own document of *)
(* InvoiceSubscription.settle_index.                                       *)
(***************************************************************************)

Settle(h) ==
  /\ index[h] = 0
  /\ h \in Foreign \/ call[h] = "answered"
  /\ last' = last + 1
  /\ index' = [index EXCEPT ![h] = last + 1]
  /\ UNCHANGED <<minting, ledger, crediting, resume, stream, bounds>>

SkipsOne(i)    == i + 1
StartsAfter(i) == IF i > 0 THEN i ELSE last

(* The settlements a subscription has still to deliver, in settle order.   *)
Due(h) == index[h] > cursor
IsNext(h) == Due(h) /\ \A g \in Hashes : Due(g) => index[h] <= index[g]

-----------------------------------------------------------------------------
(***************************************************************************)
(* The stream: strictly serial, one settlement at a time.                  *)
(***************************************************************************)

Subscribe ==
  /\ ~open
  /\ open' = TRUE /\ cursor' = StartsAfter(resume)
  /\ UNCHANGED <<index, last, minting, ledger, crediting, resume, stage, cur, bounds>>

Receive(h) ==
  /\ open /\ stage = "waiting" /\ IsNext(h)
  /\ stage' = "received" /\ cur' = h /\ cursor' = index[h]
  /\ UNCHANGED <<index, last, minting, ledger, crediting, resume, open, bounds>>

(* The posting transaction.                                                *)
Post ==
  /\ txns' = txns \cup {cur}
  /\ credits' = [credits EXCEPT ![cur] = IF crediting THEN @ + 1 ELSE @]
  /\ row' = [row EXCEPT ![cur] = "settled"]

AlwaysFresh(h) == TRUE

Known(h) == row[h] # "none"
Fresh(h) == h \notin txns

(* Credited by this call, already credited, or not ours.                   *)
CreditInvoice ==
  /\ stage = "received"
  /\ IF Known(cur) /\ Fresh(cur)
     THEN Post /\ stage' = "credited"
     ELSE UNCHANGED ledger /\ stage' = "handled"
  /\ UNCHANGED <<index, last, minting, crediting, resume, open, cursor, cur, bounds>>

(* A failure of our own ends the stream, which is opened again from the    *)
(* resume point.                                                           *)
Stop == open' = FALSE /\ cursor' = 0 /\ stage' = "waiting" /\ cur' = NoHash
TakenAsForeign == stage' = "handled" /\ UNCHANGED <<open, cursor, cur>>
AfterFailure == Stop

CreditFails ==
  /\ stage = "received" /\ faults < MaxFaults
  /\ faults' = faults + 1
  /\ AfterFailure
  /\ UNCHANGED <<index, last, minting, ledger, crediting, resume, crashes, breaks>>

(* onCredited, for a settlement this call credited: ZapReceipts has its     *)
(* two steps, with "recorded" between them.                                *)
Notified == stage = "credited" /\ stage' = "handled" /\ UNCHANGED <<open, cursor, cur>>

Notify ==
  /\ Notified
  /\ UNCHANGED <<index, last, minting, ledger, crediting, resume, bounds>>

SetLastSettleIndex ==
  /\ stage = "handled"
  /\ resume' = index[cur]
  /\ stage' = "waiting" /\ cur' = NoHash
  /\ UNCHANGED <<index, last, minting, ledger, crediting, open, cursor, bounds>>

SetLastFails ==
  /\ stage = "handled" /\ faults < MaxFaults
  /\ faults' = faults + 1
  /\ Stop
  /\ UNCHANGED <<index, last, minting, ledger, crediting, resume, crashes, breaks>>

Break ==
  /\ open /\ stage = "waiting" /\ breaks < MaxBreaks
  /\ breaks' = breaks + 1
  /\ Stop
  /\ UNCHANGED <<index, last, minting, ledger, crediting, resume, crashes, faults>>

-----------------------------------------------------------------------------
(* The expiry sweep, the operator's setting, and the end of the process.   *)
PastDue(h) == row[h] = "open"

ExpireInvoices ==
  \E late \in SUBSET {h \in Hashes : PastDue(h)} :
    /\ late # {}
    /\ row' = [h \in Hashes |-> IF h \in late THEN "expired" ELSE row[h]]
    /\ UNCHANGED <<index, last, minting, txns, credits, crediting, resume, stream, bounds>>

SetCreditReceived ==
  /\ crediting' = ~crediting
  /\ UNCHANGED <<index, last, minting, ledger, resume, stream, bounds>>

Cut(step) == IF step \in {"minted", "recorded"} THEN "failed" ELSE step

Crash ==
  /\ crashes < MaxCrashes
  /\ crashes' = crashes + 1
  /\ call' = [h \in Hashes |-> Cut(call[h])]
  /\ Stop
  /\ UNCHANGED <<index, last, kind, ledger, crediting, resume, breaks, faults>>

-----------------------------------------------------------------------------
Mint ==
  \E h \in Hashes :
    \/ \E k \in Kinds : AddInvoice(h, k)
    \/ CreateInvoice(h) \/ CreateFails(h) \/ Answer(h)

Stream ==
  \/ Subscribe \/ \E h \in Hashes : Receive(h)
  \/ CreditInvoice \/ CreditFails
  \/ SetLastSettleIndex \/ SetLastFails \/ Break

Node     == \E h \in Hashes : Settle(h)
Operator == SetCreditReceived
Sweep    == ExpireInvoices

Next == Mint \/ Node \/ Stream \/ Notify \/ Sweep \/ Operator \/ Crash

(* The stream's loop runs for as long as the process does: it subscribes   *)
(* again for ever, and each statement of the handler ends.                 *)
Fairness ==
  /\ WF_vars(Subscribe) /\ WF_vars(\E h \in Hashes : Receive(h))
  /\ WF_vars(CreditInvoice) /\ WF_vars(Notify) /\ WF_vars(SetLastSettleIndex)

Spec == Init /\ [][Next]_vars /\ Fairness

-----------------------------------------------------------------------------
Ours == Hashes \ Foreign

(* What every variable may hold: the cursor never runs ahead of the node   *)
(* and the resume point never ahead of the settlements made.               *)
TypeOK ==
  /\ index \in [Hashes -> 0..last] /\ last \in Nat
  /\ call \in [Hashes -> {"none", "minted", "recorded", "answered", "failed"}]
  /\ kind \in [Hashes -> Kinds \cup {"plain"}]
  /\ row \in [Hashes -> {"none", "open", "expired", "settled"}]
  /\ txns \subseteq Hashes /\ credits \in [Hashes -> Nat]
  /\ crediting \in BOOLEAN /\ resume \in 0..last
  /\ open \in BOOLEAN /\ cursor \in 0..last
  /\ stage \in {"waiting", "received", "credited", "recorded", "handled"}
  /\ cur \in Hashes \cup {NoHash}
  /\ (cur = NoHash) <=> (stage = "waiting")
  /\ crashes \in 0..MaxCrashes /\ breaks \in 0..MaxBreaks /\ faults \in 0..MaxFaults

(* A settlement is delivered again after every crash, failed statement and *)
(* reconnection that comes before its resume point is written; it raises   *)
(* the balance at most once, and another application's never does          *)
(* (CreditSettledInvoice).                                                 *)
CreditedOnce ==
  \A h \in Hashes : credits[h] <= IF h \in Ours THEN 1 ELSE 0

(* The two records of a settlement agree: an invoice is shown as settled   *)
(* exactly when the ledger has its row, although the sweep may already     *)
(* have called it expired (ExpireInvoices, CreditSettledInvoice).          *)
SettledTogether == \A h \in Hashes : row[h] = "settled" <=> h \in txns

(* The resume point never passes a payment of ours that is not on record:  *)
(* nothing delivers it again (streamOnce, handleSettlement).               *)
NothingSkipped ==
  \A h \in Ours : index[h] \in 1..resume => h \in txns

(* Every payment of an invoice we handed out is recorded in the end,       *)
(* through broken streams, failed statements and crashes.                  *)
EveryPaymentIsCredited ==
  \A h \in Ours : index[h] > 0 ~> h \in txns

=============================================================================
