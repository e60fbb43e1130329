---------------------------- MODULE ZapReceipts ----------------------------
(***************************************************************************)
(* Telling the sender: internal/zap/publish.go on top of the invoice       *)
(* stream.  onCredited is OnSettled, which records that a receipt is owed  *)
(* and hands the payment to the one goroutine (RunRetry) that publishes,   *)
(* both what is handed to it and what has become due in the table.         *)
(*                                                                         *)
(* One step is one SQL statement, one publish to all its relays, or one    *)
(* tick of the clock.  A tick is zap.FirstBackoff; deadlines are kept as   *)
(* the ticks that are left, zero once they have passed, so the clock needs *)
(* no bound.                                                               *)
(*                                                                         *)
(* Abstracted: the event that is built and signed, and its relays, to      *)
(* whether any relay took it; the order in which due rows are read; the    *)
(* hourly bound on audit rows, beyond which giving up is said in the log   *)
(* only.                                                                   *)
(***************************************************************************)
EXTENDS Invoices

CONSTANTS NoDebt,      \* no row of pending_zap_receipts
          RetryWindow, \* zap.RetryWindow, in ticks
          MaxBackoff   \* zap.MaxBackoff, in ticks

ASSUME ZapReceiptsAssumption ==
  /\ RetryWindow \in Nat \ {0} /\ MaxBackoff \in Nat \ {0}
  /\ NoDebt \notin [attempts : Nat, due : Nat, left : Nat]

VARIABLES
  receipt,   \* hashes whose txns row has a zap_receipt_id
  owed,      \* pending_zap_receipts: attempts, next_attempt_at, give_up_at
  settled,   \* the hand-off channel
  batch,     \* due rows the publisher has read and not yet worked
  doing,     \* what the publisher is doing
  pending,   \* for which payment, after how many attempts, until when
  accepted,  \* history: payments whose receipt a relay took
  abandoned, \* history: receipts given up, and said so
  unread     \* history: rows dropped because their zap could not be read

table == <<owed, receipt>>
publisher == <<settled, batch, doing, pending>>
history == <<accepted, abandoned, unread>>
invoiceVars == <<index, last, minting, ledger, crediting, resume, stream, bounds>>
zvars == <<invoiceVars, table, publisher, history>>

NoWork == [hash |-> NoHash, attempts |-> 0, left |-> 0]

ZInit ==
  /\ Init
  /\ owed = [h \in Hashes |-> NoDebt] /\ receipt = {}
  /\ settled = {} /\ batch = {} /\ doing = "idle" /\ pending = NoWork
  /\ accepted = {} /\ abandoned = {} /\ unread = {}

-----------------------------------------------------------------------------
Debt(attempts, due, left) == [attempts |-> attempts, due |-> due, left |-> left]

(* The upsert: the row of an earlier attempt keeps its give_up_at.         *)
QueueZapReceipt(h, r) ==
  owed' = [owed EXCEPT ![h] =
             IF owed[h] = NoDebt THEN r ELSE Debt(r.attempts, r.due, owed[h].left)]

(* OnSettled, first half: the debt is written down, or the write fails and *)
(* only the log says so.                                                   *)
Record ==
  /\ stage = "credited"
  /\ stage' = "recorded"
  /\ \/ QueueZapReceipt(cur, Debt(0, 1, RetryWindow)) /\ UNCHANGED faults
     \/ faults < MaxFaults /\ faults' = faults + 1 /\ UNCHANGED owed
  /\ UNCHANGED <<index, last, minting, ledger, crediting, resume, open, cursor, cur,
                 crashes, breaks, receipt, publisher, history>>

(* Second half: handed over without waiting, or left to the retry loop     *)
(* when the buffer is full, of these payments or of others.                *)
HandOff ==
  /\ stage = "recorded"
  /\ stage' = "handled"
  /\ settled' \in {settled \cup {cur}, settled}
  /\ UNCHANGED <<index, last, minting, ledger, crediting, resume, open, cursor, cur,
                 bounds, table, batch, doing, pending, history>>

-----------------------------------------------------------------------------
(* SettledZapFor, once the ledger has the payment.                         *)
IsZap(h) == h \in txns /\ kind[h] # "plain"

NoDeadline(h) == [hash |-> h, attempts |-> 0, left |-> 0]
FirstTry(h) == [hash |-> h, attempts |-> 0, left |-> RetryWindow]

Finish == doing' = "idle" /\ pending' = NoWork

(* PublishNow, up to the publish: not a zap, or one to publish; a failed   *)
(* read leaves the row to the retry loop.                                  *)
Take(h) ==
  /\ doing = "idle" /\ batch = {} /\ h \in settled
  /\ settled' = settled \ {h}
  /\ \/ /\ pending' = FirstTry(h)
        /\ doing' = IF IsZap(h) THEN "building" ELSE "dropping"
        /\ UNCHANGED faults
     \/ /\ faults < MaxFaults /\ faults' = faults + 1
        /\ UNCHANGED <<doing, pending>>
  /\ UNCHANGED <<index, last, minting, ledger, crediting, resume, stream, crashes,
                 breaks, table, batch, history>>

Row(h) == [hash |-> h, attempts |-> owed[h].attempts, left |-> owed[h].left]
DueRows == {h \in Hashes : owed[h] # NoDebt /\ owed[h].due = 0}

(* RetryDue reads a batch of the rows that have become due; other payments *)
(* may take the batch's places.                                            *)
RetryDue ==
  /\ doing = "idle" /\ batch = {}
  /\ \E some \in SUBSET DueRows \ {{}} : batch' = {Row(h) : h \in some}
  /\ UNCHANGED <<invoiceVars, table, settled, doing, pending, history>>

(* One row of the batch: not a zap, unreadable, or published again.        *)
TakeDue(p) ==
  /\ doing = "idle" /\ p \in batch
  /\ batch' = batch \ {p}
  /\ pending' = p
  /\ \/ /\ doing' = IF IsZap(p.hash) THEN "building" ELSE "dropping"
        /\ UNCHANGED <<faults, unread>>
     \/ /\ faults < MaxFaults /\ faults' = faults + 1
        /\ doing' = "dropping" /\ unread' = unread \cup {p.hash}
  /\ UNCHANGED <<index, last, minting, ledger, crediting, resume, stream, crashes,
                 breaks, table, settled, accepted, abandoned>>

(* attempt: what can never be published is given up at once.               *)
Build ==
  /\ doing = "building"
  /\ IF kind[pending.hash] = "broken"
     THEN doing' = "dropping" /\ abandoned' = abandoned \cup {pending.hash}
     ELSE doing' = "publishing" /\ UNCHANGED abandoned
  /\ UNCHANGED <<invoiceVars, table, settled, batch, pending, accepted, unread>>

Accept ==
  /\ doing = "publishing"
  /\ accepted' = accepted \cup {pending.hash}
  /\ doing' = "recording"
  /\ UNCHANGED <<invoiceVars, table, settled, batch, pending, abandoned, unread>>

(* The receipt's id is written down, or only the log says it could not be. *)
RecordZapReceipt ==
  /\ doing = "recording"
  /\ doing' = "dropping"
  /\ \/ receipt' = receipt \cup {pending.hash} /\ UNCHANGED faults
     \/ faults < MaxFaults /\ faults' = faults + 1 /\ UNCHANGED receipt
  /\ UNCHANGED <<index, last, minting, ledger, crediting, resume, stream, crashes,
                 breaks, owed, settled, batch, pending, history>>

(* reschedule: given up once the window has passed, else queued for the    *)
(* next attempt, at the latest when the window passes.                     *)
WindowPassed(p) == p.left = 0

Least(a, b) == IF a <= b THEN a ELSE b
NoBackoff(n) == 0
Doubled[n \in Nat] == IF n <= 1 THEN 1 ELSE Least(2 * Doubled[n - 1], MaxBackoff)
Backoff(n) == Doubled[n]

DropsUntaken ==
  /\ doing = "publishing" /\ doing' = "dropping"
  /\ UNCHANGED <<invoiceVars, table, settled, batch, pending, history>>

Reject ==
  /\ doing = "publishing"
  /\ IF WindowPassed(pending)
     THEN /\ doing' = "dropping" /\ abandoned' = abandoned \cup {pending.hash}
          /\ UNCHANGED <<owed, pending, faults>>
     ELSE /\ LET n == pending.attempts + 1
             IN  \/ /\ QueueZapReceipt(pending.hash,
                         Debt(n, Least(Backoff(n), pending.left), pending.left))
                    /\ UNCHANGED faults
                 \/ faults < MaxFaults /\ faults' = faults + 1 /\ UNCHANGED owed
          /\ Finish /\ UNCHANGED abandoned
  /\ UNCHANGED <<index, last, minting, ledger, crediting, resume, stream, crashes,
                 breaks, receipt, settled, batch, accepted, unread>>

KeepsRow == doing = "dropping" /\ Finish /\ UNCHANGED <<invoiceVars, table, settled, batch, history>>

Drop ==
  /\ doing = "dropping"
  /\ \/ owed' = [owed EXCEPT ![pending.hash] = NoDebt] /\ UNCHANGED faults
     \/ faults < MaxFaults /\ faults' = faults + 1 /\ UNCHANGED owed
  /\ Finish
  /\ UNCHANGED <<index, last, minting, ledger, crediting, resume, stream, crashes,
                 breaks, receipt, settled, batch, history>>

-----------------------------------------------------------------------------
Later(n) == IF n > 0 THEN n - 1 ELSE 0
AgedRow(r) == Debt(r.attempts, Later(r.due), Later(r.left))
AgedWork(p) == [p EXCEPT !.left = Later(@)]

Tick ==
  /\ doing = "publishing" \/ \E h \in Hashes : owed[h] # NoDebt
  /\ owed' = [h \in Hashes |-> IF owed[h] = NoDebt THEN NoDebt ELSE AgedRow(owed[h])]
  /\ batch' = {AgedWork(p) : p \in batch}
  /\ pending' = AgedWork(pending)
  /\ UNCHANGED <<invoiceVars, receipt, settled, doing, history>>

(* The channel and the publisher's own state end with the process.         *)
ZCrash ==
  /\ Crash
  /\ settled' = {} /\ batch' = {} /\ doing' = "idle" /\ pending' = NoWork
  /\ UNCHANGED <<table, history>>

-----------------------------------------------------------------------------
Receiving == (Mint \/ Node \/ Stream \/ Sweep \/ Operator)
             /\ UNCHANGED <<table, publisher, history>>
OnSettled == Record \/ HandOff
Publish   == Build \/ Accept \/ RecordZapReceipt \/ Reject \/ Drop
Work      == (\E h \in Hashes : Take(h)) \/ RetryDue \/ (\E p \in batch : TakeDue(p)) \/ Publish

ZNext == Receiving \/ OnSettled \/ Work \/ Tick \/ ZCrash

(* As for the stream; the publisher's goroutine runs, a publish ends, and  *)
(* the clock goes on.                                                      *)
ZFairness ==
  /\ WF_zvars(Subscribe /\ UNCHANGED <<table, publisher, history>>)
  /\ WF_zvars((\E h \in Hashes : Receive(h)) /\ UNCHANGED <<table, publisher, history>>)
  /\ WF_zvars(CreditInvoice /\ UNCHANGED <<table, publisher, history>>)
  /\ WF_zvars(SetLastSettleIndex /\ UNCHANGED <<table, publisher, history>>)
  /\ WF_zvars(OnSettled) /\ WF_zvars(Work) /\ WF_zvars(Tick)

ZSpec == ZInit /\ [][ZNext]_zvars /\ ZFairness

-----------------------------------------------------------------------------
Debts == [attempts : 0..RetryWindow, due : 0..MaxBackoff, left : 0..RetryWindow]
Job == [hash : Hashes \cup {NoHash}, attempts : 0..RetryWindow, left : 0..RetryWindow]

(* What the variables of the receipts may hold: no more attempts than the  *)
(* window has ticks, because every retry waits for one at least (backoff), *)
(* and a job only while there is something to do.                          *)
ZTypeOK ==
  /\ TypeOK
  /\ receipt \subseteq txns /\ settled \subseteq txns
  /\ owed \in [Hashes -> Debts \cup {NoDebt}]
  /\ batch \subseteq Job /\ pending \in Job
  /\ doing \in {"idle", "building", "publishing", "recording", "dropping"}
  /\ (doing = "idle") <=> (pending = NoWork)

(* A debt that was written down is crossed off only when a relay took the  *)
(* receipt, when giving up was said, or when the payment was no zap; or in *)
(* RetryDue's arm for a zap that could not be read, which is the one way a *)
(* receipt is forgotten (attempt, reschedule, drop).                       *)
DebtKept ==
  [][\A h \in Hashes : owed[h] # NoDebt /\ owed'[h] = NoDebt =>
       h \in accepted \cup abandoned \cup unread \/ ~IsZap(h)]_zvars

(* The publisher's own deadline and the one in the table are two copies of *)
(* one promise: a receipt that could be published is given up only once    *)
(* the window that opened at its settlement has passed (PublishNow's fresh *)
(* deadline, the upsert that keeps give_up_at).                            *)
NotGivenUpEarly ==
  [][\A h \in abandoned' \ abandoned :
       kind[h] = "zap" /\ owed[h] # NoDebt => owed[h].left = 0]_zvars

(* No receipt is retried for ever: in the end every debt is crossed off.   *)
EveryDebtEnds == <>[](\A h \in Hashes : owed[h] = NoDebt)

=============================================================================
