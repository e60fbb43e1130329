--------------------------- MODULE PaymentsProofs ---------------------------
(***************************************************************************)
(* Proofs about Payments, for every number of rows and invoices and every  *)
(* value of the constants.                                                 *)
(*                                                                         *)
(* The inductive invariant IInv says, part by part, why no reservation is  *)
(* given back while its payment can still happen:                          *)
(*   OnePending   the unique index leaves one open row per invoice;        *)
(*   Lifecycle    a row's goroutine, its age and its request agree: what   *)
(*                is on the wire is open, marked and too young for the     *)
(*                resolver, and so is a row between two prompt steps;      *)
(*   Untouched    no marker, or a goroutine that was told so, means the    *)
(*                node never had the payment;                              *)
(*   NodeAgrees   what is in flight or paid belongs to a row that still    *)
(*                holds its money;                                         *)
(*   Answers      an answer somebody is holding on to is still true.       *)
(***************************************************************************)
EXTENDS Payments, FiniteSums, TLAPS

(* Where a goroutine is whose payment the node does not have.              *)
Early == {"reserved", "marked", "refused", "unsent"}

(* The node has, or once had, the payment that row r asked for.            *)
Touched(r) == by[hash[r]] = r \/ paid[hash[r]] = r

OnePending ==
  \A q, r \in Rows :
    state[q] = "pending" /\ state[r] = "pending" /\ hash[q] = hash[r] => q = r

Lifecycle ==
  /\ todo \subseteq stale /\ named \subseteq stale
  /\ \A r \in Rows :
       /\ state[r] = "none" => pc[r] \in {"idle", "admitted"} /\ r \notin stale
       /\ pc[r] = "admitted" => state[r] = "none"
       /\ pc[r] \in Early => state[r] = "pending" /\ r \notin stale
       /\ pc[r] = "marked" => r \in dispatched
       /\ r \in wire => /\ state[r] = "pending" /\ r \in dispatched
                        /\ r \notin stale /\ pc[r] \in {"sending", "idle"}
       /\ r \in asserted => state[r] \in {"settled", "failed"}

Untouched ==
  \A r \in Rows :
    \/ state[r] = "none"
    \/ state[r] = "pending" /\ r \notin dispatched
    \/ r \in wire
    \/ pc[r] \in Early
    \/ r \in todo \ seen
    => ~Touched(r)

NodeAgrees ==
  /\ \A h \in Hashes :
       /\ record[h] = "inflight" =>
            /\ by[h] \in Rows /\ hash[by[h]] = h
            /\ state[by[h]] = "pending" \/ by[h] \in asserted
       /\ record[h] = "succeeded" => paid[h] # 0
       /\ paid[h] # 0 => hash[paid[h]] = h
  /\ \A r \in Rows : paid[hash[r]] = r =>
       /\ state[r] \in {"pending", "settled"} \/ r \in asserted
       /\ state[r] = "pending" => record[hash[r]] \notin {"inflight", "failed"}

Answers ==
  /\ todo = {} => verdict = "none"
  /\ \A r \in Rows :
       /\ pc[r] = "won" => paid[hash[r]] = r
       /\ pc[r] = "lost" /\ state[r] = "pending" =>
            record[hash[r]] # "inflight" /\ paid[hash[r]] # r
       /\ Current(r) /\ verdict = "succeeded" => paid[hash[r]] # 0
       /\ Current(r) /\ verdict \in {"succeeded", "failed"} /\ state[r] = "pending" =>
            record[hash[r]] # "inflight"
       /\ Current(r) /\ verdict = "failed" /\ state[r] = "pending" =>
            paid[hash[r]] # r

IInv == TypeOK /\ OnePending /\ Lifecycle /\ Untouched /\ NodeAgrees /\ Answers

-----------------------------------------------------------------------------
(***************************************************************************)
(* What the operations of the store do to the tables.                      *)
(***************************************************************************)

(* Returning a reservation is one more booked row and more money.          *)
LEMMA ReverseSpendEffect ==
  ASSUME TypeOK, NEW r \in Rows, ReverseSpend(r)
  PROVE  /\ state' = [state EXCEPT ![r] = "failed"]
         /\ net' \in [Rows -> Int] /\ excess' \in [Rows -> Nat] /\ balance' \in Nat
BY PaymentsAssumption DEF TypeOK, ReverseSpend, Returned, Charge

(* A reservation is closed at most once, by the answer it is given, and no *)
(* other row changes.                                                      *)
LEMMA CloseReservationEffect ==
  ASSUME TypeOK, NEW r \in Rows, NEW won \in BOOLEAN, CloseReservation(r, won)
  PROVE  /\ \/ state' = state
            \/ /\ state[r] = "pending"
               /\ state' = [state EXCEPT ![r] = IF won THEN "settled" ELSE "failed"]
         /\ net' \in [Rows -> Int] /\ excess' \in [Rows -> Nat] /\ balance' \in Nat
<1>1. CASE Booked(r, won) /\ won /\ SettleSpend(r)
  BY <1>1, PaymentsAssumption
  DEF TypeOK, Booked, CanSettle, Closable, Pending, SettleSpend, Refund, Over
<1>2. CASE Booked(r, won) /\ ~won /\ ReverseSpend(r)
  BY <1>2, ReverseSpendEffect DEF Booked, Closable, Pending
<1>3. CASE ~Booked(r, won) /\ UNCHANGED <<state, net, excess, balance>>
  BY <1>3 DEF TypeOK
<1> QED BY <1>1, <1>2, <1>3 DEF CloseReservation

(* A failed pass names at most the row it failed on, and only while it is  *)
(* open.                                                                   *)
LEMMA CountAttemptEffect ==
  ASSUME TypeOK, NEW r \in Rows, CountAttempt(r)
  PROVE  /\ attempts' \in [Rows -> 0..MaxAttempts]
         /\ named' \in {named, named \cup {r}}
BY PaymentsAssumption DEF TypeOK, CountAttempt, Pending

(* Each part of the invariant rests on a few variables only.               *)
LEMMA Frame ==
  ASSUME IInv, UNCHANGED hash
  PROVE  /\ UNCHANGED state => OnePending'
         /\ UNCHANGED <<state, pc, stale, dispatched, wire, todo, named, asserted>>
              => Lifecycle'
         /\ UNCHANGED <<state, pc, dispatched, wire, todo, seen, by, paid>>
              => Untouched'
         /\ UNCHANGED <<state, record, by, paid, asserted>> => NodeAgrees'
         /\ UNCHANGED <<state, pc, todo, verdict, record, paid>> => Answers'
<1>1. UNCHANGED state => OnePending'
  BY DEF IInv, OnePending
<1>2. UNCHANGED <<state, pc, stale, dispatched, wire, todo, named, asserted>> => Lifecycle'
  BY DEF IInv, Lifecycle
<1>3. UNCHANGED <<state, pc, dispatched, wire, todo, seen, by, paid>> => Untouched'
  BY DEF IInv, Untouched, Touched
<1>4. UNCHANGED <<state, record, by, paid, asserted>> => NodeAgrees'
  BY DEF IInv, NodeAgrees
<1>5. UNCHANGED <<state, pc, todo, verdict, record, paid>> => Answers'
  BY DEF IInv, Answers, Current
<1> QED BY <1>1, <1>2, <1>3, <1>4, <1>5

(* A payment that passed the freezes has made no row yet.                  *)
LEMMA AdmitKeeps ==
  ASSUME IInv, NEW r \in Rows, Admit(r)
  PROVE IInv'
<1>1. TypeOK'
  BY DEF IInv, TypeOK, Prompt, Admit, book, resolver, node
<1>2. Lifecycle'
  BY DEF IInv, TypeOK, Lifecycle, Early, Admit, book, resolver, node
<1>3. Untouched'
  BY DEF IInv, TypeOK, Lifecycle, Untouched, Touched, Early, Admit, book,
      resolver, node
<1>4. Answers'
  BY DEF IInv, TypeOK, Lifecycle, Answers, Current, Admit, book, resolver,
      node
<1> QED BY <1>1, <1>2, <1>3, <1>4, Frame DEF IInv, Admit, book, resolver,
      node

(* A new row is the only open one of its invoice, and the node has not     *)
(* heard of it.                                                            *)
LEMMA ReserveKeeps ==
  ASSUME IInv, NEW r \in Rows, Reserve(r)
  PROVE IInv'
<1>1. TypeOK'
  BY PaymentsAssumption DEF IInv, TypeOK, Prompt, Reserve, resolver, node,
      ReserveSpend, CanReserve, Charge, Pending
<1>2. OnePending'
  BY DEF IInv, TypeOK, OnePending, Reserve, resolver, node, ReserveSpend,
      CanReserve, Charge, Pending
<1>3. Lifecycle'
  BY DEF IInv, TypeOK, Lifecycle, Early, Reserve, resolver, node,
      ReserveSpend, CanReserve, Charge, Pending
<1>4. Untouched'
  BY DEF IInv, TypeOK, Lifecycle, Untouched, Touched, Early, Reserve,
      resolver, node, ReserveSpend, CanReserve, Charge, Pending
<1>5. NodeAgrees'
  BY DEF IInv, TypeOK, Lifecycle, NodeAgrees, Untouched, Touched, Reserve,
      resolver, node, ReserveSpend, CanReserve, Charge, Pending
<1>6. Answers'
  BY DEF IInv, TypeOK, Lifecycle, Answers, Current, Reserve, resolver, node,
      ReserveSpend, CanReserve, Charge, Pending
<1> QED BY <1>1, <1>2, <1>3, <1>4, <1>5, <1>6, Frame DEF IInv, Reserve,
      resolver, node, ReserveSpend

(* The marker precedes the send.                                           *)
LEMMA MarkDispatchedKeeps ==
  ASSUME IInv, NEW r \in Rows, MarkDispatched(r)
  PROVE IInv'
<1>1. TypeOK'
  BY DEF IInv, TypeOK, Prompt, MarkDispatched, resolver, node, Pending
<1>2. Lifecycle'
  BY DEF IInv, TypeOK, Lifecycle, Early, MarkDispatched, resolver, node,
      Pending
<1>3. Untouched'
  BY DEF IInv, TypeOK, Lifecycle, Untouched, Touched, Early, MarkDispatched,
      resolver, node, Pending
<1>4. Answers'
  BY DEF IInv, TypeOK, Lifecycle, Answers, Current, MarkDispatched, resolver,
      node, Pending
<1> QED BY <1>1, <1>2, <1>3, <1>4, Frame DEF IInv, MarkDispatched, resolver,
      node

(* What goes on the wire is marked.                                        *)
LEMMA SendPaymentKeeps ==
  ASSUME IInv, NEW r \in Rows, SendPayment(r)
  PROVE IInv'
<1>1. TypeOK'
  BY DEF IInv, TypeOK, Prompt, SendPayment, book, resolver
<1>2. Lifecycle'
  BY DEF IInv, TypeOK, Lifecycle, Early, SendPayment, book, resolver
<1>3. Untouched'
  BY DEF IInv, TypeOK, Lifecycle, Untouched, Touched, Early, SendPayment,
      book, resolver
<1>4. Answers'
  BY DEF IInv, TypeOK, Lifecycle, Answers, Current, SendPayment, book,
      resolver
<1> QED BY <1>1, <1>2, <1>3, <1>4, Frame DEF IInv, SendPayment, book,
      resolver

(* A stream that breaks proves nothing and changes nothing.                *)
LEMMA StreamBreaksKeeps ==
  ASSUME IInv, NEW r \in Rows, StreamBreaks(r)
  PROVE IInv'
<1>1. TypeOK'
  BY DEF IInv, TypeOK, Prompt, StreamBreaks, book, resolver, node
<1>2. Lifecycle'
  BY DEF IInv, TypeOK, Lifecycle, Early, StreamBreaks, book, resolver, node
<1>3. Untouched'
  BY DEF IInv, TypeOK, Lifecycle, Untouched, Touched, Early, StreamBreaks,
      book, resolver, node
<1>4. Answers'
  BY DEF IInv, TypeOK, Lifecycle, Answers, Current, StreamBreaks, book,
      resolver, node
<1> QED BY <1>1, <1>2, <1>3, <1>4, Frame DEF IInv, StreamBreaks, book,
      resolver, node

(* A terminal answer is about a request the node did take.                 *)
LEMMA AnswerKeeps ==
  ASSUME IInv, NEW r \in Rows, Answer(r)
  PROVE IInv'
<1>1. TypeOK'
  BY DEF IInv, TypeOK, Prompt, Answer, book, resolver, node
<1>2. Lifecycle'
  BY DEF IInv, TypeOK, Lifecycle, Early, Untouched, Touched, Answer, book,
      resolver, node
<1>3. Untouched'
  BY DEF IInv, TypeOK, Lifecycle, Untouched, Touched, Early, Answer, book,
      resolver, node
<1>4. Answers'
  BY DEF IInv, TypeOK, Lifecycle, Answers, Current, NodeAgrees, Answer, book,
      resolver, node
<1> QED BY <1>1, <1>2, <1>3, <1>4, Frame DEF IInv, Answer, book, resolver,
      node

(* A refused request is not the node's, whatever the record says.          *)
LEMMA AskRecordKeeps ==
  ASSUME IInv, NEW r \in Rows, AskRecord(r)
  PROVE IInv'
<1>1. TypeOK'
  BY DEF IInv, TypeOK, Prompt, AskRecord, book, resolver, node
<1>2. Lifecycle'
  BY DEF IInv, TypeOK, Lifecycle, Early, AskRecord, book, resolver, node
<1>3. Untouched'
  BY DEF IInv, TypeOK, Lifecycle, Untouched, Touched, Early, AskRecord, book,
      resolver, node
<1>4. Answers'
  BY DEF IInv, TypeOK, Lifecycle, Answers, Current, AskRecord, book,
      resolver, node
<1> QED BY <1>1, <1>2, <1>3, <1>4, Frame DEF IInv, AskRecord, book, resolver,
      node

(* Only a payment the node never had loses its marker.                     *)
LEMMA ClearDispatchedKeeps ==
  ASSUME IInv, NEW r \in Rows, ClearDispatched(r)
  PROVE IInv'
<1>1. TypeOK'
  BY DEF IInv, TypeOK, Prompt, ClearDispatched, resolver, node, Pending
<1>2. Lifecycle'
  BY DEF IInv, TypeOK, Lifecycle, Early, ClearDispatched, resolver, node,
      Pending
<1>3. Untouched'
  BY DEF IInv, TypeOK, Lifecycle, Untouched, Touched, Early, ClearDispatched,
      resolver, node, Pending
<1>4. Answers'
  BY DEF IInv, TypeOK, Lifecycle, Answers, Current, ClearDispatched,
      resolver, node, Pending
<1> QED BY <1>1, <1>2, <1>3, <1>4, Frame DEF IInv, ClearDispatched, resolver,
      node

(* The live path books what it was told.                                   *)
LEMMA CloseLiveKeeps ==
  ASSUME IInv, NEW r \in Rows, CloseLive(r)
  PROVE IInv'
<1>1. /\ \/ state' = state
         \/ /\ state[r] = "pending"
            /\ state' = [state EXCEPT ![r] = IF pc[r] = "won" THEN "settled" ELSE "failed"]
      /\ net' \in [Rows -> Int] /\ excess' \in [Rows -> Nat] /\ balance' \in Nat
  BY CloseReservationEffect DEF IInv, CloseLive
<1>2. TypeOK'
  BY <1>1 DEF IInv, TypeOK, Prompt, CloseLive, resolver, node
<1>3. OnePending'
  BY <1>1 DEF IInv, TypeOK, OnePending, CloseLive, resolver, node
<1>4. Lifecycle'
  BY <1>1 DEF IInv, TypeOK, Lifecycle, Early, CloseLive, resolver, node
<1>5. Untouched'
  BY <1>1 DEF IInv, TypeOK, Lifecycle, Untouched, Touched, Early, CloseLive,
      resolver, node
<1>6. NodeAgrees'
  BY <1>1 DEF IInv, TypeOK, Lifecycle, NodeAgrees, Answers, CloseLive,
      resolver, node
<1>7. Answers'
  BY <1>1 DEF IInv, TypeOK, Lifecycle, Answers, Current, CloseLive, resolver,
      node
<1> QED BY <1>2, <1>3, <1>4, <1>5, <1>6, <1>7, Frame DEF IInv, CloseLive,
      resolver, node

(* A row of the snapshot without a marker was never handed over.           *)
LEMMA StartPassKeeps ==
  ASSUME IInv, StartPass
  PROVE IInv'
<1>1. TypeOK'
  BY DEF IInv, TypeOK, StartPass, book, node, Unresolved, Pending
<1>2. Lifecycle'
  BY DEF IInv, TypeOK, Lifecycle, Early, StartPass, book, node, Unresolved,
      Pending
<1>3. Untouched'
  BY DEF IInv, TypeOK, Lifecycle, Untouched, Touched, Early, StartPass, book,
      node, Unresolved, Pending
<1>4. Answers'
  BY DEF IInv, TypeOK, Lifecycle, Answers, Current, StartPass, book, node,
      Unresolved, Pending
<1> QED BY <1>1, <1>2, <1>3, <1>4, Frame DEF IInv, StartPass, book, node

(* What the node says of a row is true while the row is open.              *)
LEMMA TrackKeeps ==
  ASSUME IInv, NEW r \in Rows, Track(r)
  PROVE IInv'
<1>1. TypeOK'
  BY DEF IInv, TypeOK, Track, book, node, Tracked
<1>2. Answers'
  BY PaymentsAssumption DEF IInv, TypeOK, Lifecycle, Answers, Current,
      NodeAgrees, Track, book, node, Tracked
<1> QED BY <1>1, <1>2, Frame DEF IInv, Track, book, node

(* Time running out changes nothing else.                                  *)
LEMMA DeadlineKeeps ==
  ASSUME IInv, NEW r \in Rows, Deadline(r)
  PROVE IInv'
<1>1. TypeOK'
  BY DEF IInv, TypeOK, Deadline, book, node
<1> QED BY <1>1, Frame DEF IInv, Deadline, book, node

(* The resolver reverses only what the node never had.                     *)
LEMMA ReverseUnsentKeeps ==
  ASSUME IInv, NEW r \in Rows, ReverseUnsent(r)
  PROVE IInv'
<1>1. /\ \/ state' = state
         \/ /\ state[r] = "pending"
            /\ state' = [state EXCEPT ![r] = "failed"]
      /\ net' \in [Rows -> Int] /\ excess' \in [Rows -> Nat] /\ balance' \in Nat
  BY CloseReservationEffect DEF IInv, ReverseUnsent
<1>2. TypeOK'
  BY <1>1 DEF IInv, TypeOK, ReverseUnsent, node, NextRow
<1>3. OnePending'
  BY <1>1 DEF IInv, TypeOK, OnePending, ReverseUnsent, node, NextRow
<1>4. Lifecycle'
  BY <1>1 DEF IInv, TypeOK, Lifecycle, Current, Early, ReverseUnsent, node,
      NextRow
<1>5. Untouched'
  BY <1>1 DEF IInv, TypeOK, Lifecycle, Untouched, Touched, ReverseUnsent,
      node, NextRow
<1>6. NodeAgrees'
  BY <1>1 DEF IInv, TypeOK, Lifecycle, NodeAgrees, Untouched, Touched,
      Current, ReverseUnsent, node, NextRow
<1>7. Answers'
  BY <1>1 DEF IInv, TypeOK, Lifecycle, Answers, Current, ReverseUnsent, node,
      NextRow
<1> QED BY <1>2, <1>3, <1>4, <1>5, <1>6, <1>7, Frame DEF IInv, ReverseUnsent,
      node, NextRow

(* A forgotten payment is named, and keeps its money.                      *)
LEMMA NameForgottenKeeps ==
  ASSUME IInv, NEW r \in Rows, NameForgotten(r)
  PROVE IInv'
<1>1. TypeOK'
  BY DEF IInv, TypeOK, NameForgotten, node, NextRow, Pending
<1>2. Lifecycle'
  BY DEF IInv, TypeOK, Lifecycle, Current, NameForgotten, node, NextRow,
      Pending
<1>3. Untouched'
  BY DEF IInv, TypeOK, Lifecycle, Untouched, Touched, NameForgotten, node,
      NextRow, Pending
<1>4. Answers'
  BY DEF IInv, TypeOK, Lifecycle, Answers, Current, NameForgotten, node,
      NextRow, Pending
<1> QED BY <1>1, <1>2, <1>3, <1>4, Frame DEF IInv, NameForgotten, node,
      NextRow

(* A pass that fails moves no money.                                       *)
LEMMA NoAnswerKeeps ==
  ASSUME IInv, NEW r \in Rows, NoAnswer(r)
  PROVE IInv'
<1>1. TypeOK'
  BY CountAttemptEffect DEF IInv, TypeOK, NoAnswer, node, NextRow
<1>2. Lifecycle'
  BY CountAttemptEffect DEF IInv, TypeOK, Lifecycle, Current, NoAnswer, node,
      NextRow
<1>3. Untouched'
  BY CountAttemptEffect DEF IInv, TypeOK, Lifecycle, Untouched, Touched,
      NoAnswer, node, NextRow
<1>4. Answers'
  BY CountAttemptEffect DEF IInv, TypeOK, Lifecycle, Answers, Current,
      NoAnswer, node, NextRow
<1> QED BY <1>1, <1>2, <1>3, <1>4, Frame DEF IInv, NoAnswer, node, NextRow

(* The resolver books what it was told.                                    *)
LEMMA BookAnswerKeeps ==
  ASSUME IInv, NEW r \in Rows, BookAnswer(r)
  PROVE IInv'
<1>1. /\ \/ state' = state
         \/ /\ state[r] = "pending"
            /\ state' = [state EXCEPT ![r] =
                          IF verdict = "succeeded" THEN "settled" ELSE "failed"]
      /\ net' \in [Rows -> Int] /\ excess' \in [Rows -> Nat] /\ balance' \in Nat
  BY CloseReservationEffect DEF IInv, BookAnswer
<1>2. TypeOK'
  <2>1. attempts' \in [Rows -> 0..MaxAttempts] /\ named' \subseteq Rows
    <3>1. CASE CountAttempt(r)
      BY <3>1, CountAttemptEffect DEF IInv, TypeOK
    <3>2. CASE attempts' = [attempts EXCEPT ![r] = 0] /\ UNCHANGED named
      BY <3>2, PaymentsAssumption DEF IInv, TypeOK
    <3> QED BY <3>1, <3>2 DEF BookAnswer
  <2> QED BY <1>1, <2>1 DEF IInv, TypeOK, BookAnswer, node, NextRow
<1>3. OnePending'
  BY <1>1 DEF IInv, TypeOK, OnePending, BookAnswer, node, NextRow
<1>4. Lifecycle'
  BY <1>1, CountAttemptEffect DEF IInv, TypeOK, Lifecycle, Current,
      BookAnswer, node, NextRow
<1>5. Untouched'
  BY <1>1 DEF IInv, TypeOK, Lifecycle, Untouched, Touched, BookAnswer, node,
      NextRow
<1>6. NodeAgrees'
  BY <1>1 DEF IInv, TypeOK, Lifecycle, NodeAgrees, Answers, Current,
      BookAnswer, node, NextRow
<1>7. Answers'
  BY <1>1 DEF IInv, TypeOK, Lifecycle, Answers, Current, BookAnswer, node,
      NextRow
<1> QED BY <1>2, <1>3, <1>4, <1>5, <1>6, <1>7, Frame DEF IInv, BookAnswer,
      node, NextRow

(* The operator closes named rows, which are old and off the wire.         *)
LEMMA AssertOutcomeKeeps ==
  ASSUME IInv, NEW r \in Rows, AssertOutcome(r)
  PROVE IInv'
<1>1. TypeOK'
  BY ReverseSpendEffect DEF IInv, TypeOK, AssertOutcome, resolver, node,
      Assertable, Closable, Pending
<1>2. OnePending'
  BY ReverseSpendEffect DEF IInv, TypeOK, OnePending, AssertOutcome,
      resolver, node, Assertable, Closable, Pending
<1>3. Lifecycle'
  BY ReverseSpendEffect DEF IInv, TypeOK, Lifecycle, AssertOutcome, resolver,
      node, Assertable, Closable, Pending
<1>4. Untouched'
  BY ReverseSpendEffect DEF IInv, TypeOK, Lifecycle, Untouched, Touched,
      AssertOutcome, resolver, node, Assertable, Closable, Pending
<1>5. NodeAgrees'
  BY ReverseSpendEffect DEF IInv, TypeOK, Lifecycle, NodeAgrees,
      AssertOutcome, resolver, node, Assertable, Closable, Pending
<1>6. Answers'
  BY ReverseSpendEffect DEF IInv, TypeOK, Lifecycle, Answers, Current,
      AssertOutcome, resolver, node, Assertable, Closable, Pending
<1> QED BY <1>1, <1>2, <1>3, <1>4, <1>5, <1>6, Frame DEF IInv, AssertOutcome,
      resolver, node

(* Moving the ceiling touches no row.                                      *)
LEMMA AdjustBalanceKeeps ==
  ASSUME IInv, NEW to \in Allocations, AdjustBalance(to)
  PROVE IInv'
<1>1. TypeOK'
  BY PaymentsAssumption DEF IInv, TypeOK, AdjustBalance, resolver, node
<1> QED BY <1>1, Frame DEF IInv, AdjustBalance, resolver, node

(* A freeze touches no row.                                                *)
LEMMA ReconCheckKeeps ==
  ASSUME IInv, ReconCheck
  PROVE IInv'
<1>1. TypeOK'
  BY DEF IInv, TypeOK, ReconCheck, book, resolver, node
<1> QED BY <1>1, Frame DEF IInv, ReconCheck, book, resolver, node

(* A crash loses goroutines and the pass, never a row or its marker.       *)
LEMMA RestartKeeps ==
  ASSUME IInv, Restart
  PROVE IInv'
<1>1. restarts' \in 0..MaxRestarts
  BY PaymentsAssumption DEF IInv, TypeOK, Restart
<1>2. TypeOK'
  BY <1>1 DEF IInv, TypeOK, Prompt, Restart, book, node, Pending
<1>3. Lifecycle'
  BY DEF IInv, TypeOK, Lifecycle, Early, Restart, book, node, Pending
<1>4. Untouched'
  BY DEF IInv, TypeOK, Lifecycle, Untouched, Touched, Early, Restart, book,
      node, Pending
<1>5. Answers'
  BY DEF IInv, TypeOK, Lifecycle, Answers, Current, Restart, book, node,
      Pending
<1> QED BY <1>2, <1>3, <1>4, <1>5, Frame DEF IInv, Restart, book, node

(* Only a row off the wire and between no prompt steps ages.               *)
LEMMA AgeKeeps ==
  ASSUME IInv, NEW r \in Rows, Age(r)
  PROVE IInv'
<1>1. TypeOK'
  BY DEF IInv, TypeOK, Age, book, resolver, node, Pending
<1>2. Lifecycle'
  BY DEF IInv, TypeOK, Lifecycle, Early, Prompt, Age, book, resolver, node,
      Pending
<1> QED BY <1>1, <1>2, Frame DEF IInv, Age, book, resolver, node

(* The node takes a request on; no other open row has that invoice.        *)
LEMMA NodeAcceptsKeeps ==
  ASSUME IInv, NEW r \in Rows, NodeAccepts(r)
  PROVE IInv'
<1>1. TypeOK'
  BY DEF IInv, TypeOK, NodeAccepts, book, resolver
<1>2. Lifecycle'
  BY DEF IInv, TypeOK, Lifecycle, NodeAccepts, book, resolver
<1>3. Untouched'
  BY DEF IInv, TypeOK, Lifecycle, Untouched, Touched, OnePending, Early,
      NodeAccepts, book, resolver
<1>4. NodeAgrees'
  BY DEF IInv, TypeOK, Lifecycle, NodeAgrees, OnePending, Untouched, Touched,
      NodeAccepts, book, resolver
<1>5. Answers'
  BY DEF IInv, TypeOK, Lifecycle, Answers, Current, OnePending, NodeAccepts,
      book, resolver
<1> QED BY <1>1, <1>2, <1>3, <1>4, <1>5, Frame DEF IInv, NodeAccepts, book,
      resolver

(* A refused request leaves nothing at the node.                           *)
LEMMA NodeRefusesKeeps ==
  ASSUME IInv, NEW r \in Rows, NodeRefuses(r)
  PROVE IInv'
<1>1. TypeOK'
  BY DEF IInv, TypeOK, Prompt, NodeRefuses, book, resolver
<1>2. Lifecycle'
  BY DEF IInv, TypeOK, Lifecycle, Early, NodeRefuses, book, resolver
<1>3. Untouched'
  BY DEF IInv, TypeOK, Lifecycle, Untouched, Touched, Early, NodeRefuses,
      book, resolver
<1>4. Answers'
  BY DEF IInv, TypeOK, Lifecycle, Answers, Current, NodeRefuses, book,
      resolver
<1> QED BY <1>1, <1>2, <1>3, <1>4, Frame DEF IInv, NodeRefuses, book,
      resolver

(* A lost request leaves nothing at the node.                              *)
LEMMA RequestLostKeeps ==
  ASSUME IInv, NEW r \in Rows, RequestLost(r)
  PROVE IInv'
<1>1. TypeOK'
  BY DEF IInv, TypeOK, RequestLost, book, resolver
<1>2. Lifecycle'
  BY DEF IInv, TypeOK, Lifecycle, RequestLost, book, resolver
<1>3. Untouched'
  BY DEF IInv, TypeOK, Lifecycle, Untouched, Touched, RequestLost, book,
      resolver
<1> QED BY <1>1, <1>2, <1>3, Frame DEF IInv, RequestLost, book, resolver

(* Money moves only for a row that still holds it.                         *)
LEMMA PaymentSettlesKeeps ==
  ASSUME IInv, NEW h \in Hashes, PaymentSettles(h)
  PROVE IInv'
<1>1. TypeOK'
  BY PaymentsAssumption DEF IInv, TypeOK, PaymentSettles, book, resolver
<1>2. Untouched'
  BY PaymentsAssumption DEF IInv, TypeOK, Lifecycle, Untouched, Touched,
      NodeAgrees, Early, PaymentSettles, book, resolver
<1>3. NodeAgrees'
  BY PaymentsAssumption DEF IInv, TypeOK, Lifecycle, NodeAgrees, OnePending,
      PaymentSettles, book, resolver
<1>4. Answers'
  BY PaymentsAssumption DEF IInv, TypeOK, Lifecycle, Answers, Current,
      NodeAgrees, PaymentSettles, book, resolver
<1> QED BY <1>1, <1>2, <1>3, <1>4, Frame DEF IInv, PaymentSettles, book,
      resolver

(* A failed payment did not pay.                                           *)
LEMMA PaymentFailsKeeps ==
  ASSUME IInv, NEW h \in Hashes, PaymentFails(h)
  PROVE IInv'
<1>1. TypeOK'
  BY DEF IInv, TypeOK, PaymentFails, book, resolver
<1>2. NodeAgrees'
  BY DEF IInv, TypeOK, Lifecycle, NodeAgrees, PaymentFails, book, resolver
<1>3. Answers'
  BY DEF IInv, TypeOK, Lifecycle, Answers, Current, PaymentFails, book,
      resolver
<1> QED BY <1>1, <1>2, <1>3, Frame DEF IInv, PaymentFails, book, resolver

(* Deleting a record proves nothing either way.                            *)
LEMMA RecordDeletedKeeps ==
  ASSUME IInv, NEW h \in Hashes, RecordDeleted(h)
  PROVE IInv'
<1>1. TypeOK'
  BY DEF IInv, TypeOK, RecordDeleted, book, resolver
<1>2. NodeAgrees'
  BY DEF IInv, TypeOK, Lifecycle, NodeAgrees, RecordDeleted, book, resolver
<1>3. Answers'
  BY DEF IInv, TypeOK, Lifecycle, Answers, Current, RecordDeleted, book,
      resolver
<1> QED BY <1>1, <1>2, <1>3, Frame DEF IInv, RecordDeleted, book, resolver

(* An outage touches no row.                                               *)
LEMMA NodeDownKeeps ==
  ASSUME IInv, NodeDown
  PROVE IInv'
<1>1. outages' \in 0..MaxOutages
  BY PaymentsAssumption DEF IInv, TypeOK, NodeDown
<1>2. TypeOK'
  BY <1>1 DEF IInv, TypeOK, NodeDown, book, resolver
<1> QED BY <1>2, Frame DEF IInv, NodeDown, book, resolver

(* Nor does its end.                                                       *)
LEMMA NodeUpKeeps ==
  ASSUME IInv, NodeUp
  PROVE IInv'
<1>1. TypeOK'
  BY DEF IInv, TypeOK, NodeUp, book, resolver
<1> QED BY <1>1, Frame DEF IInv, NodeUp, book, resolver

-----------------------------------------------------------------------------
(***************************************************************************)
(* The theorems.                                                           *)
(***************************************************************************)

(* Before anything has happened, no part of the invariant is at risk.      *)
LEMMA InitInv == Init => IInv
<1> SUFFICES ASSUME Init PROVE IInv
  OBVIOUS
<1>1. TypeOK
  <2>1. 0 \in 0..MaxAttempts /\ 0 \in 0..MaxRestarts /\ 0 \in 0..MaxOutages
    BY PaymentsAssumption
  <2>2. /\ state \in [Rows -> {"none", "pending", "settled", "failed"}]
        /\ attempts \in [Rows -> 0..MaxAttempts]
        /\ net \in [Rows -> Int] /\ excess \in [Rows -> Nat]
    BY <2>1 DEF Init
  <2>3. pc \in [Rows -> {"idle", "admitted", "sending"} \cup Prompt]
    BY DEF Init
  <2>4. /\ record \in [Hashes -> {"none", "inflight", "succeeded", "failed"}]
        /\ by \in [Hashes -> Rows \cup {0}] /\ paid \in [Hashes -> Rows \cup {0}]
        /\ cost \in [Hashes -> Nat]
    BY DEF Init
  <2>5. restarts \in 0..MaxRestarts /\ outages \in 0..MaxOutages
    BY <2>1 DEF Init
  <2> QED BY <2>2, <2>3, <2>4, <2>5 DEF Init, TypeOK
<1>2. OnePending /\ Lifecycle /\ Untouched
  BY PaymentsAssumption DEF Init, OnePending, Lifecycle, Untouched, Touched, Early
<1>3. NodeAgrees /\ Answers
  BY PaymentsAssumption DEF Init, NodeAgrees, Answers, Current
<1> QED BY <1>1, <1>2, <1>3 DEF IInv

(* No step of the app, the operator, the clock or the node breaks it.      *)
LEMMA NextInv == IInv /\ [Next]_vars => IInv'
<1> SUFFICES ASSUME IInv, [Next]_vars PROVE IInv'
  OBVIOUS
<1>1. ASSUME NEW r \in Rows, Live(r) \/ StreamBreaks(r) PROVE IInv'
  BY <1>1, AdmitKeeps, ReserveKeeps, MarkDispatchedKeeps, SendPaymentKeeps,
     StreamBreaksKeeps, AnswerKeeps, AskRecordKeeps, ClearDispatchedKeeps, CloseLiveKeeps
  DEF Live
<1>2. CASE StartPass
  BY <1>2, StartPassKeeps
<1>3. ASSUME NEW r \in Rows, Resolve(r) PROVE IInv'
  BY <1>3, TrackKeeps, DeadlineKeeps, ReverseUnsentKeeps, NameForgottenKeeps,
     NoAnswerKeeps, BookAnswerKeeps
  DEF Resolve
<1>4. ASSUME NEW r \in Rows, AssertOutcome(r) \/ Age(r) PROVE IInv'
  BY <1>4, AssertOutcomeKeeps, AgeKeeps
<1>5. ASSUME NEW to \in Allocations, AdjustBalance(to) PROVE IInv'
  BY <1>5, AdjustBalanceKeeps
<1>6. CASE ReconCheck \/ Restart
  BY <1>6, ReconCheckKeeps, RestartKeeps
<1>7. ASSUME NEW r \in Rows, Request(r) PROVE IInv'
  BY <1>7, NodeAcceptsKeeps, NodeRefusesKeeps, RequestLostKeeps DEF Request
<1>8. ASSUME NEW h \in Hashes, Network(h) PROVE IInv'
  BY <1>8, PaymentSettlesKeeps, PaymentFailsKeeps, RecordDeletedKeeps DEF Network
<1>9. CASE NodeDown \/ NodeUp
  BY <1>9, NodeDownKeeps, NodeUpKeeps
<1>10. CASE UNCHANGED vars
  <2>1. TypeOK'
    BY <1>10 DEF IInv, TypeOK, vars
  <2> QED BY <1>10, <2>1, Frame DEF IInv, vars
<1> QED BY <1>1, <1>2, <1>3, <1>4, <1>5, <1>6, <1>7, <1>8, <1>9, <1>10 DEF Next

(* The inductive invariant of the payment path.                            *)
THEOREM Invariance == Spec => []IInv
BY InitInv, NextInv, PTL DEF Spec

(* Every variable keeps its type; the free balance is never negative.      *)
THEOREM TypeCorrect == Spec => []TypeOK
<1>1. IInv => TypeOK
  BY DEF IInv
<1> QED BY <1>1, Invariance, PTL

(* The app never gives back the money of a payment that happened or may    *)
(* still happen (payInvoice, resolveOne).                                  *)
THEOREM NoPaymentIsReversed == Spec => []NeverReversesAPayment
<1>1. IInv => NeverReversesAPayment
  BY DEF IInv, TypeOK, NeverReversesAPayment, Movable, Lifecycle, NodeAgrees
<1> QED BY <1>1, Invariance, PTL

(* A missing dispatch marker proves that the node was never handed the     *)
(* payment (MarkSpendDispatched, ClearSpendDispatched).                    *)
THEOREM TheMarkerIsTrue == Spec => []MarkerNeverLies
<1>1. IInv => MarkerNeverLies
  BY DEF IInv, MarkerNeverLies, Movable, Pending, Lifecycle, Untouched, Touched
<1> QED BY <1>1, Invariance, PTL

(* A settled or failed row keeps its outcome and its money for good, for   *)
(* every step of every actor (closeReservation).                           *)
THEOREM ClosedRowsAreFinal == Spec => ClosedForGood
<1> DEFINE Final == \A r \in Closed : state'[r] = state[r] /\ net'[r] = net[r]
<1>1. ASSUME IInv, Next PROVE Final
  <2>1. ASSUME NEW r \in Rows, NEW won \in BOOLEAN, CloseReservation(r, won)
        PROVE  Final
    BY <1>1, <2>1 DEF IInv, TypeOK, Closed, CloseReservation, Booked, CanSettle, Closable,
       Pending, SettleSpend, ReverseSpend
  <2>2. ASSUME NEW r \in Rows, Reserve(r) PROVE Final
    BY <1>1, <2>2 DEF IInv, TypeOK, Lifecycle, Closed, Reserve, ReserveSpend
  <2>3. ASSUME NEW r \in Rows, AssertOutcome(r) PROVE Final
    BY <1>1, <2>3 DEF IInv, TypeOK, Closed, AssertOutcome, Assertable, Closable, Pending,
       ReverseSpend
  <2>4. CASE UNCHANGED <<state, net>>
    BY <2>4 DEF Closed
  <2>5. ASSUME NEW r \in Rows, Live(r) \/ StreamBreaks(r) PROVE Final
    BY <2>1, <2>2, <2>4, <2>5 DEF Live, Admit, MarkDispatched, SendPayment, StreamBreaks,
       Answer, AskRecord, ClearDispatched, CloseLive, book
  <2>6. ASSUME NEW r \in Rows, Resolve(r) PROVE Final
    BY <2>1, <2>4, <2>6 DEF Resolve, Track, Deadline, ReverseUnsent, NameForgotten,
       NoAnswer, BookAnswer, book
  <2>7. CASE \/ StartPass \/ ReconCheck \/ Restart \/ NodeDown \/ NodeUp
             \/ \E r \in Rows : Age(r) \/ Request(r)
             \/ \E h \in Hashes : Network(h)
             \/ \E to \in Allocations : AdjustBalance(to)
    BY <2>4, <2>7 DEF StartPass, ReconCheck, Restart, NodeDown, NodeUp, Age, Request,
       NodeAccepts, NodeRefuses, RequestLost, Network, PaymentSettles, PaymentFails,
       RecordDeleted, AdjustBalance, book
  <2> QED BY <1>1, <2>3, <2>5, <2>6, <2>7 DEF Next
<1>2. IInv /\ [Next]_vars => [Final]_vars
  BY <1>1
<1> QED BY <1>2, Invariance, PTL DEF Spec, ClosedForGood

-----------------------------------------------------------------------------
(***************************************************************************)
(* The money: every row's entries match its outcome, and what they come to *)
(* together is what the operator's ceiling allows.                         *)
(***************************************************************************)

(* The books are right, and so is what keeps them right.                   *)
Money == IInv /\ SettledWasPaid /\ LedgerMatchesOutcome

(* Closing one row by a true answer keeps every row's books right.         *)
LEMMA ClosingBalances ==
  ASSUME Money, NEW r \in Rows, NEW won \in BOOLEAN, CloseReservation(r, won),
         UNCHANGED <<hash, asserted, cost, paid>>, won => paid[hash[r]] # 0
  PROVE  SettledWasPaid' /\ LedgerMatchesOutcome'
<1>1. CASE Booked(r, won) /\ won /\ SettleSpend(r)
  <2>1. state[r] = "pending" /\ r \notin asserted
    BY <1>1 DEF Money, IInv, Lifecycle, Booked, CanSettle, Closable, Pending
  <2>2. SettledWasPaid'
    BY <1>1, <2>1 DEF Money, IInv, TypeOK, SettledWasPaid, SettleSpend
  <2>3. Refund(r) \in Int /\ Over(r) \in Nat /\ cost[hash[r]] \in Nat /\ hash[r] \in Hashes
    BY PaymentsAssumption DEF Money, IInv, TypeOK, Refund, Over
  <2>4. ASSUME NEW s \in Rows PROVE RowBalances(s)'
    <3>1. CASE s = r
      BY <1>1, <2>1, <2>3, <3>1, PaymentsAssumption
      DEF Money, IInv, TypeOK, LedgerMatchesOutcome, RowBalances, SettleSpend, Refund,
          Over, Charge
    <3>2. CASE s # r
      BY <1>1, <3>2 DEF Money, IInv, TypeOK, LedgerMatchesOutcome, RowBalances,
         SettleSpend, Over, Charge
    <3> QED BY <3>1, <3>2
  <2> QED BY <2>2, <2>4 DEF LedgerMatchesOutcome, RowBalances
<1>2. CASE Booked(r, won) /\ ~won /\ ReverseSpend(r)
  <2>1. state[r] = "pending" /\ r \notin asserted
    BY <1>2 DEF Money, IInv, Lifecycle, Booked, Closable, Pending
  <2> QED BY <1>2, <2>1, PaymentsAssumption
       DEF Money, IInv, TypeOK, SettledWasPaid, LedgerMatchesOutcome, RowBalances, ReverseSpend,
           Returned, Over, Charge
<1>3. CASE UNCHANGED <<state, net, excess, balance>>
  BY <1>3 DEF Money, SettledWasPaid, LedgerMatchesOutcome, RowBalances, Over, Charge
<1> QED BY <1>1, <1>2, <1>3 DEF CloseReservation

(* Every step keeps the books right.                                       *)
LEMMA NextBalances ==
  ASSUME Money, [Next]_vars
  PROVE  SettledWasPaid' /\ LedgerMatchesOutcome'
<1> DEFINE Right == SettledWasPaid /\ LedgerMatchesOutcome
<1>1. CASE UNCHANGED <<state, hash, net, excess, asserted, cost, paid>>
  BY <1>1 DEF Money, SettledWasPaid, LedgerMatchesOutcome, RowBalances, Over, Charge
<1>2. ASSUME NEW r \in Rows, Reserve(r) PROVE Right'
  BY <1>2, PaymentsAssumption
  DEF Money, IInv, TypeOK, Lifecycle, SettledWasPaid, LedgerMatchesOutcome, RowBalances, Reserve,
      ReserveSpend, Over, Charge, node
<1>3. ASSUME NEW r \in Rows, CloseLive(r) PROVE Right'
  <2>1. pc[r] = "won" => paid[hash[r]] # 0
    BY PaymentsAssumption DEF Money, IInv, Answers
  <2> QED BY <1>3, <2>1, ClosingBalances DEF CloseLive, node
<1>4. ASSUME NEW r \in Rows, ReverseUnsent(r) PROVE Right'
  BY <1>4, ClosingBalances DEF ReverseUnsent, node
<1>5. ASSUME NEW r \in Rows, BookAnswer(r) PROVE Right'
  <2>1. verdict = "succeeded" => paid[hash[r]] # 0
    BY <1>5 DEF Money, IInv, Answers, BookAnswer
  <2> QED BY <1>5, <2>1, ClosingBalances DEF BookAnswer, node
<1>6. ASSUME NEW r \in Rows, AssertOutcome(r) PROVE Right'
  BY <1>6, PaymentsAssumption
  DEF Money, IInv, TypeOK, SettledWasPaid, LedgerMatchesOutcome, RowBalances, AssertOutcome,
      Assertable, Closable, Pending, ReverseSpend, Returned, Over, Charge, node
<1>7. ASSUME NEW h \in Hashes, PaymentSettles(h) PROVE Right'
  <2>1. paid[h] = 0 /\ by[h] # 0
    BY <1>7, PaymentsAssumption DEF Money, IInv, NodeAgrees, PaymentSettles
  <2>2. SettledWasPaid'
    BY <1>7, <2>1 DEF Money, IInv, TypeOK, SettledWasPaid, PaymentSettles, book
  <2>3. \A r \in Rows : state[r] = "settled" /\ r \notin asserted => cost'[hash[r]] = cost[hash[r]]
    BY <1>7, <2>1 DEF Money, IInv, TypeOK, SettledWasPaid, PaymentSettles
  <2>4. UNCHANGED <<state, hash, net, excess, asserted>>
    BY <1>7 DEF PaymentSettles, book
  <2> QED BY <2>2, <2>3, <2>4 DEF Money, LedgerMatchesOutcome, RowBalances, Over, Charge
<1>8. ASSUME NEW r \in Rows, Live(r) \/ StreamBreaks(r) PROVE Right'
  BY <1>1, <1>2, <1>3, <1>8 DEF Live, Admit, MarkDispatched, SendPayment, StreamBreaks,
     Answer, AskRecord, ClearDispatched, book, node
<1>9. ASSUME NEW r \in Rows, Resolve(r) PROVE Right'
  BY <1>1, <1>4, <1>5, <1>9 DEF Resolve, Track, Deadline, NameForgotten, NoAnswer,
     book, node
<1>10. CASE \/ StartPass \/ ReconCheck \/ Restart \/ NodeDown \/ NodeUp
            \/ \E r \in Rows : Age(r) \/ Request(r)
            \/ \E h \in Hashes : PaymentFails(h) \/ RecordDeleted(h)
            \/ \E to \in Allocations : AdjustBalance(to)
            \/ UNCHANGED vars
  BY <1>1, <1>10 DEF StartPass, ReconCheck, Restart, NodeDown, NodeUp, Age, Request,
     NodeAccepts, NodeRefuses, RequestLost, PaymentFails, RecordDeleted, AdjustBalance,
     vars, book, node
<1> QED BY <1>6, <1>7, <1>8, <1>9, <1>10 DEF Next, Network

(* The books are right in every state the program can reach.               *)
LEMMA MoneyInvariance == Spec => []Money
<1>1. Init => Money
  <2>1. Init => SettledWasPaid /\ LedgerMatchesOutcome
    BY DEF Init, SettledWasPaid, LedgerMatchesOutcome, RowBalances
  <2> QED BY <2>1, InitInv DEF Money
<1>2. Money /\ [Next]_vars => Money'
  BY NextInv, NextBalances DEF Money
<1> QED BY <1>1, <1>2, PTL DEF Spec

(* Every row's entries come to what its outcome says, however often the    *)
(* live path, the resolver and the operator try to close it (SettleSpend,  *)
(* ReverseSpend, AssertPaymentOutcome).                                    *)
THEOREM BooksMatchOutcomes == Spec => []LedgerMatchesOutcome
<1>1. Money => LedgerMatchesOutcome
  BY DEF Money
<1> QED BY <1>1, MoneyInvariance, PTL

(* The app books a payment as settled only for an invoice that was paid    *)
(* (closeReservation with the node's answer).                              *)
THEOREM SettledOnlyIfPaid == Spec => []SettledWasPaid
<1>1. Money => SettledWasPaid
  BY DEF Money
<1> QED BY <1>1, MoneyInvariance, PTL

-----------------------------------------------------------------------------
(***************************************************************************)
(* The ceiling: what the operator allocated is the free balance and what   *)
(* the rows took, reserves and excess fees alike.                          *)
(***************************************************************************)
Taken == [r \in Rows |-> excess[r] - net[r]]
CeilingAccounted == allocated = balance + SumFunctionOnSet(Taken, Rows)

(* A step that moves the entries of one row at most, and the balance by as *)
(* much, keeps the account.                                                *)
LEMMA OneRowMoves ==
  ASSUME IsFiniteSet(Rows), Money, CeilingAccounted, Money', NEW r \in Rows,
         \A q \in Rows \ {r} : net'[q] = net[q] /\ excess'[q] = excess[q],
         allocated' = allocated,
         balance' = balance + (net'[r] - net[r]) - (excess'[r] - excess[r])
  PROVE  CeilingAccounted'
<1> DEFINE Total == SumFunctionOnSet(Taken, Rows)
<1>1. /\ \A q \in Rows : net[q] \in Int /\ excess[q] \in Int
      /\ \A q \in Rows : net'[q] \in Int /\ excess'[q] \in Int
      /\ allocated \in Int /\ balance \in Int
  BY DEF Money, IInv, TypeOK
<1>2. /\ \A q \in Rows : Taken[q] \in Int /\ Taken[q] = excess[q] - net[q]
      /\ \A q \in Rows : Taken'[q] \in Int /\ Taken'[q] = excess'[q] - net'[q]
  BY <1>1 DEF Taken
<1>3. \A q \in Rows \ {r} : Taken'[q] = Taken[q]
  BY <1>1, <1>2
<1>4. Total' = Total - Taken[r] + Taken'[r]
  BY <1>2, <1>3, SumMoves
<1>5. Total \in Int
  BY <1>2, SumIsInt
<1>6. /\ CeilingAccounted <=> allocated = balance + Total
      /\ CeilingAccounted' <=> allocated' = balance' + Total'
  BY DEF CeilingAccounted
<1> HIDE DEF Total
<1> QED BY <1>1, <1>2, <1>4, <1>5, <1>6

(* Every step keeps the account.                                           *)
LEMMA NextAccounts ==
  ASSUME IsFiniteSet(Rows), Money, CeilingAccounted, [Next]_vars
  PROVE  CeilingAccounted'
<1>1. Money'
  BY NextInv, NextBalances DEF Money
<1>2. CASE UNCHANGED <<net, excess, balance, allocated>>
  BY <1>2 DEF CeilingAccounted, Taken
<1>3. ASSUME NEW r \in Rows, NEW won \in BOOLEAN, CloseReservation(r, won),
             allocated' = allocated
      PROVE  CeilingAccounted'
  <2>1. CASE Booked(r, won) /\ won /\ SettleSpend(r)
    <3>1. Refund(r) \in Int /\ Over(r) \in Int /\ balance \in Int
          /\ net[r] \in Int /\ excess[r] \in Int
      BY PaymentsAssumption DEF Money, IInv, TypeOK, Refund, Over
    <3>2. /\ \A q \in Rows \ {r} : net'[q] = net[q] /\ excess'[q] = excess[q]
          /\ net'[r] = net[r] + Refund(r) /\ excess'[r] = excess[r] + Over(r)
          /\ balance' = balance + Refund(r) - Over(r)
      BY <2>1 DEF Money, IInv, TypeOK, SettleSpend
    <3> QED BY <1>1, <1>3, <3>1, <3>2, OneRowMoves
  <2>2. CASE Booked(r, won) /\ ~won /\ ReverseSpend(r)
    <3>1. Returned(r) \in Int /\ balance \in Int /\ net[r] \in Int /\ excess[r] \in Int
      BY PaymentsAssumption DEF Money, IInv, TypeOK, Returned, Charge
    <3>2. /\ \A q \in Rows \ {r} : net'[q] = net[q] /\ excess'[q] = excess[q]
          /\ net'[r] = net[r] + Returned(r) /\ excess'[r] = excess[r]
          /\ balance' = balance + Returned(r)
      BY <2>2 DEF Money, IInv, TypeOK, ReverseSpend
    <3> QED BY <1>1, <1>3, <3>1, <3>2, OneRowMoves
  <2> QED BY <1>2, <1>3, <2>1, <2>2 DEF CloseReservation
<1>4. ASSUME NEW r \in Rows, Reserve(r) PROVE CeilingAccounted'
  <2>1. CASE ReserveSpend(r)
    <3>1. net[r] = 0 /\ balance \in Int /\ Charge \in Int
          /\ excess[r] \in Int
      BY <1>4, PaymentsAssumption
      DEF Money, IInv, TypeOK, Lifecycle, Reserve, LedgerMatchesOutcome, RowBalances, Charge
    <3>2. /\ \A q \in Rows \ {r} : net'[q] = net[q] /\ excess'[q] = excess[q]
          /\ net'[r] = -Charge /\ excess'[r] = excess[r]
          /\ balance' = balance - Charge /\ allocated' = allocated
      BY <1>4, <2>1 DEF Money, IInv, TypeOK, Reserve, ReserveSpend
    <3> QED BY <1>1, <3>1, <3>2, OneRowMoves
  <2> QED BY <1>2, <1>4, <2>1 DEF Reserve
<1>5. ASSUME NEW r \in Rows, AssertOutcome(r) PROVE CeilingAccounted'
  <2>1. CASE ReverseSpend(r)
    <3>1. Returned(r) \in Int /\ balance \in Int /\ net[r] \in Int /\ excess[r] \in Int
      BY PaymentsAssumption DEF Money, IInv, TypeOK, Returned, Charge
    <3>2. /\ \A q \in Rows \ {r} : net'[q] = net[q] /\ excess'[q] = excess[q]
          /\ net'[r] = net[r] + Returned(r) /\ excess'[r] = excess[r]
          /\ balance' = balance + Returned(r) /\ allocated' = allocated
      BY <1>5, <2>1 DEF Money, IInv, TypeOK, ReverseSpend, AssertOutcome
    <3> QED BY <1>1, <3>1, <3>2, OneRowMoves
  <2> QED BY <1>2, <1>5, <2>1 DEF AssertOutcome
<1>6. ASSUME NEW to \in Allocations, AdjustBalance(to) PROVE CeilingAccounted'
  <2> DEFINE Total == SumFunctionOnSet(Taken, Rows)
  <2>1. \A q \in Rows : Taken[q] \in Int
    BY DEF Money, IInv, TypeOK, Taken
  <2>2. Total \in Int
    BY <2>1, SumIsInt
  <2>3. Total' = Total /\ allocated' = to /\ balance' = balance + (to - allocated)
    BY <1>6 DEF AdjustBalance, Taken
  <2>4. to \in Int /\ allocated \in Int /\ balance \in Int
    BY PaymentsAssumption DEF Money, IInv, TypeOK
  <2>5. /\ CeilingAccounted <=> allocated = balance + Total
        /\ CeilingAccounted' <=> allocated' = balance' + Total'
    BY DEF CeilingAccounted
  <2> HIDE DEF Total
  <2> QED BY <2>2, <2>3, <2>4, <2>5
<1>7. ASSUME NEW r \in Rows, Live(r) \/ StreamBreaks(r) PROVE CeilingAccounted'
  BY <1>2, <1>3, <1>4, <1>7 DEF Live, Admit, MarkDispatched, SendPayment, StreamBreaks,
     Answer, AskRecord, ClearDispatched, CloseLive, book
<1>8. ASSUME NEW r \in Rows, Resolve(r) PROVE CeilingAccounted'
  BY <1>2, <1>3, <1>8 DEF Resolve, Track, Deadline, ReverseUnsent, NameForgotten, NoAnswer,
     BookAnswer, book
<1>9. CASE \/ StartPass \/ ReconCheck \/ Restart \/ NodeDown \/ NodeUp
           \/ \E r \in Rows : Age(r) \/ Request(r)
           \/ \E h \in Hashes : Network(h)
           \/ UNCHANGED vars
  BY <1>2, <1>9 DEF StartPass, ReconCheck, Restart, NodeDown, NodeUp, Age, Request, Network,
     NodeAccepts, NodeRefuses, RequestLost, PaymentSettles, PaymentFails, RecordDeleted,
     vars, book
<1> QED BY <1>5, <1>6, <1>7, <1>8, <1>9 DEF Next

(* What was really spent is in the account: every invoice that was paid    *)
(* has a row to itself that took at least its amount and capped fee.       *)
LEMMA AccountCoversSpend ==
  ASSUME IsFiniteSet(Rows), Money, CeilingAccounted
  PROVE  BalanceCoversSpend
<1> DEFINE Fee(h) == IF cost[h] < MaxFee THEN cost[h] ELSE MaxFee
           Ours == {h \in Hashes : paid[h] \in Rows \ asserted}
           Spent == [h \in Ours |-> Amount + Fee(h)]
           Payer == [h \in Ours |-> paid[h]]
           Total == SumFunctionOnSet(Taken, Rows)
           Sum == SumFunctionOnSet(Spent, Ours)
<1>1. \A h \in Ours : h \in Hashes /\ paid[h] \in Rows \ asserted /\ hash[paid[h]] = h
                     /\ paid[hash[paid[h]]] = paid[h]
  BY PaymentsAssumption DEF Money, IInv, NodeAgrees
<1>2. \A r \in Rows : Taken[r] \in Nat
  <2>1. ASSUME NEW r \in Rows PROVE excess[r] - net[r] \in Nat
    <3>1. /\ excess[r] \in Nat /\ net[r] \in Int /\ cost[hash[r]] \in Nat
          /\ state[r] \in {"none", "pending", "settled", "failed"} /\ RowBalances(r)
      BY DEF Money, IInv, TypeOK, LedgerMatchesOutcome
    <3> QED BY <3>1, PaymentsAssumption DEF RowBalances, Charge, Over
  <2> QED BY <2>1 DEF Taken
<1>3. \A h \in Ours : Spent[h] \in Nat /\ Spent[h] <= Taken[Payer[h]]
  <2>1. ASSUME NEW h \in Ours, NEW r \in Rows, r = paid[h]
        PROVE  Amount + Fee(h) \in Nat /\ Amount + Fee(h) <= excess[r] - net[r]
    <3>1. /\ hash[r] = h /\ paid[hash[r]] = r /\ r \notin asserted
          /\ excess[r] \in Nat /\ net[r] \in Int /\ cost[h] \in Nat /\ RowBalances(r)
      BY <1>1, <2>1 DEF Money, IInv, TypeOK, LedgerMatchesOutcome
    <3>2. state[r] \in {"pending", "settled"}
      BY <3>1 DEF Money, IInv, NodeAgrees
    <3> QED BY <3>1, <3>2, PaymentsAssumption DEF RowBalances, Charge, Over
  <2> QED BY <1>1, <2>1 DEF Taken
<1>4. Payer \in [Ours -> Rows] /\ \A g, h \in Ours : Payer[g] = Payer[h] => g = h
  BY <1>1
<1>5. IsFiniteSet(Ours)
  BY <1>4, FS_Injection DEF IsInjective, Injection, ExistsInjection
<1>6. Sum <= Total
  <2> HIDE DEF Spent, Payer, Ours
  <2> QED BY <1>2, <1>3, <1>4, <1>5, SumFits
<1>7. Sum \in Nat /\ Total \in Nat
  <2> HIDE DEF Spent, Ours
  <2> QED BY <1>2, <1>3, <1>5, SumIsNat
<1>8. SumFunction(Spent) = Sum
  BY DEF SumFunction
<1>9. allocated = balance + Total /\ balance \in Nat
  BY DEF CeilingAccounted, Money, IInv, TypeOK
<1>10. balance + SumFunction(Spent) <= allocated
  <2> HIDE DEF Spent, Ours, Total, Sum
  <2> QED BY <1>6, <1>7, <1>8, <1>9
<1> QED BY <1>10 DEF BalanceCoversSpend

(* The ceiling the operator set covers the free balance and all that the   *)
(* network settled for rows the app decides (appendBalanceEntry,           *)
(* SettleSpend).                                                           *)
THEOREM TheCeilingCoversSpend ==
  ASSUME IsFiniteSet(Rows)
  PROVE  Spec => []BalanceCoversSpend
<1>1. Init => CeilingAccounted
  <2>1. Init => \A r \in Rows : Taken[r] = 0
    BY DEF Init, Taken
  <2> QED BY <2>1, SumOfZeros DEF Init, CeilingAccounted
<1>2. Money /\ CeilingAccounted /\ [Next]_vars => CeilingAccounted'
  BY NextAccounts
<1>3. Money /\ CeilingAccounted => BalanceCoversSpend
  BY AccountCoversSpend
<1> QED BY <1>1, <1>2, <1>3, MoneyInvariance, PTL DEF Spec

-----------------------------------------------------------------------------
(***************************************************************************)
(* The escrow.                                                             *)
(***************************************************************************)
Moved == {r \in Rows : paid[hash[r]] = r}

(* Closing by a true answer is keeping or giving back, or nothing at all.  *)
LEMMA ClosingIsAbstract ==
  ASSUME IInv, NEW r \in Rows, NEW won \in BOOLEAN, CloseReservation(r, won),
         UNCHANGED <<hash, asserted, paid>>,
         won => paid[hash[r]] # 0,
         ~won /\ state[r] = "pending" => paid[hash[r]] # r
  PROVE  [Abstract!Next]_(Abstract!vars)
<1>1. UNCHANGED Moved
  BY DEF Moved
<1>2. CASE Booked(r, won) /\ won /\ SettleSpend(r)
  <2>1. state[r] = "pending" /\ state' = [state EXCEPT ![r] = "settled"]
    BY <1>2 DEF Booked, CanSettle, Closable, Pending, SettleSpend
  <2>2. paid[hash[r]] \in Moved /\ hash[paid[hash[r]]] = hash[r]
    BY <1>2 DEF IInv, TypeOK, NodeAgrees, Moved
  <2>3. balance' \in Nat /\ balance' <= balance + Charge
    BY <1>2, PaymentsAssumption
    DEF IInv, TypeOK, Booked, CanSettle, SettleSpend, Refund, Over, Charge
  <2>4. Abstract!Keep(r)
    BY <2>1, <2>2, <2>3, <1>1 DEF Abstract!Keep, Moved
  <2> QED BY <2>4 DEF Abstract!Next
<1>3. CASE Booked(r, won) /\ ~won /\ ReverseSpend(r)
  <2>1. state[r] = "pending" /\ r \notin Moved
    BY <1>3 DEF Booked, Closable, Pending, Moved
  <2>2. Abstract!GiveBack(r)
    BY <1>1, <1>3, <2>1 DEF Abstract!GiveBack, Moved, ReverseSpend, Returned
  <2> QED BY <2>2 DEF Abstract!Next
<1>4. CASE UNCHANGED <<state, net, excess, balance>>
  BY <1>1, <1>4 DEF Abstract!vars, Moved
<1> QED BY <1>2, <1>3, <1>4 DEF CloseReservation

(* Every step of the program is a step of the escrow or none at all.       *)
LEMMA StepIsAbstract ==
  ASSUME IInv, [Next]_vars
  PROVE  [Abstract!Next]_(Abstract!vars)
<1> DEFINE Implements == [Abstract!Next]_(Abstract!vars)
<1>1. CASE UNCHANGED <<state, hash, asserted, balance, paid>>
  BY <1>1 DEF Abstract!vars
<1>2. ASSUME NEW r \in Rows, Reserve(r) PROVE Implements
  <2>1. CASE CanReserve(r) /\ ReserveSpend(r)
    <3>1. state[r] = "none"
      BY <1>2 DEF IInv, Lifecycle, Reserve
    <3>2. Abstract!Hold(r)
      BY <1>2, <2>1, <3>1 DEF Abstract!Hold, CanReserve, ReserveSpend, Reserve, node
    <3> QED BY <3>2 DEF Abstract!Next
  <2>2. CASE UNCHANGED <<state, net, balance>>
    BY <1>1, <1>2, <2>2 DEF Reserve, node
  <2> QED BY <1>2, <2>1, <2>2 DEF Reserve
<1>3. ASSUME NEW r \in Rows, CloseLive(r) PROVE Implements
  <2>1. /\ pc[r] = "won" => paid[hash[r]] # 0
        /\ pc[r] # "won" /\ state[r] = "pending" => paid[hash[r]] # r
    BY <1>3, PaymentsAssumption DEF IInv, Answers, CloseLive
  <2> QED BY <1>3, <2>1, ClosingIsAbstract DEF CloseLive, node
<1>4. ASSUME NEW r \in Rows, ReverseUnsent(r) PROVE Implements
  <2>1. paid[hash[r]] # r
    BY <1>4 DEF IInv, Untouched, Touched, ReverseUnsent, Current
  <2> QED BY <1>4, <2>1, ClosingIsAbstract DEF ReverseUnsent, node
<1>5. ASSUME NEW r \in Rows, BookAnswer(r) PROVE Implements
  <2>1. /\ verdict = "succeeded" => paid[hash[r]] # 0
        /\ verdict # "succeeded" /\ state[r] = "pending" => paid[hash[r]] # r
    BY <1>5 DEF IInv, Answers, BookAnswer
  <2> QED BY <1>5, <2>1, ClosingIsAbstract DEF BookAnswer, node
<1>6. ASSUME NEW r \in Rows, AssertOutcome(r) PROVE Implements
  <2>1. Abstract!Overrule(r)
    BY <1>6 DEF Abstract!Overrule, AssertOutcome, Assertable, Closable, Pending,
       ReverseSpend, Returned, node
  <2> QED BY <1>6, <2>1 DEF Abstract!Next
<1>7. ASSUME NEW to \in Allocations, AdjustBalance(to) PROVE Implements
  <2>1. balance' \in Nat
    BY <1>7, AdjustBalanceKeeps DEF IInv, TypeOK
  <2>2. Abstract!SetCeiling
    BY <1>7, <2>1 DEF Abstract!SetCeiling, AdjustBalance, node
  <2> QED BY <2>2 DEF Abstract!Next
<1>8. ASSUME NEW h \in Hashes, PaymentSettles(h) PROVE Implements
  <2>1. /\ by[h] \in Rows /\ hash[by[h]] = h
        /\ state[by[h]] = "pending" \/ by[h] \in asserted
    BY <1>8 DEF IInv, NodeAgrees, PaymentSettles
  <2>2. \A q \in Moved : hash[q] # h
    BY <1>8, PaymentsAssumption DEF Moved, PaymentSettles
  <2>3. Moved' = Moved \cup {by[h]}
    BY <1>8, <2>1, <2>2 DEF IInv, TypeOK, Moved, PaymentSettles
  <2>4. PICK r \in Rows : r = by[h]
    BY <2>1
  <2>5. Abstract!Move(r)
    BY <1>8, <2>1, <2>2, <2>3, <2>4 DEF Abstract!Move, Moved, PaymentSettles, book
  <2> QED BY <2>5 DEF Abstract!Next
<1>9. ASSUME NEW r \in Rows, Live(r) \/ StreamBreaks(r) PROVE Implements
  BY <1>1, <1>2, <1>3, <1>9 DEF Live, Admit, MarkDispatched, SendPayment, StreamBreaks,
     Answer, AskRecord, ClearDispatched, book, node
<1>10. ASSUME NEW r \in Rows, Resolve(r) PROVE Implements
  BY <1>1, <1>4, <1>5, <1>10 DEF Resolve, Track, Deadline, NameForgotten, NoAnswer,
     book, node
<1>11. CASE \/ StartPass \/ ReconCheck \/ Restart \/ NodeDown \/ NodeUp
            \/ \E r \in Rows : Age(r) \/ Request(r)
            \/ \E h \in Hashes : PaymentFails(h) \/ RecordDeleted(h)
            \/ UNCHANGED vars
  BY <1>1, <1>11 DEF StartPass, ReconCheck, Restart, NodeDown, NodeUp, Age, Request,
     NodeAccepts, NodeRefuses, RequestLost, PaymentFails, RecordDeleted, vars, book, node
<1> QED BY <1>6, <1>7, <1>8, <1>9, <1>10, <1>11 DEF Next, Network

(* The payment path, with its crashes, lost requests and deleted records,  *)
(* implements the escrow.                                                  *)
THEOREM PaymentsAreAnEscrow == Spec => RefinesEscrow
<1>1. Init => Abstract!Init
  <2>1. Init => Moved = {}
    BY PaymentsAssumption DEF Init, Moved
  <2> QED BY <2>1 DEF Init, Abstract!Init, Moved
<1>2. IInv /\ [Next]_vars => [Abstract!Next]_(Abstract!vars)
  BY StepIsAbstract
<1> QED BY <1>1, <1>2, Invariance, PTL DEF Spec, RefinesEscrow, Abstract!Spec
=============================================================================
