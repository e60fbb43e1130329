--------------------------- MODULE InvoicesProofs ---------------------------
(***************************************************************************)
(* What holds of the invoice stream for every set of invoices, every       *)
(* sequence of settlements and any number of crashes, broken streams and   *)
(* failed statements.                                                      *)
(*                                                                         *)
(* CreditedOnce needs that a balance entry is made only together with the  *)
(* ledger row that stops the next one.  NothingSkipped needs to know where *)
(* the stream is: everything up to its cursor is on record or in hand, and *)
(* a new stream starts at a resume point for which that is true.  The      *)
(* second half fails for a resume point of zero, where the node sends no   *)
(* backlog, so that theorem is about installations that have handled a     *)
(* settlement before (FirstIndex > 0).                                     *)
(*                                                                         *)
(* The zap receipts on top of the stream leave both where they are, and    *)
(* have an invariant of their own (ZIInv): a payment has one job at most,  *)
(* whose deadline is never earlier than that of its row, a row about to be *)
(* dropped has its reason, and every attempt has cost a tick of the window. *)
(***************************************************************************)
EXTENDS ZapReceipts, FiniteSums, TLAPS

(* A settled row and a ledger row come together, a balance entry only with *)
(* them, and an invoice has no row before its call has written one: other  *)
(* applications' invoices never have.                                      *)
Recorded ==
  /\ SettledTogether
  /\ \A h \in Hashes : credits[h] <= IF h \in txns THEN 1 ELSE 0
  /\ \A h \in Hashes : call[h] \in {"none", "minted"} => row[h] = "none"
  /\ \A h \in Foreign : call[h] = "none"

(* An invoice of ours is paid only after its row was written.              *)
OnRecord ==
  /\ \A h \in Hashes : call[h] \in {"recorded", "answered"} => row[h] # "none"
  /\ \A h \in Ours : index[h] > 0 => call[h] = "answered"

(* Settle indexes are distinct.                                            *)
Ordered == \A g, h \in Hashes : index[g] = index[h] /\ index[h] > 0 => g = h

(* A handler at work has its settlement from an open stream, and has       *)
(* recorded it before it goes on.                                          *)
InHand ==
  stage # "waiting" =>
    /\ open /\ index[cur] = cursor /\ index[cur] > 0
    /\ stage # "received" /\ cur \in Ours => cur \in txns

(* What the stream has delivered is on record or in hand.                  *)
Delivered ==
  open => \A h \in Ours : index[h] \in 1..cursor => h \in txns \/ h = cur

IInv == TypeOK /\ Recorded

Position == OnRecord /\ Ordered /\ InHand /\ Delivered /\ NothingSkipped /\ resume > 0

-----------------------------------------------------------------------------
LEMMA InitIInv == Init => IInv
<1> SUFFICES ASSUME Init PROVE TypeOK /\ Recorded
  BY DEF IInv
<1>1. TypeOK
  <2>1. index \in [Hashes -> 0..last] /\ last \in Nat /\ resume \in 0..last /\ cursor \in 0..last
    BY InvoicesAssumption DEF Init
  <2>2. /\ call \in [Hashes -> {"none", "minted", "recorded", "answered", "failed"}]
        /\ kind \in [Hashes -> Kinds \cup {"plain"}]
        /\ row \in [Hashes -> {"none", "open", "expired", "settled"}]
        /\ txns \subseteq Hashes /\ credits \in [Hashes -> Nat]
    BY DEF Init
  <2>3. /\ crashes \in 0..MaxCrashes /\ breaks \in 0..MaxBreaks /\ faults \in 0..MaxFaults
    BY InvoicesAssumption DEF Init
  <2> QED BY <2>1, <2>2, <2>3 DEF Init, TypeOK
<1>2. Recorded
  BY InvoicesAssumption DEF Init, Recorded, SettledTogether
<1> QED BY <1>1, <1>2

(* A stream that ends leaves well-typed variables behind.                  *)
LEMMA StopTypes ==
  ASSUME TypeOK, Stop, UNCHANGED <<index, last, kind, ledger, crediting, resume>>,
         call' \in [Hashes -> {"none", "minted", "recorded", "answered", "failed"}],
         crashes' \in 0..MaxCrashes, breaks' \in 0..MaxBreaks, faults' \in 0..MaxFaults
  PROVE  TypeOK'
<1>1. open' \in BOOLEAN /\ stage' = "waiting" /\ cur' = NoHash
  BY Zenon DEF Stop
<1>2. cursor' = 0 /\ last' \in Nat
  BY DEF Stop, TypeOK
<1>3. cursor' \in 0..last'
  BY <1>2
<1>4. /\ index' \in [Hashes -> 0..last'] /\ last' \in Nat
      /\ kind' \in [Hashes -> Kinds \cup {"plain"}]
      /\ row' \in [Hashes -> {"none", "open", "expired", "settled"}]
      /\ txns' \subseteq Hashes /\ credits' \in [Hashes -> Nat]
      /\ crediting' \in BOOLEAN /\ resume' \in 0..last'
  BY DEF TypeOK, ledger
<1> QED BY <1>1, <1>3, <1>4 DEF TypeOK

LEMMA StepTypeOK == TypeOK /\ [Next]_vars => TypeOK'
<1> SUFFICES ASSUME TypeOK, [Next]_vars PROVE TypeOK'
  OBVIOUS
<1> USE InvoicesAssumption DEF TypeOK, minting, ledger, stream, bounds
<1>1. ASSUME Mint PROVE TypeOK'
  BY <1>1 DEF Mint, AddInvoice, CreateInvoice, CreateFails, Answer
<1>2. ASSUME Node PROVE TypeOK'
  BY <1>2 DEF Node, Settle
<1>3. ASSUME Stream PROVE TypeOK'
  <2>1. ASSUME Subscribe PROVE TypeOK'
    BY <2>1 DEF Subscribe, StartsAfter
  <2>2. ASSUME NEW h \in Hashes, Receive(h) PROVE TypeOK'
    BY <2>2 DEF Receive
  <2>3. ASSUME CreditInvoice PROVE TypeOK'
    BY <2>3 DEF CreditInvoice, Post
  <2>4. ASSUME CreditFails \/ SetLastFails \/ Break PROVE TypeOK'
    <3>1. Stop /\ UNCHANGED <<index, last, minting, ledger, crediting, resume>>
      BY <2>4 DEF CreditFails, SetLastFails, Break, AfterFailure
    <3>2. crashes' \in 0..MaxCrashes /\ breaks' \in 0..MaxBreaks /\ faults' \in 0..MaxFaults
      BY <2>4 DEF CreditFails, SetLastFails, Break
    <3> QED BY <3>1, <3>2, StopTypes
  <2>5. ASSUME SetLastSettleIndex PROVE TypeOK'
    BY <2>5 DEF SetLastSettleIndex
  <2> QED BY <1>3, <2>1, <2>2, <2>3, <2>4, <2>5 DEF Stream
<1>4. ASSUME Notify PROVE TypeOK'
  BY <1>4 DEF Notify, Notified
<1>5. ASSUME Sweep PROVE TypeOK'
  BY <1>5 DEF Sweep, ExpireInvoices
<1>6. ASSUME Operator PROVE TypeOK'
  BY <1>6 DEF Operator, SetCreditReceived
<1>7. ASSUME Crash PROVE TypeOK'
  <2>1. Stop /\ UNCHANGED <<index, last, kind, ledger, crediting, resume>>
    BY <1>7 DEF Crash
  <2>2. call' \in [Hashes -> {"none", "minted", "recorded", "answered", "failed"}]
    BY <1>7 DEF Crash, Cut
  <2>3. crashes' \in 0..MaxCrashes /\ breaks' \in 0..MaxBreaks /\ faults' \in 0..MaxFaults
    BY <1>7 DEF Crash
  <2> QED BY <2>1, <2>2, <2>3, StopTypes
<1>8. ASSUME UNCHANGED vars PROVE TypeOK'
  BY <1>8 DEF vars
<1> QED BY <1>1, <1>2, <1>3, <1>4, <1>5, <1>6, <1>7, <1>8 DEF Next

(* Three actions touch the ledger: a row is written, a settlement posted,  *)
(* rows expire.  The calls move by themselves in four more.                *)
LEMMA StepRecorded == IInv /\ [Next]_vars => Recorded'
<1> SUFFICES ASSUME TypeOK, Recorded, [Next]_vars PROVE Recorded'
  BY DEF IInv
<1> USE InvoicesAssumption DEF TypeOK, Recorded, SettledTogether, ledger
<1>1. ASSUME NEW h \in Hashes, CreateInvoice(h) PROVE Recorded'
  BY <1>1 DEF CreateInvoice
<1>2. ASSUME CreditInvoice PROVE Recorded'
  <2>1. CASE Known(cur) /\ Fresh(cur)
    <3>1. cur \in Hashes /\ Post /\ call' = call
      BY <1>2, <2>1 DEF CreditInvoice, minting
    <3>2. call[cur] \notin {"none", "minted"}
      BY <2>1, <3>1 DEF Known
    <3> QED BY <2>1, <3>1, <3>2 DEF Post, Fresh
  <2>2. CASE ~(Known(cur) /\ Fresh(cur))
    BY <1>2, <2>2 DEF CreditInvoice, minting
  <2> QED BY <2>1, <2>2
<1>3. ASSUME Sweep PROVE Recorded'
  <2>1. PICK late \in SUBSET {h \in Hashes : PastDue(h)} :
          /\ row' = [h \in Hashes |-> IF h \in late THEN "expired" ELSE row[h]]
          /\ UNCHANGED <<txns, credits, call>>
    BY <1>3 DEF Sweep, ExpireInvoices, minting
  <2>2. \A h \in late : h \in Hashes /\ row[h] = "open"
    BY <2>1 DEF PastDue
  <2> QED BY <2>1, <2>2
<1>4. ASSUME UNCHANGED <<ledger, call>> PROVE Recorded'
  BY <1>4
<1>5. ASSUME NEW h \in Hashes, NEW k \in Kinds, AddInvoice(h, k) PROVE Recorded'
  BY <1>5 DEF AddInvoice
<1>6. ASSUME NEW h \in Hashes, CreateFails(h) \/ Answer(h) PROVE Recorded'
  BY <1>6 DEF CreateFails, Answer, Answerable
<1>7. ASSUME Crash PROVE Recorded'
  BY <1>7 DEF Crash, Cut
<1>8. ASSUME Stream \/ Notify \/ Node \/ Operator \/ UNCHANGED vars
      PROVE CreditInvoice \/ UNCHANGED <<ledger, call>>
  BY <1>8 DEF Stream, Notify, Node, Operator, vars, minting, Settle, Subscribe, Receive,
     CreditFails, SetLastSettleIndex, SetLastFails, Break, SetCreditReceived
<1> QED BY <1>1, <1>2, <1>3, <1>4, <1>5, <1>6, <1>7, <1>8 DEF Next, Mint

-----------------------------------------------------------------------------
(* What the variables may hold is what they do hold.                       *)
THEOREM TypeCorrect == Spec => []TypeOK
<1>1. IInv /\ [Next]_vars => IInv'
  BY StepTypeOK, StepRecorded DEF IInv
<1> QED BY InitIInv, <1>1, PTL DEF Spec, IInv

LEMMA IInvCreditsOnce == IInv => CreditedOnce
<1> SUFFICES ASSUME IInv, NEW h \in Hashes
             PROVE credits[h] <= IF h \in Ours THEN 1 ELSE 0
  BY DEF CreditedOnce
<1>1. h \in Foreign => row[h] = "none"
  BY DEF IInv, Recorded
<1>2. h \in Foreign => h \notin txns
  BY <1>1 DEF IInv, Recorded, SettledTogether
<1> QED BY <1>2 DEF IInv, Recorded, TypeOK, Ours

(* A payment raises the balance at most once however often it is           *)
(* delivered, and other applications' payments never do                    *)
(* (CreditSettledInvoice).                                                 *)
THEOREM CreditsOnce == Spec => []CreditedOnce
<1>1. IInv /\ [Next]_vars => IInv'
  BY StepTypeOK, StepRecorded DEF IInv
<1> QED BY InitIInv, <1>1, IInvCreditsOnce, PTL DEF Spec

(* The invoice's state and the ledger's row agree at every moment, whatever *)
(* the expiry sweep does (ExpireInvoices, CreditSettledInvoice).           *)
THEOREM RecordsAgree == Spec => []SettledTogether
<1>1. IInv /\ [Next]_vars => IInv'
  BY StepTypeOK, StepRecorded DEF IInv
<1> QED BY InitIInv, <1>1, PTL DEF Spec, IInv, Recorded

-----------------------------------------------------------------------------
LEMMA InitPosition == Init /\ FirstIndex > 0 => Position
BY InvoicesAssumption DEF Init, Position, OnRecord, Ordered, InHand, Delivered,
   NothingSkipped, Ours

(* Minting, the sweep, the setting: the stream's variables stay, and a row *)
(* once written stays written.                                             *)
LEMMA ElsewhereKeeps ==
  ASSUME IInv, Position, Mint \/ Sweep \/ Operator PROVE Position'
<1> USE DEF IInv, TypeOK, Position, minting, stream, bounds
<1>1. UNCHANGED <<index, resume, stream, txns>>
  BY DEF Mint, Sweep, Operator, AddInvoice, CreateInvoice, CreateFails, Answer,
     ExpireInvoices, SetCreditReceived, ledger
<1>2. OnRecord'
  <2>1. ASSUME Mint PROVE OnRecord'
    <3>1. ASSUME NEW h \in Hashes, NEW k \in Kinds, AddInvoice(h, k) PROVE OnRecord'
      BY <3>1 DEF OnRecord, AddInvoice, ledger, Ours
    <3>2. ASSUME NEW h \in Hashes, CreateInvoice(h) PROVE OnRecord'
      BY <3>2 DEF OnRecord, CreateInvoice, Ours
    <3>3. ASSUME NEW h \in Hashes, CreateFails(h) \/ Answer(h) PROVE OnRecord'
      BY <3>3 DEF OnRecord, CreateFails, Answer, Answerable, ledger, Ours
    <3> QED BY <2>1, <3>1, <3>2, <3>3 DEF Mint
  <2>2. ASSUME Sweep PROVE OnRecord'
    BY <2>2 DEF OnRecord, Sweep, ExpireInvoices, Ours
  <2>3. ASSUME Operator PROVE OnRecord'
    BY <2>3 DEF OnRecord, Operator, SetCreditReceived, ledger, Ours
  <2> QED BY <2>1, <2>2, <2>3
<1> QED BY <1>1, <1>2 DEF Ordered, InHand, Delivered, NothingSkipped, Ours

LEMMA SettleKeeps ==
  ASSUME IInv, Position, NEW s \in Hashes, Settle(s) PROVE Position'
<1> USE DEF IInv, TypeOK, Position, Settle, minting, ledger, stream
<1>1. OnRecord'
  BY DEF OnRecord, Ours
<1>2. Ordered'
  BY DEF Ordered
<1>3. \A h \in Hashes : index'[h] # index[h] => h = s /\ index'[h] > cursor /\ index'[h] > resume
  OBVIOUS
<1>4. InHand'
  BY <1>3 DEF InHand
<1>5. Delivered'
  BY <1>3 DEF Delivered, Ours
<1>6. NothingSkipped'
  BY <1>3 DEF NothingSkipped, Ours
<1> QED BY <1>1, <1>2, <1>4, <1>5, <1>6

(* A stream that ends takes nothing with it that is not delivered again.   *)
LEMMA StopKeeps ==
  ASSUME IInv, Position, Stop, UNCHANGED <<index, row, txns, resume>>,
         \A h \in Hashes : call'[h] # call[h] => call[h] # "answered" /\ call'[h] = "failed"
  PROVE  Position'
<1>1. OnRecord'
  BY DEF IInv, TypeOK, Position, OnRecord, Ours
<1> QED
  BY <1>1 DEF Position, Stop, Ordered, InHand, Delivered, NothingSkipped

(* A new stream starts where everything before is on record, and delivers  *)
(* in order from there.                                                    *)
LEMMA StreamKeeps ==
  ASSUME IInv, Position, Stream \/ Notify PROVE Position'
<1> USE DEF IInv, TypeOK, Position, minting, ledger, bounds
<1>1. ASSUME Subscribe PROVE Position'
  BY <1>1 DEF Subscribe, StartsAfter, OnRecord, Ordered, InHand, Delivered, NothingSkipped
<1>2. ASSUME NEW h \in Hashes, Receive(h) PROVE Position'
  <2>1. OnRecord' /\ Ordered' /\ NothingSkipped' /\ InHand' /\ (resume > 0)'
    BY <1>2 DEF Receive, OnRecord, Ordered, NothingSkipped, InHand, IsNext, Due
  <2>2. ASSUME NEW g \in Ours, index[g] \in 1..index[h], g # h PROVE g \in txns
    <3>1. g \in Hashes /\ index[g] # index[h]
      BY <2>2 DEF Ours, Ordered
    <3>2. ~Due(g)
      BY <1>2, <2>2, <3>1 DEF Receive, IsNext
    <3>3. index[g] \in 1..cursor
      BY <2>2, <3>1, <3>2 DEF Due
    <3>4. cur = NoHash /\ NoHash \notin Hashes
      BY <1>2, InvoicesAssumption DEF Receive
    <3> QED BY <1>2, <3>1, <3>3, <3>4 DEF Receive, Delivered
  <2>3. Delivered'
    BY <1>2, <2>2 DEF Receive, Delivered, Ours
  <2> QED BY <2>1, <2>3
<1>3. ASSUME CreditInvoice PROVE Position'
  <2>1. cur \in Ours => cur \in txns'
    <3>1. cur \in Ours => Known(cur)
      BY <1>3 DEF CreditInvoice, InHand, OnRecord, Known, Ours
    <3> QED BY <1>3, <3>1 DEF CreditInvoice, Post, Known, Fresh
  <2>2. txns \subseteq txns' /\ \A h \in Hashes : row[h] # "none" => row'[h] # "none"
    BY <1>3 DEF CreditInvoice, Post
  <2>3. UNCHANGED <<index, call, resume, open, cursor, cur>> /\ stage' \in {"credited", "handled"}
    BY <1>3 DEF CreditInvoice
  <2>4. open /\ index[cur] = cursor /\ index[cur] > 0
    BY <1>3 DEF CreditInvoice, InHand
  <2> QED BY <2>1, <2>2, <2>3, <2>4 DEF OnRecord, Ordered, InHand, Delivered, NothingSkipped, Ours
<1>4. ASSUME CreditFails \/ SetLastFails \/ Break PROVE Position'
  <2>1. Stop /\ UNCHANGED <<index, row, txns, call, resume>>
    BY <1>4 DEF CreditFails, SetLastFails, Break, AfterFailure
  <2> QED BY <2>1, StopKeeps
<1>5. ASSUME SetLastSettleIndex PROVE Position'
  <2>1. stage = "handled" /\ open /\ index[cur] = cursor /\ index[cur] > 0
        /\ (cur \in Ours => cur \in txns)
    BY <1>5 DEF SetLastSettleIndex, InHand
  <2>2. resume' = cursor /\ stage' = "waiting" /\ UNCHANGED <<index, row, txns, call, open, cursor>>
    BY <1>5, <2>1 DEF SetLastSettleIndex
  <2>3. \A h \in Ours : index[h] \in 1..cursor => h \in txns
    BY <2>1 DEF Delivered
  <2> QED BY <2>1, <2>2, <2>3 DEF OnRecord, Ordered, InHand, Delivered, NothingSkipped
<1>6. ASSUME Notify PROVE Position'
  BY <1>6 DEF Notify, Notified, OnRecord, Ordered, InHand, Delivered, NothingSkipped
<1> QED BY <1>1, <1>2, <1>3, <1>4, <1>5, <1>6 DEF Stream

LEMMA StepPosition == IInv /\ Position /\ [Next]_vars => Position'
<1> SUFFICES ASSUME IInv, Position, [Next]_vars PROVE Position'
  OBVIOUS
<1>1. ASSUME Node PROVE Position'
  BY <1>1, SettleKeeps DEF Node
<1>2. ASSUME Crash PROVE Position'
  <2>1. Stop /\ UNCHANGED <<index, row, txns, resume>>
    BY <1>2 DEF Crash, ledger
  <2>2. \A h \in Hashes : call'[h] # call[h] => call[h] # "answered" /\ call'[h] = "failed"
    BY <1>2 DEF Crash, Cut
  <2> QED BY <2>1, <2>2, StopKeeps
<1>3. ASSUME UNCHANGED vars PROVE Position'
  BY <1>3 DEF vars, minting, ledger, stream, Position, OnRecord, Ordered, InHand, Delivered,
     NothingSkipped
<1> QED BY <1>1, <1>2, <1>3, ElsewhereKeeps, StreamKeeps DEF Next

(* The resume point never passes a payment of ours that is not on record,  *)
(* on an installation that has handled a settlement before (streamOnce,    *)
(* handleSettlement).                                                      *)
THEOREM NothingIsSkipped == FirstIndex > 0 => (Spec => []NothingSkipped)
<1> SUFFICES ASSUME FirstIndex > 0 PROVE Spec => []NothingSkipped
  OBVIOUS
<1>1. Init => IInv /\ Position
  BY InitIInv, InitPosition
<1>2. IInv /\ Position /\ [Next]_vars => IInv' /\ Position'
  BY StepTypeOK, StepRecorded, StepPosition DEF IInv
<1>3. Position => NothingSkipped
  BY DEF Position
<1> QED BY <1>1, <1>2, <1>3, PTL DEF Spec
-----------------------------------------------------------------------------
(***************************************************************************)
(* The waits between two attempts double up to MaxBackoff (backoff).       *)
(***************************************************************************)
Wait(g, n) == IF n <= 1 THEN 1 ELSE Least(2 * g[n - 1], MaxBackoff)
Waits(g, S) == g = [n \in S |-> Wait(g, n)]

LEMMA WaitsAt ==
  ASSUME NEW S, NEW g, Waits(g, S), NEW n \in S PROVE g[n] = Wait(g, n)
BY Zenon DEF Waits

(* Two accounts of the first waits agree.                                  *)
LEMMA WaitsAgree ==
  ASSUME NEW m \in Nat, NEW k \in Nat, k <= m, NEW f, Waits(f, 0..m), NEW g, Waits(g, 0..k)
  PROVE  f[k] = g[k]
<1> DEFINE N == {n \in Nat : n <= k => f[n] = g[n]}
<1>1. \A n \in 0..k : f[n] = Wait(f, n) /\ g[n] = Wait(g, n)
  <2>1. \A n \in 0..k : n \in 0..m
    OBVIOUS
  <2> QED BY <2>1, WaitsAt
<1>2. 0 \in N
  BY <1>1 DEF Wait
<1>3. ASSUME NEW n \in N PROVE n + 1 \in N
  <2> SUFFICES ASSUME n + 1 <= k PROVE f[n + 1] = g[n + 1]
    OBVIOUS
  <2>1. f[n] = g[n] /\ n \in Nat
    OBVIOUS
  <2>2. f[n + 1] = Wait(f, n + 1) /\ g[n + 1] = Wait(g, n + 1) /\ (n + 1) - 1 = n
    BY <1>1, <2>1
  <2>3. Wait(f, n + 1) = Wait(g, n + 1)
    BY <2>1, <2>2 DEF Wait
  <2> QED BY <2>2, <2>3
<1>4. N = Nat
  <2> HIDE DEF N
  <2>1. N \in SUBSET Nat
    BY DEF N
  <2> QED BY <1>2, <1>3, <2>1, CountsUp
<1> QED BY <1>4

(* For every number there is such an account up to it.                     *)
LEMMA WaitsExist == \A m \in Nat : \E g : Waits(g, 0..m)
<1> DEFINE N == {m \in Nat : \E g : Waits(g, 0..m)}
<1>1. 0 \in N
  <2>1. Waits([n \in 0..0 |-> 1], 0..0)
    BY DEF Waits, Wait
  <2> QED BY <2>1
<1>2. ASSUME NEW m \in N PROVE m + 1 \in N
  <2>1. PICK g : Waits(g, 0..m)
    OBVIOUS
  <2> DEFINE f == [n \in 0..(m + 1) |-> IF n = m + 1 THEN Wait(g, n) ELSE g[n]]
  <2>2. ASSUME NEW n \in 0..(m + 1) PROVE f[n] = Wait(f, n)
    <3>1. n > 1 => f[n - 1] = g[n - 1]
      OBVIOUS
    <3>2. Wait(f, n) = Wait(g, n)
      <4> HIDE DEF f
      <4> QED BY <3>1 DEF Wait
    <3>3. n # m + 1 => g[n] = Wait(g, n)
      BY <2>1 DEF Waits
    <3> QED BY <3>2, <3>3
  <2>3. Waits(f, 0..(m + 1))
    <3>1. f = [n \in 0..(m + 1) |-> f[n]]
      OBVIOUS
    <3> HIDE DEF f
    <3> QED BY <2>2, <3>1 DEF Waits
  <2> QED BY <2>3
<1>3. N = Nat
  <2> HIDE DEF N
  <2>1. N \in SUBSET Nat
    BY DEF N
  <2> QED BY <1>1, <1>2, <2>1, CountsUp
<1> QED BY <1>3

(* So the waits are well defined.                                          *)
LEMMA DoubledIs == Waits(Doubled, Nat)
<1> DEFINE G(m) == CHOOSE g : Waits(g, 0..m)
           f == [n \in Nat |-> G(n)[n]]
<1>1. ASSUME NEW m \in Nat PROVE Waits(G(m), 0..m)
  BY WaitsExist
<1>2. ASSUME NEW n \in Nat PROVE f[n] = Wait(f, n)
  <2>1. G(n)[n] = Wait(G(n), n)
    <3>1. Waits(G(n), 0..n) /\ n \in 0..n
      BY <1>1
    <3> HIDE DEF G
    <3> QED BY <3>1, WaitsAt
  <2>2. ASSUME n > 1 PROVE f[n - 1] = G(n)[n - 1]
    <3>1. Waits(G(n), 0..n) /\ Waits(G(n - 1), 0..(n - 1)) /\ n - 1 \in Nat /\ n - 1 <= n
      BY <1>1, <2>2
    <3>2. G(n)[n - 1] = G(n - 1)[n - 1]
      <4> HIDE DEF G
      <4> QED BY <3>1, WaitsAgree
    <3> QED BY <3>1, <3>2
  <2>3. Wait(f, n) = Wait(G(n), n)
    <3> HIDE DEF f, G
    <3> QED BY <2>2 DEF Wait
  <2>4. f[n] = G(n)[n]
    OBVIOUS
  <2> HIDE DEF f, G
  <2> QED BY <2>1, <2>3, <2>4
<1>3. Waits(f, Nat)
  <2>1. f = [n \in Nat |-> f[n]]
    OBVIOUS
  <2> HIDE DEF f
  <2> QED BY <1>2, <2>1 DEF Waits
<1>4. Doubled = CHOOSE g : Waits(g, Nat)
  BY DEF Doubled, Waits, Wait
<1> HIDE DEF f
<1> QED BY <1>3, <1>4

(* A retry waits one tick at least and MaxBackoff at most.                 *)
LEMMA BackoffBounds == \A n \in Nat : Backoff(n) \in 1..MaxBackoff
<1> DEFINE N == {n \in Nat : Doubled[n] \in 1..MaxBackoff}
<1>1. \A n \in Nat : Doubled[n] = Wait(Doubled, n)
  BY DoubledIs DEF Waits
<1>2. 0 \in N
  BY <1>1, ZapReceiptsAssumption DEF Wait
<1>3. ASSUME NEW n \in N PROVE n + 1 \in N
  BY <1>1, ZapReceiptsAssumption DEF Wait, Least
<1>4. N = Nat
  <2> HIDE DEF N
  <2>1. N \in SUBSET Nat
    BY DEF N
  <2> QED BY <1>2, <1>3, <2>1, CountsUp
<1> QED BY <1>4 DEF Backoff
-----------------------------------------------------------------------------
(***************************************************************************)
(* The receipts.  A payment is known to the publisher, by the table, the   *)
(* channel or a job, only once OnSettled has been told of it; so Record    *)
(* finds neither a row nor a job of the same payment, and from then on the *)
(* table's deadline is never later than that of a job.                     *)
(***************************************************************************)
Told == txns \ (IF stage = "credited" THEN {cur} ELSE {})
Jobs == batch \cup (IF doing = "idle" THEN {} ELSE {pending})

Credited == stage \in {"credited", "recorded"} => cur \in txns

(* Every attempt has cost a tick of the window, and the wait for the next  *)
(* is one more.                                                            *)
Timely ==
  \A h \in Hashes : owed[h] # NoDebt =>
    h \in Told /\ owed[h].attempts + owed[h].left <= RetryWindow + owed[h].due

(* One job for a payment, with no earlier deadline than its row.           *)
Working ==
  /\ settled \subseteq Told
  /\ \A p \in Jobs : p.hash \in Told /\ p.attempts + p.left <= RetryWindow
  /\ \A p \in Jobs : owed[p.hash] # NoDebt => owed[p.hash].left <= p.left
  /\ \A p, q \in Jobs : p.hash = q.hash => p = q
  /\ doing # "idle" => pending \notin batch

(* A row about to be dropped has its reason.                               *)
Excused ==
  /\ doing \in {"building", "publishing", "recording"} => IsZap(pending.hash)
  /\ doing = "recording" => pending.hash \in accepted
  /\ doing = "dropping" => \/ pending.hash \in accepted \cup abandoned \cup unread
                           \/ ~IsZap(pending.hash)

Owing == ZTypeOK /\ Credited /\ Timely /\ Working /\ Excused
ZIInv == IInv /\ Owing

LEMMA InitZIInv == ZInit => ZIInv
<1> SUFFICES ASSUME ZInit PROVE ZIInv
  OBVIOUS
<1>1. IInv
  BY InitIInv DEF ZInit
<1>2. ZTypeOK
  BY <1>1, ZapReceiptsAssumption DEF ZInit, Init, IInv, ZTypeOK, NoWork, Job
<1>3. Credited /\ Timely /\ Working /\ Excused
  BY DEF ZInit, Init, Credited, Timely, Working, Excused, Jobs
<1> QED BY <1>1, <1>2, <1>3 DEF ZIInv, Owing

-----------------------------------------------------------------------------
(* What the steps of the receipts leave alone of the invoices.             *)
Apart == UNCHANGED <<index, last, call, kind, row, txns, credits, crediting, resume,
                     open, cursor, cur, crashes, breaks>>
OneFault == faults' = faults \/ (faults < MaxFaults /\ faults' = faults + 1)
Onward == stage \in {"credited", "recorded"} /\ stage' \in {"recorded", "handled"}

LEMMA ReceiptsApart ==
  /\ Work \/ Tick => Apart /\ OneFault /\ stage' = stage
  /\ OnSettled => Apart /\ OneFault /\ Onward
<1> USE DEF Apart, OneFault, Onward, invoiceVars, minting, ledger, stream, bounds
<1>1. ASSUME NEW h \in Hashes, Take(h) PROVE Apart /\ OneFault /\ stage' = stage
  BY <1>1 DEF Take
<1>2. ASSUME NEW p \in batch, TakeDue(p) PROVE Apart /\ OneFault /\ stage' = stage
  BY <1>2 DEF TakeDue
<1>3. RetryDue \/ Build \/ Accept \/ Tick => Apart /\ OneFault /\ stage' = stage
  BY DEF RetryDue, Build, Accept, Tick
<1>4. RecordZapReceipt \/ Drop => Apart /\ OneFault /\ stage' = stage
  BY DEF RecordZapReceipt, Drop
<1>5. Reject => Apart /\ OneFault /\ stage' = stage
  <2> SUFFICES ASSUME Reject PROVE Apart /\ OneFault /\ stage' = stage
    OBVIOUS
  <2>1. Apart /\ stage' = stage
    BY DEF Reject
  <2>2. OneFault
    BY Zenon DEF Reject
  <2> QED BY <2>1, <2>2
<1>6. Record \/ HandOff => Apart /\ OneFault /\ Onward
  BY DEF Record, HandOff
<1> QED BY <1>1, <1>2, <1>3, <1>4, <1>5, <1>6 DEF Work, Publish, OnSettled

LEMMA ApartKeepsIInv ==
  ASSUME IInv, Apart, OneFault, stage' = stage \/ Onward PROVE IInv'
<1>1. TypeOK'
  BY InvoicesAssumption DEF IInv, TypeOK, Apart, OneFault, Onward
<1>2. Recorded'
  BY DEF IInv, Apart, Recorded, SettledTogether
<1> QED BY <1>1, <1>2 DEF IInv

(* Every step is one of the invoices', or leaves them alone.               *)
LEMMA ZStepIInv == IInv /\ [ZNext]_zvars => IInv'
<1>1. Receiving \/ ZCrash \/ UNCHANGED zvars => [Next]_vars
  BY DEF Receiving, ZCrash, zvars, invoiceVars, Next, vars
<1>2. IInv /\ [Next]_vars => IInv'
  BY StepTypeOK, StepRecorded DEF IInv
<1>3. IInv /\ (OnSettled \/ Work \/ Tick) => IInv'
  BY ReceiptsApart, ApartKeepsIInv
<1> QED BY <1>1, <1>2, <1>3 DEF ZNext
-----------------------------------------------------------------------------
(* What the publisher can rely on while the invoices move: the ledger and  *)
(* what it was told only grow, and a recorded invoice carries what it      *)
(* carried.                                                                *)
Steady ==
  /\ txns \subseteq txns' /\ Told \subseteq Told'
  /\ \A h \in txns : kind'[h] = kind[h]

LEMMA ApartSteady ==
  ASSUME Apart, stage' = stage \/ Onward PROVE Steady
BY DEF Apart, Onward, Steady, Told

LEMMA InvoicesSteady ==
  ASSUME IInv, Credited, Receiving \/ Crash PROVE Steady /\ Credited'
<1> USE DEF IInv, TypeOK, Steady, Told, Credited, minting, ledger, stream, bounds
<1>1. ASSUME Mint PROVE Steady /\ Credited'
  <2>1. ASSUME NEW h \in Hashes, NEW k \in Kinds, AddInvoice(h, k) PROVE Steady /\ Credited'
    <3>1. h \notin txns
      BY <2>1 DEF AddInvoice, Recorded, SettledTogether
    <3> QED BY <2>1, <3>1 DEF AddInvoice
  <2>2. ASSUME NEW h \in Hashes, CreateInvoice(h) \/ CreateFails(h) \/ Answer(h)
        PROVE  Steady /\ Credited'
    BY <2>2 DEF CreateInvoice, CreateFails, Answer
  <2> QED BY <1>1, <2>1, <2>2 DEF Mint
<1>2. ASSUME Node \/ Sweep \/ Operator PROVE Steady /\ Credited'
  BY <1>2 DEF Node, Settle, Sweep, ExpireInvoices, Operator, SetCreditReceived
<1>3. ASSUME CreditInvoice PROVE Steady /\ Credited'
  BY <1>3 DEF CreditInvoice, Post, Fresh
<1>4. ASSUME Stream, ~CreditInvoice PROVE Steady /\ Credited'
  <2>1. UNCHANGED <<txns, kind>>
    BY <1>4 DEF Stream, Subscribe, Receive, CreditFails, SetLastSettleIndex, SetLastFails, Break
  <2>2. Subscribe => UNCHANGED <<stage, cur>>
    BY DEF Subscribe
  <2>3. ~Subscribe => stage' \in {"received", "waiting"}
    BY <1>4 DEF Stream, Receive, CreditFails, SetLastSettleIndex, SetLastFails, Break,
       AfterFailure, Stop
  <2> QED BY <2>1, <2>2, <2>3
<1>5. ASSUME Crash PROVE Steady /\ Credited'
  BY <1>5 DEF Crash, Stop
<1> QED BY <1>1, <1>2, <1>3, <1>4, <1>5 DEF Receiving

(* What is a zap stays one, and what is none stays none.                   *)
LEMMA SteadyZaps ==
  ASSUME Steady, NEW h \in txns PROVE IsZap(h)' <=> IsZap(h)
BY DEF Steady, IsZap

(* A job is a payment the publisher was told of.                           *)
LEMMA JobIsTold ==
  ASSUME ZIInv, doing # "idle"
  PROVE  /\ pending \in Jobs /\ pending \in Job
         /\ pending.hash \in Told /\ pending.hash \in txns /\ pending.hash \in Hashes
BY DEF ZIInv, Owing, ZTypeOK, IInv, TypeOK, Working, Jobs, Told

(* While the publisher is left alone its part of the invariant holds.      *)
LEMMA SteadyKeeps ==
  ASSUME ZIInv, IInv', Steady, Credited', UNCHANGED <<table, publisher, history>>
  PROVE  Owing'
<1> USE DEF ZIInv, Owing, table, publisher, history
<1>1. ZTypeOK'
  BY DEF ZTypeOK, IInv, Steady
<1>2. Timely'
  BY DEF Timely, Steady
<1>3. Working'
  BY DEF Working, Jobs, Steady
<1>4. Excused'
  <2>1. doing # "idle" => (IsZap(pending.hash)' <=> IsZap(pending.hash))
    BY JobIsTold, SteadyZaps
  <2> QED BY <2>1 DEF Excused
<1> QED BY <1>1, <1>2, <1>3, <1>4

LEMMA InvoicesKeep == ASSUME ZIInv, IInv', Receiving PROVE Owing'
<1>1. Steady /\ Credited'
  BY InvoicesSteady DEF ZIInv, Owing
<1> QED BY <1>1, SteadyKeeps DEF Receiving

LEMMA CrashKeeps == ASSUME ZIInv, IInv', ZCrash PROVE Owing'
<1> USE DEF ZIInv, Owing
<1>1. Steady /\ Credited'
  BY InvoicesSteady DEF ZCrash
<1>2. ZTypeOK'
  BY <1>1, ZapReceiptsAssumption DEF ZCrash, ZTypeOK, IInv, Steady, NoWork, Job, table
<1>3. Timely'
  BY <1>1 DEF ZCrash, Timely, Steady, table
<1>4. Working' /\ Excused'
  BY DEF ZCrash, Working, Excused, Jobs
<1> QED BY <1>1, <1>2, <1>3, <1>4
-----------------------------------------------------------------------------
(* OnSettled: the payment in hand has no row yet when its debt is written  *)
(* down, and the publisher is told of it.                                  *)
LEMMA FirstRow ==
  ASSUME ZIInv, IInv', stage = "credited", Apart, stage' = "recorded",
         UNCHANGED <<receipt, publisher, history>>,
         owed' = owed \/ QueueZapReceipt(cur, Debt(0, 1, RetryWindow))
  PROVE  Owing'
<1> USE DEF ZIInv, Owing, publisher, history, Apart
<1>1. cur \in Hashes /\ cur \in txns /\ cur \notin Told
  BY DEF Credited, IInv, TypeOK, Told
<1>2. owed[cur] = NoDebt
  BY <1>1 DEF Timely
<1>3. Debt(0, 1, RetryWindow) \in Debts
  BY ZapReceiptsAssumption DEF Debt, Debts
<1>4. owed' = owed \/ owed' = [owed EXCEPT ![cur] = Debt(0, 1, RetryWindow)]
  BY <1>2 DEF QueueZapReceipt
<1>5. Told' = txns
  BY DEF Told
<1>6. ZTypeOK'
  BY <1>1, <1>3, <1>4 DEF ZTypeOK, IInv
<1>7. Credited'
  BY <1>1 DEF Credited
<1>8. Timely'
  <2> SUFFICES ASSUME NEW h \in Hashes, owed'[h] # NoDebt
               PROVE  h \in txns /\ owed'[h].attempts + owed'[h].left <= RetryWindow + owed'[h].due
    BY <1>5 DEF Timely
  <2>1. CASE owed'[h] = owed[h]
    BY <2>1 DEF Timely, Told
  <2>2. CASE h = cur /\ owed'[h] = Debt(0, 1, RetryWindow)
    BY <1>1, <2>2, ZapReceiptsAssumption DEF Debt
  <2> QED BY <1>1, <1>4, <2>1, <2>2 DEF ZTypeOK
<1>9. Working'
  <2>1. \A p \in Jobs : p.hash # cur
    BY <1>1 DEF Working
  <2>2. \A p \in Jobs : owed'[p.hash] = owed[p.hash]
    BY <1>4, <2>1 DEF ZTypeOK, Working, Told, IInv, TypeOK
  <2>3. Jobs' = Jobs
    BY DEF Jobs
  <2>4. Told \subseteq Told'
    BY <1>5 DEF Told
  <2> QED BY <2>2, <2>3, <2>4 DEF Working
<1>10. Excused'
  BY DEF Excused, IsZap
<1> QED BY <1>6, <1>7, <1>8, <1>9, <1>10

LEMMA OnSettledKeeps == ASSUME ZIInv, IInv', OnSettled PROVE Owing'
<1>1. Apart /\ Onward
  BY ReceiptsApart
<1>2. CASE Record
  <2>1. stage = "credited" /\ stage' = "recorded" /\ UNCHANGED <<receipt, publisher, history>>
    BY <1>2 DEF Record
  <2>2. owed' = owed \/ QueueZapReceipt(cur, Debt(0, 1, RetryWindow))
    BY <1>2 DEF Record
  <2> QED BY <1>1, <2>1, <2>2, FirstRow
<1>3. CASE HandOff
  <2> USE DEF ZIInv, Owing, Apart, HandOff, table, history
  <2>1. Told' = Told /\ Told = txns /\ cur \in txns
    BY <1>1, <1>3 DEF Told, Credited
  <2>2. ZTypeOK'
    BY <1>1, <1>3, <2>1 DEF ZTypeOK, IInv
  <2>3. Credited' /\ Timely'
    BY <1>1, <1>3, <2>1 DEF Credited, Timely
  <2>4. Working'
    BY <1>1, <1>3, <2>1 DEF Working, Jobs
  <2>5. Excused'
    BY <1>1, <1>3 DEF Excused, IsZap
  <2> QED BY <2>2, <2>3, <2>4, <2>5
<1> QED BY <1>2, <1>3 DEF OnSettled

-----------------------------------------------------------------------------
(* The publisher takes a payment it was handed, or a row that is due.      *)
LEMMA TakeKeeps == ASSUME ZIInv, IInv', NEW h \in Hashes, Take(h) PROVE Owing'
<1> USE DEF ZIInv, Owing, table, history
<1>1. Apart /\ stage' = stage
  BY ReceiptsApart DEF Work
<1>2. Told' = Told /\ h \in Told /\ h \in txns /\ doing = "idle" /\ batch = {}
  BY <1>1 DEF Apart, Told, Take, Working
<1>3. IsZap(h)' = IsZap(h)
  BY <1>1 DEF Apart, IsZap
<1>4. FirstTry(h) \in Job /\ FirstTry(h) # NoWork
  BY InvoicesAssumption, ZapReceiptsAssumption DEF FirstTry, Job, NoWork
<1>5. ZTypeOK'
  BY <1>1, <1>2, <1>4 DEF Take, ZTypeOK, IInv, Apart
<1>6. Credited' /\ Timely'
  BY <1>1, <1>2 DEF Take, Credited, Timely, Apart
<1>7. Working'
  <2>1. Jobs' \subseteq {FirstTry(h)}
    BY <1>2 DEF Take, Jobs
  <2>2. /\ FirstTry(h).hash = h /\ FirstTry(h).attempts + FirstTry(h).left <= RetryWindow
        /\ owed[h] # NoDebt => owed[h].left <= FirstTry(h).left
    BY ZapReceiptsAssumption DEF FirstTry, ZTypeOK, Debts
  <2>3. settled' \subseteq Told' /\ owed' = owed /\ batch' = {}
    BY <1>2 DEF Take, Working
  <2> QED BY <1>2, <2>1, <2>2, <2>3 DEF Working
<1>8. Excused'
  <2>1. CASE pending' = FirstTry(h) /\ doing' = IF IsZap(h) THEN "building" ELSE "dropping"
    BY <1>1, <2>1 DEF Excused, FirstTry, IsZap, Apart
  <2>2. CASE UNCHANGED <<doing, pending>>
    BY <1>2, <2>2 DEF Excused
  <2> QED BY <2>1, <2>2 DEF Take
<1> QED BY <1>5, <1>6, <1>7, <1>8

LEMMA RetryDueKeeps == ASSUME ZIInv, IInv', RetryDue PROVE Owing'
<1> USE DEF ZIInv, Owing, table, history
<1>1. Apart /\ stage' = stage
  BY ReceiptsApart DEF Work
<1>2. PICK some \in SUBSET DueRows : batch' = {Row(h) : h \in some}
  BY DEF RetryDue
<1>3. ASSUME NEW h \in some
      PROVE  /\ h \in Told /\ Row(h) \in Job /\ Row(h).hash = h
             /\ Row(h).attempts + Row(h).left <= RetryWindow /\ owed[h].left <= Row(h).left
  <2>1. h \in Hashes /\ owed[h] # NoDebt /\ owed[h].due = 0
    BY DEF DueRows
  <2>2. owed[h] \in Debts /\ h \in Told /\ owed[h].attempts + owed[h].left <= RetryWindow
    BY <2>1, ZapReceiptsAssumption DEF ZTypeOK, Timely, Debts
  <2> QED BY <2>1, <2>2 DEF Row, Job, Debts
<1>4. UNCHANGED <<owed, receipt, settled, doing, pending, accepted, abandoned, unread>>
      /\ doing = "idle" /\ Told' = Told
  BY <1>1 DEF RetryDue, Apart, Told
<1>5. ZTypeOK'
  BY <1>1, <1>2, <1>3, <1>4 DEF ZTypeOK, IInv, Apart
<1>6. Credited' /\ Timely'
  BY <1>1, <1>4 DEF Credited, Timely, Apart
<1>7. Working'
  <2>1. Jobs' = {Row(h) : h \in some}
    BY <1>2, <1>4 DEF Jobs
  <2> QED BY <1>3, <1>4, <2>1 DEF Working
<1>8. Excused'
  BY <1>4 DEF Excused
<1> QED BY <1>5, <1>6, <1>7, <1>8

LEMMA TakeDueKeeps == ASSUME ZIInv, IInv', NEW p \in batch, TakeDue(p) PROVE Owing'
<1> USE DEF ZIInv, Owing, table, history
<1>1. Apart /\ stage' = stage
  BY ReceiptsApart DEF Work
<1>2. /\ doing = "idle" /\ p \in Jobs /\ p \in Job /\ p.hash \in Told /\ p.hash # NoHash
      /\ Told' = Told
  BY <1>1, InvoicesAssumption DEF TakeDue, Jobs, Working, ZTypeOK, Apart, Told, IInv, TypeOK
<1>3. p # NoWork
  BY <1>2 DEF NoWork
<1>4. /\ batch' = batch \ {p} /\ pending' = p /\ doing' \in {"building", "dropping"}
      /\ UNCHANGED <<owed, receipt, settled, accepted, abandoned>>
      /\ doing' = "building" => IsZap(p.hash)
      /\ doing' = "dropping" => p.hash \in unread' \/ ~IsZap(p.hash)
  BY DEF TakeDue
<1>5. ZTypeOK'
  BY <1>1, <1>2, <1>3, <1>4 DEF ZTypeOK, IInv, Apart
<1>6. Credited' /\ Timely'
  BY <1>1, <1>2, <1>4 DEF Credited, Timely, Apart
<1>7. Working'
  <2>1. Jobs' = Jobs
    BY <1>2, <1>4 DEF Jobs
  <2> QED BY <1>2, <1>4, <2>1 DEF Working
<1>8. Excused'
  BY <1>1, <1>4 DEF Excused, IsZap, Apart
<1> QED BY <1>5, <1>6, <1>7, <1>8
-----------------------------------------------------------------------------
(* The publisher works on the job it has.                                  *)
LEMMA BuildKeeps ==
  ASSUME ZIInv, IInv', Build \/ Accept \/ RecordZapReceipt PROVE Owing'
<1> USE DEF ZIInv, Owing, table, history
<1>1. Apart /\ stage' = stage
  BY ReceiptsApart DEF Work, Publish
<1>2. doing \in {"building", "publishing", "recording"}
  BY DEF Build, Accept, RecordZapReceipt
<1>3. pending.hash \in txns /\ IsZap(pending.hash) /\ IsZap(pending.hash)' = IsZap(pending.hash)
  BY <1>1, <1>2, JobIsTold DEF Excused, IsZap, Apart, Build, Accept, RecordZapReceipt
<1>4. /\ UNCHANGED <<owed, settled, batch, pending>>
      /\ doing' \in {"publishing", "recording", "dropping"}
      /\ receipt' \in {receipt, receipt \cup {pending.hash}}
  BY DEF Build, Accept, RecordZapReceipt
<1>5. ZTypeOK'
  BY <1>1, <1>2, <1>3, <1>4 DEF ZTypeOK, IInv, Apart
<1>6. Told' = Told /\ Jobs' = Jobs
  BY <1>1, <1>2, <1>4 DEF Apart, Told, Jobs
<1>7. Credited' /\ Timely' /\ Working'
  BY <1>1, <1>2, <1>4, <1>6 DEF Credited, Timely, Working, Apart
<1>8. Excused'
  BY <1>3, <1>4 DEF Excused, Build, Accept, RecordZapReceipt
<1> QED BY <1>5, <1>7, <1>8

(* A row that is written again keeps the earlier of the two deadlines, and *)
(* has one more attempt and a tick to wait.                                *)
LEMMA AnotherAttempt ==
  ASSUME ZIInv, doing = "publishing", pending.left # 0,
         NEW n, n = pending.attempts + 1,
         NEW r, r = Debt(n, Least(Backoff(n), pending.left), pending.left),
         NEW h \in Hashes, h = pending.hash, QueueZapReceipt(h, r)
  PROVE  /\ owed'[h] \in Debts
         /\ owed'[h].attempts + owed'[h].left <= RetryWindow + owed'[h].due
         /\ \A g \in Hashes \ {h} : owed'[g] = owed[g]
         /\ owed' \in [Hashes -> Debts \cup {NoDebt}]
<1> USE DEF ZIInv, Owing
<1>1. /\ pending.attempts \in 0..RetryWindow /\ pending.left \in 1..RetryWindow
      /\ pending.attempts + pending.left <= RetryWindow
      /\ owed[h] # NoDebt => owed[h].left <= pending.left
  BY JobIsTold DEF Job, Working
<1>2. n \in 1..RetryWindow /\ n + pending.left <= RetryWindow + 1
  BY <1>1, ZapReceiptsAssumption
<1>3. Backoff(n) \in 1..MaxBackoff
  BY <1>2, BackoffBounds, ZapReceiptsAssumption
<1>4. Least(Backoff(n), pending.left) \in 1..MaxBackoff
  BY <1>1, <1>3, ZapReceiptsAssumption DEF Least
<1>5. r \in Debts
  BY <1>1, <1>2, <1>4, ZapReceiptsAssumption DEF Debt, Debts
<1>6. r.attempts + r.left <= RetryWindow + r.due
  BY <1>1, <1>2, <1>4, ZapReceiptsAssumption DEF Debt
<1>7. owed \in [Hashes -> Debts \cup {NoDebt}]
  BY DEF ZTypeOK
<1>8. CASE owed[h] = NoDebt
  BY <1>5, <1>6, <1>7, <1>8 DEF QueueZapReceipt
<1>9. CASE owed[h] # NoDebt
  <2> DEFINE q == Debt(r.attempts, r.due, owed[h].left)
  <2>1. owed[h].left \in 0..RetryWindow /\ owed[h].left <= r.left
    BY <1>1, <1>7, <1>9 DEF Debts, Debt
  <2>2. q \in Debts
    BY <1>5, <2>1 DEF Debt, Debts
  <2>3. q.attempts = r.attempts /\ q.due = r.due /\ q.left = owed[h].left
    BY DEF Debt
  <2>4. q.attempts + q.left <= RetryWindow + q.due
    BY <1>5, <1>6, <2>1, <2>3, ZapReceiptsAssumption DEF Debts
  <2>5. owed' = [owed EXCEPT ![h] = q]
    BY <1>9 DEF QueueZapReceipt
  <2> HIDE DEF q
  <2> QED BY <1>7, <2>2, <2>4, <2>5
<1> QED BY <1>8, <1>9

LEMMA RejectKeeps == ASSUME ZIInv, IInv', Reject PROVE Owing'
<1> USE DEF ZIInv, Owing, table, history
<1>1. Apart /\ stage' = stage
  BY ReceiptsApart DEF Work, Publish
<1>2. doing = "publishing" /\ UNCHANGED <<receipt, settled, batch, accepted, unread>>
  BY DEF Reject
<1>3. Told' = Told /\ Credited'
  BY <1>1 DEF Apart, Told, Credited
<1>4. CASE WindowPassed(pending)
  <2>1. UNCHANGED <<owed, pending>> /\ doing' = "dropping" /\ pending.hash \in abandoned'
    BY <1>4 DEF Reject
  <2>2. ZTypeOK'
    BY <1>1, <1>2, <2>1 DEF ZTypeOK, IInv, Apart
  <2>3. Timely' /\ Working'
    BY <1>2, <1>3, <2>1 DEF Timely, Working, Jobs
  <2>4. Excused'
    BY <2>1 DEF Excused
  <2> QED BY <1>3, <2>2, <2>3, <2>4
<1>5. CASE ~WindowPassed(pending)
  <2> DEFINE h == pending.hash
             n == pending.attempts + 1
             r == Debt(n, Least(Backoff(n), pending.left), pending.left)
  <2>1. doing' = "idle" /\ pending' = NoWork
    BY <1>5 DEF Reject, Finish
  <2>2. owed' = owed \/ QueueZapReceipt(h, r)
    BY <1>5, Zenon DEF Reject
  <2>3. pending.left # 0 /\ h \in Hashes /\ h \in Told
    BY <1>2, <1>5, JobIsTold DEF WindowPassed
  <2>4. /\ owed' \in [Hashes -> Debts \cup {NoDebt}]
        /\ \A g \in Hashes \ {h} : owed'[g] = owed[g]
        /\ \/ owed' = owed
           \/ owed'[h].attempts + owed'[h].left <= RetryWindow + owed'[h].due
    <3>1. CASE owed' = owed
      BY <3>1 DEF ZTypeOK
    <3>2. CASE QueueZapReceipt(h, r)
      <4> HIDE DEF h, r, n
      <4> QED BY <1>2, <2>3, <3>2, AnotherAttempt DEF h, r, n
    <3> QED BY <2>2, <3>1, <3>2
  <2>5. ZTypeOK'
    BY <1>1, <1>2, <2>1, <2>4, ZapReceiptsAssumption DEF ZTypeOK, IInv, Apart, NoWork, Job
  <2>6. Timely'
    BY <1>3, <2>3, <2>4 DEF Timely
  <2>7. Working'
    <3>1. Jobs' = batch /\ batch \subseteq Jobs /\ pending \in Jobs /\ pending \notin batch
      BY <1>2, <2>1 DEF Jobs, Working
    <3>2. \A p \in batch : p.hash # h /\ p.hash \in Hashes
      BY <3>1 DEF Working, Told, IInv, TypeOK
    <3>3. \A p \in batch : owed'[p.hash] = owed[p.hash]
      BY <2>4, <3>2
    <3> QED BY <1>2, <1>3, <2>1, <3>1, <3>3 DEF Working
  <2>8. Excused'
    BY <2>1 DEF Excused
  <2> QED BY <1>3, <2>5, <2>6, <2>7, <2>8
<1> QED BY <1>4, <1>5

LEMMA DropKeeps == ASSUME ZIInv, IInv', Drop PROVE Owing'
<1> USE DEF ZIInv, Owing, table, history
<1>1. Apart /\ stage' = stage
  BY ReceiptsApart DEF Work, Publish
<1>2. /\ doing = "dropping" /\ UNCHANGED <<receipt, settled, batch>>
      /\ doing' = "idle" /\ pending' = NoWork /\ pending.hash \in Hashes
  BY JobIsTold DEF Drop, Finish
<1>3. Told' = Told /\ Credited'
  BY <1>1 DEF Apart, Told, Credited
<1>4. \A g \in Hashes : owed'[g] \in {owed[g], NoDebt}
  BY <1>2 DEF Drop, ZTypeOK
<1>5. owed' \in [Hashes -> Debts \cup {NoDebt}]
  BY <1>2 DEF Drop, ZTypeOK
<1>6. ZTypeOK'
  BY <1>1, <1>2, <1>5, ZapReceiptsAssumption DEF ZTypeOK, IInv, Apart, NoWork, Job
<1>7. Timely'
  BY <1>3, <1>4 DEF Timely
<1>8. Working'
  <2>1. Jobs' = batch /\ batch \subseteq Jobs
    BY <1>2 DEF Jobs
  <2>2. \A p \in batch : p.hash \in Hashes
    BY <2>1 DEF Working, Told, IInv, TypeOK
  <2>3. \A p \in batch : owed'[p.hash] # NoDebt => owed'[p.hash].left <= p.left
    BY <1>4, <2>1, <2>2 DEF Working
  <2> QED BY <1>2, <1>3, <2>1, <2>3 DEF Working
<1>9. Excused'
  BY <1>2 DEF Excused
<1> QED BY <1>3, <1>6, <1>7, <1>8, <1>9
-----------------------------------------------------------------------------
(* The clock shortens a row's deadline and a job's alike.                  *)
LEMMA Ages ==
  /\ \A r \in Debts : /\ AgedRow(r) \in Debts
                      /\ AgedRow(r).left = Later(r.left)
                      /\ r.attempts + r.left <= RetryWindow + r.due =>
                           AgedRow(r).attempts + AgedRow(r).left <= RetryWindow + AgedRow(r).due
  /\ \A p \in Job : /\ AgedWork(p) \in Job /\ AgedWork(p).hash = p.hash
                    /\ AgedWork(p).attempts = p.attempts
                    /\ AgedWork(p).left = Later(p.left) /\ Later(p.left) <= p.left
<1>1. ASSUME NEW r \in Debts
      PROVE  /\ AgedRow(r) \in Debts /\ AgedRow(r).left = Later(r.left)
             /\ AgedRow(r).attempts = r.attempts /\ AgedRow(r).due = Later(r.due)
  BY ZapReceiptsAssumption DEF AgedRow, Debt, Debts, Later
<1>2. ASSUME NEW r \in Debts, r.attempts + r.left <= RetryWindow + r.due
      PROVE  r.attempts + Later(r.left) <= RetryWindow + Later(r.due)
  BY <1>2, ZapReceiptsAssumption DEF Debts, Later
<1>3. ASSUME NEW p \in Job
      PROVE  /\ AgedWork(p) \in Job /\ AgedWork(p).hash = p.hash
             /\ AgedWork(p).attempts = p.attempts
             /\ AgedWork(p).left = Later(p.left) /\ Later(p.left) <= p.left
  BY ZapReceiptsAssumption DEF AgedWork, Job, Later
<1> QED BY <1>1, <1>2, <1>3

LEMMA TickKeeps == ASSUME ZIInv, IInv', Tick PROVE Owing'
<1> USE DEF ZIInv, Owing, history
<1>1. Apart /\ stage' = stage
  BY ReceiptsApart
<1>2. Told' = Told /\ Credited'
  BY <1>1 DEF Apart, Told, Credited
<1>3. /\ UNCHANGED <<receipt, settled, doing, accepted, abandoned, unread>>
      /\ batch' = {AgedWork(p) : p \in batch} /\ pending' = AgedWork(pending)
  BY DEF Tick
<1>4. ASSUME NEW h \in Hashes
      PROVE  /\ owed[h] = NoDebt => owed'[h] = NoDebt
             /\ owed[h] # NoDebt => owed[h] \in Debts /\ owed'[h] = AgedRow(owed[h])
  BY DEF Tick, ZTypeOK
<1>5. owed' \in [Hashes -> Debts \cup {NoDebt}]
  <2>1. \A h \in Hashes : owed'[h] \in Debts \cup {NoDebt}
    BY <1>4, Ages
  <2>2. owed' = [h \in Hashes |-> IF owed[h] = NoDebt THEN NoDebt ELSE AgedRow(owed[h])]
    BY DEF Tick
  <2> QED BY <2>1, <2>2
<1>6. batch \subseteq Job /\ pending \in Job /\ Jobs \subseteq Job
  BY DEF ZTypeOK, Jobs
<1>7. doing = "idle" <=> pending' = NoWork
  <2>1. CASE doing = "idle"
    <3>1. pending = NoWork
      BY <2>1 DEF ZTypeOK
    <3>2. AgedWork(NoWork) = NoWork
      BY DEF AgedWork, NoWork, Later
    <3> QED BY <1>3, <2>1, <3>1, <3>2
  <2>2. CASE doing # "idle"
    <3>1. pending'.hash = pending.hash /\ pending.hash \in Hashes
      BY <1>3, <1>6, <2>2, Ages, JobIsTold
    <3> QED BY <2>2, <3>1, InvoicesAssumption DEF NoWork
  <2> QED BY <2>1, <2>2
<1>8. ZTypeOK'
  <2>1. batch' \subseteq Job /\ pending' \in Job
    BY <1>3, <1>6, Ages
  <2> QED BY <1>1, <1>3, <1>5, <1>7, <2>1 DEF ZTypeOK, IInv, Apart
<1>9. Timely'
  BY <1>2, <1>4, Ages DEF Timely
<1>10. Working'
  <2>1. Jobs' = {AgedWork(p) : p \in Jobs}
    BY <1>3 DEF Jobs
  <2>2. ASSUME NEW p \in Jobs
        PROVE  /\ AgedWork(p).hash \in Told
               /\ AgedWork(p).attempts + AgedWork(p).left <= RetryWindow
               /\ owed'[p.hash] # NoDebt => owed'[p.hash].left <= AgedWork(p).left
    <3>1. p \in Job /\ p.hash \in Told /\ p.hash \in Hashes
          /\ p.attempts + p.left <= RetryWindow
      BY <1>6 DEF Working, Told, IInv, TypeOK
    <3>2. AgedWork(p).attempts + AgedWork(p).left <= RetryWindow
      BY <3>1, Ages, ZapReceiptsAssumption DEF Job, Later
    <3>3. ASSUME owed'[p.hash] # NoDebt PROVE owed'[p.hash].left <= AgedWork(p).left
      <4>1. owed[p.hash] \in Debts /\ owed[p.hash].left <= p.left
            /\ owed'[p.hash].left = Later(owed[p.hash].left)
        BY <1>4, <3>1, <3>3, Ages DEF Working
      <4>2. Later(owed[p.hash].left) <= Later(p.left)
        BY <3>1, <4>1, ZapReceiptsAssumption DEF Job, Debts, Later
      <4> QED BY <3>1, <4>1, <4>2, Ages
    <3> QED BY <3>1, <3>2, <3>3, Ages
  <2>3. \A p, q \in Jobs : AgedWork(p).hash = AgedWork(q).hash => p = q
    BY <1>6, Ages DEF Working
  <2>4. doing # "idle" => pending' \notin batch'
    <3> SUFFICES ASSUME doing # "idle", NEW q \in batch, AgedWork(q) = AgedWork(pending)
                 PROVE  FALSE
      BY <1>3
    <3>1. q \in Jobs /\ pending \in Jobs
      BY DEF Jobs
    <3>2. q = pending
      BY <2>3, <3>1
    <3> QED BY <3>2 DEF Working
  <2>5. \A p \in Jobs : AgedWork(p).hash = p.hash
    BY <1>6, Ages
  <2> QED BY <1>2, <1>3, <2>1, <2>2, <2>3, <2>4, <2>5 DEF Working
<1>11. Excused'
  <2>1. doing # "idle" => pending'.hash = pending.hash
    BY <1>3, <1>6, Ages
  <2> QED BY <1>1, <1>3, <2>1 DEF Excused, IsZap, Apart
<1> QED BY <1>2, <1>8, <1>9, <1>10, <1>11

LEMMA ZStep == ZIInv /\ [ZNext]_zvars => ZIInv'
<1> SUFFICES ASSUME ZIInv, [ZNext]_zvars PROVE ZIInv'
  OBVIOUS
<1>1. IInv'
  BY ZStepIInv DEF ZIInv
<1>2. ASSUME Work PROVE Owing'
  BY <1>1, <1>2, TakeKeeps, RetryDueKeeps, TakeDueKeeps, BuildKeeps, RejectKeeps, DropKeeps
     DEF Work, Publish
<1>3. ASSUME UNCHANGED zvars PROVE Owing'
  <2>1. Apart /\ stage' = stage /\ UNCHANGED <<table, publisher, history>>
    BY <1>3 DEF zvars, invoiceVars, minting, ledger, stream, bounds, Apart
  <2>2. Steady /\ Credited'
    BY <2>1, ApartSteady DEF Apart, Credited, ZIInv, Owing
  <2> QED BY <1>1, <2>1, <2>2, SteadyKeeps
<1>4. Owing'
  BY <1>1, <1>2, <1>3, InvoicesKeep, OnSettledKeeps, TickKeeps, CrashKeeps DEF ZNext
<1> QED BY <1>1, <1>4 DEF ZIInv

-----------------------------------------------------------------------------
(* The publisher's variables hold what they may hold: a receipt is tried   *)
(* at most once for each tick of its window (backoff, reschedule).         *)
THEOREM ReceiptsTyped == ZSpec => []ZTypeOK
BY InitZIInv, ZStep, PTL DEF ZSpec, ZIInv, Owing

(* With the receipts on top of the stream a payment is still credited at   *)
(* most once (CreditSettledInvoice).                                       *)
THEOREM CreditsOnceWithReceipts == ZSpec => []CreditedOnce
<1>1. IInv => CreditedOnce
  BY IInvCreditsOnce
<1> QED BY InitZIInv, ZStep, <1>1, PTL DEF ZSpec, ZIInv

(* A written debt is crossed off only for a receipt a relay took, one that *)
(* was given up aloud, a payment that was no zap, or a zap that could not  *)
(* be read (attempt, reschedule, RetryDue).                                *)
THEOREM DebtsAreKept == ZSpec => DebtKept
<1> DEFINE Kept == \A h \in Hashes : owed[h] # NoDebt /\ owed'[h] = NoDebt =>
                     h \in accepted \cup abandoned \cup unread \/ ~IsZap(h)
<1>1. ZIInv /\ [ZNext]_zvars => [Kept]_zvars
  <2> SUFFICES ASSUME ZIInv, ZNext, NEW h \in Hashes, owed[h] # NoDebt, owed'[h] = NoDebt
               PROVE  h \in accepted \cup abandoned \cup unread \/ ~IsZap(h)
    OBVIOUS
  <2> USE DEF ZIInv, Owing
  <2>1. owed[h] \in Debts /\ owed \in [Hashes -> Debts \cup {NoDebt}]
    BY DEF ZTypeOK
  <2>2. \A r \in Debts : r # NoDebt
    BY ZapReceiptsAssumption DEF Debts
  <2>3. Drop /\ h = pending.hash
    <3>1. owed' # owed
      OBVIOUS
    <3>2. ~Record
      <4>1. stage = "credited" => cur \in Hashes /\ owed[cur] = NoDebt
        BY DEF Credited, IInv, TypeOK, Timely, Told
      <4>2. Record => \/ owed' = owed
                      \/ stage = "credited" /\ owed' = [owed EXCEPT ![cur] = Debt(0, 1, RetryWindow)]
        BY <4>1 DEF Record, QueueZapReceipt
      <4> QED BY <2>1, <3>1, <4>1, <4>2
    <3>3. ~Reject
      <4> SUFFICES ASSUME Reject PROVE FALSE
        OBVIOUS
      <4> DEFINE g == pending.hash
                 n == pending.attempts + 1
                 r == Debt(n, Least(Backoff(n), pending.left), pending.left)
      <4>1. doing = "publishing" /\ pending.left # 0 /\ QueueZapReceipt(g, r)
        BY <3>1, Zenon DEF Reject, WindowPassed
      <4>2. g \in Hashes
        BY <4>1, JobIsTold
      <4>3. owed'[g] \in Debts /\ \A f \in Hashes \ {g} : owed'[f] = owed[f]
        <5> HIDE DEF g, n, r
        <5> QED BY <4>1, <4>2, AnotherAttempt DEF g, n, r
      <4> QED BY <2>2, <4>3
    <3>4. ~Tick
      BY <2>1, <2>2, Ages DEF Tick
    <3>5. ~Receiving /\ ~HandOff /\ ~ZCrash
      BY <3>1 DEF Receiving, HandOff, ZCrash, table
    <3>6. Work => Drop
      BY <3>1, <3>3 DEF Work, Publish, Take, RetryDue, TakeDue, Build, Accept, RecordZapReceipt, table
    <3>7. Drop
      BY <3>2, <3>4, <3>5, <3>6 DEF ZNext, OnSettled
    <3> QED BY <2>1, <3>1, <3>7 DEF Drop
  <2>4. doing = "dropping"
    BY <2>3 DEF Drop
  <2> QED BY <2>3, <2>4 DEF Excused
<1> QED BY InitZIInv, ZStep, <1>1, PTL DEF ZSpec, DebtKept

(* A receipt that can be published is given up only when its row's own     *)
(* window has passed (PublishNow, QueueZapReceipt, reschedule).            *)
THEOREM NobodyGivesUpEarly == ZSpec => NotGivenUpEarly
<1> DEFINE InTime == \A h \in abandoned' \ abandoned :
                       kind[h] = "zap" /\ owed[h] # NoDebt => owed[h].left = 0
<1>1. ZIInv /\ [ZNext]_zvars => [InTime]_zvars
  <2> SUFFICES ASSUME ZIInv, ZNext, NEW h \in abandoned' \ abandoned, kind[h] = "zap",
                      owed[h] # NoDebt
               PROVE  owed[h].left = 0
    OBVIOUS
  <2> USE DEF ZIInv, Owing
  <2>1. Reject /\ WindowPassed(pending) /\ h = pending.hash
    <3>1. ~Build
      BY DEF Build
    <3>2. Reject
      BY <3>1 DEF ZNext, Receiving, OnSettled, Record, HandOff, Work, Publish, Take, RetryDue, TakeDue,
         Accept, RecordZapReceipt, Drop, Tick, ZCrash, history
    <3> QED BY <3>2, Zenon DEF Reject
  <2>2. pending \in Jobs /\ pending \in Job /\ pending.hash \in Hashes
    BY <2>1, JobIsTold DEF Reject
  <2>3. owed[h] \in Debts /\ owed[h].left <= pending.left
    BY <2>1, <2>2 DEF ZTypeOK, Working
  <2> QED BY <2>1, <2>3, ZapReceiptsAssumption DEF WindowPassed, Debts
<1> QED BY InitZIInv, ZStep, <1>1, PTL DEF ZSpec, NotGivenUpEarly

-----------------------------------------------------------------------------
(* The receipts leave the stream where it is.                              *)
LEMMA ApartKeepsPosition ==
  ASSUME Position, Apart, stage' = stage \/ Onward PROVE Position'
BY DEF Position, Apart, Onward, OnRecord, Ordered, InHand, Delivered, NothingSkipped, Ours

(* With the receipts on top of it, too, the resume point passes no payment *)
(* of ours that is not on record (streamOnce, handleSettlement).           *)
THEOREM NothingIsSkippedWithReceipts == FirstIndex > 0 => (ZSpec => []NothingSkipped)
<1> SUFFICES ASSUME FirstIndex > 0 PROVE ZSpec => []NothingSkipped
  OBVIOUS
<1>1. ZInit => IInv /\ Position
  BY InitIInv, InitPosition DEF ZInit
<1>2. IInv /\ Position /\ [ZNext]_zvars => IInv' /\ Position'
  <2>1. Receiving \/ ZCrash \/ UNCHANGED zvars => [Next]_vars
    BY DEF Receiving, ZCrash, zvars, invoiceVars, Next, vars
  <2>2. IInv /\ Position /\ (OnSettled \/ Work \/ Tick) => Position'
    BY ReceiptsApart, ApartKeepsPosition
  <2> QED BY <2>1, <2>2, ZStepIInv, StepPosition DEF ZNext
<1>3. Position => NothingSkipped
  BY DEF Position
<1> QED BY <1>1, <1>2, <1>3, PTL DEF ZSpec
=============================================================================
