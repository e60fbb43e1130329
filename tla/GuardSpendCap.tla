---------------------------- MODULE GuardSpendCap ----------------------------
(***************************************************************************)
(* The hard cap the guard enforces inside the node's request path.         *)
(*                                                                         *)
(* The node forwards every SendPaymentV2 made with the spend macaroon to   *)
(* the guard's middleware stream and does nothing before it has an answer. *)
(* InterceptRequest prices the request, then decides and records in one    *)
(* write of the state file; ObserveResponse hands a record back when the   *)
(* node says the payment failed.  A record is found by the guard's run,    *)
(* the registration and the node's request id, which the node counts from  *)
(* one again after a restart.                                              *)
(*                                                                         *)
(* Msat are small integers here; arithmetic wraps at MaxInt as int64 does. *)
(***************************************************************************)
EXTENDS Integers, FiniteSets, Functions

CONSTANTS
  Payments,            \* calls of SendPaymentV2
  Requests,            \* what a call may carry
  Limits,              \* what the two limits may be set to
  SatMsat,             \* 1000
  MaxInt,              \* 2^63 - 1
  Window,              \* SpendWindow, in ticks
  MaxWindowAttempts,   \* records one window may hold
  MaxMishaps           \* bound: restarts, broken streams, failed writes

maxCountableMsat == (MaxInt + 1) \div 2

ASSUME GuardSpendCapAssumption ==
  /\ MaxInt \in Nat /\ SatMsat \in Nat \ {0} /\ Window \in Nat \ {0}
  /\ MaxWindowAttempts \in Nat /\ MaxMishaps \in Nat
  /\ Limits \subseteq 0..maxCountableMsat
  /\ Requests \subseteq [amtMsat : Int, amt : Int, feeMsat : Int, feeSat : Int,
                         invoice : Nat]

VARIABLES
  windowCap, paymentCap,   \* MaxSpendMsat and MaxPaymentMsat
  attempts,                \* SpendAttempts: records [key, msat, age]
  run,                     \* the guard's run (runNonce)
  session,                 \* its last registration
  up,                      \* the middleware stream is registered
  node,                    \* the node's run
  lastId,                  \* ... and its last request id
  call,                    \* [Payments -> what became of the call]
  mishaps

spendVars == <<windowCap, paymentCap, attempts, run, session, up, node, lastId,
               call, mishaps>>

stream == <<run, session>>

NoCall == [stage |-> "new"]

SpendInit ==
  /\ windowCap \in Limits /\ paymentCap \in Limits /\ paymentCap <= windowCap
  /\ attempts = {} /\ run = 1 /\ session = 0 /\ up = FALSE
  /\ node = 1 /\ lastId = 0
  /\ call = [p \in Payments |-> NoCall]
  /\ mishaps = 0

Mishap == mishaps < MaxMishaps /\ mishaps' = mishaps + 1

-----------------------------------------------------------------------------
(* Two's complement.                                                       *)
Wrap(n) == ((n + MaxInt + 1) % (2 * (MaxInt + 1))) - (MaxInt + 1)

countableSats(sats) == sats >= 0 /\ sats <= maxCountableMsat \div SatMsat

(* A figure in msat, or the one in sats where there is none.               *)
OnlyIfPositive(msat, sats) == msat # 0 \/ sats >= 0

Countable(msat, sats) == msat # 0 \/ countableSats(sats)

Msat(msat, sats) == IF msat # 0 THEN msat ELSE Wrap(sats * SatMsat)

(* An invoice that names its amount is believed before the request.        *)
Amount(req) ==
  IF req.invoice > 0 THEN req.invoice ELSE Msat(req.amtMsat, req.amt)

Fee(req) == Msat(req.feeMsat, req.feeSat)

priceAttempt(req) == Wrap(Amount(req) + Fee(req))

CountsLessThanNothing(req) ==
  /\ Countable(req.amtMsat, req.amt) /\ Countable(req.feeMsat, req.feeSat)
  /\ Amount(req) <= maxCountableMsat - Fee(req)

Priceable(req) ==
  /\ Countable(req.amtMsat, req.amt) /\ Countable(req.feeMsat, req.feeSat)
  /\ Amount(req) > 0 /\ Fee(req) >= 0
  /\ Amount(req) <= maxCountableMsat - Fee(req)

(* What the node itself refuses, and the most it spends otherwise.         *)
NodeTakes(req) ==
  /\ {req.amtMsat, req.amt, req.feeMsat, req.feeSat} \subseteq Nat
  /\ req.amtMsat = 0 \/ req.amt = 0
  /\ req.feeMsat = 0 \/ req.feeSat = 0
  /\ req.invoice > 0 <=> req.amtMsat = 0 /\ req.amt = 0

Cost(req) ==
  req.invoice + req.amtMsat + req.amt * SatMsat + req.feeMsat + req.feeSat * SatMsat

-----------------------------------------------------------------------------
(* spendWindowUsed                                                         *)
Kept == {a \in attempts : a.age < Window}

Used == SumFunction([a \in Kept |-> a.msat])

attemptKey(on, id) == <<on[1], on[2], id>>

Move(p, stage) == call' = [call EXCEPT ![p].stage = stage]

(* The node forwards a call; with no middleware it refuses it by itself.   *)
SendPayment(p, req) ==
  /\ call[p].stage = "new" /\ up
  /\ lastId' = lastId + 1
  /\ call' = [call EXCEPT ![p] =
                [stage |-> "asking", req |-> req, id |-> lastId + 1, on |-> stream,
                 node |-> node, age |-> 0]]
  /\ UNCHANGED <<windowCap, paymentCap, attempts, run, session, up, node, mishaps>>

(* Both limits and the window are read in the write that records.          *)
HasRoom(msat) ==
  /\ msat <= paymentCap
  /\ Cardinality(Kept) < MaxWindowAttempts
  /\ Used + msat <= windowCap

InterceptRequest(p) ==
  /\ call[p].stage = "asking"
  /\ LET msat == priceAttempt(call[p].req) IN
     \/ /\ Priceable(call[p].req) /\ HasRoom(msat)
        /\ attempts' = Kept \cup {[key |-> attemptKey(call[p].on, call[p].id),
                                msat |-> msat, age |-> 0]}
        /\ call' = [call EXCEPT ![p].stage = "allowed", ![p].age = 0]
        /\ UNCHANGED mishaps
     \/ /\ ~(Priceable(call[p].req) /\ HasRoom(msat))
        /\ Move(p, "refused") /\ UNCHANGED <<attempts, mishaps>>
     \/ Mishap /\ Move(p, "refused") /\ UNCHANGED attempts
  /\ UNCHANGED <<windowCap, paymentCap, run, session, up, node, lastId>>

(* The node has the answer in time, or rejects the call.                   *)
Proceed(p) ==
  /\ call[p].stage = "allowed"
  /\ Move(p, IF NodeTakes(call[p].req) THEN "sent" ELSE "refused")
  /\ UNCHANGED <<windowCap, paymentCap, attempts, run, session, up, node, lastId,
                 mishaps>>

TimeOut(p) ==
  /\ call[p].stage = "allowed" /\ Mishap
  /\ Move(p, "refused")
  /\ UNCHANGED <<windowCap, paymentCap, attempts, run, session, up, node, lastId>>

(* A payment ends whether or not anybody watches.                          *)
End(p, how) ==
  /\ call[p].stage = "sent" /\ Move(p, how)
  /\ UNCHANGED <<windowCap, paymentCap, attempts, run, session, up, node, lastId,
                 mishaps>>

(* Only an explicit FAILED comes back, and only one record.                *)
AnythingTerminal(p) == call[p].stage \in {"settled", "failed"}

Returns(p) == call[p].stage = "failed"

ObserveResponse(p) ==
  /\ call[p].stage \in {"sent", "settled", "failed"}
  /\ up /\ call[p].node = node
  /\ LET found == {a \in Kept : a.key = attemptKey(stream, call[p].id)} IN
     IF Returns(p) /\ found # {}
     THEN \/ attempts' = Kept \ {CHOOSE a \in found : TRUE} /\ UNCHANGED mishaps
          \/ Mishap /\ UNCHANGED attempts
     ELSE UNCHANGED <<attempts, mishaps>>
  /\ UNCHANGED <<windowCap, paymentCap, run, session, up, node, lastId, call>>

-----------------------------------------------------------------------------
(* commitChange of a limit, tightened or authorised.                       *)
ChangeLimit ==
  /\ \/ windowCap' \in Limits \ {windowCap} /\ UNCHANGED paymentCap
     \/ paymentCap' \in Limits \ {paymentCap} /\ UNCHANGED windowCap
  /\ paymentCap' <= windowCap'
  /\ UNCHANGED <<attempts, run, session, up, node, lastId, call, mishaps>>

Register ==
  /\ ~up /\ up' = TRUE /\ session' = session + 1
  /\ UNCHANGED <<windowCap, paymentCap, attempts, run, node, lastId, call, mishaps>>

(* With the stream gone the node refuses what it was asking about.  A      *)
(* decision that is still running may be recorded all the same: as in      *)
(* TimeOut.                                                                *)
Unanswered ==
  [p \in Payments |->
     IF call[p].stage \in {"asking", "allowed"}
     THEN [call[p] EXCEPT !.stage = "refused"] ELSE call[p]]

StreamEnds ==
  /\ up /\ Mishap /\ up' = FALSE /\ call' = Unanswered
  /\ UNCHANGED <<windowCap, paymentCap, attempts, run, session, node, lastId>>

GuardRestarts ==
  /\ Mishap /\ run' = run + 1 /\ session' = 0
  /\ up' = FALSE /\ call' = Unanswered
  /\ UNCHANGED <<windowCap, paymentCap, attempts, node, lastId>>

(* The node numbers requests from one again; its payments go on.           *)
NodeRestarts ==
  /\ Mishap /\ node' = node + 1 /\ lastId' = 0
  /\ up' = FALSE /\ call' = Unanswered
  /\ UNCHANGED <<windowCap, paymentCap, attempts, run, session>>

(* Time passes; what is out of the window stays out.                       *)
Older(n) == IF n < Window THEN n + 1 ELSE n

Tick ==
  /\ attempts' = {[a EXCEPT !.age = Older(@)] : a \in attempts}
  /\ call' = [p \in Payments |->
                IF call[p] = NoCall THEN NoCall ELSE [call[p] EXCEPT !.age = Older(@)]]
  /\ UNCHANGED <<windowCap, paymentCap, run, session, up, node, lastId, mishaps>>

SpendNext ==
  \/ \E p \in Payments :
       \/ \E req \in Requests : SendPayment(p, req)
       \/ InterceptRequest(p) \/ Proceed(p) \/ TimeOut(p) \/ ObserveResponse(p)
       \/ \E how \in {"settled", "failed"} : End(p, how)
  \/ ChangeLimit \/ Register \/ StreamEnds \/ GuardRestarts \/ NodeRestarts
  \/ Tick

SpendSpec == SpendInit /\ [][SpendNext]_spendVars

-----------------------------------------------------------------------------
(***************************************************************************)
(* What must hold.                                                         *)
(***************************************************************************)
Streams == (1..MaxMishaps + 1) \X (0..MaxMishaps + 1)

Keys == (1..MaxMishaps + 1) \X (0..MaxMishaps + 1) \X Nat

Stages == {"asking", "allowed", "sent", "settled", "failed", "refused"}

Calls ==
  [stage : Stages, req : Requests, id : Nat \ {0}, on : Streams,
   node : 1..MaxMishaps + 1, age : 0..Window]

SpendTypeOK ==
  /\ windowCap \in Limits /\ paymentCap \in Limits /\ paymentCap <= windowCap
  /\ attempts \subseteq [key : Keys, msat : 1..maxCountableMsat, age : 0..Window]
  /\ run \in 1..MaxMishaps + 1 /\ session \in 0..MaxMishaps + 1
  /\ node \in 1..MaxMishaps + 1 /\ lastId \in Nat /\ up \in BOOLEAN
  /\ call \in [Payments -> Calls \cup {NoCall}]
  /\ mishaps \in 0..MaxMishaps

(* Calls that may have spent, or may still, and count in the window.       *)
Spending ==
  {p \in Payments :
     /\ call[p].stage \in {"allowed", "sent", "settled"}
     /\ call[p].age < Window /\ NodeTakes(call[p].req)}

(* InterceptRequest and ObserveResponse: at the moment the guard lets a    *)
(* payment through, all it has let through within the window that has not  *)
(* failed, at its full cost, is within the limit, and so is the payment.   *)
(* Restarts on either side, lost answers and refunds change nothing.       *)
Allows(p) == call[p].stage = "asking" /\ call'[p].stage = "allowed"

SpendCapHolds ==
  [][\A p \in Payments : Allows(p) /\ NodeTakes(call[p].req) =>
       /\ Cost(call[p].req) <= paymentCap
       /\ SumFunction([q \in Spending' |-> Cost(call'[q].req)]) <= windowCap]_spendVars
=============================================================================
