------------------------------ MODULE NwcProofs ------------------------------
(***************************************************************************)
(* Proofs about NwcRequests, for any number of requests, relays and        *)
(* workers and every value of the constants with                           *)
(* Retention >= 2 * Window.                                                *)
(*                                                                         *)
(* Why a request is executed at most once: whoever claims it knows it to   *)
(* be in its window (Fresh).  A request that was claimed in its window has *)
(* a row stamped no earlier than Window before its created_at (Stamped),   *)
(* so when the prune takes that row away, Retention later, the request has *)
(* left its window for good (Remembered) and cannot be claimed again.      *)
(* Hence a request has one claimant, who has not executed it yet (Sole).   *)
(***************************************************************************)
EXTENDS NwcRequests, TLAPS

Claims(w, e) == stage[w] = "claimed" /\ on[w] = e

(* Only what a client has sent is anywhere in the system.                  *)
Unseen ==
  \A e \in Events : kind[e] = "unsent" =>
    /\ row[e] = "none" /\ executed[e] = 0
    /\ \A r \in Relays : e \notin held[r] /\ e \notin inbox[r]
    /\ \A w \in Workers : on[w] # e

Fresh ==
  \A w \in Workers : stage[w] = "admitted" =>
    now <= created[on[w]] + Window /\ created[on[w]] <= now + Window

Stamped ==
  \A e \in Events : row[e] # "none" => at[e] <= now /\ created[e] <= at[e] + Window

Remembered ==
  \A e \in Events :
    (executed[e] > 0 \/ \E w \in Workers : Claims(w, e)) =>
      row[e] # "none" \/ now > created[e] + Window

Sole ==
  /\ \A v, w \in Workers, e \in Events : Claims(v, e) /\ Claims(w, e) => v = w
  /\ \A w \in Workers, e \in Events : Claims(w, e) => executed[e] = 0
  /\ \A e \in Events : executed[e] <= 1

IInv == TypeOK /\ Unseen /\ Fresh /\ Stamped /\ Remembered /\ Sole

LEMMA InitIInv == Init => IInv
<1>. SUFFICES ASSUME Init PROVE IInv
  OBVIOUS
<1>1. TypeOK
  <2>1. charged \in [Events -> Int] /\ tokens \in 0..Burst
    BY NwcAssumption DEF Init, LongAgo
  <2>2. /\ stage \in [Workers -> Stages] /\ \A w \in Workers : stage[w] = "idle"
        /\ on \in [Workers -> Events \cup {NoEvent}] /\ target \in [Workers -> Nat]
    BY DEF Init, Nobody, Stages
  <2>3. /\ kind \in [Events -> Kinds \cup {"unsent"}] /\ created \in [Events -> Nat]
        /\ row \in [Events -> {"none", "placeholder", "done"}]
        /\ at \in [Events -> Nat] /\ executed \in [Events -> Nat]
    BY DEF Init
  <2>4. /\ held \in [Relays -> SUBSET Events] /\ inbox \in [Relays -> SUBSET Events]
        /\ from \in [Relays -> Nat] /\ up \subseteq Relays /\ told \subseteq Events
    BY DEF Init
  <2>. QED
    BY <2>1, <2>2, <2>3, <2>4 DEF Init, TypeOK
<1>2. \A w \in Workers : stage[w] = "idle" /\ on[w] = NoEvent
  BY DEF Init, Nobody
<1>3. Unseen
  BY <1>2, NwcAssumption DEF Init, Unseen
<1>4. Fresh /\ Stamped /\ Remembered /\ Sole
  BY <1>2 DEF Init, Fresh, Stamped, Remembered, Sole, Claims
<1>. QED
  BY <1>1, <1>3, <1>4 DEF IInv

-----------------------------------------------------------------------------
(***************************************************************************)
(* Type correctness, one step per group of actions.                        *)
(***************************************************************************)
LEMMA TypeStep == TypeOK /\ [Next]_vars => TypeOK'
<1>. SUFFICES ASSUME TypeOK, [Next]_vars PROVE TypeOK'
  OBVIOUS
<1>. USE NwcAssumption DEF TypeOK, Stages
<1>1. ASSUME NEW e \in Events, NEW r \in Relays, NEW k \in Kinds, NEW skew \in Skews,
             Send(e, r, k, skew)
      PROVE  TypeOK'
  BY <1>1 DEF Send, Receive, limiter, worker
<1>2. ASSUME NEW e \in Events, NEW r \in Relays, Fanout(e, r) PROVE TypeOK'
  BY <1>2 DEF Fanout, Receive, limiter, worker
<1>3. ASSUME NEW r \in Relays, Drop(r) PROVE TypeOK'
  BY <1>3 DEF Drop, clients, limiter, worker
<1>4. ASSUME NEW r \in Relays, Subscribe(r) PROVE TypeOK'
  BY <1>4 DEF Subscribe, clients, limiter, worker
<1>5. ASSUME NEW r \in Relays, NEW e \in Events, NEW w \in Workers, Dispatch(r, e, w)
      PROVE  TypeOK'
  BY <1>5 DEF Dispatch, Moves, clients, limiter
<1>6. ASSUME NEW w \in Workers, Handle(w) PROVE TypeOK'
  <2>. USE DEF Moves, Tell, Free, Fails, clients, limiter, sessions, worker
  <2>1. CASE Refuse(w)
    BY <2>1 DEF Refuse
  <2>2. CASE Admit(w)
    BY <2>2 DEF Admit, HasToken
  <2>3. CASE Claim(w)
    BY <2>3 DEF Claim
  <2>4. CASE Execute(w)
    BY <2>4 DEF Execute
  <2>5. CASE Complete(w)
    BY <2>5 DEF Complete
  <2>6. CASE Publish(w)
    BY <2>6 DEF Publish
  <2>7. CASE ReadSince(w)
    BY <2>7 DEF ReadSince, Reached
  <2>8. CASE AdvanceSince(w)
    BY <2>8 DEF AdvanceSince
  <2>9. CASE Panic(w)
    BY <2>9 DEF Panic
  <2>. QED
    BY <1>6, <2>1, <2>2, <2>3, <2>4, <2>5, <2>6, <2>7, <2>8, <2>9 DEF Handle
<1>7. CASE Tick
  BY <1>7 DEF Tick, clients, sessions, worker
<1>8. CASE Reload
  BY <1>8 DEF Reload, Disconnect, LongAgo, clients, limiter, worker
<1>9. CASE Resume
  <2>1. paused' = FALSE /\ panics' = 0 /\ resets' = resets + 1
    BY <1>9 DEF Resume
  <2>3. paused' \in BOOLEAN
    BY <2>1, Zenon
  <2>4. panics' \in Nat /\ resets' \in Nat
    BY <2>1
  <2>2. UNCHANGED <<now, clients, told, row, at, since, sessions, limiter, worker,
                    executed, drops, faults>>
    BY <1>9 DEF Resume
  <2>. QED
    BY <2>2, <2>3, <2>4 DEF clients, sessions, limiter, worker
<1>10. CASE Crash
  BY <1>10 DEF Crash, Disconnect, LongAgo, Nobody, clients
<1>11. CASE Prune
  BY <1>11 DEF Prune, clients, sessions, limiter, worker
<1>12. CASE UNCHANGED vars
  BY <1>12 DEF vars
<1>. QED
  BY <1>1, <1>2, <1>3, <1>4, <1>5, <1>6, <1>7, <1>8, <1>9, <1>10, <1>11, <1>12 DEF Next

(* TypeOK holds in every reachable state: what the tables, the relays, the *)
(* limiter and the workers can hold.                                       *)
THEOREM TypeCorrect == Spec => []TypeOK
<1>1. Init => TypeOK
  BY InitIInv DEF IInv
<1>. QED
  BY <1>1, TypeStep, PTL DEF Spec

-----------------------------------------------------------------------------
(***************************************************************************)
(* The invariant, step by step.  Most steps only let a worker go on or     *)
(* hand requests around: they make nobody a claimant.                      *)
(***************************************************************************)
Parts == Unseen /\ Fresh /\ Stamped /\ Remembered /\ Sole

Harmless ==
  /\ UNCHANGED <<now, kind, created, held, row, at, executed>>
  /\ \A r \in Relays : inbox'[r] \subseteq inbox[r] \cup held[r]
  /\ \A w \in Workers :
       \/ stage'[w] = stage[w] /\ on'[w] = on[w]
       \/ /\ stage'[w] \notin {"admitted", "claimed"}
          /\ \/ on'[w] \in {on[w], NoEvent}
             \/ \E r \in Relays : on'[w] \in inbox[r]

LEMMA HarmlessKeeps == IInv /\ Harmless => Parts'
<1>. SUFFICES ASSUME IInv, Harmless PROVE Parts'
  OBVIOUS
<1>. USE NwcAssumption DEF IInv, Harmless
<1>1. \A w \in Workers, e \in Events : Claims(w, e)' => Claims(w, e)
  BY DEF Claims
<1>2. Unseen'
  BY DEF Unseen
<1>3. Fresh' /\ Stamped'
  BY DEF Fresh, Stamped
<1>4. Remembered'
  BY <1>1 DEF Remembered
<1>5. Sole'
  BY <1>1 DEF Sole
<1>. QED
  BY <1>2, <1>3, <1>4, <1>5 DEF Parts

(* The steps of the relays, of the sessions and of the operator.           *)
LEMMA SessionsAreHarmless ==
  ASSUME TypeOK,
         \/ \E r \in Relays : Drop(r) \/ Subscribe(r)
         \/ \E r \in Relays, e \in Events, w \in Workers : Dispatch(r, e, w)
         \/ Reload \/ Resume \/ Crash \/ UNCHANGED vars
  PROVE  Harmless
<1>. USE DEF TypeOK, Harmless, clients, worker, sessions
<1>1. ASSUME NEW r \in Relays, Drop(r) PROVE Harmless
  BY <1>1 DEF Drop
<1>2. ASSUME NEW r \in Relays, Subscribe(r) PROVE Harmless
  BY <1>2 DEF Subscribe
<1>3. ASSUME NEW r \in Relays, NEW e \in Events, NEW w \in Workers, Dispatch(r, e, w)
      PROVE  Harmless
  BY <1>3 DEF Dispatch, Moves
<1>4. CASE Reload
  BY <1>4 DEF Reload, Disconnect
<1>5. CASE Resume
  BY <1>5 DEF Resume
<1>6. CASE Crash
  BY <1>6 DEF Crash, Disconnect, Nobody
<1>7. CASE UNCHANGED vars
  BY <1>7 DEF vars
<1>. QED
  BY <1>1, <1>2, <1>3, <1>4, <1>5, <1>6, <1>7

(* The steps of a worker before it is admitted and after it has executed.  *)
LEMMA HandlingIsHarmless ==
  ASSUME TypeOK, NEW w \in Workers,
         \/ Refuse(w) \/ Publish(w) \/ ReadSince(w) \/ AdvanceSince(w) \/ Panic(w)
  PROVE  Harmless
<1>. USE DEF TypeOK, Harmless, Moves, Free, clients, sessions
<1>1. CASE Refuse(w)
  BY <1>1 DEF Refuse
<1>2. CASE Publish(w)
  BY <1>2 DEF Publish
<1>3. CASE ReadSince(w)
  BY <1>3 DEF ReadSince
<1>4. CASE AdvanceSince(w)
  BY <1>4 DEF AdvanceSince
<1>5. CASE Panic(w)
  BY <1>5 DEF Panic
<1>. QED
  BY <1>1, <1>2, <1>3, <1>4, <1>5

(* A new request is one the system knows nothing of.                       *)
LEMMA SendKeeps ==
  ASSUME IInv, NEW e \in Events, NEW r \in Relays, NEW k \in Kinds, NEW skew \in Skews,
         Send(e, r, k, skew)
  PROVE  Parts'
<1>. USE NwcAssumption DEF IInv, TypeOK, Send, Receive, limiter, worker
<1>1. /\ row[e] = "none" /\ executed[e] = 0 /\ k # "unsent"
      /\ \A w \in Workers : on[w] # e
  BY DEF Unseen
<1>2. Unseen'
  BY <1>1 DEF Unseen
<1>3. Fresh' /\ Stamped'
  BY <1>1 DEF Fresh, Stamped
<1>4. Remembered'
  BY <1>1 DEF Remembered, Claims
<1>5. Sole'
  BY DEF Sole, Claims
<1>. QED
  BY <1>2, <1>3, <1>4, <1>5 DEF Parts

LEMMA FanoutKeeps ==
  ASSUME IInv, NEW e \in Events, NEW r \in Relays, Fanout(e, r)
  PROVE  Parts'
<1>. USE DEF IInv, TypeOK, Fanout, Receive, limiter, worker
<1>1. Unseen'
  BY DEF Unseen
<1>2. Fresh' /\ Stamped'
  BY DEF Fresh, Stamped
<1>3. Remembered' /\ Sole'
  BY DEF Remembered, Sole, Claims
<1>. QED
  BY <1>1, <1>2, <1>3 DEF Parts

LEMMA TickKeeps == ASSUME IInv, Tick PROVE Parts'
<1>. USE NwcAssumption DEF IInv, TypeOK, Tick, clients, sessions, worker
<1>1. Unseen' /\ Sole'
  BY DEF Unseen, Sole, Claims
<1>2. Fresh' /\ Stamped'
  BY DEF Fresh, Stamped
<1>3. Remembered'
  BY DEF Remembered, Claims
<1>. QED
  BY <1>1, <1>2, <1>3 DEF Parts

(* Whoever is admitted has just been found to be in its window.            *)
LEMMA AdmitKeeps ==
  ASSUME IInv, NEW w \in Workers, Admit(w)
  PROVE  Parts'
<1>. USE NwcAssumption DEF IInv, TypeOK, Admit, Moves, clients, sessions
<1>1. \A v \in Workers, e \in Events : Claims(v, e)' => Claims(v, e)
  BY DEF Claims
<1>2. Unseen' /\ Stamped'
  BY DEF Unseen, Stamped
<1>3. Fresh'
  BY DEF Fresh, InWindow
<1>4. Remembered' /\ Sole'
  BY <1>1 DEF Remembered, Sole
<1>. QED
  BY <1>2, <1>3, <1>4 DEF Parts

(* The winner of a claim finds no row and is in its window, so nobody has  *)
(* claimed the request before.                                             *)
LEMMA ClaimKeeps ==
  ASSUME IInv, NEW w \in Workers, Claim(w)
  PROVE  Parts'
<1>. USE NwcAssumption DEF IInv, TypeOK, Claim, Moves, Fails, clients, sessions
<1>1. CASE /\ row[on[w]] = "none"
           /\ row' = [row EXCEPT ![on[w]] = "placeholder"]
           /\ at' = [at EXCEPT ![on[w]] = now]
           /\ stage' = [stage EXCEPT ![w] = "claimed"]
  <2>1. on[w] \in Events /\ kind[on[w]] # "unsent"
    BY <1>1 DEF Unseen
  <2>2. now <= created[on[w]] + Window /\ created[on[w]] <= now + Window
    BY <1>1 DEF Fresh
  <2>3. executed[on[w]] = 0 /\ \A v \in Workers : ~Claims(v, on[w])
    BY <1>1, <2>1, <2>2 DEF Remembered
  <2>4. \A v \in Workers, e \in Events :
          Claims(v, e)' => Claims(v, e) \/ (v = w /\ e = on[w])
    BY <1>1 DEF Claims
  <2>9. UNCHANGED <<executed, on, created, now>>
    OBVIOUS
  <2>5. Unseen'
    BY <1>1, <2>1 DEF Unseen
  <2>6. Fresh' /\ Stamped'
    BY <1>1, <2>1, <2>2 DEF Fresh, Stamped
  <2>7. Remembered'
    BY <1>1, <2>1, <2>4 DEF Remembered
  <2>8. Sole'
    BY <2>1, <2>3, <2>4, <2>9 DEF Sole
  <2>. QED
    BY <2>5, <2>6, <2>7, <2>8 DEF Parts
<1>2. CASE /\ stage' = [stage EXCEPT ![w] = "handled"]
           /\ UNCHANGED <<row, at>>
  <2>1. Harmless
    BY <1>2 DEF Harmless
  <2>. QED
    BY <2>1, HarmlessKeeps
<1>. QED
  BY <1>1, <1>2 DEF Unclaimed

(* The one claimant executes what nobody has executed.                     *)
LEMMA ExecuteKeeps ==
  ASSUME IInv, NEW w \in Workers, Execute(w)
  PROVE  Parts'
<1>. USE NwcAssumption DEF IInv, TypeOK, Execute, Moves, clients, sessions
<1>1. on[w] \in Events /\ Claims(w, on[w]) /\ kind[on[w]] # "unsent"
  BY DEF Claims
<1>2. \A v \in Workers, e \in Events : Claims(v, e)' => Claims(v, e) /\ v # w
  BY DEF Claims
<1>3. /\ \A e \in Events : e # on[w] => executed'[e] = executed[e]
      /\ executed'[on[w]] \in {executed[on[w]], executed[on[w]] + 1}
  BY <1>1
<1>4. executed[on[w]] = 0 /\ \A v \in Workers : v # w => ~Claims(v, on[w])
  BY <1>1 DEF Sole
<1>5. Unseen' /\ Fresh' /\ Stamped'
  BY <1>1 DEF Unseen, Fresh, Stamped
<1>6. Remembered'
  BY <1>1, <1>2, <1>3 DEF Remembered
<1>7. Sole'
  BY <1>1, <1>2, <1>3, <1>4 DEF Sole
<1>. QED
  BY <1>5, <1>6, <1>7 DEF Parts

LEMMA CompleteKeeps ==
  ASSUME IInv, NEW w \in Workers, Complete(w)
  PROVE  Parts'
<1>. USE NwcAssumption DEF IInv, TypeOK, Complete, Moves, Fails, clients, sessions
<1>1. /\ on[w] \in Events
      /\ \A v \in Workers, e \in Events : Claims(v, e)' => Claims(v, e)
  BY DEF Claims
<1>2. \A e \in Events : row[e] = "none" <=> row'[e] = "none"
  BY <1>1
<1>3. Unseen' /\ Fresh'
  BY <1>2 DEF Unseen, Fresh
<1>4. Stamped'
  BY <1>1, <1>2 DEF Stamped
<1>5. Remembered' /\ Sole'
  BY <1>1, <1>2 DEF Remembered, Sole
<1>. QED
  BY <1>3, <1>4, <1>5 DEF Parts

(* What the prune forgets has left its window: the row was stamped at      *)
(* created_at - Window at the earliest, and Retention covers both sides.   *)
LEMMA PrunedIsStale ==
  ASSUME IInv, NEW e \in Events, Expired(e)
  PROVE  now > created[e] + Window
<1>1. now \in Nat /\ at[e] \in Nat /\ created[e] \in Nat
  BY DEF IInv, TypeOK
<1>2. at[e] < now - Retention /\ created[e] <= at[e] + Window
  BY DEF IInv, Stamped, Expired
<1>. QED
  BY <1>1, <1>2, NwcAssumption

LEMMA PruneKeeps == ASSUME IInv, Prune PROVE Parts'
<1>. USE DEF IInv, TypeOK, Prune, clients, sessions, worker
<1>1. ASSUME NEW e \in Events
      PROVE  \/ row'[e] = "none" /\ Expired(e)
             \/ row'[e] = row[e] /\ at'[e] = at[e]
  <2>1. CASE Expired(e)
    BY <2>1
  <2>2. CASE ~Expired(e)
    BY <2>2
  <2>. QED
    BY <2>1, <2>2
<1>2. Unseen' /\ Fresh' /\ Stamped'
  BY <1>1 DEF Unseen, Fresh, Stamped
<1>3. Remembered'
  BY <1>1, PrunedIsStale DEF Remembered, Claims
<1>4. Sole'
  BY DEF Sole, Claims
<1>. QED
  BY <1>2, <1>3, <1>4 DEF Parts

-----------------------------------------------------------------------------
LEMMA StepIInv == IInv /\ [Next]_vars => IInv'
<1>. SUFFICES ASSUME IInv, [Next]_vars PROVE IInv'
  OBVIOUS
<1>1. TypeOK /\ TypeOK'
  BY TypeStep DEF IInv
<1>2. ASSUME NEW w \in Workers, Handle(w) PROVE Parts'
  BY <1>1, <1>2, HandlingIsHarmless, HarmlessKeeps, AdmitKeeps, ClaimKeeps,
     ExecuteKeeps, CompleteKeeps DEF Handle
<1>3. Parts'
  BY <1>1, <1>2, SessionsAreHarmless, HarmlessKeeps, SendKeeps, FanoutKeeps,
     TickKeeps, PruneKeeps DEF Next
<1>. QED
  BY <1>1, <1>3 DEF IInv, Parts

THEOREM Invariant == Spec => []IInv
BY InitIInv, StepIInv, PTL DEF Spec

(* ClaimNWCRequest, the freshness window and the retention of the cache    *)
(* together: however often a request is delivered, and whatever crashes,   *)
(* fails or is pruned in between, it is executed at most once.             *)
THEOREM AtMostOnce == Spec => []ExecutedAtMostOnce
<1>1. IInv => ExecutedAtMostOnce
  BY DEF IInv, Sole, ExecutedAtMostOnce
<1>. QED
  BY <1>1, Invariant, PTL

(* A recorded response is replayed for as long as its request is accepted: *)
(* PruneNWCHandled is the only statement that takes it away.               *)
THEOREM AnswersOutlive == Spec => AnswerOutlivesRequest
<1>. DEFINE Kept == \A e \in Events :
       row[e] = "done" /\ row'[e] # "done" => now > created[e] + Window
<1>1. IInv /\ [Next]_vars => Kept
  <2>. SUFFICES ASSUME IInv, [Next]_vars, NEW e \in Events,
                       row[e] = "done", row'[e] # "done"
                PROVE  now > created[e] + Window
    OBVIOUS
  <2>. USE DEF clients
  <2>1. row \in [Events -> {"none", "placeholder", "done"}] /\ row' # row
    BY DEF IInv, TypeOK
  <2>2. ASSUME NEW w \in Workers, Handle(w) PROVE FALSE
    <3>1. CASE Claim(w)
      BY <2>1, <3>1 DEF Claim, Unclaimed
    <3>2. CASE Complete(w)
      BY <2>1, <3>2 DEF Complete
    <3>. QED
      BY <2>1, <2>2, <3>1, <3>2
         DEF Handle, Refuse, Admit, Execute, Publish, ReadSince, AdvanceSince, Panic
  <2>3. CASE Prune
    <3>1. Expired(e)
      BY <2>3 DEF Prune
    <3>. QED
      BY <3>1, PrunedIsStale
  <2>. QED
    BY <2>1, <2>2, <2>3
       DEF Next, Send, Fanout, Drop, Subscribe, Dispatch, Tick, Reload, Resume, Crash,
           vars
<1>. QED
  BY <1>1, Invariant, PTL DEF Spec, AnswerOutlivesRequest

-----------------------------------------------------------------------------
(* A worker about to write the resume point got its value from the clock.  *)
Behind == since <= now /\ \A w \in Workers : target[w] <= now

LEMMA StepBehind == TypeOK /\ Behind /\ [Next]_vars => Behind'
<1>. SUFFICES ASSUME TypeOK, Behind, [Next]_vars PROVE Behind'
  OBVIOUS
<1>. USE DEF TypeOK, Behind
<1>1. CASE UNCHANGED <<now, since, target>>
  BY <1>1
<1>2. CASE Tick
  BY <1>2 DEF Tick, worker
<1>3. CASE Crash
  BY <1>3 DEF Crash
<1>4. ASSUME NEW w \in Workers, ReadSince(w) PROVE Behind'
  BY <1>4 DEF ReadSince, Reached, Free, Moves
<1>5. ASSUME NEW w \in Workers, AdvanceSince(w) PROVE Behind'
  BY <1>5 DEF AdvanceSince, Free
<1>6. ASSUME NEW w \in Workers, Panic(w) PROVE Behind'
  BY <1>6 DEF Panic, Free
<1>. QED
  BY <1>1, <1>2, <1>3, <1>4, <1>5, <1>6
     DEF Next, Send, Fanout, Drop, Subscribe, Dispatch, Reload, Resume, Prune, Handle,
         Refuse, Admit, Claim, Execute, Complete, Publish, worker, vars

(* handleOne's clamp: no created_at moves the resume point past the clock. *)
THEOREM ResumePointNeverAhead == Spec => []NeverAhead
<1>1. Init => TypeOK /\ Behind
  <2>1. Init => Behind
    BY DEF Init, Behind
  <2>. QED
    BY <2>1, InitIInv DEF IInv
<1>2. Behind => NeverAhead
  BY DEF Behind, NeverAhead
<1>. QED
  BY <1>1, <1>2, TypeStep, StepBehind, PTL DEF Spec
=============================================================================
