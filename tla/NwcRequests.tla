---------------------------- MODULE NwcRequests ----------------------------
(***************************************************************************)
(* One pairing of the Nostr Wallet Connect service, internal/nwc: requests *)
(* come in over every relay the pairing names, are handled by a few        *)
(* workers at a time, and are executed behind a durable replay cache; the  *)
(* resume point nwc_since says from where a new subscription reads.        *)
(*                                                                         *)
(* One step is one SQL statement, one decision taken under the limiter's   *)
(* lock, one message, or one tick of the clock (a second).  A request is   *)
(* known by its event id; what it asks for is one of three kinds.          *)
(*                                                                         *)
(* Abstracted: an event that fails the pubkey, id or signature check is    *)
(* ignored before anything is changed and is not modelled; the attempts of *)
(* one publish are one step, which a relay may or may not take; the audit rows and    *)
(* the "last used" column are left out, and so are other pairings, which   *)
(* share the resume point.                                                 *)
(***************************************************************************)
EXTENDS Integers

CONSTANTS Events,     \* request ids
          Relays,     \* the relays the pairing names
          Workers,    \* one per nwc.InFlightPerConnection
          NoEvent,    \* what an idle worker handles
          Window,     \* nwc.RequestWindow
          Sibling,    \* nwc.SiblingDeliveryWindow
          Retention,  \* nwc.HandledRetention
          Burst,      \* nwc.RequestBurst; one token comes back per tick
          MaxPanics,  \* nwc.MaxPanicsPerConnection
          Kinds,      \* the kinds of request a client sends
          Skews,      \* how far off a client's clock may be
          Horizon,    \* bound: the clock's last tick
          MaxResets,  \* bound: crashes of the process and resumptions
          MaxDrops,   \* bound: subscriptions a relay ends
          MaxFaults   \* bound: statements that fail

ASSUME NwcAssumption ==
  /\ NoEvent \notin Events
  /\ Window \in Nat
  /\ Sibling \in Nat
  /\ Retention \in Nat /\ Retention >= 2 * Window
  /\ Burst \in Nat
  /\ MaxPanics \in Nat
  /\ Kinds \subseteq {"plain", "garbled", "crashing"}
  /\ Skews \subseteq Int
  /\ Horizon \in Nat /\ MaxResets \in Nat /\ MaxDrops \in Nat /\ MaxFaults \in Nat

VARIABLES
  now,
  (* the clients and the relays *)
  kind,      \* what each request is, "unsent" before it exists
  created,   \* its created_at, by its client's clock
  held,      \* the requests each relay has
  told,      \* requests a response was published for
  (* the database *)
  row,       \* nwc_handled_requests: none, the placeholder, or the response
  at,        \* its handled_at
  since,     \* the nwc_since setting
  panics,    \* nwc_connections.panic_count
  paused,    \* paused_reason is set
  (* the process *)
  serving,   \* Run has the pairing in its live map
  up,        \* relays with an open subscription
  from,      \* the since each open subscription was opened with
  inbox,     \* what each relay has still to hand to its reader
  tokens,    \* the limiter's bucket
  charged,   \* when the limiter last charged for each request
  stage, on, \* what each worker is doing, and for which request
  target,    \* the resume point a worker is about to write
  executed,  \* history: how often each request was executed
  (* bounds *)
  resets, drops, faults

clients  == <<kind, created, held>>
limiter  == <<tokens, charged>>
sessions == <<serving, up, from, inbox>>
worker   == <<stage, on, target>>
vars == <<now, kind, created, held, told, row, at, since, panics, paused, serving,
          up, from, inbox, tokens, charged, stage, on, target, executed,
          resets, drops, faults>>

Stages == {"idle", "new", "admitted", "claimed", "executed", "recorded",
           "handled", "advancing"}

LongAgo == [e \in Events |-> -Sibling]
Nobody  == [w \in Workers |-> "idle"]

Init ==
  /\ now = 0
  /\ kind = [e \in Events |-> "unsent"]
  /\ created = [e \in Events |-> 0]
  /\ held = [r \in Relays |-> {}]
  /\ told = {}
  /\ row = [e \in Events |-> "none"] /\ at = [e \in Events |-> 0]
  /\ since = 0 /\ panics = 0 /\ paused = FALSE
  /\ serving = TRUE /\ up = {}
  /\ from = [r \in Relays |-> 0]
  /\ inbox = [r \in Relays |-> {}]
  /\ tokens = Burst /\ charged = LongAgo
  /\ stage = Nobody
  /\ on = [w \in Workers |-> NoEvent]
  /\ target = [w \in Workers |-> 0]
  /\ executed = [e \in Events |-> 0]
  /\ resets = 0 /\ drops = 0 /\ faults = 0

-----------------------------------------------------------------------------
(***************************************************************************)
(* Clients, relays and the clock.                                          *)
(***************************************************************************)

(* A relay that gets a request keeps it, and hands it to an open           *)
(* subscription whose filter selects it.                                   *)
Receive(r, e, stamp) ==
  /\ held' = [held EXCEPT ![r] = @ \cup {e}]
  /\ inbox' = IF r \in up /\ stamp >= from[r]
              THEN [inbox EXCEPT ![r] = @ \cup {e}] ELSE inbox

Send(e, r, k, skew) ==
  /\ kind[e] = "unsent" /\ now + skew >= 0
  /\ kind' = [kind EXCEPT ![e] = k]
  /\ created' = [created EXCEPT ![e] = now + skew]
  /\ Receive(r, e, now + skew)
  /\ UNCHANGED <<now, told, row, at, since, panics, paused, serving, up, from,
                 limiter, worker, executed, resets, drops, faults>>

(* The same event reaches another of the pairing's relays.                 *)
Fanout(e, r) ==
  /\ kind[e] # "unsent" /\ e \notin held[r]
  /\ Receive(r, e, created[e])
  /\ UNCHANGED <<now, kind, created, told, row, at, since, panics, paused, serving,
                 up, from, limiter, worker, executed, resets, drops, faults>>

(* A relay ends a subscription.  What it had not handed over is gone with  *)
(* it, except one event a reader may be holding while it waits for a slot. *)
AllBusy == \A w \in Workers : stage[w] # "idle"

Drop(r) ==
  /\ r \in up /\ drops < MaxDrops
  /\ up' = up \ {r} /\ from' = [from EXCEPT ![r] = 0]
  /\ drops' = drops + 1
  /\ \/ inbox' = [inbox EXCEPT ![r] = {}]
     \/ \E e \in inbox[r] : AllBusy /\ inbox' = [inbox EXCEPT ![r] = {e}]
  /\ UNCHANGED <<now, clients, told, row, at, since, panics, paused, serving,
                 limiter, worker, executed, resets, faults>>

(* The clock.  Between the freshness check and the claim a worker only     *)
(* takes a lock and runs one INSERT, so no second passes there.            *)
Tick ==
  /\ now < Horizon
  /\ \A w \in Workers : stage[w] # "admitted"
  /\ now' = now + 1
  /\ tokens' = IF tokens < Burst THEN tokens + 1 ELSE tokens
  /\ UNCHANGED <<clients, told, row, at, since, panics, paused, sessions, charged,
                 worker, executed, resets, drops, faults>>

-----------------------------------------------------------------------------
(***************************************************************************)
(* Subscriptions.                                                          *)
(***************************************************************************)

(* subscribe and resubscribe: the filter asks from the resume point as it  *)
(* stands now.                                                             *)
Subscribe(r) ==
  /\ serving /\ r \notin up /\ inbox[r] = {}
  /\ up' = up \cup {r}
  /\ from' = [from EXCEPT ![r] = since]
  /\ inbox' = [inbox EXCEPT ![r] = {e \in held[r] : created[e] >= since}]
  /\ UNCHANGED <<now, clients, told, row, at, since, panics, paused, serving,
                 limiter, worker, executed, resets, drops, faults>>

Disconnect ==
  /\ up' = {}
  /\ from' = [r \in Relays |-> 0]
  /\ inbox' = [r \in Relays |-> {}]

(* reload: a paused pairing is closed, a resumed one is opened again with a*)
(* new limiter.                                                            *)
Reload ==
  /\ serving = paused
  /\ serving' = ~paused
  /\ IF paused
     THEN Disconnect /\ UNCHANGED limiter
     ELSE tokens' = Burst /\ charged' = LongAgo /\ UNCHANGED <<up, from, inbox>>
  /\ UNCHANGED <<now, clients, told, row, at, since, panics, paused, worker,
                 executed, resets, drops, faults>>

(* store.ResumeNWCConnection, by the operator.                             *)
Resume ==
  /\ paused /\ resets < MaxResets
  /\ paused' = FALSE /\ panics' = 0
  /\ resets' = resets + 1
  /\ UNCHANGED <<now, clients, told, row, at, since, sessions, limiter, worker,
                 executed, drops, faults>>

(* The process dies and starts over: what was in memory is gone.           *)
Crash ==
  /\ resets < MaxResets
  /\ resets' = resets + 1
  /\ serving' = ~paused
  /\ Disconnect
  /\ tokens' = Burst /\ charged' = LongAgo
  /\ stage' = Nobody
  /\ on' = [w \in Workers |-> NoEvent]
  /\ target' = [w \in Workers |-> 0]
  /\ UNCHANGED <<now, clients, told, row, at, since, panics, paused, executed,
                 drops, faults>>

-----------------------------------------------------------------------------
(***************************************************************************)
(* Handling a request.                                                     *)
(***************************************************************************)
Moves(w, to) == stage' = [stage EXCEPT ![w] = to]

Tell(e) == told' = told \cup {e}

NeverFrees(w) == Moves(w, "handled") /\ UNCHANGED <<on, target>>

Free(w) ==
  /\ Moves(w, "idle")
  /\ on' = [on EXCEPT ![w] = NoEvent]
  /\ target' = [target EXCEPT ![w] = 0]

Fails == faults < MaxFaults /\ faults' = faults + 1

InWindow(e) == now - created[e] <= Window /\ created[e] - now <= Window

(* consume and dispatchOne: a free slot takes the next event.              *)
Dispatch(r, e, w) ==
  /\ serving /\ e \in inbox[r] /\ stage[w] = "idle"
  /\ inbox' = [inbox EXCEPT ![r] = @ \ {e}]
  /\ Moves(w, "new")
  /\ on' = [on EXCEPT ![w] = e]
  /\ UNCHANGED <<now, clients, told, row, at, since, panics, paused, serving, up,
                 from, limiter, target, executed, resets, drops, faults>>

(* What is answered before the claim and leaves no row: an unreadable      *)
(* request, and a stale one.                                               *)
Refuse(w) ==
  /\ stage[w] = "new"
  /\ kind[on[w]] = "garbled" \/ ~InWindow(on[w])
  /\ Tell(on[w])
  /\ Moves(w, "handled")
  /\ UNCHANGED <<now, clients, row, at, since, panics, paused, sessions, limiter,
                 on, target, executed, resets, drops, faults>>

(* requestLimit.admit: a copy of what was charged a moment ago is free, and*)
(* what finds the bucket empty is answered RATE_LIMITED.                   *)
IsCopy(e) == now - charged[e] < Sibling

HasToken   == tokens >= 1

Admit(w) ==
  /\ stage[w] = "new" /\ kind[on[w]] # "garbled" /\ InWindow(on[w])
  /\ \/ /\ IsCopy(on[w])
        /\ Moves(w, "admitted")
        /\ UNCHANGED <<told, limiter>>
     \/ /\ ~IsCopy(on[w]) /\ HasToken
        /\ tokens' = tokens - 1
        /\ charged' = [charged EXCEPT ![on[w]] = now]
        /\ Moves(w, "admitted")
        /\ UNCHANGED told
     \/ /\ ~IsCopy(on[w]) /\ ~HasToken
        /\ Tell(on[w])
        /\ Moves(w, "handled")
        /\ UNCHANGED limiter
  /\ UNCHANGED <<now, clients, row, at, since, panics, paused, sessions, on, target,
                 executed, resets, drops, faults>>

(* store.ClaimNWCRequest: the INSERT elects one worker per request; whoever*)
(* loses replays what the row holds, or says nothing when the row is a     *)
(* placeholder so young that this is a copy of what is being handled.  A   *)
(* claim that fails executes nothing.                                      *)
RetriesUnfinished(e) == row[e] # "done"

Unclaimed(e) == row[e] = "none"

InHand(e) == row[e] = "placeholder" /\ now - at[e] < Sibling

Claim(w) ==
  /\ stage[w] = "admitted"
  /\ \/ /\ Unclaimed(on[w])
        /\ row' = [row EXCEPT ![on[w]] = "placeholder"]
        /\ at' = [at EXCEPT ![on[w]] = now]
        /\ Moves(w, "claimed")
        /\ UNCHANGED <<told, faults>>
     \/ /\ ~Unclaimed(on[w])
        /\ IF InHand(on[w]) THEN UNCHANGED told ELSE Tell(on[w])
        /\ Moves(w, "handled")
        /\ UNCHANGED <<row, at, faults>>
     \/ /\ Fails
        /\ Tell(on[w])
        /\ Moves(w, "handled")
        /\ UNCHANGED <<row, at>>
  /\ UNCHANGED <<now, clients, since, panics, paused, sessions, limiter, on, target,
                 executed, resets, drops>>

(* The permission check and dispatch: the request has its effect, or is    *)
(* refused for want of a permission or by the method itself.               *)
Execute(w) ==
  /\ stage[w] = "claimed" /\ kind[on[w]] = "plain"
  /\ \/ executed' = [executed EXCEPT ![on[w]] = @ + 1]
     \/ UNCHANGED executed
  /\ Moves(w, "executed")
  /\ UNCHANGED <<now, clients, told, row, at, since, panics, paused, sessions,
                 limiter, on, target, resets, drops, faults>>

(* store.CompleteNWCRequest; a failure is logged and the response is still *)
(* published.                                                              *)
Complete(w) ==
  /\ stage[w] = "executed"
  /\ \/ /\ row' = [row EXCEPT ![on[w]] = IF @ = "none" THEN @ ELSE "done"]
        /\ at' = [at EXCEPT ![on[w]] = IF row[on[w]] = "none" THEN @ ELSE now]
        /\ UNCHANGED faults
     \/ Fails /\ UNCHANGED <<row, at>>
  /\ Moves(w, "recorded")
  /\ UNCHANGED <<now, clients, told, since, panics, paused, sessions, limiter, on,
                 target, executed, resets, drops>>

Publish(w) ==
  /\ stage[w] = "recorded"
  /\ Tell(on[w])
  /\ Moves(w, "handled")
  /\ UNCHANGED <<now, clients, row, at, since, panics, paused, sessions, limiter,
                 on, target, executed, resets, drops, faults>>

(* handleOne's last part, for a request that is still in its window: read  *)
(* the resume point, and write it if this request is later.                *)
Unclamped(e) == created[e]

Reached(e) == IF created[e] > now THEN now ELSE created[e]

ReadSince(w) ==
  /\ stage[w] = "handled"
  /\ IF InWindow(on[w]) /\ Reached(on[w]) > since
     THEN /\ Moves(w, "advancing")
          /\ target' = [target EXCEPT ![w] = Reached(on[w])]
          /\ UNCHANGED on
     ELSE Free(w)
  /\ UNCHANGED <<now, clients, told, row, at, since, panics, paused, sessions,
                 limiter, executed, resets, drops, faults>>

AdvanceSince(w) ==
  /\ stage[w] = "advancing"
  /\ \/ since' = target[w] /\ UNCHANGED faults
     \/ Fails /\ UNCHANGED since
  /\ Free(w)
  /\ UNCHANGED <<now, clients, told, row, at, panics, paused, sessions, limiter,
                 executed, resets, drops>>

(* containPanic and quarantine: a request that crashes its handler, before *)
(* the claim or after it, is dropped and counted, and at the limit the     *)
(* pairing is paused.                                                      *)
Panic(w) ==
  /\ stage[w] \in {"new", "claimed"} /\ kind[on[w]] = "crashing"
  /\ panics' = panics + 1
  /\ paused' = (paused \/ panics' >= MaxPanics)
  /\ Free(w)
  /\ UNCHANGED <<now, clients, told, row, at, since, sessions, limiter, executed,
                 resets, drops, faults>>

(* store.PruneNWCHandled.                                                  *)
ForgetsTooSoon(e) == row[e] # "none" /\ at[e] < now - Window

Expired(e) == row[e] # "none" /\ at[e] < now - Retention

Prune ==
  /\ \E e \in Events : Expired(e)
  /\ row' = [e \in Events |-> IF Expired(e) THEN "none" ELSE row[e]]
  /\ at' = [e \in Events |-> IF Expired(e) THEN 0 ELSE at[e]]
  /\ UNCHANGED <<now, clients, told, since, panics, paused, sessions, limiter,
                 worker, executed, resets, drops, faults>>

-----------------------------------------------------------------------------
Handle(w) ==
  \/ Refuse(w) \/ Admit(w) \/ Claim(w) \/ Execute(w) \/ Complete(w) \/ Publish(w)
  \/ ReadSince(w) \/ AdvanceSince(w) \/ Panic(w)

Next ==
  \/ \E e \in Events, r \in Relays, k \in Kinds, skew \in Skews : Send(e, r, k, skew)
  \/ \E e \in Events, r \in Relays : Fanout(e, r)
  \/ \E r \in Relays : Drop(r) \/ Subscribe(r)
  \/ \E r \in Relays, e \in Events, w \in Workers : Dispatch(r, e, w)
  \/ \E w \in Workers : Handle(w)
  \/ Tick \/ Reload \/ Resume \/ Crash \/ Prune

(* Readers and workers are goroutines that are always scheduled, and every *)
(* call a handler makes ends (LND's own timeouts bound a payment).         *)
Fairness ==
  /\ \A r \in Relays, e \in Events :
       WF_vars(\E w \in Workers : Dispatch(r, e, w))
  /\ \A w \in Workers : WF_vars(Handle(w))

Spec == Init /\ [][Next]_vars /\ Fairness

-----------------------------------------------------------------------------
TypeOK ==
  /\ now \in Nat
  /\ kind \in [Events -> Kinds \cup {"unsent"}]
  /\ created \in [Events -> Nat]
  /\ held \in [Relays -> SUBSET Events] /\ inbox \in [Relays -> SUBSET Events]
  /\ told \subseteq Events
  /\ row \in [Events -> {"none", "placeholder", "done"}]
  /\ at \in [Events -> Nat]
  /\ since \in Nat /\ panics \in Nat
  /\ paused \in BOOLEAN /\ serving \in BOOLEAN
  /\ up \subseteq Relays /\ from \in [Relays -> Nat]
  /\ tokens \in 0..Burst /\ charged \in [Events -> Int]
  /\ stage \in [Workers -> Stages]
  /\ on \in [Workers -> Events \cup {NoEvent}]
  /\ target \in [Workers -> Nat]
  /\ executed \in [Events -> Nat]
  /\ resets \in Nat /\ drops \in Nat /\ faults \in Nat
  /\ \A w \in Workers : stage[w] # "idle" => on[w] \in Events

(* ClaimNWCRequest's promise: however often a request is delivered, by     *)
(* however many relays, across drops, crashes, failed statements and the   *)
(* hourly prune, it has its effect at most once.                           *)
ExecutedAtMostOnce == \A e \in Events : executed[e] <= 1

(* handleOne's clamp: the resume point never lies in the future, where it  *)
(* would keep the relays from delivering anything until the clock has      *)
(* caught up, whatever a client wrote into created_at.                     *)
NeverAhead == since <= now

(* A response that was recorded is there for as long as its request can be *)
(* accepted again: nobody takes the claim back and the prune comes late    *)
(* enough, even for a request stamped in the future.                       *)
AnswerOutlivesRequest ==
  [][\A e \in Events : row[e] = "done" /\ row'[e] # "done" =>
       now > created[e] + Window]_vars

(* The comment on serve (run.go:417-418): what arrived while the socket    *)
(* was down is delivered by the new subscription, because it asks from     *)
(* nwc_since.  A request nobody has claimed or answered must then still be *)
(* selected by that filter.                                                *)
StillDeliverable ==
  \A e \in Events :
    kind[e] = "plain" /\ e \notin told /\ row[e] = "none" /\ InWindow(e)
      => created[e] >= since

(* A readable request that a relay has handed over is answered: no reader  *)
(* waits for a slot forever and no copy stays silent in the belief that    *)
(* another worker answers, as long as the process and the subscription     *)
(* live.                                                                   *)
EveryRequestIsAnswered ==
  \A r \in Relays, e \in Events :
    (e \in inbox[r] /\ kind[e] = "plain") ~>
      (e \in told \/ r \notin up \/ ~serving \/ resets > 0)
=============================================================================
