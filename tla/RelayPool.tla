----------------------------- MODULE RelayPool -----------------------------
(***************************************************************************)
(* The process's relay connections (internal/nostr/pool.go, subscribe.go)  *)
(* and who shares them: the sessions of NWC pairings, which hold a         *)
(* subscription for as long as the pairing is served (internal/nwc), the   *)
(* answers those publish to their own relays, and the publisher of zap     *)
(* receipts, which also sends to relays a stranger named and closes        *)
(* afterwards what it opened for them.                                     *)
(*                                                                         *)
(* There is one map from URL to relay and no lock around a look at it and  *)
(* what follows; only Compute, which stores a relay, is atomic.  Whoever   *)
(* wants a relay is a caller with a step of its own.  What is sent, and    *)
(* the relay's answer, are ZapReceipts' and NwcRequests'; why a dial       *)
(* fails, the budget or the check of the address included, is left open.   *)
(***************************************************************************)
EXTENDS Integers, FiniteSets

CONSTANTS Relays,       \* URLs, normalised
          Strange,      \* those only a stranger names
          Paired,       \* those the pairings name
          Pairings,     \* NWC pairings, each with one session per relay
          Ids,          \* bound: sockets to one relay at a time
          MaxTransient, \* MaxTransientRelays
          NoSocket

ASSUME PoolAssumption ==
  /\ Paired \subseteq Relays /\ Strange \subseteq Relays \ Paired
  /\ "answer" \notin Pairings /\ "publish" \notin Pairings
  /\ MaxTransient \in Nat
  /\ NoSocket \notin Relays \X Ids
  /\ IsFiniteSet(Relays) /\ IsFiniteSet(Pairings)

(* A socket is named for the relay it leads to.                            *)
Sockets == Relays \X Ids

Sessions == Paired \X Pairings
Answers == Paired \X {"answer"}
Legs == Relays \X {"publish"}
Callers == Sessions \cup Answers \cup Legs
Url(c) == c[1]

VARIABLES
  (* the sockets *)
  up,         \* those that are connected
  map,        \* Pool.pool.Relays, a dead entry included
  (* the callers *)
  step,       \* where each is
  hand,       \* a socket it has dialled and not stored
  (* subscriptions *)
  subscribed, \* the count of subscriptions per relay
  attached,   \* sessions with a subscription in connection.subs, ended or not
  closed,     \* pairings that are no longer served
  (* the publish in progress, under the publishing lock *)
  list,       \* the operator's relays
  pub,        \* where it is
  targets,    \* the relays it is going to send to
  spared,     \* the relays it leaves open
  todo,       \* entries its teardown has not looked at
  closing,    \* the socket the teardown has closed and not yet deleted
  (* history *)
  guarded,    \* sessions at work when the teardown read the subscriptions
  torn        \* live sockets a teardown took from the map in place of its own

sockets == <<up, map>>
callers == <<step, hand>>
sessions == <<subscribed, attached, closed>>
publish == <<pub, targets, spared, todo, closing, guarded>>
vars == <<sockets, callers, sessions, list, publish, torn>>

Init ==
  /\ up = {} /\ map = [r \in Relays |-> NoSocket]
  /\ step = [c \in Callers |-> "resting"]
  /\ hand = [c \in Callers |-> NoSocket]
  /\ subscribed = [r \in Relays |-> 0]
  /\ attached = {} /\ closed = {}
  /\ list \in SUBSET (Relays \ Strange)
  /\ pub = "idle" /\ targets = {} /\ spared = {} /\ todo = {}
  /\ closing = NoSocket /\ guarded = {} /\ torn = {}

Goto(c, s) == step' = [step EXCEPT ![c] = s]

-----------------------------------------------------------------------------
(***************************************************************************)
(* Pool.dial, the same for every caller.  A session goes on to subscribe   *)
(* on the relay it is given; an answer, or the leg of a publish, sends its *)
(* event and is done, whatever the relay says (publishOne).                *)
(***************************************************************************)
Live(r) == map[r] \in up

Proceed(c) == Goto(c, IF c \in Sessions THEN "subscribing" ELSE "resting")

(* A relay that is connected is handed back without a dial.                *)
Look(c) ==
  /\ step[c] = "looking" \/ (c \in Answers /\ step[c] = "resting")
  /\ IF Live(Url(c)) THEN Proceed(c) ELSE Goto(c, "dialling")
  /\ UNCHANGED <<sockets, hand, sessions, list, publish, torn>>

InUse == up \cup {map[r] : r \in Relays} \cup {hand[c] : c \in Callers} \cup {closing}
Fresh(r) == ({r} \X Ids) \ InUse

Connect(c) ==
  /\ step[c] = "dialling" /\ Fresh(Url(c)) # {}
  /\ LET s == CHOOSE f \in Fresh(Url(c)) : TRUE
     IN up' = up \cup {s} /\ hand' = [hand EXCEPT ![c] = s]
  /\ Goto(c, "storing")
  /\ UNCHANGED <<map, sessions, list, publish, torn>>

(* The dial of an answer or a leg fails.                                   *)
Fail(c) ==
  /\ c \notin Sessions /\ step[c] = "dialling"
  /\ Goto(c, "resting")
  /\ UNCHANGED <<sockets, hand, sessions, list, publish, torn>>

(* Mutation: a plain Store, as the library's EnsureRelay does it.          *)
StoresOver(c) ==
  /\ step[c] = "storing"
  /\ map' = [map EXCEPT ![Url(c)] = hand[c]]
  /\ hand' = [hand EXCEPT ![c] = NoSocket]
  /\ Proceed(c)
  /\ UNCHANGED <<up, sessions, list, publish, torn>>

(* Compute: a connected entry is kept, and whoever dialled closes its own, *)
(* which nobody else has seen; a dead one is replaced.                     *)
Store(c) ==
  /\ step[c] = "storing"
  /\ IF Live(Url(c))
     THEN up' = up \ {hand[c]} /\ UNCHANGED map
     ELSE map' = [map EXCEPT ![Url(c)] = hand[c]] /\ UNCHANGED up
  /\ hand' = [hand EXCEPT ![c] = NoSocket]
  /\ Proceed(c)
  /\ UNCHANGED <<sessions, list, publish, torn>>

-----------------------------------------------------------------------------
(***************************************************************************)
(* Sessions (Pool.Subscribe; connection.attach, detach and close;          *)
(* serveRelay, resubscribe).  One that is to subscribe again keeps the     *)
(* subscription it has lost until attach puts the next in its place.       *)
(***************************************************************************)
Remembered(r) == [subscribed EXCEPT ![r] = @ + 1]

(* Mutation: a relay one session forgets is forgotten for all.             *)
ForgottenForAll(r) == [subscribed EXCEPT ![r] = 0]

Forgotten(r) == [subscribed EXCEPT ![r] = IF @ <= 1 THEN 0 ELSE @ - 1]

(* rememberSubscribed, before the dial.  A pairing that is closed may lose *)
(* the race against the end of the backoff and dial once more.             *)
Begin(c) ==
  /\ c \in Sessions /\ step[c] = "resting"
  /\ subscribed' = Remembered(Url(c))
  /\ Goto(c, "looking")
  /\ UNCHANGED <<sockets, hand, attached, closed, list, publish, torn>>

(* The dial fails, or the relay takes no subscription.                     *)
FailToSubscribe(c) ==
  /\ c \in Sessions /\ step[c] \in {"dialling", "subscribing"}
  /\ subscribed' = Forgotten(Url(c))
  /\ Goto(c, "resting")
  /\ UNCHANGED <<sockets, hand, attached, closed, list, publish, torn>>

(* Mutation: the incumbent is not closed.                                  *)
AttachesOver(c) ==
  /\ c \in Sessions /\ step[c] = "subscribing"
  /\ IF c[2] \in closed
     THEN /\ subscribed' = Forgotten(Url(c))
          /\ UNCHANGED attached /\ Goto(c, "ended")
     ELSE /\ UNCHANGED subscribed
          /\ attached' = attached \cup {c} /\ Goto(c, "serving")
  /\ UNCHANGED <<sockets, hand, closed, list, publish, torn>>

(* connection.attach: what was subscribed is closed at once if the pairing *)
(* is, and otherwise the incumbent is.                                     *)
Attach(c) ==
  /\ c \in Sessions /\ step[c] = "subscribing"
  /\ subscribed' = IF c[2] \in closed \/ c \in attached THEN Forgotten(Url(c))
                   ELSE subscribed
  /\ IF c[2] \in closed
     THEN UNCHANGED attached /\ Goto(c, "ended")
     ELSE attached' = attached \cup {c} /\ Goto(c, "serving")
  /\ UNCHANGED <<sockets, hand, closed, list, publish, torn>>

(* consume ends: the socket is gone, or the relay closed the subscription. *)
Interrupt(c) ==
  /\ c \in Sessions /\ step[c] = "serving"
  /\ Goto(c, "resting")
  /\ UNCHANGED <<sockets, hand, sessions, list, publish, torn>>

(* connection.close, for a pairing that was revoked or paused.             *)
Close(p) ==
  /\ p \in Pairings \ closed
  /\ closed' = closed \cup {p}
  /\ subscribed' = [r \in Relays |->
       IF <<r, p>> \in attached THEN Forgotten(r)[r] ELSE subscribed[r]]
  /\ attached' = {c \in attached : c[2] # p}
  /\ UNCHANGED <<sockets, callers, list, publish, torn>>

End(c) ==
  /\ c \in Sessions /\ c[2] \in closed /\ step[c] \in {"resting", "serving"}
  /\ Goto(c, "ended")
  /\ UNCHANGED <<sockets, hand, sessions, list, publish, torn>>

-----------------------------------------------------------------------------
(***************************************************************************)
(* Pool.Publish, one at a time, and its teardown.                          *)
(***************************************************************************)

(* The operator's list is read once; of the relays the stranger named that *)
(* are not on it, at most MaxTransient are candidates, and some of those   *)
(* are refused for their address.                                          *)
WithinCap(named) == Cardinality(named) <= MaxTransient

Choose(named) ==
  /\ pub = "idle" /\ named \cap list = {} /\ WithinCap(named)
  /\ list \cup named # {}
  /\ pub' = "chosen"
  /\ targets' = list \cup named /\ spared' = list
  /\ UNCHANGED <<sockets, callers, sessions, list, todo, closing, guarded, torn>>

(* Connected, dead entries included; then sendAndDial starts the legs.     *)
StartLegs ==
  /\ pub = "chosen"
  /\ spared' = spared \cup {r \in Relays : map[r] # NoSocket}
  /\ step' = [c \in Callers |->
                IF c \in Legs /\ Url(c) \in targets THEN "looking" ELSE step[c]]
  /\ pub' = "sending"
  /\ UNCHANGED <<sockets, hand, sessions, list, targets, todo, closing, guarded, torn>>

(* A session that is subscribing, or has a subscription.                   *)
Subscribing(c) == step[c] \in {"looking", "dialling", "storing", "subscribing"}
AtWork(c) == Subscribing(c) \/ c \in attached

(* Mutation: the teardown does not wait for the legs.                      *)
WaitsForNobody ==
  /\ pub = "sending"
  /\ pub' = "tearing" /\ targets' = {}
  /\ spared' = spared \cup {r \in Relays : subscribed[r] > 0}
  /\ guarded' = {c \in Sessions : AtWork(c)}
  /\ todo' = Relays
  /\ UNCHANGED <<sockets, callers, sessions, list, closing, torn>>

(* wg.Wait, then closeTransient begins: it reads the subscriptions once.   *)
JoinLegs ==
  /\ pub = "sending" /\ \A c \in Legs : step[c] = "resting"
  /\ pub' = "tearing" /\ targets' = {}
  /\ spared' = spared \cup {r \in Relays : subscribed[r] > 0}
  /\ guarded' = {c \in Sessions : AtWork(c)}
  /\ todo' = Relays
  /\ UNCHANGED <<sockets, callers, sessions, list, closing, torn>>

(* Range, one entry after the other: close the relay that was found, and   *)
(* delete whatever is then under its URL.                                  *)
CloseTransient(r) ==
  /\ pub = "tearing" /\ r \in todo /\ closing = NoSocket
  /\ IF map[r] # NoSocket /\ r \notin spared
     THEN up' = up \ {map[r]} /\ closing' = map[r] /\ UNCHANGED todo
     ELSE todo' = todo \ {r} /\ UNCHANGED <<up, closing>>
  /\ UNCHANGED <<map, callers, sessions, list, pub, targets, spared, guarded, torn>>

DeleteTransient(r) ==
  /\ r \in todo /\ closing \in {r} \X Ids
  /\ map' = [map EXCEPT ![r] = NoSocket]
  /\ torn' = torn \cup ({map[r]} \cap up)
  /\ todo' = todo \ {r} /\ closing' = NoSocket
  /\ UNCHANGED <<up, callers, sessions, list, pub, targets, spared, guarded>>

(* Mutation: Range is left before its end.                                 *)
FinishesEarly ==
  /\ pub = "tearing"
  /\ pub' = "idle" /\ spared' = {} /\ guarded' = {}
  /\ UNCHANGED <<sockets, callers, sessions, list, targets, todo, closing, torn>>

Finish ==
  /\ pub = "tearing" /\ todo = {}
  /\ pub' = "idle" /\ spared' = {} /\ guarded' = {}
  /\ UNCHANGED <<sockets, callers, sessions, list, targets, todo, closing, torn>>

-----------------------------------------------------------------------------
(***************************************************************************)
(* The relays and the operator.                                            *)
(***************************************************************************)
Drop(s) ==
  /\ s \in up
  /\ up' = up \ {s} /\ torn' = torn \ {s}
  /\ UNCHANGED <<map, callers, sessions, list, publish>>

EditList(relays) ==
  /\ list' = relays
  /\ UNCHANGED <<sockets, callers, sessions, publish, torn>>

Dial(c) == Look(c) \/ Connect(c) \/ Fail(c) \/ Store(c)

Session(c) == Begin(c) \/ FailToSubscribe(c) \/ Attach(c) \/ Interrupt(c) \/ End(c)

Publish ==
  \/ \E named \in SUBSET Relays : Choose(named)
  \/ StartLegs \/ JoinLegs
  \/ \E r \in Relays : CloseTransient(r) \/ DeleteTransient(r)
  \/ Finish

Next ==
  \/ \E c \in Callers : Dial(c) \/ Session(c)
  \/ \E p \in Pairings : Close(p)
  \/ Publish
  \/ \E s \in Sockets : Drop(s)
  \/ \E relays \in SUBSET (Relays \ Strange) : EditList(relays)

Spec == Init /\ [][Next]_vars

-----------------------------------------------------------------------------
Steps == {"resting", "looking", "dialling", "storing", "subscribing", "serving",
          "ended"}

(* The types, where each socket leads, and what only a caller that stores  *)
(* or a teardown that is under way has in hand.                            *)
TypeOK ==
  /\ up \subseteq Sockets
  /\ DOMAIN map = Relays /\ \A r \in Relays : map[r] \in ({r} \X Ids) \cup {NoSocket}
  /\ step \in [Callers -> Steps] /\ DOMAIN hand = Callers
  /\ \A c \in Callers : hand[c] \in IF step[c] = "storing" THEN {Url(c)} \X Ids
                                    ELSE {NoSocket}
  /\ subscribed \in [Relays -> Nat]
  /\ attached \subseteq Sessions /\ closed \subseteq Pairings
  /\ list \subseteq Relays \ Strange
  /\ pub \in {"idle", "chosen", "sending", "tearing"}
  /\ targets \subseteq Relays /\ spared \subseteq Relays /\ todo \subseteq Relays
  /\ todo # {} => pub = "tearing"
  /\ closing \in (todo \X Ids) \cup {NoSocket}
  /\ guarded \subseteq Sessions /\ torn \subseteq up

(* No socket is left that nothing can close: every teardown walks the map, *)
(* so a live socket is in the map or in the hands of whoever dialled it,   *)
(* however dials and publishes interleave (Pool.dial's Compute).  Excepted *)
(* by name: what a teardown deleted in place of the relay it had closed.   *)
NothingLeaks ==
  \A s \in up \ torn :
    \/ map[s[1]] = s
    \/ \E c \in Callers : step[c] = "storing" /\ hand[c] = s

(* A stranger's relays: at most MaxTransient sockets while a publish runs, *)
(* and none when none does, whatever fails or is cut off on the way        *)
(* (chooseTargets, closeTransient, the publishing lock).                   *)
StrangersGone ==
  Cardinality({s \in up : s[1] \in Strange})
    <= IF pub = "idle" THEN 0 ELSE MaxTransient

(* The count of a relay's subscriptions is the number of sessions that are *)
(* subscribing or still to subscribe again on it: one too many spares and  *)
(* exempts the relay for good, one too few lets a publish close it under a *)
(* session (attach closes the incumbent, Subscription.Close forgets).      *)
CountsAreExact ==
  \A r \in Relays :
    subscribed[r] =
      Cardinality({c \in attached : Url(c) = r})
      + Cardinality({c \in Sessions : Url(c) = r /\ Subscribing(c)})

(* A publish never closes a relay on which a session had begun to          *)
(* subscribe when the teardown started, though it may have dialled during  *)
(* the publish and be in no snapshot of it (closeTransient's third clause; *)
(* rememberSubscribed before the dial).                                    *)
SubscriptionsSpared == \A c \in guarded : closing # NoSocket => Url(c) # closing[1]
=============================================================================
