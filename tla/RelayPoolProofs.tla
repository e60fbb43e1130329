-------------------------- MODULE RelayPoolProofs --------------------------
(***************************************************************************)
(* What holds of the pool for any number of relays, pairings and sockets.  *)
(*                                                                         *)
(* No socket leaks because Compute leaves exactly one of two: the one in   *)
(* the map, if it is live, or the one just dialled (Owned).  A stranger's  *)
(* relay has no caller but the leg of the publish that was asked for it,   *)
(* so what is live of it is in that leg's hand or in the map, where the    *)
(* teardown finds it (Strangers).  The count of subscriptions is exact     *)
(* because whoever adds to it stays counted, in one of two ways, until it  *)
(* takes its one off again (CountsAreExact itself is inductive), and a     *)
(* relay that is counted when the teardown starts is spared (Spared).      *)
(***************************************************************************)
EXTENDS RelayPool, FiniteSetTheorems, TLAPS

(* Every socket somebody has in hand, or the map, or a teardown has torn   *)
(* from it, is there only once.                                            *)
Owned ==
  /\ \A c \in Callers, d \in Callers : hand[c] = hand[d] /\ c # d => hand[c] = NoSocket
  /\ \A c \in Callers : hand[c] # NoSocket => hand[c] # map[Url(c)]
  /\ \A c \in Callers : hand[c] \notin torn
  /\ \A r \in Relays : map[r] \notin torn
  /\ NothingLeaks

(* The legs of a publish rest, except between StartLegs and JoinLegs.      *)
LegsRest == pub # "sending" => \A c \in Legs : step[c] = "resting"

-----------------------------------------------------------------------------
(* The names of callers and sockets do not collide.                        *)
LEMMA Names ==
  /\ Sessions \subseteq Callers /\ Answers \subseteq Callers /\ Legs \subseteq Callers
  /\ Sessions \cap Legs = {} /\ Sessions \cap Answers = {} /\ Answers \cap Legs = {}
  /\ \A c \in Callers : Url(c) \in Relays
  /\ \A r \in Relays : \A s \in {r} \X Ids : s \in Sockets /\ s[1] = r /\ s # NoSocket
<1>1. /\ Paired \subseteq Relays /\ "answer" \notin Pairings /\ "publish" \notin Pairings
      /\ NoSocket \notin Relays \X Ids
  BY PoolAssumption
<1>2. \A c \in Callers : Url(c) \in Relays
  BY <1>1 DEF Callers, Sessions, Answers, Legs, Url
<1>3. /\ Sessions \subseteq Callers /\ Answers \subseteq Callers /\ Legs \subseteq Callers
  BY DEF Callers
<1>4. /\ Sessions \cap Legs = {} /\ Sessions \cap Answers = {} /\ Answers \cap Legs = {}
  BY <1>1 DEF Sessions, Answers, Legs
<1>5. \A r \in Relays : \A s \in {r} \X Ids : s \in Sockets /\ s[1] = r /\ s # NoSocket
  BY <1>1 DEF Sockets
<1> QED
  BY <1>2, <1>3, <1>4, <1>5

(* A dial takes a socket nobody uses.                                      *)
LEMMA FreshSocket ==
  ASSUME NEW r \in Relays, Fresh(r) # {},
         NEW s, s = CHOOSE f \in Fresh(r) : TRUE
  PROVE  s \in {r} \X Ids /\ s \notin InUse
<1>1. s \in Fresh(r)
  OBVIOUS
<1> QED
  BY <1>1 DEF Fresh

-----------------------------------------------------------------------------
(* Every step keeps the types.                                             *)
LEMMA StepTypeOK ==
  ASSUME TypeOK, Owned, LegsRest, [Next]_vars
  PROVE  TypeOK'
<1> USE DEF TypeOK, Goto, Steps, sockets, callers, sessions, publish
<1>0. /\ \A c \in Callers : Url(c) \in Relays
      /\ \A r \in Relays : \A s \in {r} \X Ids : s \in Sockets /\ s[1] = r /\ s # NoSocket
      /\ Sessions \subseteq Callers
  BY Names
<1>1. ASSUME NEW c \in Callers, Look(c) PROVE TypeOK'
  BY <1>0, <1>1 DEF Look, Proceed
<1>2. ASSUME NEW c \in Callers, Connect(c) PROVE TypeOK'
  <2>1. PICK s : /\ s \in {Url(c)} \X Ids
                 /\ up' = up \cup {s} /\ hand' = [hand EXCEPT ![c] = s]
    BY <1>0, <1>2, FreshSocket DEF Connect
  <2>2. step' = [step EXCEPT ![c] = "storing"]
        /\ UNCHANGED <<map, sessions, list, publish, torn>>
    BY <1>2 DEF Connect
  <2>3. \A d \in Callers : hand'[d] \in IF step'[d] = "storing" THEN {Url(d)} \X Ids
                                         ELSE {NoSocket}
    BY <2>1, <2>2
  <2>4. up' \subseteq Sockets /\ torn' \subseteq up'
    BY <1>0, <2>1, <2>2
  <2> QED
    BY <2>1, <2>2, <2>3, <2>4
<1>3. ASSUME NEW c \in Callers, Fail(c) PROVE TypeOK'
  BY <1>0, <1>3 DEF Fail
<1>4. ASSUME NEW c \in Callers, Store(c) PROVE TypeOK'
  <2>1. hand[c] \in {Url(c)} \X Ids /\ hand[c] \notin torn
    BY <1>4 DEF Store, Owned
  <2> QED
    BY <1>0, <1>4, <2>1 DEF Store, Proceed
<1>5. ASSUME NEW c \in Callers, Begin(c) PROVE TypeOK'
  BY <1>0, <1>5 DEF Begin, Remembered
<1>6. ASSUME NEW c \in Callers, FailToSubscribe(c) PROVE TypeOK'
  BY <1>0, <1>6 DEF FailToSubscribe, Forgotten
<1>7. ASSUME NEW c \in Callers, Attach(c) PROVE TypeOK'
  BY <1>0, <1>7 DEF Attach, Forgotten
<1>8. ASSUME NEW c \in Callers, Interrupt(c) PROVE TypeOK'
  BY <1>0, <1>8 DEF Interrupt
<1>9. ASSUME NEW c \in Callers, End(c) PROVE TypeOK'
  BY <1>0, <1>9 DEF End
<1>10. ASSUME NEW p \in Pairings, Close(p) PROVE TypeOK'
  BY <1>0, <1>10 DEF Close, Forgotten
<1>11. ASSUME NEW named \in SUBSET Relays, Choose(named) PROVE TypeOK'
  BY <1>11 DEF Choose
<1>12. ASSUME StartLegs PROVE TypeOK'
  <2>1. \A c \in Legs : hand[c] = NoSocket
    BY <1>12, Names DEF StartLegs, LegsRest
  <2> QED
    BY <1>12, <2>1 DEF StartLegs
<1>13. ASSUME JoinLegs PROVE TypeOK'
  BY <1>13 DEF JoinLegs
<1>14. ASSUME NEW r \in Relays, CloseTransient(r) PROVE TypeOK'
  <2>1. map[r] \notin torn
    BY <1>14 DEF Owned
  <2> QED
    BY <1>0, <1>14, <2>1 DEF CloseTransient
<1>15. ASSUME NEW r \in Relays, DeleteTransient(r) PROVE TypeOK'
  BY <1>0, <1>15 DEF DeleteTransient
<1>16. ASSUME Finish PROVE TypeOK'
  BY <1>16 DEF Finish
<1>17. ASSUME NEW s \in Sockets, Drop(s) PROVE TypeOK'
  BY <1>17 DEF Drop
<1>18. ASSUME NEW relays \in SUBSET (Relays \ Strange), EditList(relays) PROVE TypeOK'
  BY <1>18 DEF EditList
<1>19. CASE UNCHANGED vars
  BY <1>19 DEF vars
<1> QED
  BY <1>1, <1>2, <1>3, <1>4, <1>5, <1>6, <1>7, <1>8, <1>9, <1>10, <1>11, <1>12,
     <1>13, <1>14, <1>15, <1>16, <1>17, <1>18, <1>19
     DEF Next, Dial, Session, Publish

-----------------------------------------------------------------------------
(* The legs rest until a publish starts them and when it has joined them.  *)
LEMMA StepLegsRest ==
  ASSUME TypeOK, LegsRest, [Next]_vars
  PROVE  LegsRest'
<1> USE DEF TypeOK, LegsRest, Goto, sockets, callers, sessions, publish
<1>0. /\ Legs \subseteq Callers /\ Sessions \cap Legs = {} /\ Answers \cap Legs = {}
  BY Names
<1>1. ASSUME NEW c \in Callers, Look(c) PROVE LegsRest'
  BY <1>0, <1>1 DEF Look, Proceed
<1>2. ASSUME NEW c \in Callers, Connect(c) PROVE LegsRest'
  BY <1>0, <1>2 DEF Connect
<1>3. ASSUME NEW c \in Callers, Fail(c) PROVE LegsRest'
  BY <1>0, <1>3 DEF Fail
<1>4. ASSUME NEW c \in Callers, Store(c) PROVE LegsRest'
  BY <1>0, <1>4 DEF Store, Proceed
<1>5. ASSUME NEW c \in Callers, Session(c) PROVE LegsRest'
  BY <1>0, <1>5 DEF Session, Begin, FailToSubscribe, Attach, Interrupt, End
<1>6. ASSUME NEW p \in Pairings, Close(p) PROVE LegsRest'
  BY <1>6 DEF Close
<1>7. ASSUME Publish PROVE LegsRest'
  BY <1>0, <1>7 DEF Publish, Choose, StartLegs, JoinLegs, CloseTransient, DeleteTransient,
     Finish
<1>8. ASSUME NEW s \in Sockets, Drop(s) PROVE LegsRest'
  BY <1>8 DEF Drop
<1>9. ASSUME NEW relays \in SUBSET (Relays \ Strange), EditList(relays) PROVE LegsRest'
  BY <1>9 DEF EditList
<1>10. CASE UNCHANGED vars
  BY <1>10 DEF vars
<1> QED
  BY <1>1, <1>2, <1>3, <1>4, <1>5, <1>6, <1>7, <1>8, <1>9, <1>10 DEF Next, Dial

-----------------------------------------------------------------------------
(* Every step leaves each socket with one owner.                           *)
LEMMA StepOwned ==
  ASSUME TypeOK, Owned, LegsRest, [Next]_vars
  PROVE  Owned'
<1> USE DEF TypeOK, Owned, NothingLeaks, Goto, sockets, callers, sessions, publish
<1>0. /\ \A c \in Callers : Url(c) \in Relays
      /\ \A r \in Relays : \A s \in {r} \X Ids : s \in Sockets /\ s[1] = r /\ s # NoSocket
      /\ Sessions \subseteq Callers
  BY Names
<1>1. ASSUME NEW c \in Callers, Look(c) PROVE Owned'
  <2>1. step[c] # "storing" /\ step' = [step EXCEPT ![c] = step'[c]]
    BY <1>1 DEF Look, Proceed
  <2> QED
    BY <1>1, <2>1 DEF Look
<1>2. ASSUME NEW c \in Callers, Connect(c) PROVE Owned'
  <2>1. PICK s : /\ s \in {Url(c)} \X Ids /\ s \notin InUse
                 /\ up' = up \cup {s} /\ hand' = [hand EXCEPT ![c] = s]
    BY <1>0, <1>2, FreshSocket DEF Connect
  <2>2. /\ step[c] = "dialling" /\ step' = [step EXCEPT ![c] = "storing"]
        /\ UNCHANGED <<map, torn>>
    BY <1>2 DEF Connect
  <2>3. /\ s \notin up /\ \A r \in Relays : map[r] # s
        /\ \A d \in Callers : hand[d] # s
    BY <2>1 DEF InUse
  <2> QED
    BY <1>0, <2>1, <2>2, <2>3
<1>3. ASSUME NEW c \in Callers, Fail(c) PROVE Owned'
  BY <1>3 DEF Fail
<1>4. ASSUME NEW c \in Callers, Store(c) PROVE Owned'
  <2>1. /\ hand[c] \in {Url(c)} \X Ids /\ step' = [step EXCEPT ![c] = step'[c]]
        /\ hand' = [hand EXCEPT ![c] = NoSocket] /\ UNCHANGED torn
    BY <1>4 DEF Store, Proceed
  <2>4. \A d \in Callers : d # c => hand'[d] = hand[d] /\ step'[d] = step[d]
    BY <2>1
  <2>5. hand'[c] = NoSocket
    BY <2>1
  <2>2. CASE Live(Url(c))
    <3>1. UNCHANGED map /\ up' = up \ {hand[c]}
      BY <1>4, <2>2 DEF Store
    <3>2. \A s \in up' \ torn' : map'[s[1]] = s
            \/ \E d \in Callers : step'[d] = "storing" /\ hand'[d] = s
      BY <2>1, <2>4, <3>1
    <3>3. /\ \A b \in Callers, d \in Callers : hand'[b] = hand'[d] /\ b # d => hand'[b] = NoSocket
          /\ \A d \in Callers : hand'[d] # NoSocket => hand'[d] # map'[Url(d)]
          /\ \A d \in Callers : hand'[d] \notin torn'
          /\ \A r \in Relays : map'[r] \notin torn'
      BY <1>0, <2>1, <2>4, <2>5, <3>1 DEF Sockets
    <3> QED
      BY <3>2, <3>3
  <2>3. CASE ~Live(Url(c))
    <3>1. map' = [map EXCEPT ![Url(c)] = hand[c]] /\ UNCHANGED up
      BY <1>4, <2>3 DEF Store
    <3>2. \A s \in up \ torn : map'[s[1]] = s
            \/ \E d \in Callers : step'[d] = "storing" /\ hand'[d] = s
      BY <1>0, <2>1, <2>3, <3>1 DEF Live, Sockets
    <3>3. \A r \in Relays : map'[r] = IF r = Url(c) THEN hand[c] ELSE map[r]
      BY <3>1
    <3>4. \A b \in Callers, d \in Callers : hand'[b] = hand'[d] /\ b # d => hand'[b] = NoSocket
      BY <2>4, <2>5
    <3>5. \A d \in Callers : hand'[d] # NoSocket => hand'[d] # map'[Url(d)]
      BY <1>0, <2>4, <2>5, <3>3
    <3>6. /\ \A d \in Callers : hand'[d] \notin torn'
          /\ \A r \in Relays : map'[r] \notin torn'
      BY <1>0, <2>1, <2>4, <2>5, <3>3 DEF Sockets
    <3> QED
      BY <2>1, <3>1, <3>2, <3>4, <3>5, <3>6
  <2> QED
    BY <2>2, <2>3
<1>5. ASSUME NEW c \in Callers, Session(c) PROVE Owned'
  <2>1. /\ UNCHANGED <<up, map, hand, torn>> /\ step[c] # "storing"
        /\ step' = [step EXCEPT ![c] = step'[c]]
    BY <1>5 DEF Session, Begin, FailToSubscribe, Attach, Interrupt, End
  <2> QED
    BY <2>1
<1>6. ASSUME NEW p \in Pairings, Close(p) PROVE Owned'
  BY <1>6 DEF Close
<1>7. ASSUME NEW named \in SUBSET Relays, Choose(named) PROVE Owned'
  BY <1>7 DEF Choose
<1>8. ASSUME StartLegs PROVE Owned'
  <2>1. \A c \in Callers : step[c] = "storing" => step'[c] = "storing"
    BY <1>8 DEF StartLegs, LegsRest
  <2> QED
    BY <1>8, <2>1 DEF StartLegs
<1>9. ASSUME JoinLegs PROVE Owned'
  BY <1>9 DEF JoinLegs
<1>10. ASSUME NEW r \in Relays, CloseTransient(r) PROVE Owned'
  BY <1>10 DEF CloseTransient
<1>11. ASSUME NEW r \in Relays, DeleteTransient(r) PROVE Owned'
  <2>1. /\ map' = [map EXCEPT ![r] = NoSocket] /\ torn' = torn \cup ({map[r]} \cap up)
        /\ UNCHANGED <<up, step, hand>>
    BY <1>11 DEF DeleteTransient
  <2>2. NoSocket \notin up /\ map[r] # NoSocket => \A q \in Relays : q # r => map[q] # map[r]
    BY <1>0
  <2>3. \A q \in Relays : map'[q] = IF q = r THEN NoSocket ELSE map[q]
    BY <2>1
  <2>4. /\ \A d \in Callers : hand'[d] # NoSocket => hand'[d] # map'[Url(d)]
        /\ \A b \in Callers, d \in Callers : hand'[b] = hand'[d] /\ b # d
             => hand'[b] = NoSocket
    BY <1>0, <2>1, <2>3
  <2>5. \A d \in Callers : hand'[d] \notin torn'
    <3> SUFFICES ASSUME NEW d \in Callers, hand[d] = map[r], hand[d] \in up
                 PROVE  FALSE
      BY <2>1
    <3>1. hand[d] # NoSocket
      BY <1>0 DEF Sockets
    <3>2. hand[d][1] = Url(d) /\ map[r][1] = r
      BY <1>0, <3>1
    <3> QED
      BY <3>1, <3>2
  <2>6. \A q \in Relays : map'[q] \notin torn'
    BY <1>0, <2>1, <2>2, <2>3 DEF Sockets
  <2>7. NothingLeaks'
    BY <1>0, <2>1, <2>3
  <2> QED
    BY <2>4, <2>5, <2>6, <2>7
<1>12. ASSUME Finish PROVE Owned'
  BY <1>12 DEF Finish
<1>13. ASSUME NEW s \in Sockets, Drop(s) PROVE Owned'
  BY <1>13 DEF Drop
<1>14. ASSUME NEW relays \in SUBSET (Relays \ Strange), EditList(relays) PROVE Owned'
  BY <1>14 DEF EditList
<1>15. CASE UNCHANGED vars
  BY <1>15 DEF vars
<1> QED
  BY <1>1, <1>2, <1>3, <1>4, <1>5, <1>6, <1>7, <1>8, <1>9, <1>10, <1>11, <1>12,
     <1>13, <1>14, <1>15
     DEF Next, Dial, Publish
-----------------------------------------------------------------------------
(* Those who add to and take from a relay's count.                         *)
Held(r) == {c \in attached : Url(c) = r}
Opening(r) == {c \in Sessions : Url(c) = r /\ Subscribing(c)}

LEMMA FiniteSessions ==
  ASSUME TypeOK, NEW r
  PROVE  /\ IsFiniteSet(Held(r)) /\ IsFiniteSet(Opening(r))
         /\ Cardinality(Held(r)) \in Nat /\ Cardinality(Opening(r)) \in Nat
<1>1. IsFiniteSet(Paired)
  BY PoolAssumption, FS_Subset
<1>2. IsFiniteSet(Sessions)
  BY <1>1, PoolAssumption, FS_Product DEF Sessions
<1>3. Held(r) \in SUBSET Sessions /\ Opening(r) \in SUBSET Sessions
  BY DEF Held, Opening, TypeOK
<1>4. IsFiniteSet(Held(r)) /\ IsFiniteSet(Opening(r))
  BY <1>2, <1>3, FS_Subset
<1> QED
  BY <1>4, FS_CardinalityType

(* A step of anybody but a session leaves the counts alone.                *)
LEMMA SameCounts ==
  ASSUME CountsAreExact, UNCHANGED <<subscribed, attached>>,
         \A c \in Sessions : Subscribing(c)' <=> Subscribing(c)
  PROVE  CountsAreExact'
<1>1. \A r \in Relays : Opening(r)' = Opening(r) /\ Held(r)' = Held(r)
  BY DEF Opening, Held
<1> QED
  BY <1>1 DEF CountsAreExact, Opening, Held

(* A step of a session changes the count of its own relay.                 *)
LEMMA OtherCounts ==
  ASSUME TypeOK, CountsAreExact, NEW c \in Sessions,
         \A d \in Sessions : d # c => step'[d] = step[d],
         \A d : d # c => (d \in attached' <=> d \in attached),
         \A r \in Relays : r # Url(c) => subscribed'[r] = subscribed[r],
         subscribed'[Url(c)] = Cardinality(Held(Url(c))') + Cardinality(Opening(Url(c))')
  PROVE  CountsAreExact'
<1>1. \A r \in Relays : r # Url(c) => Opening(r)' = Opening(r) /\ Held(r)' = Held(r)
  BY DEF Opening, Held, Subscribing
<1> QED
  BY <1>1 DEF CountsAreExact, Opening, Held

LEMMA ExactCount ==
  ASSUME TypeOK, CountsAreExact, NEW r \in Relays
  PROVE  /\ Cardinality(Held(r)) \in Nat /\ Cardinality(Opening(r)) \in Nat
         /\ subscribed[r] = Cardinality(Held(r)) + Cardinality(Opening(r))
<1>1. subscribed[r] = Cardinality(Held(r)) + Cardinality(Opening(r))
  BY DEF CountsAreExact, Held, Opening
<1> QED
  BY <1>1, FiniteSessions

(* A relay that somebody is counted for is forgotten once.                 *)
LEMMA ForgetsOne ==
  ASSUME TypeOK, CountsAreExact, NEW r \in Relays, NEW c \in Opening(r)
  PROVE  Forgotten(r)[r] = subscribed[r] - 1
<1>1. Cardinality(Opening(r)) # 0
  BY FiniteSessions, FS_EmptySet
<1>2. subscribed[r] >= 1
  BY <1>1, ExactCount
<1> QED
  BY <1>2 DEF Forgotten, TypeOK

LEMMA StepCounts ==
  ASSUME TypeOK, CountsAreExact, [Next]_vars
  PROVE  CountsAreExact'
<1> USE DEF Goto, sockets, callers, sessions, publish
<1>0. /\ \A c \in Callers : Url(c) \in Relays
      /\ Sessions \subseteq Callers
      /\ Sessions \cap Legs = {} /\ Sessions \cap Answers = {}
  BY Names
<1>1. ASSUME NEW c \in Callers, Dial(c) PROVE CountsAreExact'
  <2>1. UNCHANGED <<subscribed, attached>>
    BY <1>1 DEF Dial, Look, Connect, Fail, Store
  <2>2. \A d \in Sessions : Subscribing(d)' <=> Subscribing(d)
    BY <1>0, <1>1 DEF Dial, Look, Connect, Fail, Store, Proceed, Subscribing, TypeOK
  <2> QED
    BY <2>1, <2>2, SameCounts
<1>2. ASSUME NEW c \in Callers, Begin(c) PROVE CountsAreExact'
  <2>1. c \in Sessions /\ Url(c) \in Relays /\ c \notin Opening(Url(c))
    BY <1>0, <1>2 DEF Begin, Opening, Subscribing
  <2>2. /\ subscribed' = [subscribed EXCEPT ![Url(c)] = @ + 1] /\ attached' = attached
        /\ step' = [step EXCEPT ![c] = "looking"]
    BY <1>2 DEF Begin, Remembered
  <2>3. Opening(Url(c))' = Opening(Url(c)) \cup {c} /\ Held(Url(c))' = Held(Url(c))
    BY <1>0, <2>1, <2>2 DEF Opening, Held, Subscribing, TypeOK
  <2>4. Cardinality(Opening(Url(c)) \cup {c}) = Cardinality(Opening(Url(c))) + 1
    BY <2>1, FiniteSessions, FS_AddElement
  <2>5. subscribed'[Url(c)] = Cardinality(Held(Url(c))') + Cardinality(Opening(Url(c))')
    BY <2>1, <2>2, <2>3, <2>4, ExactCount DEF TypeOK
  <2> QED
    BY <1>0, <2>1, <2>2, <2>5, OtherCounts DEF TypeOK
<1>3. ASSUME NEW c \in Callers, FailToSubscribe(c) PROVE CountsAreExact'
  <2>1. c \in Sessions /\ Url(c) \in Relays /\ c \in Opening(Url(c))
    BY <1>0, <1>3 DEF FailToSubscribe, Opening, Subscribing
  <2>2. /\ subscribed' = Forgotten(Url(c)) /\ attached' = attached
        /\ step' = [step EXCEPT ![c] = "resting"]
    BY <1>3 DEF FailToSubscribe
  <2>3. Opening(Url(c))' = Opening(Url(c)) \ {c} /\ Held(Url(c))' = Held(Url(c))
    BY <1>0, <2>1, <2>2 DEF Opening, Held, Subscribing, TypeOK
  <2>4. Cardinality(Opening(Url(c)) \ {c}) = Cardinality(Opening(Url(c))) - 1
    BY <2>1, FiniteSessions, FS_RemoveElement
  <2>5. subscribed'[Url(c)] = Cardinality(Held(Url(c))') + Cardinality(Opening(Url(c))')
    BY <2>1, <2>2, <2>3, <2>4, ExactCount, ForgetsOne
  <2>6. \A r \in Relays : r # Url(c) => subscribed'[r] = subscribed[r]
    BY <2>2 DEF Forgotten, TypeOK
  <2> QED
    BY <1>0, <2>1, <2>2, <2>5, <2>6, OtherCounts DEF TypeOK
<1>4. ASSUME NEW c \in Callers, Attach(c) PROVE CountsAreExact'
  <2>1. c \in Sessions /\ Url(c) \in Relays /\ c \in Opening(Url(c))
    BY <1>0, <1>4 DEF Attach, Opening, Subscribing
  <2>2. /\ step' = [step EXCEPT ![c] = step'[c]]
        /\ step'[c] \in {"ended", "serving"}
    BY <1>0, <1>4, <2>1 DEF Attach, TypeOK
  <2>3. Opening(Url(c))' = Opening(Url(c)) \ {c}
    BY <1>0, <2>1, <2>2 DEF Opening, Subscribing, TypeOK
  <2>4. Cardinality(Opening(Url(c)) \ {c}) = Cardinality(Opening(Url(c))) - 1
    BY <2>1, FiniteSessions, FS_RemoveElement
  <2>5. CASE c[2] \in closed \/ c \in attached
    <3>1. subscribed' = Forgotten(Url(c)) /\ attached' = attached
      BY <1>4, <2>5 DEF Attach
    <3>2. Held(Url(c))' = Held(Url(c))
      BY <3>1 DEF Held
    <3>3. subscribed'[Url(c)] = Cardinality(Held(Url(c))') + Cardinality(Opening(Url(c))')
      BY <2>1, <2>3, <2>4, <3>1, <3>2, ExactCount, ForgetsOne
    <3>4. \A r \in Relays : r # Url(c) => subscribed'[r] = subscribed[r]
      BY <3>1 DEF Forgotten, TypeOK
    <3> QED
      BY <1>0, <2>1, <2>2, <3>1, <3>3, <3>4, OtherCounts DEF TypeOK
  <2>6. CASE ~(c[2] \in closed \/ c \in attached)
    <3>1. subscribed' = subscribed /\ attached' = attached \cup {c}
      BY <1>4, <2>6 DEF Attach
    <3>2. Held(Url(c))' = Held(Url(c)) \cup {c} /\ c \notin Held(Url(c))
      BY <2>6, <3>1 DEF Held
    <3>3. Cardinality(Held(Url(c)) \cup {c}) = Cardinality(Held(Url(c))) + 1
      BY <3>2, FiniteSessions, FS_AddElement
    <3>4. subscribed'[Url(c)] = Cardinality(Held(Url(c))') + Cardinality(Opening(Url(c))')
      BY <2>1, <2>3, <2>4, <3>1, <3>2, <3>3, ExactCount
    <3> QED
      BY <1>0, <2>1, <2>2, <3>1, <3>4, OtherCounts DEF TypeOK
  <2> QED
    BY <2>5, <2>6
<1>5. ASSUME NEW c \in Callers, Interrupt(c) \/ End(c) PROVE CountsAreExact'
  <2>1. UNCHANGED <<subscribed, attached>>
    BY <1>5 DEF Interrupt, End
  <2>2. \A d \in Sessions : Subscribing(d)' <=> Subscribing(d)
    BY <1>0, <1>5 DEF Interrupt, End, Subscribing, TypeOK
  <2> QED
    BY <2>1, <2>2, SameCounts
<1>6. ASSUME NEW p \in Pairings, Close(p) PROVE CountsAreExact'
  <2> SUFFICES ASSUME NEW r \in Relays
               PROVE  subscribed'[r] = Cardinality(Held(r)') + Cardinality(Opening(r)')
    BY DEF CountsAreExact, Held, Opening
  <2>1. Opening(r)' = Opening(r)
    BY <1>6 DEF Close, Opening, Subscribing
  <2>2. subscribed[r] = Cardinality(Held(r)) + Cardinality(Opening(r))
    BY DEF CountsAreExact, Held, Opening
  <2>3. Held(r)' = Held(r) \ {<<r, p>>}
    <3>1. \A c \in attached : Url(c) = r /\ c[2] = p <=> c = <<r, p>>
      BY DEF TypeOK, Sessions, Url
    <3> QED
      BY <1>6, <3>1 DEF Close, Held
  <2>4. CASE <<r, p>> \in attached
    <3>1. subscribed'[r] = Forgotten(r)[r] /\ <<r, p>> \in Held(r)
      BY <1>6, <2>4 DEF Close, Held, Url
    <3>2. Cardinality(Held(r) \ {<<r, p>>}) = Cardinality(Held(r)) - 1
      BY <3>1, FiniteSessions, FS_RemoveElement
    <3>3. Cardinality(Held(r)) # 0
      BY <3>1, FiniteSessions, FS_EmptySet
    <3> QED
      BY <2>1, <2>2, <2>3, <3>1, <3>2, <3>3, FiniteSessions DEF Forgotten, TypeOK
  <2>5. CASE <<r, p>> \notin attached
    <3>1. subscribed'[r] = subscribed[r] /\ Held(r)' = Held(r)
      BY <1>6, <2>3, <2>5 DEF Close, Held
    <3> QED
      BY <2>1, <2>2, <3>1
  <2> QED
    BY <2>4, <2>5
<1>7. ASSUME Publish PROVE CountsAreExact'
  <2>1. UNCHANGED <<subscribed, attached>>
    BY <1>7 DEF Publish, Choose, StartLegs, JoinLegs, CloseTransient, DeleteTransient, Finish
  <2>2. \A d \in Sessions : step'[d] = step[d]
    BY <1>0, <1>7 DEF Publish, Choose, StartLegs, JoinLegs, CloseTransient, DeleteTransient,
       Finish
  <2> QED
    BY <2>1, <2>2, SameCounts DEF Subscribing
<1>8. ASSUME \/ \E s \in Sockets : Drop(s)
             \/ \E relays \in SUBSET (Relays \ Strange) : EditList(relays)
             \/ UNCHANGED vars
      PROVE  CountsAreExact'
  <2>1. UNCHANGED <<subscribed, attached, step>>
    BY <1>8 DEF Drop, EditList, vars
  <2> QED
    BY <2>1, SameCounts DEF Subscribing
<1> QED
  BY <1>1, <1>2, <1>3, <1>4, <1>5, <1>6, <1>7, <1>8 DEF Next, Session

-----------------------------------------------------------------------------
(* A relay somebody is counted for is not closed: what the teardown spares *)
(* when it starts it spares to its end.                                    *)
Spared ==
  /\ pub # "tearing" => guarded = {}
  /\ \A c \in guarded : Url(c) \in spared
  /\ closing # NoSocket => closing[1] \notin spared

LEMMA StepSpared ==
  ASSUME TypeOK, CountsAreExact, Spared, [Next]_vars
  PROVE  Spared'
<1> USE DEF Spared, sockets, callers, sessions, publish
<1>1. /\ pub # "tearing" => closing = NoSocket
      /\ \A r \in Relays : \A s \in {r} \X Ids : s[1] = r
  BY DEF TypeOK
<1>2. ASSUME NEW c \in Callers, Dial(c) PROVE Spared'
  BY <1>2 DEF Dial, Look, Connect, Fail, Store
<1>3. ASSUME NEW c \in Callers, Session(c) PROVE Spared'
  BY <1>3 DEF Session, Begin, FailToSubscribe, Attach, Interrupt, End
<1>4. ASSUME NEW p \in Pairings, Close(p) PROVE Spared'
  BY <1>4 DEF Close
<1>5. ASSUME \/ \E named \in SUBSET Relays : Choose(named)
             \/ StartLegs \/ Finish
             \/ \E r \in Relays : DeleteTransient(r)
      PROVE  Spared'
  BY <1>1, <1>5 DEF Choose, StartLegs, Finish, DeleteTransient
<1>6. ASSUME JoinLegs PROVE Spared'
  <2>1. \A c \in Sessions : AtWork(c) => subscribed[Url(c)] > 0
    <3> SUFFICES ASSUME NEW c \in Sessions, AtWork(c)
                 PROVE  subscribed[Url(c)] > 0
      OBVIOUS
    <3>1. Url(c) \in Relays
      BY Names
    <3>2. c \in Held(Url(c)) \/ c \in Opening(Url(c))
      BY DEF AtWork, Held, Opening
    <3>3. Cardinality(Held(Url(c))) # 0 \/ Cardinality(Opening(Url(c))) # 0
      BY <3>2, FiniteSessions, FS_EmptySet
    <3> QED
      BY <3>1, <3>3, ExactCount
  <2>2. \A c \in Sessions : Url(c) \in Relays
    BY Names
  <2> QED
    BY <1>1, <1>6, <2>1, <2>2 DEF JoinLegs
<1>7. ASSUME NEW r \in Relays, CloseTransient(r) PROVE Spared'
  <2>1. map[r] # NoSocket => map[r][1] = r
    BY <1>1 DEF TypeOK
  <2> QED
    BY <1>7, <2>1 DEF CloseTransient
<1>8. ASSUME \/ \E s \in Sockets : Drop(s)
             \/ \E relays \in SUBSET (Relays \ Strange) : EditList(relays)
             \/ UNCHANGED vars
      PROVE  Spared'
  BY <1>8 DEF Drop, EditList, vars
<1> QED
  BY <1>2, <1>3, <1>4, <1>5, <1>6, <1>7, <1>8 DEF Next, Publish

-----------------------------------------------------------------------------
(* A stranger's relay that has an entry in the map, or a leg at work.      *)
Opened == {r \in Strange : map[r] # NoSocket \/ step[<<r, "publish">>] # "resting"}

(* What is open for strangers is what the publish asked for, and then what *)
(* its teardown has still to look at.                                      *)
Strangers ==
  /\ spared \cap Strange = {}
  /\ pub \in {"idle", "chosen"} => Opened = {}
  /\ pub \in {"chosen", "sending"} => Cardinality(targets \cap Strange) <= MaxTransient
  /\ pub = "sending" => Opened \subseteq targets
  /\ pub = "tearing" => Opened \subseteq todo
  /\ Cardinality(Opened) <= MaxTransient
  /\ \A r \in Strange : step[<<r, "publish">>] \in {"dialling", "storing"} => ~Live(r)
  /\ \A s \in torn : s[1] \notin Strange
  /\ closing # NoSocket /\ closing[1] \in Strange =>
       map[closing[1]] = closing /\ closing \notin up

(* Only a leg of a publish calls for a stranger's relay.                   *)
LEMMA StrangersCallers ==
  /\ Strange \subseteq Relays /\ IsFiniteSet(Strange) /\ MaxTransient \in Nat
  /\ \A r \in Strange : <<r, "publish">> \in Legs /\ <<r, "publish">> \in Callers
  /\ \A c \in Callers : Url(c) \in Strange => c \in Legs /\ c = <<Url(c), "publish">>
<1>1. Strange \subseteq Relays \ Paired /\ MaxTransient \in Nat
  BY PoolAssumption
<1>2. IsFiniteSet(Strange)
  BY <1>1, PoolAssumption, FS_Subset
<1> QED
  BY <1>1, <1>2 DEF Callers, Sessions, Answers, Legs, Url

(* Nothing is opened but by StartLegs.                                     *)
LEMMA OpensNothing ==
  ASSUME TypeOK, Strangers, Opened' \subseteq Opened
  PROVE  Cardinality(Opened') <= MaxTransient
<1>1. Opened \in SUBSET Strange /\ Opened' \in SUBSET Strange
  BY DEF Opened
<1>2. IsFiniteSet(Opened) /\ IsFiniteSet(Opened')
  BY <1>1, StrangersCallers, FS_Subset
<1>3. Cardinality(Opened') <= Cardinality(Opened)
  BY <1>2, FS_Subset
<1>4. Cardinality(Opened) \in Nat /\ Cardinality(Opened') \in Nat
  BY <1>2, FS_CardinalityType
<1> QED
  BY <1>3, <1>4, StrangersCallers DEF Strangers

LEMMA StepStrangers ==
  ASSUME TypeOK, Owned, LegsRest, CountsAreExact, Strangers, [Next]_vars
  PROVE  Strangers'
<1> USE DEF Strangers, Goto, sockets, callers, sessions, publish
<1>0. /\ Strange \subseteq Relays
      /\ \A r \in Strange : <<r, "publish">> \in Legs /\ <<r, "publish">> \in Callers
      /\ \A c \in Callers : Url(c) \in Strange => c \in Legs /\ c = <<Url(c), "publish">>
      /\ \A c \in Callers : Url(c) \in Relays
  BY StrangersCallers, Names
<1>1. /\ \A r \in Relays : \A s \in {r} \X Ids : s \in Sockets /\ s[1] = r /\ s # NoSocket
      /\ Sessions \subseteq Callers
      /\ Sessions \cap Legs = {} /\ Answers \cap Legs = {}
  BY Names
<1>2. /\ \A r \in Relays : map[r] # NoSocket => map[r] \in {r} \X Ids
      /\ NoSocket \notin up
      /\ pub # "tearing" => closing = NoSocket
  BY <1>1 DEF TypeOK, Sockets
<1>3. ASSUME NEW c \in Callers, Look(c) PROVE Strangers'
  <2>1. /\ UNCHANGED <<up, map, pub, targets, spared, todo, closing, torn>>
        /\ step' = [step EXCEPT ![c] = step'[c]]
    BY <1>3 DEF Look, Proceed
  <2>2. c \in Legs => step[c] # "resting" /\ step'[c] \in {"dialling", "resting"}
                      /\ (step'[c] = "dialling" => ~Live(Url(c)))
    BY <1>1, <1>3 DEF Look, Proceed, TypeOK
  <2>3. Opened' \subseteq Opened
    BY <1>0, <2>1, <2>2 DEF Opened, TypeOK
  <2>4. Cardinality(Opened') <= MaxTransient
    BY <2>3, OpensNothing
  <2>5. \A r \in Strange : step'[<<r, "publish">>] \in {"dialling", "storing"} => ~Live(r)'
    BY <1>0, <2>1, <2>2 DEF Live, TypeOK, Url
  <2> QED
    BY <2>1, <2>3, <2>4, <2>5
<1>4. ASSUME NEW c \in Callers, Connect(c) PROVE Strangers'
  <2>1. PICK s : /\ s \in {Url(c)} \X Ids /\ s \notin InUse
                 /\ up' = up \cup {s}
    BY <1>0, <1>4, FreshSocket DEF Connect
  <2>2. /\ UNCHANGED <<map, pub, targets, spared, todo, closing, torn>>
        /\ step[c] = "dialling" /\ step' = [step EXCEPT ![c] = "storing"]
    BY <1>4 DEF Connect
  <2>3. /\ s # closing /\ \A r \in Relays : map[r] # s
    BY <2>1 DEF InUse
  <2>4. Opened' \subseteq Opened
    BY <1>0, <2>2 DEF Opened, TypeOK
  <2>5. Cardinality(Opened') <= MaxTransient
    BY <2>4, OpensNothing
  <2>6. \A r \in Strange : step'[<<r, "publish">>] \in {"dialling", "storing"} => ~Live(r)'
    BY <1>0, <2>1, <2>2, <2>3 DEF Live, TypeOK, Url
  <2> QED
    BY <2>1, <2>2, <2>3, <2>4, <2>5, <2>6
<1>5. ASSUME NEW c \in Callers, Fail(c) PROVE Strangers'
  <2>1. /\ UNCHANGED <<up, map, pub, targets, spared, todo, closing, torn>>
        /\ step' = [step EXCEPT ![c] = "resting"]
    BY <1>5 DEF Fail
  <2>2. Opened' \subseteq Opened
    BY <1>0, <2>1 DEF Opened, TypeOK
  <2>3. Cardinality(Opened') <= MaxTransient
    BY <2>2, OpensNothing
  <2>4. \A r \in Strange : step'[<<r, "publish">>] \in {"dialling", "storing"} => ~Live(r)'
    BY <1>0, <2>1 DEF Live, TypeOK
  <2> QED
    BY <2>1, <2>2, <2>3, <2>4
<1>6. ASSUME NEW c \in Callers, Store(c) PROVE Strangers'
  <2>1. /\ UNCHANGED <<pub, targets, spared, todo, closing, torn>>
        /\ step[c] = "storing" /\ step' = [step EXCEPT ![c] = step'[c]]
        /\ up' \subseteq up
        /\ map' = map \/ map' = [map EXCEPT ![Url(c)] = hand[c]]
    BY <1>6 DEF Store, Proceed
  <2>2. Url(c) \in Strange => /\ pub = "sending"
                              /\ c = <<Url(c), "publish">> /\ step'[c] = "resting"
    BY <1>0, <1>1, <1>6 DEF Store, Proceed, LegsRest, TypeOK
  <2>3. Opened' \subseteq Opened
    <3> SUFFICES ASSUME NEW r \in Strange,
                        map'[r] # NoSocket \/ step'[<<r, "publish">>] # "resting"
                 PROVE  r \in Opened
      BY DEF Opened
    <3>1. CASE Url(c) = r
      BY <2>1, <2>2, <3>1 DEF Opened
    <3>2. CASE Url(c) # r
      <4>1. map'[r] = map[r] /\ <<r, "publish">> # c
        BY <1>0, <2>1, <3>2 DEF TypeOK, Url
      <4>2. step'[<<r, "publish">>] = step[<<r, "publish">>]
        BY <1>0, <2>1, <4>1 DEF TypeOK
      <4> QED
        BY <4>1, <4>2 DEF Opened
    <3> QED
      BY <3>1, <3>2
  <2>4. Cardinality(Opened') <= MaxTransient
    BY <2>3, OpensNothing
  <2>5. \A r \in Strange : step'[<<r, "publish">>] \in {"dialling", "storing"} => ~Live(r)'
    <3> SUFFICES ASSUME NEW r \in Strange, step'[<<r, "publish">>] \in {"dialling", "storing"}
                 PROVE  map'[r] \notin up'
      BY DEF Live
    <3>1. Url(c) # r
      BY <2>2
    <3>2. <<r, "publish">> # c /\ <<r, "publish">> \in Callers
      BY <1>0, <3>1 DEF Url
    <3>3. step'[<<r, "publish">>] = step[<<r, "publish">>] /\ map'[r] = map[r]
      BY <1>0, <2>1, <3>1, <3>2 DEF TypeOK
    <3> QED
      BY <2>1, <3>3 DEF Live
  <2>6. closing # NoSocket /\ closing[1] \in Strange =>
          map'[closing[1]] = closing /\ closing \notin up'
    BY <1>0, <1>2, <2>1, <2>2 DEF TypeOK
  <2> QED
    BY <2>1, <2>3, <2>4, <2>5, <2>6
<1>7. ASSUME NEW c \in Callers, Session(c) PROVE Strangers'
  <2>1. /\ UNCHANGED <<up, map, pub, targets, spared, todo, closing, torn>>
        /\ c \in Sessions /\ step' = [step EXCEPT ![c] = step'[c]]
    BY <1>7 DEF Session, Begin, FailToSubscribe, Attach, Interrupt, End
  <2>2. \A r \in Strange : step'[<<r, "publish">>] = step[<<r, "publish">>]
    <3>1. \A r \in Strange : <<r, "publish">> # c
      BY <1>0, <1>1, <2>1
    <3>2. \A d \in Callers : d # c => step'[d] = step[d]
      BY <2>1 DEF TypeOK
    <3> QED
      BY <1>0, <3>1, <3>2
  <2>3. Opened' = Opened
    BY <2>1, <2>2 DEF Opened
  <2> QED
    BY <2>1, <2>2, <2>3 DEF Live
<1>8. ASSUME \/ \E p \in Pairings : Close(p)
             \/ \E relays \in SUBSET (Relays \ Strange) : EditList(relays)
             \/ UNCHANGED vars
      PROVE  Strangers'
  <2>1. UNCHANGED <<up, map, step, pub, targets, spared, todo, closing, torn>>
    BY <1>8 DEF Close, EditList, vars
  <2> QED
    BY <2>1 DEF Opened, Live
<1>9. ASSUME NEW s \in Sockets, Drop(s) PROVE Strangers'
  <2>1. /\ UNCHANGED <<map, step, pub, targets, spared, todo, closing>>
        /\ up' \subseteq up /\ torn' \subseteq torn
    BY <1>9 DEF Drop
  <2> QED
    BY <2>1 DEF Opened, Live
<1>10. ASSUME NEW named \in SUBSET Relays, Choose(named) PROVE Strangers'
  <2>1. /\ UNCHANGED <<up, map, step, todo, closing, torn>> /\ pub = "idle"
        /\ pub' = "chosen" /\ targets' = list \cup named /\ spared' = list
        /\ Cardinality(named) <= MaxTransient
    BY <1>10 DEF Choose, WithinCap
  <2>2. targets' \cap Strange \in SUBSET named /\ spared' \cap Strange = {}
    BY <2>1 DEF TypeOK
  <2>3. IsFiniteSet(named) /\ IsFiniteSet(targets' \cap Strange)
    BY <2>2, PoolAssumption, FS_Subset
  <2>4. /\ Cardinality(targets' \cap Strange) <= Cardinality(named)
        /\ Cardinality(named) \in Nat /\ Cardinality(targets' \cap Strange) \in Nat
    BY <2>2, <2>3, FS_Subset, FS_CardinalityType
  <2>5. Cardinality(targets' \cap Strange) <= MaxTransient
    BY <2>1, <2>4, StrangersCallers
  <2> QED
    BY <2>1, <2>2, <2>5 DEF Opened, Live
<1>11. ASSUME StartLegs PROVE Strangers'
  <2>1. /\ UNCHANGED <<up, map, targets, todo, closing, torn>> /\ pub = "chosen"
        /\ pub' = "sending" /\ spared' = spared \cup {r \in Relays : map[r] # NoSocket}
        /\ \A r \in Strange : step'[<<r, "publish">>] =
             IF r \in targets THEN "looking" ELSE step[<<r, "publish">>]
    BY <1>0, <1>11 DEF StartLegs, Url
  <2>2. \A r \in Strange : map[r] = NoSocket /\ step[<<r, "publish">>] = "resting"
    BY <2>1 DEF Opened
  <2>3. Opened' \in SUBSET (targets \cap Strange)
    BY <2>1, <2>2 DEF Opened
  <2>4. IsFiniteSet(targets \cap Strange) /\ IsFiniteSet(Opened')
    BY <2>3, StrangersCallers, FS_Subset
  <2>5. /\ Cardinality(Opened') <= Cardinality(targets \cap Strange)
        /\ Cardinality(Opened') \in Nat /\ Cardinality(targets \cap Strange) \in Nat
    BY <2>3, <2>4, FS_Subset, FS_CardinalityType
  <2>6. Cardinality(Opened') <= MaxTransient
    BY <2>1, <2>5, StrangersCallers
  <2> QED
    BY <2>1, <2>2, <2>3, <2>6 DEF Live
<1>12. ASSUME JoinLegs PROVE Strangers'
  <2>1. /\ UNCHANGED <<up, map, step, closing, torn>> /\ pub' = "tearing" /\ todo' = Relays
        /\ spared' = spared \cup {r \in Relays : subscribed[r] > 0}
    BY <1>12 DEF JoinLegs
  <2>2. \A r \in Strange : subscribed[r] = 0
    <3> SUFFICES ASSUME NEW r \in Strange PROVE subscribed[r] = 0
      OBVIOUS
    <3>1. \A c \in Sessions : Url(c) # r
      BY <1>0, <1>1
    <3>2. Held(r) = {} /\ Opening(r) = {}
      BY <3>1 DEF Held, Opening, TypeOK
    <3>3. Cardinality(Held(r)) = 0 /\ Cardinality(Opening(r)) = 0
      BY <3>2, FS_EmptySet
    <3>4. r \in Relays
      BY <1>0
    <3> QED
      BY <3>3, <3>4, ExactCount
  <2> QED
    BY <1>0, <2>1, <2>2 DEF Opened, Live
<1>13. ASSUME NEW r \in Relays, CloseTransient(r) PROVE Strangers'
  <2>1. /\ UNCHANGED <<map, step, pub, targets, spared, torn>> /\ pub = "tearing"
        /\ up' \subseteq up /\ closing = NoSocket
    BY <1>13 DEF CloseTransient
  <2>2. Opened' = Opened
    BY <2>1 DEF Opened
  <2>3. CASE map[r] # NoSocket /\ r \notin spared
    <3>1. up' = up \ {map[r]} /\ closing' = map[r] /\ UNCHANGED todo
      BY <1>13, <2>3 DEF CloseTransient
    <3>2. map[r][1] = r
      BY <1>1, <1>2, <2>3
    <3> QED
      BY <2>1, <2>2, <3>1, <3>2 DEF Live
  <2>4. CASE ~(map[r] # NoSocket /\ r \notin spared)
    <3>1. todo' = todo \ {r} /\ UNCHANGED <<up, closing>>
      BY <1>13, <2>4 DEF CloseTransient
    <3>2. r \notin Opened
      BY <1>0, <2>1, <2>4 DEF Opened, LegsRest
    <3> QED
      BY <2>1, <2>2, <3>1, <3>2 DEF Live
  <2> QED
    BY <2>3, <2>4
<1>14. ASSUME NEW r \in Relays, DeleteTransient(r) PROVE Strangers'
  <2>1. /\ UNCHANGED <<up, step, pub, targets, spared>> /\ pub = "tearing"
        /\ map' = [map EXCEPT ![r] = NoSocket] /\ torn' = torn \cup ({map[r]} \cap up)
        /\ todo' = todo \ {r} /\ closing' = NoSocket
        /\ closing \in {r} \X Ids
    BY <1>14 DEF DeleteTransient, TypeOK
  <2>2. closing[1] = r /\ closing # NoSocket
    BY <1>1, <2>1
  <2>3. \A q \in Strange : map'[q] = IF q = r THEN NoSocket ELSE map[q]
    BY <1>0, <2>1 DEF TypeOK
  <2>4. Opened' = Opened \ {r}
    BY <1>0, <2>1, <2>3 DEF Opened, LegsRest
  <2>5. Cardinality(Opened') <= MaxTransient
    BY <2>4, OpensNothing
  <2>6. \A s \in torn' : s[1] \notin Strange
    BY <1>1, <1>2, <2>1, <2>2
  <2>7. \A q \in Strange : step'[<<q, "publish">>] \in {"dialling", "storing"} => ~Live(q)'
    BY <1>2, <2>1, <2>3 DEF Live
  <2> QED
    BY <2>1, <2>4, <2>5, <2>6, <2>7
<1>15. ASSUME Finish PROVE Strangers'
  BY <1>15 DEF Finish, Opened, Live
<1> QED
  BY <1>3, <1>4, <1>5, <1>6, <1>7, <1>8, <1>9, <1>10, <1>11, <1>12, <1>13, <1>14, <1>15
     DEF Next, Dial, Publish

(* A stranger's sockets are as many as the relays open for them, for a     *)
(* relay has one, in the map or in the hand of its leg.                    *)
LEMMA OneSocketEach ==
  ASSUME TypeOK, Owned, LegsRest, Strangers
  PROVE  StrangersGone
<1> DEFINE Found == {s \in up : s[1] \in Strange}
           relay == [s \in Found |-> s[1]]
<1>1. \A s \in Found : map[s[1]] = s \/ (/\ step[<<s[1], "publish">>] = "storing"
                                        /\ hand[<<s[1], "publish">>] = s)
  <2> SUFFICES ASSUME NEW s \in Found, map[s[1]] # s
               PROVE  /\ step[<<s[1], "publish">>] = "storing"
                      /\ hand[<<s[1], "publish">>] = s
    OBVIOUS
  <2>1. PICK c \in Callers : step[c] = "storing" /\ hand[c] = s
    BY DEF Owned, NothingLeaks, Strangers
  <2>2. Url(c) = s[1]
    BY <2>1, Names DEF TypeOK
  <2> QED
    BY <2>1, <2>2, StrangersCallers
<1>2. \A s \in Found : s[1] \in Opened
  <2>1. NoSocket \notin up
    BY PoolAssumption DEF TypeOK, Sockets
  <2> QED
    BY <1>1, <2>1 DEF Opened
<1>3. ASSUME NEW s \in Found, NEW t \in Found, s[1] = t[1] PROVE s = t
  <2>1. step[<<s[1], "publish">>] = "storing" => map[s[1]] # s /\ map[s[1]] # t
    BY DEF Strangers, Live
  <2> QED
    BY <1>1, <1>3, <2>1
<1>4. relay \in Injection(Found, Opened)
  <2>1. relay \in [Found -> Opened]
    BY <1>2
  <2>2. \A s, t \in Found : relay[s] = relay[t] => s = t
    BY <1>3
  <2> HIDE DEF Found, relay
  <2> QED
    BY <2>1, <2>2 DEF Injection, IsInjective
<1>5. IsFiniteSet(Opened) /\ Cardinality(Opened) \in Nat
  <2>1. Opened \in SUBSET Strange
    BY DEF Opened
  <2> QED
    BY <2>1, StrangersCallers, FS_Subset, FS_CardinalityType
<1>6. /\ IsFiniteSet(Found) /\ Cardinality(Found) \in Nat
      /\ Cardinality(Found) <= Cardinality(Opened)
  <2> HIDE DEF Found, relay
  <2> QED
    BY <1>4, <1>5, FS_Injection, FS_CardinalityType
<1>7. CASE pub = "idle"
  <2>1. Found = {}
    BY <1>2, <1>7 DEF Strangers
  <2> QED
    BY <1>7, <2>1, FS_EmptySet DEF StrangersGone
<1>8. CASE pub # "idle"
  <2>1. Cardinality(Opened) <= MaxTransient /\ MaxTransient \in Nat
    BY StrangersCallers DEF Strangers
  <2>2. Cardinality(Found) <= MaxTransient
    <3> HIDE DEF Found
    <3> QED
      BY <1>5, <1>6, <2>1
  <2> QED
    BY <1>8, <2>2 DEF StrangersGone
<1> QED
  BY <1>7, <1>8

-----------------------------------------------------------------------------
(* The inductive invariant.                                                *)
PoolInv == TypeOK /\ Owned /\ LegsRest /\ CountsAreExact /\ Spared /\ Strangers

LEMMA InitPool == Init => PoolInv
<1> SUFFICES ASSUME Init PROVE PoolInv
  OBVIOUS
<1> USE DEF Init
<1>1. TypeOK /\ LegsRest
  BY Names DEF TypeOK, Steps, LegsRest
<1>2. Owned
  BY DEF Owned, NothingLeaks
<1>3. CountsAreExact
  <2>1. \A r \in Relays : Held(r) = {} /\ Opening(r) = {}
    BY Names DEF Held, Opening, Subscribing
  <2>2. \A r \in Relays : subscribed[r] = Cardinality(Held(r)) + Cardinality(Opening(r))
    BY <2>1, FS_EmptySet
  <2> QED
    BY <2>2 DEF CountsAreExact, Held, Opening
<1>4. Spared
  BY DEF Spared
<1>5. Strangers
  <2>1. Opened = {}
    BY StrangersCallers DEF Opened
  <2>2. Cardinality({}) = 0
    BY FS_EmptySet
  <2> QED
    BY <2>1, <2>2, StrangersCallers DEF Strangers
<1> QED
  BY <1>1, <1>2, <1>3, <1>4, <1>5 DEF PoolInv

LEMMA PoolInvariant == Spec => []PoolInv
<1>1. PoolInv /\ [Next]_vars => PoolInv'
  BY StepTypeOK, StepLegsRest, StepOwned, StepCounts, StepSpared, StepStrangers DEF PoolInv
<1> QED
  BY <1>1, InitPool, PTL DEF Spec

(* The types, and that a caller has a dialled socket in hand only while it *)
(* stores and a teardown one only while it walks the map (Pool.dial,       *)
(* closeTransient).                                                        *)
THEOREM PoolTyped == Spec => []TypeOK
<1>1. PoolInv => TypeOK
  BY DEF PoolInv
<1> QED
  BY <1>1, PoolInvariant, PTL

(* Every live socket can be found by a later teardown, but for those one   *)
(* tore from the map: dial's Compute, for any number of callers.           *)
THEOREM NoSocketLeaks == Spec => []NothingLeaks
<1>1. PoolInv => NothingLeaks
  BY DEF PoolInv, Owned
<1> QED
  BY <1>1, PoolInvariant, PTL

(* What is open on a stranger's word stays within the cap and is closed    *)
(* when the publish ends (chooseTargets, closeTransient).                  *)
THEOREM StrangersLeave == Spec => []StrangersGone
<1>1. PoolInv => StrangersGone
  BY OneSocketEach DEF PoolInv
<1> QED
  BY <1>1, PoolInvariant, PTL

(* The count of subscriptions is the number of sessions that hold or seek  *)
(* one (rememberSubscribed, forgetSubscribed, attach, close).              *)
THEOREM CountsStayExact == Spec => []CountsAreExact
<1>1. PoolInv => CountsAreExact
  BY DEF PoolInv
<1> QED
  BY <1>1, PoolInvariant, PTL

(* No teardown closes the relay of a session it found subscribed or on its *)
(* way to be (closeTransient).                                             *)
THEOREM SubscriptionsAreSpared == Spec => []SubscriptionsSpared
<1>1. PoolInv => SubscriptionsSpared
  BY DEF PoolInv, Spared, SubscriptionsSpared
<1> QED
  BY <1>1, PoolInvariant, PTL
=============================================================================
