-------------------------- MODULE GuardKeysProofs --------------------------
(***************************************************************************)
(* What holds of the guard's root keys for any number of keys, faults and  *)
(* keys deleted by the node's owner.                                       *)
(*                                                                         *)
(* A bake may die anywhere and nothing is forgotten, because its key is    *)
(* pending from before the node knows it until a write makes it current    *)
(* (Baking), and because the write at the end of a sweep drops only keys   *)
(* the node no longer lists (Sweeping).  Ending sending is complete,       *)
(* because by the time it sweeps, the current spend key is gone (Ending),  *)
(* and nothing the sweep leaves to the receive credential was ever a spend *)
(* key (Receiving).  No sweep takes the key of a file on disk until two    *)
(* operations have been cut short, because a key that is on disk and       *)
(* pending has a sidecar that names it (Backed).                           *)
(***************************************************************************)
EXTENDS GuardKeys, TLAPS

(* Keys are numbered in the order of minting.                              *)
Counted ==
  /\ \A k \in listed \cup pending \cup spendable : k <= minted
  /\ \A c \in Credentials : current[c] <= minted /\ sidecar[c] <= minted
  /\ forgotten <= minted /\ new <= minted

InBake ==
  holder \in Credentials /\ step \in {"minting", "naming", "writing", "recording"}

(* The key of a bake is pending and no credential's yet.                   *)
Baking ==
  InBake => /\ new \in pending /\ before = current[holder]
            /\ forgotten # new /\ \A c \in Credentials : current[c] # new

(* Whatever is pending and honoured is accounted for by the sweep.         *)
Sweeping ==
  step = "sweeping" => pending \cap listed \subseteq todo \cup spared \cup refused

Ending ==
  /\ forgotten \notin listed
  /\ holder = "revoke" /\ step \in {"removing", "sweeping"}
       => current["spend"] \notin listed
  /\ holder = "revoke" /\ step = "sweeping"
       => listed \cap spendable \subseteq todo \cup refused

(* The receive credential's keys were never spend keys.                    *)
Receiving ==
  /\ current["receive"] \notin spendable /\ sidecar["receive"] \notin spendable
  /\ InBake /\ holder = "receive" => new \notin spendable

IInv ==
  TypeOK /\ Counted /\ NothingForgotten /\ Baking /\ Sweeping /\ Ending /\ Receiving

-----------------------------------------------------------------------------
(* The two credentials of the guard.                                       *)
LEMMA TwoCredentials == "receive" \in Credentials /\ "spend" \in Credentials
BY DEF Credentials

(* Each step keeps the types; a bake's key is never 0.                     *)
LEMMA StepTypeOK ==
  ASSUME TypeOK, Baking, [Next]_vars
  PROVE  TypeOK'
<1> USE GuardKeysAssumption DEF TypeOK, Fault, disk, stored, doing, asked, Free
<1>1. ASSUME BakeReceive PROVE TypeOK'
  BY <1>1, TwoCredentials DEF BakeReceive, Begin, Keys, NoKey
<1>2. ASSUME Ask PROVE TypeOK'
  BY <1>2 DEF Ask
<1>3. ASSUME Renew PROVE TypeOK'
  BY <1>3 DEF Renew
<1>4. ASSUME BakeSpend PROVE TypeOK'
  BY <1>4, TwoCredentials DEF BakeSpend, Begin, Keys, NoKey
<1>5. ASSUME Refused PROVE TypeOK'
  BY <1>5 DEF Refused
<1>6. ASSUME Mint PROVE TypeOK'
  BY <1>6 DEF Mint, Goto, Baking, InBake
<1>7. ASSUME WriteSidecar PROVE TypeOK'
  BY <1>7 DEF WriteSidecar, Goto, Baking, InBake
<1>8. ASSUME WriteMacaroon PROVE TypeOK'
  BY <1>8 DEF WriteMacaroon, Goto, Baking, InBake
<1>9. ASSUME Record PROVE TypeOK'
  BY <1>9 DEF Record, Replaced, SweepsAllBut, Baking, InBake
<1>10. ASSUME Abort PROVE TypeOK'
  BY <1>10 DEF Abort, Release, Baking, InBake
<1>11. ASSUME NEW k \in Keys, Sweep(k) PROVE TypeOK'
  BY <1>11 DEF Sweep
<1>12. ASSUME Forget PROVE TypeOK'
  BY <1>12 DEF Forget, Settled, Release
<1>13. ASSUME DeleteCurrent PROVE TypeOK'
  BY <1>13 DEF DeleteCurrent, At, Goto, Release
<1>14. ASSUME RemoveFile PROVE TypeOK'
  BY <1>14 DEF RemoveFile, At, EndSending, EndSpares, SweepsAllBut
<1>15. ASSUME ClearSpendState PROVE TypeOK'
<2>1. /\ holder' \in Credentials \cup {"none", "revoke", "sweep"}
      /\ step' \in {"none", "sweeping", "tidying"}
      /\ new' \in Keys \cup {NoKey} /\ before' \in Keys \cup {NoKey}
      /\ todo' \subseteq Keys /\ spared' \subseteq Keys /\ refused' \subseteq Keys
  BY <1>15 DEF ClearSpendState, At, Goto, Release
<2>2. pending' \subseteq Keys
  BY <1>15 DEF ClearSpendState, Settled
<2>3. current' \in [Credentials -> Keys \cup {NoKey}]
  BY <1>15 DEF ClearSpendState
<2>4. latch' \in BOOLEAN
  BY <1>15 DEF ClearSpendState
<2>5. fresh' \subseteq Credentials /\ faults' \in Nat
  BY <1>15 DEF ClearSpendState
<2> QED
  BY <1>15, <2>1, <2>2, <2>3, <2>4, <2>5 DEF ClearSpendState
<1>16. ASSUME Tidy PROVE TypeOK'
  BY <1>16 DEF Tidy, At, Release
<1>17. ASSUME SweepOrphans PROVE TypeOK'
  BY <1>17 DEF SweepOrphans, SweepsAllBut
<1>18. ASSUME Revoke PROVE TypeOK'
  BY <1>18, TwoCredentials DEF Revoke, EndSending, EndSpares, SweepsAllBut
<1>19. ASSUME MissSpendKey PROVE TypeOK'
  BY <1>19, TwoCredentials DEF MissSpendKey
<1>20. ASSUME AcceptExternal PROVE TypeOK'
  BY <1>20, TwoCredentials DEF AcceptExternal, StillForgotten
<1>21. ASSUME NEW on \in BOOLEAN, SetLatch(on) PROVE TypeOK'
  BY <1>21 DEF SetLatch
<1>22. ASSUME NEW c \in Credentials, Age(c) PROVE TypeOK'
  BY <1>22 DEF Age
<1>23. ASSUME Restart PROVE TypeOK'
  BY <1>23 DEF Restart, Release, Baking, InBake
<1>24. ASSUME NEW k \in Keys, Drop(k) PROVE TypeOK'
  BY <1>24 DEF Drop
<1>25. ASSUME UNCHANGED vars PROVE TypeOK'
  BY <1>25 DEF vars
<1> QED
  BY <1>1, <1>2, <1>3, <1>4, <1>5, <1>6, <1>7, <1>8, <1>9, <1>10, <1>11,
     <1>12, <1>13, <1>14, <1>15, <1>16, <1>17, <1>18, <1>19, <1>20, <1>21,
     <1>22, <1>23, <1>24, <1>25 DEF Next, Work

(* ... and mints the next number.                                          *)
LEMMA StepCounted ==
  ASSUME TypeOK, Counted, Baking, [Next]_vars
  PROVE  Counted'
<1> USE GuardKeysAssumption DEF TypeOK, Fault, disk, stored, doing, asked, Free, Counted, NoKey
<1>1. ASSUME BakeReceive PROVE Counted'
  BY <1>1 DEF BakeReceive, Begin, Keys, Credentials
<1>2. ASSUME Ask PROVE Counted'
  BY <1>2 DEF Ask
<1>3. ASSUME Renew PROVE Counted'
  BY <1>3 DEF Renew
<1>4. ASSUME BakeSpend PROVE Counted'
  BY <1>4 DEF BakeSpend, Begin, Keys, Credentials
<1>5. ASSUME Refused PROVE Counted'
  BY <1>5 DEF Refused
<1>6. ASSUME Mint PROVE Counted'
  BY <1>6 DEF Mint, Goto, Baking, InBake
<1>7. ASSUME WriteSidecar PROVE Counted'
  BY <1>7 DEF WriteSidecar, Goto
<1>8. ASSUME WriteMacaroon PROVE Counted'
  BY <1>8 DEF WriteMacaroon, Goto
<1>9. ASSUME Record PROVE Counted'
  BY <1>9 DEF Record, Replaced, SweepsAllBut, Baking, InBake
<1>10. ASSUME Abort PROVE Counted'
  BY <1>10 DEF Abort, Release, Baking, InBake
<1>11. ASSUME NEW k \in Keys, Sweep(k) PROVE Counted'
  BY <1>11 DEF Sweep
<1>12. ASSUME Forget PROVE Counted'
  BY <1>12 DEF Forget, Settled, Release
<1>13. ASSUME DeleteCurrent PROVE Counted'
  BY <1>13 DEF DeleteCurrent, At, Goto, Release
<1>14. ASSUME RemoveFile PROVE Counted'
  BY <1>14 DEF RemoveFile, At, EndSending, EndSpares, SweepsAllBut
<1>15. ASSUME ClearSpendState PROVE Counted'
  BY <1>15 DEF ClearSpendState, At, Settled, Goto, Release
<1>16. ASSUME Tidy PROVE Counted'
  BY <1>16 DEF Tidy, At, Release
<1>17. ASSUME SweepOrphans PROVE Counted'
  BY <1>17 DEF SweepOrphans, SweepsAllBut
<1>18. ASSUME Revoke PROVE Counted'
  BY <1>18 DEF Revoke, EndSending, EndSpares, SweepsAllBut
<1>19. ASSUME MissSpendKey PROVE Counted'
  BY <1>19, TwoCredentials DEF MissSpendKey
<1>20. ASSUME AcceptExternal PROVE Counted'
  BY <1>20 DEF AcceptExternal, StillForgotten
<1>21. ASSUME NEW on \in BOOLEAN, SetLatch(on) PROVE Counted'
  BY <1>21 DEF SetLatch
<1>22. ASSUME NEW c \in Credentials, Age(c) PROVE Counted'
  BY <1>22 DEF Age
<1>23. ASSUME Restart PROVE Counted'
  BY <1>23 DEF Restart, Release, Baking, InBake
<1>24. ASSUME NEW k \in Keys, Drop(k) PROVE Counted'
  BY <1>24 DEF Drop
<1>25. ASSUME UNCHANGED vars PROVE Counted'
  BY <1>25 DEF vars
<1> QED
  BY <1>1, <1>2, <1>3, <1>4, <1>5, <1>6, <1>7, <1>8, <1>9, <1>10, <1>11,
     <1>12, <1>13, <1>14, <1>15, <1>16, <1>17, <1>18, <1>19, <1>20, <1>21,
     <1>22, <1>23, <1>24, <1>25 DEF Next, Work

(* ... and drops no key the node lists from the state file.                *)
LEMMA StepNothingForgotten ==
  ASSUME TypeOK, NothingForgotten, Baking, Sweeping, Ending, [Next]_vars
  PROVE  NothingForgotten'
<1> USE GuardKeysAssumption DEF TypeOK, Fault, disk, stored, doing, asked, Free, NothingForgotten, NoKey
<1>1. ASSUME BakeReceive PROVE NothingForgotten'
  BY <1>1 DEF BakeReceive, Begin
<1>2. ASSUME Ask PROVE NothingForgotten'
  BY <1>2 DEF Ask
<1>3. ASSUME Renew PROVE NothingForgotten'
  BY <1>3 DEF Renew
<1>4. ASSUME BakeSpend PROVE NothingForgotten'
  BY <1>4 DEF BakeSpend, Begin
<1>5. ASSUME Refused PROVE NothingForgotten'
  BY <1>5 DEF Refused
<1>6. ASSUME Mint PROVE NothingForgotten'
  BY <1>6 DEF Mint, Goto, Baking, InBake
<1>7. ASSUME WriteSidecar PROVE NothingForgotten'
  BY <1>7 DEF WriteSidecar, Goto
<1>8. ASSUME WriteMacaroon PROVE NothingForgotten'
  BY <1>8 DEF WriteMacaroon, Goto
<1>9. ASSUME Record PROVE NothingForgotten'
<2> SUFFICES ASSUME NEW k \in listed
           PROVE  k \in pending' \/ \E c \in Credentials : current'[c] = k
  BY <1>9 DEF Record
<2>1. k \in Keys /\ holder \in Credentials /\ InBake
  BY <1>9 DEF Record, InBake
<2>2. current'[holder] = new /\ \A c \in Credentials \ {holder} : current'[c] = current[c]
  BY <1>9, <2>1 DEF Record
<2>3. CASE k \in pending
  BY <1>9, <2>1, <2>2, <2>3 DEF Record, Replaced, Keys
<2>4. CASE \E c \in Credentials : current[c] = k
  BY <1>9, <2>1, <2>2, <2>4 DEF Record, Replaced, Baking, Keys
<2> QED
  BY <2>3, <2>4
<1>10. ASSUME Abort PROVE NothingForgotten'
  BY <1>10 DEF Abort, Release, Baking, InBake
<1>11. ASSUME NEW k \in Keys, Sweep(k) PROVE NothingForgotten'
  BY <1>11 DEF Sweep
<1>12. ASSUME Forget PROVE NothingForgotten'
<2> SUFFICES ASSUME NEW k \in listed, k \in pending, pending' = Settled
           PROVE  k \in pending'
  BY <1>12 DEF Forget
<2> QED
  BY <1>12 DEF Forget, Settled, Sweeping
<1>13. ASSUME DeleteCurrent PROVE NothingForgotten'
  BY <1>13 DEF DeleteCurrent, At, Goto, Release
<1>14. ASSUME RemoveFile PROVE NothingForgotten'
  BY <1>14 DEF RemoveFile, At, EndSending, EndSpares, SweepsAllBut
<1>15. ASSUME ClearSpendState PROVE NothingForgotten'
<2> SUFFICES ASSUME NEW k \in listed, pending' = Settled,
                        current' = [current EXCEPT !["spend"] = NoKey]
           PROVE  k \in pending' \/ \E c \in Credentials : current'[c] = k
  BY <1>15 DEF ClearSpendState
<2>1. holder = "revoke" /\ step = "sweeping" /\ todo = {}
  BY <1>15 DEF ClearSpendState, At
<2>2. CASE k \in pending
  BY <2>1, <2>2 DEF Settled, Sweeping
<2>3. CASE \E c \in Credentials : current[c] = k
  <3>1. PICK c \in Credentials : current[c] = k
    BY <2>3
  <3>2. c # "spend"
    BY <2>1, <3>1 DEF Ending
  <3> QED
    BY <3>1, <3>2
<2> QED
  BY <2>2, <2>3
<1>16. ASSUME Tidy PROVE NothingForgotten'
  BY <1>16 DEF Tidy, At, Release
<1>17. ASSUME SweepOrphans PROVE NothingForgotten'
  BY <1>17 DEF SweepOrphans, SweepsAllBut
<1>18. ASSUME Revoke PROVE NothingForgotten'
  BY <1>18 DEF Revoke, EndSending, EndSpares, SweepsAllBut
<1>19. ASSUME MissSpendKey PROVE NothingForgotten'
  BY <1>19 DEF MissSpendKey
<1>20. ASSUME AcceptExternal PROVE NothingForgotten'
  BY <1>20 DEF AcceptExternal, StillForgotten
<1>21. ASSUME NEW on \in BOOLEAN, SetLatch(on) PROVE NothingForgotten'
  BY <1>21 DEF SetLatch
<1>22. ASSUME NEW c \in Credentials, Age(c) PROVE NothingForgotten'
  BY <1>22 DEF Age
<1>23. ASSUME Restart PROVE NothingForgotten'
  BY <1>23 DEF Restart, Release, Baking, InBake
<1>24. ASSUME NEW k \in Keys, Drop(k) PROVE NothingForgotten'
  BY <1>24 DEF Drop
<1>25. ASSUME UNCHANGED vars PROVE NothingForgotten'
  BY <1>25 DEF vars
<1> QED
  BY <1>1, <1>2, <1>3, <1>4, <1>5, <1>6, <1>7, <1>8, <1>9, <1>10, <1>11,
     <1>12, <1>13, <1>14, <1>15, <1>16, <1>17, <1>18, <1>19, <1>20, <1>21,
     <1>22, <1>23, <1>24, <1>25 DEF Next, Work

(* ... and keeps the key of a bake pending.                                *)
LEMMA StepBaking ==
  ASSUME TypeOK, Counted, Baking, [Next]_vars
  PROVE  Baking'
<1> USE GuardKeysAssumption DEF TypeOK, Fault, disk, stored, doing, asked, Free, Baking, InBake, Counted, Keys, NoKey, Credentials
<1>1. ASSUME BakeReceive PROVE Baking'
  BY <1>1 DEF BakeReceive, Begin
<1>2. ASSUME Ask PROVE Baking'
  BY <1>2 DEF Ask
<1>3. ASSUME Renew PROVE Baking'
  BY <1>3 DEF Renew
<1>4. ASSUME BakeSpend PROVE Baking'
  BY <1>4 DEF BakeSpend, Begin
<1>5. ASSUME Refused PROVE Baking'
  BY <1>5 DEF Refused
<1>6. ASSUME Mint PROVE Baking'
  BY <1>6 DEF Mint, Goto
<1>7. ASSUME WriteSidecar PROVE Baking'
  BY <1>7 DEF WriteSidecar, Goto
<1>8. ASSUME WriteMacaroon PROVE Baking'
  BY <1>8 DEF WriteMacaroon, Goto
<1>9. ASSUME Record PROVE Baking'
  BY <1>9 DEF Record, Replaced, SweepsAllBut
<1>10. ASSUME Abort PROVE Baking'
  BY <1>10 DEF Abort, Release, Fault
<1>11. ASSUME NEW k \in Keys, Sweep(k) PROVE Baking'
  BY <1>11 DEF Sweep
<1>12. ASSUME Forget PROVE Baking'
  BY <1>12 DEF Forget, Settled, Release
<1>13. ASSUME DeleteCurrent PROVE Baking'
  BY <1>13 DEF DeleteCurrent, At, Goto, Release
<1>14. ASSUME RemoveFile PROVE Baking'
  BY <1>14 DEF RemoveFile, At, EndSending, EndSpares, SweepsAllBut
<1>15. ASSUME ClearSpendState PROVE Baking'
  BY <1>15 DEF ClearSpendState, At, Settled, Goto, Release
<1>16. ASSUME Tidy PROVE Baking'
  BY <1>16 DEF Tidy, At, Release
<1>17. ASSUME SweepOrphans PROVE Baking'
  BY <1>17 DEF SweepOrphans, SweepsAllBut
<1>18. ASSUME Revoke PROVE Baking'
  BY <1>18 DEF Revoke, EndSending, EndSpares, SweepsAllBut
<1>19. ASSUME MissSpendKey PROVE Baking'
  BY <1>19 DEF MissSpendKey
<1>20. ASSUME AcceptExternal PROVE Baking'
  BY <1>20 DEF AcceptExternal, StillForgotten
<1>21. ASSUME NEW on \in BOOLEAN, SetLatch(on) PROVE Baking'
  BY <1>21 DEF SetLatch
<1>22. ASSUME NEW c \in Credentials, Age(c) PROVE Baking'
  BY <1>22 DEF Age
<1>23. ASSUME Restart PROVE Baking'
  BY <1>23 DEF Restart, Release, Fault
<1>24. ASSUME NEW k \in Keys, Drop(k) PROVE Baking'
  BY <1>24 DEF Drop
<1>25. ASSUME UNCHANGED vars PROVE Baking'
  BY <1>25 DEF vars
<1> QED
  BY <1>1, <1>2, <1>3, <1>4, <1>5, <1>6, <1>7, <1>8, <1>9, <1>10, <1>11,
     <1>12, <1>13, <1>14, <1>15, <1>16, <1>17, <1>18, <1>19, <1>20, <1>21,
     <1>22, <1>23, <1>24, <1>25 DEF Next, Work

(* ... and lets a sweep account for what it met.                           *)
LEMMA StepSweeping ==
  ASSUME TypeOK, Sweeping, Baking, NothingForgotten, [Next]_vars
  PROVE  Sweeping'
<1> USE GuardKeysAssumption DEF TypeOK, Fault, disk, stored, doing, asked, Free, Sweeping
<1>1. ASSUME BakeReceive PROVE Sweeping'
  BY <1>1 DEF BakeReceive, Begin
<1>2. ASSUME Ask PROVE Sweeping'
  BY <1>2 DEF Ask
<1>3. ASSUME Renew PROVE Sweeping'
  BY <1>3 DEF Renew
<1>4. ASSUME BakeSpend PROVE Sweeping'
  BY <1>4 DEF BakeSpend, Begin
<1>5. ASSUME Refused PROVE Sweeping'
  BY <1>5 DEF Refused
<1>6. ASSUME Mint PROVE Sweeping'
  BY <1>6 DEF Mint, Goto
<1>7. ASSUME WriteSidecar PROVE Sweeping'
  BY <1>7 DEF WriteSidecar, Goto
<1>8. ASSUME WriteMacaroon PROVE Sweeping'
  BY <1>8 DEF WriteMacaroon, Goto
<1>9. ASSUME Record PROVE Sweeping'
  BY <1>9 DEF Record, Replaced, SweepsAllBut
<1>10. ASSUME Abort PROVE Sweeping'
  BY <1>10 DEF Abort, Release, Fault
<1>11. ASSUME NEW k \in Keys, Sweep(k) PROVE Sweeping'
  BY <1>11 DEF Sweep
<1>12. ASSUME Forget PROVE Sweeping'
  BY <1>12 DEF Forget, Settled, Release
<1>13. ASSUME DeleteCurrent PROVE Sweeping'
  BY <1>13 DEF DeleteCurrent, At, Goto, Release
<1>14. ASSUME RemoveFile PROVE Sweeping'
  BY <1>14 DEF RemoveFile, At, EndSending, EndSpares, SweepsAllBut
<1>15. ASSUME ClearSpendState PROVE Sweeping'
  BY <1>15 DEF ClearSpendState, At, Settled, Goto, Release
<1>16. ASSUME Tidy PROVE Sweeping'
  BY <1>16 DEF Tidy, At, Release
<1>17. ASSUME SweepOrphans PROVE Sweeping'
  BY <1>17 DEF SweepOrphans, SweepsAllBut
<1>18. ASSUME Revoke PROVE Sweeping'
  BY <1>18 DEF Revoke, EndSending, EndSpares, SweepsAllBut
<1>19. ASSUME MissSpendKey PROVE Sweeping'
  BY <1>19 DEF MissSpendKey
<1>20. ASSUME AcceptExternal PROVE Sweeping'
  BY <1>20 DEF AcceptExternal, StillForgotten
<1>21. ASSUME NEW on \in BOOLEAN, SetLatch(on) PROVE Sweeping'
  BY <1>21 DEF SetLatch
<1>22. ASSUME NEW c \in Credentials, Age(c) PROVE Sweeping'
  BY <1>22 DEF Age
<1>23. ASSUME Restart PROVE Sweeping'
  BY <1>23 DEF Restart, Release, Fault
<1>24. ASSUME NEW k \in Keys, Drop(k) PROVE Sweeping'
  BY <1>24 DEF Drop
<1>25. ASSUME UNCHANGED vars PROVE Sweeping'
  BY <1>25 DEF vars
<1> QED
  BY <1>1, <1>2, <1>3, <1>4, <1>5, <1>6, <1>7, <1>8, <1>9, <1>10, <1>11,
     <1>12, <1>13, <1>14, <1>15, <1>16, <1>17, <1>18, <1>19, <1>20, <1>21,
     <1>22, <1>23, <1>24, <1>25 DEF Next, Work

(* What ending sending sets out to delete.                                 *)
LEMMA NoSpendKeySpared ==
  ASSUME TypeOK, NothingForgotten, Receiving, current["spend"] \notin listed
  PROVE  listed \cap spendable \subseteq pending \ EndSpares
<1> SUFFICES ASSUME NEW k \in listed, k \in spendable
             PROVE  k \in pending /\ k \notin EndSpares
  OBVIOUS
<1>1. \A c \in Credentials : current[c] # k
  BY DEF Receiving, Credentials
<1>2. k \in pending
  BY <1>1 DEF NothingForgotten
<1>3. k \notin EndSpares
  BY DEF EndSpares, Named, Receiving
<1> QED
  BY <1>2, <1>3

(* ... and, ending sending, leaves no spend key to chance.                 *)
LEMMA StepEnding ==
  ASSUME TypeOK, Counted, NothingForgotten, Baking, Ending, Receiving, [Next]_vars
  PROVE  Ending'
<1> USE GuardKeysAssumption DEF TypeOK, Fault, disk, stored, doing, asked, Free, Ending
<1>1. ASSUME BakeReceive PROVE Ending'
  BY <1>1 DEF BakeReceive, Begin, Credentials
<1>2. ASSUME Ask PROVE Ending'
  BY <1>2 DEF Ask
<1>3. ASSUME Renew PROVE Ending'
  BY <1>3 DEF Renew
<1>4. ASSUME BakeSpend PROVE Ending'
  BY <1>4 DEF BakeSpend, Begin, Credentials
<1>5. ASSUME Refused PROVE Ending'
  BY <1>5 DEF Refused
<1>6. ASSUME Mint PROVE Ending'
  BY <1>6 DEF Mint, Goto, Baking, InBake, Credentials
<1>7. ASSUME WriteSidecar PROVE Ending'
  BY <1>7 DEF WriteSidecar, Goto
<1>8. ASSUME WriteMacaroon PROVE Ending'
  BY <1>8 DEF WriteMacaroon, Goto
<1>9. ASSUME Record PROVE Ending'
  BY <1>9 DEF Record, Credentials
<1>10. ASSUME Abort PROVE Ending'
  BY <1>10 DEF Abort, Release, Baking, InBake
<1>11. ASSUME NEW k \in Keys, Sweep(k) PROVE Ending'
  BY <1>11 DEF Sweep
<1>12. ASSUME Forget PROVE Ending'
  BY <1>12 DEF Forget, Settled, Release
<1>13. ASSUME DeleteCurrent PROVE Ending'
  BY <1>13 DEF DeleteCurrent, At, Goto, Release
<1>14. ASSUME RemoveFile PROVE Ending'
  BY <1>14, NoSpendKeySpared DEF RemoveFile, At, EndSending, SweepsAllBut
<1>15. ASSUME ClearSpendState PROVE Ending'
  BY <1>15 DEF ClearSpendState, At, Settled, Goto, Release
<1>16. ASSUME Tidy PROVE Ending'
  BY <1>16 DEF Tidy, At, Release
<1>17. ASSUME SweepOrphans PROVE Ending'
  BY <1>17 DEF SweepOrphans, SweepsAllBut
<1>18. ASSUME Revoke PROVE Ending'
<2>1. CASE current["spend"] = NoKey
  <3>1. current["spend"] \notin listed
    BY <2>1 DEF Keys, NoKey
  <3> QED
    BY <1>18, <2>1, <3>1, NoSpendKeySpared DEF Revoke, EndSending, SweepsAllBut
<2>2. CASE current["spend"] # NoKey
  BY <1>18, <2>2 DEF Revoke
<2> QED
  BY <2>1, <2>2
<1>19. ASSUME MissSpendKey PROVE Ending'
  BY <1>19 DEF MissSpendKey
<1>20. ASSUME AcceptExternal PROVE Ending'
  BY <1>20 DEF AcceptExternal, StillForgotten, Keys, NoKey
<1>21. ASSUME NEW on \in BOOLEAN, SetLatch(on) PROVE Ending'
  BY <1>21 DEF SetLatch
<1>22. ASSUME NEW c \in Credentials, Age(c) PROVE Ending'
  BY <1>22 DEF Age
<1>23. ASSUME Restart PROVE Ending'
  BY <1>23 DEF Restart, Release, Baking, InBake, Keys, NoKey
<1>24. ASSUME NEW k \in Keys, Drop(k) PROVE Ending'
  BY <1>24 DEF Drop
<1>25. ASSUME UNCHANGED vars PROVE Ending'
  BY <1>25 DEF vars
<1> QED
  BY <1>1, <1>2, <1>3, <1>4, <1>5, <1>6, <1>7, <1>8, <1>9, <1>10, <1>11,
     <1>12, <1>13, <1>14, <1>15, <1>16, <1>17, <1>18, <1>19, <1>20, <1>21,
     <1>22, <1>23, <1>24, <1>25 DEF Next, Work

(* ... and never gives a spend key to the receive credential.              *)
LEMMA StepReceiving ==
  ASSUME TypeOK, Counted, Baking, Receiving, [Next]_vars
  PROVE  Receiving'
<1> USE GuardKeysAssumption DEF TypeOK, Fault, disk, stored, doing, asked, Free, Receiving, InBake, Counted
<1>1. ASSUME BakeReceive PROVE Receiving'
  BY <1>1 DEF BakeReceive, Begin
<1>2. ASSUME Ask PROVE Receiving'
  BY <1>2 DEF Ask
<1>3. ASSUME Renew PROVE Receiving'
  BY <1>3 DEF Renew
<1>4. ASSUME BakeSpend PROVE Receiving'
<2>1. current["receive"] # minted + 1 /\ sidecar["receive"] # minted + 1
  BY TwoCredentials DEF Keys, NoKey
<2> QED
  BY <1>4, <2>1 DEF BakeSpend, Begin
<1>5. ASSUME Refused PROVE Receiving'
  BY <1>5 DEF Refused
<1>6. ASSUME Mint PROVE Receiving'
  BY <1>6 DEF Mint, Goto
<1>7. ASSUME WriteSidecar PROVE Receiving'
  BY <1>7 DEF WriteSidecar, Goto
<1>8. ASSUME WriteMacaroon PROVE Receiving'
  BY <1>8 DEF WriteMacaroon, Goto
<1>9. ASSUME Record PROVE Receiving'
  BY <1>9 DEF Record, Replaced, SweepsAllBut
<1>10. ASSUME Abort PROVE Receiving'
  BY <1>10 DEF Abort, Release, Fault
<1>11. ASSUME NEW k \in Keys, Sweep(k) PROVE Receiving'
  BY <1>11 DEF Sweep
<1>12. ASSUME Forget PROVE Receiving'
  BY <1>12 DEF Forget, Settled, Release
<1>13. ASSUME DeleteCurrent PROVE Receiving'
  BY <1>13 DEF DeleteCurrent, At, Goto, Release
<1>14. ASSUME RemoveFile PROVE Receiving'
  BY <1>14 DEF RemoveFile, At, EndSending, EndSpares, SweepsAllBut
<1>15. ASSUME ClearSpendState PROVE Receiving'
<2>1. holder' \notin Credentials
  BY <1>15 DEF ClearSpendState, At, Goto, Release, Credentials
<2>2. current'["receive"] = current["receive"]
  BY <1>15, TwoCredentials DEF ClearSpendState
<2> QED
  BY <1>15, <2>1, <2>2 DEF ClearSpendState
<1>16. ASSUME Tidy PROVE Receiving'
  BY <1>16 DEF Tidy, At, Release
<1>17. ASSUME SweepOrphans PROVE Receiving'
  BY <1>17 DEF SweepOrphans, SweepsAllBut
<1>18. ASSUME Revoke PROVE Receiving'
  BY <1>18 DEF Revoke, EndSending, EndSpares, SweepsAllBut
<1>19. ASSUME MissSpendKey PROVE Receiving'
  BY <1>19 DEF MissSpendKey
<1>20. ASSUME AcceptExternal PROVE Receiving'
  BY <1>20 DEF AcceptExternal, StillForgotten
<1>21. ASSUME NEW on \in BOOLEAN, SetLatch(on) PROVE Receiving'
  BY <1>21 DEF SetLatch
<1>22. ASSUME NEW c \in Credentials, Age(c) PROVE Receiving'
  BY <1>22 DEF Age
<1>23. ASSUME Restart PROVE Receiving'
  BY <1>23 DEF Restart, Release, Fault
<1>24. ASSUME NEW k \in Keys, Drop(k) PROVE Receiving'
  BY <1>24 DEF Drop
<1>25. ASSUME UNCHANGED vars PROVE Receiving'
  BY <1>25 DEF vars
<1> QED
  BY <1>1, <1>2, <1>3, <1>4, <1>5, <1>6, <1>7, <1>8, <1>9, <1>10, <1>11,
     <1>12, <1>13, <1>14, <1>15, <1>16, <1>17, <1>18, <1>19, <1>20, <1>21,
     <1>22, <1>23, <1>24, <1>25 DEF Next, Work

(* Nothing is left to delete when sending has ended.                       *)
LEMMA EndsWhenSwept ==
  ASSUME TypeOK, SendingEnds, [Next]_vars
  PROVE  todo = {}
<1> USE GuardKeysAssumption DEF TypeOK, Fault, disk, stored, doing, asked, Free, SendingEnds, At, Goto, Release, Credentials
<1>1. ASSUME BakeReceive PROVE todo = {}
  BY <1>1 DEF BakeReceive, Begin
<1>2. ASSUME Ask PROVE todo = {}
  BY <1>2 DEF Ask
<1>3. ASSUME Renew PROVE todo = {}
  BY <1>3 DEF Renew
<1>4. ASSUME BakeSpend PROVE todo = {}
  BY <1>4 DEF BakeSpend, Begin
<1>5. ASSUME Refused PROVE todo = {}
  BY <1>5 DEF Refused
<1>6. ASSUME Mint PROVE todo = {}
  BY <1>6 DEF Mint, Goto
<1>7. ASSUME WriteSidecar PROVE todo = {}
  BY <1>7 DEF WriteSidecar, Goto
<1>8. ASSUME WriteMacaroon PROVE todo = {}
  BY <1>8 DEF WriteMacaroon, Goto
<1>9. ASSUME Record PROVE todo = {}
  BY <1>9 DEF Record, Replaced, SweepsAllBut
<1>10. ASSUME Abort PROVE todo = {}
  BY <1>10 DEF Abort, Release, Fault
<1>11. ASSUME NEW k \in Keys, Sweep(k) PROVE todo = {}
  BY <1>11 DEF Sweep
<1>12. ASSUME Forget PROVE todo = {}
  BY <1>12 DEF Forget, Settled, Release
<1>13. ASSUME DeleteCurrent PROVE todo = {}
  BY <1>13 DEF DeleteCurrent, At, Goto, Release
<1>14. ASSUME RemoveFile PROVE todo = {}
  BY <1>14 DEF RemoveFile, At, EndSending, EndSpares, SweepsAllBut
<1>15. ASSUME ClearSpendState PROVE todo = {}
  BY <1>15 DEF ClearSpendState, At, Settled, Goto, Release
<1>16. ASSUME Tidy PROVE todo = {}
  BY <1>16 DEF Tidy, At, Release
<1>17. ASSUME SweepOrphans PROVE todo = {}
  BY <1>17 DEF SweepOrphans, SweepsAllBut
<1>18. ASSUME Revoke PROVE todo = {}
  BY <1>18 DEF Revoke, EndSending, EndSpares, SweepsAllBut
<1>19. ASSUME MissSpendKey PROVE todo = {}
  BY <1>19 DEF MissSpendKey
<1>20. ASSUME AcceptExternal PROVE todo = {}
  BY <1>20 DEF AcceptExternal, StillForgotten
<1>21. ASSUME NEW on \in BOOLEAN, SetLatch(on) PROVE todo = {}
  BY <1>21 DEF SetLatch
<1>22. ASSUME NEW c \in Credentials, Age(c) PROVE todo = {}
  BY <1>22 DEF Age
<1>23. ASSUME Restart PROVE todo = {}
  BY <1>23 DEF Restart, Release, Fault
<1>24. ASSUME NEW k \in Keys, Drop(k) PROVE todo = {}
  BY <1>24 DEF Drop
<1>25. ASSUME UNCHANGED vars PROVE todo = {}
  BY <1>25 DEF vars
<1> QED
  BY <1>1, <1>2, <1>3, <1>4, <1>5, <1>6, <1>7, <1>8, <1>9, <1>10, <1>11,
     <1>12, <1>13, <1>14, <1>15, <1>16, <1>17, <1>18, <1>19, <1>20, <1>21,
     <1>22, <1>23, <1>24, <1>25 DEF Next, Work

-----------------------------------------------------------------------------
(* The invariant holds at the start, every step keeps it, so it holds.     *)
LEMMA InitIInv ==
  ASSUME Init
  PROVE  IInv
<1> USE GuardKeysAssumption DEF Init, Nothing, Keys, NoKey, Credentials
<1>1. TypeOK
  <2>1. /\ file \in [Credentials -> Keys \cup {NoKey}]
        /\ current \in [Credentials -> Keys \cup {NoKey}]
        /\ listed \subseteq Keys /\ spendable \subseteq Keys /\ minted \in 0..MaxKeys
        /\ pending \subseteq Keys
    BY DEF Fresh, Upgraded, Interrupted
  <2>2. latch \in BOOLEAN
    BY DEF Fresh, Upgraded, Interrupted
  <2>4. bare \in BOOLEAN
    BY DEF Fresh, Upgraded, Interrupted
  <2>5. faults \in Nat
    BY DEF Fresh, Upgraded, Interrupted
  <2>3. sidecar \in [Credentials -> Keys \cup {NoKey}]
    OBVIOUS
  <2> QED
    BY <2>1, <2>2, <2>3, <2>4, <2>5 DEF TypeOK
<1>2. Counted /\ NothingForgotten /\ Receiving
  <2>1. CASE Fresh
    BY <2>1 DEF Fresh, Counted, NothingForgotten, Receiving, InBake
  <2>2. CASE Upgraded
    BY <2>2 DEF Upgraded, Counted, NothingForgotten, Receiving, InBake
  <2>3. CASE Interrupted
    BY <2>3 DEF Interrupted, Counted, NothingForgotten, Receiving, InBake
  <2> QED
    BY <2>1, <2>2, <2>3
<1>3. Baking /\ Sweeping
  BY DEF Baking, InBake, Sweeping
<1>4. Ending
  BY <1>1 DEF TypeOK, Ending
<1> QED
  BY <1>1, <1>2, <1>3, <1>4 DEF IInv

LEMMA NextIInv ==
  ASSUME IInv, [Next]_vars
  PROVE  IInv'
BY StepTypeOK, StepCounted, StepNothingForgotten, StepBaking, StepSweeping,
   StepEnding, StepReceiving DEF IInv

LEMMA Invariance == Spec => []IInv
BY InitIInv, NextIInv, PTL DEF Spec

(* The state of the guard is well formed.                                  *)
THEOREM KeysTyped == Spec => []TypeOK
BY Invariance, PTL DEF IInv

(* bake's order of writes: every key the node still honours is current or  *)
(* pending in the state file, wherever a bake, a sweep or a revocation     *)
(* failed or died.                                                         *)
THEOREM NoKeyIsForgotten == Spec => []NothingForgotten
BY Invariance, PTL DEF IInv

(* RevokeSpend: once sending has ended, the node honours no spend key but  *)
(* those it refused to delete.                                             *)
THEOREM NoSpendKeyOutlivesSending == Spec => KillSwitchIsComplete
<1>1. ASSUME IInv, [Next]_vars
      PROVE  [SendingEnds => listed \cap spendable \subseteq refused]_vars
  <2>1. SUFFICES ASSUME SendingEnds
                 PROVE  listed \cap spendable \subseteq refused
    OBVIOUS
  <2>2. todo = {}
    BY <1>1, <2>1, EndsWhenSwept DEF IInv
  <2> QED
    BY <1>1, <2>1, <2>2 DEF IInv, Ending, SendingEnds
<1> QED
  BY Invariance, <1>1, PTL DEF Spec, KillSwitchIsComplete

-----------------------------------------------------------------------------
(***************************************************************************)
(* Sweeps and the files on disk.  Of the two credentials' keys none is     *)
(* ever the other's (Parted), a bake writes the sidecar before the         *)
(* macaroon (Written), so a key that is on disk and pending is named by    *)
(* its sidecar (Backed): it takes a second fault, in a later bake between  *)
(* the two writes, to part them again.  What a sweep has to do is          *)
(* therefore no file's key (Unharmed), but for the spend credential's      *)
(* when sending ends.                                                      *)
(***************************************************************************)
Parted ==
  /\ \A c \in Credentials : file[c] <= minted
  /\ current["spend"] \in spendable \cup {NoKey} /\ file["spend"] \in spendable \cup {NoKey}
  /\ file["receive"] \notin spendable
  /\ InBake /\ holder = "spend" => new \in spendable

Written ==
  /\ InBake /\ step \in {"writing", "recording"} => sidecar[holder] = new
  /\ InBake /\ step = "recording" => file[holder] = new

Backed ==
  \A c \in Credentials : file[c] \in pending =>
    /\ faults = 0 => holder = c /\ step = "recording"
    /\ faults = 1 => sidecar[c] = file[c] \/ (holder = c /\ step = "writing")

Unharmed ==
  faults <= 1 /\ step = "sweeping" =>
    \A c \in Credentials : file[c] \in todo => c = "spend" /\ holder = "revoke"

OnDisk == Parted /\ Written /\ Backed /\ Unharmed

(* A history that does not begin with a bake cut short.                    *)
LEMMA InitOnDisk ==
  ASSUME Init, "interrupted" \notin Histories
  PROVE  OnDisk
<1>1. /\ Fresh \/ Upgraded
      /\ sidecar = Nothing /\ holder = "none" /\ step = "none"
  BY DEF Init
<1>2. pending = {} /\ ~InBake
  BY <1>1 DEF Fresh, Upgraded, InBake, Credentials
<1>3. Parted
  BY <1>1, <1>2, GuardKeysAssumption DEF Parted, Fresh, Upgraded, Nothing, Credentials, NoKey, Keys
<1>4. Written /\ Backed /\ Unharmed
  BY <1>1, <1>2 DEF Written, Backed, Unharmed
<1> QED BY <1>3, <1>4 DEF OnDisk

(* Keys are added to their own credential's and never change sides.        *)
LEMMA StepParted ==
  ASSUME TypeOK, Counted, Baking, Receiving, Parted, [Next]_vars
  PROVE  Parted'
<1> USE GuardKeysAssumption, TwoCredentials
    DEF TypeOK, disk, stored, doing, asked, Parted, Counted, Baking, InBake
<1>1. ASSUME NEW c \in Credentials, Begin(c) PROVE Parted'
  <2>1. /\ file' = file /\ current' = current /\ holder' = c /\ new' = minted + 1
        /\ minted' = minted + 1
        /\ spendable' = IF c = "spend" THEN spendable \cup {new'} ELSE spendable
    BY <1>1 DEF Begin
  <2>2. file["receive"] # minted + 1 /\ \A d \in Credentials : file[d] <= minted + 1
    BY DEF Keys, NoKey
  <2> QED BY <2>1, <2>2
<1>2. ASSUME WriteMacaroon PROVE Parted'
  <2>1. /\ holder \in Credentials /\ new \in pending /\ InBake
        /\ file' = [file EXCEPT ![holder] = new]
        /\ UNCHANGED <<current, minted, spendable, holder, new>>
    BY <1>2 DEF WriteMacaroon, Goto
  <2>2. holder = "receive" => new \notin spendable
    BY <2>1 DEF Receiving
  <2>3. new <= minted
    BY <2>1
  <2> QED BY <2>1, <2>2, <2>3
<1>3. ASSUME Record PROVE Parted'
  <2>1. /\ holder \in Credentials /\ InBake /\ step' = "sweeping"
        /\ current' = [current EXCEPT ![holder] = new]
        /\ UNCHANGED <<file, minted, spendable>>
    BY <1>3 DEF Record, SweepsAllBut
  <2> QED BY <2>1
<1>4. ASSUME RemoveFile \/ Tidy \/ ClearSpendState PROVE Parted'
  <2>1. /\ UNCHANGED <<minted, spendable>> /\ ~InBake'
        /\ file' \in {file, [file EXCEPT !["spend"] = NoKey]}
        /\ current' \in {current, [current EXCEPT !["spend"] = NoKey]}
    BY <1>4 DEF RemoveFile, Tidy, ClearSpendState, At, EndSending, SweepsAllBut, Goto, Release, Credentials
  <2> QED BY <2>1 DEF NoKey
<1>5. ASSUME UNCHANGED <<file, current, spendable, minted>>,
             InBake' => InBake /\ UNCHANGED <<holder, new>>
      PROVE  Parted'
  BY <1>5
<1>6. ASSUME Mint \/ WriteSidecar \/ Abort \/ (\E k \in Keys : Sweep(k)) \/ Forget \/ DeleteCurrent
             \/ SweepOrphans \/ Revoke \/ AcceptExternal \/ Restart
      PROVE  Parted'
  <2>1. UNCHANGED <<file, current, spendable, minted>>
    BY <1>6 DEF Mint, WriteSidecar, Abort, Sweep, Forget, DeleteCurrent, SweepOrphans, Revoke,
       AcceptExternal, Restart
  <2>2. InBake' => InBake /\ UNCHANGED <<holder, new>>
    BY <1>6 DEF Mint, WriteSidecar, Abort, Sweep, Forget, DeleteCurrent, SweepOrphans, Revoke,
       AcceptExternal, Restart, Goto, Release, SweepsAllBut, EndSending, At, Credentials
  <2> QED BY <2>1, <2>2, <1>5
<1>7. ASSUME Ask \/ Renew \/ Refused \/ MissSpendKey \/ (\E on \in BOOLEAN : SetLatch(on))
             \/ (\E c \in Credentials : Age(c)) \/ (\E k \in Keys : Drop(k)) \/ UNCHANGED vars
      PROVE  Parted'
  <2>1. UNCHANGED <<file, current, spendable, minted, holder, step, new>>
    BY <1>7 DEF Ask, Renew, Refused, MissSpendKey, SetLatch, Age, Drop, vars
  <2> QED BY <2>1, <1>5
<1> QED BY <1>1, <1>2, <1>3, <1>4, <1>6, <1>7 DEF Next, Work, BakeReceive, BakeSpend

(* What most steps do to the files and to whoever holds the mutex.         *)
LEMMA Elsewhere ==
  ASSUME TypeOK, [Next]_vars, ~(\E c \in Credentials : Begin(c)), ~WriteSidecar, ~WriteMacaroon,
         ~Record, ~RemoveFile, ~Tidy
  PROVE  /\ UNCHANGED <<file, sidecar>> /\ pending' \subseteq pending
         /\ faults' \in {faults, faults + 1}
         /\ \/ UNCHANGED <<holder, step, new>>
            \/ InBake /\ ~InBake' /\ step' # "sweeping" /\ faults' = faults + 1
            \/ step = "minting" /\ step' = "naming" /\ UNCHANGED <<holder, new>>
            \/ ~InBake /\ ~InBake'
<1> USE GuardKeysAssumption, TwoCredentials
    DEF TypeOK, disk, stored, doing, asked, InBake, Fault, At
<1> DEFINE Goal == /\ UNCHANGED <<file, sidecar>> /\ pending' \subseteq pending
                   /\ faults' \in {faults, faults + 1}
                   /\ \/ UNCHANGED <<holder, step, new>>
                      \/ InBake /\ ~InBake' /\ step' # "sweeping" /\ faults' = faults + 1
                      \/ step = "minting" /\ step' = "naming" /\ UNCHANGED <<holder, new>>
                      \/ ~InBake /\ ~InBake'
<1>1. ASSUME Ask \/ Renew \/ Refused \/ MissSpendKey \/ (\E on \in BOOLEAN : SetLatch(on))
             \/ (\E c \in Credentials : Age(c)) \/ (\E k \in Keys : Drop(k)) \/ UNCHANGED vars
      PROVE  Goal
  BY <1>1 DEF Ask, Renew, Refused, MissSpendKey, SetLatch, Age, Drop, vars
<1>2. ASSUME Mint PROVE Goal
  BY <1>2 DEF Mint, Goto
<1>3. ASSUME Abort PROVE Goal
  BY <1>3 DEF Abort, Release, Credentials
<1>4. ASSUME NEW k \in Keys, Sweep(k) PROVE Goal
  BY <1>4 DEF Sweep
<1>5. ASSUME Forget PROVE Goal
  BY <1>5 DEF Forget, Settled, Release, Credentials
<1>6. ASSUME DeleteCurrent PROVE Goal
  BY <1>6 DEF DeleteCurrent, Goto, Release, Credentials
<1>7. ASSUME ClearSpendState PROVE Goal
  <2>1. UNCHANGED <<file, sidecar>> /\ pending' \subseteq pending /\ faults' \in {faults, faults + 1}
    BY <1>7 DEF ClearSpendState, Settled
  <2>2. ~InBake /\ ~InBake'
    BY <1>7 DEF ClearSpendState, Goto, Release, Credentials
  <2> QED BY <2>1, <2>2
<1>8. ASSUME SweepOrphans \/ Revoke \/ AcceptExternal PROVE Goal
  BY <1>8 DEF SweepOrphans, Revoke, AcceptExternal, SweepsAllBut, EndSending, Free, Credentials
<1>9. ASSUME Restart PROVE Goal
  BY <1>9 DEF Restart, Release, Credentials
<1>10. Goal
  <2> HIDE DEF Goal
  <2> QED BY <1>1, <1>2, <1>3, <1>4, <1>5, <1>6, <1>7, <1>8, <1>9
          DEF Next, Work, BakeReceive, BakeSpend
<1> QED BY <1>10

LEMMA StepWritten ==
  ASSUME TypeOK, Written, [Next]_vars
  PROVE  Written'
<1> USE DEF TypeOK, Written, InBake
<1>1. ASSUME NEW c \in Credentials, Begin(c) PROVE Written'
  BY <1>1 DEF Begin
<1>2. ASSUME WriteSidecar PROVE Written'
  BY <1>2 DEF WriteSidecar, Goto
<1>3. ASSUME WriteMacaroon PROVE Written'
  BY <1>3 DEF WriteMacaroon, Goto
<1>4. ASSUME Record PROVE Written'
  BY <1>4 DEF Record, SweepsAllBut
<1>5. ASSUME RemoveFile \/ Tidy PROVE Written'
  BY <1>5 DEF RemoveFile, Tidy, EndSending, SweepsAllBut, Release
<1> QED BY <1>1, <1>2, <1>3, <1>4, <1>5, Elsewhere

LEMMA StepBacked ==
  ASSUME TypeOK, Counted, Baking, Receiving, Parted, Written, Backed, [Next]_vars
  PROVE  Backed'
<1> USE GuardKeysAssumption, TwoCredentials DEF TypeOK, disk, stored, Backed, InBake
<1>1. ASSUME NEW c \in Credentials, Begin(c) PROVE Backed'
  <2>1. /\ UNCHANGED <<file, sidecar, faults>> /\ pending' = pending \cup {minted + 1}
        /\ holder = "none"
    BY <1>1 DEF Begin, Free
  <2>2. \A d \in Credentials : file[d] # minted + 1
    BY DEF Parted, Keys, NoKey
  <2> QED BY <2>1, <2>2 DEF Credentials
<1>2. ASSUME WriteSidecar PROVE Backed'
  BY <1>2 DEF WriteSidecar, Goto
<1>3. ASSUME WriteMacaroon PROVE Backed'
  <2>1. /\ file' = [file EXCEPT ![holder] = new] /\ UNCHANGED <<sidecar, pending, faults, holder>>
        /\ step = "writing" /\ step' = "recording" /\ holder \in Credentials
    BY <1>3 DEF WriteMacaroon, Goto
  <2>2. sidecar[holder] = new
    BY <2>1 DEF Written
  <2> QED BY <2>1, <2>2
<1>4. ASSUME Record PROVE Backed'
  <2>1. /\ UNCHANGED <<file, sidecar, faults>> /\ pending' = Replaced
        /\ holder \in Credentials /\ step = "recording"
    BY <1>4 DEF Record
  <2>2. file[holder] = new /\ before = current[holder]
    BY <2>1 DEF Written, Baking
  <2>3. ASSUME NEW c \in Credentials, file[c] \in pending' PROVE c # holder /\ file[c] \in pending
    <3>1. c # holder /\ file[c] # NoKey
      BY <2>1, <2>2, <2>3 DEF Replaced
    <3>2. file[c] # before
      BY <2>1, <2>2, <3>1 DEF Parted, Receiving, Credentials
    <3> QED BY <2>1, <2>3, <3>1, <3>2 DEF Replaced
  <2> QED BY <2>1, <2>3
<1>5. ASSUME RemoveFile \/ Tidy PROVE Backed'
  <2>1. /\ holder = "revoke" /\ UNCHANGED <<sidecar, pending>> /\ faults' \in {faults, faults + 1}
        /\ file' \in {file, [file EXCEPT !["spend"] = NoKey]}
    BY <1>5 DEF RemoveFile, Tidy, At, Fault
  <2>2. NoKey \notin pending /\ "revoke" \notin Credentials
    BY DEF Keys, NoKey, Credentials
  <2> QED BY <2>1, <2>2
<1>6. ASSUME ~(\E c \in Credentials : Begin(c)), ~WriteSidecar, ~WriteMacaroon, ~Record,
             ~RemoveFile, ~Tidy
      PROVE  Backed'
  <2> SUFFICES ASSUME NEW c \in Credentials, file[c] \in pending
               PROVE  /\ faults' = 0 => holder' = c /\ step' = "recording"
                      /\ faults' = 1 => sidecar[c] = file[c] \/ (holder' = c /\ step' = "writing")
    BY <1>6, Elsewhere
  <2>1. holder = c /\ step = "recording" => sidecar[c] = file[c]
    BY DEF Written
  <2> QED BY <1>6, <2>1, Elsewhere
<1> QED BY <1>1, <1>2, <1>3, <1>4, <1>5, <1>6

(* The three sweeps, each with what it spares.                             *)
LEMMA StepUnharmed ==
  ASSUME TypeOK, Baking, Receiving, Parted, Written, Backed, Unharmed, [Next]_vars
  PROVE  Unharmed'
<1> USE GuardKeysAssumption, TwoCredentials DEF TypeOK, Fault, disk, stored, doing, InBake
<1>1. ASSUME Record PROVE Unharmed'
  <2>1. /\ UNCHANGED <<file, sidecar, faults, holder>> /\ todo' = Replaced \ BakeSpares
        /\ holder \in Credentials /\ step = "recording"
    BY <1>1 DEF Record, SweepsAllBut
  <2>2. file[holder] = new /\ before = current[holder]
    BY <2>1 DEF Written, Baking
  <2>3. ASSUME NEW c \in Credentials, faults <= 1, file[c] \in todo' PROVE FALSE
    <3>1. c # holder /\ file[c] # NoKey /\ file[c] # new
      BY <2>1, <2>2, <2>3 DEF Replaced
    <3>2. file[c] # before
      BY <2>1, <2>2, <3>1 DEF Parted, Receiving, Credentials
    <3>3. file[c] \in pending
      BY <2>1, <2>3, <3>2 DEF Replaced
    <3>4. sidecar[c] = file[c]
      BY <2>1, <2>3, <3>1, <3>3 DEF Backed
    <3>5. ~LacksSidecar(Other(holder))
      BY <2>1, <2>3, <3>1, <3>3 DEF BakeSpares
    <3>6. file[c] \in Named(Credentials)
      BY <3>1, <3>4 DEF Named
    <3> QED BY <2>1, <2>3, <3>5, <3>6 DEF BakeSpares
  <2> QED BY <2>1, <2>3 DEF Unharmed
<1>2. ASSUME NEW k \in Keys, Sweep(k) PROVE Unharmed'
  BY <1>2 DEF Sweep, Unharmed
<1>3. ASSUME SweepOrphans PROVE Unharmed'
  <2>1. /\ UNCHANGED <<file, sidecar, faults>> /\ todo' = pending \ OrphanSpares
        /\ holder = "none"
    BY <1>3 DEF SweepOrphans, SweepsAllBut, Free
  <2>2. ASSUME NEW c \in Credentials, faults <= 1, file[c] \in todo' PROVE FALSE
    <3>1. file[c] \in pending /\ file[c] # NoKey /\ holder # c
      BY <2>1, <2>2 DEF Keys, NoKey, Credentials
    <3>2. sidecar[c] = file[c]
      BY <2>2, <3>1 DEF Backed
    <3>3. file[c] \in Named(Credentials)
      BY <3>1, <3>2 DEF Named
    <3> QED BY <2>1, <2>2, <3>3 DEF OrphanSpares
  <2> QED BY <2>1, <2>2 DEF Unharmed
<1>4. ASSUME Revoke \/ RemoveFile, EndSending PROVE Unharmed'
  <2>1. /\ sidecar' = sidecar /\ faults' \in {faults, faults + 1}
        /\ file'["receive"] = file["receive"]
        /\ todo' = pending \ EndSpares /\ holder' = "revoke" /\ holder \notin Credentials
    BY <1>4 DEF Revoke, RemoveFile, At, EndSending, SweepsAllBut, Free, Credentials
  <2>2. ASSUME faults <= 1, file["receive"] \in todo' PROVE FALSE
    <3>1. file["receive"] \in pending /\ file["receive"] # NoKey
      BY <2>1, <2>2 DEF Keys, NoKey
    <3>2. sidecar["receive"] = file["receive"]
      BY <2>1, <2>2, <3>1 DEF Backed
    <3> QED BY <2>1, <2>2, <3>1, <3>2 DEF EndSpares, Named
  <2>3. faults' <= 1 => faults <= 1
    BY <2>1
  <2> QED BY <2>1, <2>2, <2>3 DEF Unharmed, Credentials
<1>5. ASSUME step' = "sweeping" =>
               UNCHANGED <<file, todo, holder, step>> /\ faults' \in {faults, faults + 1}
      PROVE  Unharmed'
  BY <1>5 DEF Unharmed
<1>6. ASSUME Ask \/ Renew \/ Refused \/ MissSpendKey \/ (\E on \in BOOLEAN : SetLatch(on))
             \/ (\E c \in Credentials : Age(c)) \/ (\E k \in Keys : Drop(k)) \/ UNCHANGED vars
      PROVE  Unharmed'
  BY <1>5, <1>6 DEF Ask, Renew, Refused, MissSpendKey, SetLatch, Age, Drop, vars
<1>7. ASSUME (\E c \in Credentials : Begin(c)) \/ Mint \/ WriteSidecar \/ WriteMacaroon
             \/ Abort \/ Forget \/ DeleteCurrent \/ ClearSpendState \/ Tidy \/ AcceptExternal \/ Restart
      PROVE  Unharmed'
  <2>1. step' = "sweeping" => AcceptExternal
    BY <1>7 DEF Begin, Mint, WriteSidecar, WriteMacaroon, Abort, Forget, DeleteCurrent,
       ClearSpendState, Tidy, Restart, Goto, Release
  <2>2. AcceptExternal => (step' = "sweeping" => UNCHANGED <<file, todo, holder, step>>) /\ faults' = faults
    BY DEF AcceptExternal
  <2> QED BY <1>5, <2>1, <2>2
<1>8. Revoke \/ RemoveFile => EndSending \/ step' # "sweeping"
  BY DEF Revoke, RemoveFile
<1> QED BY <1>1, <1>2, <1>3, <1>4, <1>5, <1>6, <1>7, <1>8 DEF Next, Work, BakeReceive, BakeSpend

(* bake, sweepOrphans, RevokeSpend: no sweep takes the key of a credential *)
(* on disk, the spend credential's when sending ends aside, as long as at  *)
(* most one operation has been cut short.  An installation that an older   *)
(* build left in the middle of a bake is excluded: it starts with a file   *)
(* whose key is pending and which has no sidecar to say so.                *)
THEOREM NoLiveKeyIsTaken ==
  ASSUME "interrupted" \notin Histories
  PROVE  Spec => LiveKeySpared
<1>1. Init => IInv /\ OnDisk
  BY InitIInv, InitOnDisk
<1>2. IInv /\ OnDisk /\ [Next]_vars => IInv' /\ OnDisk'
  BY NextIInv, StepParted, StepWritten, StepBacked, StepUnharmed DEF IInv, OnDisk
<1>3. IInv /\ OnDisk /\ [Next]_vars => [faults <= 1 => ~TakesLiveKey]_vars
  <2> SUFFICES ASSUME IInv, OnDisk, Next, faults <= 1, NEW c \in Credentials,
                      file[c] \in listed, file[c] \notin listed', drops' = drops,
                      ~(c = "spend" /\ holder = "revoke")
               PROVE  FALSE
    BY DEF TakesLiveKey
  <2> USE TwoCredentials DEF IInv, TypeOK
  <2>1. ~(\E k \in Keys : Sweep(k))
    <3> SUFFICES ASSUME NEW k \in Keys, Sweep(k) PROVE FALSE
      OBVIOUS
    <3>1. step = "sweeping" /\ file[c] \in todo
      BY DEF Sweep
    <3> QED BY <3>1 DEF OnDisk, Unharmed
  <2>2. ~DeleteCurrent
    <3> SUFFICES ASSUME DeleteCurrent PROVE FALSE
      OBVIOUS
    <3>1. c = "receive" /\ file["receive"] = current["spend"] /\ file["receive"] # NoKey
      BY DEF DeleteCurrent, At, Credentials, Keys, NoKey
    <3> QED BY <3>1 DEF OnDisk, Parted
  <2>3. ~(\E k \in Keys : Drop(k))
    BY DEF Drop
  <2>4. Work \/ Restart => listed \subseteq listed'
    BY <2>1, <2>2 DEF Work, Mint, WriteSidecar, WriteMacaroon, Record, Abort, Forget, RemoveFile,
       ClearSpendState, Tidy, Restart
  <2>5. ~Work /\ ~Restart => listed' = listed
    BY <2>3 DEF Next, BakeReceive, BakeSpend, Begin, Ask, Renew, Refused, SweepOrphans, Revoke,
       MissSpendKey, AcceptExternal, SetLatch, Age
  <2> QED BY <2>4, <2>5
<1> QED BY <1>1, <1>2, <1>3, PTL DEF Spec, LiveKeySpared
=============================================================================
