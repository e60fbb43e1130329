----------------------------- MODULE GuardKeys -----------------------------
(***************************************************************************)
(* The guard's two credentials and the root keys behind them.              *)
(*                                                                         *)
(* A credential is a macaroon file in a volume the server reads, with a    *)
(* sidecar that names the root key it was baked under; the node honours    *)
(* the file as long as it lists that key.  The guard's own state file      *)
(* records the current key of each credential and the pending keys: keys   *)
(* it asked the node to make, or replaced, whose fate is not settled.      *)
(* bake, RevokeSpend, acceptExternalRevocation, sweepOrphans and           *)
(* ApplyChange hold one mutex (bakeMu); BakeSpend and the hourly renewal   *)
(* read the operator's latch before they take it.                          *)
(*                                                                         *)
(* A key is a number, in the order of minting; 0 is no key, as in the      *)
(* code.  Every write of the state file is atomic (stateStore.update).     *)
(***************************************************************************)
EXTENDS Integers

CONSTANTS
  MaxKeys,      \* bound: keys minted
  MaxFaults,    \* bound: crashes, failed writes, refused calls
  MaxDrops,     \* bound: keys deleted at the node by its owner
  Histories     \* what was installed before: "fresh", "upgraded", "interrupted"

ASSUME GuardKeysAssumption ==
  /\ MaxKeys \in Nat \ {0, 1, 2} /\ MaxFaults \in Nat /\ MaxDrops \in Nat
  /\ Histories \subseteq {"fresh", "upgraded", "interrupted"}

NoKey == 0
Keys == 1..MaxKeys
Credentials == {"receive", "spend"}
Other(c) == CHOOSE d \in Credentials : d # c

VARIABLES
  listed,     \* the keys the node lists: it honours what was baked under them
  file,       \* [Credentials -> key], the key of the macaroon on disk
  sidecar,    \* [Credentials -> key], what the file beside it says
  bare,       \* the spend macaroon predates the guard's caveat
  current,    \* [Credentials -> key], recorded in the state file
  pending,    \* the state file's PendingRootKeyIDs
  latch,      \* SendingLatch: the operator allows sending
  fresh,      \* credentials baked within MinBakeInterval
  holder,     \* what holds bakeMu: "none", a credential, "revoke", "sweep"
  step,       \* where it is
  new,        \* the key being baked under
  before,     \* the key recorded when the operation began
  todo,       \* a sweep: keys still to delete
  spared,     \* ... keys it leaves alone
  refused,    \* ... keys the node would not delete
  gated,      \* who has passed the latch: "none", "asked", "renewal"
  forgotten,  \* the spend key the renewal did not find at the node
  minted,     \* how many keys there have been
  spendable,  \* history: keys minted with SpendPermissions
  drops, faults

disk == <<file, sidecar, bare>>
stored == <<current, pending, latch, fresh>>
doing == <<holder, step, new, before, todo, spared, refused>>
asked == <<gated, forgotten>>
vars == <<listed, disk, stored, doing, asked, minted, spendable, drops, faults>>

Nothing == [c \in Credentials |-> NoKey]

-----------------------------------------------------------------------------
(* An older build wrote no sidecars and no guard caveat; one that died     *)
(* between the macaroon and the state ("interrupted") left the key of the  *)
(* file pending.                                                           *)
Fresh ==
  /\ file = Nothing /\ current = Nothing /\ pending = {}
  /\ listed = {} /\ minted = 0 /\ spendable = {} /\ latch = FALSE
  /\ bare = FALSE /\ faults = 0

Upgraded ==
  /\ file = [receive |-> 1, spend |-> 2] /\ current = file /\ pending = {}
  /\ listed = {1, 2} /\ minted = 2 /\ spendable = {2} /\ latch = TRUE
  /\ bare \in BOOLEAN /\ faults = 0

Interrupted ==
  /\ listed = {1, 2, 3} /\ minted = 3 /\ latch = TRUE /\ bare = FALSE
  /\ faults = 1
  /\ \E c \in Credentials :
       /\ current = [d \in Credentials |-> IF d = "receive" THEN 1 ELSE 2]
       /\ file = [current EXCEPT ![c] = 3]
       /\ pending = {3}
       /\ spendable = IF c = "spend" THEN {2, 3} ELSE {2}

Init ==
  /\ \/ "fresh" \in Histories /\ Fresh
     \/ "upgraded" \in Histories /\ Upgraded
     \/ "interrupted" \in Histories /\ Interrupted
  /\ sidecar = Nothing /\ fresh = {}
  /\ holder = "none" /\ step = "none" /\ new = NoKey /\ before = NoKey
  /\ todo = {} /\ spared = {} /\ refused = {}
  /\ gated = "none" /\ forgotten = NoKey
  /\ drops = 0

-----------------------------------------------------------------------------
Free == holder = "none"

Release ==
  /\ holder' = "none" /\ step' = "none" /\ new' = NoKey /\ before' = NoKey
  /\ todo' = {} /\ spared' = {} /\ refused' = {}

At(h, s) == holder = h /\ step = s

Goto(s) ==
  step' = s /\ UNCHANGED <<holder, new, before, todo, spared, refused>>

(* sweepPending takes its ids, but for those it is told to spare.          *)
SweepsAllBut(ids, spare) ==
  /\ todo' = ids \ spare /\ spared' = ids \cap spare /\ refused' = {}
  /\ step' = "sweeping"

Fault == faults < MaxFaults /\ faults' = faults + 1

(* sidecarOf: a sidecar counts only beside a macaroon.                     *)
Named(C) == {sidecar[c] : c \in {d \in C : file[d] # NoKey}} \ {NoKey}

LacksSidecar(c) == file[c] # NoKey /\ sidecar[c] = NoKey

(* credentialNeedsBaking, but for the expiry: a file that expires was not  *)
(* baked within MinBakeInterval.                                           *)
Conforms(c) ==
  file[c] # NoKey /\ current[c] # NoKey /\ (c = "spend" => ~bare)

(* wouldRepeatItself: the same caveats again, while the node still honours *)
(* the key (or cannot be asked: a fault).                                  *)
Repeats(c) == c \in fresh /\ Conforms(c) /\ current[c] \in listed

-----------------------------------------------------------------------------
(* bake.  The new key is recorded before the node is asked for it.         *)
Begin(c) ==
  /\ Free /\ ~Repeats(c) /\ minted < MaxKeys
  /\ holder' = c /\ step' = "minting"
  /\ new' = minted + 1 /\ minted' = minted + 1
  /\ before' = current[c]
  /\ pending' = pending \cup {new'}
  /\ spendable' = IF c = "spend" THEN spendable \cup {new'} ELSE spendable
  /\ UNCHANGED <<listed, disk, current, latch, fresh, todo, spared, refused,
                 forgotten, drops, faults>>

(* BakeReceive, and the renewal of the receive credential.                 *)
BakeReceive == Begin("receive") /\ UNCHANGED gated

(* BakeSpend reads the latch without the mutex.                           *)
Ask ==
  /\ latch /\ gated = "none"
  /\ gated' = "asked"
  /\ UNCHANGED <<listed, disk, stored, doing, forgotten, minted, spendable,
                 drops, faults>>

(* So does EnsureSpendMacaroon: the macaroon is obsolete, or sending is    *)
(* enabled, the node lists its key, and it is gone or about to expire.     *)
Renew ==
  /\ latch /\ gated = "none"
  /\ bare \/ (current["spend"] \in listed /\ ~("spend" \in fresh /\ Conforms("spend")))
  /\ gated' = "renewal"
  /\ UNCHANGED <<listed, disk, stored, doing, forgotten, minted, spendable,
                 drops, faults>>

BakeSpend == gated # "none" /\ Begin("spend") /\ gated' = "none"

(* bake refuses itself, or the node cannot be asked for a free key.        *)
Refused ==
  /\ gated # "none" /\ Free /\ gated' = "none"
  /\ \/ Repeats("spend") /\ UNCHANGED faults
     \/ Fault
  /\ UNCHANGED <<listed, disk, stored, doing, forgotten, minted, spendable, drops>>

Mint ==
  /\ holder \in Credentials /\ step = "minting"
  /\ listed' = listed \cup {new}
  /\ Goto("naming")
  /\ UNCHANGED <<disk, stored, asked, minted, spendable, drops, faults>>

(* The sidecar first, then the macaroon.                                   *)
WriteSidecar ==
  /\ holder \in Credentials /\ step = "naming"
  /\ sidecar' = [sidecar EXCEPT ![holder] = new]
  /\ Goto("writing")
  /\ UNCHANGED <<listed, file, bare, stored, asked, minted, spendable, drops, faults>>

WriteMacaroon ==
  /\ holder \in Credentials /\ step = "writing"
  /\ file' = [file EXCEPT ![holder] = new]
  /\ bare' = (bare /\ holder # "spend")
  /\ Goto("recording")
  /\ UNCHANGED <<listed, sidecar, stored, asked, minted, spendable, drops, faults>>

(* One state write records the new key and makes the old one pending.      *)
ForgetsThePrevious == pending \ {new}

KeepsZero == (pending \cup {before}) \ {new}

Replaced == (pending \cup {before}) \ {new, NoKey}

(* What the sweep at the end of a bake leaves alone: what a sidecar names, *)
(* and everything but the superseded key while the other credential has no *)
(* sidecar to tell.                                                        *)
BakeSpares ==
  IF LacksSidecar(Other(holder)) THEN pending \ {new} ELSE Named(Credentials)

Record ==
  /\ holder \in Credentials /\ step = "recording"
  /\ current' = [current EXCEPT ![holder] = new]
  /\ fresh' = fresh \cup {holder}
  /\ pending' = Replaced
  /\ SweepsAllBut(Replaced, BakeSpares)
  /\ UNCHANGED <<listed, disk, latch, holder, new, before, asked, minted,
                 spendable, drops, faults>>

(* A step of a bake fails and the bake returns: the node refuses or makes  *)
(* the key and loses the answer, a caveat does not verify, a write fails.  *)
Abort ==
  /\ holder \in Credentials /\ step \in {"minting", "naming", "writing", "recording"}
  /\ Fault /\ Release
  /\ \/ step = "minting" /\ listed' = listed \cup {new}
     \/ UNCHANGED listed
  /\ UNCHANGED <<disk, stored, asked, minted, spendable, drops>>

(* sweepPending and revokePrevious: one key after the other; a key the     *)
(* node would not delete stays.                                            *)
Sweep(k) ==
  /\ step = "sweeping" /\ k \in todo
  /\ todo' = todo \ {k}
  /\ \/ listed' = listed \ {k} /\ UNCHANGED <<refused, faults>>
     \/ refused' = refused \cup {k} /\ Fault /\ UNCHANGED listed
  /\ UNCHANGED <<disk, stored, holder, step, new, before, spared, asked, minted,
                 spendable, drops>>

(* The ids that are gone are forgotten, in one write that may fail.        *)
ForgetsTheRefused == pending \cap spared

Settled == pending \cap (spared \cup refused)

Forget ==
  /\ holder \in Credentials \cup {"sweep"} /\ step = "sweeping" /\ todo = {}
  /\ \/ pending' = Settled /\ UNCHANGED faults
     \/ UNCHANGED pending /\ Fault
  /\ Release
  /\ UNCHANGED <<listed, disk, current, latch, fresh, asked, minted, spendable, drops>>

-----------------------------------------------------------------------------
(* sweepOrphans, hourly.                                                   *)
SparesOnlyTheRecorded == {current[c] : c \in Credentials}

OrphanSpares == Named(Credentials) \cup {current[c] : c \in Credentials}

SweepOrphans ==
  /\ Free /\ pending # {}
  /\ \A c \in Credentials : ~LacksSidecar(c)
  /\ holder' = "sweep" /\ SweepsAllBut(pending, OrphanSpares)
  /\ UNCHANGED <<listed, disk, stored, new, before, asked, minted, spendable,
                 drops, faults>>

(* sweepAndForgetSpend: ending sending takes every pending key with it but *)
(* the one the receive credential's sidecar names.                         *)
SparesEverySidecar == Named(Credentials)

EndSpares == Named({"receive"})

EndSending == holder' = "revoke" /\ SweepsAllBut(pending, EndSpares)

(* RevokeSpend: the node first, then the file, then the state.             *)
Revoke ==
  /\ Free /\ before' = current["spend"] /\ new' = NoKey
  /\ \/ current["spend"] = NoKey /\ EndSending
     \/ /\ current["spend"] # NoKey
        /\ holder' = "revoke" /\ step' = "deleting"
        /\ UNCHANGED <<todo, spared, refused>>
  /\ UNCHANGED <<listed, disk, stored, asked, minted, spendable, drops, faults>>

DeleteCurrent ==
  /\ At("revoke", "deleting")
  /\ \/ listed' = listed \ {current["spend"]} /\ Goto("removing") /\ UNCHANGED faults
     \/ Fault /\ Release /\ UNCHANGED listed
  /\ UNCHANGED <<disk, stored, asked, minted, spendable, drops>>

RemoveFile ==
  /\ At("revoke", "removing")
  /\ \/ file' = [file EXCEPT !["spend"] = NoKey] /\ UNCHANGED faults
     \/ Fault /\ UNCHANGED file
  /\ bare' = (bare /\ file'["spend"] # NoKey)
  /\ EndSending /\ UNCHANGED <<new, before>>
  /\ UNCHANGED <<listed, sidecar, stored, asked, minted, spendable, drops>>

(* clearSpendState: the latch goes with the credential.                    *)
ClearSpendState ==
  /\ At("revoke", "sweeping") /\ todo = {}
  /\ \/ /\ current' = [current EXCEPT !["spend"] = NoKey]
        /\ pending' = Settled /\ latch' = FALSE /\ fresh' = fresh \ {"spend"}
        /\ UNCHANGED faults
        /\ IF before = NoKey /\ file["spend"] # NoKey THEN Goto("tidying") ELSE Release
     \/ Fault /\ Release /\ UNCHANGED stored
  /\ UNCHANGED <<listed, disk, asked, minted, spendable, drops>>

(* Nothing was recorded, but there is a file the server can reach.         *)
Tidy ==
  /\ At("revoke", "tidying")
  /\ \/ file' = [file EXCEPT !["spend"] = NoKey] /\ UNCHANGED faults
     \/ Fault /\ UNCHANGED file
  /\ bare' = (bare /\ file'["spend"] # NoKey)
  /\ Release
  /\ UNCHANGED <<listed, sidecar, stored, asked, minted, spendable, drops>>

(* nodeForgotSpendKey asks without the mutex; acceptExternalRevocation     *)
(* looks again under it.                                                   *)
MissSpendKey ==
  /\ latch /\ current["spend"] # NoKey /\ current["spend"] \notin listed
  /\ forgotten = NoKey /\ ~bare
  /\ forgotten' = current["spend"]
  /\ UNCHANGED <<listed, disk, stored, doing, gated, minted, spendable, drops, faults>>

StillForgotten == current["spend"] = forgotten

AcceptExternal ==
  /\ Free /\ forgotten # NoKey
  /\ forgotten' = NoKey
  /\ IF StillForgotten
     THEN /\ holder' = "revoke" /\ step' = "removing"
          /\ before' = current["spend"] /\ UNCHANGED <<new, todo, spared, refused>>
     ELSE UNCHANGED doing
  /\ UNCHANGED <<listed, disk, stored, gated, minted, spendable, drops, faults>>

(* ApplyChange of the sending control; turning it on takes the operator's  *)
(* code.                                                                   *)
SetLatch(on) ==
  /\ Free /\ latch # on
  /\ latch' = on
  /\ UNCHANGED <<listed, disk, current, pending, fresh, doing, asked, minted,
                 spendable, drops, faults>>

(* MinBakeInterval passes.                                                 *)
Age(c) ==
  /\ c \in fresh /\ fresh' = fresh \ {c}
  /\ UNCHANGED <<listed, disk, current, pending, latch, doing, asked, minted,
                 spendable, drops, faults>>

(* Killed at any point: memory goes, files and node stay.                  *)
Restart ==
  /\ ~Free \/ gated # "none" \/ forgotten # NoKey
  /\ Fault /\ Release
  /\ gated' = "none" /\ forgotten' = NoKey
  /\ \/ holder \in Credentials /\ step = "minting" /\ listed' = listed \cup {new}
     \/ UNCHANGED listed
  /\ UNCHANGED <<disk, stored, minted, spendable, drops>>

(* The node's owner deletes one of the guard's keys.                       *)
Drop(k) ==
  /\ drops < MaxDrops /\ k \in listed
  /\ listed' = listed \ {k} /\ drops' = drops + 1
  /\ UNCHANGED <<disk, stored, doing, asked, minted, spendable, faults>>

-----------------------------------------------------------------------------
Work ==
  \/ Mint \/ WriteSidecar \/ WriteMacaroon \/ Record \/ Abort
  \/ \E k \in Keys : Sweep(k)
  \/ Forget \/ DeleteCurrent \/ RemoveFile \/ ClearSpendState \/ Tidy

Next ==
  \/ BakeReceive \/ Ask \/ Renew \/ BakeSpend \/ Refused
  \/ Work
  \/ SweepOrphans \/ Revoke \/ MissSpendKey \/ AcceptExternal
  \/ \E on \in BOOLEAN : SetLatch(on)
  \/ \E c \in Credentials : Age(c)
  \/ Restart
  \/ \E k \in Keys : Drop(k)

(* Whoever holds the mutex goes on or gives up, and the hourly sweep gets  *)
(* it in the end.                                                          *)
Spec == Init /\ [][Next]_vars /\ WF_vars(Work) /\ SF_vars(SweepOrphans)

-----------------------------------------------------------------------------
(***************************************************************************)
(* What must hold.                                                         *)
(***************************************************************************)
TypeOK ==
  /\ listed \subseteq Keys /\ spendable \subseteq Keys /\ minted \in 0..MaxKeys
  /\ file \in [Credentials -> Keys \cup {NoKey}]
  /\ sidecar \in [Credentials -> Keys \cup {NoKey}]
  /\ current \in [Credentials -> Keys \cup {NoKey}]
  /\ pending \subseteq Keys
  /\ todo \subseteq Keys /\ spared \subseteq Keys /\ refused \subseteq Keys
  /\ bare \in BOOLEAN /\ latch \in BOOLEAN /\ gated \in {"none", "asked", "renewal"}
  /\ fresh \subseteq Credentials
  /\ holder \in Credentials \cup {"none", "revoke", "sweep"}
  /\ step \in {"none", "minting", "naming", "writing", "recording", "sweeping",
               "deleting", "removing", "tidying"}
  /\ new \in Keys \cup {NoKey} /\ before \in Keys \cup {NoKey}
  /\ forgotten \in Keys \cup {NoKey}
  /\ drops \in 0..MaxDrops /\ faults \in Nat

(* bake: record before mint, so nothing is forgotten.  Whatever fails and  *)
(* whenever the guard dies, each of its keys the node still honours is in  *)
(* the state file, where a later sweep or the kill switch finds it.        *)
NothingForgotten ==
  \A k \in listed : k \in pending \/ \E c \in Credentials : current[c] = k

(* The sidecar's purpose (bake, sweepOrphans): no sweep takes the key of a *)
(* credential that is on disk, the spend credential's when sending ends    *)
(* aside, for as long as at most one operation has been cut short.         *)
TakesLiveKey ==
  \E c \in Credentials :
    /\ file[c] \in listed /\ file[c] \notin listed' /\ drops' = drops
    /\ ~(c = "spend" /\ holder = "revoke")

LiveKeySpared == [][faults <= 1 => ~TakesLiveKey]_vars

(* The same however often operations are cut short and whatever an older   *)
(* build left behind.                                                      *)
LiveKeyAlwaysSpared == [][~TakesLiveKey]_vars

(* RevokeSpend: when sending has ended, the node honours none of the spend *)
(* keys there have ever been but those it refused to delete.               *)
SendingEnds ==
  holder = "revoke" /\ step = "sweeping" /\ step' # "sweeping" /\ faults' = faults

KillSwitchIsComplete == [][SendingEnds => listed \cap spendable \subseteq refused]_vars

(* EnsureSpendMacaroon: revoked must stay revoked, and an explicit request *)
(* is the only thing that turns sending back on; the renewal bakes a spend *)
(* credential only while sending is enabled.                               *)
StartsRenewal == gated = "renewal" /\ holder = "none" /\ holder' = "spend"

RevokedStaysRevoked == [][StartsRenewal => current["spend"] # NoKey \/ bare]_vars

(* sweepOrphans: a key no credential on disk depends on is taken from the  *)
(* node with nobody present, unless a credential without a sidecar waits   *)
(* for its next bake.                                                      *)
Orphan(k) ==
  k \in pending \cap listed /\ k # new /\ k \notin Named(Credentials)

OrphansAreRevoked ==
  \A k \in Keys :
    Orphan(k) ~> (k \notin listed \/ \E c \in Credentials : LacksSidecar(c))
=============================================================================
