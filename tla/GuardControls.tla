---------------------------- MODULE GuardControls ----------------------------
(***************************************************************************)
(* The guard's three operator controls and the code that loosens them.     *)
(*                                                                         *)
(* The server asks over a socket, one goroutine per connection.  To loosen *)
(* a control it first asks for an authorisation: the guard writes a code   *)
(* into a file only the operator can read and keeps the grant in its state *)
(* file.  ApplyChange redeems the code in one state write and makes the    *)
(* change in a second one; it holds bakeMu, which requests and the sweep   *)
(* of expired grants do not take.  Every closure under the state store's   *)
(* lock is one action; what a failed save, or a crash in the middle of the *)
(* closure, leaves behind is an outcome of that action.                    *)
(***************************************************************************)
EXTENDS Integers

CONSTANTS
  Connections,    \* goroutines serving the socket
  Caps,           \* values the two limits may take
  MaxAttempts,    \* wrong codes that end a grant
  MaxCodes,       \* bound: codes issued
  MaxFaults       \* bound: failed writes and crashes

ASSUME GuardControlsAssumption ==
  /\ Caps \subseteq Nat /\ Caps # {}
  /\ MaxAttempts \in Nat \ {0} /\ MaxCodes \in Nat /\ MaxFaults \in Nat

Controls == {"sending", "spend_cap", "payment_cap"}

(* Sending is a number too: 1 is on.                                       *)
Changes ==
  [control : {"sending"}, value : {0, 1}] \cup
  [control : {"spend_cap", "payment_cap"}, value : Caps]

Codes == 1..MaxCodes
WrongCode == 0

NoGrant == [code |-> 0]
Grants == [code : Codes, change : Changes, attempts : 0..MaxAttempts - 1,
           expired : BOOLEAN]

VARIABLES
  controls,   \* the state file's SendingLatch, MaxSpendMsat, MaxPaymentMsat
  grant,      \* its Authorisation
  file,       \* the code in authorisation.txt; 0 is no file
  issued,     \* how many codes there have been
  conn,       \* what each connection's request is doing
  apply,      \* the one ApplyChange inside bakeMu
  faults

vars == <<controls, grant, file, issued, conn, apply, faults>>

NoChange == [control |-> "none"]
IdleConn == [stage |-> "idle", change |-> NoChange, passes |-> FALSE]
IdleApply == [stage |-> "idle", change |-> NoChange, code |-> 0]

(* config.LoadGuard checks the pair it seeds.                              *)
PairOK(c) == c["payment_cap"] <= c["spend_cap"]

Init ==
  /\ controls \in [Controls -> Caps \cup {0, 1}]
  /\ controls["sending"] = 0 /\ PairOK(controls)
  /\ {controls["spend_cap"], controls["payment_cap"]} \subseteq Caps
  /\ grant = NoGrant /\ file = 0 /\ issued = 0
  /\ conn = [r \in Connections |-> IdleConn]
  /\ apply = IdleApply
  /\ faults = 0

-----------------------------------------------------------------------------
Fault == faults < MaxFaults /\ faults' = faults + 1

Loosens(ch) == ch.value > controls[ch.control]

AlreadyHas(ch) == ch.value = controls[ch.control]

With(ch) == [controls EXCEPT ![ch.control] = ch.value]

(* checkCapPair: only a change of a limit is looked at.                    *)
ChecksTheRaiseOnly(ch) == ch.control = "payment_cap" => PairOK(With(ch))

CapPairOK(ch) == ch.control # "sending" => PairOK(With(ch))

Passes(ch) == Loosens(ch) /\ CapPairOK(ch)

HasExpired == grant # NoGrant /\ grant.expired

(* clearAuthorisationFile: a file that cannot be removed stays.            *)
ClearFile ==
  \/ file' = 0 /\ UNCHANGED faults
  \/ Fault /\ UNCHANGED file

(* The file goes, the save fails: the grant is still there.                *)
ClearedInVain == file' = 0 /\ Fault /\ UNCHANGED grant

-----------------------------------------------------------------------------
Set(r, stage, ch, passes) ==
  conn' = [conn EXCEPT ![r] = [stage |-> stage, change |-> ch, passes |-> passes]]

(* RequestAuthorisation decides on the state it loaded, unless it has to   *)
(* sweep first.                                                            *)
RequestAuthorisation(r, ch) ==
  /\ conn[r].stage = "idle"
  /\ \/ HasExpired /\ Set(r, "sweeping", ch, Passes(ch))
     \/ ~HasExpired /\ Passes(ch) /\ Set(r, "issuing", ch, TRUE)
  /\ UNCHANGED <<controls, grant, file, issued, apply, faults>>

(* Status, which the pages poll, sweeps too.                               *)
Poll(r) ==
  /\ conn[r].stage = "idle" /\ HasExpired
  /\ Set(r, "sweeping", NoChange, FALSE)
  /\ UNCHANGED <<controls, grant, file, issued, apply, faults>>

Decide(r, passes) ==
  IF passes THEN Set(r, "issuing", conn[r].change, TRUE)
  ELSE conn' = [conn EXCEPT ![r] = IdleConn]

(* sweepExpired looks again under the lock: by now the grant may be gone   *)
(* or another one.  A sweep that clears nothing hands back the state it    *)
(* was given.                                                              *)
StillExpired == HasExpired

RemovesTheFileAnyway == file' = 0 /\ UNCHANGED <<grant, faults>>

NothingToSweep == UNCHANGED <<grant, file, faults>>

SweepExpired(r) ==
  /\ conn[r].stage = "sweeping"
  /\ \/ /\ StillExpired /\ grant' = NoGrant /\ ClearFile
        /\ Decide(r, conn[r].change # NoChange /\ Passes(conn[r].change))
     \/ StillExpired /\ ClearedInVain /\ Decide(r, conn[r].passes)
     \/ ~StillExpired /\ NothingToSweep /\ Decide(r, conn[r].passes)
  /\ UNCHANGED <<controls, issued, apply>>

(* The file first, then the state, under one lock.                         *)
Issue(r) ==
  /\ conn[r].stage = "issuing" /\ issued < MaxCodes
  /\ issued' = issued + 1
  /\ conn' = [conn EXCEPT ![r] = IdleConn]
  /\ \/ /\ file' = issued + 1
        /\ grant' = [code |-> issued + 1, change |-> conn[r].change,
                     attempts |-> 0, expired |-> FALSE]
        /\ UNCHANGED faults
     \/ Fault /\ UNCHANGED grant /\ file' \in {file, issued + 1}
  /\ UNCHANGED <<controls, apply>>

(* authorisationTTL passes.                                                *)
Expire ==
  /\ grant # NoGrant /\ ~grant.expired
  /\ grant' = [grant EXCEPT !.expired = TRUE]
  /\ UNCHANGED <<controls, file, issued, conn, apply, faults>>

-----------------------------------------------------------------------------
(* ApplyChange, up to the load it decides on.                              *)
ApplyChange(ch, code) ==
  /\ apply.stage = "idle" /\ ~AlreadyHas(ch) /\ CapPairOK(ch)
  /\ apply' = IF Loosens(ch)
              THEN [stage |-> "redeeming", change |-> ch, code |-> code]
              ELSE [stage |-> "committing", change |-> ch, code |-> 0]
  /\ UNCHANGED <<controls, grant, file, issued, conn, faults>>

(* redeem judges the grant that is stored now.                             *)
IgnoresTheValue ==
  /\ grant # NoGrant /\ ~grant.expired
  /\ grant.change.control = apply.change.control /\ grant.code = apply.code

Honours ==
  /\ grant # NoGrant /\ ~grant.expired
  /\ grant.change = apply.change /\ grant.code = apply.code

Mistyped ==
  /\ grant # NoGrant /\ ~grant.expired
  /\ grant.change = apply.change /\ grant.code # apply.code

SurvivesTheLast == Mistyped /\ grant.attempts < MaxAttempts

Survives == Mistyped /\ grant.attempts + 1 < MaxAttempts

Redeem ==
  /\ apply.stage = "redeeming"
  /\ \/ /\ Honours /\ grant' = NoGrant /\ ClearFile
        /\ apply' = [apply EXCEPT !.stage = "committing"]
     \/ /\ Survives /\ UNCHANGED file /\ apply' = IdleApply
        /\ \/ grant' = [grant EXCEPT !.attempts = @ + 1] /\ UNCHANGED faults
           \/ Fault /\ UNCHANGED grant
     \/ /\ grant # NoGrant /\ ~Honours /\ ~Survives
        /\ grant' = NoGrant /\ ClearFile /\ apply' = IdleApply
     \/ grant # NoGrant /\ ~Survives /\ ClearedInVain /\ apply' = IdleApply
     \/ grant = NoGrant /\ UNCHANGED <<grant, file, faults>> /\ apply' = IdleApply
  /\ UNCHANGED <<controls, issued, conn>>

(* The second write: a crash in between costs the operator one ceremony.   *)
CommitChange ==
  /\ apply.stage = "committing"
  /\ \/ controls' = With(apply.change) /\ UNCHANGED faults
     \/ Fault /\ UNCHANGED controls
  /\ apply' = IdleApply
  /\ UNCHANGED <<grant, file, issued, conn>>

(* clearSpendState, under bakeMu: revoking the credential drops the latch. *)
RevokeSpend ==
  /\ apply.stage = "idle" /\ controls["sending"] = 1
  /\ controls' = [controls EXCEPT !["sending"] = 0]
  /\ UNCHANGED <<grant, file, issued, conn, apply, faults>>

Restart ==
  /\ Fault
  /\ conn' = [r \in Connections |-> IdleConn] /\ apply' = IdleApply
  /\ UNCHANGED <<controls, grant, file, issued>>

Next ==
  \/ \E r \in Connections :
       \/ \E ch \in Changes : RequestAuthorisation(r, ch)
       \/ Poll(r) \/ SweepExpired(r) \/ Issue(r)
  \/ Expire
  \/ \E ch \in Changes, code \in {WrongCode} \cup 1..issued : ApplyChange(ch, code)
  \/ Redeem \/ CommitChange \/ RevokeSpend \/ Restart

Spec == Init /\ [][Next]_vars

-----------------------------------------------------------------------------
(***************************************************************************)
(* What must hold.                                                         *)
(***************************************************************************)
TypeOK ==
  /\ controls \in [Controls -> Nat] /\ controls["sending"] \in {0, 1}
  /\ {controls["spend_cap"], controls["payment_cap"]} \subseteq Caps
  /\ grant \in Grants \cup {NoGrant}
  /\ issued \in 0..MaxCodes /\ file \in 0..issued
  /\ conn \in [Connections ->
       [stage : {"idle", "sweeping", "issuing"}, change : Changes \cup {NoChange},
        passes : BOOLEAN]]
  /\ apply \in [stage : {"idle", "redeeming", "committing"},
                change : Changes \cup {NoChange}, code : 0..MaxCodes]
  /\ faults \in 0..MaxFaults

(* checkCapPair, made where a change is applied and again where it is      *)
(* asked for: however requests, redemptions and tightenings interleave,    *)
(* the stored per-payment limit can be reached.                            *)
CapPairHolds == PairOK(controls)

(* writeAuthorisationFile and clearAuthorisationFile run under the state   *)
(* store's lock: as long as nothing fails, the file shows the code of the  *)
(* stored grant and there is none without a grant, however two requests,   *)
(* a sweep and a redemption interleave.                                    *)
FileNamesTheGrant == faults = 0 => file = grant.code

(* redeem's note on the order of the two: a crash leaves a file with no    *)
(* grant behind it, never a live grant whose code nobody can read.         *)
GrantIsReadable == grant # NoGrant /\ ~grant.expired => file = grant.code

(* sweepExpired and replaceAuthorisation: a sweep that began on a snapshot  *)
(* never ends the live grant that has replaced the expired one; only a     *)
(* redemption ends a live grant without another taking its place.          *)
LiveGrantNotSwept ==
  [][grant # NoGrant /\ ~grant.expired /\ grant' = NoGrant
       => apply.stage = "redeeming" /\ apply' # apply]_vars

(* A loosening takes an unexpired code issued for exactly that change,     *)
(* each code serves once, and a superseded one stays dead.                 *)
OpenPermit ==
  IF grant = NoGrant THEN NoGrant
  ELSE [code |-> grant.code, change |-> grant.change, expired |-> grant.expired]

TakenPermit ==
  IF apply.stage = "committing" /\ apply.code # 0
  THEN [code |-> apply.code, change |-> apply.change, expired |-> FALSE]
  ELSE NoGrant

C == INSTANCE Ceremony WITH
       Values <- Caps \cup {0, 1}, open <- OpenPermit, taken <- TakenPermit,
       used <- 1..issued

KeepsItsCeremony == C!Spec
=============================================================================
