----------------------------- MODULE GuardProofs -----------------------------
(***************************************************************************)
(* What holds of the guard's controls (GuardControls) for any number of    *)
(* connections, any limits, any number of codes and any number of failed   *)
(* writes and crashes, and of its spend cap (GuardSpendCap) for any number *)
(* of calls, any figures in them and any number of restarts.               *)
(*                                                                         *)
(* ApplyChange decides on a state it loads and writes in a later step.     *)
(* Nothing it decided on can change in between, because every other writer *)
(* of a control waits for the same mutex; Decided says what it still knows *)
(* when it writes, and with it both the pair of limits and the ceremony    *)
(* follow.                                                                 *)
(*                                                                         *)
(* The spend cap rests on Recorded: whatever may still be spent has its    *)
(* own record.  Numbered and Registered say why ObserveResponse finds no   *)
(* other call's record, though the node's request ids repeat.              *)
(***************************************************************************)
EXTENDS GuardControls, GuardSpendCap, FiniteSums, TLAPS

-----------------------------------------------------------------------------
(***************************************************************************)
(* The controls and their codes.                                           *)
(***************************************************************************)

(* A connection that goes on to issue a code has a change to issue it for. *)
Asked ==
  \A r \in Connections :
    /\ conn[r].passes => conn[r].change \in Changes
    /\ conn[r].stage = "issuing" => conn[r].change \in Changes

(* What the ApplyChange in progress may rely on.                           *)
Decided ==
  apply.stage # "idle" =>
    /\ apply.change \in Changes /\ CapPairOK(apply.change)
    /\ apply.stage = "redeeming" \/ apply.code = 0 =>
         IF apply.stage = "redeeming" THEN Loosens(apply.change)
         ELSE apply.change.value < controls[apply.change.control]

IInv == TypeOK /\ CapPairHolds /\ Asked /\ Decided

-----------------------------------------------------------------------------
LEMMA ChangeTypes ==
  ASSUME NEW ch \in Changes
  PROVE  /\ ch.control \in Controls /\ ch.value \in Nat
         /\ ch.control = "sending" => ch.value \in {0, 1}
         /\ ch.control # "sending" => ch.value \in Caps
<1>1. CASE ch \in [control : {"sending"}, value : {0, 1}]
  BY <1>1 DEF Controls
<1>2. CASE ch \in [control : {"spend_cap", "payment_cap"}, value : Caps]
  <2>1. ch.control \in {"spend_cap", "payment_cap"} /\ ch.value \in Caps
    BY <1>2
  <2> QED BY <2>1, GuardControlsAssumption DEF Controls
<1> QED BY <1>1, <1>2 DEF Changes

(* Applying a change keeps the controls well typed, and a change of        *)
(* sending leaves the limits alone.                                        *)
LEMMA WithTypes ==
  ASSUME TypeOK, CapPairHolds, NEW ch \in Changes, CapPairOK(ch)
  PROVE  /\ With(ch) \in [Controls -> Nat] /\ With(ch)["sending"] \in {0, 1}
         /\ {With(ch)["spend_cap"], With(ch)["payment_cap"]} \subseteq Caps
         /\ PairOK(With(ch))
<1>1. ch.control \in Controls /\ ch.value \in Nat
  BY ChangeTypes
<1>2. With(ch) \in [Controls -> Nat]
  BY <1>1 DEF TypeOK, With
<1>3. CASE ch.control = "sending"
  BY <1>1, <1>2, <1>3, ChangeTypes DEF TypeOK, With, Controls, CapPairHolds, PairOK
<1>4. CASE ch.control # "sending"
  <2>1. ch.value \in Caps /\ ch.control \in {"spend_cap", "payment_cap"}
    BY <1>1, <1>4, ChangeTypes DEF Controls
  <2> QED BY <2>1, <1>1, <1>2, <1>4 DEF TypeOK, With, Controls, CapPairOK
<1> QED BY <1>3, <1>4

LEMMA InitIInv == Init => IInv
<1> SUFFICES ASSUME Init PROVE IInv
  OBVIOUS
<1>1. TypeOK
  <2>1. controls \in [Controls -> Nat]
    <3>1. Caps \cup {0, 1} \subseteq Nat
      BY GuardControlsAssumption
    <3> QED BY <3>1 DEF Init
  <2>2. /\ apply \in [stage : {"idle", "redeeming", "committing"},
                      change : Changes \cup {NoChange}, code : 0..MaxCodes]
        /\ issued \in 0..MaxCodes /\ faults \in 0..MaxFaults /\ file \in 0..issued
    BY GuardControlsAssumption DEF Init, IdleApply
  <2>3. conn \in [Connections ->
          [stage : {"idle", "sweeping", "issuing"}, change : Changes \cup {NoChange},
           passes : BOOLEAN]]
    BY DEF Init, IdleConn
  <2> QED BY <2>1, <2>2, <2>3 DEF Init, TypeOK
<1>2. CapPairHolds /\ Asked /\ Decided
  BY DEF Init, CapPairHolds, Asked, Decided, IdleConn, IdleApply
<1> QED BY <1>1, <1>2 DEF IInv

(* A connection's next state is well typed.                                *)
LEMMA SetTypes ==
  ASSUME TypeOK, Asked, NEW r \in Connections,
         NEW s \in {"sweeping", "issuing"}, NEW ch \in Changes \cup {NoChange},
         NEW passes \in BOOLEAN, passes \/ s = "issuing" => ch \in Changes,
         Set(r, s, ch, passes)
  PROVE  /\ conn' \in [Connections ->
              [stage : {"idle", "sweeping", "issuing"}, change : Changes \cup {NoChange},
               passes : BOOLEAN]]
         /\ Asked'
<1>1. conn' \in [Connections ->
        [stage : {"idle", "sweeping", "issuing"}, change : Changes \cup {NoChange},
         passes : BOOLEAN]]
  BY DEF TypeOK, Set
<1>2. \A q \in Connections : q # r => conn'[q] = conn[q]
  BY DEF TypeOK, Set
<1>3. conn'[r] = [stage |-> s, change |-> ch, passes |-> passes]
  BY DEF TypeOK, Set
<1> QED BY <1>1, <1>2, <1>3 DEF Asked

LEMMA ReleaseTypes ==
  ASSUME TypeOK, Asked, NEW r \in Connections, conn' = [conn EXCEPT ![r] = IdleConn]
  PROVE  /\ conn' \in [Connections ->
              [stage : {"idle", "sweeping", "issuing"}, change : Changes \cup {NoChange},
               passes : BOOLEAN]]
         /\ Asked'
<1>1. IdleConn \in [stage : {"idle", "sweeping", "issuing"},
                   change : Changes \cup {NoChange}, passes : BOOLEAN]
  BY DEF IdleConn
<1>2. conn' \in [Connections ->
        [stage : {"idle", "sweeping", "issuing"}, change : Changes \cup {NoChange},
         passes : BOOLEAN]]
  BY <1>1 DEF TypeOK
<1>3. conn'[r] = IdleConn /\ \A q \in Connections : q # r => conn'[q] = conn[q]
  BY DEF TypeOK
<1> QED BY <1>2, <1>3 DEF Asked, IdleConn

-----------------------------------------------------------------------------
(* The two conditions of a redemption that keeps its grant.                *)
LEMMA GrantTypes ==
  ASSUME TypeOK, grant # NoGrant
  PROVE  /\ grant \in Grants /\ grant.code \in Codes /\ grant.change \in Changes
         /\ grant.expired \in BOOLEAN
  BY DEF TypeOK, Grants

LEMMA ClearFileTypes ==
  ASSUME TypeOK, ClearFile \/ ClearedInVain, UNCHANGED issued
  PROVE  file' \in 0..issued' /\ faults' \in 0..MaxFaults
  BY GuardControlsAssumption DEF TypeOK, ClearFile, ClearedInVain, Fault

LEMMA StepIInv == IInv /\ [Next]_vars => IInv'
<1> SUFFICES ASSUME TypeOK, CapPairHolds, Asked, Decided, [Next]_vars
             PROVE  TypeOK' /\ CapPairHolds' /\ Asked' /\ Decided'
  BY DEF IInv
<1>1. ASSUME NEW r \in Connections, NEW ch \in Changes, RequestAuthorisation(r, ch)
      PROVE  TypeOK' /\ CapPairHolds' /\ Asked' /\ Decided'
  <2>1. Passes(ch) \in BOOLEAN
    BY DEF Passes, Loosens, CapPairOK, PairOK
  <2>2. Set(r, "sweeping", ch, Passes(ch)) \/ Set(r, "issuing", ch, TRUE)
    BY <1>1 DEF RequestAuthorisation
  <2>3. UNCHANGED <<controls, grant, file, issued, apply, faults>>
    BY <1>1 DEF RequestAuthorisation
  <2>4. /\ conn' \in [Connections ->
             [stage : {"idle", "sweeping", "issuing"}, change : Changes \cup {NoChange},
              passes : BOOLEAN]]
        /\ Asked'
    BY <2>1, <2>2, SetTypes
  <2>5. TypeOK' /\ CapPairHolds'
    BY <2>3, <2>4 DEF TypeOK, CapPairHolds
  <2>6. Decided'
    BY <2>3 DEF Decided, CapPairOK, With, Loosens
  <2> QED BY <2>4, <2>5, <2>6
<1>2. ASSUME NEW r \in Connections, Poll(r)
      PROVE  TypeOK' /\ CapPairHolds' /\ Asked' /\ Decided'
  <2>1. /\ conn' \in [Connections ->
             [stage : {"idle", "sweeping", "issuing"}, change : Changes \cup {NoChange},
              passes : BOOLEAN]]
        /\ Asked'
    BY <1>2, SetTypes DEF Poll
  <2>2. UNCHANGED <<controls, grant, file, issued, apply, faults>>
    BY <1>2 DEF Poll
  <2>3. TypeOK' /\ CapPairHolds'
    BY <2>1, <2>2 DEF TypeOK, CapPairHolds
  <2>4. Decided'
    BY <2>2 DEF Decided, CapPairOK, With, Loosens
  <2> QED BY <2>1, <2>3, <2>4
<1>3. ASSUME NEW r \in Connections, SweepExpired(r)
      PROVE  TypeOK' /\ CapPairHolds' /\ Asked' /\ Decided'
  <2>1. UNCHANGED <<controls, issued, apply>>
    BY <1>3 DEF SweepExpired
  <2>2. /\ grant' \in Grants \cup {NoGrant}
        /\ file' \in 0..issued' /\ faults' \in 0..MaxFaults
    BY <1>3, <2>1, ClearFileTypes DEF SweepExpired, NothingToSweep, ClearedInVain, TypeOK
  <2>3. \/ conn' = [conn EXCEPT ![r] = IdleConn]
        \/ Set(r, "issuing", conn[r].change, TRUE) /\ conn[r].change \in Changes
    <3>1. conn[r].passes \in BOOLEAN /\ conn[r].change \in Changes \cup {NoChange}
      BY DEF TypeOK
    <3>2. CASE Decide(r, conn[r].passes)
      BY <3>1, <3>2 DEF Asked, Decide
    <3>3. CASE Decide(r, conn[r].change # NoChange /\ Passes(conn[r].change))
      BY <3>1, <3>3 DEF Decide
    <3> QED BY <1>3, <3>2, <3>3 DEF SweepExpired
  <2>4. /\ conn' \in [Connections ->
             [stage : {"idle", "sweeping", "issuing"}, change : Changes \cup {NoChange},
              passes : BOOLEAN]]
        /\ Asked'
    <3>1. CASE conn' = [conn EXCEPT ![r] = IdleConn]
      BY <3>1, ReleaseTypes
    <3>2. CASE Set(r, "issuing", conn[r].change, TRUE) /\ conn[r].change \in Changes
      BY <3>2, SetTypes
    <3> QED BY <2>3, <3>1, <3>2
  <2>5. TypeOK' /\ CapPairHolds'
    BY <2>1, <2>2, <2>4 DEF TypeOK, CapPairHolds
  <2>6. Decided'
    BY <2>1 DEF Decided, CapPairOK, With, Loosens
  <2> QED BY <2>4, <2>5, <2>6
<1>4. ASSUME NEW r \in Connections, Issue(r)
      PROVE  TypeOK' /\ CapPairHolds' /\ Asked' /\ Decided'
  <2>1. UNCHANGED <<controls, apply>> /\ issued' = issued + 1 /\ issued < MaxCodes
    BY <1>4 DEF Issue
  <2>2. issued' \in 0..MaxCodes /\ issued + 1 \in Codes /\ 0 \in 0..MaxAttempts - 1
    BY <2>1, GuardControlsAssumption DEF TypeOK, Codes
  <2>3. conn[r].change \in Changes
    BY <1>4 DEF Issue, Asked
  <2>4. [code |-> issued + 1, change |-> conn[r].change, attempts |-> 0,
         expired |-> FALSE] \in Grants
    BY <2>2, <2>3 DEF Grants
  <2>5. grant' \in Grants \cup {NoGrant}
    BY <1>4, <2>4 DEF Issue, TypeOK
  <2>6. file' \in 0..issued' /\ faults' \in 0..MaxFaults
    BY <1>4, <2>1, <2>2, GuardControlsAssumption DEF Issue, TypeOK, Fault
  <2>7. /\ conn' \in [Connections ->
             [stage : {"idle", "sweeping", "issuing"}, change : Changes \cup {NoChange},
              passes : BOOLEAN]]
        /\ Asked'
    BY <1>4, ReleaseTypes DEF Issue
  <2>8. TypeOK' /\ CapPairHolds'
    BY <2>1, <2>2, <2>5, <2>6, <2>7 DEF TypeOK, CapPairHolds
  <2>9. Decided'
    BY <2>1 DEF Decided, CapPairOK, With, Loosens
  <2> QED BY <2>7, <2>8, <2>9
<1>5. ASSUME Expire PROVE TypeOK' /\ CapPairHolds' /\ Asked' /\ Decided'
  <2>1. UNCHANGED <<controls, file, issued, conn, apply, faults>>
    BY <1>5 DEF Expire
  <2>2. grant' \in Grants
    BY <1>5 DEF Expire, TypeOK, Grants
  <2>3. TypeOK' /\ CapPairHolds' /\ Asked'
    BY <2>1, <2>2 DEF TypeOK, CapPairHolds, Asked
  <2>4. Decided'
    BY <2>1 DEF Decided, CapPairOK, With, Loosens
  <2> QED BY <2>3, <2>4
<1>6. ASSUME NEW ch \in Changes, NEW code \in {WrongCode} \cup 1..issued,
             ApplyChange(ch, code)
      PROVE  TypeOK' /\ CapPairHolds' /\ Asked' /\ Decided'
  <2>1. UNCHANGED <<controls, grant, file, issued, conn, faults>>
    BY <1>6 DEF ApplyChange
  <2>2. code \in 0..MaxCodes
    BY GuardControlsAssumption DEF WrongCode, TypeOK
  <2>3. apply' \in [stage : {"idle", "redeeming", "committing"},
                   change : Changes \cup {NoChange}, code : 0..MaxCodes]
    <3>1. CASE Loosens(ch)
      BY <1>6, <2>2, <3>1 DEF ApplyChange
    <3>2. CASE ~Loosens(ch)
      <4>1. apply' = [stage |-> "committing", change |-> ch, code |-> 0]
        BY <1>6, <3>2 DEF ApplyChange
      <4> QED BY <4>1, GuardControlsAssumption
    <3> QED BY <3>1, <3>2
  <2>4. TypeOK' /\ CapPairHolds' /\ Asked'
    BY <2>1, <2>3 DEF TypeOK, CapPairHolds, Asked
  <2>5. /\ apply'.change = ch /\ CapPairOK(ch)
        /\ apply'.stage = "redeeming" => Loosens(ch)
        /\ apply'.stage # "redeeming" => ~Loosens(ch) /\ ~AlreadyHas(ch)
    BY <1>6 DEF ApplyChange
  <2>6. controls[ch.control] \in Nat /\ ch.value \in Nat
    BY ChangeTypes DEF TypeOK
  <2>7. apply'.stage # "redeeming" => ch.value < controls[ch.control]
    BY <2>5, <2>6 DEF Loosens, AlreadyHas
  <2> QED BY <2>1, <2>4, <2>5, <2>7 DEF Decided, CapPairOK, With, Loosens
<1>7. ASSUME Redeem PROVE TypeOK' /\ CapPairHolds' /\ Asked' /\ Decided'
  <2>1. UNCHANGED <<controls, issued, conn>>
    BY <1>7 DEF Redeem
  <2>2. file' \in 0..issued' /\ faults' \in 0..MaxFaults
    BY <1>7, <2>1, ClearFileTypes, GuardControlsAssumption DEF Redeem, TypeOK, Fault
  <2>3. grant' \in Grants \cup {NoGrant}
    <3>1. CASE grant' = NoGrant \/ grant' = grant
      BY <3>1 DEF TypeOK
    <3>2. CASE Survives /\ grant' = [grant EXCEPT !.attempts = @ + 1]
      <4>1. grant \in Grants /\ grant.attempts + 1 \in 0..MaxAttempts - 1
        BY <3>2, GrantTypes, GuardControlsAssumption DEF Survives, Mistyped, Grants
      <4> QED BY <3>2, <4>1 DEF Grants
    <3> QED BY <1>7, <3>1, <3>2 DEF Redeem, ClearedInVain
  <2>4. apply' = IdleApply \/ (Honours /\ apply' = [apply EXCEPT !.stage = "committing"])
    BY <1>7 DEF Redeem
  <2>5. apply' \in [stage : {"idle", "redeeming", "committing"},
                   change : Changes \cup {NoChange}, code : 0..MaxCodes]
    <3>1. CASE apply' = IdleApply
      BY <3>1, GuardControlsAssumption DEF IdleApply
    <3>2. CASE apply' = [apply EXCEPT !.stage = "committing"]
      BY <3>2 DEF TypeOK
    <3> QED BY <2>4, <3>1, <3>2
  <2>6. TypeOK' /\ CapPairHolds' /\ Asked'
    BY <2>1, <2>2, <2>3, <2>5 DEF TypeOK, CapPairHolds, Asked
  <2>7. CASE apply' = IdleApply
    BY <2>6, <2>7 DEF Decided, IdleApply
  <2>8. CASE Honours /\ apply' = [apply EXCEPT !.stage = "committing"]
    <3>1. apply.code \in Codes
      BY <2>8, GrantTypes DEF Honours
    <3>2. apply.code # 0
      BY <3>1 DEF Codes
    <3>3. /\ apply'.stage = "committing" /\ apply'.change = apply.change
          /\ apply'.code = apply.code
      BY <2>8 DEF TypeOK
    <3>4. apply.change \in Changes /\ CapPairOK(apply.change)
      BY <1>7 DEF Redeem, Decided
    <3> QED BY <2>1, <2>6, <3>2, <3>3, <3>4 DEF Decided, CapPairOK, With
  <2> QED BY <2>4, <2>6, <2>7, <2>8
<1>8. ASSUME CommitChange PROVE TypeOK' /\ CapPairHolds' /\ Asked' /\ Decided'
  <2>1. apply.change \in Changes /\ CapPairOK(apply.change)
    BY <1>8 DEF CommitChange, Decided
  <2>2. controls' = With(apply.change) \/ controls' = controls
    BY <1>8 DEF CommitChange
  <2>3. /\ controls' \in [Controls -> Nat] /\ controls'["sending"] \in {0, 1}
        /\ {controls'["spend_cap"], controls'["payment_cap"]} \subseteq Caps
        /\ PairOK(controls')
    BY <2>1, <2>2, WithTypes DEF TypeOK, CapPairHolds
  <2>4. UNCHANGED <<grant, file, issued, conn>> /\ apply' = IdleApply
    BY <1>8 DEF CommitChange
  <2>5. faults' \in 0..MaxFaults
    BY <1>8, GuardControlsAssumption DEF CommitChange, Fault, TypeOK
  <2>6. IdleApply \in [stage : {"idle", "redeeming", "committing"},
                      change : Changes \cup {NoChange}, code : 0..MaxCodes]
    BY GuardControlsAssumption DEF IdleApply
  <2> QED BY <2>3, <2>4, <2>5, <2>6 DEF TypeOK, CapPairHolds, Asked, Decided, IdleApply
<1>9. ASSUME RevokeSpend PROVE TypeOK' /\ CapPairHolds' /\ Asked' /\ Decided'
  <2>1. UNCHANGED <<grant, file, issued, conn, apply, faults>> /\ apply.stage = "idle"
    BY <1>9 DEF RevokeSpend
  <2>2. /\ controls' \in [Controls -> Nat] /\ controls'["sending"] = 0
        /\ controls'["spend_cap"] = controls["spend_cap"]
        /\ controls'["payment_cap"] = controls["payment_cap"]
    BY <1>9 DEF RevokeSpend, TypeOK, Controls
  <2> QED BY <2>1, <2>2 DEF TypeOK, CapPairHolds, PairOK, Asked, Decided
<1>10. ASSUME Restart PROVE TypeOK' /\ CapPairHolds' /\ Asked' /\ Decided'
  <2>1. UNCHANGED <<controls, grant, file, issued>> /\ apply' = IdleApply
    BY <1>10 DEF Restart
  <2>2. conn' = [r \in Connections |-> IdleConn]
    BY <1>10 DEF Restart
  <2>3. /\ conn' \in [Connections ->
             [stage : {"idle", "sweeping", "issuing"}, change : Changes \cup {NoChange},
              passes : BOOLEAN]]
        /\ Asked'
    BY <2>2 DEF IdleConn, Asked
  <2>4. faults' \in 0..MaxFaults
    BY <1>10, GuardControlsAssumption DEF Restart, Fault, TypeOK
  <2>5. IdleApply \in [stage : {"idle", "redeeming", "committing"},
                      change : Changes \cup {NoChange}, code : 0..MaxCodes]
    BY GuardControlsAssumption DEF IdleApply
  <2>6. Decided'
    BY <2>1 DEF Decided, IdleApply
  <2> QED BY <2>1, <2>3, <2>4, <2>5, <2>6 DEF TypeOK, CapPairHolds
<1>11. CASE UNCHANGED vars
  BY <1>11 DEF vars, TypeOK, CapPairHolds, Asked, Decided, CapPairOK, With, Loosens
<1> QED BY <1>1, <1>2, <1>3, <1>4, <1>5, <1>6, <1>7, <1>8, <1>9, <1>10, <1>11 DEF Next

(* The guard's state, its file and what its goroutines hold are well typed *)
(* for any number of connections, codes and faults.                        *)
THEOREM ControlsTyped == Spec => []TypeOK
<1>1. Init => IInv
  BY InitIInv
<1>2. IInv /\ [Next]_vars => IInv'
  BY StepIInv
<1>3. IInv => TypeOK
  BY DEF IInv
<1> QED BY <1>1, <1>2, <1>3, PTL DEF Spec

(* ApplyChange: whatever is asked for, redeemed and tightened, and in      *)
(* whatever order, the per-payment limit stays within the window's.        *)
THEOREM LimitsStayOrdered == Spec => []CapPairHolds
<1>1. Init => IInv
  BY InitIInv
<1>2. IInv /\ [Next]_vars => IInv'
  BY StepIInv
<1>3. IInv => CapPairHolds
  BY DEF IInv
<1> QED BY <1>1, <1>2, <1>3, PTL DEF Spec

-----------------------------------------------------------------------------
(* writeAuthorisationFile and clearAuthorisationFile under the state       *)
(* store's lock: no interleaving leaves a grant without its file or a file *)
(* without its grant, as long as no write fails.                           *)
THEOREM FileFollowsTheGrant == Spec => []FileNamesTheGrant
<1>1. Init => FileNamesTheGrant
  BY DEF Init, FileNamesTheGrant, NoGrant
<1>2. TypeOK /\ FileNamesTheGrant /\ [Next]_vars => FileNamesTheGrant'
  <2> SUFFICES ASSUME TypeOK, FileNamesTheGrant, [Next]_vars, faults' = 0
               PROVE  file' = grant'.code
    BY DEF FileNamesTheGrant
  <2>1. faults \in Nat
    BY GuardControlsAssumption DEF TypeOK
  <2>2. ~Fault
    BY <2>1 DEF Fault
  <2>3. CASE UNCHANGED <<file, grant, faults>>
    BY <2>3 DEF FileNamesTheGrant
  <2>4. ASSUME NEW r \in Connections, SweepExpired(r) PROVE file' = grant'.code
    <3>1. CASE StillExpired
      BY <2>2, <2>4, <3>1 DEF SweepExpired, ClearFile, ClearedInVain, NoGrant
    <3>2. CASE ~StillExpired
      BY <2>3, <2>4, <3>2 DEF SweepExpired, NothingToSweep
    <3> QED BY <3>1, <3>2
  <2>5. ASSUME NEW r \in Connections, Issue(r) PROVE file' = grant'.code
    BY <2>2, <2>5 DEF Issue
  <2>6. ASSUME Expire PROVE file' = grant'.code
    <3>1. grant'.code = grant.code
      BY <2>6, GrantTypes DEF Expire, Grants
    <3> QED BY <2>6, <3>1 DEF Expire, FileNamesTheGrant
  <2>7. ASSUME Redeem PROVE file' = grant'.code
    <3>1. CASE grant' = NoGrant /\ ClearFile
      BY <2>2, <3>1 DEF ClearFile, NoGrant
    <3>2. CASE Survives /\ UNCHANGED <<file, faults>> /\ grant' = [grant EXCEPT !.attempts = @ + 1]
      <4>1. grant'.code = grant.code
        BY <3>2, GrantTypes DEF Survives, Mistyped, Grants
      <4> QED BY <3>2, <4>1 DEF FileNamesTheGrant
    <3> QED BY <2>2, <2>3, <2>7, <3>1, <3>2 DEF Redeem, ClearedInVain
  <2>8. ASSUME \/ \E r \in Connections :
                    Poll(r) \/ \E ch \in Changes : RequestAuthorisation(r, ch)
               \/ \E ch \in Changes, code \in {WrongCode} \cup 1..issued : ApplyChange(ch, code)
               \/ CommitChange \/ RevokeSpend \/ Restart \/ UNCHANGED vars
        PROVE  file' = grant'.code
    BY <2>2, <2>3, <2>8 DEF Poll, RequestAuthorisation, ApplyChange, CommitChange,
                           RevokeSpend, Restart, vars
  <2> QED BY <2>4, <2>5, <2>6, <2>7, <2>8 DEF Next
<1> QED BY <1>1, <1>2, ControlsTyped, PTL DEF Spec

(* sweepExpired: a live grant is ended only by a redemption or by the next *)
(* grant.                                                                  *)
THEOREM SweepSparesTheLive == Spec => LiveGrantNotSwept
<1>1. TypeOK /\ [Next]_vars
        => [grant # NoGrant /\ ~grant.expired /\ grant' = NoGrant
              => apply.stage = "redeeming" /\ apply' # apply]_vars
  <2> SUFFICES ASSUME TypeOK, Next, grant # NoGrant, ~grant.expired, grant' = NoGrant
               PROVE  apply.stage = "redeeming" /\ apply' # apply
    OBVIOUS
  <2>1. CASE UNCHANGED grant
    BY <2>1
  <2>2. ASSUME NEW r \in Connections, SweepExpired(r) PROVE FALSE
    BY <2>2 DEF SweepExpired, StillExpired, HasExpired, NothingToSweep
  <2>3. ASSUME NEW r \in Connections, Issue(r) PROVE FALSE
    <3>1. grant'.code = issued + 1 \/ UNCHANGED grant
      BY <2>3 DEF Issue
    <3>2. issued + 1 # 0
      BY GuardControlsAssumption DEF TypeOK
    <3> QED BY <3>1, <3>2 DEF NoGrant
  <2>4. ASSUME Expire PROVE FALSE
    <3>1. grant'.code = grant.code /\ grant.code # 0
      BY <2>4, GrantTypes DEF Expire, Grants, Codes
    <3> QED BY <3>1 DEF NoGrant
  <2>5. ASSUME Redeem PROVE apply.stage = "redeeming" /\ apply' # apply
    <3>1. apply.stage = "redeeming" /\ apply \in [stage : {"idle", "redeeming", "committing"},
                                                 change : Changes \cup {NoChange}, code : 0..MaxCodes]
      BY <2>5 DEF Redeem, TypeOK
    <3>2. apply'.stage # "redeeming"
      BY <2>5, <3>1 DEF Redeem, IdleApply
    <3> QED BY <3>1, <3>2
  <2> QED BY <2>1, <2>2, <2>3, <2>4, <2>5
         DEF Next, Poll, RequestAuthorisation, ApplyChange, CommitChange, RevokeSpend, Restart
<1> QED BY <1>1, ControlsTyped, PTL DEF Spec, LiveGrantNotSwept

-----------------------------------------------------------------------------
LEMMA ChangeInCeremony == Changes \subseteq C!Changes
<1> SUFFICES ASSUME NEW ch \in Changes PROVE ch \in C!Changes
  OBVIOUS
<1>1. CASE ch \in [control : {"sending"}, value : {0, 1}]
  BY <1>1 DEF C!Changes, Controls
<1>2. CASE ch \in [control : {"spend_cap", "payment_cap"}, value : Caps]
  BY <1>2 DEF C!Changes, Controls
<1> QED BY <1>1, <1>2 DEF Changes

(* A stored grant is an open permit.                                       *)
LEMMA PermitTypes ==
  ASSUME IInv
  PROVE  /\ OpenPermit \in C!Permits \cup {C!NoPermit}
         /\ OpenPermit \in C!Permits <=> grant # NoGrant
         /\ C!PairOK(controls)
<1>1. CASE grant = NoGrant
  <2>1. OpenPermit = C!NoPermit /\ OpenPermit.code = 0
    BY <1>1 DEF OpenPermit, NoGrant, C!NoPermit
  <2>2. OpenPermit \notin C!Permits
    BY <2>1 DEF C!Permits, Codes
  <2> QED BY <1>1, <2>1, <2>2 DEF IInv, CapPairHolds, PairOK, C!PairOK
<1>2. CASE grant # NoGrant
  <2>1. grant.code \in Codes /\ grant.change \in Changes /\ grant.expired \in BOOLEAN
    BY <1>2, GrantTypes DEF IInv
  <2>2. grant.change \in C!Changes
    BY <2>1, ChangeInCeremony
  <2>3. OpenPermit \in C!Permits
    BY <1>2, <2>1, <2>2 DEF OpenPermit, C!Permits
  <2> QED BY <1>2, <2>3 DEF IInv, CapPairHolds, PairOK, C!PairOK
<1> QED BY <1>1, <1>2

LEMMA PermitStays == IInv' /\ grant' # NoGrant => OpenPermit' \in C!Permits
<1>1. IInv /\ grant # NoGrant => OpenPermit \in C!Permits
  BY PermitTypes
<1>2. (IInv /\ grant # NoGrant => OpenPermit \in C!Permits)'
  BY <1>1, PTL
<1> QED BY <1>2 DEF NoGrant

(* One step of the guard is one of the ceremony, or none.                  *)
LEMMA StepCeremony == IInv /\ IInv' /\ [Next]_vars => [C!Next]_C!vars
<1> SUFFICES ASSUME IInv, IInv', [Next]_vars PROVE C!Next \/ UNCHANGED C!vars
  OBVIOUS
<1>0. TypeOK /\ TypeOK' /\ Decided
  BY DEF IInv
<1>1. CASE UNCHANGED <<controls, grant, issued, apply>>
  BY <1>1 DEF C!vars, OpenPermit, TakenPermit
<1>2. ASSUME NEW r \in Connections, SweepExpired(r) PROVE C!Next \/ UNCHANGED C!vars
  <2>1. UNCHANGED <<controls, issued, apply>> /\ (grant' = NoGrant \/ grant' = grant)
    BY <1>2 DEF SweepExpired, ClearedInVain, NothingToSweep
  <2>2. CASE grant' = NoGrant
    BY <2>1, <2>2 DEF C!Next, C!Withdraw, C!NoPermit, OpenPermit, TakenPermit, NoGrant
  <2> QED BY <1>1, <2>1, <2>2
<1>3. ASSUME NEW r \in Connections, Issue(r) PROVE C!Next \/ UNCHANGED C!vars
  <2>1. UNCHANGED <<controls, apply>> /\ issued' = issued + 1 /\ issued < MaxCodes
    BY <1>3 DEF Issue
  <2>2. issued + 1 \in Codes /\ 1..issued' = 1..issued \cup {issued + 1}
        /\ issued + 1 \notin 1..issued
    BY <1>0, <2>1, GuardControlsAssumption DEF TypeOK, Codes
  <2>3. CASE grant' = grant
    <3>1. C!Spoil
      BY <2>1, <2>2, <2>3 DEF C!Spoil, OpenPermit, TakenPermit
    <3> QED BY <3>1 DEF C!Next
  <2>4. CASE grant' = [code |-> issued + 1, change |-> conn[r].change, attempts |-> 0,
                       expired |-> FALSE]
    <3>1. grant'.code = issued + 1 /\ grant' # NoGrant
      BY <1>0, <2>2, <2>4 DEF Codes, NoGrant, TypeOK
    <3>2. OpenPermit' = [code |-> issued + 1, change |-> conn[r].change, expired |-> FALSE]
      BY <2>4, <3>1 DEF OpenPermit
    <3>3. OpenPermit' \in C!Permits
      BY <3>1, PermitStays
    <3>4. OpenPermit'.code \notin 1..issued /\ ~OpenPermit'.expired
          /\ 1..issued' = 1..issued \cup {OpenPermit'.code}
      BY <2>2, <3>2
    <3>5. TakenPermit' = TakenPermit
      BY <2>1 DEF TakenPermit
    <3>6. C!Offer
      BY <2>1, <3>3, <3>4, <3>5 DEF C!Offer
    <3> QED BY <3>6 DEF C!Next
  <2> QED BY <1>3, <2>3, <2>4 DEF Issue
<1>4. ASSUME Expire PROVE C!Next \/ UNCHANGED C!vars
  <2>1. grant \in Grants /\ grant # NoGrant /\ grant' = [grant EXCEPT !.expired = TRUE]
    BY <1>0, <1>4, GrantTypes DEF Expire
  <2>2. grant'.code = grant.code /\ grant'.change = grant.change /\ grant'.expired = TRUE
    BY <2>1 DEF Grants
  <2>3. grant' # NoGrant
    BY <2>1, <2>2 DEF Grants, Codes, NoGrant
  <2>4. OpenPermit = [code |-> grant.code, change |-> grant.change, expired |-> grant.expired]
        /\ OpenPermit' = [code |-> grant.code, change |-> grant.change, expired |-> TRUE]
    BY <2>1, <2>2, <2>3 DEF OpenPermit
  <2>5. OpenPermit \in C!Permits
    BY <2>1, PermitTypes
  <2>6. UNCHANGED <<controls, issued, apply>>
    BY <1>4 DEF Expire
  <2>7. OpenPermit' = [code |-> OpenPermit.code, change |-> OpenPermit.change,
                      expired |-> TRUE]
    BY <2>4
  <2>8. TakenPermit' = TakenPermit
    BY <2>6 DEF TakenPermit
  <2> QED BY <2>5, <2>6, <2>7, <2>8 DEF C!Next, C!Expire
<1>5. ASSUME NEW ch \in Changes, NEW code \in {WrongCode} \cup 1..issued,
             ApplyChange(ch, code)
      PROVE  C!Next \/ UNCHANGED C!vars
  <2>1. UNCHANGED <<controls, grant, issued>> /\ apply.stage = "idle"
    BY <1>5 DEF ApplyChange
  <2>2. apply'.stage = "redeeming" \/ apply'.code = 0
    BY <1>5 DEF ApplyChange
  <2> QED BY <2>1, <2>2 DEF C!vars, OpenPermit, TakenPermit
<1>6. ASSUME Redeem PROVE C!Next \/ UNCHANGED C!vars
  <2>1. UNCHANGED <<controls, issued>> /\ apply.stage = "redeeming" /\ TakenPermit = C!NoPermit
    BY <1>6 DEF Redeem, TakenPermit, NoGrant, C!NoPermit
  <2>2. CASE /\ Honours /\ grant' = NoGrant
             /\ apply' = [apply EXCEPT !.stage = "committing"]
    <3>1. grant \in Grants /\ grant # NoGrant /\ ~grant.expired /\ grant.code \in Codes
      BY <1>0, <2>2, GrantTypes DEF Honours
    <3>2. /\ apply'.stage = "committing" /\ apply'.code = grant.code
          /\ apply'.change = grant.change /\ apply'.code # 0
      BY <1>0, <2>2, <3>1 DEF TypeOK, Honours, Codes
    <3>3. TakenPermit' = [code |-> grant.code, change |-> grant.change, expired |-> FALSE]
      BY <3>2 DEF TakenPermit
    <3>4. grant.expired = FALSE
      BY <3>1 DEF Grants
    <3>5. TakenPermit' = OpenPermit /\ ~OpenPermit.expired
      BY <3>1, <3>3, <3>4 DEF OpenPermit
    <3>6. OpenPermit' = C!NoPermit
      BY <2>2 DEF OpenPermit, C!NoPermit, NoGrant
    <3>7. OpenPermit \in C!Permits
      BY <3>1, PermitTypes
    <3>8. C!Take
      BY <2>1, <3>5, <3>6, <3>7 DEF C!Take
    <3> QED BY <3>8 DEF C!Next
  <2>3. CASE apply' = IdleApply
    <3>1. TakenPermit' = TakenPermit
      BY <2>1, <2>3 DEF TakenPermit, IdleApply, C!NoPermit, NoGrant
    <3>2. CASE grant' = NoGrant
      <4>1. OpenPermit' = C!NoPermit
        BY <3>2 DEF OpenPermit, C!NoPermit, NoGrant
      <4> QED BY <2>1, <3>1, <4>1 DEF C!Next, C!Withdraw
    <3>3. CASE grant' = grant
      BY <2>1, <3>1, <3>3 DEF C!vars, OpenPermit
    <3>4. CASE Survives /\ grant' = [grant EXCEPT !.attempts = @ + 1]
      <4>1. grant \in Grants /\ grant # NoGrant
        BY <1>0, <3>4, GrantTypes DEF Survives, Mistyped
      <4>2. /\ grant'.code = grant.code /\ grant'.change = grant.change
            /\ grant'.expired = grant.expired
        BY <3>4, <4>1 DEF Grants
      <4>3. grant' # NoGrant
        BY <4>1, <4>2 DEF Grants, Codes, NoGrant
      <4>4. OpenPermit' = OpenPermit
        BY <4>1, <4>2, <4>3 DEF OpenPermit
      <4> QED BY <2>1, <3>1, <4>4 DEF C!vars
    <3> QED BY <1>6, <2>3, <3>2, <3>3, <3>4 DEF Redeem, ClearedInVain
  <2> QED BY <1>6, <2>2, <2>3 DEF Redeem
<1>7. ASSUME CommitChange PROVE C!Next \/ UNCHANGED C!vars
  <2>1. /\ apply.stage = "committing" /\ apply' = IdleApply /\ UNCHANGED <<grant, issued>>
        /\ controls' = With(apply.change) \/ controls' = controls
    BY <1>7 DEF CommitChange
  <2>2. OpenPermit' = OpenPermit /\ TakenPermit' = C!NoPermit
    BY <2>1 DEF OpenPermit, TakenPermit, IdleApply, C!NoPermit, NoGrant
  <2>3. CASE controls' = controls
    BY <2>1, <2>2, <2>3 DEF C!Next, C!Lose
  <2>4. apply.change \in Changes /\ C!PairOK(controls')
    BY <1>0, <2>1, PermitTypes DEF Decided, IInv, CapPairHolds, PairOK, C!PairOK
  <2>5. CASE controls' = With(apply.change) /\ apply.code # 0
    <3>1. TakenPermit = [code |-> apply.code, change |-> apply.change, expired |-> FALSE]
      BY <2>1, <2>5 DEF TakenPermit
    <3>2. apply.code \in Codes
      BY <1>0, <2>5, GuardControlsAssumption DEF TypeOK, Codes
    <3>3. TakenPermit \in C!Permits
      BY <2>4, <3>1, <3>2, ChangeInCeremony DEF C!Permits
    <3>4. controls' = [controls EXCEPT ![TakenPermit.change.control] = TakenPermit.change.value]
      BY <2>5, <3>1 DEF With
    <3> QED BY <2>1, <2>2, <2>4, <3>3, <3>4 DEF C!Next, C!Loosen
  <2>6. CASE controls' = With(apply.change) /\ apply.code = 0
    <3>1. apply.change.value < controls[apply.change.control]
      BY <1>0, <2>1, <2>6 DEF Decided
    <3>2. apply.change.control \in Controls /\ apply.change.value \in Caps \cup {0, 1}
      BY <2>4, ChangeTypes
    <3>3. TakenPermit = C!NoPermit
      BY <2>6 DEF TakenPermit, C!NoPermit, NoGrant
    <3>4. C!Tighten
      BY <2>1, <2>2, <2>4, <2>6, <3>1, <3>2, <3>3 DEF C!Tighten, With
    <3> QED BY <3>4 DEF C!Next
  <2> QED BY <2>1, <2>3, <2>5, <2>6
<1>8. ASSUME RevokeSpend PROVE C!Next \/ UNCHANGED C!vars
  <2>1. /\ UNCHANGED <<grant, issued, apply>> /\ controls["sending"] = 1
        /\ controls' = [controls EXCEPT !["sending"] = 0]
    BY <1>8 DEF RevokeSpend
  <2>2. C!PairOK(controls')
    BY DEF IInv, CapPairHolds, PairOK, C!PairOK
  <2>3. \E c \in Controls, v \in Caps \cup {0, 1} :
          v < controls[c] /\ controls' = [controls EXCEPT ![c] = v]
    <3>1. "sending" \in Controls /\ 0 \in Caps \cup {0, 1}
      BY DEF Controls
    <3>2. 0 < controls["sending"] /\ controls' = [controls EXCEPT !["sending"] = 0]
      BY <2>1
    <3> QED BY <3>1, <3>2
  <2> QED BY <2>1, <2>2, <2>3 DEF C!Next, C!Tighten, OpenPermit, TakenPermit
<1>9. ASSUME Restart PROVE C!Next \/ UNCHANGED C!vars
  <2>1. UNCHANGED <<controls, grant, issued>> /\ apply' = IdleApply
    BY <1>9 DEF Restart
  <2>2. OpenPermit' = OpenPermit /\ TakenPermit' = C!NoPermit
    BY <2>1 DEF OpenPermit, TakenPermit, IdleApply, C!NoPermit, NoGrant
  <2> QED BY <2>1, <2>2 DEF C!Next, C!Lose
<1>10. CASE UNCHANGED vars
  BY <1>1, <1>10 DEF vars
<1>11. ASSUME NEW r \in Connections,
              Poll(r) \/ \E ch \in Changes : RequestAuthorisation(r, ch)
       PROVE  C!Next \/ UNCHANGED C!vars
  BY <1>1, <1>11 DEF Poll, RequestAuthorisation
<1> QED BY <1>2, <1>3, <1>4, <1>5, <1>6, <1>7, <1>8, <1>9, <1>10, <1>11 DEF Next

(* The guard implements the ceremony: a control is loosened only with an   *)
(* unexpired permit for exactly that change, and each permit serves once.  *)
THEOREM GuardKeepsItsCeremony == Spec => KeepsItsCeremony
<1>1. Init => C!Init
  <2> SUFFICES ASSUME Init PROVE C!Init
    OBVIOUS
  <2>1. controls \in [Controls -> Caps \cup {0, 1}] /\ C!PairOK(controls)
    BY DEF Init, PairOK, C!PairOK
  <2>2. OpenPermit = C!NoPermit /\ TakenPermit = C!NoPermit /\ 1..issued = {}
    BY DEF Init, OpenPermit, TakenPermit, IdleApply, C!NoPermit, NoGrant
  <2> QED BY <2>1, <2>2 DEF C!Init
<1>2. Init => IInv
  BY InitIInv
<1>3. IInv /\ [Next]_vars => IInv'
  BY StepIInv
<1>4. IInv /\ IInv' /\ [Next]_vars => [C!Next]_C!vars
  BY StepCeremony
<1> QED BY <1>1, <1>2, <1>3, <1>4, PTL DEF Spec, KeepsItsCeremony, C!Spec

-----------------------------------------------------------------------------
(***************************************************************************)
(* The spend cap.                                                          *)
(***************************************************************************)

(* int64 arithmetic on figures that were found countable.                  *)
LEMMA RemainderFits ==
  ASSUME NEW k \in Nat \ {0}, NEW a \in 0..k - 1
  PROVE  a % k = a
OBVIOUS

LEMMA QuotientFits ==
  ASSUME NEW m \in Nat, NEW k \in Nat \ {0}, NEW s \in Nat, s <= m \div k
  PROVE  s * k \in Nat /\ s * k <= m
<1>1. m = (m \div k) * k + (m % k) /\ m % k \in 0..k - 1 /\ m \div k \in Int
  OBVIOUS
<1>2. s * k <= (m \div k) * k
  BY <1>1
<1> QED BY <1>1, <1>2

LEMMA CountableBound ==
  /\ maxCountableMsat \in Nat /\ 2 * maxCountableMsat <= MaxInt + 1
  /\ MaxInt \in Nat /\ SatMsat \in Nat \ {0}
BY GuardSpendCapAssumption DEF maxCountableMsat

LEMMA NoWrap ==
  ASSUME NEW n \in 0..maxCountableMsat
  PROVE  Wrap(n) = n
<1> DEFINE k == 2 * (MaxInt + 1)
           a == n + MaxInt + 1
<1>1. k \in Nat \ {0} /\ a \in 0..k - 1 /\ a - (MaxInt + 1) = n
  BY CountableBound
<1>2. a % k = a
  <2> HIDE DEF k, a
  <2> QED BY <1>1, RemainderFits
<1> QED BY <1>1, <1>2 DEF Wrap

(* Satoshis that pass the count turn into msat without wrapping.           *)
LEMMA SatsCount ==
  ASSUME NEW msat \in Int, NEW sats \in Int, Countable(msat, sats)
  PROVE  /\ Msat(msat, sats) \in Int
         /\ Msat(msat, sats) = IF msat # 0 THEN msat ELSE sats * SatMsat
         /\ msat = 0 => sats \in Nat
<1>1. CASE msat # 0
  BY <1>1 DEF Msat
<1>2. CASE msat = 0
  <2>1. sats \in Nat /\ sats <= maxCountableMsat \div SatMsat
    BY <1>2 DEF Countable, countableSats
  <2>2. sats * SatMsat \in 0..maxCountableMsat
    BY <2>1, CountableBound, QuotientFits
  <2> QED BY <1>2, <2>1, <2>2, NoWrap DEF Msat
<1> QED BY <1>1, <1>2

(* What the guard prices, it prices without wrapping, and as no less than  *)
(* the node can spend (priceAttempt).                                      *)
LEMMA PriceIsRight ==
  ASSUME NEW req \in Requests, Priceable(req)
  PROVE  /\ priceAttempt(req) \in 1..maxCountableMsat
         /\ NodeTakes(req) => priceAttempt(req) = Cost(req)
<1>1. /\ req.amtMsat \in Int /\ req.amt \in Int /\ req.feeMsat \in Int /\ req.feeSat \in Int
      /\ req.invoice \in Nat
  BY GuardSpendCapAssumption
<1>2. /\ Msat(req.amtMsat, req.amt) \in Int
      /\ Msat(req.amtMsat, req.amt) =
           IF req.amtMsat # 0 THEN req.amtMsat ELSE req.amt * SatMsat
  BY <1>1, SatsCount DEF Priceable
<1>3. /\ Fee(req) \in Int
      /\ Fee(req) = IF req.feeMsat # 0 THEN req.feeMsat ELSE req.feeSat * SatMsat
  BY <1>1, SatsCount DEF Priceable, Fee
<1>4. /\ Amount(req) \in Int
      /\ Amount(req) = IF req.invoice > 0 THEN req.invoice
                       ELSE IF req.amtMsat # 0 THEN req.amtMsat ELSE req.amt * SatMsat
  BY <1>1, <1>2 DEF Amount
<1>5. Amount(req) + Fee(req) \in 1..maxCountableMsat
  BY <1>3, <1>4, CountableBound DEF Priceable
<1>6. priceAttempt(req) = Amount(req) + Fee(req)
  BY <1>5, NoWrap DEF priceAttempt
<1>7. ASSUME NodeTakes(req) PROVE Amount(req) + Fee(req) = Cost(req)
  <2>1. /\ req.feeMsat # 0 => req.feeSat = 0 /\ req.feeSat * SatMsat = 0
        /\ req.feeMsat = 0 => Fee(req) = req.feeSat * SatMsat
        /\ req.feeSat * SatMsat \in Int
    BY <1>1, <1>3, <1>7, CountableBound DEF NodeTakes
  <2>2. /\ req.amt = 0 => req.amt * SatMsat = 0
        /\ req.amtMsat = 0 \/ req.amt = 0
        /\ req.amt * SatMsat \in Int
    BY <1>1, <1>7, CountableBound DEF NodeTakes
  <2>3. Fee(req) = req.feeMsat + req.feeSat * SatMsat
    BY <1>1, <1>3, <2>1
  <2>4. Amount(req) = req.invoice + req.amtMsat + req.amt * SatMsat
    BY <1>1, <1>4, <1>7, <2>2 DEF NodeTakes
  <2> QED BY <1>1, <2>1, <2>2, <2>3, <2>4 DEF Cost
<1> QED BY <1>5, <1>6, <1>7

-----------------------------------------------------------------------------
(* The calls the node has forwarded.                                       *)
Called == {p \in Payments : call[p] # NoCall}

(* Every start of either side, and every registration but the first of a   *)
(* run, was paid for with a mishap.                                        *)
Counted ==
  /\ run <= mishaps + 1 /\ node <= mishaps + 1
  /\ session <= mishaps + (IF up THEN 1 ELSE 0)

(* The node never gives one run's request id to two calls.                 *)
Numbered ==
  /\ \A p \in Called : /\ call[p].node <= node
                       /\ call[p].node = node => call[p].id <= lastId
  /\ \A p, q \in Called : call[p].node = call[q].node /\ call[p].id = call[q].id => p = q

(* One registration of the guard's belongs to one run of the node's.       *)
Registered ==
  /\ \A p \in Called :
       /\ call[p].on[1] <= run
       /\ call[p].on[1] = run => call[p].on[2] <= session
       /\ up /\ call[p].on = stream => call[p].node = node
  /\ \A p, q \in Called : call[p].on = call[q].on => call[p].node = call[q].node

(* What may still be spent is on record, at its full cost and its own age. *)
OwnRecord(p) == [key |-> attemptKey(call[p].on, call[p].id), msat |-> Cost(call[p].req),
                 age |-> call[p].age]

Recorded == \A p \in Spending : OwnRecord(p) \in attempts

SpendIInv ==
  SpendTypeOK /\ IsFiniteSet(attempts) /\ Counted /\ Numbered /\ Registered /\ Recorded

(* A call that was forwarded keeps its number and its registration.        *)
Carries(q) ==
  /\ call'[q] \in Calls
  /\ call'[q].req = call[q].req /\ call'[q].id = call[q].id
  /\ call'[q].on = call[q].on /\ call'[q].node = call[q].node

Steady ==
  /\ DOMAIN call' = Payments /\ call' = [q \in Payments |-> call'[q]]
  /\ \A q \in Payments : IF call[q] = NoCall THEN call'[q] = NoCall ELSE Carries(q)

LEMMA CallKinds ==
  ASSUME SpendTypeOK, NEW p \in Payments
  PROVE  /\ call[p] # NoCall => call[p] \in Calls /\ call[p].stage \in Stages
         /\ call[p].stage # "new" => call[p] # NoCall
         /\ call[p] = NoCall => call[p].stage = "new"
BY DEF SpendTypeOK, NoCall, Calls, Stages

LEMMA MoveIsSteady ==
  ASSUME SpendTypeOK, NEW p \in Payments, call[p].stage # "new", NEW stage \in Stages,
         Move(p, stage)
  PROVE  /\ Steady
         /\ call'[p].stage = stage /\ call'[p].age = call[p].age
         /\ \A q \in Payments \ {p} : call'[q] = call[q]
<1>1. call[p] \in Calls /\ \A q \in Payments : call[q] # NoCall => call[q] \in Calls
  BY CallKinds
<1>2. call' = [call EXCEPT ![p] = [call[p] EXCEPT !.stage = stage]]
  BY DEF Move
<1>3. [call[p] EXCEPT !.stage = stage] \in Calls
  BY <1>1 DEF Calls
<1>4. \A q \in Payments \ {p} : call'[q] = call[q]
  BY <1>2 DEF SpendTypeOK
<1>5. call'[p] = [call[p] EXCEPT !.stage = stage]
  BY <1>2 DEF SpendTypeOK
<1>6. call'[p].stage = stage /\ call'[p].age = call[p].age /\ Carries(p)
  BY <1>1, <1>3, <1>5 DEF Calls, Carries
<1>7. Steady
  BY <1>1, <1>2, <1>4, <1>6, CallKinds DEF Steady, SpendTypeOK, Carries
<1> QED BY <1>4, <1>6, <1>7

LEMMA UnansweredIsSteady ==
  ASSUME SpendTypeOK, call' = Unanswered
  PROVE  /\ Steady
         /\ \A q \in Payments : /\ call'[q] # NoCall => call'[q].age = call[q].age
                                /\ call'[q].stage \in {call[q].stage, "refused"}
                                /\ call'[q].stage \notin {"asking", "allowed"}
<1>1. ASSUME NEW q \in Payments
      PROVE  /\ IF call[q] = NoCall THEN call'[q] = NoCall ELSE Carries(q)
             /\ call'[q] # NoCall => call'[q].age = call[q].age
             /\ call'[q].stage \in {call[q].stage, "refused"}
             /\ call'[q].stage \notin {"asking", "allowed"}
  <2>1. CASE call[q].stage \in {"asking", "allowed"}
    <3>1. call[q] \in Calls /\ call[q] # NoCall
      BY <2>1, CallKinds
    <3>2. call'[q] = [call[q] EXCEPT !.stage = "refused"]
      BY <2>1 DEF Unanswered
    <3> QED BY <3>1, <3>2 DEF Calls, Carries, Stages
  <2>2. CASE call[q].stage \notin {"asking", "allowed"}
    <3>1. call'[q] = call[q]
      BY <2>2 DEF Unanswered
    <3> QED BY <2>2, <3>1, CallKinds DEF Carries
  <2> QED BY <2>1, <2>2
<1> QED BY <1>1 DEF Steady, Unanswered

(* Every step but a new call leaves the calls their numbers.               *)
LEMMA StepSteady ==
  ASSUME SpendTypeOK, [SpendNext]_spendVars
  PROVE  Steady \/ \E p \in Payments, req \in Requests : SendPayment(p, req)
<1>0. CASE UNCHANGED call
  BY <1>0, CallKinds DEF Steady, Carries, SpendTypeOK
<1>1. ASSUME NEW p \in Payments, InterceptRequest(p) PROVE Steady
  <2>1. call[p].stage = "asking" /\ call[p] # NoCall /\ call[p] \in Calls
    BY <1>1, CallKinds DEF InterceptRequest
  <2>2. CASE Move(p, "refused")
    BY <2>1, <2>2, MoveIsSteady DEF Stages
  <2>3. CASE call' = [call EXCEPT ![p].stage = "allowed", ![p].age = 0]
    <3>1. 0 \in 0..Window
      BY GuardSpendCapAssumption
    <3>2. call'[p] = [call[p] EXCEPT !.stage = "allowed", !.age = 0]
          /\ \A q \in Payments \ {p} : call'[q] = call[q]
      BY <2>3 DEF SpendTypeOK
    <3>3. Carries(p)
      BY <2>1, <3>1, <3>2 DEF Calls, Carries, Stages
    <3> QED BY <2>1, <2>3, <3>2, <3>3, CallKinds DEF Steady, SpendTypeOK, Carries
  <2> QED BY <1>1, <2>2, <2>3 DEF InterceptRequest
<1>2. ASSUME NEW p \in Payments, Proceed(p) \/ TimeOut(p) PROVE Steady
  BY <1>2, MoveIsSteady DEF Proceed, TimeOut, Stages
<1>3. ASSUME NEW p \in Payments, NEW how \in {"settled", "failed"}, End(p, how) PROVE Steady
  BY <1>3, MoveIsSteady DEF End, Stages
<1>4. CASE StreamEnds \/ GuardRestarts \/ NodeRestarts
  BY <1>4, UnansweredIsSteady DEF StreamEnds, GuardRestarts, NodeRestarts
<1>5. CASE Tick
  <2>1. ASSUME NEW q \in Payments, call[q] # NoCall PROVE Carries(q)
    <3>1. call[q] \in Calls
      BY <2>1, CallKinds
    <3>2. Older(call[q].age) \in 0..Window
      BY <3>1, GuardSpendCapAssumption DEF Calls, Older
    <3>3. call'[q] = [call[q] EXCEPT !.age = Older(call[q].age)]
      BY <1>5, <2>1 DEF Tick
    <3> QED BY <3>1, <3>2, <3>3 DEF Calls, Carries
  <2>2. \A q \in Payments : call[q] = NoCall => call'[q] = NoCall
    BY <1>5 DEF Tick
  <2> QED BY <1>5, <2>1, <2>2 DEF Steady, Tick
<1> QED BY <1>0, <1>1, <1>2, <1>3, <1>4, <1>5
     DEF SpendNext, ObserveResponse, ChangeLimit, Register, spendVars

(* ... and a new call has a number of its own.                             *)
LEMMA SendIsNew ==
  ASSUME SpendTypeOK, NEW p \in Payments, NEW req \in Requests, SendPayment(p, req)
  PROVE  /\ call[p] = NoCall /\ call'[p] \in Calls
         /\ call'[p].stage = "asking" /\ call'[p].on = stream
         /\ call'[p].id = lastId + 1 /\ call'[p].node = node
         /\ \A q \in Payments \ {p} : call'[q] = call[q]
         /\ call' \in [Payments -> Calls \cup {NoCall}]
<1>1. call[p] = NoCall
  BY CallKinds DEF SendPayment, Stages
<1>2. stream \in Streams /\ node \in 1..MaxMishaps + 1 /\ lastId + 1 \in Nat \ {0}
      /\ 0 \in 0..Window
  BY GuardSpendCapAssumption DEF SpendTypeOK, stream, Streams
<1>3. call'[p] = [stage |-> "asking", req |-> req, id |-> lastId + 1, on |-> stream,
                  node |-> node, age |-> 0]
      /\ \A q \in Payments \ {p} : call'[q] = call[q]
  BY DEF SendPayment, SpendTypeOK
<1>4. call'[p] \in Calls
  BY <1>2, <1>3 DEF Calls, Stages
<1> QED BY <1>1, <1>3, <1>4 DEF SendPayment, SpendTypeOK

(* Mishaps are counted, and starts and registrations with them.            *)
LEMMA StepCounted ==
  ASSUME SpendTypeOK, Counted, [SpendNext]_spendVars
  PROVE  /\ Counted'
         /\ mishaps' \in 0..MaxMishaps /\ run' \in 1..MaxMishaps + 1
         /\ node' \in 1..MaxMishaps + 1 /\ session' \in 0..MaxMishaps + 1
<1>1. MaxMishaps \in Nat
  BY GuardSpendCapAssumption
<1> USE <1>1 DEF SpendTypeOK, Counted, Mishap
<1>2. CASE UNCHANGED <<run, node, session, up, mishaps>>
  BY <1>2
<1>3. CASE UNCHANGED <<run, node, session, up>> /\ Mishap
  BY <1>3
<1>4. CASE Register
  BY <1>4 DEF Register
<1>5. CASE StreamEnds
  BY <1>5 DEF StreamEnds
<1>6. CASE GuardRestarts
  BY <1>6 DEF GuardRestarts
<1>7. CASE NodeRestarts
  BY <1>7 DEF NodeRestarts
<1> QED BY <1>2, <1>3, <1>4, <1>5, <1>6, <1>7
     DEF SpendNext, SendPayment, InterceptRequest, Proceed, TimeOut, ObserveResponse, End,
         ChangeLimit, Tick, spendVars

(* What a step may do to the records.                                      *)
LEMMA StepRecords ==
  ASSUME SpendTypeOK, IsFiniteSet(attempts), [SpendNext]_spendVars
  PROVE  /\ attempts' \subseteq [key : Keys, msat : 1..maxCountableMsat, age : 0..Window]
         /\ IsFiniteSet(attempts')
<1> DEFINE Records == [key : Keys, msat : 1..maxCountableMsat, age : 0..Window]
<1>1. CASE UNCHANGED attempts
  BY <1>1 DEF SpendTypeOK
<1>2. Kept \subseteq attempts /\ IsFiniteSet(Kept)
  BY FS_Subset DEF Kept
<1>3. ASSUME NEW p \in Payments, InterceptRequest(p) PROVE attempts' \subseteq Records /\ IsFiniteSet(attempts')
  <2> DEFINE rec == [key |-> attemptKey(call[p].on, call[p].id),
                     msat |-> priceAttempt(call[p].req), age |-> 0]
  <2>1. CASE Priceable(call[p].req) /\ attempts' = Kept \cup {rec}
    <3>1. call[p] \in Calls
      BY <1>3, CallKinds DEF InterceptRequest
    <3>2. attemptKey(call[p].on, call[p].id) \in Keys
      BY <3>1 DEF Calls, attemptKey, Keys, Streams
    <3>3. priceAttempt(call[p].req) \in 1..maxCountableMsat
      BY <2>1, <3>1, PriceIsRight DEF Calls
    <3>4. rec \in Records
      BY <3>2, <3>3, GuardSpendCapAssumption
    <3>5. IsFiniteSet(Kept \cup {rec})
      BY <1>2, FS_AddElement
    <3> HIDE DEF rec
    <3> QED BY <1>2, <2>1, <3>4, <3>5 DEF SpendTypeOK
  <2> QED BY <1>1, <1>3, <2>1 DEF InterceptRequest
<1>4. ASSUME NEW p \in Payments, ObserveResponse(p) PROVE attempts' \subseteq Records /\ IsFiniteSet(attempts')
  <2>1. attempts' \subseteq attempts
    BY <1>2, <1>4 DEF ObserveResponse
  <2> QED BY <2>1, FS_Subset DEF SpendTypeOK
<1>5. CASE Tick
  <2>1. attempts' = {[a EXCEPT !.age = Older(@)] : a \in attempts}
    BY <1>5 DEF Tick
  <2>2. \A a \in attempts : [a EXCEPT !.age = Older(@)] \in Records
    <3>1. \A n \in 0..Window : Older(n) \in 0..Window
      BY GuardSpendCapAssumption DEF Older
    <3> QED BY <3>1 DEF SpendTypeOK
  <2>3. IsFiniteSet({[a EXCEPT !.age = Older(@)] : a \in attempts})
    <3> DEFINE older == [a \in attempts |-> [a EXCEPT !.age = Older(@)]]
               Aged == {[a EXCEPT !.age = Older(@)] : a \in attempts}
    <3>1. older \in Surjection(attempts, Aged)
      BY Zenon DEF Surjection
    <3> HIDE DEF older, Aged
    <3>2. IsFiniteSet(Aged)
      BY <3>1, FS_Surjection
    <3> QED BY <3>2 DEF Aged
  <2> QED BY <2>1, <2>2, <2>3
<1> QED BY <1>1, <1>3, <1>4, <1>5
     DEF SpendNext, SendPayment, Proceed, TimeOut, End, ChangeLimit, Register, StreamEnds,
         GuardRestarts, NodeRestarts, spendVars

LEMMA StepSpendTyped ==
  ASSUME SpendTypeOK, IsFiniteSet(attempts), Counted, [SpendNext]_spendVars
  PROVE  SpendTypeOK'
<1>1. call' \in [Payments -> Calls \cup {NoCall}]
  BY StepSteady, SendIsNew DEF Steady, Carries
<1>2. lastId' \in Nat
  <2>1. lastId' = lastId \/ lastId' = lastId + 1 \/ lastId' = 0
    BY DEF SpendNext, SendPayment, InterceptRequest, Proceed, TimeOut, ObserveResponse, End,
       ChangeLimit, Register, StreamEnds, GuardRestarts, NodeRestarts, Tick, spendVars
  <2> QED BY <2>1 DEF SpendTypeOK
<1>4. up' \in BOOLEAN
  <2>1. up' = up \/ up' = TRUE \/ up' = FALSE
    BY Zenon DEF SpendNext, SendPayment, InterceptRequest, Proceed, TimeOut, ObserveResponse,
       End, ChangeLimit, Register, StreamEnds, GuardRestarts, NodeRestarts, Tick, spendVars
  <2> QED BY <2>1, Zenon DEF SpendTypeOK
<1>3. windowCap' \in Limits /\ paymentCap' \in Limits /\ paymentCap' <= windowCap'
  BY DEF SpendTypeOK, SpendNext, SendPayment, InterceptRequest, Proceed, TimeOut,
     ObserveResponse, End, ChangeLimit, Register, StreamEnds, GuardRestarts, NodeRestarts,
     Tick, spendVars
<1> QED BY <1>1, <1>2, <1>3, <1>4, StepCounted, StepRecords DEF SpendTypeOK

(* Calls keep numbers of their own through the restarts of both sides.     *)
LEMMA StepNumbered ==
  ASSUME SpendTypeOK, Numbered, [SpendNext]_spendVars
  PROVE  Numbered'
<1>1. ASSUME NEW p \in Payments, NEW req \in Requests, SendPayment(p, req) PROVE Numbered'
  <2>1. lastId' = lastId + 1 /\ node' = node
    BY <1>1 DEF SendPayment
  <2>2. Called' = Called \cup {p} /\ p \notin Called
    BY <1>1, SendIsNew, CallKinds DEF Called, NoCall, Calls
  <2>3. \A q \in Called : call'[q] = call[q] /\ call[q] \in Calls
    BY <1>1, SendIsNew, CallKinds DEF Called
  <2>4. call'[p].id = lastId + 1 /\ call'[p].node = node
    BY <1>1, SendIsNew
  <2> QED BY <2>1, <2>2, <2>3, <2>4 DEF SpendTypeOK, Numbered, Calls
<1>2. CASE Steady
  <2>1. Called' = Called
    BY <1>2 DEF Steady, Called, Carries, NoCall, Calls
  <2>2. \A q \in Called : /\ call[q] \in Calls
                          /\ call'[q].id = call[q].id /\ call'[q].node = call[q].node
    BY <1>2, CallKinds DEF Steady, Called, Carries
  <2>3. CASE UNCHANGED <<node, lastId>>
    BY <2>1, <2>2, <2>3 DEF Numbered
  <2>4. CASE node' = node + 1
    BY <2>1, <2>2, <2>4 DEF SpendTypeOK, Numbered, Calls
  <2> QED BY <1>1, <2>3, <2>4
     DEF SpendNext, InterceptRequest, Proceed, TimeOut, ObserveResponse, End, ChangeLimit,
         Register, StreamEnds, GuardRestarts, NodeRestarts, Tick, spendVars
<1> QED BY <1>1, <1>2, StepSteady

(* A registration never spans two runs of the node, and none is used again.*)
LEMMA StepRegistered ==
  ASSUME SpendTypeOK, Registered, [SpendNext]_spendVars
  PROVE  Registered'
<1>1. ASSUME NEW p \in Payments, NEW req \in Requests, SendPayment(p, req) PROVE Registered'
  <2>1. UNCHANGED <<run, session, up, node, stream>> /\ up
    BY <1>1 DEF SendPayment, stream
  <2>2. Called' = Called \cup {p} /\ p \notin Called
    BY <1>1, SendIsNew, CallKinds DEF Called, NoCall, Calls
  <2>3. \A q \in Called : call'[q] = call[q] /\ call[q] \in Calls
    BY <1>1, SendIsNew, CallKinds DEF Called
  <2>4. call'[p].on = stream /\ call'[p].node = node
    BY <1>1, SendIsNew
  <2>5. stream[1] = run /\ stream[2] = session
    BY DEF stream
  <2> QED BY <2>1, <2>2, <2>3, <2>4, <2>5 DEF SpendTypeOK, Registered
<1>2. CASE Steady
  <2>1. Called' = Called
    BY <1>2 DEF Steady, Called, Carries, NoCall, Calls
  <2>2. \A q \in Called : /\ call[q].on \in Streams
                          /\ call'[q].on = call[q].on /\ call'[q].node = call[q].node
    BY <1>2, CallKinds DEF Steady, Called, Carries, Calls
  <2>3. CASE UNCHANGED <<run, session, up, node>>
    BY <2>1, <2>2, <2>3 DEF Registered, stream
  <2>4. CASE up' = FALSE /\ UNCHANGED <<run, session>>
    BY <2>1, <2>2, <2>4 DEF Registered
  <2>5. CASE GuardRestarts
    BY <2>1, <2>2, <2>5 DEF GuardRestarts, SpendTypeOK, Registered, Streams
  <2>6. CASE Register
    <3>1. \A q \in Called : call[q].on # <<run, session + 1>>
      BY <2>2 DEF SpendTypeOK, Registered, Streams
    <3>2. stream' = <<run, session + 1>> /\ run' = run /\ session' = session + 1
      BY <2>6 DEF Register, stream
    <3> QED BY <2>1, <2>2, <3>1, <3>2 DEF SpendTypeOK, Registered, Streams
  <2> QED BY <1>1, <2>3, <2>4, <2>5, <2>6
     DEF SpendNext, InterceptRequest, Proceed, TimeOut, ObserveResponse, End, ChangeLimit,
         StreamEnds, NodeRestarts, Tick, spendVars
<1> QED BY <1>1, <1>2, StepSteady

(* A step that leaves the records and what may be spent as they are.       *)
LEMMA QuietKeepsRecords ==
  ASSUME Recorded, UNCHANGED attempts,
         \A q \in Payments : q \in Spending' =>
           /\ q \in Spending
           /\ call'[q].req = call[q].req /\ call'[q].on = call[q].on
           /\ call'[q].id = call[q].id /\ call'[q].age = call[q].age
  PROVE  Recorded'
BY DEF Recorded, OwnRecord, Spending

(* A record is handed back only for a call that failed: no other call has  *)
(* its number in this run of the node's (ObserveResponse).                 *)
LEMMA ObserveKeepsRecords ==
  ASSUME SpendTypeOK, Numbered, Registered, Recorded,
         NEW p \in Payments, ObserveResponse(p)
  PROVE  Recorded'
<1>1. Spending' = Spending /\ \A q \in Spending' : OwnRecord(q)' = OwnRecord(q)
  BY DEF ObserveResponse, Spending, OwnRecord
<1>2. ASSUME NEW q \in Spending PROVE OwnRecord(q) \in attempts'
  <2>1. OwnRecord(q) \in attempts /\ q \in Payments /\ call[q].age < Window
        /\ call[q].stage \in {"allowed", "sent", "settled"}
    BY DEF Recorded, Spending
  <2>2. OwnRecord(q) \in Kept
    BY <2>1 DEF Kept, OwnRecord
  <2>3. ASSUME call[p].stage = "failed", OwnRecord(q).key = attemptKey(stream, call[p].id)
        PROVE  FALSE
    <3>1. call[q] \in Calls /\ q \in Called /\ p \in Called /\ call[p] \in Calls
      BY <2>1, <2>3, CallKinds DEF Called
    <3>2. call[q].on[1] = run /\ call[q].on[2] = session /\ call[q].id = call[p].id
      BY <2>3 DEF OwnRecord, attemptKey, stream
    <3>3. call[q].on = stream
      BY <3>1, <3>2 DEF Calls, Streams, stream
    <3>4. call[q].node = node /\ call[p].node = node
      BY <3>1, <3>3 DEF ObserveResponse, Registered
    <3> QED BY <2>1, <2>3, <3>1, <3>2, <3>4 DEF Numbered
  <2>4. CASE UNCHANGED attempts
    BY <2>1, <2>4
  <2>5. CASE call[p].stage = "failed"
    <3> DEFINE found == {a \in Kept : a.key = attemptKey(stream, call[p].id)}
    <3>1. CASE attempts' = Kept \ {CHOOSE a \in found : TRUE} /\ found # {}
      <4>1. (CHOOSE a \in found : TRUE) \in found
        BY <3>1
      <4>2. OwnRecord(q) # (CHOOSE a \in found : TRUE)
        BY <2>3, <2>5, <4>1
      <4> QED BY <2>2, <3>1, <4>2
    <3> QED BY <2>4, <3>1 DEF ObserveResponse
  <2> QED BY <2>4, <2>5 DEF ObserveResponse, Returns
<1> QED BY <1>1, <1>2 DEF Recorded

(* What is let through is recorded in the same write (InterceptRequest).   *)
LEMMA AllowRecords ==
  ASSUME SpendTypeOK, Recorded, NEW p \in Payments, InterceptRequest(p),
         call'[p].stage = "allowed"
  PROVE  LET rec == [key |-> attemptKey(call[p].on, call[p].id),
                     msat |-> priceAttempt(call[p].req), age |-> 0]
         IN  /\ Priceable(call[p].req) /\ HasRoom(priceAttempt(call[p].req))
             /\ attempts' = Kept \cup {rec}
             /\ NodeTakes(call[p].req) => OwnRecord(p)' = rec
             /\ \A q \in Spending' \ {p} : q \in Spending /\ call'[q] = call[q]
<1>1. call[p].stage = "asking" /\ call[p] \in Calls
  BY CallKinds DEF InterceptRequest
<1>2. ~Move(p, "refused")
  BY <1>1, MoveIsSteady DEF Stages
<1>3. /\ Priceable(call[p].req) /\ HasRoom(priceAttempt(call[p].req))
      /\ call' = [call EXCEPT ![p].stage = "allowed", ![p].age = 0]
      /\ attempts' = Kept \cup {[key |-> attemptKey(call[p].on, call[p].id),
                                msat |-> priceAttempt(call[p].req), age |-> 0]}
  BY <1>2 DEF InterceptRequest
<1>4. /\ call'[p] = [call[p] EXCEPT !.stage = "allowed", !.age = 0]
      /\ \A q \in Payments \ {p} : call'[q] = call[q]
  BY <1>3 DEF SpendTypeOK
<1>5. /\ call'[p].req = call[p].req /\ call'[p].on = call[p].on
      /\ call'[p].id = call[p].id /\ call'[p].age = 0
  BY <1>1, <1>4 DEF Calls
<1>6. NodeTakes(call[p].req) => Cost(call[p].req) = priceAttempt(call[p].req)
  BY <1>1, <1>3, PriceIsRight DEF Calls
<1>7. \A q \in Spending' \ {p} : q \in Spending /\ call'[q] = call[q]
  BY <1>4 DEF Spending
<1> QED BY <1>3, <1>5, <1>6, <1>7 DEF OwnRecord

LEMMA StepRecorded ==
  ASSUME SpendTypeOK, Numbered, Registered, Recorded, [SpendNext]_spendVars
  PROVE  Recorded'
<1>1. CASE UNCHANGED <<attempts, call>>
  BY <1>1 DEF Recorded, OwnRecord, Spending
<1>2. ASSUME NEW p \in Payments, NEW req \in Requests, SendPayment(p, req) PROVE Recorded'
  <2>1. call'[p].stage = "asking" /\ \A q \in Payments \ {p} : call'[q] = call[q]
    BY <1>2, SendIsNew
  <2>2. UNCHANGED attempts
    BY <1>2 DEF SendPayment
  <2>3. \A q \in Payments : q \in Spending' => q \in Spending /\ call'[q] = call[q]
    BY <2>1 DEF Spending
  <2> QED BY <2>2, <2>3, QuietKeepsRecords
<1>3. ASSUME NEW p \in Payments, InterceptRequest(p) PROVE Recorded'
  <2>1. CASE call'[p].stage = "allowed"
    <3>1. ASSUME NEW q \in Spending' PROVE OwnRecord(q)' \in attempts'
      <4>1. CASE q = p
        <5>1. NodeTakes(call[p].req)
          <6>1. call[p] # NoCall
            BY <1>3, CallKinds DEF InterceptRequest
          <6> QED BY <1>3, <4>1, <6>1, StepSteady, SendIsNew
                  DEF Spending, SpendNext, Steady, Carries
        <5> QED BY <1>3, <2>1, <4>1, <5>1, AllowRecords
      <4>2. CASE q # p
        <5>1. q \in Spending /\ call'[q] = call[q] /\ attempts' = attempts' \cup Kept
          BY <1>3, <2>1, <4>2, AllowRecords
        <5>2. OwnRecord(q) \in Kept /\ OwnRecord(q)' = OwnRecord(q)
          BY <5>1 DEF Recorded, Spending, OwnRecord, Kept
        <5> QED BY <5>1, <5>2
      <4> QED BY <4>1, <4>2
    <3> QED BY <3>1 DEF Recorded
  <2>2. CASE Move(p, "refused") /\ UNCHANGED attempts
    <3>1. call[p].stage # "new" /\ "refused" \in Stages
      BY <1>3 DEF InterceptRequest, Stages
    <3>2. call'[p].stage = "refused" /\ \A q \in Payments \ {p} : call'[q] = call[q]
      BY <2>2, <3>1, MoveIsSteady
    <3> QED BY <2>2, <3>2, QuietKeepsRecords DEF Spending
  <2>3. CASE call' = [call EXCEPT ![p].stage = "allowed", ![p].age = 0]
    <3>1. call'[p].stage = "allowed"
      BY <1>3, <2>3, CallKinds DEF InterceptRequest, SpendTypeOK, Calls
    <3> QED BY <2>1, <3>1
  <2> QED BY <1>3, <2>2, <2>3 DEF InterceptRequest
<1>4. ASSUME NEW p \in Payments, Proceed(p) \/ TimeOut(p) PROVE Recorded'
  <2>1. PICK stage \in {"sent", "refused"} : Move(p, stage)
    BY <1>4 DEF Proceed, TimeOut
  <2>2. call[p].stage = "allowed" /\ stage \in Stages /\ UNCHANGED attempts
    BY <1>4 DEF Proceed, TimeOut, Stages
  <2>3. Steady /\ call'[p].age = call[p].age /\ \A q \in Payments \ {p} : call'[q] = call[q]
    BY <2>1, <2>2, MoveIsSteady
  <2>4. Carries(p)
    BY <2>2, <2>3, CallKinds DEF Steady
  <2> QED BY <2>2, <2>3, <2>4, QuietKeepsRecords DEF Spending, Carries
<1>5. ASSUME NEW p \in Payments, NEW how \in {"settled", "failed"}, End(p, how)
      PROVE  Recorded'
  <2>1. call[p].stage = "sent" /\ how \in Stages /\ UNCHANGED attempts /\ Move(p, how)
    BY <1>5 DEF End, Stages
  <2>2. Steady /\ call'[p].age = call[p].age /\ \A q \in Payments \ {p} : call'[q] = call[q]
    BY <2>1, MoveIsSteady
  <2>3. Carries(p)
    BY <2>1, <2>2, CallKinds DEF Steady
  <2> QED BY <2>1, <2>2, <2>3, QuietKeepsRecords DEF Spending, Carries
<1>6. CASE StreamEnds \/ GuardRestarts \/ NodeRestarts
  <2>1. call' = Unanswered /\ UNCHANGED attempts
    BY <1>6 DEF StreamEnds, GuardRestarts, NodeRestarts
  <2>2. ASSUME NEW q \in Payments, q \in Spending'
        PROVE  /\ q \in Spending
               /\ call'[q].req = call[q].req /\ call'[q].on = call[q].on
               /\ call'[q].id = call[q].id /\ call'[q].age = call[q].age
    <3>1. call'[q].stage \in {"sent", "settled"} /\ call[q].stage = call'[q].stage
      BY <2>1, <2>2, UnansweredIsSteady DEF Spending
    <3>2. call'[q] = call[q]
      BY <2>1, <3>1 DEF Unanswered
    <3> QED BY <2>2, <3>2 DEF Spending
  <2> QED BY <2>1, <2>2, QuietKeepsRecords
<1>7. CASE Tick
  <2>1. ASSUME NEW q \in Spending' PROVE OwnRecord(q)' \in attempts'
    <3>1. q \in Payments /\ call'[q].age < Window
          /\ call'[q].stage \in {"allowed", "sent", "settled"}
      BY DEF Spending
    <3>2. call[q] # NoCall
      BY <1>7, <3>1 DEF Tick, NoCall
    <3>3. call[q] \in Calls
      BY <3>1, <3>2, CallKinds
    <3>4. call'[q] = [call[q] EXCEPT !.age = Older(call[q].age)]
      BY <1>7, <3>1, <3>2 DEF Tick
    <3>5. /\ call'[q].stage = call[q].stage /\ call'[q].req = call[q].req
          /\ call'[q].on = call[q].on /\ call'[q].id = call[q].id
          /\ call'[q].age = Older(call[q].age) /\ call[q].age \in 0..Window
      BY <3>3, <3>4 DEF Calls
    <3>6. call[q].age < Window
      BY <3>1, <3>5, GuardSpendCapAssumption DEF Older
    <3>7. q \in Spending
      BY <3>1, <3>5, <3>6 DEF Spending
    <3>8. OwnRecord(q) \in attempts
      BY <3>7 DEF Recorded
    <3>9. OwnRecord(q)' = [OwnRecord(q) EXCEPT !.age = Older(@)]
      BY <3>5 DEF OwnRecord
    <3> QED BY <1>7, <3>8, <3>9 DEF Tick
  <2> QED BY <2>1 DEF Recorded
<1>8. ASSUME NEW p \in Payments, ObserveResponse(p) PROVE Recorded'
  BY <1>8, ObserveKeepsRecords
<1> QED BY <1>1, <1>2, <1>3, <1>4, <1>5, <1>6, <1>7, <1>8
     DEF SpendNext, ChangeLimit, Register, spendVars

LEMMA SpendInitInv == SpendInit => SpendIInv
<1> SUFFICES ASSUME SpendInit PROVE SpendIInv
  OBVIOUS
<1> USE GuardSpendCapAssumption DEF SpendInit
<1>1. SpendTypeOK
  <2>1. windowCap \in Limits /\ paymentCap \in Limits /\ paymentCap <= windowCap
    OBVIOUS
  <2>2. run \in 1..MaxMishaps + 1 /\ session \in 0..MaxMishaps + 1
        /\ node \in 1..MaxMishaps + 1 /\ lastId \in Nat /\ mishaps \in 0..MaxMishaps
    OBVIOUS
  <2>3. call \in [Payments -> Calls \cup {NoCall}]
    OBVIOUS
  <2>4. up \in BOOLEAN /\ attempts \subseteq {}
    OBVIOUS
  <2> QED BY <2>1, <2>2, <2>3, <2>4 DEF SpendTypeOK
<1>2. IsFiniteSet(attempts)
  BY FS_EmptySet
<1>3. Called = {} /\ Spending = {}
  BY DEF Called, Spending, NoCall
<1> QED BY <1>1, <1>2, <1>3 DEF SpendIInv, Counted, Numbered, Registered, Recorded

LEMMA SpendNextInv == SpendIInv /\ [SpendNext]_spendVars => SpendIInv'
BY StepSpendTyped, StepRecords, StepCounted, StepNumbered, StepRegistered, StepRecorded
   DEF SpendIInv

(* Every start of either side, every registration, every record and every  *)
(* price stays in its range: what is recorded has been priced without      *)
(* wrapping (priceAttempt, InterceptRequest).                              *)
THEOREM SpendTyped == SpendSpec => []SpendTypeOK
<1>1. SpendIInv => SpendTypeOK
  BY DEF SpendIInv
<1> QED BY <1>1, SpendInitInv, SpendNextInv, PTL DEF SpendSpec

(* At the moment a payment is let through, the records of all that may     *)
(* still be spent in the window are different ones, its own among them,    *)
(* and what they come to was measured against the limit.                   *)
LEMMA AllowedFits ==
  ASSUME IsFiniteSet(Payments), SpendIInv, SpendIInv', NEW p \in Payments,
         InterceptRequest(p), Allows(p), NodeTakes(call[p].req)
  PROVE  /\ Cost(call[p].req) <= paymentCap
         /\ SumFunction([q \in Spending' |-> Cost(call'[q].req)]) <= windowCap
<1> DEFINE rec == [key |-> attemptKey(call[p].on, call[p].id),
                   msat |-> priceAttempt(call[p].req), age |-> 0]
           Costs == [q \in Spending' |-> Cost(call'[q].req)]
           Own == [q \in Spending' |-> OwnRecord(q)']
           Books == Kept \cup {rec}
           Value == [a \in Books |-> a.msat]
           Before == [a \in Kept |-> a.msat]
           Sum(A) == SumFunctionOnSet(Value, A)
           Spent == SumFunctionOnSet(Costs, Spending')
           price == priceAttempt(call[p].req)
<1>1. /\ Priceable(call[p].req) /\ HasRoom(price) /\ attempts' = Books
  BY AllowRecords DEF Allows, SpendIInv
<1>2. call[p] \in Calls /\ price \in 1..maxCountableMsat /\ Cost(call[p].req) = price
  <2>1. call[p] \in Calls
    BY CallKinds DEF Allows, SpendIInv
  <2> QED BY <1>1, <2>1, PriceIsRight DEF Calls
<1>3. /\ IsFiniteSet(Kept) /\ IsFiniteSet(Books)
      /\ \A a \in Books : a.msat \in Nat /\ Value[a] = a.msat
      /\ \A a \in Kept : Before[a] = a.msat /\ a.msat \in Nat
  <2>1. IsFiniteSet(Kept) /\ Kept \subseteq attempts
    BY FS_Subset DEF SpendIInv, Kept
  <2>2. IsFiniteSet(Books)
    BY <2>1, FS_AddElement
  <2>3. \A a \in Kept : a.msat \in Nat
    BY <2>1, CountableBound DEF SpendIInv, SpendTypeOK
  <2>4. rec.msat \in Nat
    BY <1>2, CountableBound
  <2> HIDE DEF rec
  <2> QED BY <2>1, <2>2, <2>3, <2>4
<1>4. ASSUME NEW q \in Spending'
      PROVE  /\ Own[q] \in Books /\ Own[q].msat = Costs[q] /\ q \in Payments
             /\ q \in Called' /\ call'[q] \in Calls
             /\ Own[q].key = <<call'[q].on[1], call'[q].on[2], call'[q].id>>
  <2>1. Own[q] \in Books /\ Own[q].msat = Costs[q] /\ q \in Payments
    BY <1>1 DEF SpendIInv, Recorded, OwnRecord, Spending
  <2>2. Own[q].key = <<call'[q].on[1], call'[q].on[2], call'[q].id>>
    BY DEF OwnRecord, attemptKey
  <2>3. call'[q] # NoCall
    BY DEF Spending, NoCall
  <2>4. call'[q] \in Calls
    BY <2>1, <2>3 DEF SpendIInv, SpendTypeOK
  <2> QED BY <2>1, <2>2, <2>3, <2>4 DEF Called
<1>5. ASSUME NEW q \in Spending', NEW r \in Spending', Own[q] = Own[r]
      PROVE  q = r
  <2>1. /\ call'[q].on[1] = call'[r].on[1] /\ call'[q].on[2] = call'[r].on[2]
        /\ call'[q].id = call'[r].id
    <3> HIDE DEF Own
    <3> QED BY <1>4, <1>5
  <2>2. call'[q].on = call'[r].on
    BY <1>4, <2>1 DEF Calls, Streams
  <2> QED BY <1>4, <2>1, <2>2 DEF SpendIInv, Registered, Numbered
<1>6. IsFiniteSet(Spending') /\ \A q \in Spending' : Costs[q] \in Nat
  <2>1. Spending' \subseteq Payments
    BY DEF Spending
  <2> QED BY <1>3, <1>4, <2>1, FS_Subset
<1>7. Own \in [Spending' -> Books]
  BY <1>4
<1>8. Spent <= Sum(Books)
  <2>1. \A q \in Spending' : Costs[q] <= Value[Own[q]]
    BY <1>3, <1>4, <1>6
  <2>2. \A a \in Books : Value[a] \in Nat
    BY <1>3
  <2> HIDE DEF Costs, Own, Books, Value
  <2> QED BY <1>3, <1>5, <1>6, <1>7, <2>1, <2>2, SumFits
<1>9. Sum(Books) <= Used + price /\ Sum(Books) \in Nat /\ Used \in Nat
  <2>1. Used = SumFunctionOnSet(Before, Kept)
    BY DEF Used, SumFunction
  <2>2. Used = Sum(Kept)
    <3> HIDE DEF Value, Before
    <3>1. \A a \in Kept : Value[a] = Before[a] /\ Before[a] \in Int
      BY <1>3 DEF Books
    <3> HIDE DEF Books
    <3> QED BY <1>3, <2>1, <3>1, SameSum
  <2>3. Sum(Books) = Value[rec] + Sum(Books \ {rec})
    <3>1. rec \in Books
      OBVIOUS
    <3>2. \A a \in Books : Value[a] \in Int
      <4> HIDE DEF Books, rec, Value
      <4> QED BY <1>3
    <3> HIDE DEF Value, Books, rec
    <3> QED BY <1>3, <3>1, <3>2, SumWithout
  <2>4. Value[rec] = price
    OBVIOUS
  <2>5. Sum(Books \ {rec}) <= Sum(Kept)
    <3> DEFINE Same == [a \in Books \ {rec} |-> a]
    <3>1. IsFiniteSet(Books \ {rec}) /\ Books \ {rec} \subseteq Kept
      BY <1>3, FS_Subset
    <3>2. \A a \in Books : Value[a] \in Nat
      BY <1>3
    <3> DEFINE Others == Books \ {rec}
    <3> HIDE DEF Value, Books, Others
    <3>3. Same \in [Others -> Kept] /\ \A a \in Others : Same[a] = a
      BY <3>1 DEF Others
    <3>4. /\ \A a \in Others : Value[a] \in Nat /\ Value[a] <= Value[Same[a]]
          /\ \A a \in Kept : Value[a] \in Nat /\ a \in Books
          /\ \A a, b \in Others : Same[a] = Same[b] => a = b
      BY <3>1, <3>2, <3>3 DEF Books, Others
    <3> HIDE DEF Same
    <3>5. SumFunctionOnSet(Value, Others) <= SumFunctionOnSet(Value, Kept)
      BY <1>3, <3>1, <3>3, <3>4, SumFits DEF Others
    <3> QED BY <3>5 DEF Others
  <2>6. Sum(Books) \in Nat /\ Sum(Kept) \in Nat /\ Sum(Books \ {rec}) \in Nat
    <3>1. IsFiniteSet(Books \ {rec})
      BY <1>3, FS_Subset
    <3> HIDE DEF Value, rec
    <3> QED BY <1>3, <3>1, SumIsNat
  <2> HIDE DEF Value, Books, rec, Sum, price
  <2> QED BY <1>2, <2>2, <2>3, <2>4, <2>5, <2>6
<1>10. price <= paymentCap /\ Used + price <= windowCap /\ windowCap \in Nat
  <2>1. windowCap \in Nat
    BY CountableBound, GuardSpendCapAssumption DEF SpendIInv, SpendTypeOK
  <2> QED BY <1>1, <2>1 DEF HasRoom
<1>11. SumFunction(Costs) = Spent
  BY DEF SumFunction
<1>12. Spent \in Nat
  <2> HIDE DEF Costs
  <2> QED BY <1>6, SumIsNat
<1>13. Spent <= windowCap
  <2> HIDE DEF Costs, Books, Sum, Spent, price
  <2> QED BY <1>2, <1>8, <1>9, <1>10, <1>12
<1> QED
  <2>1. SumFunction(Costs) <= windowCap /\ Cost(call[p].req) <= paymentCap
    BY <1>2, <1>10, <1>11, <1>13
  <2> QED BY <2>1

(* What the guard lets through within one window, whatever restarts, lost  *)
(* answers, refunds and changes of the limits come in between, stays       *)
(* within the limit (InterceptRequest, ObserveResponse).                   *)
THEOREM SpendStaysUnderTheCap ==
  ASSUME IsFiniteSet(Payments)
  PROVE  SpendSpec => SpendCapHolds
<1> DEFINE Held ==
      \A p \in Payments : Allows(p) /\ NodeTakes(call[p].req) =>
        /\ Cost(call[p].req) <= paymentCap
        /\ SumFunction([q \in Spending' |-> Cost(call'[q].req)]) <= windowCap
<1>1. ASSUME SpendIInv, [SpendNext]_spendVars, NEW p \in Payments, Allows(p)
      PROVE  InterceptRequest(p)
  <2>1. call[p] \in Calls /\ call[p] # NoCall /\ call[p].stage = "asking"
    BY <1>1, CallKinds DEF Allows, SpendIInv
  <2>2. ASSUME NEW q \in Payments, NEW stage \in Stages \ {"allowed"}, Move(q, stage),
               call[q].stage # "new"
        PROVE  FALSE
    <3>1. call'[p].stage \in {call[p].stage, stage}
      BY <1>1, <2>2, MoveIsSteady DEF SpendIInv
    <3> QED BY <1>1, <2>1, <2>2, <3>1 DEF Allows
  <2>3. ASSUME NEW q \in Payments, InterceptRequest(q), q # p PROVE FALSE
    BY <1>1, <2>1, <2>3 DEF InterceptRequest, Allows, Move, SpendIInv, SpendTypeOK
  <2>4. ASSUME NEW q \in Payments, NEW req \in Requests, SendPayment(q, req) PROVE FALSE
    BY <1>1, <2>1, <2>4, SendIsNew DEF SpendIInv, Allows
  <2>5. ASSUME NEW q \in Payments, Proceed(q) \/ TimeOut(q) PROVE FALSE
    BY <2>2, <2>5 DEF Proceed, TimeOut, Stages
  <2>6. ASSUME NEW q \in Payments, NEW how \in {"settled", "failed"}, End(q, how) PROVE FALSE
    BY <2>2, <2>6 DEF End, Stages
  <2>7. CASE StreamEnds \/ GuardRestarts \/ NodeRestarts
    BY <1>1, <2>7, UnansweredIsSteady
    DEF StreamEnds, GuardRestarts, NodeRestarts, SpendIInv, Allows
  <2>8. CASE Tick
    <3>1. call'[p] = [call[p] EXCEPT !.age = Older(call[p].age)]
      BY <2>1, <2>8 DEF Tick
    <3> QED BY <1>1, <2>1, <3>1 DEF Allows, Calls
  <2>9. CASE UNCHANGED call
    BY <1>1, <2>9 DEF Allows
  <2> QED BY <1>1, <2>3, <2>4, <2>5, <2>6, <2>7, <2>8, <2>9
       DEF SpendNext, ObserveResponse, ChangeLimit, Register, spendVars
<1>2. SpendIInv /\ SpendIInv' /\ [SpendNext]_spendVars => [Held]_spendVars
  <2> SUFFICES ASSUME SpendIInv, SpendIInv', [SpendNext]_spendVars PROVE Held
    OBVIOUS
  <2> QED BY <1>1, AllowedFits
<1> QED BY <1>2, SpendInitInv, SpendNextInv, PTL DEF SpendSpec, SpendCapHolds
==============================================================================
