------------------------------ MODULE EmailProofs ------------------------------
(***************************************************************************)
(* What EmailWorkflow guarantees for any number of sessions, partners, data*)
(* sets, authorizations and faults.                                        *)
(*                                                                         *)
(* Of deliveries: the columns and locals keep their types, the claim of a  *)
(* send key is exclusive, SENT means delivered, a duplicate needs both a   *)
(* failing call and a retry, a period closed as complete is delivered while*)
(* its documents stay the same, and every step is one of SendLedger or     *)
(* changes nothing it sees.                                                *)
(*                                                                         *)
(* Of authorizations: one ACTIVE row at most, no ended row ACTIVE again,   *)
(* and every claim covered by a SEND authorization of the sender's own     *)
(* package set; under the Admin Control page too, and there a SEND         *)
(* authorization follows another.                                          *)
(***************************************************************************)
EXTENDS EmailLedger, EmailCenter, FiniteSetTheorems, TLAPS

----------------------------------------------------------------------------
(* Type correctness *)

LEMMA StepNames ==
    /\ "idle" \in Steps
    /\ \A step \in SendSteps \cup AdminSteps : step \in Steps
BY DEF Steps

LEMMA GotoType ==
    ASSUME NEW s \in Sessions, NEW step \in Steps,
           pc \in [Sessions -> Steps], Goto(s, step)
    PROVE  pc' \in [Sessions -> Steps]
BY DEF Goto

LEMMA NoRequestType == NoRequest \in Requests
BY DEF NoRequest, Requests, Modes

LEMMA FinishType ==
    ASSUME NEW s \in Sessions,
           pc \in [Sessions -> Steps], req \in [Sessions -> Requests], Finish(s)
    PROVE  /\ pc' \in [Sessions -> Steps]
           /\ req' \in [Sessions -> Requests]
BY NoRequestType DEF Finish, Steps

LEMMA ContinueType ==
    ASSUME NEW s \in Sessions,
           pc \in [Sessions -> Steps], req \in [Sessions -> Requests], Continue(s)
    PROVE  /\ pc' \in [Sessions -> Steps]
           /\ req' \in [Sessions -> Requests]
<1>1. CASE Finish(s)
  BY <1>1, FinishType
<1>2. CASE Goto(s, "send_next") /\ UNCHANGED req
  BY <1>2 DEF Goto, Steps, SendSteps
<1> QED BY <1>1, <1>2 DEF Continue

LEMMA AuthUpdateType ==
    ASSUME NEW s \in Sessions, NEW a \in AuthIds, req \in [Sessions -> Requests],
           req' = [req EXCEPT ![s].auth = a]
    PROVE  req' \in [Sessions -> Requests]
<1>1. [req[s] EXCEPT !.auth = a] \in Requests
  BY DEF Requests
<1>2. req' = [req EXCEPT ![s] = [req[s] EXCEPT !.auth = a]]
  OBVIOUS
<1> QED BY <1>1, <1>2

LEMMA NextPackageType ==
    ASSUME NEW r \in Requests, NEW p \in r.todo
    PROVE  [r EXCEPT !.partner = p, !.todo = r.todo \ {p}] \in Requests
<1>1. p \in Partners /\ r.todo \ {p} \in SUBSET Partners
  BY DEF Requests
<1> QED BY <1>1 DEF Requests

LEMMA PackagesType ==
    ASSUME NEW n \in Snapshots
    PROVE  PeriodPackages(n) \in SUBSET Packages
BY DEF Packages

LEMMA SendRequestType ==
    ASSUME NEW todo \in SUBSET Partners, NEW retry \in BOOLEAN,
           NEW ready \in BOOLEAN, NEW n \in Snapshots
    PROVE  [NoRequest EXCEPT !.todo = todo, !.retry = retry, !.ready = ready,
                             !.snap = n, !.packages = PeriodPackages(n)]
              \in Requests
BY PackagesType DEF NoRequest, Requests, Modes

LEMMA ModeRequestType ==
    ASSUME NEW m \in Modes, NEW n \in Snapshots
    PROVE  /\ [NoRequest EXCEPT !.mode = m, !.packages = PeriodPackages(n)]
                 \in Requests
           /\ [NoRequest EXCEPT !.mode = m] \in Requests
BY PackagesType DEF NoRequest, Requests, Modes

LEMMA LockRequestType ==
    ASSUME NEW manual \in BOOLEAN, NEW n \in Nat
    PROVE  [NoRequest EXCEPT !.manual = manual, !.intended = n] \in Requests
BY DEF NoRequest, Requests, Modes

LEMMA CountType ==
    ASSUME NEW f \in [Keys -> Nat], NEW k, NEW n \in Nat
    PROVE  [f EXCEPT ![k] = @ + n] \in [Keys -> Nat]
<1>1. CASE k \in Keys
  <2>1. f[k] + n \in Nat
    BY <1>1
  <2> QED BY <2>1
<1>2. CASE k \notin Keys
  <2>1. \A x \in Keys : [f EXCEPT ![k] = @ + n][x] = f[x]
    BY <1>2
  <2> QED BY <2>1
<1> QED BY <1>1, <1>2

LEMMA BeginTypes ==
    ASSUME TypeOK, NEW s \in Sessions, Begin(s)
    PROVE  TypeOK'
<1> USE DEF TypeOK, repository
<1>1. UNCHANGED <<repository, deliveries, snapshot, closure, faults>>
  BY DEF Begin, BeginSend, BeginBatch, BeginAuthorize, BeginSafeMode,
         BeginLock, BeginReopen
<1>2. pc' \in [Sessions -> Steps]
  <2>1. PICK step \in {"send_next", "auth_lock", "safe_lock", "lock_count", "reopen_check"} :
           Goto(s, step)
    BY Zenon DEF Begin, BeginSend, BeginBatch, BeginAuthorize, BeginSafeMode, BeginLock,
                 BeginReopen
  <2>2. step \in Steps
    BY <2>1 DEF Steps, SendSteps, AdminSteps
  <2> QED BY <2>1, <2>2 DEF Goto
<1>3. req' \in [Sessions -> Requests]
  <2>1. CASE BeginSend(s)
    <3>1. PICK p \in Partners, retry \in BOOLEAN :
             \E ready \in {FALSE, ReadyForSend(p, snapshot)} :
                req' = [req EXCEPT ![s] = [NoRequest EXCEPT
                           !.todo = {p}, !.retry = retry, !.ready = ready,
                           !.snap = snapshot,
                           !.packages = PeriodPackages(snapshot)]]
      BY <2>1, Zenon DEF BeginSend
    <3>2. ReadyForSend(p, snapshot) \in BOOLEAN
      BY DEF ReadyForSend
    <3>3. PICK ready \in BOOLEAN :
             req' = [req EXCEPT ![s] = [NoRequest EXCEPT
                        !.todo = {p}, !.retry = retry, !.ready = ready,
                        !.snap = snapshot,
                        !.packages = PeriodPackages(snapshot)]]
      BY <3>1, <3>2
    <3>4. {p} \in SUBSET Partners
      OBVIOUS
    <3> QED BY <3>3, <3>4, SendRequestType
  <2>2. CASE BeginBatch(s)
    <3>1. PICK batch \in SUBSET Partners, retry \in BOOLEAN :
             req' = [req EXCEPT ![s] = [NoRequest EXCEPT
                        !.todo = batch, !.retry = retry, !.ready = TRUE,
                        !.snap = snapshot,
                        !.packages = PeriodPackages(snapshot)]]
      BY <2>2 DEF BeginBatch
    <3> QED BY <3>1, SendRequestType
  <2>3. CASE BeginAuthorize(s)
    <3>1. AuthorizedModes \subseteq Modes
      BY ConstantsAssumption DEF Modes
    <3>2. PICK m \in Modes :
             req' = [req EXCEPT ![s] = [NoRequest EXCEPT
                        !.mode = m, !.packages = PeriodPackages(snapshot)]]
      BY <2>3, <3>1 DEF BeginAuthorize
    <3> QED BY <3>2, ModeRequestType
  <2>4. CASE BeginSafeMode(s)
    <3>1. {"OFF", "PREVIEW"} \subseteq Modes
      BY DEF Modes
    <3>2. PICK m \in Modes :
             req' = [req EXCEPT ![s] = [NoRequest EXCEPT !.mode = m]]
      BY <2>4, <3>1 DEF BeginSafeMode
    <3> QED BY <3>2, ModeRequestType
  <2>5. CASE BeginLock(s)
    <3>1. Cardinality(Partners) \in Nat
      BY ConstantsAssumption, FS_CardinalityType
    <3> QED BY <2>5, <3>1, LockRequestType DEF BeginLock
  <2>6. CASE BeginReopen(s)
    BY <2>6, NoRequestType DEF BeginReopen
  <2> QED BY <2>1, <2>2, <2>3, <2>4, <2>5, <2>6 DEF Begin
<1> QED BY <1>1, <1>2, <1>3

LEMMA SendStepTypes ==
    ASSUME TypeOK, NEW s \in Sessions, SendStep(s)
    PROVE  TypeOK'
<1> USE DEF TypeOK, repository
<1> USE StepNames DEF SendSteps
<1>1. CASE SendNext(s)
  <2>1. PICK p \in req[s].todo :
           req' = [req EXCEPT ![s].partner = p, ![s].todo = @ \ {p}]
    BY <1>1 DEF SendNext
  <2>2. req' = [req EXCEPT ![s] = [req[s] EXCEPT !.partner = p,
                                                 !.todo = req[s].todo \ {p}]]
    BY <2>1
  <2>3. [req[s] EXCEPT !.partner = p, !.todo = req[s].todo \ {p}] \in Requests
    BY NextPackageType
  <2>4. req' \in [Sessions -> Requests]
    BY <2>2, <2>3
  <2> QED BY <1>1, <2>4, GotoType DEF SendNext
<1>2. CASE SendReadMode(s)
  BY <1>2, GotoType, FinishType DEF SendReadMode
<1>3. CASE SendReadLock(s)
  BY <1>3, GotoType, FinishType DEF SendReadLock
<1>4. CASE SendReadAuth(s)
  BY <1>4, GotoType, FinishType, AuthUpdateType DEF SendReadAuth
<1>5. CASE SendInvalidate(s)
  BY <1>5, FinishType DEF SendInvalidate
<1>6. CASE SendClaim(s)
  BY <1>6, GotoType, ContinueType DEF SendClaim, ClaimUnless
<1>7. CASE SendAuditStarted(s)
  BY <1>7, GotoType, CountType DEF SendAuditStarted
<1>8. CASE ProviderAccepts(s)
  BY <1>8, GotoType, CountType DEF ProviderAccepts
<1>9. CASE ProviderRaises(s)
  <2>1. deliveries' \in [Keys -> Nat]
    <3>1. PICK accepted \in {0, 1} :
             deliveries' = [deliveries EXCEPT ![Key(s)] = @ + accepted]
      BY <1>9, Zenon DEF ProviderRaises
    <3>2. accepted \in Nat /\ deliveries \in [Keys -> Nat]
      OBVIOUS
    <3> HIDE DEF TypeOK
    <3> QED BY <3>1, <3>2, CountType
  <2>2. faults' \in 0 .. MaxFaults
    BY <1>9, ConstantsAssumption DEF ProviderRaises
  <2>3. pc' \in [Sessions -> Steps]
    BY <1>9, GotoType DEF ProviderRaises
  <2> QED BY <1>9, <2>1, <2>2, <2>3 DEF ProviderRaises
<1>10. CASE RecordSent(s)
  BY <1>10, GotoType DEF RecordSent
<1>11. CASE AuditSent(s)
  BY <1>11, ContinueType DEF AuditSent
<1>12. CASE RecordRaises(s)
  <2>1. faults' \in 0 .. MaxFaults
    BY <1>12, ConstantsAssumption DEF RecordRaises
  <2> QED BY <1>12, <2>1, GotoType DEF RecordRaises
<1>13. CASE RecordFailed(s)
  BY <1>13, ContinueType DEF RecordFailed
<1> QED BY <1>1, <1>2, <1>3, <1>4, <1>5, <1>6, <1>7, <1>8, <1>9, <1>10,
           <1>11, <1>12, <1>13 DEF SendStep

LEMMA AdminStepTypes ==
    ASSUME TypeOK, NEW s \in Sessions, AdminStep(s)
    PROVE  TypeOK'
<1> USE DEF TypeOK, repository
<1> USE StepNames DEF AdminSteps
<1>1. CASE AuthorizeReadLock(s)
  <2>1. CASE Finish(s) /\ UNCHANGED nextAuth
    BY <1>1, <2>1, FinishType DEF AuthorizeReadLock
  <2>2. CASE ~(locked \/ nextAuth > MaxAuths)
    <3>1. nextAuth \in AuthIds /\ nextAuth' \in 1 .. MaxAuths + 1
      BY <1>1, <2>2, ConstantsAssumption DEF AuthorizeReadLock, AuthIds
    <3> QED BY <1>1, <2>2, <3>1, GotoType, AuthUpdateType DEF AuthorizeReadLock
  <2> QED BY <1>1, <2>1, <2>2 DEF AuthorizeReadLock
<1>2. CASE SaveAuthorization(s)
  <2>1. req[s].mode \in Modes /\ req[s].packages \in SUBSET Packages
    BY DEF Requests
  <2> QED BY <1>2, <2>1, GotoType DEF SaveAuthorization
<1>3. CASE AuthorizeSetMode(s) \/ SafeModeSet(s) \/ ReopenSetOff(s)
  <2>1. req[s].mode \in Modes /\ "OFF" \in Modes
    BY DEF Requests, Modes
  <2> QED BY <1>3, <2>1, FinishType
          DEF AuthorizeSetMode, SafeModeSet, ReopenSetOff
<1>4. CASE SafeModeReadLock(s) \/ LockCountSends(s) \/ ReopenCheck(s)
  BY <1>4, GotoType, FinishType DEF SafeModeReadLock, LockCountSends, ReopenCheck
<1>5. CASE LockSet(s) \/ ReopenUnlock(s)
  BY <1>5, GotoType DEF LockSet, ReopenUnlock
<1>6. CASE LockReadActive(s) \/ ReopenReadLatest(s)
  BY <1>6, GotoType, FinishType, AuthUpdateType
     DEF LockReadActive, ReopenReadLatest
<1>7. CASE LockMarkUsed(s) \/ ReopenMarkStale(s)
  BY <1>7, GotoType, FinishType DEF LockMarkUsed, ReopenMarkStale
<1> QED BY <1>1, <1>2, <1>3, <1>4, <1>5, <1>6, <1>7 DEF AdminStep

LEMMA StepTypes ==
    ASSUME TypeOK, [Next]_vars
    PROVE  TypeOK'
<1>1. ASSUME NEW s \in Sessions, Interrupt(s) PROVE TypeOK'
  BY <1>1, FinishType, ConstantsAssumption DEF Interrupt, TypeOK, repository
<1>2. CASE ChangeData
  BY <1>2 DEF ChangeData, TypeOK, repository
<1>3. CASE UNCHANGED vars
  BY <1>3 DEF vars, TypeOK
<1> QED BY <1>1, <1>2, <1>3, BeginTypes, SendStepTypes, AdminStepTypes DEF Next

LEMMA InitialTypes == Init => TypeOK
<1> SUFFICES ASSUME Init PROVE TypeOK
  OBVIOUS
<1>1. nextAuth \in 1 .. MaxAuths + 1 /\ faults \in 0 .. MaxFaults
  BY ConstantsAssumption DEF Init
<1>2. pc \in [Sessions -> Steps] /\ req \in [Sessions -> Requests]
  BY NoRequestType, StepNames DEF Init
<1>3. /\ authStatus \in [AuthIds -> {"NONE", "ACTIVE", "STALE", "REVOKED", "USED"}]
      /\ authMode \in [AuthIds -> Modes]
      /\ authPackages \in [AuthIds -> SUBSET Packages]
  BY DEF Init, Modes
<1>4. /\ latest \in [Keys -> {"NONE", "SENDING", "SENT", "FAILED"}]
      /\ started \in [Keys -> Nat]
      /\ deliveries \in [Keys -> Nat]
  BY DEF Init
<1> QED BY <1>1, <1>2, <1>3, <1>4 DEF Init, TypeOK, Modes

\* Type correctness: every table column, session variable and counter stays in
\* the set the repository's schema and the services give it.
THEOREM TypeCorrect == Spec => []TypeOK
<1>1. TypeOK /\ [Next]_vars => TypeOK'
  BY StepTypes
<1> QED BY <1>1, InitialTypes, PTL DEF Spec

----------------------------------------------------------------------------
(* Deliveries *)

\* s is the only session whose program counter and locals may have changed
Moves(s) ==
    \A t \in Sessions \ {s} : pc'[t] = pc[t] /\ req'[t] = req[t]

LEMMA KeyType ==
    ASSUME NEW p \in Partners, NEW n \in Snapshots
    PROVE  SendKey(p, n) \in Keys
<1>1. DocVersion[n][p] \in Versions
  BY DEF Versions
<1> QED BY <1>1 DEF SendKey, Keys

LEMMA WorkingKeyType ==
    ASSUME DeliveryInv, NEW s \in Sessions, pc[s] \in SendSteps \ {"send_next"}
    PROVE  Key(s) \in Keys
BY KeyType DEF DeliveryInv, SenderInv, Key

LEMMA GotoMoves ==
    ASSUME TypeOK, NEW s \in Sessions, NEW step, Goto(s, step)
    PROVE  pc'[s] = step /\ \A t \in Sessions \ {s} : pc'[t] = pc[t]
BY DEF TypeOK, Goto

LEMMA FinishMoves ==
    ASSUME TypeOK, NEW s \in Sessions, Finish(s)
    PROVE  Moves(s) /\ pc'[s] = "idle"
BY DEF TypeOK, Finish, Moves

LEMMA ContinueMoves ==
    ASSUME TypeOK, NEW s \in Sessions, Continue(s)
    PROVE  /\ Moves(s)
           /\ pc'[s] = "idle" \/ (pc'[s] = "send_next" /\ UNCHANGED req)
BY FinishMoves, GotoMoves DEF Continue, Moves

\* a step that touches neither the attempts nor Gmail, and leaves its session
\* outside the claim
LEMMA QuietStep ==
    ASSUME TypeOK, DeliveryInv, NEW s \in Sessions, Moves(s), TypeOK',
           UNCHANGED <<latest, started, deliveries>>, faults <= faults',
           ~InFlight(s)',
           pc'[s] \in SendSteps => req'[s].snap \in Snapshots,
           pc'[s] \in SendSteps \ {"send_next"} => req'[s].partner \in Partners
    PROVE  DeliveryInv'
<1>1. \A t \in Sessions : SenderInv(t)'
  <2> TAKE t \in Sessions
  <2>1. CASE t = s
    BY <2>1 DEF SenderInv, InFlight, Claiming
  <2>2. CASE t # s
    <3>1. pc'[t] = pc[t] /\ req'[t] = req[t] /\ Key(t)' = Key(t)
      BY <2>2 DEF Moves, Key
    <3>2. SenderInv(t)
      BY DEF DeliveryInv
    <3>3. pc[t] \in SendSteps \ {"send_next"} => Key(t) \in Keys
      BY WorkingKeyType
    <3> QED BY <3>1, <3>2, <3>3 DEF SenderInv, Claiming, SendSteps, TypeOK
  <2> QED BY <2>1, <2>2
<1>2. \A k \in Keys : OutcomeInv(k)'
  BY DEF DeliveryInv, OutcomeInv, TypeOK
<1>3. ClaimExclusive'
  <2>1. \A t \in Sessions : InFlight(t)' => t # s /\ InFlight(t) /\ Key(t)' = Key(t)
    BY DEF Moves, InFlight, Key
  <2> QED BY <2>1 DEF DeliveryInv, ClaimExclusive
<1>4. SentMeansDelivered' /\ DeliveriesAudited' /\ DuplicateNeedsFault'
  BY DEF DeliveryInv, SentMeansDelivered, DeliveriesAudited,
         DuplicateNeedsFault, TypeOK
<1> QED BY <1>1, <1>2, <1>3, <1>4 DEF DeliveryInv

\* a step on key k, which no other session holds
LEMMA KeyStep ==
    ASSUME TypeOK, DeliveryInv, NEW s \in Sessions, Moves(s), TypeOK',
           NEW k \in Keys,
           \A t \in Sessions \ {s} : InFlight(t) => Key(t) # k,
           \A x \in Keys \ {k} : /\ latest'[x] = latest[x]
                                /\ started'[x] = started[x]
                                /\ deliveries'[x] = deliveries[x],
           faults <= faults',
           SenderInv(s)',
           InFlight(s)' => Key(s)' = k /\ latest'[k] \in {"SENDING", "SENT"},
           OutcomeInv(k)',
           latest'[k] = "SENT" => deliveries'[k] > 0,
           deliveries'[k] <= started'[k],
           deliveries'[k] <= 1 + faults'
    PROVE  DeliveryInv'
<1>1. \A t \in Sessions : SenderInv(t)'
  <2> TAKE t \in Sessions
  <2>1. CASE t = s
    BY <2>1
  <2>2. CASE t # s
    <3>1. pc'[t] = pc[t] /\ req'[t] = req[t] /\ Key(t)' = Key(t)
      BY <2>2 DEF Moves, Key
    <3>2. SenderInv(t)
      BY DEF DeliveryInv
    <3>3. CASE InFlight(t)
      <4>1. Key(t) \in Keys \ {k}
        BY <2>2, <3>3, WorkingKeyType DEF InFlight, SendSteps
      <4> QED BY <3>1, <3>2, <4>1 DEF SenderInv, Claiming, TypeOK
    <3>4. CASE ~InFlight(t)
      BY <3>1, <3>2, <3>4 DEF SenderInv, Claiming, InFlight
    <3> QED BY <3>3, <3>4
  <2> QED BY <2>1, <2>2
<1>2. \A x \in Keys : OutcomeInv(x)'
  <2> TAKE x \in Keys
  <2>1. CASE x = k
    BY <2>1
  <2>2. CASE x # k
    <3>1. OutcomeInv(x)
      BY DEF DeliveryInv
    <3> QED BY <2>2, <3>1 DEF OutcomeInv, TypeOK
  <2> QED BY <2>1, <2>2
<1>3. ClaimExclusive'
  <2>1. \A t \in Sessions \ {s} : InFlight(t)' =>
           /\ InFlight(t) /\ Key(t)' = Key(t) /\ Key(t) \in Keys \ {k}
    BY WorkingKeyType DEF Moves, InFlight, Key, SendSteps
  <2>2. \A t \in Sessions \ {s} : InFlight(t)' =>
           latest'[Key(t)] \in {"SENDING", "SENT"}
    BY <2>1 DEF DeliveryInv, ClaimExclusive
  <2> QED BY <2>1, <2>2 DEF DeliveryInv, ClaimExclusive
<1>4. SentMeansDelivered' /\ DeliveriesAudited' /\ DuplicateNeedsFault'
  BY DEF DeliveryInv, SentMeansDelivered, DeliveriesAudited,
         DuplicateNeedsFault, TypeOK
<1> QED BY <1>1, <1>2, <1>3, <1>4 DEF DeliveryInv

----------------------------------------------------------------------------
(* One lemma per group of actions *)

LEMMA BeginKeepsDelivery ==
    ASSUME TypeOK, DeliveryInv, TypeOK', NEW s \in Sessions, Begin(s)
    PROVE  DeliveryInv'
<1>1. /\ UNCHANGED <<latest, started, deliveries>>
      /\ UNCHANGED faults
  BY DEF Begin, BeginSend, BeginBatch, BeginAuthorize, BeginSafeMode,
         BeginLock, BeginReopen, repository
<1>2. Moves(s)
  BY DEF Begin, BeginSend, BeginBatch, BeginAuthorize, BeginSafeMode,
         BeginLock, BeginReopen, Goto, TypeOK, Moves
<1>3. CASE BeginSend(s) \/ BeginBatch(s)
  <2>1. pc'[s] = "send_next"
    BY <1>3, GotoMoves DEF BeginSend, BeginBatch
  <2>2. req'[s].snap = snapshot
    <3>1. CASE BeginSend(s)
      BY <3>1 DEF BeginSend, TypeOK, NoRequest
    <3>2. CASE BeginBatch(s)
      BY <3>2 DEF BeginBatch, TypeOK, NoRequest
    <3> QED BY <1>3, <3>1, <3>2
  <2> QED BY <1>1, <1>2, <2>1, <2>2, QuietStep DEF InFlight, SendSteps, TypeOK
<1>4. CASE BeginAuthorize(s) \/ BeginSafeMode(s) \/ BeginLock(s) \/ BeginReopen(s)
  <2>1. pc'[s] \in {"auth_lock", "safe_lock", "lock_count", "reopen_check"}
    BY <1>4, GotoMoves
       DEF BeginAuthorize, BeginSafeMode, BeginLock, BeginReopen
  <2> QED BY <1>1, <1>2, <2>1, QuietStep DEF InFlight, SendSteps, TypeOK
<1> QED BY <1>3, <1>4 DEF Begin

LEMMA AdminStepKeepsDelivery ==
    ASSUME TypeOK, DeliveryInv, TypeOK', NEW s \in Sessions, AdminStep(s)
    PROVE  DeliveryInv'
<1> DEFINE Admin == {"idle", "auth_save", "auth_mode", "safe_mode", "lock_set",
                     "lock_active", "lock_used", "reopen_unlock",
                     "reopen_latest", "reopen_stale", "reopen_mode"}
<1>1. UNCHANGED <<latest, started, deliveries, faults>>
  BY DEF AdminStep, AuthorizeReadLock, SaveAuthorization, AuthorizeSetMode,
         SafeModeReadLock, SafeModeSet, LockCountSends, LockSet, LockReadActive,
         LockMarkUsed, ReopenCheck, ReopenUnlock, ReopenReadLatest,
         ReopenMarkStale, ReopenSetOff, repository
<1>2. Moves(s) /\ pc'[s] \in Admin
  <2>1. CASE \/ AuthorizeReadLock(s) \/ SaveAuthorization(s)
             \/ AuthorizeSetMode(s) \/ SafeModeReadLock(s) \/ SafeModeSet(s)
    BY <2>1, FinishMoves, GotoMoves
       DEF AuthorizeReadLock, SaveAuthorization, AuthorizeSetMode,
           SafeModeReadLock, SafeModeSet, Moves, TypeOK
  <2>2. CASE \/ LockCountSends(s) \/ LockSet(s) \/ LockReadActive(s)
             \/ LockMarkUsed(s)
    BY <2>2, FinishMoves, GotoMoves
       DEF LockCountSends, LockSet, LockReadActive, LockMarkUsed, Moves, TypeOK
  <2>3. CASE \/ ReopenCheck(s) \/ ReopenUnlock(s) \/ ReopenReadLatest(s)
             \/ ReopenMarkStale(s) \/ ReopenSetOff(s)
    BY <2>3, FinishMoves, GotoMoves
       DEF ReopenCheck, ReopenUnlock, ReopenReadLatest, ReopenMarkStale,
           ReopenSetOff, Moves, TypeOK
  <2> QED BY <2>1, <2>2, <2>3 DEF AdminStep
<1> QED BY <1>1, <1>2, QuietStep DEF InFlight, SendSteps, TypeOK

\* the reads of send(), a refused or finished send, and a stale authorization
LEMMA SendReadKeepsDelivery ==
    ASSUME TypeOK, DeliveryInv, TypeOK', NEW s \in Sessions,
           \/ SendNext(s) \/ SendReadMode(s) \/ SendReadLock(s)
           \/ SendReadAuth(s) \/ SendInvalidate(s) \/ AuditSent(s)
    PROVE  DeliveryInv'
<1> DEFINE Quiet == {"idle", "send_next", "send_mode", "send_lock", "send_auth",
                     "send_invalidate", "send_claim"}
<1>1. UNCHANGED <<latest, started, deliveries, faults>>
  BY DEF SendNext, SendReadMode, SendReadLock, SendReadAuth, SendInvalidate,
         AuditSent, repository
<1>2. SenderInv(s)
  BY DEF DeliveryInv
<1>3. CASE SendNext(s)
  <2>1. PICK p \in req[s].todo :
           req' = [req EXCEPT ![s].partner = p, ![s].todo = @ \ {p}]
    BY <1>3 DEF SendNext
  <2>2. p \in Partners
    BY DEF TypeOK, Requests
  <2>3. req'[s].partner = p /\ req'[s].snap = req[s].snap
    BY <2>1 DEF TypeOK, Requests
  <2>4. pc'[s] = "send_mode" /\ Moves(s)
    BY <1>3, <2>1, GotoMoves DEF SendNext, Moves, TypeOK
  <2>5. req[s].snap \in Snapshots
    BY <1>2, <1>3 DEF SendNext, SenderInv, SendSteps
  <2> QED BY <1>1, <2>2, <2>3, <2>4, <2>5, QuietStep
          DEF InFlight, SendSteps, TypeOK
<1>4. CASE SendReadMode(s) \/ SendReadLock(s) \/ SendReadAuth(s)
           \/ SendInvalidate(s) \/ AuditSent(s)
  <2>1. Moves(s) /\ pc'[s] \in Quiet
    <3>1. CASE SendReadMode(s) \/ SendReadLock(s) \/ SendInvalidate(s)
               \/ AuditSent(s)
      BY <3>1, FinishMoves, GotoMoves, ContinueMoves
         DEF SendReadMode, SendReadLock, SendInvalidate, AuditSent, Moves, TypeOK
    <3>2. CASE SendReadAuth(s)
      BY <3>2, FinishMoves, GotoMoves DEF SendReadAuth, Moves, TypeOK
    <3> QED BY <1>4, <3>1, <3>2
  <2>2. pc'[s] \in SendSteps =>
           req'[s].snap = req[s].snap /\ req'[s].partner = req[s].partner
    <3>1. CASE SendReadMode(s) \/ SendReadLock(s) \/ SendInvalidate(s)
               \/ AuditSent(s)
      BY <3>1, FinishMoves, ContinueMoves
         DEF SendReadMode, SendReadLock, SendInvalidate, AuditSent, SendSteps
    <3>2. CASE SendReadAuth(s)
      BY <3>2, FinishMoves DEF SendReadAuth, SendSteps, TypeOK, Requests
    <3> QED BY <1>4, <3>1, <3>2
  <2>3. req[s].snap \in Snapshots /\ req[s].partner \in Partners
    BY <1>2, <1>4 DEF SenderInv, SendSteps, SendReadMode, SendReadLock,
       SendReadAuth, SendInvalidate, AuditSent
  <2> QED BY <1>1, <2>1, <2>2, <2>3, QuietStep DEF InFlight, TypeOK
<1> QED BY <1>3, <1>4

LEMMA ClaimKeepsDelivery ==
    ASSUME TypeOK, DeliveryInv, TypeOK', NEW s \in Sessions, SendClaim(s)
    PROVE  DeliveryInv'
<1>1. UNCHANGED <<started, deliveries, faults>> /\ pc[s] = "send_claim"
  BY DEF SendClaim, ClaimUnless
<1>2. SenderInv(s) /\ Key(s) \in Keys
  BY <1>1, WorkingKeyType DEF DeliveryInv, SendSteps
<1>3. req[s].snap \in Snapshots /\ req[s].partner \in Partners
  BY <1>1, <1>2 DEF SenderInv, SendSteps
<1>4. CASE Continue(s) /\ UNCHANGED latest
  BY <1>1, <1>3, <1>4, ContinueMoves, QuietStep DEF InFlight, SendSteps, TypeOK
<1>5. CASE /\ ~(latest[Key(s)] \in {"SENT", "SENDING"})
           /\ ~(latest[Key(s)] = "FAILED" /\ ~req[s].retry)
           /\ latest' = [latest EXCEPT ![Key(s)] = "SENDING"]
           /\ Goto(s, "send_audit")
           /\ UNCHANGED req
  <2>1. Moves(s) /\ pc'[s] = "send_audit" /\ Key(s)' = Key(s)
    BY <1>5, GotoMoves DEF Moves, Key
  <2>2. \A t \in Sessions \ {s} : InFlight(t) => Key(t) # Key(s)
    BY <1>5 DEF DeliveryInv, ClaimExclusive
  <2>3. latest[Key(s)] = "NONE" \/ (latest[Key(s)] = "FAILED" /\ req[s].retry)
    BY <1>2, <1>5 DEF TypeOK
  <2>4. /\ deliveries[Key(s)] <= faults
        /\ ~req[s].retry => deliveries[Key(s)] = 0
    BY <1>2, <2>3 DEF DeliveryInv, OutcomeInv, TypeOK
  <2>5. SenderInv(s)'
    BY <1>1, <1>3, <1>5, <2>1, <2>4 DEF SenderInv, Claiming
  <2>6. latest'[Key(s)] = "SENDING"
    BY <1>2, <1>5 DEF TypeOK
  <2>7. OutcomeInv(Key(s))'
    BY <2>1, <2>6 DEF OutcomeInv
  <2>8. /\ deliveries'[Key(s)] <= started'[Key(s)]
        /\ deliveries'[Key(s)] <= 1 + faults'
    BY <1>1, <1>2 DEF DeliveryInv, DeliveriesAudited, DuplicateNeedsFault
  <2> QED
    BY <1>1, <1>2, <1>5, <2>1, <2>2, <2>5, <2>6, <2>7, <2>8, KeyStep DEF TypeOK
<1> QED BY <1>4, <1>5 DEF SendClaim, ClaimUnless

\* what every step of a claim's holder starts from
LEMMA HolderFacts ==
    ASSUME TypeOK, DeliveryInv, NEW s \in Sessions, InFlight(s)
    PROVE  /\ SenderInv(s)
           /\ Key(s) \in Keys
           /\ req[s].snap \in Snapshots /\ req[s].partner \in Partners
           /\ latest[Key(s)] \in {"SENDING", "SENT"}
           /\ \A t \in Sessions \ {s} : InFlight(t) => Key(t) # Key(s)
           /\ latest[Key(s)] = "SENT" => deliveries[Key(s)] > 0
           /\ deliveries[Key(s)] <= started[Key(s)]
           /\ deliveries[Key(s)] <= 1 + faults
           /\ deliveries[Key(s)] \in Nat /\ started[Key(s)] \in Nat
           /\ faults \in Nat
<1>1. SenderInv(s) /\ Key(s) \in Keys
  BY WorkingKeyType DEF DeliveryInv, InFlight, SendSteps
<1>2. req[s].snap \in Snapshots /\ req[s].partner \in Partners
  BY <1>1 DEF SenderInv, InFlight, SendSteps
<1> QED BY <1>1, <1>2 DEF DeliveryInv, ClaimExclusive, SentMeansDelivered,
        DeliveriesAudited, DuplicateNeedsFault, TypeOK

LEMMA AttemptKeepsDelivery ==
    ASSUME TypeOK, DeliveryInv, TypeOK', NEW s \in Sessions,
           \/ SendAuditStarted(s) \/ ProviderAccepts(s) \/ ProviderRaises(s)
           \/ RecordSent(s) \/ RecordRaises(s)
    PROVE  DeliveryInv'
<1>1. InFlight(s)
  BY DEF InFlight, SendAuditStarted, ProviderAccepts, ProviderRaises,
         RecordSent, RecordRaises
<1>k. PICK k \in Keys : k = Key(s)
  BY <1>1, HolderFacts
<1>2. UNCHANGED req
  BY DEF SendAuditStarted, ProviderAccepts, ProviderRaises, RecordSent,
         RecordRaises
<1>3. /\ Moves(s) /\ Key(s)' = k
      /\ pc'[s] \in {"send_provider", "send_record", "send_failed",
                     "send_audit_sent"}
  BY <1>2, <1>k, GotoMoves DEF SendAuditStarted, ProviderAccepts, ProviderRaises,
         RecordSent, RecordRaises, Moves, Key
<1>4. faults <= faults'
  BY DEF SendAuditStarted, ProviderAccepts, ProviderRaises, RecordSent,
         RecordRaises, TypeOK
<1>5. \A x \in Keys \ {k} : /\ latest'[x] = latest[x]
                            /\ started'[x] = started[x]
                            /\ deliveries'[x] = deliveries[x]
  BY <1>k DEF SendAuditStarted, ProviderAccepts, ProviderRaises, RecordSent,
         RecordRaises, repository, TypeOK
<1>6. /\ SenderInv(s)'
      /\ latest'[k] \in {"SENDING", "SENT"}
      /\ latest'[k] = "SENT" => deliveries'[k] > 0
      /\ deliveries'[k] <= started'[k]
      /\ deliveries'[k] <= 1 + faults'
  <2> USE <1>1, <1>2, <1>3, <1>k, HolderFacts
  <2>1. CASE SendAuditStarted(s)
    BY <2>1, GotoMoves DEF SendAuditStarted, SenderInv, Claiming, TypeOK
  <2>2. CASE ProviderAccepts(s)
    BY <2>2, GotoMoves
       DEF ProviderAccepts, SenderInv, Claiming, repository, TypeOK
  <2>3. CASE ProviderRaises(s)
    BY <2>3, GotoMoves
       DEF ProviderRaises, SenderInv, Claiming, repository, TypeOK
  <2>4. CASE RecordSent(s)
    BY <2>4, GotoMoves DEF RecordSent, SenderInv, Claiming, TypeOK
  <2>5. CASE RecordRaises(s)
    BY <2>5, GotoMoves
       DEF RecordRaises, SenderInv, Claiming, repository, TypeOK
  <2> QED BY <2>1, <2>2, <2>3, <2>4, <2>5
<1>7. OutcomeInv(k)'
  BY <1>6 DEF OutcomeInv
<1>8. \A t \in Sessions \ {s} : InFlight(t) => Key(t) # k
  BY <1>1, <1>k, HolderFacts
<1> QED BY <1>3, <1>4, <1>5, <1>6, <1>7, <1>8, KeyStep

LEMMA RecordFailedKeepsDelivery ==
    ASSUME TypeOK, DeliveryInv, TypeOK', NEW s \in Sessions, RecordFailed(s)
    PROVE  DeliveryInv'
<1>1. InFlight(s) /\ pc[s] = "send_failed"
  BY DEF InFlight, RecordFailed
<1>k. PICK k \in Keys : k = Key(s)
  BY <1>1, HolderFacts
<1>2. Moves(s) /\ (pc'[s] = "idle" \/ (pc'[s] = "send_next" /\ UNCHANGED req))
  BY ContinueMoves DEF RecordFailed
<1>3. UNCHANGED <<started, deliveries, faults>>
  BY DEF RecordFailed
<1>4. /\ latest' = [latest EXCEPT ![k] = "FAILED"]
      /\ deliveries[k] <= faults
  BY <1>1, <1>k, HolderFacts DEF RecordFailed, SenderInv
<1>5. SenderInv(s)'
  BY <1>1, <1>2, HolderFacts DEF SenderInv, Claiming, SendSteps
<1>6. ~InFlight(s)'
  BY <1>2 DEF InFlight
<1>7. latest'[k] = "FAILED"
  BY <1>4 DEF TypeOK
<1>8. OutcomeInv(k)'
  BY <1>3, <1>4, <1>7 DEF OutcomeInv
<1>9. \A x \in Keys \ {k} : latest'[x] = latest[x]
  BY <1>4 DEF TypeOK
<1>10. \A t \in Sessions \ {s} : InFlight(t) => Key(t) # k
  BY <1>1, <1>k, HolderFacts
<1>11. deliveries'[k] <= started'[k] /\ deliveries'[k] <= 1 + faults'
  BY <1>1, <1>3, <1>k, HolderFacts
<1> QED BY <1>2, <1>3, <1>4, <1>5, <1>6, <1>7, <1>8, <1>9, <1>10, <1>11, KeyStep
        DEF TypeOK

LEMMA NextKeepsDelivery ==
    ASSUME TypeOK, DeliveryInv, TypeOK', [Next]_vars
    PROVE  DeliveryInv'
<1>1. ASSUME NEW s \in Sessions, SendStep(s) PROVE DeliveryInv'
  BY <1>1, SendReadKeepsDelivery, ClaimKeepsDelivery, AttemptKeepsDelivery,
     RecordFailedKeepsDelivery DEF SendStep
<1>2. ASSUME NEW s \in Sessions, Interrupt(s) PROVE DeliveryInv'
  <2>1. Moves(s) /\ pc'[s] = "idle"
    BY <1>2, FinishMoves DEF Interrupt
  <2>2. UNCHANGED <<latest, started, deliveries>> /\ faults <= faults'
    BY <1>2 DEF Interrupt, repository, TypeOK
  <2> QED BY <2>1, <2>2, QuietStep DEF InFlight, SendSteps
<1>3. CASE ChangeData \/ UNCHANGED vars
  <2>1. UNCHANGED <<latest, started, deliveries, pc, req, faults>>
    BY <1>3 DEF ChangeData, vars, repository
  <2> QED BY <2>1 DEF DeliveryInv, SenderInv, OutcomeInv, ClaimExclusive,
          SentMeansDelivered, DeliveriesAudited, DuplicateNeedsFault,
          InFlight, Claiming, Key
<1> QED BY <1>1, <1>2, <1>3, BeginKeepsDelivery, AdminStepKeepsDelivery DEF Next

----------------------------------------------------------------------------
(* Theorems *)

LEMMA InitialDelivery == Init => DeliveryInv
BY ConstantsAssumption DEF Init, DeliveryInv, SenderInv, OutcomeInv,
   ClaimExclusive, SentMeansDelivered, DeliveriesAudited,
   DuplicateNeedsFault, InFlight, Claiming, SendSteps

\* DeliveryInv holds in every reachable state of the workflow.
THEOREM DeliveryInvariant == Spec => []DeliveryInv
<1>1. TypeOK /\ TypeOK' /\ DeliveryInv /\ [Next]_vars => DeliveryInv'
  BY NextKeepsDelivery
<1> QED BY <1>1, InitialDelivery, TypeCorrect, PTL DEF Spec

\* claim_send is a lock: no two sessions are ever between the claim and the
\* outcome of the same send key.
THEOREM ClaimIsExclusive == Spec => []ClaimExclusive
<1>1. DeliveryInv => ClaimExclusive
  BY DEF DeliveryInv
<1> QED BY <1>1, DeliveryInvariant, PTL

\* SENT is recorded only for a key Gmail has accepted a message for.
THEOREM SentWasDelivered == Spec => []SentMeansDelivered
<1>1. DeliveryInv => SentMeansDelivered
  BY DEF DeliveryInv
<1> QED BY <1>1, DeliveryInvariant, PTL

\* Every message Gmail accepted has a SEND_STARTED audit row of its own.
THEOREM DeliveriesAreAudited == Spec => []DeliveriesAudited
<1>1. DeliveryInv => DeliveriesAudited
  BY DEF DeliveryInv
<1> QED BY <1>1, DeliveryInvariant, PTL

\* Without failing calls a package is delivered at most once, whatever the number
\* of sessions and their interleaving; each further delivery needs a fault.
THEOREM DuplicatesNeedFaults == Spec => []DuplicateNeedsFault
<1>1. DeliveryInv => DuplicateNeedsFault
  BY DEF DeliveryInv
<1> QED BY <1>1, DeliveryInvariant, PTL

\* who can change the outcome or the mailbox of a key, in one step
LEMMA KeyWrites ==
    ASSUME TypeOK, DeliveryInv, [Next]_vars, NEW k \in Keys
    PROVE  \/ latest'[k] = latest[k] /\ deliveries'[k] = deliveries[k]
           \/ \E s \in Sessions :
                 InFlight(s) /\ Key(s) = k
                 /\ (deliveries'[k] > deliveries[k] => pc[s] = "send_provider")
           \/ latest[k] # "SENT" /\ deliveries'[k] = deliveries[k]
<1> DEFINE Kept == latest'[k] = latest[k] /\ deliveries'[k] = deliveries[k]
<1>1. ASSUME NEW s \in Sessions, Begin(s) \/ AdminStep(s) \/ Interrupt(s)
      PROVE  Kept
  <2>1. UNCHANGED <<latest, deliveries>>
    BY <1>1 DEF Begin, BeginSend, BeginBatch, BeginAuthorize, BeginSafeMode,
           BeginLock, BeginReopen, AdminStep, AuthorizeReadLock,
           SaveAuthorization, AuthorizeSetMode, SafeModeReadLock, SafeModeSet,
           LockCountSends, LockSet, LockReadActive, LockMarkUsed, ReopenCheck,
           ReopenUnlock, ReopenReadLatest, ReopenMarkStale, ReopenSetOff,
           Interrupt, repository
  <2> QED BY <2>1
<1>2. CASE ChangeData \/ UNCHANGED vars
  BY <1>2 DEF ChangeData, vars, repository
<1>3. ASSUME NEW s \in Sessions,
             \/ SendNext(s) \/ SendReadMode(s) \/ SendReadLock(s)
             \/ SendReadAuth(s) \/ SendInvalidate(s) \/ SendAuditStarted(s)
             \/ AuditSent(s) \/ RecordRaises(s)
      PROVE  Kept
  BY <1>3 DEF SendNext, SendReadMode, SendReadLock, SendReadAuth,
              SendInvalidate, SendAuditStarted, AuditSent, RecordRaises, repository
<1>4. ASSUME NEW s \in Sessions, SendClaim(s)
      PROVE  Kept \/ (latest[k] # "SENT" /\ deliveries'[k] = deliveries[k])
  BY <1>4 DEF SendClaim, ClaimUnless, TypeOK
<1>5. ASSUME NEW s \in Sessions, ProviderAccepts(s) \/ ProviderRaises(s)
      PROVE  Kept \/ (InFlight(s) /\ Key(s) = k /\ pc[s] = "send_provider")
  BY <1>5 DEF ProviderAccepts, ProviderRaises, InFlight, repository, TypeOK
<1>6. ASSUME NEW s \in Sessions, RecordSent(s) \/ RecordFailed(s)
      PROVE  \/ Kept
             \/ InFlight(s) /\ Key(s) = k /\ deliveries'[k] = deliveries[k]
  BY <1>6 DEF RecordSent, RecordFailed, InFlight, TypeOK
<1>7. deliveries'[k] = deliveries[k] => ~(deliveries'[k] > deliveries[k])
  BY DEF TypeOK
<1>8. ASSUME NEW s \in Sessions, SendStep(s)
      PROVE  \/ Kept
             \/ InFlight(s) /\ Key(s) = k
                /\ (deliveries'[k] > deliveries[k] => pc[s] = "send_provider")
             \/ latest[k] # "SENT" /\ deliveries'[k] = deliveries[k]
  BY <1>3, <1>4, <1>5, <1>6, <1>7, <1>8 DEF SendStep
<1> QED BY <1>1, <1>2, <1>8 DEF Next

\* A key that is SENT and in nobody's hands keeps its outcome and is not sent
\* again: claim_send refuses it to every retry and batch.
THEOREM SentStaysSent == Spec => SentIsFinal
<1> DEFINE Final(k) ==
       latest[k] = "SENT" /\ (\A s \in Sessions : InFlight(s) => Key(s) # k)
          => latest'[k] = "SENT" /\ deliveries'[k] = deliveries[k]
<1>1. TypeOK /\ DeliveryInv /\ [Next]_vars => [\A k \in Keys : Final(k)]_vars
  BY KeyWrites
<1> QED BY <1>1, TypeCorrect, DeliveryInvariant, PTL DEF Spec, SentIsFinal

\* A second message for a key goes out only in a request that asked for a retry:
\* claim_send gives a key Gmail may have served to nobody else.
THEOREM DuplicatesAreRetries == Spec => NoSilentDuplicate
<1> DEFINE Asked(k) ==
       deliveries[k] > 0 /\ deliveries'[k] > deliveries[k] =>
          \E s \in Sessions :
             pc[s] = "send_provider" /\ Key(s) = k /\ req[s].retry
<1>1. ASSUME TypeOK, DeliveryInv, [Next]_vars, NEW k \in Keys,
             deliveries[k] > 0, deliveries'[k] > deliveries[k]
      PROVE  \E s \in Sessions :
                pc[s] = "send_provider" /\ Key(s) = k /\ req[s].retry
  <2>1. deliveries'[k] # deliveries[k] /\ deliveries[k] # 0
    BY <1>1 DEF TypeOK
  <2>2. PICK s \in Sessions : Key(s) = k /\ pc[s] = "send_provider"
    BY <1>1, <2>1, KeyWrites
  <2>3. req[s].retry
    BY <1>1, <2>1, <2>2 DEF DeliveryInv, SenderInv, Claiming
  <2> QED BY <2>2, <2>3
<1>2. TypeOK /\ DeliveryInv /\ [Next]_vars => [\A k \in Keys : Asked(k)]_vars
  BY <1>1
<1> QED BY <1>2, TypeCorrect, DeliveryInvariant, PTL DEF Spec, NoSilentDuplicate

----------------------------------------------------------------------------
(* Closing a period *)

\* What a count of SENT keys that comes to the number of partners leaves open
CloseAccounted == EveryPartnerReached \/ TwoVersionsSent

\* A lock that has counted as many SENT keys as there are partners has accounted for
\* every one, and for good: no message is taken back.
CloseInv ==
    /\ \A s \in Sessions : pc[s] = "lock_count" => req[s].intended = Cardinality(Partners)
    /\ \A s \in Sessions : pc[s] = "lock_set" /\ ~ req[s].manual => CloseAccounted
    /\ CompleteCloseAddsUp

\* As many SENT keys as there are partners are one for each, or two of one partner's.
LEMMA CountedIsAccounted ==
    ASSUME SentMeansDelivered, TypeOK, SentCount = Cardinality(Partners)
    PROVE  CloseAccounted
<1> SUFFICES ASSUME ~ TwoVersionsSent PROVE EveryPartnerReached
  BY DEF CloseAccounted
<1> DEFINE Sent == {k \in Keys : latest[k] = "SENT"}
           f == [k \in Sent |-> k[1]]
<1>1. \A k \in Sent : k[1] \in Partners /\ deliveries[k] > 0
  BY DEF Keys, SentMeansDelivered
<1>2. f \in Injection(Sent, Partners)
  <2>1. f \in [Sent -> Partners]
    BY <1>1
  <2>2. \A k, l \in Sent : f[k] = f[l] => k = l
    BY <1>1 DEF TwoVersionsSent
  <2> QED BY <2>1, <2>2 DEF Injection, IsInjective
<1>3. f \in Surjection(Sent, Partners)
  BY <1>2, FS_Injection, ConstantsAssumption DEF SentCount
<1> SUFFICES ASSUME NEW p \in Partners PROVE \E k \in Keys : k[1] = p /\ deliveries[k] > 0
  BY DEF EveryPartnerReached
<1>4. PICK k \in Sent : f[k] = p
  BY <1>3 DEF Surjection
<1>5. k \in Keys /\ k[1] = p /\ deliveries[k] > 0
  BY <1>1, <1>4
<1> QED BY <1>5

\* Who writes to the mailbox, to the table of attempts, and to the closure.
LEMMA MailboxWrites ==
    ASSUME [Next]_vars
    PROVE  \/ UNCHANGED deliveries
           \/ \E s \in Sessions : \E m \in {0, 1} :
                 deliveries' = [deliveries EXCEPT ![Key(s)] = @ + m]
<1>1. CASE UNCHANGED vars \/ ChangeData
  BY <1>1 DEF vars, ChangeData
<1>2. ASSUME NEW s \in Sessions, Begin(s) \/ AdminStep(s) \/ Interrupt(s)
      PROVE  UNCHANGED deliveries
  BY <1>2, Zenon
     DEF Begin, BeginSend, BeginBatch, BeginAuthorize, BeginSafeMode, BeginLock, BeginReopen,
         AdminStep, AuthorizeReadLock, SaveAuthorization, AuthorizeSetMode, SafeModeReadLock,
         SafeModeSet, LockCountSends, LockSet, LockReadActive, LockMarkUsed, ReopenCheck,
         ReopenUnlock, ReopenReadLatest, ReopenMarkStale, ReopenSetOff, Interrupt
<1>3. ASSUME NEW s \in Sessions, SendStep(s), ~ ProviderAccepts(s), ~ ProviderRaises(s)
      PROVE  UNCHANGED deliveries
  BY <1>3, Zenon
     DEF SendStep, SendNext, SendReadMode, SendReadLock, SendReadAuth, SendInvalidate,
         SendClaim, ClaimUnless, SendAuditStarted, RecordSent, AuditSent, RecordRaises,
         RecordFailed
<1>4. ASSUME NEW s \in Sessions, ProviderAccepts(s) \/ ProviderRaises(s)
      PROVE  \E m \in {0, 1} : deliveries' = [deliveries EXCEPT ![Key(s)] = @ + m]
  BY <1>4 DEF ProviderAccepts, ProviderRaises
<1> QED BY <1>1, <1>2, <1>3, <1>4 DEF Next

LEMMA ClosureWrites ==
    ASSUME [Next]_vars
    PROVE  UNCHANGED closure \/ closure' = "open" \/ \E s \in Sessions : LockSet(s)
<1>1. CASE UNCHANGED vars \/ ChangeData
  BY <1>1 DEF vars, ChangeData
<1>2. ASSUME NEW s \in Sessions, Begin(s) \/ Interrupt(s)
      PROVE  UNCHANGED closure
  BY <1>2, Zenon DEF Begin, BeginSend, BeginBatch, BeginAuthorize, BeginSafeMode, BeginLock,
                     BeginReopen, Interrupt
<1>3. ASSUME NEW s \in Sessions, AdminStep(s)
      PROVE  UNCHANGED closure \/ closure' = "open" \/ LockSet(s)
  BY <1>3, Zenon
     DEF AdminStep, AuthorizeReadLock, SaveAuthorization, AuthorizeSetMode, SafeModeReadLock,
         SafeModeSet, LockCountSends, LockReadActive, LockMarkUsed, ReopenCheck,
         ReopenUnlock, ReopenReadLatest, ReopenMarkStale, ReopenSetOff
<1>4. ASSUME NEW s \in Sessions, SendStep(s)
      PROVE  UNCHANGED closure
  BY <1>4, Zenon
     DEF SendStep, SendNext, SendReadMode, SendReadLock, SendReadAuth, SendInvalidate,
         SendClaim, ClaimUnless, SendAuditStarted, ProviderAccepts, ProviderRaises,
         RecordSent, AuditSent, RecordRaises, RecordFailed
<1> QED BY <1>1, <1>2, <1>3, <1>4 DEF Next

\* How a session comes to count, and from there to lock.
LEMMA LockPath ==
    ASSUME TypeOK, [Next]_vars, NEW s \in Sessions
    PROVE  \/ pc'[s] = pc[s] /\ req'[s] = req[s]
           \/ pc'[s] \notin {"lock_count", "lock_set"}
           \/ BeginLock(s) \/ LockCountSends(s)
<1> DEFINE Off(u) == pc'[u] \notin {"lock_count", "lock_set"}
<1>1. ASSUME NEW u \in Sessions, Begin(u) PROVE Moves(u) /\ (Off(u) \/ BeginLock(u))
  <2>1. Moves(u)
    BY <1>1 DEF Begin, BeginSend, BeginBatch, BeginAuthorize, BeginSafeMode, BeginLock,
                BeginReopen, Goto, TypeOK, Moves
  <2>2. \/ BeginLock(u)
        \/ \E step \in {"send_next", "auth_lock", "safe_lock", "reopen_check"} : Goto(u, step)
    BY <1>1, Zenon DEF Begin, BeginSend, BeginBatch, BeginAuthorize, BeginSafeMode, BeginReopen
  <2> QED BY <2>1, <2>2, GotoMoves
<1>2. ASSUME NEW u \in Sessions, Interrupt(u) PROVE Moves(u) /\ Off(u)
  BY <1>2, FinishMoves DEF Interrupt
<1>3. ASSUME NEW u \in Sessions, SendStep(u) PROVE Moves(u) /\ Off(u)
  <2>1. CASE SendNext(u) \/ SendReadAuth(u)
    <3>1. Moves(u)
      <4>1. CASE SendNext(u)
        BY <4>1 DEF SendNext, Goto, TypeOK, Moves
      <4>2. CASE SendReadAuth(u)
        BY <4>2, FinishMoves DEF SendReadAuth, Goto, TypeOK, Moves
      <4> QED BY <2>1, <4>1, <4>2
    <3> QED BY <2>1, <3>1, GotoMoves, FinishMoves DEF SendNext, SendReadAuth
  <2>2. CASE ~ SendNext(u) /\ ~ SendReadAuth(u)
    <3>1. \/ Finish(u) \/ Continue(u)
          \/ UNCHANGED req /\ \E step \in SendSteps : Goto(u, step)
      BY <1>3, <2>2
         DEF SendStep, SendReadMode, SendReadLock, SendInvalidate, SendClaim, ClaimUnless,
             SendAuditStarted, ProviderAccepts, ProviderRaises, RecordSent, AuditSent,
             RecordRaises, RecordFailed, SendSteps
    <3> QED BY <3>1, FinishMoves, ContinueMoves, GotoMoves DEF Moves, SendSteps
  <2> QED BY <2>1, <2>2
<1>4. ASSUME NEW u \in Sessions, AdminStep(u)
      PROVE  Moves(u) /\ (Off(u) \/ LockCountSends(u))
  <2>1. CASE AuthorizeReadLock(u) \/ LockReadActive(u) \/ ReopenReadLatest(u)
    <3>1. Moves(u)
      BY <2>1, FinishMoves
         DEF AuthorizeReadLock, LockReadActive, ReopenReadLatest, Goto, TypeOK, Moves
    <3> QED BY <2>1, <3>1, GotoMoves, FinishMoves
            DEF AuthorizeReadLock, LockReadActive, ReopenReadLatest
  <2>2. CASE LockCountSends(u)
    BY <2>2, FinishMoves, GotoMoves DEF LockCountSends, Moves
  <2>3. CASE ~ (\/ AuthorizeReadLock(u) \/ LockReadActive(u) \/ ReopenReadLatest(u)
                \/ LockCountSends(u))
    <3>1. \/ Finish(u)
          \/ UNCHANGED req /\ \E step \in AdminSteps \ {"lock_count", "lock_set"} : Goto(u, step)
      BY <1>4, <2>3
         DEF AdminStep, SaveAuthorization, AuthorizeSetMode, SafeModeReadLock, SafeModeSet,
             LockSet, LockMarkUsed, ReopenCheck, ReopenUnlock, ReopenMarkStale, ReopenSetOff,
             AdminSteps
    <3> QED BY <3>1, FinishMoves, GotoMoves DEF Moves
  <2> QED BY <2>1, <2>2, <2>3
<1>5. CASE UNCHANGED vars \/ ChangeData
  BY <1>5 DEF vars, ChangeData
<1>6. ASSUME NEW u \in Sessions, Moves(u), u # s PROVE pc'[s] = pc[s] /\ req'[s] = req[s]
  BY <1>6 DEF Moves
<1> QED BY <1>1, <1>2, <1>3, <1>4, <1>5, <1>6 DEF Next

\* No message is taken back.
LEMMA AccountedStays ==
    ASSUME TypeOK, [Next]_vars, CloseAccounted
    PROVE  CloseAccounted'
<1>1. ASSUME NEW k \in Keys, deliveries[k] > 0 PROVE deliveries'[k] > 0
  <2>1. deliveries \in [Keys -> Nat]
    BY DEF TypeOK
  <2>2. CASE UNCHANGED deliveries
    BY <1>1, <2>2
  <2>3. ASSUME NEW x, NEW m \in Nat, deliveries' = [deliveries EXCEPT ![x] = @ + m]
        PROVE  deliveries'[k] > 0
    BY <1>1, <2>1, <2>3
  <2>4. \/ UNCHANGED deliveries
        \/ \E s \in Sessions : \E m \in {0, 1} :
              deliveries' = [deliveries EXCEPT ![Key(s)] = @ + m]
    BY MailboxWrites
  <2> QED BY <2>2, <2>3, <2>4
<1>2. CASE EveryPartnerReached
  BY <1>1, <1>2 DEF EveryPartnerReached, CloseAccounted
<1>3. CASE TwoVersionsSent
  BY <1>1, <1>3 DEF TwoVersionsSent, CloseAccounted
<1> QED BY <1>2, <1>3 DEF CloseAccounted

LEMMA CloseStep ==
    ASSUME TypeOK, DeliveryInv, [Next]_vars, CloseInv
    PROVE  CloseInv'
<1>1. ASSUME NEW s \in Sessions, pc'[s] = "lock_count"
      PROVE  req'[s].intended = Cardinality(Partners)
  <2>1. CASE pc'[s] = pc[s] /\ req'[s] = req[s]
    BY <1>1, <2>1 DEF CloseInv
  <2>2. CASE BeginLock(s)
    <3>1. PICK manual \in BOOLEAN :
             req' = [req EXCEPT ![s] = [NoRequest EXCEPT
                       !.manual = manual, !.intended = Cardinality(Partners)]]
      BY <2>2 DEF BeginLock
    <3> QED BY <3>1 DEF TypeOK, NoRequest
  <2>3. CASE LockCountSends(s)
    BY <1>1, <2>3, GotoMoves, FinishMoves DEF LockCountSends
  <2> QED BY <1>1, <2>1, <2>2, <2>3, LockPath
<1>2. ASSUME NEW s \in Sessions, pc'[s] = "lock_set", ~ req'[s].manual
      PROVE  CloseAccounted'
  <2>1. CASE pc'[s] = pc[s] /\ req'[s] = req[s]
    BY <1>2, <2>1, AccountedStays DEF CloseInv
  <2>2. CASE BeginLock(s)
    BY <1>2, <2>2, GotoMoves DEF BeginLock
  <2>3. CASE LockCountSends(s)
    <3>1. UNCHANGED req /\ pc[s] = "lock_count" /\ SentCount = req[s].intended
      BY <1>2, <2>3, FinishMoves DEF LockCountSends
    <3>2. CloseAccounted
      BY <3>1, CountedIsAccounted DEF CloseInv, DeliveryInv
    <3> QED BY <3>2, AccountedStays
  <2> QED BY <1>2, <2>1, <2>2, <2>3, LockPath
<1>3. CompleteCloseAddsUp'
  <2> SUFFICES ASSUME closure' = "complete" PROVE CloseAccounted'
    BY DEF CompleteCloseAddsUp, CloseAccounted
  <2>1. CloseAccounted
    <3>1. CASE UNCHANGED closure
      BY <3>1 DEF CloseInv, CompleteCloseAddsUp, CloseAccounted
    <3>2. ASSUME NEW s \in Sessions, LockSet(s) PROVE CloseAccounted
      BY <3>2 DEF LockSet, CloseInv
    <3> QED BY <3>1, <3>2, ClosureWrites
  <2> QED BY <2>1, AccountedStays
<1> QED BY <1>1, <1>2, <1>3 DEF CloseInv

\* A period closed without the manual override has had a message delivered to every
\* partner, or one of them has had messages of two document versions, even when sends,
\* outcomes and re-publications race with the count (period_locking.py:38).
THEOREM CloseIsAccountedFor == Spec => []CompleteCloseAddsUp
<1>1. Init => CloseInv
  BY DEF Init, CloseInv, CompleteCloseAddsUp
<1>2. TypeOK /\ DeliveryInv /\ CloseInv /\ [Next]_vars => CloseInv'
  BY CloseStep
<1>3. CloseInv => CompleteCloseAddsUp
  BY DEF CloseInv
<1> QED BY <1>1, <1>2, <1>3, TypeCorrect, DeliveryInvariant, PTL DEF Spec

----------------------------------------------------------------------------
(* SendLedger *)

\* Held of the key that s holds
StageOf(s) ==
    IF pc[s] \in {"send_audit", "send_provider"} THEN "calling"
    ELSE IF pc[s] \in {"send_record", "send_audit_sent"} THEN "accepted"
    ELSE "failing"

LEMMA HolderStage ==
    ASSUME DeliveryInv, NEW s \in Sessions, InFlight(s)
    PROVE  Key(s) \in Keys /\ Held[Key(s)] = StageOf(s)
<1>1. Key(s) \in Keys
  BY WorkingKeyType DEF InFlight, SendSteps
<1>2. \A t \in Sessions : InFlight(t) /\ Key(t) = Key(s) => t = s
  BY DEF DeliveryInv, ClaimExclusive
<1>3. \A calls \in SUBSET {"send_audit", "send_provider", "send_record",
                           "send_audit_sent", "send_failed"} :
         AtCall(Key(s), calls) <=> pc[s] \in calls
  BY <1>2 DEF AtCall, InFlight
<1>4. /\ AtCall(Key(s), {"send_audit", "send_provider"})
            <=> pc[s] \in {"send_audit", "send_provider"}
      /\ AtCall(Key(s), {"send_record", "send_audit_sent"})
            <=> pc[s] \in {"send_record", "send_audit_sent"}
      /\ AtCall(Key(s), {"send_failed"}) <=> pc[s] \in {"send_failed"}
  BY <1>3
<1> QED BY <1>1, <1>4 DEF Held, StageOf, InFlight

LEMMA HolderStageNext ==
    ASSUME DeliveryInv', NEW s \in Sessions, InFlight(s)', NEW k \in Keys,
           Key(s)' = k
    PROVE  Held'[k] = StageOf(s)'
<1>2. \A t \in Sessions : InFlight(t)' /\ Key(t)' = k => t = s
  BY DEF DeliveryInv, ClaimExclusive
<1>3. \A calls \in SUBSET {"send_audit", "send_provider", "send_record",
                           "send_audit_sent", "send_failed"} :
         AtCall(k, calls)' <=> pc'[s] \in calls
  BY <1>2 DEF AtCall, InFlight
<1>4. /\ AtCall(k, {"send_audit", "send_provider"})'
            <=> pc'[s] \in {"send_audit", "send_provider"}
      /\ AtCall(k, {"send_record", "send_audit_sent"})'
            <=> pc'[s] \in {"send_record", "send_audit_sent"}
      /\ AtCall(k, {"send_failed"})' <=> pc'[s] \in {"send_failed"}
  BY <1>3
<1> QED BY <1>4 DEF Held, StageOf, InFlight

\* nobody holds the key
LEMMA NoHolder ==
    ASSUME NEW k \in Keys, \A s \in Sessions : InFlight(s) => Key(s) # k
    PROVE  Held[k] = "free"
BY DEF Held, AtCall, InFlight

LEMMA NoHolderNext ==
    ASSUME NEW k \in Keys, \A s \in Sessions : InFlight(s)' => Key(s)' # k
    PROVE  Held'[k] = "free"
BY DEF Held, AtCall, InFlight

\* the keys that the moving session does not work on keep their holder
LEMMA OtherKeys ==
    ASSUME NEW s \in Sessions, Moves(s), NEW k \in Keys,
           InFlight(s) => Key(s) # k,
           InFlight(s)' => Key(s)' # k
    PROVE  Held'[k] = Held[k]
<1> DEFINE Calls == {"send_audit", "send_provider", "send_record",
                     "send_audit_sent", "send_failed"}
<1>1. ASSUME NEW calls \in SUBSET Calls
      PROVE  AtCall(k, calls)' <=> AtCall(k, calls)
  <2>1. \A t \in Sessions \ {s} : pc'[t] = pc[t] /\ Key(t)' = Key(t)
    BY DEF Moves, Key
  <2>2. ~(pc[s] \in calls /\ Key(s) = k) /\ ~(pc'[s] \in calls /\ Key(s)' = k)
    BY DEF InFlight
  <2> QED BY <2>1, <2>2 DEF AtCall
<1>2. /\ AtCall(k, {"send_audit", "send_provider"})'
            <=> AtCall(k, {"send_audit", "send_provider"})
      /\ AtCall(k, {"send_record", "send_audit_sent"})'
            <=> AtCall(k, {"send_record", "send_audit_sent"})
      /\ AtCall(k, {"send_failed"})' <=> AtCall(k, {"send_failed"})
  BY <1>1
<1> QED BY <1>2 DEF Held

LEMMA HeldUpdate ==
    ASSUME NEW k \in Keys, \A x \in Keys \ {k} : Held'[x] = Held[x]
    PROVE  Held' = [Held EXCEPT ![k] = Held'[k]]
BY DEF Held

\* a step by a session that holds no key before or after
LEMMA QuietLedger ==
    ASSUME NEW s \in Sessions, Moves(s), ~InFlight(s), ~InFlight(s)',
           UNCHANGED <<latest, deliveries>>
    PROVE  UNCHANGED <<latest, deliveries, Held>>
<1>1. \A k \in Keys : Held'[k] = Held[k]
  BY OtherKeys
<1>2. Held' = Held
  BY <1>1 DEF Held
<1> QED BY <1>2

LEMMA AdminLedger ==
    ASSUME TypeOK, NEW s \in Sessions, Begin(s) \/ AdminStep(s)
    PROVE  UNCHANGED <<latest, deliveries, Held>>
<1>1. UNCHANGED <<latest, deliveries>>
  BY DEF Begin, BeginSend, BeginBatch, BeginAuthorize, BeginSafeMode,
         BeginLock, BeginReopen, AdminStep, AuthorizeReadLock,
         SaveAuthorization, AuthorizeSetMode, SafeModeReadLock, SafeModeSet,
         LockCountSends, LockSet, LockReadActive, LockMarkUsed, ReopenCheck,
         ReopenUnlock, ReopenReadLatest, ReopenMarkStale, ReopenSetOff, repository
<1>2. CASE Begin(s)
  <2>1. Moves(s)
    BY <1>2 DEF Begin, BeginSend, BeginBatch, BeginAuthorize, BeginSafeMode,
         BeginLock, BeginReopen, Goto, TypeOK, Moves
  <2>2. pc[s] = "idle" /\ pc'[s] \in {"send_next", "auth_lock", "safe_lock",
                                      "lock_count", "reopen_check"}
    BY <1>2, GotoMoves DEF Begin, BeginSend, BeginBatch, BeginAuthorize,
         BeginSafeMode, BeginLock, BeginReopen
  <2> QED BY <1>1, <2>1, <2>2, QuietLedger DEF InFlight
<1>3. CASE AdminStep(s)
  <2>1. CASE \/ AuthorizeReadLock(s) \/ SaveAuthorization(s)
             \/ AuthorizeSetMode(s) \/ SafeModeReadLock(s) \/ SafeModeSet(s)
    <3>1. /\ Moves(s) /\ ~InFlight(s)
          /\ pc'[s] \in {"idle", "auth_save", "auth_mode", "safe_mode"}
      BY <2>1, FinishMoves, GotoMoves
         DEF AuthorizeReadLock, SaveAuthorization, AuthorizeSetMode,
             SafeModeReadLock, SafeModeSet, InFlight, Moves, TypeOK
    <3> QED BY <1>1, <3>1, QuietLedger DEF InFlight
  <2>2. CASE \/ LockCountSends(s) \/ LockSet(s) \/ LockReadActive(s)
             \/ LockMarkUsed(s)
    <3>1. /\ Moves(s) /\ ~InFlight(s)
          /\ pc'[s] \in {"idle", "lock_set", "lock_active", "lock_used"}
      BY <2>2, FinishMoves, GotoMoves
         DEF LockCountSends, LockSet, LockReadActive, LockMarkUsed, InFlight,
             Moves, TypeOK
    <3> QED BY <1>1, <3>1, QuietLedger DEF InFlight
  <2>3. CASE \/ ReopenCheck(s) \/ ReopenUnlock(s) \/ ReopenReadLatest(s)
             \/ ReopenMarkStale(s) \/ ReopenSetOff(s)
    <3>1. /\ Moves(s) /\ ~InFlight(s)
          /\ pc'[s] \in {"idle", "reopen_unlock", "reopen_latest",
                         "reopen_stale", "reopen_mode"}
      BY <2>3, FinishMoves, GotoMoves
         DEF ReopenCheck, ReopenUnlock, ReopenReadLatest, ReopenMarkStale,
             ReopenSetOff, InFlight, Moves, TypeOK
    <3> QED BY <1>1, <3>1, QuietLedger DEF InFlight
  <2> QED BY <1>3, <2>1, <2>2, <2>3 DEF AdminStep
<1> QED BY <1>2, <1>3

\* the holder of a key takes one step: what Held says of that key
LEMMA HolderStep ==
    ASSUME DeliveryInv, NEW s \in Sessions, Moves(s), InFlight(s),
           InFlight(s)' => Key(s)' = Key(s)
    PROVE  /\ Key(s) \in Keys
           /\ \A x \in Keys \ {Key(s)} : Held'[x] = Held[x]
           /\ Held[Key(s)] = StageOf(s)
           /\ \A t \in Sessions \ {s} : InFlight(t)' => Key(t)' # Key(s)
<1>1. Key(s) \in Keys /\ Held[Key(s)] = StageOf(s)
  BY HolderStage
<1>2. \A x \in Keys \ {Key(s)} : Held'[x] = Held[x]
  BY OtherKeys
<1>3. \A t \in Sessions \ {s} : InFlight(t)' =>
         InFlight(t) /\ Key(t)' = Key(t)
  BY DEF Moves, InFlight, Key
<1>4. \A t \in Sessions \ {s} : InFlight(t)' => Key(t)' # Key(s)
  BY <1>3 DEF DeliveryInv, ClaimExclusive
<1> QED BY <1>1, <1>2, <1>4

LEMMA SendReadLedger ==
    ASSUME TypeOK, NEW s \in Sessions,
           \/ SendNext(s) \/ SendReadMode(s) \/ SendReadLock(s)
           \/ SendReadAuth(s) \/ SendInvalidate(s)
    PROVE  UNCHANGED <<latest, deliveries, Held>>
<1>1. UNCHANGED <<latest, deliveries>> /\ ~InFlight(s)
  BY DEF SendNext, SendReadMode, SendReadLock, SendReadAuth, SendInvalidate,
         repository, InFlight
<1>2. Moves(s) /\ pc'[s] \in {"idle", "send_mode", "send_lock", "send_auth",
                              "send_invalidate", "send_claim"}
  <2>1. CASE SendNext(s)
    BY <2>1, GotoMoves DEF SendNext, Moves, TypeOK
  <2>2. CASE SendReadMode(s) \/ SendReadLock(s) \/ SendInvalidate(s)
    BY <2>2, FinishMoves, GotoMoves
       DEF SendReadMode, SendReadLock, SendInvalidate, Moves, TypeOK
  <2>3. CASE SendReadAuth(s)
    BY <2>3, FinishMoves, GotoMoves DEF SendReadAuth, Moves, TypeOK
  <2> QED BY <2>1, <2>2, <2>3
<1> QED BY <1>1, <1>2, QuietLedger DEF InFlight

LEMMA ClaimLedger ==
    ASSUME TypeOK, DeliveryInv, DeliveryInv', NEW s \in Sessions, SendClaim(s)
    PROVE  \/ UNCHANGED <<latest, deliveries, Held>>
           \/ \E k \in Keys : Ledger!Claim(k)
<1>1. pc[s] = "send_claim" /\ ~InFlight(s) /\ UNCHANGED deliveries
  BY DEF SendClaim, ClaimUnless, InFlight
<1>2. CASE Continue(s) /\ UNCHANGED latest
  BY <1>1, <1>2, ContinueMoves, QuietLedger DEF InFlight
<1>3. CASE /\ ~(latest[Key(s)] \in {"SENT", "SENDING"})
           /\ latest' = [latest EXCEPT ![Key(s)] = "SENDING"]
           /\ Goto(s, "send_audit")
           /\ UNCHANGED req
  <2>1. PICK k \in Keys : k = Key(s)
    BY <1>1, WorkingKeyType DEF SendSteps
  <2>2. Moves(s) /\ pc'[s] = "send_audit" /\ Key(s)' = k
    BY <1>3, <2>1, GotoMoves DEF Moves, Key
  <2>3. \A t \in Sessions : InFlight(t) => Key(t) # k
    BY <1>3, <2>1 DEF DeliveryInv, ClaimExclusive
  <2>4. Held[k] = "free" /\ latest[k] \in {"NONE", "FAILED"}
    BY <1>3, <2>1, <2>3, NoHolder DEF TypeOK
  <2>5. Held'[k] = "calling"
    BY <2>2, HolderStageNext DEF InFlight, StageOf
  <2>6. \A x \in Keys \ {k} : Held'[x] = Held[x]
    BY <1>1, <2>2, OtherKeys
  <2>7. Held' = [Held EXCEPT ![k] = "calling"]
    BY <2>5, <2>6, HeldUpdate
  <2>8. Ledger!Claim(k)
    BY <1>1, <1>3, <2>1, <2>4, <2>7 DEF Ledger!Claim
  <2> QED BY <2>8
<1> QED BY <1>2, <1>3 DEF SendClaim, ClaimUnless

\* the holder goes on holding its key
LEMMA HoldingStep ==
    ASSUME DeliveryInv, DeliveryInv', NEW s \in Sessions, Moves(s),
           InFlight(s), InFlight(s)', UNCHANGED req
    PROVE  /\ Key(s) \in Keys
           /\ Held[Key(s)] = StageOf(s)
           /\ Held' = [Held EXCEPT ![Key(s)] = StageOf(s)']
<1>1. Key(s)' = Key(s)
  BY DEF Key
<1>2. PICK k \in Keys : k = Key(s)
  BY HolderStage
<1>3. Held'[k] = StageOf(s)' /\ \A x \in Keys \ {k} : Held'[x] = Held[x]
  BY <1>1, <1>2, HolderStep, HolderStageNext
<1>4. Held' = [Held EXCEPT ![k] = Held'[k]]
  BY <1>3, HeldUpdate
<1> QED BY <1>2, <1>3, <1>4, HolderStage

\* the holder lets its key go
LEMMA ReleasingStep ==
    ASSUME DeliveryInv, NEW s \in Sessions, Moves(s), InFlight(s), ~InFlight(s)'
    PROVE  /\ Key(s) \in Keys
           /\ Held[Key(s)] = StageOf(s)
           /\ Held' = [Held EXCEPT ![Key(s)] = "free"]
<1>1. PICK k \in Keys : k = Key(s)
  BY HolderStage
<1>2. /\ \A x \in Keys \ {k} : Held'[x] = Held[x]
      /\ \A t \in Sessions : InFlight(t)' => Key(t)' # k
  BY <1>1, HolderStep
<1>3. Held'[k] = "free"
  BY <1>2, NoHolderNext
<1>4. Held' = [Held EXCEPT ![k] = Held'[k]]
  BY <1>2, HeldUpdate
<1> QED BY <1>1, <1>3, <1>4, HolderStage

LEMMA HolderLedger ==
    ASSUME TypeOK, DeliveryInv, DeliveryInv', NEW s \in Sessions,
           \/ SendAuditStarted(s) \/ ProviderAccepts(s) \/ ProviderRaises(s)
           \/ RecordSent(s) \/ AuditSent(s) \/ RecordRaises(s) \/ RecordFailed(s)
    PROVE  \/ UNCHANGED <<latest, deliveries, Held>>
           \/ \E k \in Keys : \/ Ledger!Accept(k) \/ Ledger!Fail(k)
                              \/ Ledger!RecordSent(k) \/ Ledger!RecordFailed(k)
                              \/ Ledger!Release(k)
<1>1. InFlight(s)
  BY DEF InFlight, SendAuditStarted, ProviderAccepts, ProviderRaises,
         RecordSent, AuditSent, RecordRaises, RecordFailed
<1>2. PICK k \in Keys : k = Key(s)
  BY <1>1, HolderStage
<1>3. CASE SendAuditStarted(s)
  <2>1. Moves(s) /\ pc[s] = "send_audit" /\ pc'[s] = "send_provider" /\ UNCHANGED req
    BY <1>3, GotoMoves DEF SendAuditStarted, Moves
  <2>2. Held[k] = "calling" /\ Held' = [Held EXCEPT ![k] = "calling"]
    BY <1>1, <1>2, <2>1, HoldingStep DEF StageOf, InFlight
  <2>3. Held' = Held
    BY <2>2 DEF Held
  <2> QED BY <1>3, <2>3 DEF SendAuditStarted
<1>4. CASE ProviderAccepts(s)
  <2>1. Moves(s) /\ pc[s] = "send_provider" /\ pc'[s] = "send_record" /\ UNCHANGED req
    BY <1>4, GotoMoves DEF ProviderAccepts, Moves
  <2>2. Held[k] = "calling" /\ Held' = [Held EXCEPT ![k] = "accepted"]
    BY <1>1, <1>2, <2>1, HoldingStep DEF StageOf, InFlight
  <2>3. Ledger!Accept(k)
    BY <1>2, <1>4, <2>2 DEF ProviderAccepts, repository, Ledger!Accept
  <2> QED BY <2>3
<1>5. CASE ProviderRaises(s)
  <2>1. Moves(s) /\ pc[s] = "send_provider" /\ pc'[s] = "send_failed" /\ UNCHANGED req
    BY <1>5, GotoMoves DEF ProviderRaises, Moves
  <2>2. Held[k] = "calling" /\ Held' = [Held EXCEPT ![k] = "failing"]
    BY <1>1, <1>2, <2>1, HoldingStep DEF StageOf, InFlight
  <2>3. \E n \in {0, 1} : deliveries' = [deliveries EXCEPT ![k] = @ + n]
    BY <1>2, <1>5 DEF ProviderRaises
  <2>4. Ledger!Fail(k)
    BY <1>5, <2>2, <2>3 DEF ProviderRaises, repository, Ledger!Fail
  <2> QED BY <2>4
<1>6. CASE RecordSent(s)
  <2>1. Moves(s) /\ pc[s] = "send_record" /\ pc'[s] = "send_audit_sent" /\ UNCHANGED req
    BY <1>6, GotoMoves DEF RecordSent, Moves
  <2>2. Held[k] = "accepted" /\ Held' = [Held EXCEPT ![k] = "accepted"]
    BY <1>1, <1>2, <2>1, HoldingStep DEF StageOf, InFlight
  <2>3. Held' = Held
    BY <2>2 DEF Held
  <2>4. Ledger!RecordSent(k)
    BY <1>2, <1>6, <2>2, <2>3 DEF RecordSent, Ledger!RecordSent
  <2> QED BY <2>4
<1>7. CASE RecordRaises(s)
  <2>1. /\ Moves(s) /\ pc[s] \in {"send_record", "send_audit_sent"}
        /\ pc'[s] = "send_failed" /\ UNCHANGED req
    BY <1>7, GotoMoves DEF RecordRaises, Moves
  <2>2. Held[k] = "accepted" /\ Held' = [Held EXCEPT ![k] = "failing"]
    BY <1>1, <1>2, <2>1, HoldingStep DEF StageOf, InFlight
  <2>3. Ledger!Fail(k)
    BY <1>7, <2>2 DEF RecordRaises, repository, Ledger!Fail
  <2> QED BY <2>3
<1>8. CASE AuditSent(s)
  <2>1. Moves(s) /\ pc[s] = "send_audit_sent" /\ ~InFlight(s)'
    BY <1>8, ContinueMoves DEF AuditSent, InFlight
  <2>2. Held[k] = "accepted" /\ Held' = [Held EXCEPT ![k] = "free"]
    BY <1>1, <1>2, <2>1, ReleasingStep DEF StageOf
  <2>3. Ledger!Release(k)
    BY <1>8, <2>2 DEF AuditSent, repository, Ledger!Release
  <2> QED BY <2>3
<1>9. CASE RecordFailed(s)
  <2>1. Moves(s) /\ pc[s] = "send_failed" /\ ~InFlight(s)'
    BY <1>9, ContinueMoves DEF RecordFailed, InFlight
  <2>2. Held[k] = "failing" /\ Held' = [Held EXCEPT ![k] = "free"]
    BY <1>1, <1>2, <2>1, ReleasingStep DEF StageOf
  <2>3. Ledger!RecordFailed(k)
    BY <1>2, <1>9, <2>2 DEF RecordFailed, Ledger!RecordFailed
  <2> QED BY <2>3
<1> QED BY <1>3, <1>4, <1>5, <1>6, <1>7, <1>8, <1>9

LEMMA InterruptLedger ==
    ASSUME TypeOK, DeliveryInv, NEW s \in Sessions, Interrupt(s)
    PROVE  \/ UNCHANGED <<latest, deliveries, Held>>
           \/ \E k \in Keys : Ledger!Release(k)
<1>1. UNCHANGED <<latest, deliveries>> /\ Moves(s) /\ ~InFlight(s)'
  BY FinishMoves DEF Interrupt, repository, InFlight
<1>2. CASE ~InFlight(s)
  BY <1>1, <1>2, QuietLedger
<1>3. CASE InFlight(s)
  <2>1. PICK k \in Keys : k = Key(s)
    BY <1>3, HolderStage
  <2>2. Held[k] # "free" /\ Held' = [Held EXCEPT ![k] = "free"]
    BY <1>1, <1>3, <2>1, ReleasingStep DEF StageOf
  <2>3. Ledger!Release(k)
    BY <1>1, <2>2 DEF Ledger!Release
  <2> QED BY <2>3
<1> QED BY <1>2, <1>3

LEMMA StepImplements ==
    ASSUME TypeOK, DeliveryInv, DeliveryInv', [Next]_vars
    PROVE  [Ledger!Next]_(Ledger!ledger)
<1>1. ASSUME NEW s \in Sessions, SendStep(s)
      PROVE  Ledger!Step \/ UNCHANGED <<latest, deliveries, Held>>
  BY <1>1, SendReadLedger, ClaimLedger, HolderLedger DEF SendStep, Ledger!Step
<1>2. ASSUME NEW s \in Sessions, Begin(s) \/ AdminStep(s)
      PROVE  UNCHANGED <<latest, deliveries, Held>>
  BY <1>2, AdminLedger
<1>3. ASSUME NEW s \in Sessions, Interrupt(s)
      PROVE  Ledger!Step \/ UNCHANGED <<latest, deliveries, Held>>
  BY <1>3, InterruptLedger DEF Ledger!Step
<1>4. ASSUME ChangeData \/ UNCHANGED vars
      PROVE  UNCHANGED <<latest, deliveries, Held>>
  <2>1. UNCHANGED <<latest, deliveries, pc, req>>
    BY <1>4 DEF ChangeData, vars, repository
  <2> QED BY <2>1 DEF Held, AtCall, Key
<1>5. Ledger!Step \/ UNCHANGED Ledger!ledger
  BY <1>1, <1>2, <1>3, <1>4 DEF Next, Ledger!ledger
<1> QED BY <1>5 DEF Ledger!Next

\* The workflow implements the ledger: seen from a send key, any number of
\* sessions, batches, retries, locks and crashes amount to one holder at a time
\* that claims, calls Gmail once and records what it saw.
THEOREM ImplementsSendLedger == Spec => ImplementsLedger
<1>1. Init => Ledger!Init
  BY DEF Init, Ledger!Init, Held, AtCall
<1>2. TypeOK /\ DeliveryInv /\ DeliveryInv' /\ [Next]_vars =>
         [Ledger!Next]_(Ledger!ledger)
  BY StepImplements
<1> QED BY <1>1, <1>2, TypeCorrect, DeliveryInvariant, PTL
        DEF Spec, ImplementsLedger, Ledger!Spec

----------------------------------------------------------------------------
(* Authorizations *)

authRows == <<authStatus, authMode, authPackages, nextAuth>>

\* a step that changes no authorization row
LEMMA RowsKept ==
    ASSUME AuthorizationInv, NEW s \in Sessions, Moves(s), UNCHANGED authRows,
           pc'[s] # "auth_save", HolderInv(s)'
    PROVE  AuthorizationInv'
<1>1. UniqueActive' /\ \A a \in AuthIds : a >= nextAuth' => authStatus'[a] = "NONE"
  BY DEF AuthorizationInv, UniqueActive, ActiveAuths, authRows
<1>2. ASSUME NEW t \in Sessions PROVE SavingInv(t)'
  BY DEF AuthorizationInv, SavingInv, Moves, authRows
<1>3. ASSUME NEW t \in Sessions PROVE HolderInv(t)'
  <2>1. CASE t = s
    BY <2>1
  <2>2. CASE t # s
    <3>1. HolderInv(t) /\ pc'[t] = pc[t] /\ req'[t] = req[t]
      BY <2>2 DEF AuthorizationInv, Moves
    <3> QED BY <3>1 DEF HolderInv, HoldsAuth, InFlight, authRows
  <2> QED BY <2>1, <2>2
<1> QED BY <1>1, <1>2, <1>3 DEF AuthorizationInv

\* a step that ends the row its session remembers
LEMMA RowEnded ==
    ASSUME TypeOK, AuthorizationInv, NEW s \in Sessions, Moves(s),
           HoldsAuth(s), NEW ended \in {"STALE", "USED"},
           authStatus' = [authStatus EXCEPT ![req[s].auth] = ended],
           UNCHANGED <<authMode, authPackages, nextAuth>>,
           pc'[s] \notin {"auth_save"} \cup SendSteps, ~HoldsAuth(s)'
    PROVE  AuthorizationInv'
<1>1. req[s].auth \in AuthIds /\ authStatus[req[s].auth] # "NONE"
  BY DEF AuthorizationInv, HolderInv
<1>2. \A a \in AuthIds : \/ authStatus'[a] = authStatus[a]
                         \/ authStatus[a] # "NONE" /\ authStatus'[a] = ended
  BY <1>1 DEF TypeOK
<1>3. UniqueActive' /\ \A a \in AuthIds : a >= nextAuth' => authStatus'[a] = "NONE"
  BY <1>2 DEF AuthorizationInv, UniqueActive, ActiveAuths
<1>4. ASSUME NEW t \in Sessions PROVE SavingInv(t)'
  BY <1>2 DEF AuthorizationInv, SavingInv, Moves
<1>5. ASSUME NEW t \in Sessions PROVE HolderInv(t)'
  <2>1. CASE t = s
    BY <2>1 DEF HolderInv, HoldsAuth
  <2>2. CASE t # s
    <3>1. HolderInv(t) /\ pc'[t] = pc[t] /\ req'[t] = req[t]
      BY <2>2 DEF AuthorizationInv, Moves
    <3> QED BY <1>2, <3>1 DEF HolderInv, HoldsAuth, InFlight
  <2> QED BY <2>1, <2>2
<1> QED BY <1>3, <1>4, <1>5 DEF AuthorizationInv

----------------------------------------------------------------------------
(* One lemma per group of actions *)

LEMMA BeginKeepsAuthorization ==
    ASSUME TypeOK, AuthorizationInv, NEW s \in Sessions, Begin(s)
    PROVE  AuthorizationInv'
<1>1. UNCHANGED authRows
  BY DEF Begin, BeginSend, BeginBatch, BeginAuthorize, BeginSafeMode,
         BeginLock, BeginReopen, repository, authRows
<1>2. Moves(s)
  BY DEF Begin, BeginSend, BeginBatch, BeginAuthorize, BeginSafeMode,
         BeginLock, BeginReopen, Goto, TypeOK, Moves
<1>3. pc'[s] \in {"send_next", "auth_lock", "safe_lock", "lock_count", "reopen_check"}
  BY GotoMoves DEF Begin, BeginSend, BeginBatch, BeginAuthorize, BeginSafeMode,
                   BeginLock, BeginReopen
<1>4. pc'[s] = "send_next" => req'[s].packages = PeriodPackages(req'[s].snap)
  <2>1. CASE BeginSend(s)
    <3>1. PICK p \in Partners, retry \in BOOLEAN :
             \E ready \in {FALSE, ReadyForSend(p, snapshot)} :
                req' = [req EXCEPT ![s] = [NoRequest EXCEPT
                           !.todo = {p}, !.retry = retry, !.ready = ready,
                           !.snap = snapshot,
                           !.packages = PeriodPackages(snapshot)]]
      BY <2>1, Zenon DEF BeginSend
    <3> QED BY <3>1 DEF NoRequest, TypeOK
  <2>2. CASE BeginBatch(s)
    <3>1. PICK batch \in SUBSET Partners, retry \in BOOLEAN :
             req' = [req EXCEPT ![s] = [NoRequest EXCEPT
                        !.todo = batch, !.retry = retry, !.ready = TRUE,
                        !.snap = snapshot,
                        !.packages = PeriodPackages(snapshot)]]
      BY <2>2 DEF BeginBatch
    <3> QED BY <3>1 DEF NoRequest, TypeOK
  <2>3. CASE \/ BeginAuthorize(s) \/ BeginSafeMode(s)
             \/ BeginLock(s) \/ BeginReopen(s)
    <3>1. \E step \in {"auth_lock", "safe_lock", "lock_count", "reopen_check"} :
             Goto(s, step)
      BY <2>3 DEF BeginAuthorize, BeginSafeMode, BeginLock, BeginReopen
    <3> QED BY <3>1, GotoMoves
  <2> QED BY <2>1, <2>2, <2>3 DEF Begin
<1>5. HolderInv(s)'
  BY <1>3, <1>4 DEF HolderInv, HoldsAuth, InFlight, SendSteps
<1> QED BY <1>1, <1>2, <1>3, <1>5, RowsKept

LEMMA SendReadAuthKeeps ==
    ASSUME TypeOK, AuthorizationInv, NEW s \in Sessions, SendReadAuth(s)
    PROVE  AuthorizationInv'
<1>1. UNCHANGED authRows
  BY DEF SendReadAuth, repository, authRows
<1>2. CASE Finish(s)
  BY <1>1, <1>2, FinishMoves, RowsKept
     DEF HolderInv, HoldsAuth, InFlight, SendSteps
<1>3. CASE ~Finish(s)
  <2>1. PICK a \in ActiveAuths :
           /\ authMode[a] = "SEND"
           /\ req' = [req EXCEPT ![s].auth = a]
           /\ \/ Goto(s, "send_invalidate")
              \/ IsCurrent(a, req[s].packages) /\ Goto(s, "send_claim")
    BY <1>3 DEF SendReadAuth, IsNewest
  <2>2. a \in AuthIds /\ authStatus[a] = "ACTIVE"
    BY DEF ActiveAuths
  <2>3. /\ req'[s].auth = a /\ req'[s].packages = req[s].packages
        /\ req'[s].snap = req[s].snap
        /\ Moves(s)
    BY <2>1, GotoMoves DEF Moves, TypeOK, Requests
  <2>4. \/ pc'[s] = "send_invalidate"
        \/ pc'[s] = "send_claim" /\ authPackages[a] = req[s].packages
    BY <2>1, GotoMoves DEF IsCurrent
  <2>5. req[s].packages = PeriodPackages(req[s].snap)
    BY DEF AuthorizationInv, HolderInv, SendReadAuth, SendSteps
  <2>6. HolderInv(s)'
    BY <1>1, <2>1, <2>2, <2>3, <2>4, <2>5
       DEF HolderInv, HoldsAuth, InFlight, authRows
  <2> QED BY <1>1, <2>3, <2>4, <2>6, RowsKept
<1> QED BY <1>2, <1>3

LEMMA SendStepKeepsAuthorization ==
    ASSUME TypeOK, AuthorizationInv, NEW s \in Sessions, SendStep(s)
    PROVE  AuthorizationInv'
<1> USE DEF HolderInv, HoldsAuth, InFlight, SendSteps
<1>1. CASE SendReadAuth(s)
  BY <1>1, SendReadAuthKeeps
<1>2. CASE SendInvalidate(s)
  <2>1. Moves(s) /\ pc'[s] = "idle"
    BY <1>2, FinishMoves DEF SendInvalidate
  <2> QED BY <1>2, <2>1, RowEnded DEF SendInvalidate
<1>3. CASE SendNext(s)
  <2>1. pc'[s] = "send_mode" /\ Moves(s) /\ UNCHANGED authRows
    BY <1>3, GotoMoves DEF SendNext, Moves, TypeOK, repository, authRows
  <2>2. req'[s].packages = req[s].packages /\ req'[s].snap = req[s].snap
    BY <1>3 DEF SendNext, TypeOK, Requests
  <2>3. req[s].packages = PeriodPackages(req[s].snap)
    BY <1>3 DEF AuthorizationInv, SendNext
  <2> QED BY <2>1, <2>2, <2>3, RowsKept
<1>4. CASE SendReadMode(s) \/ SendReadLock(s)
  <2>1. /\ \/ pc'[s] = "idle"
           \/ pc'[s] \in {"send_lock", "send_auth"} /\ UNCHANGED req
        /\ Moves(s) /\ UNCHANGED authRows
    BY <1>4, GotoMoves, FinishMoves
       DEF SendReadMode, SendReadLock, Moves, repository, authRows
  <2>2. req[s].packages = PeriodPackages(req[s].snap)
    BY <1>4 DEF AuthorizationInv, SendReadMode, SendReadLock
  <2> QED BY <2>1, <2>2, RowsKept
<1>5. CASE \/ SendClaim(s) \/ SendAuditStarted(s) \/ ProviderAccepts(s)
           \/ ProviderRaises(s) \/ RecordSent(s) \/ AuditSent(s)
           \/ RecordRaises(s) \/ RecordFailed(s)
  <2>1. UNCHANGED authRows
    BY <1>5 DEF SendClaim, ClaimUnless, SendAuditStarted, ProviderAccepts,
                ProviderRaises, RecordSent, AuditSent, RecordRaises,
                RecordFailed, repository, authRows
  <2>2. pc[s] = "send_claim" \/ InFlight(s)
    BY <1>5 DEF SendClaim, ClaimUnless, SendAuditStarted, ProviderAccepts,
                ProviderRaises, RecordSent, AuditSent, RecordRaises, RecordFailed
  <2>3. \/ Continue(s)
        \/ /\ UNCHANGED req
           /\ \E step \in {"send_audit", "send_provider", "send_record",
                           "send_audit_sent", "send_failed"} : Goto(s, step)
    BY <1>5 DEF SendClaim, ClaimUnless, SendAuditStarted, ProviderAccepts,
                ProviderRaises, RecordSent, AuditSent, RecordRaises, RecordFailed
  <2>4. CASE Continue(s)
    <3>1. req[s].packages = PeriodPackages(req[s].snap)
      BY <2>2 DEF AuthorizationInv
    <3> QED BY <2>1, <2>4, <3>1, ContinueMoves, RowsKept
  <2>5. CASE UNCHANGED req /\ pc'[s] # "auth_save" /\ Moves(s)
    <3>1. HolderInv(s)
      BY DEF AuthorizationInv
    <3>2. HolderInv(s)'
      BY <2>1, <2>2, <2>5, <3>1 DEF authRows
    <3> QED BY <2>1, <2>5, <3>2, RowsKept
  <2> QED BY <2>3, <2>4, <2>5, GotoMoves DEF Moves
<1> QED BY <1>1, <1>2, <1>3, <1>4, <1>5 DEF SendStep

LEMMA AuthorizeReadLockKeeps ==
    ASSUME TypeOK, AuthorizationInv, NEW s \in Sessions, AuthorizeReadLock(s)
    PROVE  AuthorizationInv'
<1>1. CASE Finish(s) /\ UNCHANGED nextAuth
  <2>1. UNCHANGED authRows
    BY <1>1 DEF AuthorizeReadLock, authRows
  <2> QED BY <1>1, <2>1, FinishMoves, RowsKept
          DEF HolderInv, HoldsAuth, InFlight, SendSteps
<1>2. CASE ~(locked \/ nextAuth > MaxAuths)
  <2>1. /\ nextAuth' = nextAuth + 1
        /\ req' = [req EXCEPT ![s].auth = nextAuth]
        /\ Goto(s, "auth_save")
        /\ UNCHANGED <<authStatus, authMode, authPackages>>
    BY <1>2 DEF AuthorizeReadLock
  <2>2. nextAuth \in AuthIds /\ AuthIds \subseteq Nat /\ nextAuth \in Nat
    BY <1>2, ConstantsAssumption DEF TypeOK, AuthIds
  <2>3. /\ pc'[s] = "auth_save" /\ req'[s].auth = nextAuth
        /\ \A t \in Sessions \ {s} : pc'[t] = pc[t] /\ req'[t] = req[t]
    BY <2>1, GotoMoves DEF TypeOK, Requests
  <2>4. authStatus[nextAuth] = "NONE"
    BY <2>2 DEF AuthorizationInv
  <2>5. ASSUME NEW t \in Sessions PROVE SavingInv(t)'
    BY <2>1, <2>2, <2>3, <2>4 DEF AuthorizationInv, SavingInv
  <2>6. ASSUME NEW t \in Sessions PROVE HolderInv(t)'
    BY <2>1, <2>3 DEF AuthorizationInv, HolderInv, HoldsAuth, InFlight, SendSteps
  <2>7. UniqueActive' /\ \A a \in AuthIds : a >= nextAuth' => authStatus'[a] = "NONE"
    BY <2>1, <2>2 DEF AuthorizationInv, UniqueActive, ActiveAuths
  <2> QED BY <2>5, <2>6, <2>7 DEF AuthorizationInv
<1> QED BY <1>1, <1>2 DEF AuthorizeReadLock

LEMMA SaveAuthorizationKeeps ==
    ASSUME TypeOK, AuthorizationInv, NEW s \in Sessions, SaveAuthorization(s)
    PROVE  AuthorizationInv'
<1> DEFINE new == req[s].auth
<1>1. new \in AuthIds /\ new < nextAuth /\ authStatus[new] = "NONE"
  BY DEF AuthorizationInv, SavingInv, SaveAuthorization
<1>2. /\ authStatus'[new] = "ACTIVE"
      /\ \A a \in AuthIds \ {new} :
            /\ authStatus'[a] = IF authStatus[a] = "ACTIVE" THEN "REVOKED"
                                ELSE authStatus[a]
            /\ authMode'[a] = authMode[a]
            /\ authPackages'[a] = authPackages[a]
      /\ UNCHANGED <<nextAuth, req>>
  BY <1>1 DEF SaveAuthorization, TypeOK
<1>3. pc'[s] = "auth_mode" /\ \A t \in Sessions \ {s} : pc'[t] = pc[t]
  BY GotoMoves DEF SaveAuthorization
<1>4. UniqueActive'
  BY <1>2 DEF UniqueActive, ActiveAuths
<1>5. \A a \in AuthIds : a >= nextAuth' => authStatus'[a] = "NONE"
  <2> TAKE a \in AuthIds
  <2> HAVE a >= nextAuth'
  <2>1. a # new /\ authStatus[a] = "NONE"
    BY <1>1, <1>2, ConstantsAssumption DEF AuthorizationInv, AuthIds, TypeOK
  <2> QED BY <1>2, <2>1
<1>6. ASSUME NEW t \in Sessions PROVE SavingInv(t)'
  <2>1. CASE t = s
    BY <1>3, <2>1 DEF SavingInv
  <2>2. CASE t # s /\ pc[t] = "auth_save"
    <3>1. req[t].auth \in AuthIds \ {new}
      BY <2>2 DEF AuthorizationInv, SavingInv, SaveAuthorization
    <3>2. SavingInv(t)
      BY DEF AuthorizationInv
    <3> QED BY <1>2, <1>3, <2>2, <3>1, <3>2 DEF SavingInv
  <2> QED BY <1>3, <2>1, <2>2 DEF SavingInv
<1>7. ASSUME NEW t \in Sessions PROVE HolderInv(t)'
  <2>1. CASE t = s
    BY <1>3, <2>1 DEF HolderInv, HoldsAuth, InFlight, SendSteps
  <2>2. CASE t # s
    <3>1. HolderInv(t)
      BY DEF AuthorizationInv
    <3>2. HoldsAuth(t) => req[t].auth \in AuthIds \ {new}
      BY <1>1, <3>1 DEF HolderInv
    <3> QED BY <1>2, <1>3, <2>2, <3>1, <3>2 DEF HolderInv, HoldsAuth, InFlight
  <2> QED BY <2>1, <2>2
<1> QED BY <1>4, <1>5, <1>6, <1>7 DEF AuthorizationInv

LEMMA AdminStepKeepsAuthorization ==
    ASSUME TypeOK, AuthorizationInv, NEW s \in Sessions, AdminStep(s)
    PROVE  AuthorizationInv'
<1> USE DEF HolderInv, HoldsAuth, InFlight, SendSteps
<1>1. CASE AuthorizeReadLock(s)
  BY <1>1, AuthorizeReadLockKeeps
<1>2. CASE SaveAuthorization(s)
  BY <1>2, SaveAuthorizationKeeps
<1>3. CASE LockMarkUsed(s)
  <2>1. Moves(s) /\ pc'[s] = "idle"
    BY <1>3, FinishMoves DEF LockMarkUsed
  <2> QED BY <1>3, <2>1, RowEnded DEF LockMarkUsed
<1>4. CASE ReopenMarkStale(s)
  <2>1. Moves(s) /\ pc'[s] = "reopen_mode"
    BY <1>4, GotoMoves DEF ReopenMarkStale, Moves
  <2> QED BY <1>4, <2>1, RowEnded DEF ReopenMarkStale
<1>5. CASE LockReadActive(s) \/ ReopenReadLatest(s)
  <2>1. UNCHANGED authRows
    BY <1>5 DEF LockReadActive, ReopenReadLatest, repository, authRows
  <2>2. CASE Moves(s) /\ pc'[s] \in {"idle", "reopen_mode"}
    BY <2>1, <2>2, RowsKept
  <2>3. CASE \E a \in SavedAuths : /\ req' = [req EXCEPT ![s].auth = a]
                                   /\ \/ Goto(s, "lock_used")
                                      \/ Goto(s, "reopen_stale")
    <3>1. PICK a \in SavedAuths : /\ req' = [req EXCEPT ![s].auth = a]
                                  /\ \/ Goto(s, "lock_used")
                                     \/ Goto(s, "reopen_stale")
      BY <2>3
    <3>2. a \in AuthIds /\ authStatus[a] # "NONE"
      BY DEF SavedAuths
    <3>3. /\ Moves(s) /\ req'[s].auth = a
          /\ pc'[s] \in {"lock_used", "reopen_stale"}
      BY <3>1, GotoMoves DEF Moves, TypeOK, Requests
    <3> QED BY <2>1, <3>2, <3>3, RowsKept DEF authRows
  <2>4. ActiveAuths \subseteq SavedAuths
    BY DEF ActiveAuths, SavedAuths
  <2> QED BY <1>5, <2>2, <2>3, <2>4, FinishMoves, GotoMoves
          DEF LockReadActive, ReopenReadLatest, IsNewest, Moves
<1>6. CASE \/ AuthorizeSetMode(s) \/ SafeModeReadLock(s) \/ SafeModeSet(s)
           \/ LockCountSends(s) \/ LockSet(s) \/ ReopenCheck(s)
           \/ ReopenUnlock(s) \/ ReopenSetOff(s)
  <2>1. UNCHANGED authRows
    BY <1>6 DEF AuthorizeSetMode, SafeModeReadLock, SafeModeSet, LockCountSends,
                LockSet, ReopenCheck, ReopenUnlock, ReopenSetOff, repository,
                authRows
  <2>2. Moves(s) /\ pc'[s] \in {"idle", "safe_mode", "lock_set", "lock_active",
                                "reopen_unlock", "reopen_latest"}
    BY <1>6, FinishMoves, GotoMoves
       DEF AuthorizeSetMode, SafeModeReadLock, SafeModeSet, LockCountSends,
           LockSet, ReopenCheck, ReopenUnlock, ReopenSetOff, Moves
  <2> QED BY <2>1, <2>2, RowsKept
<1> QED BY <1>1, <1>2, <1>3, <1>4, <1>5, <1>6 DEF AdminStep

LEMMA StepKeepsAuthorization ==
    ASSUME TypeOK, AuthorizationInv, [Next]_vars
    PROVE  AuthorizationInv'
<1>1. ASSUME NEW s \in Sessions, Interrupt(s) PROVE AuthorizationInv'
  <2>1. UNCHANGED authRows
    BY <1>1 DEF Interrupt, repository, authRows
  <2> QED BY <1>1, <2>1, FinishMoves, RowsKept
          DEF Interrupt, HolderInv, HoldsAuth, InFlight, SendSteps
<1>2. CASE ChangeData \/ UNCHANGED vars
  <2>1. UNCHANGED authRows /\ UNCHANGED <<pc, req>>
    BY <1>2 DEF ChangeData, vars, repository, authRows
  <2> QED BY <2>1 DEF AuthorizationInv, UniqueActive, ActiveAuths, SavingInv,
                      HolderInv, HoldsAuth, InFlight, authRows
<1> QED BY <1>1, <1>2, BeginKeepsAuthorization, SendStepKeepsAuthorization,
           AdminStepKeepsAuthorization DEF Next

----------------------------------------------------------------------------

LEMMA InitialAuthorization == Init => AuthorizationInv
BY DEF Init, AuthorizationInv, UniqueActive, ActiveAuths, SavingInv, HolderInv,
       HoldsAuth, InFlight, SendSteps

\* The authorization invariant: a row is inserted once, by the request that took
\* its stamp; every status written later is of an existing row; one is ACTIVE.
THEOREM AuthorizationInvariant == Spec => []AuthorizationInv
<1>1. Init => AuthorizationInv
  BY InitialAuthorization
<1>2. TypeOK /\ AuthorizationInv /\ [Next]_vars => AuthorizationInv'
  BY StepKeepsAuthorization
<1> QED BY <1>1, <1>2, TypeCorrect, PTL DEF Spec

\* However many Admins authorize the period at once, one authorization is ACTIVE
\* at most (save_authorization).
THEOREM ActiveIsUnique == Spec => []UniqueActive
<1>1. AuthorizationInv => UniqueActive
  BY DEF AuthorizationInv
<1> QED BY <1>1, AuthorizationInvariant, PTL

LEMMA Covered == AuthorizationInv /\ DeliveryInv => SentUnderAuthorization
<1>1. ASSUME AuthorizationInv, DeliveryInv, NEW s \in Sessions, InFlight(s)
      PROVE  /\ authStatus[req[s].auth] # "NONE"
             /\ authMode[req[s].auth] = "SEND"
             /\ Package(req[s].partner, req[s].snap) \in authPackages[req[s].auth]
  <2>1. pc[s] \in SendSteps \ {"send_next"}
    BY <1>1 DEF InFlight, SendSteps
  <2>2. req[s].partner \in Partners
    BY <1>1, <2>1 DEF DeliveryInv, SenderInv
  <2>3. /\ HolderInv(s)
        /\ authPackages[req[s].auth] = PeriodPackages(req[s].snap)
    BY <1>1, <2>1 DEF AuthorizationInv, HolderInv
  <2> QED BY <1>1, <2>2, <2>3 DEF HolderInv, HoldsAuth, PeriodPackages
<1> QED BY <1>1 DEF SentUnderAuthorization

\* Every package claimed for sending is one that a SEND authorization was given
\* for, with these documents and these contents (send, is_current).
THEOREM SendsAreAuthorized == Spec => []SentUnderAuthorization
BY Covered, AuthorizationInvariant, DeliveryInvariant, PTL

\* What writes an authorization row: its insertion, or an end put to the row a session
\* remembers.
LEMMA StatusWrites ==
    ASSUME [Next]_vars
    PROVE  \/ UNCHANGED <<authStatus, authMode>>
           \/ \E s \in Sessions :
                 \/ SaveAuthorization(s)
                 \/ /\ HoldsAuth(s) /\ UNCHANGED authMode
                    /\ \E ended \in {"STALE", "USED"} :
                          authStatus' = [authStatus EXCEPT ![req[s].auth] = ended]
<1>1. CASE UNCHANGED vars \/ ChangeData
  BY <1>1 DEF vars, ChangeData, repository
<1>2. ASSUME NEW s \in Sessions, Begin(s) \/ Interrupt(s)
      PROVE  UNCHANGED <<authStatus, authMode>>
  BY <1>2 DEF Begin, BeginSend, BeginBatch, BeginAuthorize, BeginSafeMode,
              BeginLock, BeginReopen, Interrupt, repository
<1>3. ASSUME NEW s \in Sessions, SendStep(s)
      PROVE  \/ UNCHANGED <<authStatus, authMode>>
             \/ /\ HoldsAuth(s) /\ UNCHANGED authMode
                /\ authStatus' = [authStatus EXCEPT ![req[s].auth] = "STALE"]
  BY <1>3 DEF SendStep, SendNext, SendReadMode, SendReadLock, SendReadAuth,
              SendInvalidate, SendClaim, ClaimUnless, SendAuditStarted,
              ProviderAccepts, ProviderRaises, RecordSent, AuditSent,
              RecordRaises, RecordFailed, HoldsAuth, repository
<1>4. ASSUME NEW s \in Sessions, AdminStep(s)
      PROVE  \/ UNCHANGED <<authStatus, authMode>>
             \/ SaveAuthorization(s)
             \/ /\ HoldsAuth(s) /\ UNCHANGED authMode
                /\ \E ended \in {"STALE", "USED"} :
                      authStatus' = [authStatus EXCEPT ![req[s].auth] = ended]
  BY <1>4 DEF AdminStep, AuthorizeReadLock, AuthorizeSetMode,
              SafeModeReadLock, SafeModeSet, LockCountSends, LockSet,
              LockReadActive, LockMarkUsed, ReopenCheck, ReopenUnlock,
              ReopenReadLatest, ReopenMarkStale, ReopenSetOff, HoldsAuth, repository
<1> QED BY <1>1, <1>2, <1>3, <1>4 DEF Next

\* A row that was ended is not ACTIVE after any write.
LEMMA EndedStays ==
    ASSUME TypeOK, AuthorizationInv, [Next]_vars, NEW a \in AuthIds,
           authStatus[a] \in {"STALE", "REVOKED", "USED"}
    PROVE  authStatus'[a] # "ACTIVE"
<1>1. ASSUME NEW s \in Sessions, NEW ended \in {"STALE", "USED"},
             authStatus' = [authStatus EXCEPT ![req[s].auth] = ended]
      PROVE  authStatus'[a] # "ACTIVE"
  BY <1>1 DEF TypeOK
<1>2. ASSUME NEW s \in Sessions, SaveAuthorization(s)
      PROVE  authStatus'[a] # "ACTIVE"
  <2>1. authStatus[req[s].auth] = "NONE"
    BY <1>2 DEF AuthorizationInv, SavingInv, SaveAuthorization
  <2> QED BY <1>2, <2>1 DEF SaveAuthorization
<1> QED BY <1>1, <1>2, StatusWrites

\* A revoked, used or stale authorization is never ACTIVE again, although
\* set_authorization_status writes any status over any other.
THEOREM EndedStaysEnded == Spec => NeverReactivated
<1> DEFINE Ended(a) == authStatus[a] \in {"STALE", "REVOKED", "USED"}
<1>1. ASSUME TypeOK, AuthorizationInv, [Next]_vars, NEW a \in AuthIds, Ended(a)
      PROVE  authStatus'[a] # "ACTIVE"
  BY <1>1, EndedStays
<1>2. TypeOK /\ AuthorizationInv /\ [Next]_vars =>
         [\A a \in AuthIds : Ended(a) => authStatus'[a] # "ACTIVE"]_vars
  BY <1>1
<1> QED BY <1>2, TypeCorrect, AuthorizationInvariant, PTL DEF Spec, NeverReactivated

----------------------------------------------------------------------------
(* The Admin Control page on top of the services *)

\* Some authorization row exists; some row was stamped before a.
SomeRow == \E b \in AuthIds : authStatus[b] # "NONE"
RowBefore(a) == \E b \in AuthIds : b < a /\ authStatus[b] # "NONE"

\* What a rerun remembers: an authorization row that exists, data that was there;
\* and a click on "authorize SEND" is only carried where such a row was seen.
RerunInv(v) ==
    /\ v.auth # 0 => v.auth \in AuthIds /\ authStatus[v.auth] # "NONE"
    /\ v.step \notin {"closed", "data"} => v.snap \in Snapshots
    /\ v.click = "authorize_send" => SomeRow

\* A request for a SEND authorization has found another row, stamped before its own.
AskingInv(s) ==
    req[s].mode = "SEND" => /\ pc[s] = "auth_lock" => SomeRow
                            /\ pc[s] = "auth_save" => RowBefore(req[s].auth)

CenterInv ==
    /\ page \in [Tabs -> Pages]
    /\ \A t \in Tabs : RerunInv(page[t])
    /\ \A s \in Sessions : AskingInv(s)
    /\ SendFollowsAuthorization

\* The page adds three steps to those of the services: the check of a rerun that
\* ends an authorization, and the requests it hands to authorize and lock.
EndsRow(t) ==
    /\ page[t].step = "check" /\ page[t].auth # 0
    /\ authStatus' = [authStatus EXCEPT ![page[t].auth] = "STALE"]
    /\ page' = [page EXCEPT ![t].step = "act"]
    /\ UNCHANGED <<locked, mode, authMode, authPackages, nextAuth, latest, started,
                   deliveries, snapshot, closure, pc, req, faults>>

LEMMA PageSteps ==
    ASSUME NEW t \in Tabs, PageStep(t)
    PROVE  \/ UNCHANGED vars \/ EndsRow(t) \/ PageAuthorize(t) \/ PageLock(t)
<1>1. CASE CheckAuthorization(t)
  BY <1>1, Zenon DEF CheckAuthorization, EndsRow, At
<1>2. CASE ~ CheckAuthorization(t)
  BY <1>2, Zenon DEF PageStep, Rerun, LoadData, LoadAuthorization, LoadSends, LoadLock,
                     LoadDocuments, Show
<1> QED BY <1>1, <1>2

LEMMA ServiceSteps ==
    ASSUME NEW s \in Sessions, ServiceStep(s)
    PROVE  Next
BY Zenon DEF ServiceStep, Begin, Next

\* A step of the composition is one of the services' or one of the three.
LEMMA CenterSteps ==
    ASSUME [CenterNext]_centerVars
    PROVE  \/ [Next]_vars
           \/ \E t \in Tabs : EndsRow(t) \/ PageAuthorize(t) \/ PageLock(t)
<1>1. CASE \E t \in Tabs : PageStep(t)
  BY <1>1, PageSteps, Zenon
<1>2. CASE \E s \in Sessions : ServiceStep(s)
  BY <1>2, ServiceSteps, Zenon
<1>3. CASE ChangeData
  BY <1>3, Zenon DEF Next
<1>4. CASE UNCHANGED centerVars
  BY <1>4, Zenon DEF centerVars
<1> QED BY <1>1, <1>2, <1>3, <1>4, Zenon DEF CenterNext

LEMMA EligibleTypes ==
    ASSUME NEW v \in Pages, v.snap \in Snapshots
    PROVE  /\ EligiblePackages(v) \in SUBSET Packages
           /\ Cardinality(Eligible(v)) \in Nat
<1>1. Eligible(v) \subseteq Partners
  BY DEF Eligible, Pages
<1>2. EligiblePackages(v) \subseteq PeriodPackages(v.snap)
  BY <1>1 DEF EligiblePackages, PeriodPackages
<1>3. IsFiniteSet(Eligible(v))
  BY <1>1, FS_Subset, ConstantsAssumption
<1> QED BY <1>2, <1>3, PackagesType, FS_CardinalityType

\* What a click hands to a service is a request of it.
LEMMA ClickRequest ==
    ASSUME TypeOK, CenterInv, NEW t \in Tabs, PageAuthorize(t) \/ PageLock(t)
    PROVE  /\ t \in Sessions /\ Moves(t) /\ pc[t] = "idle"
           /\ pc'[t] \in {"auth_lock", "lock_count"}
           /\ req' \in [Sessions -> Requests]
           /\ pc'[t] = "auth_lock" /\ req'[t].mode = "SEND" => SomeRow
<1>1. /\ t \in Sessions /\ page[t] \in Pages /\ page[t].snap \in Snapshots
      /\ pc[t] = "idle"
  BY CenterAssumption DEF CenterInv, RerunInv, PageAuthorize, PageLock, At
<1>2. CASE PageAuthorize(t)
  <2>1. PICK m \in AuthorizedModes :
           /\ page[t].click = IF m = "SEND" THEN "authorize_send" ELSE "authorize_draft"
           /\ req' = [req EXCEPT ![t] = [NoRequest EXCEPT
                         !.mode = m, !.packages = EligiblePackages(page[t])]]
    BY <1>2, Zenon DEF PageAuthorize
  <2> DEFINE r == [NoRequest EXCEPT !.mode = m, !.packages = EligiblePackages(page[t])]
  <2>2. m \in Modes
    BY ConstantsAssumption DEF Modes
  <2>3. r \in Requests /\ r.mode = m
    BY <1>1, <2>2, EligibleTypes DEF NoRequest, Requests
  <2>4. req' \in [Sessions -> Requests] /\ req'[t] = r
        /\ \A s \in Sessions \ {t} : req'[s] = req[s]
    BY <1>1, <2>1, <2>3 DEF TypeOK
  <2>5. pc'[t] = "auth_lock" /\ \A s \in Sessions \ {t} : pc'[s] = pc[s]
    BY <1>1, <1>2, GotoMoves DEF PageAuthorize
  <2>6. m = "SEND" => SomeRow
    BY <2>1 DEF CenterInv, RerunInv
  <2> QED BY <1>1, <2>3, <2>4, <2>5, <2>6 DEF Moves
<1>3. CASE PageLock(t)
  <2> DEFINE r == [NoRequest EXCEPT !.manual = page[t].click = "manual_lock",
                                    !.intended = Cardinality(Eligible(page[t]))]
  <2>1. req' = [req EXCEPT ![t] = r]
    BY <1>3 DEF PageLock
  <2>2. r \in Requests
    BY <1>1, EligibleTypes DEF NoRequest, Requests, Modes
  <2>3. req' \in [Sessions -> Requests]
        /\ \A s \in Sessions \ {t} : req'[s] = req[s]
    BY <1>1, <2>1, <2>2 DEF TypeOK
  <2>4. pc'[t] = "lock_count" /\ \A s \in Sessions \ {t} : pc'[s] = pc[s]
    BY <1>1, <1>3, GotoMoves DEF PageLock
  <2> QED BY <1>1, <2>3, <2>4 DEF Moves
<1> QED BY <1>2, <1>3

----------------------------------------------------------------------------
(* What holds of the services holds under the page *)

LEMMA CenterTypes ==
    ASSUME TypeOK, CenterInv, [CenterNext]_centerVars
    PROVE  TypeOK'
<1>1. ASSUME NEW t \in Tabs, EndsRow(t) PROVE TypeOK'
  BY <1>1 DEF EndsRow, TypeOK
<1>2. ASSUME NEW t \in Tabs, PageAuthorize(t) \/ PageLock(t) PROVE TypeOK'
  <2>1. UNCHANGED <<repository, deliveries, snapshot, closure, faults>>
    BY <1>2 DEF PageAuthorize, PageLock
  <2>2. pc' \in [Sessions -> Steps]
    BY <1>2 DEF PageAuthorize, PageLock, Goto, TypeOK, Steps, AdminSteps
  <2> QED BY <1>2, <2>1, <2>2, ClickRequest DEF TypeOK, repository
<1> QED BY <1>1, <1>2, CenterSteps, StepTypes

\* Ending an existing row, whoever remembers it.
LEMMA RowEndedByPage ==
    ASSUME TypeOK, AuthorizationInv, CenterInv, NEW t \in Tabs, EndsRow(t)
    PROVE  /\ AuthorizationInv'
           /\ \A a \in AuthIds : \/ authStatus'[a] = authStatus[a]
                                 \/ authStatus[a] # "NONE" /\ authStatus'[a] = "STALE"
<1>1. page[t].auth \in AuthIds /\ authStatus[page[t].auth] # "NONE"
  BY DEF CenterInv, RerunInv, EndsRow
<1>2. \A a \in AuthIds : \/ authStatus'[a] = authStatus[a]
                         \/ authStatus[a] # "NONE" /\ authStatus'[a] = "STALE"
  BY <1>1 DEF TypeOK, EndsRow
<1>3. UNCHANGED <<authMode, authPackages, nextAuth, pc, req>>
  BY DEF EndsRow
<1>4. UniqueActive' /\ \A a \in AuthIds : a >= nextAuth' => authStatus'[a] = "NONE"
  BY <1>2, <1>3 DEF AuthorizationInv, UniqueActive, ActiveAuths
<1>5. ASSUME NEW s \in Sessions PROVE SavingInv(s)' /\ HolderInv(s)'
  BY <1>2, <1>3 DEF AuthorizationInv, SavingInv, HolderInv, HoldsAuth, InFlight
<1> QED BY <1>2, <1>4, <1>5 DEF AuthorizationInv

LEMMA CenterKeepsAuthorization ==
    ASSUME TypeOK, AuthorizationInv, CenterInv, [CenterNext]_centerVars
    PROVE  AuthorizationInv'
<1>1. ASSUME NEW t \in Tabs, PageAuthorize(t) \/ PageLock(t) PROVE AuthorizationInv'
  <2>1. UNCHANGED authRows
    BY <1>1 DEF PageAuthorize, PageLock, repository, authRows
  <2>2. HolderInv(t)'
    BY <1>1, ClickRequest DEF HolderInv, HoldsAuth, InFlight, SendSteps
  <2> QED BY <1>1, <2>1, <2>2, ClickRequest, RowsKept
<1> QED BY <1>1, CenterSteps, RowEndedByPage, StepKeepsAuthorization

LEMMA CenterKeepsDelivery ==
    ASSUME TypeOK, DeliveryInv, CenterInv, TypeOK', [CenterNext]_centerVars
    PROVE  DeliveryInv'
<1>1. ASSUME NEW t \in Tabs, EndsRow(t) PROVE DeliveryInv'
  <2>1. UNCHANGED <<latest, started, deliveries, pc, req, faults>>
    BY <1>1 DEF EndsRow
  <2> QED BY <2>1 DEF DeliveryInv, SenderInv, OutcomeInv, ClaimExclusive, SentMeansDelivered,
                      DeliveriesAudited, DuplicateNeedsFault, Claiming, InFlight, Key
<1>2. ASSUME NEW t \in Tabs, PageAuthorize(t) \/ PageLock(t) PROVE DeliveryInv'
  <2>1. UNCHANGED <<latest, started, deliveries, faults>>
    BY <1>2 DEF PageAuthorize, PageLock, repository
  <2>2. faults <= faults'
    BY <2>1, ConstantsAssumption DEF TypeOK
  <2>3. /\ t \in Sessions /\ Moves(t) /\ pc'[t] \notin SendSteps
    BY <1>2, ClickRequest DEF SendSteps
  <2> QED BY <2>1, <2>2, <2>3, QuietStep DEF InFlight, SendSteps
<1> QED BY <1>1, <1>2, CenterSteps, NextKeepsDelivery

----------------------------------------------------------------------------
(* A SEND authorization follows another *)

\* No step of the composition takes a row away.
LEMMA RowsStay ==
    ASSUME TypeOK, AuthorizationInv, CenterInv, [CenterNext]_centerVars,
           NEW a \in AuthIds, authStatus[a] # "NONE"
    PROVE  authStatus'[a] # "NONE"
<1>1. ASSUME NEW t \in Tabs, EndsRow(t) PROVE authStatus'[a] # "NONE"
  BY <1>1, RowEndedByPage
<1>2. ASSUME NEW t \in Tabs, PageAuthorize(t) \/ PageLock(t) PROVE authStatus'[a] # "NONE"
  BY <1>2 DEF PageAuthorize, PageLock, repository
<1>3. ASSUME NEW s \in Sessions, SaveAuthorization(s) PROVE authStatus'[a] # "NONE"
  BY <1>3 DEF SaveAuthorization
<1>4. ASSUME NEW s \in Sessions, NEW ended \in {"STALE", "USED"},
             authStatus' = [authStatus EXCEPT ![req[s].auth] = ended]
      PROVE  authStatus'[a] # "NONE"
  BY <1>4 DEF TypeOK
<1> QED BY <1>1, <1>2, <1>3, <1>4, CenterSteps, StatusWrites

\* A rerun goes on with what its invariant says.
LEMMA RerunStep ==
    ASSUME TypeOK, CenterInv, NEW t \in Tabs, PageStep(t)
    PROVE  \E v \in Pages : RerunInv(v) /\ page' = [page EXCEPT ![t] = v]
<1>1. page[t] \in Pages /\ RerunInv(page[t]) /\ page \in [Tabs -> Pages]
  BY DEF CenterInv
<1>2. CASE Rerun(t)
  <2>1. PICK click \in Clicks :
           /\ click # "none" => Enabled(page[t], click)
           /\ page' = [page EXCEPT ![t] =
                         [ClosedPage EXCEPT !.step = "data", !.click = click]]
    BY <1>2 DEF Rerun
  <2> DEFINE v == [ClosedPage EXCEPT !.step = "data", !.click = click]
  <2>2. v \in Pages /\ v.auth = 0 /\ v.step = "data" /\ v.click = click
    BY DEF ClosedPage, Pages, Reruns
  <2>3. click = "authorize_send" => SomeRow
    BY <1>1, <2>1 DEF Enabled, SendEligible, RerunInv, SomeRow
  <2>4. RerunInv(v)
    BY <2>2, <2>3 DEF RerunInv
  <2> QED BY <2>1, <2>2, <2>4
<1>3. CASE LoadData(t)
  <2> DEFINE v == [page[t] EXCEPT !.step = "auth", !.snap = snapshot]
  <2>1. page' = [page EXCEPT ![t] = v]
    BY <1>3 DEF LoadData
  <2>2. v \in Pages /\ RerunInv(v)
    BY <1>1 DEF TypeOK, Pages, Reruns, RerunInv
  <2> QED BY <2>1, <2>2
<1>4. CASE LoadAuthorization(t)
  <2>1. CASE page' = [page EXCEPT ![t].step = "sends"]
    <3> DEFINE v == [page[t] EXCEPT !.step = "sends"]
    <3>1. page' = [page EXCEPT ![t] = v]
      BY <2>1
    <3>2. page[t].step \notin {"closed", "data"}
      BY <1>4 DEF LoadAuthorization, At
    <3>3. v \in Pages /\ RerunInv(v)
      BY <1>1, <3>2 DEF Pages, Reruns, RerunInv
    <3> QED BY <3>1, <3>3
  <2>2. CASE \E a \in AuthIds :
               /\ IsNewest(a, ActiveAuths)
               /\ page' = [page EXCEPT ![t].step = "sends", ![t].auth = a]
    <3>1. PICK a \in AuthIds :
               /\ IsNewest(a, ActiveAuths)
               /\ page' = [page EXCEPT ![t].step = "sends", ![t].auth = a]
      BY <2>2
    <3> DEFINE v == [page[t] EXCEPT !.step = "sends", !.auth = a]
    <3>2. page' = [page EXCEPT ![t] = v]
      BY <3>1
    <3>3. authStatus[a] # "NONE" /\ page[t].step \notin {"closed", "data"}
      BY <1>4, <3>1 DEF IsNewest, ActiveAuths, LoadAuthorization, At
    <3>4. v \in Pages /\ RerunInv(v)
      BY <1>1, <3>3 DEF Pages, Reruns, RerunInv
    <3> QED BY <3>2, <3>4
  <2> QED BY <1>4, <2>1, <2>2 DEF LoadAuthorization
<1>5. CASE LoadSends(t)
  <2> DEFINE sent == {p \in Partners : latest[SendKey(p, page[t].snap)] = "SENT"}
             v == [page[t] EXCEPT !.step = "lock", !.sent = sent]
  <2>1. page' = [page EXCEPT ![t] = v] /\ page[t].step = "sends"
    BY <1>5 DEF LoadSends, At
  <2>2. sent \in SUBSET Partners
    OBVIOUS
  <2> HIDE DEF sent
  <2>3. v \in Pages /\ RerunInv(v)
    BY <1>1, <2>1, <2>2 DEF Pages, Reruns, RerunInv
  <2> QED BY <2>1, <2>3
<1>6. CASE LoadLock(t)
  <2> DEFINE v == [page[t] EXCEPT !.step = "documents", !.locked = locked]
  <2>1. page' = [page EXCEPT ![t] = v] /\ page[t].step = "lock"
    BY <1>6 DEF LoadLock, At
  <2>2. v \in Pages /\ RerunInv(v)
    BY <1>1, <2>1 DEF TypeOK, Pages, Reruns, RerunInv
  <2> QED BY <2>1, <2>2
<1>7. CASE LoadDocuments(t)
  <2> DEFINE matching == {p \in Partners : Package(p, snapshot) = Package(p, page[t].snap)}
             ready == Ready[page[t].snap] \cap matching
             v == [page[t] EXCEPT !.step = "check", !.sent = @ \cap matching, !.ready = ready]
  <2>1. page' = [page EXCEPT ![t] = v] /\ page[t].step = "documents"
    BY <1>7 DEF LoadDocuments, At
  <2>2. ready \in SUBSET Partners /\ matching \in SUBSET Partners
    OBVIOUS
  <2> HIDE DEF ready, matching
  <2>3. v \in Pages /\ RerunInv(v)
    BY <1>1, <2>1, <2>2 DEF Pages, Reruns, RerunInv
  <2> QED BY <2>1, <2>3
<1>8. CASE CheckAuthorization(t)
  <2>1. PICK current \in BOOLEAN :
           page' = [page EXCEPT ![t] = [page[t] EXCEPT !.step = "act", !.current = current]]
    <3>1. CASE page' = [page EXCEPT ![t].step = "act"]
      <4>1. page' = [page EXCEPT ![t] = [page[t] EXCEPT !.step = "act",
                                                        !.current = page[t].current]]
        BY <1>1, <3>1 DEF Pages
      <4> QED BY <1>1, <4>1 DEF Pages
    <3>2. CASE page' = [page EXCEPT ![t].step = "act", ![t].current = page[t].auth # 0]
      <4> DEFINE current == page[t].auth # 0
      <4>1. page' = [page EXCEPT ![t] = [page[t] EXCEPT !.step = "act", !.current = current]]
        BY <3>2
      <4>2. current \in BOOLEAN
        OBVIOUS
      <4> QED BY <4>1, <4>2, Zenon
    <3> QED BY <1>8, <3>1, <3>2 DEF CheckAuthorization
  <2> DEFINE v == [page[t] EXCEPT !.step = "act", !.current = current]
  <2>2. page[t].step = "check"
    BY <1>8 DEF CheckAuthorization, At
  <2>3. v \in Pages /\ RerunInv(v)
    BY <1>1, <2>2 DEF Pages, Reruns, RerunInv
  <2> QED BY <2>1, <2>3
<1>9. CASE Show(t) \/ PageAuthorize(t) \/ PageLock(t)
  <2> DEFINE v == [page[t] EXCEPT !.step = "shown", !.click = "none"]
  <2>1. page' = [page EXCEPT ![t] = v] /\ page[t].step = "act"
    BY <1>9 DEF Show, PageAuthorize, PageLock, At
  <2>2. v \in Pages /\ RerunInv(v)
    BY <1>1, <2>1 DEF Pages, Reruns, Clicks, RerunInv
  <2> QED BY <2>1, <2>2
<1> QED BY <1>2, <1>3, <1>4, <1>5, <1>6, <1>7, <1>8, <1>9 DEF PageStep

\* Only a request that has read the lock comes to the insertion, and on the page only
\* PageAuthorize begins one.
LEMMA ServiceMoves ==
    ASSUME TypeOK, NEW s \in Sessions, ServiceStep(s)
    PROVE  /\ Moves(s)
           /\ AuthorizeReadLock(s) \/ pc'[s] \notin {"auth_lock", "auth_save"}
<1>1. CASE BeginSend(s) \/ BeginBatch(s) \/ BeginReopen(s) \/ BeginSafeMode(s)
  <2>1. Moves(s)
    BY <1>1 DEF BeginSend, BeginBatch, BeginReopen, BeginSafeMode, Goto, TypeOK, Moves
  <2>2. \E step \in {"send_next", "reopen_check", "safe_lock"} : Goto(s, step)
    BY <1>1, Zenon DEF BeginSend, BeginBatch, BeginReopen, BeginSafeMode
  <2> QED BY <2>1, <2>2, GotoMoves
<1>2. CASE Interrupt(s)
  BY <1>2, FinishMoves DEF Interrupt
<1>3. CASE SendNext(s) \/ SendReadAuth(s)
  <2>1. Moves(s)
    BY <1>3, FinishMoves DEF SendNext, SendReadAuth, Goto, TypeOK, Moves
  <2> QED BY <1>3, <2>1, GotoMoves, FinishMoves DEF SendNext, SendReadAuth
<1>4. CASE SendStep(s) /\ ~ SendNext(s) /\ ~ SendReadAuth(s)
  <2>1. \/ Finish(s) \/ Continue(s)
        \/ UNCHANGED req /\ \E step \in SendSteps : Goto(s, step)
    BY <1>4 DEF SendStep, SendReadMode, SendReadLock, SendInvalidate, SendClaim, ClaimUnless,
                SendAuditStarted, ProviderAccepts, ProviderRaises, RecordSent, AuditSent,
                RecordRaises, RecordFailed, SendSteps
  <2> QED BY <2>1, FinishMoves, ContinueMoves, GotoMoves DEF Moves, SendSteps
<1>5. CASE AuthorizeReadLock(s)
  <2>1. Moves(s)
    BY <1>5, FinishMoves DEF AuthorizeReadLock, Goto, TypeOK, Moves
  <2> QED BY <1>5, <2>1
<1>6. CASE LockReadActive(s) \/ ReopenReadLatest(s)
  <2>1. Moves(s)
    BY <1>6, FinishMoves DEF LockReadActive, ReopenReadLatest, Goto, TypeOK, Moves
  <2> QED BY <1>6, <2>1, GotoMoves, FinishMoves DEF LockReadActive, ReopenReadLatest
<1>7. CASE /\ AdminStep(s) /\ ~ AuthorizeReadLock(s)
           /\ ~ LockReadActive(s) /\ ~ ReopenReadLatest(s)
  <2>1. \/ Finish(s)
        \/ /\ UNCHANGED req
           /\ \E step \in AdminSteps \ {"auth_lock", "auth_save"} : Goto(s, step)
    BY <1>7 DEF AdminStep, SaveAuthorization, AuthorizeSetMode, SafeModeReadLock,
                SafeModeSet, LockCountSends, LockSet, LockMarkUsed, ReopenCheck,
                ReopenUnlock, ReopenMarkStale, ReopenSetOff, AdminSteps
  <2> QED BY <2>1, FinishMoves, GotoMoves DEF Moves
<1> QED BY <1>1, <1>2, <1>3, <1>4, <1>5, <1>6, <1>7 DEF ServiceStep

\* No row appears but by its insertion.
LEMMA RowsAppear ==
    ASSUME TypeOK, AuthorizationInv, CenterInv, [CenterNext]_centerVars
    PROVE  \/ \E s \in Sessions : SaveAuthorization(s)
           \/ /\ UNCHANGED authMode
              /\ \A a \in AuthIds : authStatus'[a] # "NONE" => authStatus[a] # "NONE"
<1>1. ASSUME NEW t \in Tabs, EndsRow(t)
      PROVE  /\ UNCHANGED authMode
             /\ \A a \in AuthIds : authStatus'[a] # "NONE" => authStatus[a] # "NONE"
  BY <1>1, RowEndedByPage DEF EndsRow
<1>2. ASSUME NEW t \in Tabs, PageAuthorize(t) \/ PageLock(t)
      PROVE  UNCHANGED <<authStatus, authMode>>
  BY <1>2 DEF PageAuthorize, PageLock, repository
<1>3. ASSUME NEW s \in Sessions, HoldsAuth(s), NEW ended,
             authStatus' = [authStatus EXCEPT ![req[s].auth] = ended], NEW a \in AuthIds,
             authStatus[a] = "NONE"
      PROVE  authStatus'[a] = "NONE"
  <2>1. authStatus[req[s].auth] # "NONE"
    BY <1>3 DEF AuthorizationInv, HolderInv
  <2> QED BY <1>3, <2>1 DEF TypeOK
<1> QED BY <1>1, <1>2, <1>3, CenterSteps, StatusWrites

LEMMA AskingStep ==
    ASSUME TypeOK, AuthorizationInv, CenterInv, [CenterNext]_centerVars, NEW u \in Sessions
    PROVE  AskingInv(u)'
<1> DEFINE Kept == pc'[u] = pc[u] /\ req'[u] = req[u]
<1>1. CASE Kept
  <2>1. ASSUME req[u].mode = "SEND", pc[u] = "auth_lock" PROVE SomeRow'
    BY <2>1, RowsStay DEF CenterInv, AskingInv, SomeRow
  <2>2. ASSUME req[u].mode = "SEND", pc[u] = "auth_save" PROVE RowBefore(req[u].auth)'
    <3>1. PICK b \in AuthIds : b < req[u].auth /\ authStatus[b] # "NONE"
      BY <2>2 DEF CenterInv, AskingInv, RowBefore
    <3>2. authStatus'[b] # "NONE"
      BY <3>1, RowsStay
    <3> QED BY <1>1, <3>1, <3>2 DEF RowBefore
  <2> QED BY <1>1, <2>1, <2>2 DEF AskingInv
<1>2. ASSUME NEW t \in Tabs, PageAuthorize(t) \/ PageLock(t), t = u PROVE AskingInv(u)'
  <2>1. pc'[u] \in {"auth_lock", "lock_count"}
        /\ (pc'[u] = "auth_lock" /\ req'[u].mode = "SEND" => SomeRow)
    BY <1>2, ClickRequest
  <2>2. SomeRow => SomeRow'
    BY RowsStay DEF SomeRow
  <2> QED BY <2>1, <2>2 DEF AskingInv
<1>3. ASSUME AuthorizeReadLock(u) PROVE AskingInv(u)'
  <2>1. CASE Finish(u)
    BY <2>1, FinishMoves DEF AskingInv
  <2>2. CASE ~ Finish(u)
    <3>1. /\ req' = [req EXCEPT ![u].auth = nextAuth]
          /\ Goto(u, "auth_save") /\ pc[u] = "auth_lock"
      BY <1>3, <2>2 DEF AuthorizeReadLock
    <3>2. pc'[u] = "auth_save" /\ req'[u].auth = nextAuth /\ req'[u].mode = req[u].mode
      BY <3>1, GotoMoves DEF TypeOK, Requests
    <3>3. ASSUME req[u].mode = "SEND" PROVE RowBefore(nextAuth)
      <4>1. PICK b \in AuthIds : authStatus[b] # "NONE"
        BY <3>1, <3>3 DEF CenterInv, AskingInv, SomeRow
      <4>2. ~ (b >= nextAuth)
        BY <4>1 DEF AuthorizationInv
      <4>3. b < nextAuth
        BY <4>2, ConstantsAssumption DEF TypeOK, AuthIds
      <4> QED BY <4>1, <4>3 DEF RowBefore
    <3>4. UNCHANGED authStatus
      BY <1>3 DEF AuthorizeReadLock
    <3> QED BY <3>2, <3>3, <3>4 DEF AskingInv, RowBefore
  <2> QED BY <2>1, <2>2
<1>4. ASSUME NEW t \in Tabs, PageStep(t) PROVE AskingInv(u)'
  <2>1. UNCHANGED <<pc, req>> \/ PageAuthorize(t) \/ PageLock(t)
    BY <1>4, PageSteps DEF vars, EndsRow
  <2>2. PageAuthorize(t) \/ PageLock(t) => Moves(t)
    BY ClickRequest
  <2> QED BY <1>1, <1>2, <2>1, <2>2 DEF Moves
<1>5. ASSUME NEW s \in Sessions, ServiceStep(s) PROVE AskingInv(u)'
  <2>1. CASE s # u
    BY <1>1, <1>5, <2>1, ServiceMoves DEF Moves
  <2>2. CASE s = u
    BY <1>3, <1>5, <2>2, ServiceMoves DEF AskingInv
  <2> QED BY <2>1, <2>2
<1>6. ASSUME ChangeData \/ UNCHANGED centerVars PROVE AskingInv(u)'
  BY <1>1, <1>6 DEF ChangeData, centerVars, vars
<1> QED BY <1>4, <1>5, <1>6 DEF CenterNext

LEMMA FollowsStep ==
    ASSUME TypeOK, AuthorizationInv, CenterInv, [CenterNext]_centerVars
    PROVE  SendFollowsAuthorization'
<1> SUFFICES ASSUME NEW a \in AuthIds, authStatus'[a] # "NONE", authMode'[a] = "SEND"
             PROVE  \E b \in AuthIds : b < a /\ authStatus'[b] # "NONE"
  BY DEF SendFollowsAuthorization
<1>1. RowBefore(a) => \E b \in AuthIds : b < a /\ authStatus'[b] # "NONE"
  BY RowsStay DEF RowBefore
<1>2. CASE authStatus[a] # "NONE" /\ authMode[a] = "SEND"
  BY <1>1, <1>2 DEF CenterInv, SendFollowsAuthorization, RowBefore
<1>3. CASE ~ (authStatus[a] # "NONE" /\ authMode[a] = "SEND")
  <2>1. PICK s \in Sessions : SaveAuthorization(s)
    BY <1>3, RowsAppear
  <2>2. req[s].auth = a /\ req[s].mode = "SEND" /\ pc[s] = "auth_save"
    BY <1>3, <2>1 DEF SaveAuthorization, TypeOK
  <2>3. RowBefore(a)
    BY <2>2 DEF CenterInv, AskingInv
  <2> QED BY <1>1, <2>3
<1> QED BY <1>2, <1>3

LEMMA CenterStep ==
    ASSUME TypeOK, AuthorizationInv, CenterInv, [CenterNext]_centerVars
    PROVE  CenterInv'
<1>1. ASSUME NEW v \in Pages, RerunInv(v) PROVE RerunInv(v)'
  <2>1. v.auth # 0 => authStatus'[v.auth] # "NONE"
    BY <1>1, RowsStay DEF RerunInv
  <2>2. SomeRow => SomeRow'
    BY RowsStay DEF SomeRow
  <2> QED BY <1>1, <2>1, <2>2 DEF RerunInv
<1>2. /\ page' \in [Tabs -> Pages]
      /\ \A t \in Tabs : \A v : v = page'[t] => RerunInv(v)
  <2>1. ASSUME NEW t \in Tabs, PageStep(t)
        PROVE  /\ page' \in [Tabs -> Pages]
               /\ \A u \in Tabs : \A v : v = page'[u] => RerunInv(v)
    <3>1. PICK w \in Pages : RerunInv(w) /\ page' = [page EXCEPT ![t] = w]
      BY <2>1, RerunStep
    <3> QED BY <3>1 DEF CenterInv
  <2>2. CASE UNCHANGED page
    BY <2>2 DEF CenterInv
  <2> QED BY <2>1, <2>2 DEF CenterNext, centerVars
<1>3. \A t \in Tabs : RerunInv(page[t])'
  <2> SUFFICES ASSUME NEW t \in Tabs PROVE RerunInv(page[t])'
    OBVIOUS
  <2>1. PICK v \in Pages : v = page'[t] /\ RerunInv(v)
    BY <1>2
  <2>2. RerunInv(v)'
    BY <1>1, <2>1
  <2> QED BY <2>1, <2>2 DEF RerunInv, SomeRow
<1> QED BY <1>2, <1>3, AskingStep, FollowsStep DEF CenterInv

\* The services and the page together keep what the services keep alone.
THEOREM CenterInvariant == CenterSpec => [](TypeOK /\ AuthorizationInv /\ DeliveryInv /\ CenterInv)
<1>1. CenterInit => TypeOK /\ AuthorizationInv /\ DeliveryInv /\ CenterInv
  <2> SUFFICES ASSUME CenterInit PROVE TypeOK /\ AuthorizationInv /\ DeliveryInv /\ CenterInv
    OBVIOUS
  <2>1. TypeOK /\ AuthorizationInv /\ DeliveryInv
    BY InitialTypes, InitialAuthorization, InitialDelivery DEF CenterInit
  <2>2. ClosedPage \in Pages /\ RerunInv(ClosedPage)
    BY DEF ClosedPage, Pages, Reruns, Clicks, RerunInv
  <2>3. \A s \in Sessions : AskingInv(s)
    BY DEF CenterInit, Init, AskingInv
  <2>4. SendFollowsAuthorization
    BY DEF CenterInit, Init, SendFollowsAuthorization
  <2> QED BY <2>1, <2>2, <2>3, <2>4 DEF CenterInit, CenterInv
<1>2. TypeOK /\ AuthorizationInv /\ DeliveryInv /\ CenterInv /\ [CenterNext]_centerVars
         => (TypeOK /\ AuthorizationInv /\ DeliveryInv /\ CenterInv)'
  BY CenterTypes, CenterKeepsAuthorization, CenterKeepsDelivery, CenterStep
<1> QED BY <1>1, <1>2, PTL DEF CenterSpec

\* Whatever the tabs show and click, the page gives a SEND authorization only in a
\* period that has had another before (pages/09_Admin_Control.py:249).
THEOREM SendNeedsAnother == CenterSpec => []SendFollowsAuthorization
<1>1. CenterInv => SendFollowsAuthorization
  BY DEF CenterInv
<1> QED BY <1>1, CenterInvariant, PTL

\* Under the page, too, one authorization is ACTIVE at most and every claim is covered
\* by a SEND authorization of its package set.
THEOREM CenterIsAuthorized == CenterSpec => [](UniqueActive /\ SentUnderAuthorization)
<1>1. AuthorizationInv /\ DeliveryInv => UniqueActive /\ SentUnderAuthorization
  BY Covered DEF AuthorizationInv
<1> QED BY <1>1, CenterInvariant, PTL

\* Nor does the page's own check, which ends whatever row it remembers, ever bring an
\* ended one back.
THEOREM CenterEndsForGood == CenterSpec => NeverReactivated
<1> DEFINE Ended(a) == authStatus[a] \in {"STALE", "REVOKED", "USED"}
<1>1. ASSUME TypeOK, AuthorizationInv, CenterInv, [CenterNext]_centerVars,
             NEW a \in AuthIds, Ended(a)
      PROVE  authStatus'[a] # "ACTIVE"
  <2>1. ASSUME NEW t \in Tabs, EndsRow(t) PROVE authStatus'[a] # "ACTIVE"
    BY <1>1, <2>1, RowEndedByPage
  <2>2. ASSUME NEW t \in Tabs, PageAuthorize(t) \/ PageLock(t) PROVE authStatus'[a] # "ACTIVE"
    BY <1>1, <2>2 DEF PageAuthorize, PageLock, repository
  <2> QED BY <1>1, <2>1, <2>2, CenterSteps, EndedStays
<1>2. TypeOK /\ AuthorizationInv /\ CenterInv /\ [CenterNext]_centerVars =>
         [\A a \in AuthIds : Ended(a) => authStatus'[a] # "ACTIVE"]_vars
  BY <1>1
<1> QED BY <1>2, CenterInvariant, PTL DEF CenterSpec, NeverReactivated
=============================================================================
