----------------------------- MODULE EmailWorkflow -----------------------------
(***************************************************************************)
(* The partner email workflow of one settlement period: production sending *)
(* (Phase10EmailWorkflowService), snapshot authorization                   *)
(* (PeriodAuthorizationService) and period locking                         *)
(* (Phase10PeriodLockService), three services that share one SQLite file   *)
(* through EmailWorkflowRepository.                                        *)
(*                                                                         *)
(* Several browser sessions call the services at once.  Every repository   *)
(* method opens its own connection, so the unit of atomicity is ONE        *)
(* repository call, never a whole handler: a session is a program counter  *)
(* that steps from one repository (or Gmail) call to the next, and every   *)
(* other session may step in between.                                      *)
(*                                                                         *)
(* All rows of the tables are keyed by period_code; periods do not         *)
(* interact, and the module describes one.  Every session is an Admin's:   *)
(* RBACService refuses the three services' operations to anyone else       *)
(* before they touch the state.                                            *)
(***************************************************************************)
EXTENDS Integers, FiniteSets

CONSTANTS
    Sessions,      \* concurrent callers: browser sessions, reruns, scripts
    Partners,      \* the restaurants with an email package in the period
    Snapshots,     \* the states of the period's data, numbered
    DocVersion,    \* DocVersion[n][p]: document version p's package has in n
    Content,       \* Content[n][p]: the rest of p's package in n, numbered
    NoPartner,     \* the partner of a session that has no package in hand
    AuthorizedModes, \* bound: the modes Admins ask authorizations for
    MaxAuths,      \* bound: authorizations ever requested in the period
    MaxFaults      \* bound: exceptions and crashes in one behaviour

ASSUME ConstantsAssumption ==
    /\ IsFiniteSet(Partners)
    /\ DocVersion \in [Snapshots -> [Partners -> Nat]]
    /\ Content \in [Snapshots -> [Partners -> Nat]]
    /\ Snapshots \subseteq Nat \ {0}
    /\ NoPartner \notin Partners
    /\ AuthorizedModes \subseteq {"PREVIEW", "DRAFT", "SEND"}
    /\ MaxAuths \in Nat
    /\ MaxFaults \in Nat

Modes == {"OFF", "PREVIEW", "DRAFT", "SEND"}
AuthIds == 1 .. MaxAuths

(***************************************************************************)
(* send_key hashes the period, the restaurant, the document versions and   *)
(* the package version: neither the recipient nor the amounts are in it.   *)
(***************************************************************************)
Versions == UNION {{DocVersion[n][p] : p \in Partners} : n \in Snapshots}
Keys == Partners \X Versions
SendKey(p, n) == <<p, DocVersion[n][p]>>

\* what package_snapshot_hashes tells apart: settlement, documents and message
Package(p, n) == <<p, DocVersion[n][p], Content[n][p]>>
PeriodPackages(n) == {Package(p, n) : p \in Partners}
Packages == UNION {PeriodPackages(n) : n \in Snapshots}

VARIABLES
    locked,        \* email_period_state.locked
    mode,          \* email_period_modes.mode
    authStatus,    \* period_authorizations.current_status, NONE if no row
    authMode,      \* the authorization payload: its mode ...
    authPackages,  \* ... and the packages its three hashes were taken of
    nextAuth,      \* authorized_at of the next authorization, as a number
    latest,        \* status of the last send_attempts row of each send key
    started,       \* number of SEND_STARTED audit rows of each send key
    deliveries,    \* messages Gmail accepted for each send key
    snapshot,      \* the state of the period's data
    closure,       \* how the period was closed, as PERIOD_LOCKED records it
    pc, req,       \* each session's next call, and its local variables
    faults

repository == <<locked, mode, authStatus, authMode, authPackages, nextAuth,
                latest, started>>
vars == <<locked, mode, authStatus, authMode, authPackages, nextAuth, latest,
          started, deliveries, snapshot, closure, pc, req, faults>>

SendSteps == {"send_next", "send_mode", "send_lock", "send_auth",
              "send_invalidate", "send_claim", "send_audit", "send_provider",
              "send_record", "send_audit_sent", "send_failed"}
AdminSteps == {"auth_lock", "auth_save", "auth_mode", "safe_lock", "safe_mode",
               "lock_count", "lock_set", "lock_active", "lock_used",
               "reopen_check", "reopen_unlock", "reopen_latest",
               "reopen_stale", "reopen_mode"}
Steps == {"idle"} \cup SendSteps \cup AdminSteps

NoRequest == [todo |-> {}, partner |-> NoPartner, retry |-> FALSE,
              ready |-> FALSE, snap |-> 0, packages |-> {}, auth |-> 0,
              mode |-> "OFF", manual |-> FALSE, intended |-> 0]

Requests == [todo : SUBSET Partners, partner : Partners \cup {NoPartner},
             retry : BOOLEAN, ready : BOOLEAN, snap : Snapshots \cup {0},
             packages : SUBSET Packages, auth : {0} \cup AuthIds, mode : Modes,
             manual : BOOLEAN, intended : Nat]

TypeOK ==
    /\ locked \in BOOLEAN
    /\ mode \in Modes
    /\ authStatus \in [AuthIds -> {"NONE", "ACTIVE", "STALE", "REVOKED", "USED"}]
    /\ authMode \in [AuthIds -> Modes]
    /\ authPackages \in [AuthIds -> SUBSET Packages]
    /\ nextAuth \in 1 .. MaxAuths + 1
    /\ latest \in [Keys -> {"NONE", "SENDING", "SENT", "FAILED"}]
    /\ started \in [Keys -> Nat]
    /\ deliveries \in [Keys -> Nat]
    /\ snapshot \in Snapshots
    /\ closure \in {"open", "manual", "complete"}
    /\ pc \in [Sessions -> Steps]
    /\ req \in [Sessions -> Requests]
    /\ faults \in 0 .. MaxFaults

Init ==
    /\ locked = FALSE
    /\ mode = "OFF"
    /\ authStatus = [a \in AuthIds |-> "NONE"]
    /\ authMode = [a \in AuthIds |-> "OFF"]
    /\ authPackages = [a \in AuthIds |-> {}]
    /\ nextAuth = 1
    /\ latest = [k \in Keys |-> "NONE"]
    /\ started = [k \in Keys |-> 0]
    /\ deliveries = [k \in Keys |-> 0]
    /\ snapshot \in Snapshots
    /\ closure = "open"
    /\ pc = [s \in Sessions |-> "idle"]
    /\ req = [s \in Sessions |-> NoRequest]
    /\ faults = 0

----------------------------------------------------------------------------
(* Reads of the repository *)

ActiveAuths == {a \in AuthIds : authStatus[a] = "ACTIVE"}
SavedAuths == {a \in AuthIds : authStatus[a] # "NONE"}
\* ORDER BY created_at DESC LIMIT 1
IsNewest(a, ids) == a \in ids /\ \A b \in ids : b <= a

\* list_latest_sends counts every send key of the period, superseded document
\* versions included
SentCount == Cardinality({k \in Keys : latest[k] = "SENT"})

\* is_current: the hashes of the packages in hand are the authorized ones.  The
\* payload's own status is ACTIVE in every row and decides nothing.
\* Mutant: the status decides.
IsCurrentByStatus(a, packages) == TRUE
IsCurrent(a, packages) == authPackages[a] = packages

\* the inputs of ProductionReadinessPolicy.evaluate that this state decides
ReadyForSend(p, n) ==
    /\ \E a \in ActiveAuths : IsCurrent(a, PeriodPackages(n))
    /\ latest[SendKey(p, n)] # "SENT"
    /\ ~locked

----------------------------------------------------------------------------
(* Control flow of a session *)

Goto(s, step) == pc' = [pc EXCEPT ![s] = step]

\* the handler returns to its caller, or raises
Finish(s) ==
    /\ pc' = [pc EXCEPT ![s] = "idle"]
    /\ req' = [req EXCEPT ![s] = NoRequest]

\* send() returns a SendAttempt: send_batch goes on with the next package
Continue(s) ==
    IF req[s].todo = {}
    THEN Finish(s)
    ELSE Goto(s, "send_next") /\ UNCHANGED req

Key(s) == SendKey(req[s].partner, req[s].snap)

----------------------------------------------------------------------------
(* Phase10EmailWorkflowService.send and send_batch *)

\* send(): one package, whose readiness the caller computed from this state;
\* inputs decided elsewhere (identity, documents, ...) may still block it
BeginSend(s) ==
    /\ pc[s] = "idle"
    /\ \E p \in Partners, retry \in BOOLEAN :
       \E ready \in {FALSE, ReadyForSend(p, snapshot)} :
          req' = [req EXCEPT ![s] = [NoRequest EXCEPT
                     !.todo = {p}, !.retry = retry, !.ready = ready,
                     !.snap = snapshot, !.packages = PeriodPackages(snapshot)]]
    /\ Goto(s, "send_next")
    /\ UNCHANGED <<repository, deliveries, snapshot, closure, faults>>

\* send_batch(): the packages that are not ready are not attempted
BeginBatch(s) ==
    /\ pc[s] = "idle"
    /\ \E batch \in SUBSET {p \in Partners : ReadyForSend(p, snapshot)},
          retry \in BOOLEAN :
          /\ batch # {}
          /\ req' = [req EXCEPT ![s] = [NoRequest EXCEPT
                        !.todo = batch, !.retry = retry, !.ready = TRUE,
                        !.snap = snapshot,
                        !.packages = PeriodPackages(snapshot)]]
    /\ Goto(s, "send_next")
    /\ UNCHANGED <<repository, deliveries, snapshot, closure, faults>>

SendNext(s) ==
    /\ pc[s] = "send_next"
    /\ \E p \in req[s].todo :
          req' = [req EXCEPT ![s].partner = p, ![s].todo = @ \ {p}]
    /\ Goto(s, "send_mode")
    /\ UNCHANGED <<repository, deliveries, snapshot, closure, faults>>

SendReadMode(s) ==
    /\ pc[s] = "send_mode"
    /\ IF mode = "SEND"
       THEN Goto(s, "send_lock") /\ UNCHANGED req
       ELSE Finish(s)
    /\ UNCHANGED <<repository, deliveries, snapshot, closure, faults>>

SendReadLock(s) ==
    /\ pc[s] = "send_lock"
    /\ IF ~locked
       THEN Goto(s, "send_auth") /\ UNCHANGED req
       ELSE Finish(s)
    /\ UNCHANGED <<repository, deliveries, snapshot, closure, faults>>

\* active_authorization, then is_current: equal hashes change nothing and the
\* readiness and recipient checks that follow touch no state
SendReadAuth(s) ==
    /\ pc[s] = "send_auth"
    /\ \/ ActiveAuths = {} /\ Finish(s)
       \/ \E a \in AuthIds :
             /\ IsNewest(a, ActiveAuths)
             /\ \/ authMode[a] # "SEND" /\ Finish(s)
                \/ /\ authMode[a] = "SEND" /\ ~IsCurrent(a, req[s].packages)
                   /\ req' = [req EXCEPT ![s].auth = a]
                   /\ Goto(s, "send_invalidate")
                \/ /\ authMode[a] = "SEND" /\ IsCurrent(a, req[s].packages)
                   /\ IF req[s].ready
                      THEN /\ req' = [req EXCEPT ![s].auth = a]
                           /\ Goto(s, "send_claim")
                      ELSE Finish(s)
    /\ UNCHANGED <<repository, deliveries, snapshot, closure, faults>>

\* is_current found other hashes: the authorization becomes STALE, whatever its
\* status is by now, and the send is refused
SendInvalidate(s) ==
    /\ pc[s] = "send_invalidate"
    /\ authStatus' = [authStatus EXCEPT ![req[s].auth] = "STALE"]
    /\ Finish(s)
    /\ UNCHANGED <<locked, mode, authMode, authPackages, nextAuth, latest, started,
                   deliveries, snapshot, closure, faults>>

\* claim_send: one BEGIN IMMEDIATE transaction, which returns the row there is if
\* that row is not to be superseded
ClaimUnless(s, kept) ==
    /\ pc[s] = "send_claim"
    /\ IF kept
       THEN Continue(s) /\ UNCHANGED latest
       ELSE /\ latest' = [latest EXCEPT ![Key(s)] = "SENDING"]
            /\ Goto(s, "send_audit")
            /\ UNCHANGED req
    /\ UNCHANGED <<locked, mode, authStatus, authMode, authPackages, nextAuth,
                   started, deliveries, snapshot, closure, faults>>

\* mutants of SendClaim: no guard against a claim in progress, against a retry
\* nobody asked for
SendClaimOverSending(s) ==
    ClaimUnless(s, \/ latest[Key(s)] = "SENT"
                   \/ latest[Key(s)] = "FAILED" /\ ~req[s].retry)
SendClaimAlwaysRetries(s) ==
    ClaimUnless(s, latest[Key(s)] \in {"SENT", "SENDING"})

SendClaim(s) ==
    ClaimUnless(s, \/ latest[Key(s)] \in {"SENT", "SENDING"}
                   \/ latest[Key(s)] = "FAILED" /\ ~req[s].retry)

SendAuditStarted(s) ==
    /\ pc[s] = "send_audit"
    /\ started' = [started EXCEPT ![Key(s)] = @ + 1]
    /\ Goto(s, "send_provider")
    /\ UNCHANGED <<locked, mode, authStatus, authMode, authPackages, nextAuth,
                   latest, deliveries, snapshot, closure, req, faults>>

ProviderAccepts(s) ==
    /\ pc[s] = "send_provider"
    /\ deliveries' = [deliveries EXCEPT ![Key(s)] = @ + 1]
    /\ Goto(s, "send_record")
    /\ UNCHANGED <<repository, snapshot, closure, req, faults>>

\* mutant: the exception is swallowed and the outcome recorded as SENT
ProviderRaisesSwallowed(s) ==
    /\ pc[s] = "send_provider"
    /\ faults < MaxFaults
    /\ faults' = faults + 1
    /\ Goto(s, "send_record")
    /\ UNCHANGED <<repository, deliveries, snapshot, closure, req>>

\* the Gmail call raises; the message may have been accepted all the same (a
\* timeout, a connection lost after the request was served)
ProviderRaises(s) ==
    /\ pc[s] = "send_provider"
    /\ faults < MaxFaults
    /\ faults' = faults + 1
    /\ \E accepted \in {0, 1} :
          deliveries' = [deliveries EXCEPT ![Key(s)] = @ + accepted]
    /\ Goto(s, "send_failed")
    /\ UNCHANGED <<repository, snapshot, closure, req>>

RecordSent(s) ==
    /\ pc[s] = "send_record"
    /\ latest' = [latest EXCEPT ![Key(s)] = "SENT"]
    /\ Goto(s, "send_audit_sent")
    /\ UNCHANGED <<locked, mode, authStatus, authMode, authPackages, nextAuth,
                   started, deliveries, snapshot, closure, req, faults>>

AuditSent(s) ==
    /\ pc[s] = "send_audit_sent"
    /\ Continue(s)
    /\ UNCHANGED <<repository, deliveries, snapshot, closure, faults>>

\* record_send or the EMAIL_SENT audit raises inside the try: the handler goes
\* to the same "except" as a refused message
RecordRaises(s) ==
    /\ pc[s] \in {"send_record", "send_audit_sent"}
    /\ faults < MaxFaults
    /\ faults' = faults + 1
    /\ Goto(s, "send_failed")
    /\ UNCHANGED <<repository, deliveries, snapshot, closure, req>>

RecordFailed(s) ==
    /\ pc[s] = "send_failed"
    /\ latest' = [latest EXCEPT ![Key(s)] = "FAILED"]
    /\ Continue(s)
    /\ UNCHANGED <<locked, mode, authStatus, authMode, authPackages, nextAuth,
                   started, deliveries, snapshot, closure, faults>>

----------------------------------------------------------------------------
(* PeriodAuthorizationService *)

\* authorize() refuses OFF and a wrong confirmation phrase without touching state
BeginAuthorize(s) ==
    /\ pc[s] = "idle"
    /\ \E m \in AuthorizedModes :
          req' = [req EXCEPT ![s] = [NoRequest EXCEPT
                     !.mode = m, !.packages = PeriodPackages(snapshot)]]
    /\ Goto(s, "auth_lock")
    /\ UNCHANGED <<repository, deliveries, snapshot, closure, faults>>

\* the lock is read, then authorized_at is taken: nextAuth orders the rows.  A
\* request past the bound MaxAuths ends here.
AuthorizeReadLock(s) ==
    /\ pc[s] = "auth_lock"
    /\ IF locked \/ nextAuth > MaxAuths
       THEN Finish(s) /\ UNCHANGED nextAuth
       ELSE /\ nextAuth' = nextAuth + 1
            /\ req' = [req EXCEPT ![s].auth = nextAuth]
            /\ Goto(s, "auth_save")
    /\ UNCHANGED <<locked, mode, authStatus, authMode, authPackages, latest,
                   started, deliveries, snapshot, closure, faults>>

\* mutant: the ACTIVE rows are left as they are
SaveAuthorizationWithoutRevoking(s) ==
    /\ pc[s] = "auth_save"
    /\ authStatus' = [authStatus EXCEPT ![req[s].auth] = "ACTIVE"]
    /\ authMode' = [authMode EXCEPT ![req[s].auth] = req[s].mode]
    /\ authPackages' = [authPackages EXCEPT ![req[s].auth] = req[s].packages]
    /\ Goto(s, "auth_mode")
    /\ UNCHANGED <<locked, mode, nextAuth, latest, started, deliveries,
                   snapshot, closure, req, faults>>

\* save_authorization: one transaction revokes the ACTIVE rows and inserts
SaveAuthorization(s) ==
    /\ pc[s] = "auth_save"
    /\ authStatus' = [a \in AuthIds |->
          IF a = req[s].auth THEN "ACTIVE"
          ELSE IF authStatus[a] = "ACTIVE" THEN "REVOKED"
          ELSE authStatus[a]]
    /\ authMode' = [authMode EXCEPT ![req[s].auth] = req[s].mode]
    /\ authPackages' = [authPackages EXCEPT ![req[s].auth] = req[s].packages]
    /\ Goto(s, "auth_mode")
    /\ UNCHANGED <<locked, mode, nextAuth, latest, started, deliveries,
                   snapshot, closure, req, faults>>

AuthorizeSetMode(s) ==
    /\ pc[s] = "auth_mode"
    /\ mode' = req[s].mode
    /\ Finish(s)
    /\ UNCHANGED <<locked, authStatus, authMode, authPackages, nextAuth, latest,
                   started, deliveries, snapshot, closure, faults>>

BeginSafeMode(s) ==
    /\ pc[s] = "idle"
    /\ \E m \in {"OFF", "PREVIEW"} :
          req' = [req EXCEPT ![s] = [NoRequest EXCEPT !.mode = m]]
    /\ Goto(s, "safe_lock")
    /\ UNCHANGED <<repository, deliveries, snapshot, closure, faults>>

SafeModeReadLock(s) ==
    /\ pc[s] = "safe_lock"
    /\ IF locked
       THEN Finish(s)
       ELSE Goto(s, "safe_mode") /\ UNCHANGED req
    /\ UNCHANGED <<repository, deliveries, snapshot, closure, faults>>

SafeModeSet(s) ==
    /\ pc[s] = "safe_mode"
    /\ mode' = req[s].mode
    /\ Finish(s)
    /\ UNCHANGED <<locked, authStatus, authMode, authPackages, nextAuth, latest,
                   started, deliveries, snapshot, closure, faults>>

----------------------------------------------------------------------------
(* Phase10PeriodLockService *)

\* the caller intends one production send per partner
BeginLock(s) ==
    /\ pc[s] = "idle"
    /\ \E manual \in BOOLEAN :
          req' = [req EXCEPT ![s] = [NoRequest EXCEPT
                     !.manual = manual, !.intended = Cardinality(Partners)]]
    /\ Goto(s, "lock_count")
    /\ UNCHANGED <<repository, deliveries, snapshot, closure, faults>>

\* mutant: every attempt counts as a completed send
LockCountsAttempts(s) ==
    /\ pc[s] = "lock_count"
    /\ IF req[s].manual
          \/ Cardinality({k \in Keys : latest[k] # "NONE"}) = req[s].intended
       THEN Goto(s, "lock_set") /\ UNCHANGED req
       ELSE Finish(s)
    /\ UNCHANGED <<repository, deliveries, snapshot, closure, faults>>

LockCountSends(s) ==
    /\ pc[s] = "lock_count"
    /\ IF req[s].manual \/ (req[s].intended > 0 /\ SentCount = req[s].intended)
       THEN Goto(s, "lock_set") /\ UNCHANGED req
       ELSE Finish(s)
    /\ UNCHANGED <<repository, deliveries, snapshot, closure, faults>>

LockSet(s) ==
    /\ pc[s] = "lock_set"
    /\ locked' = TRUE
    /\ closure' = IF req[s].manual THEN "manual" ELSE "complete"
    /\ Goto(s, "lock_active")
    /\ UNCHANGED <<mode, authStatus, authMode, authPackages, nextAuth, latest,
                   started, deliveries, snapshot, req, faults>>

LockReadActive(s) ==
    /\ pc[s] = "lock_active"
    /\ \/ ActiveAuths = {} /\ Finish(s)
       \/ /\ \E a \in AuthIds : /\ IsNewest(a, ActiveAuths)
                                /\ req' = [req EXCEPT ![s].auth = a]
          /\ Goto(s, "lock_used")
    /\ UNCHANGED <<repository, deliveries, snapshot, closure, faults>>

LockMarkUsed(s) ==
    /\ pc[s] = "lock_used"
    /\ authStatus' = [authStatus EXCEPT ![req[s].auth] = "USED"]
    /\ Finish(s)
    /\ UNCHANGED <<locked, mode, authMode, authPackages, nextAuth, latest, started,
                   deliveries, snapshot, closure, faults>>

BeginReopen(s) ==
    /\ pc[s] = "idle"
    /\ req' = [req EXCEPT ![s] = NoRequest]
    /\ Goto(s, "reopen_check")
    /\ UNCHANGED <<repository, deliveries, snapshot, closure, faults>>

ReopenCheck(s) ==
    /\ pc[s] = "reopen_check"
    /\ IF locked
       THEN Goto(s, "reopen_unlock") /\ UNCHANGED req
       ELSE Finish(s)
    /\ UNCHANGED <<repository, deliveries, snapshot, closure, faults>>

ReopenUnlock(s) ==
    /\ pc[s] = "reopen_unlock"
    /\ locked' = FALSE
    /\ closure' = "open"
    /\ Goto(s, "reopen_latest")
    /\ UNCHANGED <<mode, authStatus, authMode, authPackages, nextAuth, latest,
                   started, deliveries, snapshot, req, faults>>

ReopenReadLatest(s) ==
    /\ pc[s] = "reopen_latest"
    /\ \/ SavedAuths = {} /\ Goto(s, "reopen_mode") /\ UNCHANGED req
       \/ /\ \E a \in AuthIds : /\ IsNewest(a, SavedAuths)
                                /\ req' = [req EXCEPT ![s].auth = a]
          /\ Goto(s, "reopen_stale")
    /\ UNCHANGED <<repository, deliveries, snapshot, closure, faults>>

\* mutant: reopening restores the authorization instead of invalidating it
ReopenRestores(s) ==
    /\ pc[s] = "reopen_stale"
    /\ authStatus' = [authStatus EXCEPT ![req[s].auth] = "ACTIVE"]
    /\ Goto(s, "reopen_mode")
    /\ UNCHANGED <<locked, mode, authMode, authPackages, nextAuth, latest, started,
                   deliveries, snapshot, closure, req, faults>>

ReopenMarkStale(s) ==
    /\ pc[s] = "reopen_stale"
    /\ authStatus' = [authStatus EXCEPT ![req[s].auth] = "STALE"]
    /\ Goto(s, "reopen_mode")
    /\ UNCHANGED <<locked, mode, authMode, authPackages, nextAuth, latest, started,
                   deliveries, snapshot, closure, req, faults>>

ReopenSetOff(s) ==
    /\ pc[s] = "reopen_mode"
    /\ mode' = "OFF"
    /\ Finish(s)
    /\ UNCHANGED <<locked, authStatus, authMode, authPackages, nextAuth, latest,
                   started, deliveries, snapshot, closure, faults>>

----------------------------------------------------------------------------
(* Environment *)

\* settlement, document or contact data change: the package set has other
\* hashes.  Contents may come back; document versions only grow.
ChangeData ==
    /\ \E n \in Snapshots \ {snapshot} :
          /\ \A p \in Partners : DocVersion[snapshot][p] <= DocVersion[n][p]
          /\ snapshot' = n
    /\ UNCHANGED <<repository, deliveries, closure, pc, req, faults>>

\* a call raises outside any try, or the process is killed: the session is gone
\* and what it wrote stays
Interrupt(s) ==
    /\ pc[s] # "idle"
    /\ faults < MaxFaults
    /\ faults' = faults + 1
    /\ Finish(s)
    /\ UNCHANGED <<repository, deliveries, snapshot, closure>>

SendStep(s) ==
    \/ SendNext(s) \/ SendReadMode(s) \/ SendReadLock(s) \/ SendReadAuth(s)
    \/ SendInvalidate(s) \/ SendClaim(s) \/ SendAuditStarted(s)
    \/ ProviderAccepts(s) \/ ProviderRaises(s) \/ RecordSent(s) \/ AuditSent(s)
    \/ RecordRaises(s) \/ RecordFailed(s)

AdminStep(s) ==
    \/ AuthorizeReadLock(s) \/ SaveAuthorization(s) \/ AuthorizeSetMode(s)
    \/ SafeModeReadLock(s) \/ SafeModeSet(s)
    \/ LockCountSends(s) \/ LockSet(s) \/ LockReadActive(s) \/ LockMarkUsed(s)
    \/ ReopenCheck(s) \/ ReopenUnlock(s) \/ ReopenReadLatest(s)
    \/ ReopenMarkStale(s) \/ ReopenSetOff(s)

Begin(s) ==
    \/ BeginSend(s) \/ BeginBatch(s) \/ BeginAuthorize(s) \/ BeginSafeMode(s)
    \/ BeginLock(s) \/ BeginReopen(s)

Next ==
    \/ \E s \in Sessions : Begin(s) \/ SendStep(s) \/ AdminStep(s) \/ Interrupt(s)
    \/ ChangeData

Spec == Init /\ [][Next]_vars

----------------------------------------------------------------------------
(* Properties *)

\* s owns the claim of its package: it may still call Gmail or write the outcome
InFlight(s) == pc[s] \in {"send_audit", "send_provider", "send_record",
                          "send_audit_sent", "send_failed"}

\* claim_send hands a send key to one caller at a time: two sessions are never
\* both between the claim and the outcome of the same key, and the key's last
\* row keeps every other caller out meanwhile.
ClaimExclusive ==
    \A s \in Sessions : InFlight(s) =>
        /\ latest[Key(s)] \in {"SENDING", "SENT"}
        /\ \A t \in Sessions \ {s} : InFlight(t) => Key(t) # Key(s)

\* A second message for a send key never goes out unless somebody asked for a
\* retry: clicks, reruns and concurrent batches alone cannot duplicate it.
NoSilentDuplicate ==
    [][\A k \in Keys :
          deliveries[k] > 0 /\ deliveries'[k] > deliveries[k] =>
             \E s \in Sessions :
                pc[s] = "send_provider" /\ Key(s) = k /\ req[s].retry]_vars

\* Once a key is SENT and its sender has finished, no retry, batch or restart
\* changes its outcome or sends it again.
SentIsFinal ==
    [][\A k \in Keys :
          latest[k] = "SENT" /\ (\A s \in Sessions : InFlight(s) => Key(s) # k)
             => latest'[k] = "SENT" /\ deliveries'[k] = deliveries[k]]_vars

\* A key is recorded SENT only after Gmail accepted a message for it.
SentMeansDelivered ==
    \A k \in Keys : latest[k] = "SENT" => deliveries[k] > 0

\* Every message Gmail accepted was announced by a SEND_STARTED audit row of
\* its own, whatever failed afterwards.
DeliveriesAudited == \A k \in Keys : deliveries[k] <= started[k]

\* Each message beyond a key's first one is paid for by an exception: without a
\* failing call no interleaving of sessions sends a package twice.
DuplicateNeedsFault == \A k \in Keys : deliveries[k] <= 1 + faults

\* save_authorization revokes what was ACTIVE in the same transaction: at most
\* one authorization of the period is ACTIVE, however many Admins authorize.
UniqueActive == \A a, b \in ActiveAuths : a = b

\* An authorization that was revoked, used or made stale is never ACTIVE again,
\* although set_authorization_status overwrites any status with any other.
NeverReactivated ==
    [][\A a \in AuthIds :
          authStatus[a] \in {"STALE", "REVOKED", "USED"} =>
             authStatus'[a] # "ACTIVE"]_vars

\* Whatever is claimed was covered by a SEND authorization: the package in hand,
\* with its documents and its contents, is one of those the authorization hashed.
SentUnderAuthorization ==
    \A s \in Sessions : InFlight(s) =>
        /\ authStatus[req[s].auth] # "NONE"
        /\ authMode[req[s].auth] = "SEND"
        /\ Package(req[s].partner, req[s].snap) \in authPackages[req[s].auth]

EveryPartnerReached ==
    \A p \in Partners : \E k \in Keys : k[1] = p /\ deliveries[k] > 0

\* a partner was sent its package under two document versions
TwoVersionsSent ==
    \E k, l \in Keys :
        k # l /\ k[1] = l[1] /\ deliveries[k] > 0 /\ deliveries[l] > 0

\* When a period was closed without the manual override and a partner had no message,
\* another partner's re-published package was counted in its place: the count of SENT
\* keys is wrong in no other way, even when sends and outcomes race with it.
CompleteCloseAddsUp == closure = "complete" => EveryPartnerReached \/ TwoVersionsSent

----------------------------------------------------------------------------
(* The inductive invariants behind the safety properties *)

Claiming(s) == pc[s] \in {"send_audit", "send_provider"}

\* what a session's position says of the key it works on
SenderInv(s) ==
    /\ pc[s] \in SendSteps => req[s].snap \in Snapshots
    /\ pc[s] \in SendSteps \ {"send_next"} => req[s].partner \in Partners
    /\ Claiming(s) \/ pc[s] = "send_failed" => deliveries[Key(s)] <= faults
    /\ Claiming(s) /\ ~req[s].retry => deliveries[Key(s)] = 0
    /\ pc[s] = "send_provider" => deliveries[Key(s)] < started[Key(s)]
    /\ pc[s] \in {"send_record", "send_audit_sent"} => deliveries[Key(s)] > 0

\* what the last row of a key says of the messages sent for it
OutcomeInv(k) ==
    /\ latest[k] = "NONE" => deliveries[k] = 0
    /\ latest[k] = "FAILED" => deliveries[k] <= faults

\* The session that claimed a key is the only one that can still deliver it, and
\* the row a late or retrying caller will find says what Gmail may have done:
\* NONE is never delivered, FAILED leaves a fault for each delivery, SENT has one.
DeliveryInv ==
    /\ \A s \in Sessions : SenderInv(s)
    /\ \A k \in Keys : OutcomeInv(k)
    /\ ClaimExclusive
    /\ SentMeansDelivered
    /\ DeliveriesAudited
    /\ DuplicateNeedsFault

\* a request about to insert a row owns its stamp
SavingInv(s) ==
    pc[s] = "auth_save" =>
        /\ req[s].auth \in AuthIds
        /\ req[s].auth < nextAuth
        /\ authStatus[req[s].auth] = "NONE"
        /\ \A t \in Sessions \ {s} :
              pc[t] = "auth_save" => req[t].auth # req[s].auth

HoldsAuth(s) ==
    \/ pc[s] \in {"send_invalidate", "send_claim", "lock_used", "reopen_stale"}
    \/ InFlight(s)

\* a session that remembers an authorization remembers a row that exists, and a
\* sender one that covers the packages it works from
HolderInv(s) ==
    /\ HoldsAuth(s) => /\ req[s].auth \in AuthIds
                       /\ authStatus[req[s].auth] # "NONE"
    /\ pc[s] \in SendSteps => req[s].packages = PeriodPackages(req[s].snap)
    /\ pc[s] = "send_claim" \/ InFlight(s) =>
          /\ authMode[req[s].auth] = "SEND"
          /\ authPackages[req[s].auth] = req[s].packages

\* An authorization row is inserted once, by the request that took its stamp, and
\* every later status change is of a row that exists: no insert comes back to a
\* row that was ended, and no ended row is written over with ACTIVE.
AuthorizationInv ==
    /\ UniqueActive
    /\ \A a \in AuthIds : a >= nextAuth => authStatus[a] = "NONE"
    /\ \A s \in Sessions : SavingInv(s) /\ HolderInv(s)

----------------------------------------------------------------------------
(* What the documentation says and the code does not do *)

\* What the README promises of the send key: one delivery per key across clicks,
\* reruns, retries and restarts.
AtMostOneDelivery == \A k \in Keys : deliveries[k] <= 1
=============================================================================
