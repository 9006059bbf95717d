------------------------------ MODULE EmailCenter ------------------------------
(***************************************************************************)
(* The Admin Control page on top of EmailWorkflow.  Every rerun of the     *)
(* page rebuilds the Email Center snapshot (build_email_center_snapshot),  *)
(* a sequence of reads that ends in is_current and may mark the period's   *)
(* authorization STALE; a click then hands what was read to the services:  *)
(* the eligible packages to authorize, their number to lock.               *)
(*                                                                         *)
(* A tab runs one rerun at a time; tabs, other pages that build the same   *)
(* snapshot, and callers of send and send_batch interleave.                *)
(***************************************************************************)
EXTENDS EmailWorkflow

CONSTANTS
    Tabs,        \* the sessions that show the Admin Control page
    Documents,   \* Documents[n]: partners whose documents are READY in data n
    Ready        \* Ready[n]: those with no other blocker of their own either

ASSUME CenterAssumption ==
    /\ Tabs \subseteq Sessions
    /\ Documents \in [Snapshots -> SUBSET Partners]
    /\ Ready \in [Snapshots -> SUBSET Partners]
    /\ \A n \in Snapshots : Ready[n] \subseteq Documents[n]

VARIABLE page    \* each tab's rerun: where it is and what it has read

centerVars == <<vars, page>>

Clicks == {"none", "authorize_draft", "authorize_send", "lock", "manual_lock"}
Reruns == {"closed", "data", "auth", "sends", "lock", "documents", "check",
           "act", "shown"}

Pages == [step : Reruns, click : Clicks, snap : Snapshots \cup {0},
          auth : {0} \cup AuthIds, sent : SUBSET Partners, locked : BOOLEAN,
          ready : SUBSET Partners, current : BOOLEAN]

ClosedPage == [step |-> "closed", click |-> "none", snap |-> 0, auth |-> 0,
               sent |-> {}, locked |-> FALSE, ready |-> {}, current |-> FALSE]

----------------------------------------------------------------------------
(* What the page shows of the rows it read *)

\* preauthorization_ready: no blocker but a missing or stale authorization and
\* the send flag.  ALREADY_SENT and PERIOD_LOCKED are blockers.
Eligible(v) == IF v.locked THEN {} ELSE v.ready \ v.sent

EligiblePackages(v) == {Package(p, v.snap) : p \in Eligible(v)}

\* mutant: the authorization does not have to be there
SendEligibleUnauthorized(v) == Eligible(v)

\* rows that are ready_for_send
SendEligible(v) == IF v.auth # 0 /\ v.current THEN Eligible(v) ELSE {}

\* the buttons that are enabled
Enabled(v, click) ==
    \/ click = "none"
    \/ click = "authorize_draft" /\ Documents[v.snap] # {}
    \/ click = "authorize_send" /\ SendEligible(v) # {}
    \/ /\ click = "lock" /\ ~v.locked
       /\ Eligible(v) # {} /\ Cardinality(v.sent) = Cardinality(Eligible(v))
    \/ click = "manual_lock" /\ ~v.locked

----------------------------------------------------------------------------
(* A rerun *)

CenterInit == Init /\ page = [t \in Tabs |-> ClosedPage]

At(t, step) == page[t].step = step /\ pc[t] = "idle"

\* the page is opened or reloaded, also in the middle of a rerun, or an enabled
\* button of what it shows is clicked
Rerun(t) ==
    /\ pc[t] = "idle"
    /\ \E click \in Clicks :
          /\ page[t].step = "shown" \/ click = "none"
          /\ click # "none" => Enabled(page[t], click)
          /\ page' = [page EXCEPT ![t] =
                        [ClosedPage EXCEPT !.step = "data", !.click = click]]
    /\ UNCHANGED vars

\* load_phase5_workspace
LoadData(t) ==
    /\ At(t, "data")
    /\ page' = [page EXCEPT ![t].step = "auth", ![t].snap = snapshot]
    /\ UNCHANGED vars

LoadAuthorization(t) ==
    /\ At(t, "auth")
    /\ \/ /\ ActiveAuths = {}
          /\ page' = [page EXCEPT ![t].step = "sends"]
       \/ \E a \in AuthIds :
             /\ IsNewest(a, ActiveAuths)
             /\ page' = [page EXCEPT ![t].step = "sends", ![t].auth = a]
    /\ UNCHANGED vars

LoadSends(t) ==
    /\ At(t, "sends")
    /\ page' = [page EXCEPT ![t].step = "lock", ![t].sent =
                  {p \in Partners : latest[SendKey(p, page[t].snap)] = "SENT"}]
    /\ UNCHANGED vars

LoadLock(t) ==
    /\ At(t, "lock")
    /\ page' = [page EXCEPT ![t].step = "documents", ![t].locked = locked]
    /\ UNCHANGED vars

\* the current publications, kept only where they are of the settlement in hand;
\* without them the partner is not ready and its package has another send key
LoadDocuments(t) ==
    /\ At(t, "documents")
    /\ LET n == page[t].snap
           matching == {p \in Partners : Package(p, snapshot) = Package(p, n)}
       IN page' = [page EXCEPT ![t].step = "check", ![t].sent = @ \cap matching,
                               ![t].ready = Ready[n] \cap matching]
    /\ UNCHANGED vars

\* is_current of the packages that are eligible now: other hashes make the
\* authorization STALE, whatever its status is by now
CheckAuthorization(t) ==
    /\ At(t, "check")
    /\ IF page[t].auth = 0 \/ IsCurrent(page[t].auth, EligiblePackages(page[t]))
       THEN /\ page' = [page EXCEPT ![t].step = "act",
                                    ![t].current = page[t].auth # 0]
            /\ UNCHANGED vars
       ELSE /\ page' = [page EXCEPT ![t].step = "act"]
            /\ authStatus' = [authStatus EXCEPT ![page[t].auth] = "STALE"]
            /\ UNCHANGED <<locked, mode, authMode, authPackages, nextAuth,
                           latest, started, deliveries, snapshot, closure, pc,
                           req, faults>>

\* a rerun without a click, or whose lock widgets are gone: period_locked is
\* read once more before they are drawn
Show(t) ==
    /\ At(t, "act")
    /\ \/ page[t].click = "none"
       \/ page[t].click \in {"lock", "manual_lock"} /\ locked
    /\ page' = [page EXCEPT ![t].step = "shown", ![t].click = "none"]
    /\ UNCHANGED vars

\* "Create snapshot authorization", with the packages of this rerun
PageAuthorize(t) ==
    /\ At(t, "act")
    /\ \E m \in AuthorizedModes :
          /\ page[t].click = IF m = "SEND" THEN "authorize_send"
                             ELSE "authorize_draft"
          /\ req' = [req EXCEPT ![t] = [NoRequest EXCEPT
                        !.mode = m, !.packages = EligiblePackages(page[t])]]
    /\ Goto(t, "auth_lock")
    /\ page' = [page EXCEPT ![t].step = "shown", ![t].click = "none"]
    /\ UNCHANGED <<repository, deliveries, snapshot, closure, faults>>

\* "Lock period", with the number of eligible packages of this rerun
PageLock(t) ==
    /\ At(t, "act")
    /\ page[t].click \in {"lock", "manual_lock"} /\ ~locked
    /\ req' = [req EXCEPT ![t] = [NoRequest EXCEPT
                  !.manual = page[t].click = "manual_lock",
                  !.intended = Cardinality(Eligible(page[t]))]]
    /\ Goto(t, "lock_count")
    /\ page' = [page EXCEPT ![t].step = "shown", ![t].click = "none"]
    /\ UNCHANGED <<repository, deliveries, snapshot, closure, faults>>

PageStep(t) ==
    \/ Rerun(t) \/ LoadData(t) \/ LoadAuthorization(t) \/ LoadSends(t)
    \/ LoadLock(t) \/ LoadDocuments(t) \/ CheckAuthorization(t) \/ Show(t)
    \/ PageAuthorize(t) \/ PageLock(t)

\* the steps of EmailWorkflow: tabs authorize and lock through the page only,
\* and the page never sends
ServiceStep(s) ==
    \/ SendStep(s) \/ AdminStep(s) \/ Interrupt(s)
    \/ /\ s \in Tabs /\ page[s].step = "shown"
       /\ BeginReopen(s) \/ BeginSafeMode(s)
    \/ s \notin Tabs /\ (BeginSend(s) \/ BeginBatch(s))

CenterNext ==
    \/ \E t \in Tabs : PageStep(t)
    \/ (\E s \in Sessions : ServiceStep(s)) /\ UNCHANGED page
    \/ ChangeData /\ UNCHANGED page

CenterSpec == CenterInit /\ [][CenterNext]_centerVars

----------------------------------------------------------------------------
(* Properties *)

\* The page gives a SEND authorization only in a period that has had another
\* authorization before: without one in force no row is ready to send.
SendFollowsAuthorization ==
    \A a \in AuthIds :
        authStatus[a] # "NONE" /\ authMode[a] = "SEND" =>
            \E b \in AuthIds : b < a /\ authStatus[b] # "NONE"

----------------------------------------------------------------------------
(* What the code says and does not do *)

\* What the lock's refusal says: all intended production sends complete before
\* lock.  Every partner that is ready in the data is intended.
CompleteCloseCoversReady ==
    closure = "complete" =>
        \A p \in Ready[snapshot] : \E k \in Keys : k[1] = p /\ deliveries[k] > 0
=============================================================================
