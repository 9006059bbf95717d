-------------------------------- MODULE Billing --------------------------------
(***************************************************************************)
(* The billing period: what the Billing Operations page shows of its       *)
(* evaluation, and the append-only record of its validation, lock and      *)
(* reopening (BillingPeriodControlService).                                *)
(*                                                                         *)
(* A page works on an evaluation cached for all sessions; lock and reopen  *)
(* read the latest event in one transaction and append in another.         *)
(* Amounts are integers; the digest of the figures is the figures.  A      *)
(* session stands for the person at it.                                    *)
(***************************************************************************)
EXTENDS Integers, Sequences, FiniteSets, SequencesExt

CONSTANTS
    None,
    Restaurants,
    Evaluations,   \* the evaluations the sources of the period can give
    Sessions,
    OpenPages,     \* the sets of sessions that can be at work together
    MayValidate, MayLock,     \* the sessions whose role has the permission
    MaxEvents, MaxChanges     \* bounds of the runs

ASSUME BillingAssumption ==
    /\ OpenPages # {} /\ MayValidate \subseteq Sessions /\ MayLock \subseteq Sessions
    /\ MaxEvents \in Nat /\ MaxChanges \in Nat
    /\ \A e \in Evaluations : DOMAIN e \subseteq Restaurants

VARIABLES
    open,          \* the sessions at work in this behaviour
    evaluation,    \* what an evaluation of the period would give now
    cache,         \* st.cache_data of load_settlement, None when empty
    events,        \* billing_period_events of the period
    page,          \* each session: the action under way and what it read
    changes

billingVars == <<open, evaluation, cache, events, page, changes>>

----------------------------------------------------------------------------
(***************************************************************************)
(* The figures.  A settlement has amounts once the policy was applied to   *)
(* it, and None before; what each figure and each total lost by rounding   *)
(* to the context is in the evaluations, some of which do not reconcile.   *)
(***************************************************************************)
Computed(e) == {r \in DOMAIN e : e[r].sales # None}

Impact(e) ==
    [restaurants |-> Cardinality(Computed(e)),
     sales |-> SumFunction([r \in Computed(e) |-> e[r].sales]),
     invoice |-> SumFunction([r \in Computed(e) |-> e[r].invoice]),
     net |-> SumFunction([r \in Computed(e) |-> e[r].net])]

Difference(impact) == impact.sales - (impact.net + impact.invoice)

Fingerprint(e) == [r \in DOMAIN e |-> <<e[r].sales, e[r].invoice, e[r].net, e[r].status>>]

----------------------------------------------------------------------------
Idle == [step |-> "idle", action |-> None, shown |-> None]

BillingInit ==
    /\ open \in OpenPages
    /\ evaluation \in Evaluations
    /\ cache = None
    /\ events = <<>>
    /\ page = [s \in Sessions |-> Idle]
    /\ changes = 0

Latest == IF events = <<>> THEN None ELSE Last(events)

Event(s, status, e) ==
    [actor |-> s, status |-> status, fingerprint |-> Fingerprint(e), impact |-> Impact(e)]

\* A click reruns the page: the evaluation is the cached one, computed if there is none.
Click(s, action) ==
    /\ s \in open /\ page[s].step = "idle" /\ Len(events) < MaxEvents
    /\ s \in (IF action = "validate" THEN MayValidate ELSE MayLock)
    /\ LET shown == IF cache = None THEN evaluation ELSE cache
       IN  /\ cache' = shown
           /\ page' = [page EXCEPT ![s] =
                [step |-> IF action = "validate" THEN "append" ELSE "check",
                 action |-> action, shown |-> shown]]
    /\ UNCHANGED <<open, evaluation, events, changes>>

\* Mutant: lock trusts that what is validated is what is shown.
LockWhateverIsValidated(s) ==
    /\ page[s].step = "check"
    /\ LET passes == Latest # None /\ Latest.status = (IF page[s].action = "lock"
                                                      THEN "VALIDATED" ELSE "LOCKED")
       IN  page' = [page EXCEPT ![s] = IF passes THEN [@ EXCEPT !.step = "append"] ELSE Idle]
    /\ UNCHANGED <<open, evaluation, cache, events, changes>>

\* lock and reopen read the latest event and raise when it is not the one they need.
Check(s) ==
    /\ page[s].step = "check"
    /\ LET passes ==
             /\ Latest # None
             /\ CASE page[s].action = "lock" ->
                       /\ Latest.status = "VALIDATED"
                       /\ Latest.fingerprint = Fingerprint(page[s].shown)
                  [] OTHER -> Latest.status = "LOCKED"
       IN  page' = [page EXCEPT ![s] = IF passes THEN [@ EXCEPT !.step = "append"] ELSE Idle]
    /\ UNCHANGED <<open, evaluation, cache, events, changes>>

\* validate looks at no event; of its gates the page leaves only the difference open.
AppendEvent(s) ==
    /\ page[s].step = "append"
    /\ LET action == page[s].action
           e == page[s].shown
           refused == action = "validate" /\ Difference(Impact(e)) # 0
           status == CASE action = "validate" -> "VALIDATED"
                       [] action = "lock" -> "LOCKED"
                       [] OTHER -> "DATA_READY"
       IN  events' = IF refused THEN events ELSE Append(events, Event(s, status, e))
    /\ page' = [page EXCEPT ![s] = Idle]
    /\ UNCHANGED <<open, evaluation, cache, changes>>

\* The cache runs out after its 300 seconds, or a page clears it.
ExpireCache ==
    /\ cache # None
    /\ cache' = None
    /\ UNCHANGED <<open, evaluation, events, page, changes>>

SourceChanges ==
    /\ changes < MaxChanges
    /\ changes' = changes + 1
    /\ evaluation' \in Evaluations \ {evaluation}
    /\ UNCHANGED <<open, cache, events, page>>

SourceChangedAfterLock(e) ==
    Latest # None /\ Latest.status = "LOCKED" /\ Latest.fingerprint # Fingerprint(e)

BillingNext ==
    \/ ExpireCache \/ SourceChanges
    \/ \E s \in Sessions :
        \/ \E action \in {"validate", "lock", "reopen"} : Click(s, action)
        \/ Check(s) \/ AppendEvent(s)

BillingSpec == BillingInit /\ [][BillingNext]_billingVars

----------------------------------------------------------------------------
(* Properties *)

(***************************************************************************)
(* The figures of a lock reconcile and are, restaurant by restaurant,      *)
(* those of a validation recorded before it; what is recorded between the  *)
(* two is the work of others, done while the lock was under way.  The      *)
(* check of a lock and its event are two transactions, and the page's      *)
(* figures are older than both.                                            *)
(***************************************************************************)
LockedFiguresWereValidated ==
    \A i \in DOMAIN events : events[i].status = "LOCKED" =>
        /\ Difference(events[i].impact) = 0
        /\ \E j \in 1 .. i - 1 :
            /\ events[j].status = "VALIDATED"
            /\ events[j].fingerprint = events[i].fingerprint
            /\ \A k \in j + 1 .. i - 1 : events[k].actor # events[i].actor

=============================================================================
