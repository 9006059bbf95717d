------------------------------ MODULE Settlement ------------------------------
(***************************************************************************)
(* One settlement period: the evaluation of the published orders against   *)
(* the registry (Phase5SettlementService), the financial overrides         *)
(* reviewers append (FinancialOverrideService), and the cached workspace   *)
(* of the page both meet on.                                               *)
(*                                                                         *)
(* An evaluation reads four sources one after the other: the canonical     *)
(* orders, the ingestion issues, the two sheets, the overrides.  A         *)
(* reviewer decides on what an earlier evaluation showed, and create then  *)
(* checks the period lock, reads the order's history, takes the time and   *)
(* appends, each at its own moment.                                        *)
(***************************************************************************)
EXTENDS FinancialRules, Sequences, FiniteSetsExt

CONSTANTS
    RestaurantIds, Names, Contradicting,
    Orders,
    Period,        \* the period, <<month, "P1" or "P2">>
    MonthLength,   \* calendar.monthrange of its month
    Sources,       \* the states the published orders and the sheets can be in
    Evaluators,    \* sessions that compute the workspace
    Reviewers,
    ReviewChoices,       \* the decisions reviewers pick from
    Followed,            \* bound: the sources that reviewers and changes are followed on
    MaxOverrides, MaxClock, MaxChanges, MaxEvaluations \* bounds of the runs

INSTANCE ScopeRegistry

(***************************************************************************)
(* A source state: the canonical orders of the artifact (a partial         *)
(* function of the order id, since deduplication keeps one row per order), *)
(* the orders named by an INVALID_FINANCIAL_VALUE issue, and the sheets.   *)
(* A row whose date does not parse has the date None, and no period.       *)
(***************************************************************************)
CanonicalRows == [rid : RestaurantIds \cup {None}, status : Statuses, reason : Reasons,
                  amount : Int \cup {None}, date : (1 .. 12) \X (1 .. 31) \cup {None}]

ASSUME SettlementAssumption ==
    /\ MonthLength \in 28 .. 31 /\ Period \in (1 .. 12) \X {"P1", "P2"}
    /\ Contradicting \subseteq Names \X Names
    /\ \A s \in Sources :
        /\ DOMAIN s.canonical \subseteq Orders /\ IsFiniteSet(DOMAIN s.canonical)
        /\ \A o \in DOMAIN s.canonical : s.canonical[o] \in CanonicalRows
        /\ s.invalid \subseteq Orders
        /\ s.scope \in Seq(ScopeRows)
        /\ s.rst \in Seq(RSTRows)
    /\ ReviewChoices \subseteq Decisions /\ Followed \subseteq Sources
    /\ MaxOverrides \in Nat /\ MaxClock \in Nat /\ MaxChanges \in Nat /\ MaxEvaluations \in Nat

VARIABLES
    source,       \* what the artifacts and the sheets hold now
    overrides,    \* the append-only table, in the order of the appends
    locked,       \* the period lock, set and cleared by the email workflow
    clock,        \* the time: every reading of it is later than the one before
    cache,        \* the page's cached workspace, None when it was cleared
    session,      \* each evaluator: how far its computation is
    dialog,       \* each reviewer: the order on screen and how far create is
    changes, evaluations

vars == <<source, overrides, locked, clock, cache, session, dialog, changes, evaluations>>

----------------------------------------------------------------------------
(* The evaluation *)

History(log, o) == {i \in DOMAIN log : log[i].order = o}

\* Mutant: the mapping keeps the first entry it meets.
FirstOverrideDecides(log, o) ==
    IF History(log, o) = {} THEN 0
    ELSE CHOOSE i \in History(log, o) : \A j \in History(log, o) : log[j].at >= log[i].at

\* The last of an order's overrides by (created_at, override_id), 0 if none.
Deciding(log, o) ==
    IF History(log, o) = {} THEN 0
    ELSE CHOOSE i \in History(log, o) : \A j \in History(log, o) : log[j].at <= log[i].at

InPeriod(canonical) ==
    {o \in DOMAIN canonical : canonical[o].date \in PeriodDates(Period, MonthLength)}

IdsOf(registry, keys) == {registry[k].id : k \in keys} \ {None}

BlockedIds(registry) == IdsOf(registry, IdentityBlocked(registry))
ReadyIds(registry) == IdsOf(registry, IdentityReady(registry))
NoDuplicateIds(registry) == {}       \* mutant: the first restaurant of an id is kept silently
DuplicateReadyIds(registry) ==
    {id \in ReadyIds(registry) :
        Cardinality({k \in IdentityReady(registry) : registry[k].id = id}) > 1}

\* The orders _settlement_order is called for: blocked ids come first.
Evaluated(canonical, registry) ==
    {o \in InPeriod(canonical) :
        canonical[o].rid \in ReadyIds(registry) \ BlockedIds(registry)}

ReviewRules == {"UNKNOWN_ORDER_STATUS", "UNCONFIGURED_OPERATIONAL_STATUS",
                "UNKNOWN_CANCELLATION_RESPONSIBILITY"}

SettlementOrder(row, o, invalid, log) ==
    LET outcome == Classify(row.status, row.reason)
        override == Deciding(log, o)
    IN  [rid |-> row.rid,
         system |-> outcome.decision,
         final |-> IF override = 0 THEN outcome.decision ELSE log[override].new,
         override |-> override,
         amount |-> row.amount,
         issues |-> (IF o \in invalid THEN {"INVALID_FINANCIAL_VALUE"} ELSE {})
                    \cup (IF row.amount = None THEN {"INVALID_ORDER_AMOUNT"} ELSE {})
                    \cup ({outcome.rule} \cap ReviewRules)]

\* _settlement_order raises for an override made under another restaurant,
\* and that ends the evaluation of the whole period.
OverrideMismatch(canonical, registry, log) ==
    \E o \in Evaluated(canonical, registry) :
        LET i == Deciding(log, o) IN i # 0 /\ log[i].rid # canonical[o].rid

Total(orders, chosen) ==
    MapThenSumSet(LAMBDA o : orders[o].amount,
                  {o \in chosen : orders[o].amount # None})

\* Decimal's context has a digit to spare for the total of any orders settled.
ASSUME TotalsAreShort ==
    \A s \in Sources : \A chosen \in SUBSET DOMAIN s.canonical :
        Digits(Dec(Total(s.canonical, chosen), 0).c) < Precision

DecidedAs(orders, decision) == {o \in DOMAIN orders : orders[o].final = decision}

DataIssue(code) ==
    code \in {"INVALID_FINANCIAL_VALUE", "INVALID_ORDER_AMOUNT",
              "INVALID_RST_COMMISSION_REFERENCE", "DUPLICATE_READY_RESTAURANT_ID"}

CommissionIssue(code) ==
    code \in {"MISSING_INVOICE_SCOPE_COMMISSION", "INVALID_INVOICE_SCOPE_COMMISSION"}

SettlementStatus(orders, issues) ==
    IF DOMAIN orders = {} THEN "NO_ORDERS"
    ELSE IF \E c \in issues : CommissionIssue(c) THEN "BLOCKED_COMMISSION"
    ELSE IF \E c \in issues : DataIssue(c) THEN "BLOCKED_DATA"
    ELSE IF DecidedAs(orders, "MANUAL_REVIEW") # {} THEN "REVIEW_REQUIRED" ELSE "READY"

\* The orders of one registry entry; an entry with no id has none.
OrdersOf(orders, id) == [o \in {p \in DOMAIN orders : orders[p].rid = id} |-> orders[o]]

RestaurantSettlement(entry, orders, duplicates) ==
    LET mine == OrdersOf(orders, entry.id)
        issues == RateIssues(entry.scopeRate, entry.rstRate)
                  \cup (IF entry.id \in duplicates
                        THEN {"DUPLICATE_READY_RESTAURANT_ID"} ELSE {})
                  \cup UNION {mine[o].issues : o \in DOMAIN mine}
        status == SettlementStatus(mine, issues)
        eligible == Total(mine, DecidedAs(mine, "PAY_PARTNER"))
        rate == ResolveCommission(NormalRate(entry.scopeRate).rate,
                                  NormalRate(entry.rstRate).rate).effective
    IN  [id |-> entry.id, status |-> status, orders |-> mine,
         gross |-> Total(mine, DOMAIN mine),
         eligible |-> eligible,
         excluded |-> Total(mine, DecidedAs(mine, "EXCLUDE")),
         compensation |-> Total(mine, DecidedAs(mine, "YASSIR_COMPENSATION")),
         money |-> IF status = "READY" THEN Certified(Dec(eligible, 0), rate) ELSE None]

\* evaluate: every ready registry entry, over the orders of its id.
Evaluate(canonical, invalid, registry, log) ==
    LET orders == [o \in Evaluated(canonical, registry) |->
                       SettlementOrder(canonical[o], o, invalid, log)]
    IN  [blockedOrders |-> {o \in InPeriod(canonical) :
                                canonical[o].rid \in BlockedIds(registry)},
         orders |-> orders,
         restaurants |-> [k \in IdentityReady(registry) |->
             RestaurantSettlement(registry[k], orders, DuplicateReadyIds(registry))]]

----------------------------------------------------------------------------
(* Sessions and dialogs *)

NoSession == [step |-> "idle", canonical |-> <<>>, invalid |-> {}, registry |-> <<>>,
              seen |-> 0]
NoDialog == [step |-> "closed", order |-> None, rid |-> None, system |-> None,
             new |-> None, last |-> 0, at |-> 0]

Init ==
    /\ source \in Sources
    /\ overrides = <<>>
    /\ locked = FALSE
    /\ clock = 1
    /\ cache = None
    /\ session = [e \in Evaluators |-> NoSession]
    /\ dialog = [r \in Reviewers |-> NoDialog]
    /\ changes = 0
    /\ evaluations = 0

\* load_phase5_processed_inputs: the orders are downloaded, then the issues.
ReadOrders(e) ==
    /\ session[e].step = "idle" /\ cache = None /\ evaluations < MaxEvaluations
    /\ evaluations' = evaluations + 1
    /\ session' = [session EXCEPT ![e] = [NoSession EXCEPT
                       !.step = "orders", !.canonical = source.canonical]]
    /\ UNCHANGED <<source, overrides, locked, clock, cache, dialog, changes>>

ReadIssues(e) ==
    /\ session[e].step = "orders"
    /\ session' = [session EXCEPT ![e].step = "issues", ![e].invalid = source.invalid]
    /\ UNCHANGED <<source, overrides, locked, clock, cache, dialog, changes, evaluations>>

\* run_restaurant_registry over the sheets of this moment.
ReadRegistry(e) ==
    /\ session[e].step = "issues"
    /\ session' = [session EXCEPT ![e].step = "registry",
                                  ![e].registry = Registry(source.scope, source.rst)]
    /\ UNCHANGED <<source, overrides, locked, clock, cache, dialog, changes, evaluations>>

\* list_for_period: how much of the append-only table this computation sees.
ReadOverrides(e) ==
    /\ session[e].step = "registry"
    /\ session' = [session EXCEPT ![e].step = "overrides", ![e].seen = Len(overrides)]
    /\ UNCHANGED <<source, overrides, locked, clock, cache, dialog, changes, evaluations>>

\* evaluate either raises, and the page shows the error, or its result is
\* cached, whatever was appended or cleared since the reads.
FinishEvaluation(e) ==
    /\ session[e].step = "overrides"
    /\ LET s == session[e]
           log == SubSeq(overrides, 1, s.seen)
       IN  cache' = IF OverrideMismatch(s.canonical, s.registry, log) THEN cache
                    ELSE [seen |-> s.seen, registry |-> s.registry,
                          summary |-> Evaluate(s.canonical, s.invalid, s.registry, log)]
    /\ session' = [session EXCEPT ![e] = NoSession]
    /\ UNCHANGED <<source, overrides, locked, clock, dialog, changes, evaluations>>

\* A download, a sheet or the database fails: the page shows the error.
AbortEvaluation(e) ==
    /\ session[e].step # "idle"
    /\ session' = [session EXCEPT ![e] = NoSession]
    /\ UNCHANGED <<source, overrides, locked, clock, cache, dialog, changes, evaluations>>

\* The time to live of the cache, a Refresh button, or another page's clear.
ClearCache ==
    /\ cache # None
    /\ cache' = None
    /\ UNCHANGED <<source, overrides, locked, clock, session, dialog, changes, evaluations>>

\* The review queue shows the cached workspace; the dialog keeps the order
\* and the restaurant it was opened with.  Save stays disabled until the
\* chosen decision differs from the one on screen.
OpenDialog(r) ==
    /\ dialog[r].step = "closed" /\ cache # None /\ source \in Followed
    /\ \E o \in DOMAIN cache.summary.orders, new \in ReviewChoices :
        LET shown == cache.summary.orders[o] IN
        /\ new # shown.final
        /\ dialog' = [dialog EXCEPT ![r] =
               [step |-> "confirmed", order |-> o, rid |-> shown.rid,
                system |-> shown.system, new |-> new, last |-> 0, at |-> 0]]
    /\ UNCHANGED <<source, overrides, locked, clock, cache, session, changes, evaluations>>

CloseDialog(r) ==
    /\ dialog[r].step # "closed"
    /\ dialog' = [dialog EXCEPT ![r] = NoDialog]
    /\ UNCHANGED <<source, overrides, locked, clock, cache, session, changes, evaluations>>

CheckLock(r) ==
    /\ dialog[r].step = "confirmed"
    /\ dialog' = [dialog EXCEPT ![r] =
                      IF locked THEN NoDialog ELSE [@ EXCEPT !.step = "unlocked"]]
    /\ UNCHANGED <<source, overrides, locked, clock, cache, session, changes, evaluations>>

ReadHistory(r) ==
    /\ dialog[r].step = "unlocked"
    /\ dialog' = [dialog EXCEPT ![r].step = "read",
                                ![r].last = Deciding(overrides, dialog[r].order)]
    /\ UNCHANGED <<source, overrides, locked, clock, cache, session, changes, evaluations>>

Previous(d) == IF d.last = 0 THEN d.system ELSE overrides[d.last].new

\* The record is stamped and validated: it has to change the final decision.
Stamp(r) ==
    /\ dialog[r].step = "read" /\ clock <= MaxClock
    /\ dialog' = [dialog EXCEPT ![r] =
                      IF Previous(@) = @.new THEN NoDialog
                      ELSE [@ EXCEPT !.step = "stamped", !.at = clock]]
    /\ clock' = clock + 1
    /\ UNCHANGED <<source, overrides, locked, cache, session, changes, evaluations>>

\* repository.append, and the dialog clears every cache.
SaveOverride(r) ==
    LET d == dialog[r] IN
    /\ d.step = "stamped" /\ Len(overrides) < MaxOverrides
    /\ overrides' = Append(overrides,
           [order |-> d.order, rid |-> d.rid, previous |-> Previous(d), new |-> d.new,
            at |-> d.at, supersedes |-> d.last])
    /\ cache' = None
    /\ dialog' = [dialog EXCEPT ![r] = NoDialog]
    /\ UNCHANGED <<source, locked, clock, session, changes, evaluations>>

\* A publication of the ingestion or an edit of a sheet, and the lock.
SourceChanges ==
    /\ changes < MaxChanges /\ source \in Followed
    /\ changes' = changes + 1
    /\ source' \in Followed \ {source}
    /\ UNCHANGED <<overrides, locked, clock, cache, session, dialog, evaluations>>

LockChanges ==
    /\ changes < MaxChanges /\ source \in Followed
    /\ changes' = changes + 1
    /\ locked' = ~locked
    /\ UNCHANGED <<source, overrides, clock, cache, session, dialog, evaluations>>

Evaluation(e) == \/ ReadOrders(e) \/ ReadIssues(e) \/ ReadRegistry(e)
                 \/ ReadOverrides(e) \/ FinishEvaluation(e) \/ AbortEvaluation(e)

Review(r) == \/ OpenDialog(r) \/ CloseDialog(r) \/ CheckLock(r) \/ ReadHistory(r)
             \/ Stamp(r) \/ SaveOverride(r)

Next == \/ \E e \in Evaluators : Evaluation(e)
        \/ \E r \in Reviewers : Review(r)
        \/ ClearCache \/ SourceChanges \/ LockChanges

Spec == Init /\ [][Next]_vars

----------------------------------------------------------------------------
(* Properties *)

\* The override that decides an order is never one that another override
\* replaced: reviewers who read the history, take the time and append in any
\* interleaving never make create's "latest" differ from latest_overrides'.
DecidingOverrideStands ==
    \A o \in Orders, i \in DOMAIN overrides :
        overrides[i].order = o /\ overrides[i].supersedes # 0
            => overrides[i].supersedes # Deciding(overrides, o)

ReadyEntries == IF cache = None THEN {}
                ELSE {k \in DOMAIN cache.summary.restaurants :
                          cache.summary.restaurants[k].status = "READY"}

\* No order is paid twice: sheet rows with and without the id can lead to the
\* same restaurant, and then at most one READY settlement contains the order.
PaidOnce ==
    \A o \in Orders :
        Cardinality({k \in ReadyEntries :
                         o \in DOMAIN cache.summary.restaurants[k].orders}) <= 1

\* A READY settlement never contains an order of a restaurant some other row
\* of the Invoice Scope leaves identity-blocked (README: identity-blocked
\* orders "never enter financial calculations").
BlockedIdentityIsNeverPaid ==
    \A k \in ReadyEntries : cache.summary.restaurants[k].id \notin BlockedIds(cache.registry)

\* In a READY settlement every order is decided and has an amount, so that
\* the three decided totals add up to the gross, and the certified chain, each
\* operation rounded, still satisfies the two exact equalities the document
\* candidate tests (INVOICE_TTC_ and NET_PAYABLE_RECONCILIATION_FAILED).
ReadyAccountsForEveryOrder ==
    \A k \in ReadyEntries :
        LET s == cache.summary.restaurants[k] IN
        /\ s.gross = s.eligible + s.excluded + s.compensation
        /\ \A o \in DOMAIN s.orders : s.orders[o].amount # None
        /\ SameValue(s.money.sales, Plus(s.money.net, s.money.ttc))
        /\ SameValue(s.money.ttc, Plus(s.money.commission, s.money.tva))

============================================================================
