---------------------------- MODULE ReviewProofs ----------------------------
(***************************************************************************)
(* The operations of a period, for any number of restaurants, sessions,    *)
(* officers, reviewers, evaluations, statements and events.                *)
(*                                                                         *)
(* What is locked was validated: a lock has read a VALIDATED event with    *)
(* the fingerprint of the figures it appends, the table only grows, equal  *)
(* fingerprints have equal totals, and validate refuses totals that do not *)
(* reconcile.                                                              *)
(***************************************************************************)
EXTENDS Review, FiniteSetTheorems, WellFoundedInduction, TLAPS

Recorded == {Event(s, status, e) : s \in Sessions,
                 status \in {"VALIDATED", "LOCKED", "DATA_READY"}, e \in Evaluations}

Pages == [step : {"idle", "check", "append"},
          action : {"validate", "lock", "reopen", None},
          shown : Evaluations \cup {None}]

TypeInv ==
    /\ evaluation \in Evaluations
    /\ cache \in Evaluations \cup {None}
    /\ events \in Seq(Recorded)
    /\ page \in [Sessions -> Pages]

\* a session about to lock holds figures that an event of the table validates, and has
\* recorded nothing since
Backed(s) ==
    page[s].step # "idle" =>
        /\ page[s].shown \in Evaluations
        /\ page[s].step = "append" /\ page[s].action = "lock" =>
              \E j \in DOMAIN events :
                  /\ events[j].status = "VALIDATED"
                  /\ events[j].fingerprint = Fingerprint(page[s].shown)
                  /\ \A k \in DOMAIN events : k > j => events[k].actor # s

ValidatedReconciles ==
    \A i \in DOMAIN events :
        events[i].status = "VALIDATED" => Difference(events[i].impact) = 0

BillingInv ==
    /\ TypeInv
    /\ \A s \in Sessions : Backed(s)
    /\ ValidatedReconciles
    /\ LockedFiguresWereValidated

----------------------------------------------------------------------------
(* Two evaluations with one fingerprint have the same totals: the digest    *)
(* leaves out nothing that the preview shows.                               *)
LEMMA FingerprintFixesImpact ==
    ASSUME NEW e, NEW f, Fingerprint(e) = Fingerprint(f)
    PROVE  Impact(e) = Impact(f)
<1>1. DOMAIN e = DOMAIN f
    BY DEF Fingerprint
<1>2. \A r \in DOMAIN e : /\ e[r].sales = f[r].sales
                          /\ e[r].invoice = f[r].invoice
                          /\ e[r].net = f[r].net
    <2> TAKE r \in DOMAIN e
    <2>1. Fingerprint(e)[r] = Fingerprint(f)[r]
        OBVIOUS
    <2>2. <<e[r].sales, e[r].invoice, e[r].net, e[r].status>>
            = <<f[r].sales, f[r].invoice, f[r].net, f[r].status>>
        BY <2>1, <1>1 DEF Fingerprint
    <2> QED  BY <2>2
<1>3. Computed(e) = Computed(f)
    BY <1>1, <1>2 DEF Computed
<1>4. /\ [r \in Computed(e) |-> e[r].sales] = [r \in Computed(f) |-> f[r].sales]
      /\ [r \in Computed(e) |-> e[r].invoice] = [r \in Computed(f) |-> f[r].invoice]
      /\ [r \in Computed(e) |-> e[r].net] = [r \in Computed(f) |-> f[r].net]
    BY <1>2, <1>3 DEF Computed
<1> QED  BY <1>3, <1>4, Zenon DEF Impact

(* What appending an event does to the ones recorded before it. *)
LEMMA AppendKeeps ==
    ASSUME NEW old \in Seq(Recorded), NEW new \in Recorded
    PROVE  /\ Append(old, new) \in Seq(Recorded)
           /\ DOMAIN Append(old, new) = 1 .. Len(old) + 1
           /\ DOMAIN old = 1 .. Len(old)
           /\ Len(old) \in Nat
           /\ \A i \in 1 .. Len(old) : Append(old, new)[i] = old[i]
           /\ Append(old, new)[Len(old) + 1] = new
    OBVIOUS

LEMMA EventFields ==
    ASSUME NEW s, NEW status, NEW e
    PROVE  /\ Event(s, status, e).actor = s
           /\ Event(s, status, e).status = status
           /\ Event(s, status, e).fingerprint = Fingerprint(e)
           /\ Event(s, status, e).impact = Impact(e)
    BY DEF Event

(* Equal fingerprints in the table have equal totals. *)
LEMMA RecordedImpact ==
    ASSUME NEW event \in Recorded, NEW e, event.fingerprint = Fingerprint(e)
    PROVE  event.impact = Impact(e)
<1>1. PICK s \in Sessions, status \in {"VALIDATED", "LOCKED", "DATA_READY"},
           f \in Evaluations : event = Event(s, status, f)
    BY DEF Recorded
<1>2. event.fingerprint = Fingerprint(f) /\ event.impact = Impact(f)
    BY <1>1, EventFields
<1> QED  BY <1>2, FingerprintFixesImpact

----------------------------------------------------------------------------
LEMMA InitInv == BillingInit => BillingInv
<1> SUFFICES ASSUME BillingInit PROVE BillingInv
    OBVIOUS
<1>1. /\ events = <<>> /\ evaluation \in Evaluations /\ cache = None
      /\ page = [s \in Sessions |-> Idle]
    BY DEF BillingInit
<1>2. TypeInv
    BY <1>1 DEF TypeInv, Pages, Idle
<1>3. \A s \in Sessions : Backed(s)
    BY <1>1 DEF Backed, Idle
<1>4. ValidatedReconciles /\ LockedFiguresWereValidated
    BY <1>1 DEF ValidatedReconciles, LockedFiguresWereValidated
<1> QED  BY <1>2, <1>3, <1>4 DEF BillingInv

(* A step that leaves the table alone has only the pages to answer for. *)
LEMMA SameTable ==
    ASSUME BillingInv, UNCHANGED events, TypeInv', \A s \in Sessions : Backed(s)'
    PROVE  BillingInv'
<1>1. ValidatedReconciles' /\ LockedFiguresWereValidated'
    BY DEF BillingInv, ValidatedReconciles, LockedFiguresWereValidated
<1> QED  BY <1>1 DEF BillingInv

LEMMA ClickKeeps ==
    ASSUME BillingInv, NEW s \in Sessions, NEW action \in {"validate", "lock", "reopen"},
           Click(s, action)
    PROVE  BillingInv'
<1> DEFINE shown == IF cache = None THEN evaluation ELSE cache
           new == [step |-> IF action = "validate" THEN "append" ELSE "check",
                   action |-> action, shown |-> shown]
<1>1. shown \in Evaluations
    BY DEF BillingInv, TypeInv
<1>2. /\ cache' = shown /\ page' = [page EXCEPT ![s] = new]
      /\ UNCHANGED <<evaluation, events>>
    BY DEF Click
<1>3. new \in Pages
    BY <1>1 DEF Pages
<1>4. TypeInv'
    BY <1>1, <1>2, <1>3 DEF BillingInv, TypeInv
<1>5. ASSUME NEW t \in Sessions PROVE Backed(t)'
    <2>1. CASE t = s
        <3>1. page'[t] = new
            BY <1>2, <2>1 DEF BillingInv, TypeInv
        <3>2. ~(new.step = "append" /\ new.action = "lock")
            OBVIOUS
        <3> QED  BY <3>1, <3>2, <1>1 DEF Backed
    <2>2. CASE t # s
        <3>1. page'[t] = page[t]
            BY <1>2, <2>2 DEF BillingInv, TypeInv
        <3> QED  BY <3>1, <1>2 DEF BillingInv, Backed
    <2> QED  BY <2>1, <2>2
<1> QED  BY <1>2, <1>4, <1>5, SameTable

LEMMA CheckKeeps ==
    ASSUME BillingInv, NEW s \in Sessions, Check(s)
    PROVE  BillingInv'
<1> DEFINE go == [page[s] EXCEPT !.step = "append"]
<1>1. /\ page[s].step = "check" /\ page[s] \in Pages
      /\ UNCHANGED <<evaluation, cache, events>>
    BY DEF BillingInv, TypeInv, Check
<1>2. page[s].shown \in Evaluations
    BY <1>1 DEF BillingInv, Backed
<1>3. \/ page' = [page EXCEPT ![s] = Idle]
      \/ /\ page' = [page EXCEPT ![s] = go]
         /\ Latest # None
         /\ page[s].action = "lock" =>
               /\ Latest.status = "VALIDATED"
               /\ Latest.fingerprint = Fingerprint(page[s].shown)
    BY DEF Check
<1>4. Idle \in Pages /\ go \in Pages
    BY <1>1 DEF Pages, Idle
<1>5. TypeInv'
    BY <1>1, <1>3, <1>4 DEF BillingInv, TypeInv
<1>6. ASSUME NEW t \in Sessions PROVE Backed(t)'
    <2>1. CASE t # s
        <3>1. page'[t] = page[t]
            BY <1>3, <2>1 DEF BillingInv, TypeInv
        <3> QED  BY <3>1, <1>1 DEF BillingInv, Backed
    <2>2. CASE t = s /\ page' = [page EXCEPT ![s] = Idle]
        <3>1. page'[t].step = "idle"
            BY <2>2 DEF BillingInv, TypeInv, Idle
        <3> QED  BY <3>1 DEF Backed
    <2>3. CASE t = s /\ page' # [page EXCEPT ![s] = Idle]
        <3>1. page'[t] = go
            BY <1>3, <2>3 DEF BillingInv, TypeInv
        <3>2. go.shown = page[s].shown /\ go.action = page[s].action
            BY <1>1 DEF Pages
        <3>3. ASSUME go.action = "lock"
              PROVE  \E j \in DOMAIN events :
                        /\ events[j].status = "VALIDATED"
                        /\ events[j].fingerprint = Fingerprint(go.shown)
                        /\ \A k \in DOMAIN events : k > j => events[k].actor # s
            <4>1. /\ Latest # None /\ Latest.status = "VALIDATED"
                  /\ Latest.fingerprint = Fingerprint(go.shown)
                BY <1>3, <2>3, <3>2, <3>3
            <4>2. events # <<>> /\ Latest = events[Len(events)]
                BY <4>1 DEF Latest, Last
            <4>3. Len(events) \in DOMAIN events /\ \A k \in DOMAIN events : ~ (k > Len(events))
                BY <4>2 DEF BillingInv, TypeInv
            <4> QED  BY <4>1, <4>2, <4>3
        <3>4. go.shown \in Evaluations /\ events' = events
            BY <1>1, <1>2, <3>2
        <3> HIDE DEF go
        <3> QED  BY <2>3, <3>1, <3>3, <3>4 DEF Backed
    <2> QED  BY <2>1, <2>2, <2>3
<1> QED  BY <1>1, <1>5, <1>6, SameTable

LEMMA AppendKeepsInv ==
    ASSUME BillingInv, NEW s \in Sessions, AppendEvent(s)
    PROVE  BillingInv'
<1> DEFINE e == page[s].shown
           status == CASE page[s].action = "validate" -> "VALIDATED"
                       [] page[s].action = "lock" -> "LOCKED"
                       [] OTHER -> "DATA_READY"
           new == Event(s, status, e)
<1>1. /\ page[s].step = "append" /\ UNCHANGED <<evaluation, cache>>
      /\ page' = [page EXCEPT ![s] = Idle]
      /\ \/ events' = events
         \/ /\ events' = Append(events, new)
            /\ page[s].action = "validate" => Difference(Impact(e)) = 0
    BY DEF AppendEvent
<1>2. e \in Evaluations /\ page[s] \in Pages
    BY <1>1 DEF BillingInv, TypeInv, Backed
<1>3. new \in Recorded /\ events \in Seq(Recorded)
    <2>1. status \in {"VALIDATED", "LOCKED", "DATA_READY"}
        OBVIOUS
    <2>2. new \in Recorded
        BY <1>2, <2>1 DEF Recorded
    <2> QED  BY <2>2 DEF BillingInv, TypeInv
<1>4. TypeInv'
    <2>1. events' \in Seq(Recorded)
        BY <1>1, <1>3, AppendKeeps
    <2>2. page' \in [Sessions -> Pages]
        BY <1>1 DEF BillingInv, TypeInv, Pages, Idle
    <2> QED  BY <1>1, <2>1, <2>2 DEF BillingInv, TypeInv
<1>5. page'[s].step = "idle" /\ \A t \in Sessions \ {s} : page'[t] = page[t]
    BY <1>1 DEF BillingInv, TypeInv, Idle
<1>6. CASE events' = events
    <2>1. ASSUME NEW t \in Sessions PROVE Backed(t)'
        BY <1>5, <1>6 DEF BillingInv, Backed
    <2> QED  BY <1>4, <1>6, <2>1, SameTable
<1>7. CASE events' # events
    <2>1. events' = Append(events, new)
        BY <1>1, <1>7
    <2>2. /\ DOMAIN events = 1 .. Len(events) /\ DOMAIN events' = 1 .. Len(events) + 1
          /\ Len(events) \in Nat /\ events'[Len(events) + 1] = new
          /\ \A i \in DOMAIN events : i \in DOMAIN events' /\ events'[i] = events[i]
        BY <1>3, <2>1, AppendKeeps
    <2>3. ASSUME NEW t \in Sessions PROVE Backed(t)'
        <3>1. CASE t = s
            BY <1>5, <3>1 DEF Backed
        <3>2. CASE t # s
            <4>1. new.actor # t /\ page'[t] = page[t]
                BY <1>5, <3>2, EventFields
            <4>2. page[t].step # "idle" => page[t].shown \in Evaluations
                BY DEF BillingInv, Backed
            <4>3. ASSUME page[t].step = "append", page[t].action = "lock"
                  PROVE  \E j \in DOMAIN events' :
                            /\ events'[j].status = "VALIDATED"
                            /\ events'[j].fingerprint = Fingerprint(page[t].shown)
                            /\ \A k \in DOMAIN events' : k > j => events'[k].actor # t
                <5>1. PICK j \in DOMAIN events :
                            /\ events[j].status = "VALIDATED"
                            /\ events[j].fingerprint = Fingerprint(page[t].shown)
                            /\ \A k \in DOMAIN events : k > j => events[k].actor # t
                    BY <4>3 DEF BillingInv, Backed
                <5>2. \A k \in DOMAIN events' : k \in DOMAIN events \/ k = Len(events) + 1
                    BY <2>2
                <5> QED  BY <2>2, <4>1, <5>1, <5>2
            <4> QED  BY <1>1, <4>1, <4>2, <4>3 DEF Backed
        <3> QED  BY <3>1, <3>2
    <2>4. /\ new.status = status /\ new.fingerprint = Fingerprint(e) /\ new.impact = Impact(e)
          /\ new.actor = s
        BY EventFields
    <2>5. ValidatedReconciles'
        <3>1. status = "VALIDATED" => Difference(new.impact) = 0
            BY <1>1, <2>1, <2>4, <1>7
        <3>2. \A i \in DOMAIN events' : i \in DOMAIN events \/ i = Len(events) + 1
            BY <2>2
        <3> QED  BY <3>1, <3>2, <2>2, <2>4 DEF ValidatedReconciles, BillingInv
    <2>6. ASSUME NEW i \in DOMAIN events', events'[i].status = "LOCKED"
          PROVE  /\ Difference(events'[i].impact) = 0
                 /\ \E j \in 1 .. i - 1 :
                        /\ events'[j].status = "VALIDATED"
                        /\ events'[j].fingerprint = events'[i].fingerprint
                        /\ \A k \in j + 1 .. i - 1 : events'[k].actor # events'[i].actor
        <3>1. CASE i \in DOMAIN events
            <4>1. events[i].status = "LOCKED" /\ events'[i] = events[i]
                BY <2>2, <2>6, <3>1
            <4>2. /\ Difference(events[i].impact) = 0
                  /\ \E j \in 1 .. i - 1 :
                        /\ events[j].status = "VALIDATED"
                        /\ events[j].fingerprint = events[i].fingerprint
                        /\ \A k \in j + 1 .. i - 1 : events[k].actor # events[i].actor
                BY <3>1, <4>1 DEF BillingInv, LockedFiguresWereValidated
            <4>3. \A k \in 1 .. i - 1 : k \in DOMAIN events /\ events'[k] = events[k]
                BY <2>2, <3>1
            <4>4. \A j \in 1 .. i - 1 : \A k \in j + 1 .. i - 1 : k \in 1 .. i - 1
                BY <2>2, <3>1
            <4> QED  BY <4>1, <4>2, <4>3, <4>4
        <3>2. CASE i \notin DOMAIN events
            <4>1. i = Len(events) + 1 /\ events'[i] = new
                BY <2>2, <3>2
            <4>2. page[s].action = "lock"
                BY <2>4, <2>6, <4>1
            <4>3. PICK j \in DOMAIN events :
                      /\ events[j].status = "VALIDATED"
                      /\ events[j].fingerprint = Fingerprint(e)
                      /\ \A k \in DOMAIN events : k > j => events[k].actor # s
                BY <1>1, <4>2 DEF BillingInv, Backed
            <4>4. events[j] \in Recorded
                BY <1>3
            <4>5. events[j].impact = Impact(e)
                BY <4>3, <4>4, RecordedImpact
            <4>6. Difference(Impact(e)) = 0
                BY <4>3, <4>5 DEF BillingInv, ValidatedReconciles
            <4>7. j \in 1 .. i - 1 /\ events'[j] = events[j]
                BY <2>2, <4>1
            <4>8. \A k \in j + 1 .. i - 1 : k \in DOMAIN events /\ k > j /\ events'[k] = events[k]
                BY <2>2, <4>1, <4>7
            <4> QED  BY <2>4, <4>1, <4>3, <4>6, <4>7, <4>8
        <3> QED  BY <3>1, <3>2
    <2> QED  BY <1>4, <2>3, <2>5, <2>6 DEF BillingInv, LockedFiguresWereValidated
<1> QED  BY <1>6, <1>7

LEMMA NextKeeps == BillingInv /\ [BillingNext]_billingVars => BillingInv'
<1> SUFFICES ASSUME BillingInv, [BillingNext]_billingVars PROVE BillingInv'
    OBVIOUS
<1>1. CASE ExpireCache \/ SourceChanges \/ UNCHANGED billingVars
    <2>1. /\ UNCHANGED <<events, page>> /\ evaluation' \in Evaluations
          /\ cache' \in Evaluations \cup {None}
        BY <1>1 DEF ExpireCache, SourceChanges, billingVars, BillingInv, TypeInv
    <2>2. TypeInv'
        BY <2>1 DEF BillingInv, TypeInv
    <2>3. \A s \in Sessions : Backed(s)'
        BY <2>1 DEF BillingInv, Backed
    <2> QED  BY <2>1, <2>2, <2>3, SameTable
<1>2. ASSUME NEW s \in Sessions, NEW action \in {"validate", "lock", "reopen"},
             Click(s, action)
      PROVE  BillingInv'
    BY <1>2, ClickKeeps
<1>3. ASSUME NEW s \in Sessions, Check(s) PROVE BillingInv'
    BY <1>3, CheckKeeps
<1>4. ASSUME NEW s \in Sessions, AppendEvent(s) PROVE BillingInv'
    BY <1>4, AppendKeepsInv
<1> QED  BY <1>1, <1>2, <1>3, <1>4 DEF BillingNext

\* what the payments and the Review Center do to a period
LEMMA OtherPagesKeep ==
    ASSUME BillingInv, UNCHANGED <<evaluation, events, page>>, cache' = cache \/ cache' = None
    PROVE  BillingInv'
<1>1. TypeInv'
    BY DEF BillingInv, TypeInv
<1>2. \A s \in Sessions : Backed(s)'
    BY DEF BillingInv, Backed
<1> QED  BY <1>1, <1>2, SameTable

LEMMA StepKeepsBilling == BillingInv /\ [ReviewNext]_<<vars, reviewVars>> => BillingInv'
<1> SUFFICES ASSUME BillingInv, [ReviewNext]_<<vars, reviewVars>> PROVE BillingInv'
    OBVIOUS
<1>1. CASE BillingNext
    BY <1>1, NextKeeps
<1>2. CASE ~ BillingNext
    <2>1. UNCHANGED <<evaluation, events, page>> /\ (cache' = cache \/ cache' = None)
        BY <1>2, Zenon DEF ReviewNext, Next, vars, reviewVars, billingVars, paymentVars,
            RegistryChanges, ReconcileStatement, MakeBatch, ValidateBatch, StoreItem,
            TakePayment, AppendTransition, RefreshSources, IssuesChange, ShowIssues, SaveStatus,
            TransitionIssue
    <2> QED  BY <2>1, OtherPagesKeep
<1> QED  BY <1>1, <1>2

(***************************************************************************)
(* A lock has the figures of a validation, restaurant by restaurant, and   *)
(* only the work of others between the two; they reconcile: billing.py's   *)
(* lock, for every number of sessions and events.                          *)
(***************************************************************************)
THEOREM LocksWereValidated == ReviewSpec => []LockedFiguresWereValidated
<1>1. ReviewInit => BillingInv
    BY InitInv DEF ReviewInit, Init
<1>2. BillingInv => LockedFiguresWereValidated
    BY DEF BillingInv
<1> QED  BY <1>1, <1>2, StepKeepsBilling, PTL DEF ReviewSpec
----------------------------------------------------------------------------
(***************************************************************************)
(* Payments.  A batch item was payment-ready in an evaluation whose        *)
(* snapshot hash it keeps, so a hash that is still the current one means   *)
(* the amount still is; the total is the sum of a function on restaurants. *)
(* Whoever prepares a version holds an entry of the history, which only    *)
(* grows.                                                                  *)
(***************************************************************************)
IsList(list) == \E S : list \in Seq(S)

IsPayment(x) ==
    /\ DOMAIN x = {"id", "hash", "net", "rib", "readiness", "status", "bank", "version"}
    /\ x.net \in Int /\ x.version \in Nat \ {0}
    /\ x.status \in Executed => x.bank # None

ItemOK(i) ==
    /\ IsPayment(i) /\ i.version = 1 /\ i.status \notin Executed
    /\ i.net > 0 /\ RibStatus(i.rib) = "VALID_FORMAT"
    /\ \E e : i.hash = SnapshotHash(e, i.id) /\ i.net = Net(e, i.id)

Ids(items) == {i.id : i \in items}

BatchOK(b) == b # None =>
    /\ \A i \in b.items : ItemOK(i)
    /\ b.status \in {"READY_FOR_REVIEW", "VALIDATED", "PAYMENT_BATCH_STALE"}
    /\ {"items", "total", "status"} = DOMAIN b
    /\ \E nets : /\ nets = [r \in Ids(b.items) |-> nets[r]] /\ b.total = SumFunction(nets)
                 /\ \A i \in b.items : nets[i.id] = i.net

\* the entry that a version follows
Follows(n, x) ==
    \E k \in 1 .. n - 1 :
        /\ history[k].id = x.id /\ history[k].version = x.version - 1
        /\ x.status \in Transitions(history[k].status)
        /\ history[k].net = x.net /\ history[k].rib = x.rib

PaymentInv ==
    /\ \A b : b = batch => BatchOK(b)
    /\ IsList(history)
    /\ \A n \in DOMAIN history : \A x : x = history[n] =>
        IsPayment(x) /\ (x.version > 1 => Follows(n, x))
    /\ DOMAIN held = Officers /\ held = [o \in Officers |-> held[o]]
    /\ \A o \in Officers : held[o] # None => \E n \in DOMAIN history : history[n] = held[o]
    /\ ReconciliationIsSound

----------------------------------------------------------------------------
LEMMA ListGrows ==
    ASSUME NEW list, NEW new, IsList(list)
    PROVE  /\ IsList(Append(list, new))
           /\ DOMAIN list = 1 .. Len(list) /\ Len(list) \in Nat
           /\ DOMAIN Append(list, new) = 1 .. Len(list) + 1
           /\ \A i \in DOMAIN list : Append(list, new)[i] = list[i]
           /\ Append(list, new)[Len(list) + 1] = new
<1>1. PICK S : list \in Seq(S)
    BY DEF IsList
<1>2. list \in Seq(S \cup {new}) /\ new \in S \cup {new}
    BY <1>1
<1>3. Append(list, new) \in Seq(S \cup {new})
    BY <1>2
<1> QED  BY <1>2, <1>3 DEF IsList

(* A set of numbers up to some n that is not empty has a last one.          *)
LEMMA HasLast ==
    ASSUME NEW n \in Nat, NEW T \in SUBSET (1 .. n), T # {}
    PROVE  Max(T) \in T /\ \A m \in T : m <= Max(T)
<1>1. PICK gaps : gaps = {n - m : m \in T}
    OBVIOUS
<1>2. gaps \in SUBSET Nat /\ gaps # {}
    <2>1. \A m \in T : n - m \in Nat
        OBVIOUS
    <2> QED  BY <1>1, <2>1
<1>3. IsWellFoundedOn(OpToRel(<, Nat), Nat)
    BY NatLessThanWellFounded
<1>4. PICK g \in gaps : \A h \in gaps : ~(<<h, g>> \in OpToRel(<, Nat))
    BY <1>2, <1>3, WFMin
<1>5. \A h \in gaps : ~(h < g)
    BY <1>2, <1>4 DEF OpToRel
<1>6. PICK last \in T : g = n - last
    BY <1>1
<1>7. \A m \in T : n - m \in gaps
    BY <1>1
<1>8. \A m \in T : last >= m
    BY <1>5, <1>6, <1>7
<1> QED  BY <1>8 DEF Max

LEMMA LastVersionIsAnEntry ==
    ASSUME IsList(history), NEW r, Entries(r) # {}
    PROVE  \E n \in DOMAIN history : LastVersion(r) = history[n] /\ history[n].id = r
<1>1. DOMAIN history = 1 .. Len(history) /\ Len(history) \in Nat
    BY DEF IsList
<1>2. Entries(r) \in SUBSET (1 .. Len(history))
    BY <1>1 DEF Entries
<1>3. Max(Entries(r)) \in Entries(r)
    BY <1>1, <1>2, HasLast
<1> QED  BY <1>3 DEF Entries, LastVersion

----------------------------------------------------------------------------
(* The batch *)

LEMMA ReadyRecord ==
    ASSUME NEW e \in Evaluations, NEW reg, NEW r \in DOMAIN e, NEW x, x = Record(e, reg, r)
    PROVE  /\ DOMAIN x = {"id", "hash", "net", "rib", "readiness", "status", "bank", "version"}
           /\ x.id = r /\ x.hash = SnapshotHash(e, r) /\ x.net = Net(e, r) /\ x.net \in Int
           /\ x.bank = None /\ x.version = 1
           /\ x.readiness = "PAYMENT_READY" => x.net > 0 /\ RibStatus(x.rib) = "VALID_FORMAT"
<1>1. PICK readiness : readiness = Readiness(e, reg, r)
    OBVIOUS
<1>2. /\ DOMAIN x = {"id", "hash", "net", "rib", "readiness", "status", "bank", "version"}
      /\ x.id = r /\ x.hash = SnapshotHash(e, r) /\ x.net = Net(e, r) /\ x.rib = reg[r].rib
      /\ x.readiness = readiness /\ x.bank = None /\ x.version = 1
    BY <1>1 DEF Record
<1>3. Net(e, r) \in Int
    BY PaymentAssumption DEF Net
<1>4. ASSUME readiness = "PAYMENT_READY"
      PROVE  Net(e, r) > 0 /\ RibStatus(reg[r].rib) = "VALID_FORMAT"
    <2>1. ~(Net(e, r) <= 0) /\ RibStatus(reg[r].rib) \notin {"MISSING", "INVALID_FORMAT"}
        BY <1>1, <1>4 DEF Readiness
    <2> QED  BY <1>3, <2>1 DEF RibStatus
<1> QED  BY <1>2, <1>3, <1>4

LEMMA PreviewIsOK ==
    ASSUME TypeInv, MakeBatch
    PROVE  BatchOK(batch') /\ batch'.status = "READY_FOR_REVIEW"
<1>1. PICK records : records = Records(evaluation, registry)
    OBVIOUS
<1>2. PICK chosen \in SUBSET DOMAIN records :
          /\ \A r \in chosen : records[r].readiness = "PAYMENT_READY"
          /\ batch' = Preview(records, chosen)
    BY <1>1 DEF MakeBatch
<1>3. PICK b : b = Preview(records, chosen)
    OBVIOUS
<1>4. PICK nets : nets = [r \in chosen |-> records[r].net]
    OBVIOUS
<1>5. PICK item : item = [r \in chosen |-> [records[r] EXCEPT !.status = "IN_BATCH"]]
    OBVIOUS
<1>6. /\ b.items = {item[r] : r \in chosen} /\ b.total = SumFunction(nets)
      /\ b.status = "READY_FOR_REVIEW" /\ DOMAIN b = {"items", "total", "status"}
    BY <1>3, <1>4, <1>5 DEF Preview
<1>7. ASSUME NEW r \in chosen
      PROVE  ItemOK(item[r]) /\ item[r].id = r /\ item[r].net = nets[r]
    <2>1. PICK x : x = records[r]
        OBVIOUS
    <2>2. PICK i : i = [x EXCEPT !.status = "IN_BATCH"]
        OBVIOUS
    <2>3. item[r] = i /\ nets[r] = x.net
        BY <1>4, <1>5, <2>1, <2>2
    <2>4. r \in DOMAIN evaluation /\ evaluation \in Evaluations
        BY <1>1, <1>2 DEF Records, TypeInv
    <2>5. x = Record(evaluation, registry, r) /\ x.readiness = "PAYMENT_READY"
        BY <1>1, <1>2, <2>1, <2>4 DEF Records
    <2>6. ItemOK(i) /\ i.id = r /\ i.net = x.net
        <3>1. PICK e, reg : e = evaluation /\ reg = registry
            OBVIOUS
        <3>2. e \in Evaluations /\ r \in DOMAIN e /\ x = Record(e, reg, r)
            BY <2>4, <2>5, <3>1
        <3>3. /\ DOMAIN x = {"id", "hash", "net", "rib", "readiness", "status", "bank", "version"}
              /\ x.id = r /\ x.hash = SnapshotHash(e, r) /\ x.net = Net(e, r) /\ x.net \in Int
              /\ x.bank = None /\ x.version = 1
              /\ x.net > 0 /\ RibStatus(x.rib) = "VALID_FORMAT"
            BY <2>5, <3>2, ReadyRecord
        <3>4. /\ DOMAIN i = DOMAIN x /\ i.status = "IN_BATCH" /\ i.id = x.id /\ i.hash = x.hash
              /\ i.net = x.net /\ i.rib = x.rib /\ i.bank = x.bank /\ i.version = x.version
            BY <2>2, <3>3
        <3> QED  BY <3>3, <3>4 DEF ItemOK, IsPayment, Executed
    <2> QED  BY <2>3, <2>6
<1>8. Ids(b.items) = chosen
    BY <1>6, <1>7 DEF Ids
<1>9. nets = [r \in Ids(b.items) |-> nets[r]] /\ \A i \in b.items : nets[i.id] = i.net
    BY <1>4, <1>6, <1>7, <1>8
<1>10. BatchOK(b) /\ b.status = "READY_FOR_REVIEW"
    <2>1. \A i \in b.items : ItemOK(i)
        BY <1>6, <1>7
    <2>2. \E f : /\ f = [r \in Ids(b.items) |-> f[r]] /\ b.total = SumFunction(f)
                 /\ \A i \in b.items : f[i.id] = i.net
        BY <1>6, <1>9, Zenon
    <2> QED  BY <1>6, <2>1, <2>2 DEF BatchOK
<1>11. batch' = b
    BY <1>2, <1>3
<1> QED  BY <1>10, <1>11

(* What the officers see of a batch when it is validated.                   *)
Shown(b) ==
    /\ \A i \in b.items : /\ i.net > 0 /\ Net(evaluation, i.id) = i.net
                          /\ registry[i.id].rib = i.rib /\ RibStatus(i.rib) = "VALID_FORMAT"
    /\ b.total = SumFunction([r \in Ids(b.items) |-> Net(evaluation, r)])

LEMMA ValidatedIsOK ==
    ASSUME PaymentInv, ValidateBatch
    PROVE  BatchOK(batch') /\ (batch'.status = "VALIDATED" => Shown(batch'))
<1>1. PICK old, current : old = batch /\ current = Records(evaluation, registry)
    OBVIOUS
<1>2. BatchOK(old) /\ old # None /\ batch' = Validated(old, current)
    BY <1>1 DEF PaymentInv, ValidateBatch
<1>3. PICK nets : /\ nets = [r \in Ids(old.items) |-> nets[r]] /\ old.total = SumFunction(nets)
                  /\ \A i \in old.items : nets[i.id] = i.net
    BY <1>2 DEF BatchOK
<1>4. DOMAIN old = {"items", "total", "status"} /\ \A i \in old.items : ItemOK(i)
    BY <1>2 DEF BatchOK
<1>5. CASE Stale(old, current)
    <2>1. PICK b : b = [old EXCEPT !.status = "PAYMENT_BATCH_STALE"]
        OBVIOUS
    <2>2. /\ DOMAIN b = DOMAIN old /\ b.items = old.items /\ b.total = old.total
          /\ b.status = "PAYMENT_BATCH_STALE"
        BY <1>4, <2>1
    <2>3. batch' = b
        BY <1>2, <1>5, <2>1 DEF Validated
    <2> QED  BY <1>3, <1>4, <2>2, <2>3 DEF BatchOK
<1>6. CASE ~ Stale(old, current)
    <2>1. PICK items : items = {[i EXCEPT !.status = "FINANCE_VALIDATED"] : i \in old.items}
        OBVIOUS
    <2>2. PICK b : b = [old EXCEPT !.status = "VALIDATED", !.items = items]
        OBVIOUS
    <2>3. /\ DOMAIN b = DOMAIN old /\ b.items = items /\ b.total = old.total
          /\ b.status = "VALIDATED"
        BY <1>4, <2>2
    <2>4. batch' = b
        BY <1>2, <1>4, <1>6, <2>1, <2>2 DEF Validated
    <2>5. ASSUME NEW i \in old.items, NEW j, j = [i EXCEPT !.status = "FINANCE_VALIDATED"]
          PROVE  ItemOK(j) /\ j.id = i.id /\ j.net = i.net /\ j.rib = i.rib
        <3>1. IsPayment(i) /\ ItemOK(i)
            BY <1>4 DEF ItemOK
        <3>2. /\ DOMAIN j = DOMAIN i /\ j.status = "FINANCE_VALIDATED" /\ j.id = i.id
              /\ j.hash = i.hash /\ j.net = i.net /\ j.rib = i.rib /\ j.bank = i.bank
              /\ j.version = i.version
            BY <2>5, <3>1 DEF IsPayment
        <3> QED  BY <3>1, <3>2 DEF ItemOK, IsPayment, Executed
    <2>6. \A j \in items : \E i \in old.items :
              ItemOK(j) /\ j.id = i.id /\ j.net = i.net /\ j.rib = i.rib
        BY <2>1, <2>5
    <2>7. Ids(items) = Ids(old.items)
        <3>1. \A i \in old.items : \E j \in items : j.id = i.id
            BY <2>1, <2>5
        <3> QED  BY <2>6, <3>1 DEF Ids
    <2>8. ASSUME NEW i \in old.items
          PROVE  /\ i.net > 0 /\ Net(evaluation, i.id) = i.net
                 /\ registry[i.id].rib = i.rib /\ RibStatus(i.rib) = "VALID_FORMAT"
        <3>1. i.id \in DOMAIN evaluation /\ current[i.id] = Record(evaluation, registry, i.id)
            BY <1>1, <1>6 DEF Stale, Records
        <3>2. current[i.id].hash = i.hash /\ current[i.id].rib = i.rib
            BY <1>6 DEF Stale
        <3>3. SnapshotHash(evaluation, i.id) = i.hash /\ registry[i.id].rib = i.rib
            BY <3>1, <3>2 DEF Record
        <3>4. ItemOK(i)
            BY <1>4
        <3>5. PICK e : i.hash = SnapshotHash(e, i.id) /\ i.net = Net(e, i.id)
            BY <3>4 DEF ItemOK
        <3>6. e[i.id].net = evaluation[i.id].net
            BY <3>3, <3>5 DEF SnapshotHash
        <3>7. Net(e, i.id) = Net(evaluation, i.id)
            BY <3>6 DEF Net
        <3> QED  BY <3>3, <3>4, <3>5, <3>7 DEF ItemOK
    <2>9. nets = [r \in Ids(b.items) |-> Net(evaluation, r)]
        <3>1. \A r \in Ids(old.items) : nets[r] = Net(evaluation, r)
            BY <1>3, <2>8 DEF Ids
        <3>2. nets = [r \in Ids(old.items) |-> Net(evaluation, r)]
            BY <1>3, <3>1
        <3> QED  BY <2>3, <2>7, <3>2
    <2>10. Shown(b)
        BY <1>3, <2>3, <2>6, <2>8, <2>9 DEF Shown
    <2>11. BatchOK(b)
        <3>1. nets = [r \in Ids(b.items) |-> nets[r]] /\ b.total = SumFunction(nets)
            BY <1>3, <2>3, <2>7
        <3>2. \A j \in b.items : ItemOK(j) /\ nets[j.id] = j.net
            BY <1>3, <2>3, <2>6
        <3> QED  BY <1>4, <2>3, <3>1, <3>2 DEF BatchOK
    <2> QED  BY <2>4, <2>10, <2>11
<1> QED  BY <1>5, <1>6

----------------------------------------------------------------------------
(* The history *)

\* an entry is appended; a session that writes it lets go of what it held
LEMMA EntryAppended ==
    ASSUME PaymentInv, NEW x, history' = Append(history, x), UNCHANGED <<batch, statement>>,
           IsPayment(x), x.version > 1 => Follows(Len(history) + 1, x),
           held' = held \/ \E o \in Officers : held' = [held EXCEPT ![o] = None]
    PROVE  PaymentInv'
<1>1. /\ IsList(history') /\ DOMAIN history = 1 .. Len(history) /\ Len(history) \in Nat
      /\ DOMAIN history' = 1 .. Len(history) + 1
      /\ \A n \in DOMAIN history : history'[n] = history[n]
      /\ history'[Len(history) + 1] = x
    BY ListGrows DEF PaymentInv
<1>2. ASSUME NEW n \in 1 .. Len(history) + 1, NEW y, Follows(n, y) PROVE Follows(n, y)'
    <2>1. PICK k \in 1 .. n - 1 :
              /\ history[k].id = y.id /\ history[k].version = y.version - 1
              /\ y.status \in Transitions(history[k].status)
              /\ history[k].net = y.net /\ history[k].rib = y.rib
        BY <1>2 DEF Follows
    <2>2. history'[k] = history[k]
        BY <1>1
    <2> QED  BY <2>1, <2>2 DEF Follows
<1>3. ASSUME NEW n \in DOMAIN history', NEW y, y = history'[n]
      PROVE  IsPayment(y) /\ (y.version > 1 => Follows(n, y)')
    <2>1. CASE n \in DOMAIN history
        <3>1. IsPayment(y) /\ (y.version > 1 => Follows(n, y))
            BY <1>1, <1>3, <2>1 DEF PaymentInv
        <3> QED  BY <1>1, <1>2, <1>3, <3>1
    <2>2. CASE n \notin DOMAIN history
        <3>1. n = Len(history) + 1 /\ y = x
            BY <1>1, <1>3, <2>2
        <3>2. y.version > 1 => Follows(n, y)
            BY <3>1
        <3> QED  BY <1>1, <1>2, <3>1, <3>2
    <2> QED  BY <2>1, <2>2
<1>4. /\ DOMAIN held' = Officers /\ held' = [o \in Officers |-> held'[o]]
      /\ \A o \in Officers : held'[o] = None \/ held'[o] = held[o]
    BY DEF PaymentInv
<1>5. \A o \in Officers : held'[o] # None => \E n \in DOMAIN history' : history'[n] = held'[o]
    <2>1. DOMAIN history \subseteq DOMAIN history'
        BY <1>1
    <2> QED  BY <1>1, <1>4, <2>1 DEF PaymentInv
<1>6. \A b : b = batch' => BatchOK(b)'
    BY DEF PaymentInv, BatchOK, ItemOK, IsPayment
<1>7. ReconciliationIsSound'
    BY DEF PaymentInv, ReconciliationIsSound
<1>8. \A n \in DOMAIN history' : \A y : y = history'[n] =>
          IsPayment(y)' /\ (y.version > 1 => Follows(n, y)')
    BY <1>3 DEF IsPayment
<1> QED  BY <1>1, <1>4, <1>5, <1>6, <1>7, <1>8 DEF PaymentInv

LEMMA StoreItemKeeps == ASSUME PaymentInv, StoreItem PROVE PaymentInv'
<1>1. PICK i \in batch.items : history' = Append(history, i)
    BY DEF StoreItem
<1>2. ItemOK(i)
    BY DEF StoreItem, PaymentInv, BatchOK
<1>3. IsPayment(i) /\ ~(i.version > 1)
    BY <1>2 DEF ItemOK
<1> QED  BY <1>1, <1>3, EntryAppended DEF StoreItem

LEMMA TransitionKeeps ==
    ASSUME PaymentInv, NEW o \in Officers, AppendTransition(o)
    PROVE  PaymentInv'
<1>1. PICK old : old = held[o]
    OBVIOUS
<1>2. PICK target \in Transitions(old.status), bank \in BankReferences :
          history' = Append(history, Transition(old, target, bank))
    BY <1>1 DEF AppendTransition
<1>3. PICK k \in DOMAIN history : history[k] = old
    BY <1>1 DEF AppendTransition, PaymentInv
<1>4. IsPayment(old)
    BY <1>3 DEF PaymentInv
<1>5. PICK x : x = Transition(old, target, bank)
    OBVIOUS
<1>6. /\ DOMAIN x = DOMAIN old /\ x.id = old.id /\ x.net = old.net /\ x.rib = old.rib
      /\ x.status = target /\ x.version = old.version + 1
      /\ x.bank = IF target = "PAID" THEN bank ELSE old.bank
    BY <1>4, <1>5 DEF Transition, IsPayment
<1>7. target \in Executed => target = "PAID" \/ old.status \in Executed
    BY DEF Transitions, Executed
<1>8. IsPayment(x)
    <2>1. target \in Executed => x.bank # None
        <3>1. CASE target = "PAID"
            BY <1>2, <1>6, <3>1, PaymentAssumption
        <3>2. CASE target # "PAID"
            BY <1>4, <1>6, <1>7, <3>2 DEF IsPayment
        <3> QED  BY <3>1, <3>2
    <2> QED  BY <1>4, <1>6, <2>1 DEF IsPayment
<1>9. Follows(Len(history) + 1, x)
    <2>1. PICK n : n = Len(history) + 1
        OBVIOUS
    <2>2. k \in 1 .. n - 1
        BY <2>1, ListGrows DEF PaymentInv
    <2>3. old.version = x.version - 1
        BY <1>4, <1>6 DEF IsPayment
    <2>4. /\ old.id = x.id /\ x.status \in Transitions(old.status)
          /\ old.net = x.net /\ old.rib = x.rib
        BY <1>2, <1>6
    <2>5. Follows(n, x)
        BY <1>3, <2>2, <2>3, <2>4 DEF Follows
    <2> QED  BY <2>1, <2>5
<1>10. held' = [held EXCEPT ![o] = None] /\ UNCHANGED <<batch, statement>>
    BY DEF AppendTransition
<1>11. history' = Append(history, x)
    BY <1>2, <1>5
<1> QED  BY <1>8, <1>9, <1>10, <1>11, EntryAppended

\* a step that leaves the history alone
LEMMA SameHistory ==
    ASSUME PaymentInv, UNCHANGED history, \A b : b = batch' => BatchOK(b), ReconciliationIsSound',
           held' = held \/ \E o \in Officers : \E n \in DOMAIN history :
                               held' = [held EXCEPT ![o] = history[n]]
    PROVE  PaymentInv'
<1>1. /\ DOMAIN held' = Officers /\ held' = [o \in Officers |-> held'[o]]
      /\ \A o \in Officers : held'[o] = held[o] \/ \E n \in DOMAIN history : held'[o] = history[n]
    BY DEF PaymentInv
<1>2. \A o \in Officers : held'[o] # None => \E n \in DOMAIN history' : history'[n] = held'[o]
    BY <1>1 DEF PaymentInv
<1>3. \A n \in DOMAIN history' : \A x : x = history'[n] =>
          IsPayment(x)' /\ (x.version > 1 => Follows(n, x)')
    BY DEF PaymentInv, IsPayment, Follows
<1>4. IsList(history')
    BY DEF PaymentInv
<1> QED  BY <1>1, <1>2, <1>3, <1>4 DEF PaymentInv

LEMMA TakeKeeps == ASSUME PaymentInv, NEW o \in Officers, TakePayment(o) PROVE PaymentInv'
<1>1. PICK r \in Restaurants : Entries(r) # {} /\ held' = [held EXCEPT ![o] = LastVersion(r)]
    BY DEF TakePayment
<1>2. PICK n \in DOMAIN history : LastVersion(r) = history[n]
    BY <1>1, LastVersionIsAnEntry DEF PaymentInv
<1>3. UNCHANGED <<history, batch, statement>>
    BY DEF TakePayment
<1>4. (\A b : b = batch' => BatchOK(b)) /\ ReconciliationIsSound'
    BY <1>3 DEF PaymentInv, ReconciliationIsSound
<1> QED  BY <1>1, <1>2, <1>3, <1>4, SameHistory

----------------------------------------------------------------------------
(* The reconciliation of a statement *)

\* to the nearest centime: within five tenths of it
LEMMA Rounded ==
    \A x \in Int : HalfUp(x) \in Int /\ x - 5 < 10 * HalfUp(x) /\ 10 * HalfUp(x) <= x + 5
BY DEF HalfUp

LEMMA NamedIsAnItem ==
    ASSUME NEW items, NEW t, Named(items, t) # None
    PROVE  /\ Named(items, t) \in items
           /\ (\E q \in items : q.id = t.internal) => Named(items, t).id = t.internal
<1>1. PICK internal, bank, candidates :
          /\ internal = {i \in items : i.id = t.internal}
          /\ bank = {i \in items : i.bank # None /\ i.bank = t.bank}
          /\ candidates = {i \in items : i.rib # None /\ i.rib = t.rib
                                         /\ Within1Centime(i.net, t.amount)}
    OBVIOUS
<1>2. Named(items, t) =
          IF internal # {} THEN CHOOSE i \in internal : TRUE
          ELSE IF bank # {} THEN CHOOSE i \in bank : TRUE
          ELSE IF Cardinality(candidates) = 1 THEN CHOOSE i \in candidates : TRUE
          ELSE None
    BY <1>1 DEF Named
<1>3. Cardinality(candidates) = 1 => candidates # {}
    BY FS_EmptySet
<1>4. CASE internal # {}
    <2>1. (CHOOSE i \in internal : TRUE) \in internal
        BY <1>4
    <2>2. Named(items, t) = CHOOSE i \in internal : TRUE
        BY <1>2, <1>4
    <2> QED  BY <1>1, <2>1, <2>2
<1>5. CASE internal = {}
    <2>1. Named(items, t) \in items
        BY <1>1, <1>2, <1>3, <1>5
    <2> QED  BY <1>1, <1>5, <2>1
<1> QED  BY <1>4, <1>5

LEMMA SettledIsRight ==
    ASSUME NEW i, i.net \in Int, NEW t, t.amount \in Int, NEW result, result = Settled(i, t)
    PROVE  /\ result.payment = i.id
           /\ LeavesWhatIsMissing(result, i, t)
<1>1. PICK owed, paid : owed = HalfUp(i.net) /\ paid = HalfUp(t.amount)
    OBVIOUS
<1>2. owed \in Int /\ paid \in Int
    BY <1>1, Rounded
<1>3. Max({0, owed - paid}) = IF owed - paid > 0 THEN owed - paid ELSE 0
    BY <1>2 DEF Max
<1>4. /\ result.payment = i.id /\ result.remaining = Max({0, owed - paid})
      /\ result.status = Compared(i, t)
    BY <1>1 DEF Settled
<1>5. Compared(i, t) = IF paid = owed THEN "EXACT_MATCH"
                       ELSE IF paid < owed THEN "PARTIAL_PAYMENT" ELSE "OVERPAYMENT_REVIEW"
    BY <1>1, <1>2 DEF Compared
<1>6. 10 * (owed - paid) - (i.net - t.amount) \in -9 .. 9
    <2>1. PICK a \in Int, b \in Int : a = i.net /\ b = t.amount
        OBVIOUS
    <2>2. /\ a - 5 < 10 * owed /\ 10 * owed <= a + 5
          /\ b - 5 < 10 * paid /\ 10 * paid <= b + 5
        BY <1>1, <2>1, Rounded
    <2>3. 10 * (owed - paid) - (a - b) \in -9 .. 9
        BY <1>2, <2>2
    <2> QED  BY <2>1, <2>3
<1>7. CASE paid < owed
    <2>1. result.status = "PARTIAL_PAYMENT" /\ result.remaining = owed - paid
        BY <1>2, <1>3, <1>4, <1>5, <1>7
    <2>2. owed - paid > 0 /\ (owed - paid) + paid = owed
        BY <1>2, <1>7
    <2> QED  BY <1>1, <1>4, <1>6, <1>7, <2>1, <2>2 DEF LeavesWhatIsMissing
<1>8. CASE paid = owed
    <2>1. result.status = "EXACT_MATCH" /\ result.remaining = 0
        BY <1>2, <1>3, <1>4, <1>5, <1>8
    <2> QED  BY <1>1, <1>4, <1>8, <2>1 DEF LeavesWhatIsMissing
<1>9. CASE paid > owed
    <2>1. result.status = "OVERPAYMENT_REVIEW" /\ result.remaining = 0
        BY <1>2, <1>3, <1>4, <1>5, <1>9
    <2> QED  BY <1>1, <1>4, <1>9, <2>1 DEF LeavesWhatIsMissing
<1> QED  BY <1>2, <1>7, <1>8, <1>9

LEMMA LineSettles ==
    ASSUME NEW items, NEW lines, NEW n \in DOMAIN lines,
           Reconcile(items, lines)[n].payment # None
    PROVE  /\ ~ Repeated(lines, n) /\ Named(items, lines[n]) # None
           /\ Named(items, lines[n]).id \notin Matched(items, lines, n)
           /\ Reconcile(items, lines)[n] = Settled(Named(items, lines[n]), lines[n])
<1>1. PICK item, t : item = Named(items, lines[n]) /\ t = lines[n]
    OBVIOUS
<1>2. PICK known : known = Matched(items, lines, n)
    OBVIOUS
<1>3. Reconcile(items, lines)[n] =
          CASE Repeated(lines, n) -> Unsettled("DUPLICATE_TRANSACTION")
            [] ~Repeated(lines, n) /\ (item = None \/ item.id \in known) ->
                Unsettled("MANUAL_REVIEW")
            [] OTHER -> Settled(item, t)
    BY <1>1, <1>2, Zenon DEF Reconcile
<1>4. \A status : Unsettled(status).payment = None
    BY DEF Unsettled
<1>5. ~ Repeated(lines, n) /\ ~(item = None \/ item.id \in known)
    BY <1>3, <1>4
<1> QED  BY <1>1, <1>2, <1>3, <1>5

LEMMA ReconcileKeeps == ASSUME PaymentInv, ReconcileStatement PROVE PaymentInv'
<1>1. PICK items : items = {LastVersion(r) : r \in {q \in Restaurants : Entries(q) # {}}}
    OBVIOUS
<1>2. PICK lines \in Statements : \E results :
          /\ results = Reconcile(items, lines)
          /\ statement' = [items |-> items, lines |-> lines, results |-> results]
    BY <1>1 DEF ReconcileStatement
<1>3. PICK results : /\ results = Reconcile(items, lines)
                     /\ statement' = [items |-> items, lines |-> lines, results |-> results]
    BY <1>2
<1>4. /\ \A i \in items : i.net \in Int
      /\ \A i, j \in items : i.id = j.id => i = j
    <2>1. \A i \in items : \E r : /\ i = LastVersion(r) /\ i.id = r
                                  /\ \E n \in DOMAIN history : i = history[n]
        BY <1>1, LastVersionIsAnEntry DEF PaymentInv
    <2>2. \A i \in items : IsPayment(i)
        BY <2>1 DEF PaymentInv
    <2> QED  BY <2>1, <2>2 DEF IsPayment
<1>5. /\ DOMAIN lines = 1 .. Len(lines) /\ DOMAIN results = DOMAIN lines
      /\ \A n \in DOMAIN lines : lines[n].amount \in Int
    BY <1>3, PaymentAssumption DEF Reconcile
<1>6. PICK settled : settled = {k \in DOMAIN results : results[k].payment # None}
    OBVIOUS
<1>7. ASSUME NEW k \in settled
      PROVE  /\ ~ Repeated(lines, k) /\ Named(items, lines[k]) # None
             /\ Named(items, lines[k]).id \notin Matched(items, lines, k)
             /\ results[k] = Settled(Named(items, lines[k]), lines[k])
             /\ Named(items, lines[k]) \in items
             /\ k \in DOMAIN lines /\ results[k].payment = Named(items, lines[k]).id
    <2>1. k \in DOMAIN lines /\ Reconcile(items, lines)[k].payment # None
        BY <1>3, <1>5, <1>6
    <2>2. /\ ~ Repeated(lines, k) /\ Named(items, lines[k]) # None
          /\ Named(items, lines[k]).id \notin Matched(items, lines, k)
          /\ results[k] = Settled(Named(items, lines[k]), lines[k])
        BY <1>3, <2>1, LineSettles
    <2>3. Named(items, lines[k]) \in items
        BY <2>2, NamedIsAnItem
    <2>4. results[k].payment = Named(items, lines[k]).id
        BY <2>2 DEF Settled
    <2> QED  BY <2>1, <2>2, <2>3, <2>4
<1>8. ASSUME NEW j \in settled, NEW k \in settled, j < k
      PROVE  results[j].payment # results[k].payment /\ lines[j].bank # lines[k].bank
    <2>1. j \in 1 .. k - 1
        BY <1>5, <1>7, <1>8
    <2>2. lines[j].bank # lines[k].bank
        BY <1>7, <2>1 DEF Repeated
    <2>3. Named(items, lines[j]).id \in Matched(items, lines, k)
        BY <1>7, <2>1 DEF Matched
    <2> QED  BY <1>7, <2>2, <2>3
<1>9. \A j, k \in settled : j # k =>
          results[j].payment # results[k].payment /\ lines[j].bank # lines[k].bank
    <2>1. \A j, k \in settled : j # k => j < k \/ k < j
        BY <1>5, <1>7
    <2> QED  BY <1>8, <2>1
<1>10. ASSUME NEW k \in settled, NEW i \in items, i.id = results[k].payment
      PROVE  /\ (\E q \in items : q.id = lines[k].internal) => lines[k].internal = i.id
             /\ LeavesWhatIsMissing(results[k], i, lines[k])
    <2>1. i = Named(items, lines[k])
        BY <1>4, <1>7, <1>10
    <2>2. (\E q \in items : q.id = lines[k].internal) => lines[k].internal = i.id
        BY <1>7, <2>1, NamedIsAnItem
    <2>3. i.net \in Int /\ lines[k].amount \in Int /\ results[k] = Settled(i, lines[k])
        BY <1>4, <1>5, <1>7, <2>1
    <2> QED  BY <2>2, <2>3, SettledIsRight
<1>11. ReconciliationIsSound'
    <2>1. PICK s : s = statement'
        OBVIOUS
    <2>2. s.items = items /\ s.lines = lines /\ s.results = results
        BY <1>3, <2>1
    <2> QED  BY <1>5, <1>6, <1>9, <1>10, <2>1, <2>2 DEF ReconciliationIsSound
<1>12. UNCHANGED <<history, batch, held>>
    BY DEF ReconcileStatement
<1>13. \A b : b = batch' => BatchOK(b)
    BY <1>12 DEF PaymentInv
<1> QED  BY <1>11, <1>12, <1>13, SameHistory

----------------------------------------------------------------------------
LEMMA PaymentsBegin == ReviewInit => PaymentInv
<1> SUFFICES ASSUME ReviewInit PROVE PaymentInv
    OBVIOUS
<1>1. /\ batch = None /\ held = [o \in Officers |-> None] /\ history = <<>> /\ statement = None
    BY DEF ReviewInit, Init
<1>2. IsList(<<>>) /\ DOMAIN <<>> = {}
    BY DEF IsList
<1>3. ReconciliationIsSound
    BY <1>1 DEF ReconciliationIsSound
<1> QED  BY <1>1, <1>2, <1>3 DEF PaymentInv, BatchOK

LEMMA PaymentsStay ==
    ASSUME PaymentInv, UNCHANGED <<batch, held, history, statement>>
    PROVE  PaymentInv'
<1>1. (\A b : b = batch' => BatchOK(b)) /\ ReconciliationIsSound'
    BY DEF PaymentInv, ReconciliationIsSound
<1> QED  BY <1>1, SameHistory

LEMMA BatchKeeps ==
    ASSUME PaymentInv, TypeInv, MakeBatch \/ ValidateBatch
    PROVE  PaymentInv'
<1>1. UNCHANGED <<held, history, statement>>
    BY DEF MakeBatch, ValidateBatch
<1>2. BatchOK(batch')
    BY PreviewIsOK, ValidatedIsOK
<1>3. (\A b : b = batch' => BatchOK(b)) /\ ReconciliationIsSound'
    BY <1>1, <1>2 DEF PaymentInv, ReconciliationIsSound
<1> QED  BY <1>1, <1>3, SameHistory

LEMMA StepKeepsPayments ==
    BillingInv /\ PaymentInv /\ [ReviewNext]_<<vars, reviewVars>> => PaymentInv'
<1> SUFFICES ASSUME BillingInv, PaymentInv, [ReviewNext]_<<vars, reviewVars>> PROVE PaymentInv'
    OBVIOUS
<1>1. CASE UNCHANGED <<batch, held, history, statement>>
    BY <1>1, PaymentsStay
<1>2. CASE MakeBatch \/ ValidateBatch
    BY <1>2, BatchKeeps DEF BillingInv
<1>3. CASE StoreItem \/ ReconcileStatement
    BY <1>3, StoreItemKeeps, ReconcileKeeps
<1>4. ASSUME NEW o \in Officers, TakePayment(o) \/ AppendTransition(o) PROVE PaymentInv'
    BY <1>4, TakeKeeps, TransitionKeeps
<1>5. CASE ~ UNCHANGED <<batch, held, history, statement>>
    <2>1. MakeBatch \/ ValidateBatch \/ StoreItem \/ ReconcileStatement
          \/ \E o \in Officers : TakePayment(o) \/ AppendTransition(o)
        BY <1>5, Zenon DEF ReviewNext, Next, vars, reviewVars, paymentVars, RegistryChanges,
            RefreshSources, IssuesChange, ShowIssues, SaveStatus, TransitionIssue
    <2> QED  BY <1>2, <1>3, <1>4, <2>1
<1> QED  BY <1>1, <1>5

(* The history of a payment explains itself whoever wrote to it             *)
(* (payments/finance.py: PaymentStateMachine, PaymentRepository).           *)
THEOREM HistoriesExplainThemselves == ReviewSpec => []HistoryExplainsItself
<1>1. ReviewInit => BillingInv
    BY InitInv DEF ReviewInit, Init
<1>2. PaymentInv => HistoryExplainsItself
    BY DEF PaymentInv, IsPayment, Follows, HistoryExplainsItself
<1> QED  BY <1>1, <1>2, PaymentsBegin, StepKeepsBilling, StepKeepsPayments, PTL DEF ReviewSpec

(* A reconciliation settles no payment and counts no bank reference twice,  *)
(* honours the payment a line names, and leaves open exactly what the line  *)
(* misses of the amount, both in centimes                                   *)
(* (PaymentReconciliationService.reconcile), for every statement.           *)
THEOREM ReconciliationsAreSound == ReviewSpec => []ReconciliationIsSound
<1>1. ReviewInit => BillingInv
    BY InitInv DEF ReviewInit, Init
<1>2. PaymentInv => ReconciliationIsSound
    BY DEF PaymentInv
<1> QED  BY <1>1, <1>2, PaymentsBegin, StepKeepsBilling, StepKeepsPayments, PTL DEF ReviewSpec

(* A batch becomes VALIDATED only with the amounts, the accounts and the    *)
(* total that the records of that moment show (PaymentBatchService.validate *)
(* over records that may have changed since the preview).                   *)
THEOREM ValidationPaysWhatIsShown == ReviewSpec => ValidatedPaysWhatIsShown
<1> DEFINE Pays ==
        batch' # batch /\ batch' # None /\ batch'.status = "VALIDATED" =>
            /\ \A i \in batch'.items :
                /\ i.net > 0 /\ Net(evaluation, i.id) = i.net
                /\ registry[i.id].rib = i.rib /\ RibStatus(i.rib) = "VALID_FORMAT"
            /\ batch'.total = SumFunction([r \in {i.id : i \in batch'.items} |->
                                              Net(evaluation, r)])
<1>1. ReviewInit => BillingInv
    BY InitInv DEF ReviewInit, Init
<1>2. ASSUME BillingInv, PaymentInv, [ReviewNext]_<<vars, reviewVars>> PROVE Pays
    <2>1. batch' = batch \/ MakeBatch \/ ValidateBatch
        BY <1>2, Zenon DEF ReviewNext, Next, vars, reviewVars, paymentVars, RegistryChanges,
            RefreshSources, IssuesChange, ShowIssues, SaveStatus, TransitionIssue, StoreItem,
            ReconcileStatement, TakePayment, AppendTransition
    <2>2. CASE MakeBatch
        <3>1. batch'.status = "READY_FOR_REVIEW"
            BY <1>2, <2>2, PreviewIsOK DEF BillingInv
        <3> QED  BY <3>1
    <2>3. CASE ValidateBatch
        <3>1. batch'.status = "VALIDATED" => Shown(batch')
            BY <1>2, <2>3, ValidatedIsOK
        <3> QED  BY <3>1 DEF Shown, Ids
    <2> QED  BY <2>1, <2>2, <2>3
<1>3. BillingInv /\ PaymentInv /\ [ReviewNext]_<<vars, reviewVars>> => [Pays]_vars
    BY <1>2
<1>4. ReviewSpec => []BillingInv /\ []PaymentInv
    BY <1>1, PaymentsBegin, StepKeepsBilling, StepKeepsPayments, PTL DEF ReviewSpec
<1>5. ReviewSpec => [][Pays]_vars
    BY <1>3, <1>4, PTL DEF ReviewSpec
<1> QED  BY <1>5, PTL DEF ValidatedPaysWhatIsShown

----------------------------------------------------------------------------
(***************************************************************************)
(* The Review Center.  The type and the text of an issue fix its severity; *)
(* an event keeps the identity of the issue it was for; an issue on a page *)
(* has left OPEN by an event of its identity; and events only grow.        *)
(***************************************************************************)
Severity(type, text) ==
    IF \/ type = "MANUAL_REVIEW"
       \/ type = "LEGAL_MASTER_ISSUE" /\ text \notin {<<"DUPLICATE_ID">>, <<"CONFLICT">>}
    THEN "WARNING" ELSE "CRITICAL"

IsIssue(i) == i.severity = Severity(i.type, i.text)

Decided(i) == \E n \in DOMAIN reviewEvents : reviewEvents[n].id = IssueId(i)

ScreenOK(x) ==
    /\ DOMAIN x = {"step", "items", "choice", "status"}
    /\ \A i \in x.items : IsIssue(i.issue) /\ (i.status # "OPEN" => Decided(i.issue))
    /\ x.step = "saving" => IsIssue(x.choice)

ReviewInv ==
    /\ IsList(reviewEvents)
    /\ \A n \in DOMAIN reviewEvents : \A e : e = reviewEvents[n] =>
        e.id = IssueId(e.seen) /\ IsIssue(e.seen)
    /\ DOMAIN screen = Reviewers /\ screen = [s \in Reviewers |-> screen[s]]
    /\ \A s \in Reviewers : \A x : x = screen[s] => ScreenOK(x)

LEMMA IssueFields ==
    ASSUME NEW restaurant, NEW name, NEW type, NEW severity, NEW text,
           severity = Severity(type, text)
    PROVE  IsIssue(Issue(restaurant, name, type, severity, text))
BY DEF IsIssue, Issue

LEMMA ItemsAreIssues ==
    ASSUME IsList(reviewEvents), NEW w, NEW failed, NEW i \in BuildItems(w, failed)
    PROVE  IsIssue(i.issue) /\ (i.status # "OPEN" => Decided(i.issue))
<1>1. PICK issue : /\ issue \in ManualReviewIssues(w) \cup CommissionIssues(w)
                                \cup InvalidFinancialIssues(w) \cup IdentityIssues(w)
                                \cup LegalIssues(w) \cup PublicationIssues(failed)
                   /\ i = [issue |-> issue, status |-> StatusFor(IssueId(issue))]
    BY DEF BuildItems
<1>2. IsIssue(issue)
    <2>1. CASE issue \in ManualReviewIssues(w)
        BY <2>1, IssueFields DEF ManualReviewIssues, Severity
    <2>2. CASE issue \in CommissionIssues(w)
        BY <2>2, IssueFields DEF CommissionIssues, Severity
    <2>3. CASE issue \in InvalidFinancialIssues(w)
        BY <2>3, IssueFields DEF InvalidFinancialIssues, Severity
    <2>4. CASE issue \in IdentityIssues(w)
        BY <2>4, IssueFields DEF IdentityIssues, Severity
    <2>5. CASE issue \in LegalIssues(w)
        BY <2>5, IssueFields DEF LegalIssues, Severity
    <2>6. CASE issue \in PublicationIssues(failed)
        BY <2>6, IssueFields DEF PublicationIssues, Severity
    <2> QED  BY <1>1, <2>1, <2>2, <2>3, <2>4, <2>5, <2>6
<1>3. ASSUME StatusFor(IssueId(issue)) # "OPEN" PROVE Decided(issue)
    <2>1. {n \in DOMAIN reviewEvents : reviewEvents[n].id = IssueId(issue)} # {}
        BY <1>3 DEF StatusFor
    <2> QED  BY <2>1 DEF Decided
<1>4. i.issue = issue /\ i.status = StatusFor(IssueId(issue))
    BY <1>1
<1> QED  BY <1>2, <1>3, <1>4

\* one page changes; the events stay, or get one more
LEMMA ReviewStep ==
    ASSUME ReviewInv,
           \/ UNCHANGED reviewEvents
           \/ \E e : /\ reviewEvents' = Append(reviewEvents, e)
                     /\ e.id = IssueId(e.seen) /\ IsIssue(e.seen),
           screen' = screen \/ \E s \in Reviewers : \E x :
               screen' = [screen EXCEPT ![s] = x] /\ ScreenOK(x)
    PROVE  ReviewInv'
<1>1. /\ IsList(reviewEvents')
      /\ \A n \in DOMAIN reviewEvents : n \in DOMAIN reviewEvents' /\ reviewEvents'[n] = reviewEvents[n]
      /\ \A n \in DOMAIN reviewEvents' : \A e : e = reviewEvents'[n] =>
             e.id = IssueId(e.seen) /\ IsIssue(e.seen)
    <2>1. CASE UNCHANGED reviewEvents
        BY <2>1 DEF ReviewInv
    <2>2. CASE ~ UNCHANGED reviewEvents
        <3>1. PICK e : /\ reviewEvents' = Append(reviewEvents, e)
                       /\ e.id = IssueId(e.seen) /\ IsIssue(e.seen)
            BY <2>2
        <3>2. /\ IsList(reviewEvents') /\ DOMAIN reviewEvents = 1 .. Len(reviewEvents)
              /\ Len(reviewEvents) \in Nat /\ DOMAIN reviewEvents' = 1 .. Len(reviewEvents) + 1
              /\ \A n \in DOMAIN reviewEvents : reviewEvents'[n] = reviewEvents[n]
              /\ reviewEvents'[Len(reviewEvents) + 1] = e
            BY <3>1, ListGrows DEF ReviewInv
        <3>3. \A n \in DOMAIN reviewEvents' : n \in DOMAIN reviewEvents \/ n = Len(reviewEvents) + 1
            BY <3>2
        <3>4. \A n \in DOMAIN reviewEvents' : \A f : f = reviewEvents'[n] =>
                  f.id = IssueId(f.seen) /\ IsIssue(f.seen)
            <4> SUFFICES ASSUME NEW n \in DOMAIN reviewEvents', NEW f, f = reviewEvents'[n]
                         PROVE  f.id = IssueId(f.seen) /\ IsIssue(f.seen)
                OBVIOUS
            <4>1. CASE n \in DOMAIN reviewEvents
                BY <3>2, <4>1 DEF ReviewInv
            <4>2. CASE n \notin DOMAIN reviewEvents
                <5>1. f = e
                    BY <3>2, <3>3, <4>2
                <5> QED  BY <3>1, <5>1
            <4> QED  BY <4>1, <4>2
        <3> QED  BY <3>2, <3>4
    <2> QED  BY <2>1, <2>2
<1>2. ASSUME NEW x, ScreenOK(x) PROVE ScreenOK(x)'
    <2>1. \A i : Decided(i) => Decided(i)'
        BY <1>1 DEF Decided
    <2> QED  BY <1>2, <2>1 DEF ScreenOK, IsIssue
<1>3. DOMAIN screen' = Reviewers /\ screen' = [s \in Reviewers |-> screen'[s]]
    BY DEF ReviewInv
<1>4. ASSUME NEW q \in Reviewers, NEW x, x = screen'[q] PROVE ScreenOK(x)'
    <2>1. CASE x = screen[q]
        BY <1>2, <2>1 DEF ReviewInv
    <2>2. CASE x # screen[q]
        <3>1. PICK s \in Reviewers : \E y : screen' = [screen EXCEPT ![s] = y] /\ ScreenOK(y)
            BY <1>4, <2>2
        <3>2. PICK y : screen' = [screen EXCEPT ![s] = y] /\ ScreenOK(y)
            BY <3>1
        <3>3. x = y
            BY <1>4, <2>2, <3>2 DEF ReviewInv
        <3> QED  BY <1>2, <3>2, <3>3
    <2> QED  BY <2>1, <2>2
<1>5. \A n \in DOMAIN reviewEvents' : \A e : e = reviewEvents'[n] =>
          e.id = IssueId(e.seen)' /\ IsIssue(e.seen)'
    BY <1>1 DEF IsIssue, IssueId
<1> QED  BY <1>1, <1>3, <1>4, <1>5 DEF ReviewInv

LEMMA ShowKeeps == ASSUME ReviewInv, NEW s \in Reviewers, ShowIssues(s) PROVE ReviewInv'
<1>1. PICK items : items = BuildItems(Loaded, failing)
    OBVIOUS
<1>2. PICK closed : closed = NoScreen
    OBVIOUS
<1>3. PICK x : x = [closed EXCEPT !.step = "shown", !.items = items]
    OBVIOUS
<1>4. \A i \in items : IsIssue(i.issue) /\ (i.status # "OPEN" => Decided(i.issue))
    BY <1>1, ItemsAreIssues DEF ReviewInv
<1>5. ScreenOK(x)
    <2>1. DOMAIN closed = {"step", "items", "choice", "status"}
        BY <1>2 DEF NoScreen
    <2>2. DOMAIN x = {"step", "items", "choice", "status"} /\ x.items = items /\ x.step = "shown"
        BY <1>3, <2>1
    <2> QED  BY <1>4, <2>2 DEF ScreenOK
<1>6. screen' = [screen EXCEPT ![s] = x] /\ UNCHANGED reviewEvents
    BY <1>1, <1>2, <1>3 DEF ShowIssues
<1> QED  BY <1>5, <1>6, ReviewStep

LEMMA SaveKeeps == ASSUME ReviewInv, NEW s \in Reviewers, SaveStatus(s) PROVE ReviewInv'
<1>1. PICK items, x : items = BuildItems(Loaded, failing) /\ x = screen[s]
    OBVIOUS
<1>2. ScreenOK(x) /\ x.step = "shown" /\ UNCHANGED reviewEvents
    BY <1>1 DEF ReviewInv, SaveStatus
<1>3. \A i \in items : IsIssue(i.issue) /\ (i.status # "OPEN" => Decided(i.issue))
    BY <1>1, ItemsAreIssues DEF ReviewInv
<1>4. DOMAIN x = {"step", "items", "choice", "status"}
    BY <1>2 DEF ScreenOK
<1>5. CASE items = x.items
    <2>1. PICK i \in items, status \in Decisions :
              screen' = [screen EXCEPT ![s] = [x EXCEPT !.step = "saving", !.choice = i.issue,
                                                        !.status = status]]
        BY <1>1, <1>5 DEF SaveStatus, ReviewInv
    <2>2. PICK y : y = [x EXCEPT !.step = "saving", !.choice = i.issue, !.status = status]
        OBVIOUS
    <2>3. DOMAIN y = DOMAIN x /\ y.items = x.items /\ y.step = "saving" /\ y.choice = i.issue
        BY <1>4, <2>2
    <2>4. ScreenOK(y)
        BY <1>2, <1>3, <2>3 DEF ScreenOK
    <2> QED  BY <1>2, <2>1, <2>2, <2>4, ReviewStep
<1>6. CASE items # x.items
    <2>1. PICK y : y = [x EXCEPT !.items = items]
        OBVIOUS
    <2>2. DOMAIN y = DOMAIN x /\ y.items = items /\ y.step = "shown"
        BY <1>2, <1>4, <2>1
    <2>3. ScreenOK(y)
        BY <1>3, <1>4, <2>2 DEF ScreenOK
    <2>4. screen' = [screen EXCEPT ![s] = y]
        BY <1>1, <1>6, <2>1 DEF SaveStatus, ReviewInv
    <2> QED  BY <1>2, <2>3, <2>4, ReviewStep
<1> QED  BY <1>5, <1>6

LEMMA DecideKeeps == ASSUME ReviewInv, NEW s \in Reviewers, TransitionIssue(s) PROVE ReviewInv'
<1>1. PICK x : x = screen[s]
    OBVIOUS
<1>2. IsIssue(x.choice)
    BY <1>1 DEF ReviewInv, ScreenOK, TransitionIssue
<1>3. PICK e : e = [id |-> IssueId(x.choice), status |-> x.status, seen |-> x.choice]
    OBVIOUS
<1>4. e.id = IssueId(e.seen) /\ IsIssue(e.seen)
    BY <1>2, <1>3
<1>5. reviewEvents' = Append(reviewEvents, e)
    BY <1>1, <1>3 DEF TransitionIssue
<1>6. screen' = [screen EXCEPT ![s] = NoScreen] /\ ScreenOK(NoScreen)
    BY DEF TransitionIssue, ScreenOK, NoScreen
<1> QED  BY <1>4, <1>5, <1>6, ReviewStep

(* An issue of a restaurant that a page does not show as OPEN was seen by a *)
(* reviewer who decided it: of that restaurant, of that type, severity and  *)
(* text (operations/review.py), whatever workspaces the sources give.       *)
THEOREM DecisionsWereMade == ReviewSpec => []DecidedIssuesWereSeen
<1>1. ReviewInit => ReviewInv
    <2> SUFFICES ASSUME ReviewInit PROVE ReviewInv
        OBVIOUS
    <2>1. reviewEvents = <<>> /\ screen = [s \in Reviewers |-> NoScreen]
        BY DEF ReviewInit
    <2>2. IsList(<<>>) /\ DOMAIN <<>> = {} /\ ScreenOK(NoScreen)
        BY DEF IsList, ScreenOK, NoScreen
    <2> QED  BY <2>1, <2>2 DEF ReviewInv
<1>2. ReviewInv /\ [ReviewNext]_<<vars, reviewVars>> => ReviewInv'
    <2> SUFFICES ASSUME ReviewInv, [ReviewNext]_<<vars, reviewVars>> PROVE ReviewInv'
        OBVIOUS
    <2>1. CASE UNCHANGED <<reviewEvents, screen>>
        BY <2>1, ReviewStep
    <2>2. CASE ~ UNCHANGED <<reviewEvents, screen>>
        <3>1. \E s \in Reviewers : ShowIssues(s) \/ SaveStatus(s) \/ TransitionIssue(s)
            BY <2>2, Zenon DEF ReviewNext, reviewVars, RefreshSources, IssuesChange
        <3> QED  BY <3>1, ShowKeeps, SaveKeeps, DecideKeeps
    <2> QED  BY <2>1, <2>2
<1>3. ASSUME ReviewInv PROVE DecidedIssuesWereSeen
    <2> SUFFICES ASSUME NEW s \in Reviewers, NEW i \in screen[s].items, i.status # "OPEN"
                 PROVE  \E n \in DOMAIN reviewEvents :
                            /\ reviewEvents[n].seen.restaurant = i.issue.restaurant
                            /\ reviewEvents[n].seen.type = i.issue.type
                            /\ reviewEvents[n].seen.text = i.issue.text
                            /\ reviewEvents[n].seen.severity = i.issue.severity
        BY DEF DecidedIssuesWereSeen
    <2>1. IsIssue(i.issue) /\ Decided(i.issue)
        BY <1>3 DEF ReviewInv, ScreenOK
    <2>2. PICK n \in DOMAIN reviewEvents : reviewEvents[n].id = IssueId(i.issue)
        BY <2>1 DEF Decided
    <2>3. PICK seen : seen = reviewEvents[n].seen
        OBVIOUS
    <2>4. IssueId(seen) = IssueId(i.issue) /\ IsIssue(seen)
        BY <1>3, <2>2, <2>3 DEF ReviewInv
    <2>5. /\ seen.restaurant = i.issue.restaurant /\ seen.type = i.issue.type
          /\ seen.text = i.issue.text
        BY <2>4 DEF IssueId
    <2>6. seen.severity = i.issue.severity
        BY <2>1, <2>4, <2>5 DEF IsIssue
    <2> QED  BY <2>3, <2>5, <2>6
<1> QED  BY <1>1, <1>2, <1>3, PTL DEF ReviewSpec

=============================================================================
