-------------------------- MODULE ConflictDiagnostics --------------------------
(***************************************************************************)
(* The diagnosis of orders that occur in several versions: which fields    *)
(* really differ, in which weeks, and which conflicts might be resolved    *)
(* without a reviewer.  Nothing is resolved here.                          *)
(*                                                                         *)
(* A conflict is [fields, occurrences]: the set of the fields the exact    *)
(* comparison found to differ, and for each occurrence where it was read   *)
(* [modified, year, week, row] with its value for each of those fields.  A *)
(* value is Null or <<normal form, written form>>; of a money field it is  *)
(* <<thousandths>>.                                                        *)
(***************************************************************************)
EXTENDS Sequences, FiniteSetsExt, Functions, Integers

CONSTANT Null

\* Two weeks are compared across years by this many weeks to a year.
WeeksPerYear == 53

Operational == {"operational_status", "cancellation_reason"}
Money == {"gross_amount", "discount"}
Financial == Money \cup {"currency"}
Identity == {"restaurant_id", "restaurant_name", "order_id"}
Technical == {"source_week", "source_filename"}
Texts == Operational \cup {"restaurant_name", "currency"}

Tolerance == 5

Semantic(field, value) ==
    IF field \in Texts /\ value # Null THEN <<value[1]>> ELSE value

ValueOf(occurrence, field) == Semantic(field, occurrence.values[field])

\* The fields that still differ once written forms are put aside.
EffectiveFields(conflict) ==
    {f \in conflict.fields : \E i, j \in DOMAIN conflict.occurrences :
        ValueOf(conflict.occurrences[i], f) # ValueOf(conflict.occurrences[j], f)}

\* The fields the categories are decided on.
MaterialFields(conflict) == EffectiveFields(conflict) \ Technical

Groups(fields) ==
    (IF fields \cap Operational # {} THEN {"OPERATIONAL"} ELSE {})
    \cup (IF fields \cap Financial # {} THEN {"FINANCIAL"} ELSE {})
    \cup (IF fields \cap Identity # {} THEN {"IDENTITY"} ELSE {})

\* The order of the versions: when their files were modified, then week and
\* row.  The year of a week plays no part.
Before(a, b) ==
    \/ a.modified < b.modified
    \/ a.modified = b.modified /\ a.week < b.week
    \/ a.modified = b.modified /\ a.week = b.week /\ a.row < b.row

\* Versions read from one place keep the order of the list.
Follows(conflict, j, i) ==
    LET a == conflict.occurrences[i]
        b == conflict.occurrences[j]
    IN  Before(a, b) \/ (~Before(b, a) /\ i < j)

First(conflict) ==
    conflict.occurrences[CHOOSE i \in DOMAIN conflict.occurrences :
        \A j \in DOMAIN conflict.occurrences \ {i} : Follows(conflict, j, i)]

Latest(conflict) ==
    conflict.occurrences[CHOOSE i \in DOMAIN conflict.occurrences :
        \A j \in DOMAIN conflict.occurrences \ {i} : Follows(conflict, i, j)]

WeekDistance(first, last) ==
    IF first[1] = last[1] THEN last[2] - first[2]
    ELSE WeeksPerYear * (last[1] - first[1]) + last[2] - first[2]

EarlierWeek(a, b) == a[1] < b[1] \/ (a[1] = b[1] /\ a[2] < b[2])

Weeks(occurrences) ==
    {<<occurrences[i].year, occurrences[i].week>> : i \in DOMAIN occurrences}

WeekSpan(occurrences) ==
    LET weeks == Weeks(occurrences)
        first == CHOOSE w \in weeks : \A v \in weeks \ {w} : EarlierWeek(w, v)
        last == CHOOSE w \in weeks : \A v \in weeks \ {w} : EarlierWeek(v, w)
    IN  WeekDistance(first, last)

StatusTransition(conflict) ==
    /\ "operational_status" \in MaterialFields(conflict)
    /\ ValueOf(First(conflict), "operational_status")
          # ValueOf(Latest(conflict), "operational_status")

\* Mutant: a reason that changes or goes away counts as added.
AnyReasonChange(conflict) == MaterialFields(conflict) = {"cancellation_reason"}

\* Only the cancellation reason differs, the first version has none and the
\* last one has one.
CancellationEnrichment(conflict) ==
    /\ MaterialFields(conflict) = {"cancellation_reason"}
    /\ ValueOf(First(conflict), "cancellation_reason") = Null
    /\ ValueOf(Latest(conflict), "cancellation_reason") # Null

\* The amounts of a money field, of the versions that have one.
Amounts(conflict, field) ==
    LET value(i) == conflict.occurrences[i].values[field]
        present == {i \in DOMAIN conflict.occurrences : value(i) # Null}
    IN  [set |-> {value(i)[1] : i \in present}, count |-> Cardinality(present)]

Spread(amounts) == Max(amounts.set) - Min(amounts.set)

NegligibleFinancial(conflict) ==
    LET fields == MaterialFields(conflict)
    IN  /\ fields # {}
        /\ fields \subseteq Money
        /\ \A f \in fields :
              LET amounts == Amounts(conflict, f)
              IN  /\ amounts.count = Len(conflict.occurrences)
                  /\ amounts.count >= 2
                  /\ Spread(amounts) <= Tolerance

Lifecycle(conflict) ==
    /\ Groups(MaterialFields(conflict)) = {"OPERATIONAL"}
    /\ StatusTransition(conflict) \/ CancellationEnrichment(conflict)

AutoResolvable(conflict) ==
    \/ MaterialFields(conflict) = {}
    \/ CancellationEnrichment(conflict)
    \/ NegligibleFinancial(conflict)

\* Mutant: an added reason is filed with the lifecycle updates.
CategoryWithoutEnrichment(conflict) ==
    LET fields == MaterialFields(conflict)
    IN  CASE fields = {} \/ NegligibleFinancial(conflict) -> "AUTO_RESOLVABLE"
          [] Lifecycle(conflict) -> "LIKELY_LIFECYCLE_UPDATE"
          [] OTHER -> "NEEDS_REVIEW"

Category(conflict) ==
    LET fields == MaterialFields(conflict)
    IN  IF fields = {} \/ NegligibleFinancial(conflict) THEN "AUTO_RESOLVABLE"
        ELSE IF fields \cap Identity # {} THEN "IDENTITY_CONFLICT"
        ELSE IF fields \cap Financial # {} THEN "FINANCIAL_CONFLICT"
        ELSE IF Lifecycle(conflict)
             THEN IF CancellationEnrichment(conflict) THEN "AUTO_RESOLVABLE"
                  ELSE "LIKELY_LIFECYCLE_UPDATE"
        ELSE IF Groups(fields) = {"OPERATIONAL"} THEN "NEEDS_REVIEW"
        ELSE "SOURCE_DATA_ERROR"

Band(difference) ==
    CASE difference = 0 -> "0"
      [] difference \in 1 .. 1000 -> "UP_TO_1"
      [] difference \in 1001 .. 10000 -> "UP_TO_10"
      [] difference \in 10001 .. 100000 -> "UP_TO_100"
      [] OTHER -> "OVER_100"

\* What is measured of the money fields that differ.
Differences(conflict) ==
    {<<f, Band(Spread(Amounts(conflict, f)))>> :
        f \in {g \in MaterialFields(conflict) \cap Money :
                  Amounts(conflict, g).count >= 2}}

Count(conflicts, Test(_)) == Cardinality({i \in DOMAIN conflicts : Test(conflicts[i])})

----------------------------------------------------------------------------

\* How the exports overlap, from the weeks of every duplicate, alike or not.
Chronology(duplicates) ==
    [same |-> Count(duplicates, LAMBDA d : WeekSpan(d) = 0),
     adjacent |-> Count(duplicates, LAMBDA d : WeekSpan(d) = 1),
     separated |-> Count(duplicates, LAMBDA d : WeekSpan(d) \notin {0, 1})]

Behaviour(c) ==
    LET total == c.same + c.adjacent + c.separated
    IN  IF total = 0 THEN "INDEPENDENT"
        ELSE IF 5 * c.same >= total /\ 5 * (c.adjacent + c.separated) >= total THEN "MIXED"
        ELSE IF 2 * c.separated >= total THEN "CUMULATIVE"
        ELSE IF 2 * c.adjacent >= total THEN "ROLLING"
        ELSE "INDEPENDENT"

\* The restaurants conflicting orders were seen with, in any source file, and
\* how many of their orders conflict.  An observation is <<order, restaurant>>.
RestaurantImpact(conflicts, observations) ==
    LET ids == {conflicts[i].order : i \in DOMAIN conflicts}
        seen(r) == {o[1] : o \in {x \in observations : x[2] = r}}
        affected == {o[2] : o \in {x \in observations : x[1] \in ids}}
    IN  [r \in affected |-> [conflicting |-> Cardinality(seen(r) \cap ids),
                             observed |-> Cardinality(seen(r))]]

PotentiallySafe(issue) ==
    /\ issue.pattern \in {"CURRENCY_FORMATTED", "NUMERIC_FORMAT", "SCIENTIFIC_NOTATION",
                          "UNEXPECTED_SYMBOL"}
    /\ issue.number

InvalidFinancial(issues) ==
    LET invalid == SelectSeq(issues, LAMBDA i : i.category = "INVALID_FINANCIAL_VALUE")
        safe == SelectSeq(invalid, PotentiallySafe)
    IN  [total |-> Len(invalid), safe |-> Len(safe), unsafe |-> Len(invalid) - Len(safe)]

Analyze(conflicts, duplicates, issues, observations) ==
    LET auto == Count(conflicts, AutoResolvable)
        groups(c) == Groups(MaterialFields(c))
    IN  [total |-> Len(conflicts),
         operationalOnly |-> Count(conflicts, LAMBDA c : groups(c) = {"OPERATIONAL"}),
         financial |-> Count(conflicts, LAMBDA c : "FINANCIAL" \in groups(c)),
         identity |-> Count(conflicts, LAMBDA c : "IDENTITY" \in groups(c)),
         mixed |-> Count(conflicts, LAMBDA c : Cardinality(groups(c)) > 1),
         formattingOnly |-> Count(conflicts, LAMBDA c : EffectiveFields(c) = {}),
         lineage |-> Count(conflicts, LAMBDA c : EffectiveFields(c) \cap Technical # {}),
         lifecycle |-> Count(conflicts, Lifecycle),
         auto |-> auto,
         manual |-> Len(conflicts) - auto,
         sameWeek |-> Count(conflicts, LAMBDA c : WeekSpan(c.occurrences) = 0),
         adjacentWeek |-> Count(conflicts, LAMBDA c : WeekSpan(c.occurrences) = 1),
         separatedWeek |-> Count(conflicts, LAMBDA c : WeekSpan(c.occurrences) >= 2),
         categories |-> [i \in DOMAIN conflicts |-> Category(conflicts[i])],
         differences |-> UNION {Differences(conflicts[i]) : i \in DOMAIN conflicts},
         behaviour |-> Behaviour(Chronology(duplicates)),
         impact |-> RestaurantImpact(conflicts, observations),
         invalid |-> InvalidFinancial(issues)]

\* The files whose ids can be read, for the restaurants of the orders.  A
\* source is [order, restaurant, rows]: how many headings name each id.
Observations(sources) ==
    UNION {Range(sources[i].rows) : i \in
              {j \in DOMAIN sources : sources[j].order = 1 /\ sources[j].restaurant = 1}}

\* A conflicting order must not also be a canonical one.
ContradictsCanonical(conflicts, canonical) ==
    \E i \in DOMAIN conflicts : conflicts[i].order \in canonical

Diagnosis(conflicts, duplicates, issues, sources, canonical) ==
    [kind |-> "diagnosis", conflicts |-> conflicts,
     refused |-> ContradictsCanonical(conflicts, canonical),
     result |-> IF ContradictsCanonical(conflicts, canonical) THEN Null
                ELSE Analyze(conflicts, duplicates, issues, Observations(sources))]

=============================================================================
