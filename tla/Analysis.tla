------------------------------- MODULE Analysis --------------------------------
(***************************************************************************)
(* The three parts of the program that answer a question and change        *)
(* nothing but a local registry: the eligibility of orders, the diagnosis  *)
(* of conflicting duplicates on the Settings page, and the certification   *)
(* of the calculation policy.  One request after another is answered; an   *)
(* answer stands, with the inputs it was computed from, until its caller   *)
(* is done with it.                                                        *)
(***************************************************************************)
EXTENDS LegacySources, ConflictDiagnostics, LegacyFormula

CONSTANTS AdminTables,      \* sequences of Admin Earnings tables, oldest first
          ScopeTables, RstTables, ColumnMaps, Periods,
          Conflicts,        \* sequences of conflicts
          Duplicates,       \* sequences of the occurrences of duplicated orders
          Issues, SourceFiles, CanonicalOrders,
          EvidenceSets, Histories, Cases

\* A parsed table is a data frame: its rows have its headings.
IsTable(table) ==
    \A i \in DOMAIN table.rows : DOMAIN table.rows[i] = Range(table.headings)

\* The week of an occurrence is the one in the name of its file, 1 to 53.
IsPlace(occurrence) ==
    /\ occurrence.modified \in Int /\ occurrence.year \in Nat
    /\ occurrence.week \in 1 .. 53 /\ occurrence.row \in Nat

IsConflict(conflict) ==
    /\ conflict.occurrences \in Seq(Range(conflict.occurrences)) /\ conflict.occurrences # <<>>
    /\ \A i \in DOMAIN conflict.occurrences :
          /\ IsPlace(conflict.occurrences[i])
          /\ \A f \in conflict.fields \cap Money :
                LET value == conflict.occurrences[i].values[f]
                IN  value # Null => value[1] \in Int /\ value = <<value[1]>>

\* A total, a rate and a settled figure are each a number, when there is one.
IsCase(case) ==
    /\ case.orders \in Seq(Range(case.orders))
    /\ \A j \in DOMAIN case.orders :
          LET total == case.orders[j].total
          IN  total \in {Missing, Invalid} \/ Normal(total)
    /\ case.sales = None \/ Normal(case.sales)
    /\ case.rate \in {Missing, Invalid} \cup Int
    /\ \A f \in ParityFields : case.expected[f] = None \/ Normal(case.expected[f])

ASSUME AnalysisAssumption ==
    /\ \A tables \in AdminTables : \A i \in DOMAIN tables : IsTable(tables[i])
    /\ \A table \in ScopeTables : IsTable(table)
    /\ \A conflicts \in Conflicts :
          /\ conflicts \in Seq(Range(conflicts))
          /\ \A i \in DOMAIN conflicts : IsConflict(conflicts[i])
    /\ None \notin Decimal
    /\ \A cases \in Histories :
          /\ cases \in Seq(Range(cases))
          /\ \A i \in DOMAIN cases : IsCase(cases[i])

analysisVars == <<snapshots, answer>>

Idle == answer.kind = "none"

AskEligibility ==
    /\ Idle
    /\ \E tables \in AdminTables, scope \in ScopeTables, map \in ColumnMaps, period \in Periods :
          RunEligibility(tables, scope, map, period)

AskWithoutSources ==
    /\ Idle
    /\ \E period \in Periods, issue \in {"DRIVE_NOT_CONNECTED", "SOURCE_DISCOVERY_FAILED",
                                         "PAYMENT_SCOPE_NOT_UNIQUE", "DRIVE_READ_FAILED"} :
          RefuseEligibility(period, issue)

AskEnrichment == \E table \in RstTables, map \in ColumnMaps : Enrich(table, map)

AskDiagnosis ==
    /\ Idle
    /\ \E conflicts \in Conflicts, duplicates \in Duplicates :
          answer' = Diagnosis(conflicts, duplicates, Issues, SourceFiles, CanonicalOrders)
    /\ UNCHANGED snapshots

AskCertification ==
    /\ Idle
    /\ \E evidence \in EvidenceSets, cases \in Histories, version \in {PolicyVersion, None},
          implemented, required \in BOOLEAN, difference \in {Zero, Dec(1, -2)} :
          /\ \A i \in DOMAIN cases : Reconstructible(cases[i])
          /\ answer' = Certification(evidence, cases, version, implemented, difference,
                                     required, Cases)
    /\ UNCHANGED snapshots

Done == ~Idle /\ answer' = [kind |-> "none"] /\ UNCHANGED snapshots

AnalysisNext ==
    \/ AskEligibility
    \/ AskWithoutSources
    \/ AskEnrichment
    \/ AskDiagnosis
    \/ AskCertification
    \/ Done

AnalysisSpec == LegacyInit /\ [][AnalysisNext]_analysisVars

----------------------------------------------------------------------------

(***************************************************************************)
(* The totals of a diagnosis agree with its categories, which another      *)
(* branch of analyze computes: as many potentially automatic conflicts as  *)
(* have that category, the others left to a reviewer, each in one week     *)
(* relation, and in the same week only when all its versions are.          *)
(***************************************************************************)
DiagnosisAddsUp ==
    answer.kind = "diagnosis" /\ ~answer.refused =>
       LET result == answer.result
           conflicts == answer.conflicts
           sameWeek == {i \in DOMAIN conflicts :
                          \A j, k \in DOMAIN conflicts[i].occurrences :
                             LET one == conflicts[i].occurrences[j]
                                 two == conflicts[i].occurrences[k]
                             IN  one.year = two.year /\ one.week = two.week}
       IN  /\ result.auto = Cardinality({i \in DOMAIN conflicts :
                                           result.categories[i] = "AUTO_RESOLVABLE"})
           /\ result.manual = Cardinality({i \in DOMAIN conflicts :
                                             result.categories[i] # "AUTO_RESOLVABLE"})
           /\ result.sameWeek + result.adjacentWeek + result.separatedWeek = result.total
           /\ result.sameWeek = Cardinality(sameWeek)

(***************************************************************************)
(* What README.md:296-301 leaves to a reviewer is never called potentially *)
(* resolvable: between any two versions of such a conflict there is no     *)
(* other restaurant, no other status and no amount further apart than the  *)
(* tolerance; and where their cancellation reasons differ, a first version *)
(* has none and a last one has one.  Two versions then lose no reason; of  *)
(* three, only the outer ones are compared (conflict_diagnostics.py:       *)
(* 233-236), and a reason given in between may be another one at the end.  *)
(***************************************************************************)
AutoResolvableIsHarmless ==
    answer.kind = "diagnosis" /\ ~answer.refused =>
       \A i \in DOMAIN answer.conflicts :
          answer.result.categories[i] = "AUTO_RESOLVABLE" =>
             LET conflict == answer.conflicts[i]
                 places == DOMAIN conflict.occurrences
                 version(j) == conflict.occurrences[j]
                 reason(j) == ValueOf(version(j), "cancellation_reason")
                 differs(j, k, f) ==
                    f \in conflict.fields /\ ValueOf(version(j), f) # ValueOf(version(k), f)
             IN  /\ \A j, k \in places :
                       /\ ~differs(j, k, "restaurant_id")
                       /\ ~differs(j, k, "operational_status")
                       /\ \A f \in Money : differs(j, k, f) =>
                             /\ version(j).values[f] # Null
                             /\ version(k).values[f] # Null
                             /\ version(j).values[f][1] - version(k).values[f][1]
                                   \in -Tolerance .. Tolerance
                 /\ (\E j, k \in places : differs(j, k, "cancellation_reason")) =>
                       \E first, last \in places :
                          /\ \A j \in places : /\ ~Before(version(j), version(first))
                                               /\ ~Before(version(last), version(j))
                          /\ reason(first) = Null /\ reason(last) # Null
                          /\ Len(conflict.occurrences) = 2 =>
                                \A j \in places : reason(j) \in {Null, reason(last)}

\* The orders of a case that were to be paid, and what they are worth.
PaidOf(orders) ==
    {j \in DOMAIN orders : /\ orders[j].eligible # FALSE
                           /\ orders[j].decision \in {"NONE", "PAY_PARTNER"}}

TotalOf(orders) ==
    MapThenFoldSet(LAMBDA amount, sum : Plus(sum, amount), Zero,
                   LAMBDA j : CleanCurrency(orders[j].total), Max, PaidOf(orders))

(***************************************************************************)
(* A certificate that demands the history stands for it: at least two      *)
(* cases were handed in (the same one twice counts, as in the code), and   *)
(* in each one every figure the period was settled with is what the chain  *)
(* of the settlement evaluation gives: the commission and the invoice on   *)
(* the sales written in its context, or else on its paid orders, and the   *)
(* net from its paid orders; and a certificate never covers a formula      *)
(* nobody approved (the reconstruction repeats the chain call by call, and *)
(* the branches of certify are ordered).                                   *)
(***************************************************************************)
CertificateStandsForHistory ==
    answer.kind = "certification" /\ answer.status = "CERTIFIED" =>
       /\ \A f \in RequiredFields : \E e \in answer.evidence : e.field = f /\ e.approved
       /\ answer.required =>
             /\ Len(answer.cases) >= 2
             /\ \A i \in DOMAIN answer.cases :
                   LET case == answer.cases[i]
                       total == TotalOf(case.orders)
                       chain == Certified(IF case.sales = None THEN total ELSE case.sales,
                                          LegacyRate(case.rate))
                   IN  /\ case.expected["commission_amount"] = chain.commission
                       /\ case.expected["invoice_ht"] = chain.commission
                       /\ case.expected["invoice_tva"] = chain.tva
                       /\ case.expected["invoice_ttc"] = chain.ttc
                       /\ case.expected["note_de_debours"] = Minus(total, chain.ttc)
                       /\ case.expected["final_net_payable"] = Minus(total, chain.ttc)

=============================================================================
