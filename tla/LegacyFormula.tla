----------------------------- MODULE LegacyFormula -----------------------------
(***************************************************************************)
(* The calculation policy taken over from the earlier program, its         *)
(* reconstruction from the orders of settled periods, and the certificate  *)
(* documents ask for.  An amount or rate as written is Missing, Invalid or *)
(* a number: a decimal for an amount, an integer as in FinancialRules for  *)
(* a rate.                                                                 *)
(***************************************************************************)
EXTENDS FinancialRules, SequencesExt

CONSTANTS Missing, Invalid,
          RequiredFields,   \* the formulas a certificate has to cover
          PolicyVersion

Zero == Dec(0, 0)

ParityFields == {"commission_amount", "invoice_ht", "invoice_tva", "invoice_ttc",
                 "note_de_debours", "final_net_payable"}

\* What cannot be read is taken for nothing, with a warning.
CleanCurrency(cell) == IF cell \in {Missing, Invalid} THEN Zero ELSE cell

\* There is no upper bound: 250 per cent is two and a half times the sales.
LegacyRate(cell) ==
    CASE cell \in {Missing, Invalid} -> 0
      [] cell \notin {Missing, Invalid} /\ cell > One -> cell \div 100
      [] OTHER -> cell

Calculate(itemTotal, rate) == Certified(CleanCurrency(itemTotal), LegacyRate(rate))

\* Amounts of the approved generator: <<item total, rate, expected chain>>.
MatchesAuthoritativeCases(cases) ==
    \A case \in cases :
       LET result == Calculate(case[1], case[2])
       IN  /\ result = case[3]
           /\ Minus(result.sales, Plus(result.net, result.ttc)) = Zero
           /\ result.ttc = Plus(result.commission, result.tva)
           /\ result.tva = Times(result.commission, Dec(20, -2))

\* Mutant: an order decided against is paid all the same.
EligibleWhateverDecided(order) ==
    IF order.eligible = FALSE THEN None ELSE CleanCurrency(order.total)

EligibleOrderAmount(order) ==
    IF order.eligible = FALSE \/ order.decision \notin {"NONE", "PAY_PARTNER"} THEN None
    ELSE CleanCurrency(order.total)

PartnerAmount(orders) ==
    FoldLeft(LAMBDA sum, order :
                IF EligibleOrderAmount(order) = None THEN sum
                ELSE Plus(sum, EligibleOrderAmount(order)), Zero, orders)

\* Sales given with the case come before what its orders are worth.
CommissionBase(sales, partnerAmount) ==
    DividedBy12(IF sales = None THEN partnerAmount ELSE sales)
CommissionAmount(base, rate) == Times(base, Dec(LegacyRate(rate), -4))
InvoiceTva(ht) == Times(ht, Dec(20, -2))
InvoiceTtc(ht, tva) == Plus(ht, tva)
NoteDeDebours(partnerAmount, ttc) == Minus(partnerAmount, ttc)

\* The chain of a settled period from its orders, policy call by policy call.
\* Of the settlement context the case brings, only "sales_ttc" is left to read:
\* what else the policy asks for is written over it on the way.
Reconstruct(orders, sales, rate) ==
    LET amount == PartnerAmount(orders)
        ht == CommissionAmount(CommissionBase(sales, amount), rate)
        tva == InvoiceTva(ht)
        ttc == InvoiceTtc(ht, tva)
    IN  [f \in ParityFields |->
            CASE f \in {"commission_amount", "invoice_ht"} -> ht
              [] f = "invoice_tva" -> tva
              [] f = "invoice_ttc" -> ttc
              [] OTHER -> NoteDeDebours(amount, ttc)]

Compare(expected, calculated) ==
    [f \in ParityFields |->
        IF expected[f] = None \/ calculated[f] = None THEN "NO_REFERENCE"
        ELSE IF Minus(calculated[f], expected[f]) = Zero THEN "MATCH" ELSE "MISMATCH"]

\* A case is [reconstructed, version, orders, sales, rate, expected, calculated],
\* its sales the "sales_ttc" of its context or None.  One given with its figures
\* is compared with them, not with its orders.
ParityOf(case) ==
    [reconstructed |-> case.reconstructed,
     fields |-> Compare(case.expected,
                        IF case.reconstructed
                        THEN Reconstruct(case.orders, case.sales, case.rate)
                        ELSE case.calculated)]

\* Reconstruction refuses another policy's case, and one without orders.
Reconstructible(case) ==
    case.reconstructed => case.version = PolicyVersion /\ case.orders # <<>>

Authoritative(evidence) ==
    {e.field : e \in {x \in evidence : /\ x.confidence = "AUTHORITATIVE"
                                       /\ x.formula
                                       /\ x.approved}}

With(parity, status) ==
    {i \in DOMAIN parity : \E f \in ParityFields : parity[i].fields[f] = status}

HistoryComplete(parity) ==
    /\ Len(parity) >= 2
    /\ \A i \in DOMAIN parity : parity[i].reconstructed
    /\ With(parity, "NO_REFERENCE") = {}

CertificationStatus(evidence, parity, version, implemented, validated, difference, required) ==
    IF Authoritative(evidence) = {} THEN "NOT_FOUND"
    ELSE IF required /\ With(parity, "MISMATCH") # {} THEN "PARITY_FAILED"
    ELSE IF ~(RequiredFields \subseteq Authoritative(evidence)) THEN "PARTIALLY_VALIDATED"
    ELSE IF ~implemented \/ version = None THEN "DISCOVERED"
    ELSE IF ~validated \/ difference # Zero THEN "PARITY_FAILED"
    ELSE IF required /\ ~HistoryComplete(parity) THEN "PARTIALLY_VALIDATED"
    ELSE "CERTIFIED"

\* All the evidence the registry holds: every field, approved.
Discover ==
    {[field |-> f, confidence |-> "AUTHORITATIVE", formula |-> TRUE, approved |-> TRUE] :
        f \in RequiredFields}

RegistryStatus(evidence, cases) ==
    CertificationStatus(evidence, <<>>, PolicyVersion, TRUE,
                        MatchesAuthoritativeCases(cases), Zero, FALSE)

\* An empty collection of evidence stands for none given: the registry's own
\* is taken instead.
ProductionReady(evidence, cases) ==
    RegistryStatus(IF evidence = {} THEN Discover ELSE evidence, cases) = "CERTIFIED"

\* What a certificate and the reconstruction make of the cases handed in.
Certification(evidence, cases, version, implemented, difference, required, authoritative) ==
    [kind |-> "certification", evidence |-> evidence, cases |-> cases, required |-> required,
     status |-> CertificationStatus(evidence, [i \in DOMAIN cases |-> ParityOf(cases[i])],
                   version, implemented, MatchesAuthoritativeCases(authoritative),
                   difference, required),
     ready |-> ProductionReady(evidence, authoritative)]

=============================================================================
