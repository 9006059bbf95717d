---------------------------- MODULE FinancialRules ----------------------------
(***************************************************************************)
(* The rules of a settlement evaluation: what an order's source status     *)
(* and cancellation reason decide, what a commission rate is worth, and    *)
(* the certified money chain.  Statuses and reasons are the classes the    *)
(* code's tables divide normalised texts into; a rate is an integer number *)
(* of hundredths of a per cent of one (10000 is 1, or 100 %).              *)
(***************************************************************************)
EXTENDS Decimals, FiniteSets

CONSTANT None

Statuses == {"NONE", "OTHER", "DELIVERED", "CANCELLED", "CANCELLED_BY_USER",
             "RESTAURANT_REJECTED"}
Reasons == {"NONE", "RESTAURANT", "CUSTOMER", "COURIER", "YASSIR", "FREE_TEXT"}
Decisions == {"PAY_PARTNER", "EXCLUDE", "YASSIR_COMPENSATION", "MANUAL_REVIEW"}

CancellationResponsibility(status, reason) ==
    CASE status = "RESTAURANT_REJECTED" -> "RESTAURANT"
      [] status = "CANCELLED_BY_USER" -> "CUSTOMER"
      [] status = "CANCELLED" /\ reason \in {"RESTAURANT", "CUSTOMER", "COURIER", "YASSIR"}
            -> reason
      [] OTHER -> "UNKNOWN"

Outcome(class, responsibility, decision, rule) ==
    [class |-> class, responsibility |-> responsibility,
     decision |-> decision, rule |-> rule]

Classify(status, reason) ==
    LET who == CancellationResponsibility(status, reason)
        cancelled(decision, rule) == Outcome("CANCELLED", who, decision, rule)
    IN  CASE status = "DELIVERED" ->
                Outcome("DELIVERED", "NOT_APPLICABLE", "PAY_PARTNER", "DELIVERED_ORDER")
          [] status = "NONE" ->
                Outcome("UNKNOWN", "NOT_APPLICABLE", "MANUAL_REVIEW", "UNKNOWN_ORDER_STATUS")
          [] status = "OTHER" ->
                Outcome("OTHER", "NOT_APPLICABLE", "MANUAL_REVIEW",
                        "UNCONFIGURED_OPERATIONAL_STATUS")
          [] who = "RESTAURANT" -> cancelled("EXCLUDE", "RESTAURANT_CANCELLATION")
          [] who = "YASSIR" ->
                cancelled("YASSIR_COMPENSATION", "YASSIR_PLATFORM_CANCELLATION")
          [] who = "CUSTOMER" ->
                cancelled("MANUAL_REVIEW", "CUSTOMER_CANCELLATION_REQUIRES_REVIEW")
          [] who = "COURIER" ->
                cancelled("MANUAL_REVIEW", "COURIER_CANCELLATION_REQUIRES_REVIEW")
          [] OTHER ->
                cancelled("MANUAL_REVIEW", "UNKNOWN_CANCELLATION_RESPONSIBILITY")

(***************************************************************************)
(* Commission.  A sheet holds 20, 0.2 or 24.5 for the same kind of thing:  *)
(* more than one is per cent, exactly one is the whole amount.             *)
(***************************************************************************)

One == 10000

NormalRate(raw) ==
    CASE raw = None -> [rate |-> None, issue |-> None]
      [] raw # None /\ (raw < 0 \/ raw > 100 * One) ->
            [rate |-> None, issue |-> "INVALID_INVOICE_SCOPE_COMMISSION"]
      [] OTHER -> [rate |-> IF raw > One THEN raw \div 100 ELSE raw, issue |-> None]

\* Invoice Scope alone has authority; the RST rate is only compared with it.
ResolveCommission(scope, rst) ==
    CASE scope # None /\ rst # None ->
            [status |-> IF scope = rst THEN "MATCH" ELSE "MISMATCH", effective |-> scope]
      [] scope # None /\ rst = None -> [status |-> "SCOPE_ONLY", effective |-> scope]
      [] scope = None /\ rst # None -> [status |-> "RST_ONLY", effective |-> None]
      [] OTHER -> [status |-> "MISSING", effective |-> None]

RateIssues(scopeRaw, rstRaw) ==
    LET scope == NormalRate(scopeRaw)
        rst == NormalRate(rstRaw)
    IN  (IF scope.issue # None THEN {scope.issue} ELSE {})
        \cup (IF rst.issue # None THEN {"INVALID_RST_COMMISSION_REFERENCE"} ELSE {})
        \cup (IF scope.rate = None THEN {"MISSING_INVOICE_SCOPE_COMMISSION"} ELSE {})
        \cup (IF ResolveCommission(scope.rate, rst.rate).status = "MISMATCH"
              THEN {"COMMISSION_MISMATCH"} ELSE {})

(***************************************************************************)
(* The chain of cashco_legacy_v1, each line one rounded operation.         *)
(***************************************************************************)

\* Mutant: the invoice total is rounded to whole units before the net is taken.
CertifiedRounded(salesTTC, rate) ==
    LET ht == DividedBy12(salesTTC)
        commission == Times(ht, Dec(rate, -4))
        tva == Times(commission, Dec(20, -2))
        ttc == Plus(commission, tva)
        shown == IF ttc.e < 0 THEN Dec(HalfEven(ttc.c, -ttc.e), 0) ELSE ttc
    IN  [sales |-> salesTTC, salesHT |-> ht, commission |-> commission,
         tva |-> tva, ttc |-> ttc, net |-> Minus(salesTTC, shown)]

Certified(salesTTC, rate) ==
    LET ht == DividedBy12(salesTTC)
        commission == Times(ht, Dec(rate, -4))
        tva == Times(commission, Dec(20, -2))
        ttc == Plus(commission, tva)
    IN  [sales |-> salesTTC, salesHT |-> ht, commission |-> commission,
         tva |-> tva, ttc |-> ttc, net |-> Minus(salesTTC, ttc)]

(***************************************************************************)
(* Settlement periods: days of an abstract calendar of two months.         *)
(***************************************************************************)

\* A date is <<month, day>>; P1 runs to the 15th, P2 to the end of the month.
PeriodOf(date) == <<date[1], IF date[2] <= 15 THEN "P1" ELSE "P2">>

PeriodDates(period, monthLength) ==
    {<<period[1], d>> : d \in IF period[2] = "P1" THEN 1 .. 15 ELSE 16 .. monthLength}

=============================================================================
