------------------------------ MODULE MCReview ------------------------------
(* Two restaurants; amounts that fall between two centimes; issues that    *)
(* two restaurants share the text of, and legal rows without an id.        *)
EXTENDS Review

Of(sales, invoice, status) ==
    [sales |-> sales, invoice |-> invoice, net |-> sales - invoice, status |-> status]
Unresolved == [sales |-> None, invoice |-> None, net |-> None, status |-> "REVIEW_REQUIRED"]

\* The same sales under two commissions, and a restaurant that is not settled.
BothReady == [a |-> Of(1000, 95, "READY"), b |-> Of(2000, 1095, "READY")]
WhilePaying == {BothReady, [a |-> Of(1000, 90, "READY"), b |-> Unresolved]}

\* The same totals made of other figures, and net payables that lost their last digit.
WhileBilling == {BothReady, [a |-> Of(2000, 1095, "READY"), b |-> Of(1000, 95, "READY")],
           [a |-> [Of(1000, 95, "READY") EXCEPT !.net = @ - 1], b |-> Unresolved]}

MCEvaluations == WhilePaying \cup WhileBilling

Complete(rib) == [rib |-> rib, identity |-> TRUE, documents |-> TRUE, legal |-> "OK"]
CompleteRegistry == [a |-> Complete("rib1"), b |-> Complete("rib1")]
MCRegistries == {CompleteRegistry,
                 [a |-> Complete("rib2"), b |-> Complete("invalid")],
                 [a |-> [Complete("rib1") EXCEPT !.legal = "CONFLICT"], b |-> Complete(None)]}

Line(bank, amount, rib, internal) ==
    [bank |-> bank, amount |-> amount, rib |-> rib, internal |-> internal]
MCStatements == {<<Line("x", 900, "rib1", None), Line("y", 905, None, "a")>>,
                 <<Line("x", 910, None, "a"), Line("x", 910, None, "a"), Line("y", 905, "rib2", "a")>>,
                 <<Line("x", 910, None, "b"), Line("y", 500, "rib2", "a"), Line("z", 905, "rib1", None)>>}

Legal(r, name, code) == [restaurant |-> r, name |-> name, code |-> code]
SettledAs(n, status) == [manual |-> n, status |-> status]
AllMatched == [r \in Restaurants |-> "MATCHED_BY_ID"]
MCWorkspaces ==
    {[settled |-> [a |-> SettledAs(2, "REVIEW_REQUIRED"), b |-> SettledAs(2, "BLOCKED_COMMISSION")],
      mapping |-> AllMatched, legal |-> {Legal(None, "n1", "MISSING_ID")}],
     [settled |-> [a |-> SettledAs(1, "REVIEW_REQUIRED"), b |-> SettledAs(0, "BLOCKED_DATA")],
      mapping |-> [AllMatched EXCEPT !["b"] = "AMBIGUOUS"],
      legal |-> {Legal(None, "n2", "MISSING_ID"), Legal("a", "a", "CONFLICT")}]}
Failed(r, version) == [restaurant |-> r, type |-> "INVOICE", version |-> version]
MCFailures == {{Failed("a", 1)}, {Failed("a", 2), Failed("b", 1)}}

\* Bounds: on the Billing page, the evaluations above over one registry; while payments
\* are prepared, those of them; and one change where the page is not Billing's.
Followed ==
    /\ open \cap MayLock # {} =>
         evaluation \in WhileBilling /\ registry = CompleteRegistry /\ statement = None
    /\ open \cap Officers # {} => evaluation \in WhilePaying
    /\ open \cap MayLock = {} => changes <= 1
=============================================================================
