----------------------------- MODULE MCSettlement -----------------------------
(* Instances of Settlement for TLC: two orders, two restaurants. *)
EXTENDS Settlement, TLC

CONSTANTS o1, o2, r1, r2, n1, n2

MCPeriod == <<2, "P2">>
MCOrders == {o1, o2}
MCIds == {r1, r2}
MCNames == {n1, n2}
MCContradicting == {<<n1, n2>>, <<n2, n1>>}

Row(rid, status, reason, amount) ==
    [rid |-> rid, status |-> status, reason |-> reason, amount |-> amount,
     date |-> <<2, 29>>]
Scope(id, name, rate) ==
    [id |-> id, name |-> name, inScope |-> TRUE, rate |-> rate, detail |-> 0]
Rst(id, name, rate) ==
    [id |-> id, name |-> name, rate |-> rate, legal |-> TRUE, email |-> TRUE, rib |-> TRUE]

World(a, b, invalid, scope, rst) ==
    [canonical |-> (o1 :> a @@ o2 :> b), invalid |-> invalid, scope |-> scope, rst |-> rst]

Sound == <<Scope(r1, n1, 200000), Scope(r2, n2, 3300)>>
SheetOfBoth == <<Rst(r1, n1, 2000), Rst(r2, n2, None)>>

(* Every kind of row and of sheet, for the evaluation alone. *)

FirstRows == {Row(r1, "DELIVERED", "NONE", 107), Row(r1, "DELIVERED", "NONE", None),
              Row(r2, "CANCELLED", "RESTAURANT", 41), Row(None, "DELIVERED", "NONE", 8),
              [Row(r1, "DELIVERED", "NONE", 59) EXCEPT !.date = <<2, 15>>],
              [Row(r1, "DELIVERED", "NONE", 59) EXCEPT !.date = None]}
SecondRows == {Row(r1, "DELIVERED", "NONE", 893), Row(r1, "CANCELLED", "YASSIR", 250),
               Row(r1, "CANCELLED", "FREE_TEXT", 250), Row(r2, "OTHER", "NONE", 77),
               Row(r1, "CANCELLED_BY_USER", "RESTAURANT", 12),
               Row(r1, "RESTAURANT_REJECTED", "NONE", -13)}
ScopeSheets == {
    Sound,
    <<Scope(r1, n1, 10000), Scope(None, n1, 245000)>>,       \* both lead to r1
    <<Scope(r1, n2, 2000), Scope(None, n1, 2000)>>,          \* r1 blocked, and ready
    <<Scope(r1, n1, 2000), Scope(r1, n1, 2000)>>,            \* duplicate
    <<Scope(r1, n1, 2000), Scope(r1, n1, 3000)>>,            \* conflicting
    <<Scope(r1, None, None), Scope(r2, n2, 1000100)>>,       \* no rate, invalid rate
    <<[Scope(r1, n1, 2000) EXCEPT !.inScope = FALSE], Scope(r2, None, 0)>>,
    <<Scope(None, n2, 1717), Scope(None, None, 1), Scope(r1, n1, 1717)>>}
RstSheets == {
    SheetOfBoth,
    <<Rst(r1, n1, -1), Rst(r1, n1, -1), Rst(r2, n2, 1000200)>>,
    <<Rst(r1, n1, 2000), Rst(r1, n2, 2000)>>,                \* ambiguous id
    <<Rst(None, n1, 2000), Rst(r1, None, None)>>}            \* a name with no id
EverySource == {World(a, b, x, s, t) : a \in FirstRows, b \in SecondRows,
                   x \in {{}, {o2}}, s \in ScopeSheets, t \in RstSheets}

(* For reviewers: the second source is the publication of a run that gives
   the first order to the other restaurant. *)

WithFirst(row) == World(row, Row(r1, "DELIVERED", "NONE", 107), {}, Sound, SheetOfBoth)
TwoSources == {WithFirst(Row(r1, "CANCELLED", "FREE_TEXT", 893)),
               WithFirst(Row(r2, "CANCELLED", "YASSIR", 893))}

AllSources == EverySource \cup TwoSources

\* Reviewers differ in name only.
ReviewerSymmetry == Permutations(Reviewers)

=============================================================================
