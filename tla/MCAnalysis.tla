------------------------------ MODULE MCAnalysis -------------------------------
(* Small tables with blank and unreadable cells, repeated orders and twice- *)
(* named columns; conflicts of each kind; and periods settled with the      *)
(* figures the policy gives, with others, and with some missing.            *)
EXTENDS Analysis, TLC

MCMeaning == ("order id" :> "order") @@ ("restaurant id" :> "restaurant")
             @@ ("partner id" :> "restaurant") @@ ("amount" :> "figures")
             @@ ("reason" :> "reason") @@ ("name" :> "name") @@ ("commission" :> "commission")

H(n) == <<n, n>>
OrderH == H("order id")
RestH == H("restaurant id")
PartnerH == H("partner id")
AmountH == H("amount")
ReasonH == H("reason")
NameH == H("name")
RateH == H("commission")
\* Two headings with one normal form.
NameAgain == <<"name", "Name">>

AdminRow(o, rs, f, why) == (OrderH :> o) @@ (RestH :> rs) @@ (AmountH :> f) @@ (ReasonH :> why)
AdminTable(rows) ==
    [readable |-> TRUE, headings |-> <<OrderH, RestH, AmountH, ReasonH>>, rows |-> rows]

One1 == AdminRow("o1", "A", "10", Blank)
Two1 == AdminRow("o2", "B", "20", Blank)
FirstWeek == AdminTable(<<One1, Two1>>)
RepeatsOne == AdminTable(<<One1, AdminRow(Blank, Blank, Blank, Blank),
                           AdminRow("o3", "C", "10", Blank)>>)
OtherReason == AdminTable(<<AdminRow("o1", "A", "10", "closed")>>)
BadAmount == AdminTable(<<AdminRow("o4", "A", Bad, Blank), One1>>)
NoAmount == [readable |-> TRUE, headings |-> <<OrderH, RestH>>,
             rows |-> <<(OrderH :> "o1") @@ (RestH :> "A")>>]

MCAdminTables == {<<>>, <<FirstWeek>>, <<FirstWeek, RepeatsOne>>, <<FirstWeek, OtherReason>>,
                  <<RepeatsOne, BadAmount>>, <<NoAmount>>, <<Unparsed, FirstWeek>>}

ScopeRow(rs, p) == (RestH :> rs) @@ (PartnerH :> p)
\* The restaurants under one heading, their partners under another.
TwoIds == [readable |-> TRUE, headings |-> <<RestH, PartnerH>>,
           rows |-> <<ScopeRow("A", "B"), ScopeRow("A", "C")>>]
OneId == [readable |-> TRUE, headings |-> <<RestH, NameH>>,
          rows |-> <<(RestH :> "A") @@ (NameH :> "n"), (RestH :> "C") @@ (NameH :> Blank)>>]
NoIdInRow == [readable |-> TRUE, headings |-> <<RestH, NameH>>,
              rows |-> <<(RestH :> "A") @@ (NameH :> "n"), (RestH :> Blank) @@ (NameH :> "m")>>]
NoRows == [readable |-> TRUE, headings |-> <<RestH>>, rows |-> <<(RestH :> Blank)>>]
MCScopeTables == {TwoIds, OneId, NoIdInRow, NoRows, Unparsed}

MCColumnMaps == {<<>>, "restaurant" :> RestH, "restaurant" :> PartnerH}

RstRow(rs, n, c) == (RestH :> rs) @@ (NameH :> n) @@ (NameAgain :> n) @@ (RateH :> c)
RstTable(rows) ==
    [readable |-> TRUE, headings |-> <<RestH, NameH, NameAgain, RateH>>, rows |-> rows]
\* 0.2 and 20 are the same rate.
BothRates == RstTable(<<RstRow("A", "n", 2000), RstRow("A", "n", 200000), RstRow("C", "m", Blank)>>)
Disputed == RstTable(<<RstRow("A", "n", 2000), RstRow("A", "n", 3000), RstRow("C", "m", 0)>>)
OnlyA == RstTable(<<RstRow("A", "n", 2000), RstRow("B", "m", 2000)>>)
Broken == RstTable(<<RstRow("A", Blank, 2000), RstRow("C", "m", Bad)>>)
NoName == [readable |-> TRUE, headings |-> <<RestH>>, rows |-> <<(RestH :> "A")>>]
MCRstTables == {BothRates, Disputed, OnlyA, Broken, NoName, Unparsed}

MCPeriods == {"P1"}

----------------------------------------------------------------------------
At(m, y, w, n) == [modified |-> m, year |-> y, week |-> w, row |-> n]
Occ(at, values) ==
    [modified |-> at.modified, year |-> at.year, week |-> at.week, row |-> at.row, values |-> values]
Conflict(o, fields, places, versions) ==
    [order |-> o, fields |-> fields,
     occurrences |-> [i \in DOMAIN places |-> Occ(places[i], versions[i])]]

\* A week with itself, with the next one, with the first of the next year
\* (written before), three weeks of one file, and two files of one moment.
Places == {<<At(1, 2025, 8, 1), At(1, 2025, 8, 2)>>,
           <<At(2, 2025, 8, 1), At(1, 2025, 9, 1)>>,
           <<At(2, 2026, 53, 1), At(2, 2027, 1, 1)>>,
           <<At(1, 2025, 8, 1), At(2, 2025, 9, 1), At(3, 2025, 12, 1)>>,
           <<At(1, 2025, 8, 1), At(1, 2025, 8, 1)>>}

Text == {Null, <<"x", 1>>, <<"x", 2>>, <<"y", 1>>}
Amount == {Null, <<1000>>, <<1005>>, <<1006>>, <<200000>>}
Differing(f, values, n) ==
    {v \in [1 .. n -> [{f} -> values]] : \E i \in 2 .. n : v[i] # v[1]}

SingleField ==
    {<<Conflict("o1", {f}, p, v)>> : p \in {q \in Places : Len(q) = 2}, f \in {"cancellation_reason"},
        v \in Differing("cancellation_reason", Text, 2)}
    \cup UNION {{<<Conflict("o1", {"cancellation_reason"}, p, v)>> :
                    v \in Differing("cancellation_reason", Text, 3)} :
                    p \in {q \in Places : Len(q) = 3}}
    \cup {<<Conflict("o1", {"gross_amount"}, p, v)>> :
             p \in {q \in Places : Len(q) = 2}, v \in Differing("gross_amount", Amount, 2)}
    \cup {<<Conflict("o1", {"operational_status"}, p, v)>> :
             p \in {q \in Places : Len(q) = 2}, v \in Differing("operational_status", Text, 2)}

Of(a, b, c, d) == ("restaurant_id" :> a) @@ ("operational_status" :> b)
                  @@ ("gross_amount" :> c) @@ ("cancellation_reason" :> d)
AllFields == {"restaurant_id", "operational_status", "gross_amount", "cancellation_reason"}
Several ==
    {<<Conflict("o1", AllFields, p,
          <<Of(a, <<"x", 1>>, <<1000>>, Null), Of(<<"A", 1>>, b, c, d)>>),
       Conflict("o2", {"source_week", "currency"}, p,
          <<("source_week" :> <<8, 0>>) @@ ("currency" :> <<"mad", 1>>),
            ("source_week" :> <<8, 0>>) @@ ("currency" :> e)>>),
       Conflict("o3", {"source_week"}, p,
          <<"source_week" :> <<8, 0>>, "source_week" :> <<9, 0>>>>)>> :
        p \in {<<At(1, 2025, 8, 1), At(1, 2025, 8, 2)>>},
        a \in {<<"A", 1>>, <<"B", 1>>}, b \in {<<"x", 2>>, <<"y", 1>>},
        c \in {<<1004>>, <<3000>>}, d \in {Null, <<"x", 1>>}, e \in {<<"mad", 2>>, <<"eur", 1>>}}

MCConflicts == {<<>>} \cup SingleField \cup Several
    \cup {<<Conflict("o9", {"restaurant_name"}, <<At(1, 2025, 8, 1), At(1, 2025, 8, 2)>>,
             <<"restaurant_name" :> <<"x", 1>>, "restaurant_name" :> <<"y", 1>>>>)>>}

Seen(p) == [i \in DOMAIN p |-> Occ(p[i], [f \in {} |-> Null])]
MCDuplicates == {<<>>} \cup {<<Seen(p)>> : p \in Places}
MCIssues == <<[category |-> "INVALID_FINANCIAL_VALUE", pattern |-> "CURRENCY_FORMATTED",
               number |-> TRUE],
              [category |-> "INVALID_FINANCIAL_VALUE", pattern |-> "TEXT", number |-> FALSE],
              [category |-> "CONFLICTING_DUPLICATE", pattern |-> "EMPTY", number |-> FALSE]>>
MCSources == <<[order |-> 1, restaurant |-> 1, rows |-> <<<<"o1", "A">>, <<"o2", "A">>>>],
               [order |-> 1, restaurant |-> 2, rows |-> <<<<"o1", "B">>>>]>>
MCCanonical == {"o9"}

----------------------------------------------------------------------------
MCRequired == {"sales_ht", "net"}
Evidence(f, confidence, approved) ==
    [field |-> f, confidence |-> confidence, formula |-> TRUE, approved |-> approved]
MCEvidence == {{}, Discover, {Evidence("sales_ht", "AUTHORITATIVE", TRUE)},
               {Evidence("sales_ht", "AUTHORITATIVE", TRUE), Evidence("net", "STRONG", TRUE),
                Evidence("net", "AUTHORITATIVE", FALSE)}}

Sold(total, eligible, decision) == [total |-> total, eligible |-> eligible, decision |-> decision]
Paid == <<Sold(Dec(120, 0), TRUE, "PAY_PARTNER"), Sold(Dec(305, -1), None, "NONE")>>
Mixed == <<Sold(Dec(120, 0), TRUE, "PAY_PARTNER"), Sold(Dec(60, 0), TRUE, "EXCLUDE"),
           Sold(Dec(40, 0), FALSE, "NONE"), Sold(Invalid, TRUE, "PAY_PARTNER")>>
\* What the earlier program settled 150.5 and 120 at 24 and 20 per cent with.
Figures(ht, tva, ttc, net) ==
    [f \in ParityFields |-> CASE f \in {"commission_amount", "invoice_ht"} -> ht
                              [] f = "invoice_tva" -> tva [] f = "invoice_ttc" -> ttc
                              [] OTHER -> net]
SettledOf(total, rate) ==
    LET c == Certified(total, rate) IN Figures(c.commission, c.tva, c.ttc, c.net)
Settled120 == Figures(Dec(20, 0), Dec(4, 0), Dec(24, 0), Dec(96, 0))
Settled180 == Figures(Dec(30, 0), Dec(6, 0), Dec(36, 0), Dec(144, 0))
Settled150 == SettledOf(Plus(Dec(120, 0), Dec(305, -1)), 2400)

\* 150.5 paid, with sales of 120 in the context: 24 per cent of 100, and 28.8
\* to be taken from what was paid.
SettledOn120 == Figures(Dec(24, 0), Dec(48, -1), Dec(288, -1), Dec(1217, -1))

Case(reconstructed, version, orders, rate, expected) ==
    [reconstructed |-> reconstructed, version |-> version, orders |-> orders, sales |-> None,
     rate |-> rate, expected |-> expected, calculated |-> expected]
Good1 == Case(TRUE, PolicyVersion, Mixed, 200000, Settled120)
Good2 == Case(TRUE, PolicyVersion, Paid, 2400, Settled150)
InContext == [Case(TRUE, PolicyVersion, Paid, 2400, SettledOn120) EXCEPT !.sales = Dec(120, 0)]
OffContext == [InContext EXCEPT !.expected = Settled150]
PaidExcluded == Case(TRUE, PolicyVersion, Mixed, 2000, Settled180)
Partial == Case(TRUE, PolicyVersion, Paid, 2400, [Settled150 EXCEPT !["invoice_ttc"] = None])
Given == Case(FALSE, PolicyVersion, <<>>, Missing, Settled120)
OtherPolicy == Case(TRUE, "v0", Mixed, 2000, Settled120)
MCHistories == {<<>>, <<Good1>>, <<Good1, Good2>>, <<Good2, PaidExcluded>>,
                <<PaidExcluded, PaidExcluded>>, <<Good1, Partial>>, <<Good1, InContext>>,
                <<Good2, OffContext>>, <<Good1, Given>>, <<Good1, OtherPolicy>>}

MCCases == {<<Dec(120, 0), 200000, [sales |-> Dec(120, 0), salesHT |-> Dec(100, 0),
               commission |-> Dec(20, 0), tva |-> Dec(4, 0), ttc |-> Dec(24, 0), net |-> Dec(96, 0)]>>,
            <<Dec(240, 0), 240000, [sales |-> Dec(240, 0), salesHT |-> Dec(200, 0),
               commission |-> Dec(48, 0), tva |-> Dec(96, -1), ttc |-> Dec(576, -1),
               net |-> Dec(1824, -1)]>>,
            <<Dec(100, 0), 0, [sales |-> Dec(100, 0), salesHT |-> Rounded(8333333, -5),
               commission |-> Dec(0, 0), tva |-> Dec(0, 0), ttc |-> Dec(0, 0), net |-> Dec(100, 0)]>>}

=============================================================================
