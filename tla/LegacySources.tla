----------------------------- MODULE LegacySources -----------------------------
(***************************************************************************)
(* The eligibility of orders as the first version of the application       *)
(* established it: Admin Earnings tables, a payment scope table and the    *)
(* RST list are read, the restaurants of the scope are kept as a snapshot  *)
(* of the period, and each order is eligible when its restaurant is in it. *)
(*                                                                         *)
(* A table is a sequence of headings and rows from headings to cells.  A   *)
(* heading is <<normal form, raw text>>; a cell is Blank, Bad (no number   *)
(* or date can be read in it) or an opaque text.  The order's date, amount *)
(* and status, required and parsed one after another, stand as "figures".  *)
(***************************************************************************)
EXTENDS Sequences, FiniteSets, Functions

CONSTANTS Meaning,      \* normal forms of headings -> the field they are an alias of
          Blank, Bad, NoSnapshot

VARIABLES snapshots,    \* (period, file, content) -> [ids, count] of the registry
          answer        \* what the last request returned, with its inputs

AdminFields == {"order", "restaurant", "figures", "reason"}
AdminRequired == {"order", "restaurant", "figures"}
ScopeFields == {"restaurant", "name"}
RstFields == {"restaurant", "name", "commission"}

Unparsed == [readable |-> FALSE, headings |-> <<>>, rows |-> <<>>]

\* A configured heading wins; else the field is resolved when exactly one
\* heading of the table is an alias of it.
ColumnsBy(table, columnMap, alike) ==
    LET configured(f) == {h \in Range(table.headings) :
                            f \in DOMAIN columnMap /\ columnMap[f] = h}
        choice(f) == IF configured(f) # {} THEN configured(f) ELSE alike[f]
    IN  [f \in {g \in DOMAIN alike : Cardinality(choice(g)) = 1} |->
            CHOOSE h \in choice(f) : TRUE]

Aliases(table, field) == {h \in Range(table.headings) : Meaning[h[1]] = field}

AdminColumns(table, columnMap) ==
    ColumnsBy(table, columnMap, [f \in AdminFields |-> Aliases(table, f)])

ScopeColumns(table, columnMap) ==
    ColumnsBy(table, columnMap, [f \in ScopeFields |-> Aliases(table, f)])

\* Of two headings with one normal form the RST reader only knows the last.
RstColumns(table, columnMap) ==
    LET last(h) == \A i \in DOMAIN table.headings :
                      table.headings[i][1] = h[1] =>
                         \E j \in DOMAIN table.headings : j >= i /\ table.headings[j] = h
    IN  ColumnsBy(table, columnMap, [f \in RstFields |-> {h \in Aliases(table, f) : last(h)}])

Empty(row) == \A h \in DOMAIN row : row[h] = Blank

\* The rows that are not empty, by their position.
Filled(table) == {i \in DOMAIN table.rows : ~Empty(table.rows[i])}

Cell(row, columns, field) == IF field \in DOMAIN columns THEN row[columns[field]] ELSE Blank

Warnings == {"EXACT_DUPLICATE_ORDER_ID", "DUPLICATE_RESTAURANT_ID"}

Status(issues) ==
    CASE issues \ Warnings # {} -> "BLOCKED"
      [] issues = {} -> "SUCCESS"
      [] OTHER -> "COMPLETED_WITH_WARNINGS"

(***************************************************************************)
(* Admin Earnings.                                                         *)
(***************************************************************************)

ValidOrder(row, columns) ==
    \A f \in AdminRequired : row[columns[f]] # Blank /\ (f = "figures" => row[columns[f]] # Bad)

Order(row, columns) == [f \in AdminFields |-> Cell(row, columns, f)]

\* One file: its orders in row order, and its issues, all of them blocking.
ReadAdmin(table, columnMap) ==
    LET columns == AdminColumns(table, columnMap)
        valid == {i \in Filled(table) : ValidOrder(table.rows[i], columns)}
        refused(issue) == [orders |-> <<>>, issues |-> {issue}]
    IN  CASE ~table.readable -> refused("SOURCE_FILE_REFUSED")
          [] table.readable /\ ~(AdminRequired \subseteq DOMAIN columns) ->
                refused("MISSING_REQUIRED_COLUMNS")
          [] OTHER -> [orders |-> [i \in valid |-> Order(table.rows[i], columns)],
                       issues |-> IF valid = Filled(table) THEN {} ELSE {"INVALID_ROW"}]

\* An order in several versions is not accepted in any of them.
Accepted(orders) ==
    {order \in Range(orders) : \A other \in Range(orders) : other.order = order.order => other = order}

\* An id on several rows: its versions are all alike, or none is accepted.
DuplicateIssues(orders) ==
    LET repeated == {p \in DOMAIN orders : \E q \in DOMAIN orders \ {p} :
                        orders[q].order = orders[p].order}
    IN  {IF orders[p] \in Accepted(orders) THEN "EXACT_DUPLICATE_ORDER_ID"
         ELSE "CONFLICTING_DUPLICATE_ORDER_ID" : p \in repeated}

\* The orders of all files, by file and row.
IngestAdmin(tables, columnMap) ==
    LET read == [i \in DOMAIN tables |-> ReadAdmin(tables[i], columnMap)]
        places == UNION {{i} \X DOMAIN read[i].orders : i \in DOMAIN tables}
        orders == [p \in places |-> read[p[1]].orders[p[2]]]
        issues == (IF tables = <<>> THEN {"NO_SOURCE_FILES"} ELSE {})
                  \cup DuplicateIssues(orders)
                  \cup UNION {read[i].issues : i \in DOMAIN tables}
    IN  [status |-> Status(issues), orders |-> Accepted(orders), issues |-> issues]

(***************************************************************************)
(* The payment scope and its snapshots.                                    *)
(***************************************************************************)

ReadScope(table, columnMap) ==
    LET columns == ScopeColumns(table, columnMap)
        id(i) == table.rows[i][columns["restaurant"]]
        named == {i \in Filled(table) : id(i) # Blank}
        repeated == \E i, j \in named : i # j /\ id(i) = id(j)
        issues == (IF named # Filled(table) THEN {"MISSING_RESTAURANT_ID"} ELSE {})
                  \cup (IF repeated THEN {"DUPLICATE_RESTAURANT_ID"} ELSE {})
                  \cup (IF named = {} THEN {"EMPTY_PAYMENT_SCOPE"} ELSE {})
    IN  CASE ~table.readable -> [ids |-> {}, issues |-> {"SOURCE_FILE_REFUSED"}]
          [] table.readable /\ "restaurant" \notin DOMAIN columns ->
                [ids |-> {}, issues |-> {"MISSING_RESTAURANT_ID"}]
          [] OTHER -> [ids |-> {id(i) : i \in named}, issues |-> issues]

\* The identity of a snapshot is a hash of the period, the file and its
\* bytes: how the columns were mapped is not part of it.
SnapshotKey(period, table) == <<period, table>>

IngestScope(table, columnMap, period) ==
    LET read == ReadScope(table, columnMap)
        status == Status(read.issues)
    IN  [status |-> status, issues |-> read.issues, period |-> period,
         key |-> SnapshotKey(period, table),
         snapshot |-> IF status = "BLOCKED" THEN NoSnapshot
                      ELSE [ids |-> read.ids, count |-> Cardinality(read.ids)]]

\* INSERT OR IGNORE of the snapshot, then of each of its restaurants.
SavedSnapshot(stored, key, snapshot) ==
    IF key \in DOMAIN stored
    THEN [stored EXCEPT ![key] = [@ EXCEPT !.ids = stored[key].ids \cup snapshot.ids]]
    ELSE [k \in DOMAIN stored \cup {key} |-> IF k = key THEN snapshot ELSE stored[k]]

\* Mutant: a blocked Admin Earnings result is filtered like any other.
ApplyScopeOnly(admin, scope) ==
    IF scope.snapshot = NoSnapshot
    THEN [status |-> "BLOCKED", eligible |-> {}, outOfScope |-> {}, ids |-> {},
          issues |-> admin.issues \cup scope.issues]
    ELSE LET in == {order \in admin.orders : order.restaurant \in scope.snapshot.ids}
         IN  [status |-> "SUCCESS", eligible |-> in, outOfScope |-> admin.orders \ in,
              ids |-> scope.snapshot.ids, issues |-> admin.issues \cup scope.issues]

Apply(admin, scope) ==
    LET issues == admin.issues \cup scope.issues
        in == {order \in admin.orders : order.restaurant \in scope.snapshot.ids}
    IN  IF \/ admin.status = "BLOCKED"
           \/ scope.status = "BLOCKED"
        THEN [status |-> "BLOCKED", eligible |-> {}, outOfScope |-> {}, issues |-> issues,
              ids |-> IF scope.snapshot = NoSnapshot THEN {} ELSE scope.snapshot.ids]
        ELSE [status |-> IF issues = {} THEN "SUCCESS" ELSE "COMPLETED_WITH_WARNINGS",
              eligible |-> in, outOfScope |-> admin.orders \ in,
              ids |-> scope.snapshot.ids, issues |-> issues]

Refused(issue) ==
    [status |-> "BLOCKED", eligible |-> {}, outOfScope |-> {}, ids |-> {}, issues |-> {issue}]

----------------------------------------------------------------------------
(***************************************************************************)
(* The RST list.                                                           *)
(***************************************************************************)

\* A rate above one is per cent; no rate is zero.
RstCommission(cell) ==
    CASE cell = Blank -> 0
      [] cell \in Nat /\ cell > 10000 -> cell \div 100
      [] OTHER -> cell

RstIdentity(row, columns) == row[columns["restaurant"]] # Blank /\ row[columns["name"]] # Blank

RstPartner(row, columns) ==
    [restaurant |-> row[columns["restaurant"]], name |-> row[columns["name"]],
     commission |-> RstCommission(Cell(row, columns, "commission"))]

\* Mutant: of several records of a restaurant any will do.
AnyRecord(partners) == partners

\* A restaurant with two different records has none.
Undisputed(partners) ==
    {p \in partners : \A q \in partners : q.restaurant = p.restaurant => q = p}

ReadRst(table, columnMap) ==
    LET columns == RstColumns(table, columnMap)
        filled == {row \in Range(table.rows) : ~Empty(row)}
        identified == {row \in filled : RstIdentity(row, columns)}
        priced == {row \in identified : Cell(row, columns, "commission") # Bad}
        partners == {RstPartner(row, columns) : row \in priced}
        issues == (IF identified # filled THEN {"INVALID_RST_IDENTITY"} ELSE {})
                  \cup (IF priced # identified THEN {"INVALID_RST_FINANCIAL_METADATA"} ELSE {})
                  \cup (IF Undisputed(partners) # partners THEN {"CONFLICTING_RST_RESTAURANT_ID"}
                        ELSE {})
        refused(issue) == [status |-> "BLOCKED", partners |-> {}, issues |-> {issue}]
    IN  CASE ~table.readable -> refused("SOURCE_FILE_REFUSED")
          [] table.readable /\ ~({"restaurant", "name"} \subseteq DOMAIN columns) ->
                refused("MISSING_RST_IDENTITY_COLUMNS")
          [] OTHER -> [status |-> Status(issues), partners |-> Undisputed(partners),
                       issues |-> issues]

\* Every eligible order with the partner of its restaurant; one without a
\* partner blocks the whole answer.
EnrichedWith(eligibility, rst) ==
    LET known == {p.restaurant : p \in rst.partners}
        missing == {order.restaurant : order \in eligibility.eligible} \ known
        partners(order) == {p \in rst.partners : p.restaurant = order.restaurant}
        blocked == eligibility.status = "BLOCKED" \/ rst.status = "BLOCKED"
    IN  [status |-> IF blocked \/ missing # {} THEN "BLOCKED" ELSE "SUCCESS",
         records |-> IF blocked THEN {}
                     ELSE {<<order, partners(order)>> : order \in eligibility.eligible},
         missing |-> IF blocked THEN {} ELSE missing,
         partners |-> IF blocked THEN {}
                      ELSE {p \in rst.partners : p.restaurant \in eligibility.ids}]

----------------------------------------------------------------------------

LegacyInit ==
    /\ snapshots = [k \in {} |-> NoSnapshot]
    /\ answer = [kind |-> "none"]

Eligibility(tables, scopeTable, columnMap, period, result) ==
    [kind |-> "eligibility", tables |-> tables, scopeTable |-> scopeTable,
     columnMap |-> columnMap, period |-> period, result |-> result]

\* run_configured_eligibility, where the discovery found the tables.
RunEligibility(tables, scopeTable, columnMap, period) ==
    LET admin == IngestAdmin(tables, columnMap)
        scope == IngestScope(scopeTable, columnMap, period)
        kept == SavedSnapshot(snapshots, scope.key, scope.snapshot)
    IN  IF scope.snapshot = NoSnapshot
        THEN /\ answer' = Eligibility(tables, scopeTable, columnMap, period, Apply(admin, scope))
             /\ UNCHANGED snapshots
        ELSE /\ snapshots' = kept
             /\ answer' = Eligibility(tables, scopeTable, columnMap, period,
                             Apply(admin, [scope EXCEPT !.snapshot = kept[scope.key]]))

\* No connection, a failed discovery, or not exactly one payment scope file.
RefuseEligibility(period, issue) ==
    /\ answer' = Eligibility(<<>>, Unparsed, <<>>, period, Refused(issue))
    /\ UNCHANGED snapshots

\* The RST list is read and joined to the eligibility of the last answer.
Enrich(table, columnMap) ==
    /\ answer.kind = "eligibility"
    /\ answer' = [kind |-> "enrichment", source |-> answer, rst |-> table,
                  columnMap |-> columnMap,
                  enriched |-> EnrichedWith(answer.result, ReadRst(table, columnMap))]
    /\ UNCHANGED snapshots

----------------------------------------------------------------------------

(***************************************************************************)
(* An eligibility that is not blocked rests on the sources alone: every    *)
(* row with an order id, in whatever file, is the row of one order of the  *)
(* answer, with the same figures, and every eligible order's restaurant is *)
(* written in the payment scope, every other one's is not in the column    *)
(* the run reads (payment_scope.apply, admin_earnings._diagnose_duplicates,*)
(* whose filters run over what three earlier stages left out).             *)
(***************************************************************************)
EligibleIsScopedAndUncontested ==
    answer.kind = "eligibility" /\ answer.result.status # "BLOCKED" =>
       LET result == answer.result
           orders == result.eligible \cup result.outOfScope
           column(table) == AdminColumns(table, answer.columnMap)
           scopeColumn == ScopeColumns(answer.scopeTable, answer.columnMap)["restaurant"]
           written == UNION {Range(row) : row \in Range(answer.scopeTable.rows)}
           scoped == {row[scopeColumn] : row \in Range(answer.scopeTable.rows)}
       IN  /\ \A table \in Range(answer.tables) : \A row \in Range(table.rows) :
                 ~Empty(row) =>
                    Cardinality({order \in orders :
                       /\ order.order = row[column(table)["order"]]
                       /\ order = Order(row, column(table))}) = 1
           /\ \A one, two \in orders : one.order = two.order => one = two
           /\ result.eligible \cap result.outOfScope = {}
           /\ \A order \in result.eligible : order.restaurant \in written
           /\ \A order \in result.outOfScope : order.restaurant \notin scoped

(***************************************************************************)
(* An enrichment that succeeded gives every eligible order the one partner *)
(* that every row of its restaurant in the RST list makes, 0.2 and 20      *)
(* being one rate: no row of the list was left out as unreadable, and of   *)
(* several that disagree none was chosen (rst_enrichment.ingest_master and *)
(* enrich, which refuse rows one by one and carry on with the others).     *)
(***************************************************************************)
EnrichedFromAgreeingRows ==
    answer.kind = "enrichment" /\ answer.enriched.status = "SUCCESS" =>
       LET columns == RstColumns(answer.rst, answer.columnMap)
           rows(order) == {row \in Range(answer.rst.rows) :
                             ~Empty(row) /\ row[columns["restaurant"]] = order.restaurant}
       IN  \A order \in answer.source.result.eligible :
              LET partners == {RstPartner(row, columns) : row \in rows(order)}
              IN  <<order, partners>> \in answer.enriched.records /\ Cardinality(partners) = 1

=============================================================================
