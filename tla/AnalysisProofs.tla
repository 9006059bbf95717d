---------------------------- MODULE AnalysisProofs ----------------------------
(***************************************************************************)
(* What the answers of Analysis say of their inputs, for any tables,       *)
(* column maps, snapshots, conflicts and settled periods of the shape a    *)
(* parsed file, an exported conflict and a historical case have: an        *)
(* eligibility rests on uncontested orders and written restaurants, a      *)
(* diagnosis adds up and calls nothing potentially resolvable that is left *)
(* to a reviewer, and a certificate stands for the history it was asked to *)
(* cover.  The last rests on the decimals of SettlementProofs.             *)
(***************************************************************************)
EXTENDS Analysis, SettlementProofs

----------------------------------------------------------------------------
(* Eligibility *)

\* what a table has in any cell
Written(table) == UNION {Range(row) : row \in Range(table.rows)}

\* A result without a blocking issue has warnings only.
LEMMA NotBlocked ==
    ASSUME NEW issues, Status(issues) # "BLOCKED"
    PROVE  issues \subseteq Warnings
BY DEF Status

\* A file without a blocking issue has an order for each row that is not empty.
LEMMA FileRead ==
    ASSUME NEW table, NEW columnMap, ReadAdmin(table, columnMap).issues \subseteq Warnings
    PROVE  /\ ReadAdmin(table, columnMap).orders
                 = [j \in Filled(table) |-> Order(table.rows[j], AdminColumns(table, columnMap))]
           /\ \A j \in Filled(table) :
                 ValidOrder(table.rows[j], AdminColumns(table, columnMap))
           /\ AdminRequired \subseteq DOMAIN AdminColumns(table, columnMap)
<1> DEFINE columns == AdminColumns(table, columnMap)
           valid == {i \in Filled(table) : ValidOrder(table.rows[i], columns)}
           readable == table.readable
           complete == AdminRequired \subseteq DOMAIN columns
           orders == [i \in valid |-> Order(table.rows[i], columns)]
           issues == IF valid = Filled(table) THEN {} ELSE {"INVALID_ROW"}
           read == ReadAdmin(table, columnMap)
<1>1. read = CASE ~readable -> [orders |-> <<>>, issues |-> {"SOURCE_FILE_REFUSED"}]
               [] readable /\ ~complete -> [orders |-> <<>>, issues |-> {"MISSING_REQUIRED_COLUMNS"}]
               [] OTHER -> [orders |-> orders, issues |-> issues]
  BY DEF ReadAdmin
<1>2. /\ "SOURCE_FILE_REFUSED" \notin Warnings /\ "MISSING_REQUIRED_COLUMNS" \notin Warnings
      /\ "INVALID_ROW" \notin Warnings
  BY DEF Warnings
<1>3. read.issues \subseteq Warnings
  OBVIOUS
<1> HIDE DEF readable, complete, read
<1>4. ~(~readable) /\ ~(readable /\ ~complete)
  <2>1. PICK o, i : o = orders /\ i = issues
    OBVIOUS
  <2>2. read = CASE ~readable -> [orders |-> <<>>, issues |-> {"SOURCE_FILE_REFUSED"}]
                 [] readable /\ ~complete -> [orders |-> <<>>, issues |-> {"MISSING_REQUIRED_COLUMNS"}]
                 [] OTHER -> [orders |-> o, issues |-> i]
    BY <1>1, <2>1
  <2> QED BY <2>2, <1>2, <1>3
<1>5. read = [orders |-> orders, issues |-> issues]
  BY <1>1, <1>4
<1>6. valid = Filled(table)
  BY <1>2, <1>3, <1>5
<1>7. read.orders = [i \in Filled(table) |-> Order(table.rows[i], columns)]
  BY <1>5, <1>6
<1> QED BY <1>4, <1>6, <1>7 DEF read, readable, complete

\* Of files without a blocking issue every row is an accepted order, and no id
\* has two.
LEMMA OrdersAccounted ==
    ASSUME NEW tables, NEW columnMap, IngestAdmin(tables, columnMap).status # "BLOCKED"
    PROVE  LET accepted == IngestAdmin(tables, columnMap).orders
           IN  /\ \A i \in DOMAIN tables : \A j \in Filled(tables[i]) :
                     Order(tables[i].rows[j], AdminColumns(tables[i], columnMap)) \in accepted
               /\ \A one, two \in accepted : one.order = two.order => one = two
               /\ \A one \in accepted : one.restaurant # Blank
               /\ \A i \in DOMAIN tables :
                     AdminRequired \subseteq DOMAIN AdminColumns(tables[i], columnMap)
<1> DEFINE read == [i \in DOMAIN tables |-> ReadAdmin(tables[i], columnMap)]
           places == UNION {{i} \X DOMAIN read[i].orders : i \in DOMAIN tables}
           orders == [p \in places |-> read[p[1]].orders[p[2]]]
           duplicated == DuplicateIssues(orders)
           issues == (IF tables = <<>> THEN {"NO_SOURCE_FILES"} ELSE {})
                     \cup duplicated
                     \cup UNION {read[i].issues : i \in DOMAIN tables}
<1>1. IngestAdmin(tables, columnMap)
        = [status |-> Status(issues), orders |-> Accepted(orders), issues |-> issues]
  BY DEF IngestAdmin
<1>2. issues \subseteq Warnings
  <2> HIDE DEF issues, orders
  <2> QED BY <1>1, NotBlocked
<1>3. ASSUME NEW i \in DOMAIN tables
      PROVE  /\ read[i].orders = [j \in Filled(tables[i]) |->
                    Order(tables[i].rows[j], AdminColumns(tables[i], columnMap))]
             /\ \A j \in Filled(tables[i]) :
                   ValidOrder(tables[i].rows[j], AdminColumns(tables[i], columnMap))
             /\ AdminRequired \subseteq DOMAIN AdminColumns(tables[i], columnMap)
  <2>1. read[i] = ReadAdmin(tables[i], columnMap) /\ read[i].issues \subseteq Warnings
    BY <1>2
  <2> QED BY <2>1, FileRead
<1>4. DuplicateIssues(orders) \subseteq Warnings
  <2> HIDE DEF duplicated, read
  <2>1. duplicated \subseteq issues
    OBVIOUS
  <2> HIDE DEF issues
  <2> QED BY <1>2, <2>1 DEF duplicated
<1>5. ASSUME NEW i \in DOMAIN tables, NEW j \in Filled(tables[i])
      PROVE  /\ <<i, j>> \in places
             /\ orders[<<i, j>>] = Order(tables[i].rows[j], AdminColumns(tables[i], columnMap))
  <2>1. j \in DOMAIN read[i].orders
    BY <1>3
  <2>2. <<i, j>> \in places
    BY <2>1
  <2>3. orders[<<i, j>>] = read[i].orders[j]
    BY <2>2
  <2> QED BY <1>3, <2>2, <2>3
<1>6. ASSUME NEW p \in places
      PROVE  orders[p].restaurant # Blank
  <2>1. PICK i \in DOMAIN tables : p \in {i} \X DOMAIN read[i].orders
    OBVIOUS
  <2>2. PICK j \in Filled(tables[i]) : p = <<i, j>>
    <3>1. PICK f : f = read[i].orders
      OBVIOUS
    <3>2. DOMAIN f = Filled(tables[i])
      BY <1>3, <3>1
    <3> QED BY <2>1, <3>1, <3>2
  <2>3. PICK columns : columns = AdminColumns(tables[i], columnMap)
    OBVIOUS
  <2>4. PICK row : row = tables[i].rows[j]
    OBVIOUS
  <2>5. orders[p] = Order(row, columns)
    BY <1>5, <2>2, <2>3, <2>4
  <2>6. ValidOrder(row, columns)
    BY <1>3, <2>3, <2>4
  <2>7. row[columns["restaurant"]] # Blank
    BY <2>6 DEF ValidOrder, AdminRequired
  <2>8. Order(row, columns).restaurant = Cell(row, columns, "restaurant")
    BY DEF Order, AdminFields
  <2>9. CASE "restaurant" \in DOMAIN columns
    BY <2>5, <2>7, <2>8, <2>9 DEF Cell
  <2>10. AdminRequired \subseteq DOMAIN columns
    BY <1>3, <2>3
  <2> QED BY <2>9, <2>10 DEF AdminRequired
<1> HIDE DEF read, places, issues
<1>7. DOMAIN orders = places /\ Range(orders) = {orders[p] : p \in places}
  BY DEF Range
<1> HIDE DEF orders
<1>8. ASSUME NEW p \in places
      PROVE  orders[p] \in Accepted(orders)
  <2> SUFFICES ASSUME orders[p] \notin Accepted(orders)
               PROVE  FALSE
    OBVIOUS
  <2>1. PICK q \in places : orders[q].order = orders[p].order /\ orders[q] # orders[p]
    BY <1>7 DEF Accepted
  <2>2. "CONFLICTING_DUPLICATE_ORDER_ID" \in DuplicateIssues(orders)
    <3>1. q \in DOMAIN orders \ {p} /\ p \in DOMAIN orders
      BY <1>7, <2>1
    <3> QED BY <2>1, <3>1 DEF DuplicateIssues
  <2> QED BY <1>4, <2>2 DEF Warnings
<1>9. /\ Accepted(orders) \subseteq {orders[p] : p \in places}
      /\ \A one, two \in Accepted(orders) : one.order = two.order => one = two
  BY <1>7 DEF Accepted
<1>10. IngestAdmin(tables, columnMap).orders = Accepted(orders)
  BY <1>1
<1>11. ASSUME NEW one \in Accepted(orders) PROVE one.restaurant # Blank
  BY <1>6, <1>9
<1>12. ASSUME NEW i \in DOMAIN tables, NEW j \in Filled(tables[i])
       PROVE  Order(tables[i].rows[j], AdminColumns(tables[i], columnMap)) \in Accepted(orders)
  BY <1>5, <1>8
<1>13. ASSUME NEW i \in DOMAIN tables
       PROVE  AdminRequired \subseteq DOMAIN AdminColumns(tables[i], columnMap)
  BY <1>3
<1> QED BY <1>9, <1>10, <1>11, <1>12, <1>13

\* A resolved column of the scope is one of its headings.
LEMMA ScopeHeading ==
    ASSUME NEW table, NEW columnMap, "restaurant" \in DOMAIN ScopeColumns(table, columnMap)
    PROVE  ScopeColumns(table, columnMap)["restaurant"] \in Range(table.headings)
<1> DEFINE alike == [f \in ScopeFields |-> Aliases(table, f)]
           configured(f) == {h \in Range(table.headings) :
                               f \in DOMAIN columnMap /\ columnMap[f] = h}
           choice(f) == IF configured(f) # {} THEN configured(f) ELSE alike[f]
           resolved == {g \in DOMAIN alike : Cardinality(choice(g)) = 1}
<1>1. ScopeColumns(table, columnMap) = [f \in resolved |-> CHOOSE h \in choice(f) : TRUE]
  BY DEF ScopeColumns, ColumnsBy
<1>2. "restaurant" \in resolved
  BY <1>1
<1>3. choice("restaurant") \subseteq Range(table.headings)
  BY DEF ScopeFields, Aliases
<1>4. choice("restaurant") # {}
  BY <1>2, FS_EmptySet
<1>5. ScopeColumns(table, columnMap)["restaurant"] = CHOOSE h \in choice("restaurant") : TRUE
  BY <1>1, <1>2
<1> HIDE DEF choice
<1> QED BY <1>3, <1>4, <1>5, SMT

\* What is read from the scope is written in it, and what is not read is not in
\* the column the ids are read from.
LEMMA ScopeRead ==
    ASSUME NEW table, NEW columnMap, IsTable(table),
           ReadScope(table, columnMap).issues \subseteq Warnings
    PROVE  LET read == ReadScope(table, columnMap)
               column == ScopeColumns(table, columnMap)["restaurant"]
           IN  /\ read.ids \subseteq Written(table)
               /\ \A row \in Range(table.rows) : row[column] \in read.ids \cup {Blank}
<1> DEFINE columns == ScopeColumns(table, columnMap)
           column == columns["restaurant"]
           id(i) == table.rows[i][column]
           named == {i \in Filled(table) : id(i) # Blank}
           repeated == \E i, j \in named : i # j /\ id(i) = id(j)
           issues == (IF named # Filled(table) THEN {"MISSING_RESTAURANT_ID"} ELSE {})
                     \cup (IF repeated THEN {"DUPLICATE_RESTAURANT_ID"} ELSE {})
                     \cup (IF named = {} THEN {"EMPTY_PAYMENT_SCOPE"} ELSE {})
           ids == {id(i) : i \in named}
           readable == table.readable
           complete == "restaurant" \in DOMAIN columns
           read == ReadScope(table, columnMap)
<1>1. read = CASE ~readable -> [ids |-> {}, issues |-> {"SOURCE_FILE_REFUSED"}]
               [] readable /\ ~complete -> [ids |-> {}, issues |-> {"MISSING_RESTAURANT_ID"}]
               [] OTHER -> [ids |-> ids, issues |-> issues]
  BY DEF ReadScope
<1>2. "SOURCE_FILE_REFUSED" \notin Warnings /\ "MISSING_RESTAURANT_ID" \notin Warnings
  BY DEF Warnings
<1>3. read.issues \subseteq Warnings
  OBVIOUS
<1> HIDE DEF readable, complete, read
<1>4. readable /\ complete
  <2>1. PICK o, i : o = ids /\ i = issues
    OBVIOUS
  <2>2. read = CASE ~readable -> [ids |-> {}, issues |-> {"SOURCE_FILE_REFUSED"}]
                 [] readable /\ ~complete -> [ids |-> {}, issues |-> {"MISSING_RESTAURANT_ID"}]
                 [] OTHER -> [ids |-> o, issues |-> i]
    BY <1>1, <2>1
  <2>3. CASE ~readable
    BY <2>2, <2>3, <1>2, <1>3
  <2>4. CASE readable /\ ~complete
    BY <2>2, <2>4, <1>2, <1>3
  <2> QED BY <2>3, <2>4
<1>5. read = [ids |-> ids, issues |-> issues]
  BY <1>1, <1>4
<1>6. named = Filled(table)
  BY <1>2, <1>3, <1>5
<1>7. read.ids = ids
  BY <1>5
<1>8. column \in Range(table.headings)
  BY <1>4, ScopeHeading DEF complete
<1> HIDE DEF column, columns, issues
<1>9. \A i \in DOMAIN table.rows : column \in DOMAIN table.rows[i]
  BY <1>8 DEF IsTable
<1>10. ids \subseteq Written(table)
  <2>1. ASSUME NEW i \in DOMAIN table.rows PROVE id(i) \in Written(table)
    BY <1>9 DEF Written, Range
  <2> QED BY <2>1 DEF Filled
<1>11. ASSUME NEW i \in DOMAIN table.rows PROVE id(i) \in ids \cup {Blank}
  <2>1. CASE i \in Filled(table)
    BY <1>6, <2>1
  <2>2. CASE i \notin Filled(table)
    <3>1. Empty(table.rows[i])
      BY <2>2 DEF Filled
    <3> QED BY <1>9, <3>1 DEF Empty
  <2> QED BY <2>1, <2>2
<1>12. ASSUME NEW row \in Range(table.rows) PROVE row[column] \in read.ids \cup {Blank}
  <2>1. PICK i \in DOMAIN table.rows : row = table.rows[i]
    BY DEF Range
  <2> QED BY <1>7, <1>11, <2>1
<1> QED BY <1>7, <1>10, <1>12 DEF read, column, columns

----------------------------------------------------------------------------

\* EligibleIsScopedAndUncontested of one answer
Sound(tables, scopeTable, columnMap, result) ==
    LET orders == result.eligible \cup result.outOfScope
        column(table) == AdminColumns(table, columnMap)
        scopeColumn == ScopeColumns(scopeTable, columnMap)["restaurant"]
        written == UNION {Range(row) : row \in Range(scopeTable.rows)}
        scoped == {row[scopeColumn] : row \in Range(scopeTable.rows)}
    IN  /\ \A table \in Range(tables) : \A row \in Range(table.rows) :
              ~Empty(row) =>
                 Cardinality({order \in orders :
                    /\ order.order = row[column(table)["order"]]
                    /\ order = Order(row, column(table))}) = 1
        /\ \A one, two \in orders : one.order = two.order => one = two
        /\ result.eligible \cap result.outOfScope = {}
        /\ \A order \in result.eligible : order.restaurant \in written
        /\ \A order \in result.outOfScope : order.restaurant \notin scoped

\* An order has the id of its row.
LEMMA OrderId ==
    ASSUME NEW row, NEW columns, "order" \in DOMAIN columns
    PROVE  Order(row, columns).order = row[columns["order"]]
<1>1. Order(row, columns)["order"] = Cell(row, columns, "order")
  BY DEF Order, AdminFields
<1> QED BY <1>1 DEF Cell

\* A snapshot that holds what was read, and only what is written, divides the
\* orders as the property says.
LEMMA ApplySound ==
    ASSUME NEW tables, NEW scopeTable, NEW columnMap, NEW scope, IsTable(scopeTable),
           scope.status = Status(ReadScope(scopeTable, columnMap).issues),
           scope.snapshot.ids \subseteq Written(scopeTable),
           scope.status # "BLOCKED" =>
               ReadScope(scopeTable, columnMap).ids \subseteq scope.snapshot.ids,
           Apply(IngestAdmin(tables, columnMap), scope).status # "BLOCKED"
    PROVE  Sound(tables, scopeTable, columnMap, Apply(IngestAdmin(tables, columnMap), scope))
<1>1. PICK admin : admin = IngestAdmin(tables, columnMap)
  OBVIOUS
<1> DEFINE in == {order \in admin.orders : order.restaurant \in scope.snapshot.ids}
           result == Apply(admin, scope)
<1>2. /\ admin.status # "BLOCKED" /\ scope.status # "BLOCKED"
      /\ result.eligible = in /\ result.outOfScope = admin.orders \ in
  BY <1>1 DEF Apply
<1>3. /\ \A i \in DOMAIN tables : \A j \in Filled(tables[i]) :
            Order(tables[i].rows[j], AdminColumns(tables[i], columnMap)) \in admin.orders
      /\ \A one, two \in admin.orders : one.order = two.order => one = two
      /\ \A one \in admin.orders : one.restaurant # Blank
      /\ \A i \in DOMAIN tables :
            AdminRequired \subseteq DOMAIN AdminColumns(tables[i], columnMap)
  BY <1>1, <1>2, OrdersAccounted, Zenon
<1> DEFINE read == ReadScope(scopeTable, columnMap)
           column == ScopeColumns(scopeTable, columnMap)["restaurant"]
           orders == result.eligible \cup result.outOfScope
<1>4. /\ read.ids \subseteq scope.snapshot.ids
      /\ \A row \in Range(scopeTable.rows) : row[column] \in read.ids \cup {Blank}
  BY <1>2, NotBlocked, ScopeRead
<1>5. orders = admin.orders
  BY <1>2
<1> HIDE DEF in, result, read, column, orders
<1>6. ASSUME NEW table \in Range(tables), NEW row \in Range(table.rows), ~Empty(row)
      PROVE  Cardinality({order \in orders :
                 /\ order.order = row[AdminColumns(table, columnMap)["order"]]
                 /\ order = Order(row, AdminColumns(table, columnMap))}) = 1
  <2>1. PICK i \in DOMAIN tables : table = tables[i]
    BY DEF Range
  <2>2. PICK j \in DOMAIN table.rows : row = table.rows[j]
    BY DEF Range
  <2>3. PICK columns : columns = AdminColumns(table, columnMap)
    OBVIOUS
  <2>4. j \in Filled(tables[i])
    BY <1>6, <2>1, <2>2 DEF Filled
  <2>5. Order(row, columns) \in orders
    BY <1>3, <1>5, <2>1, <2>2, <2>3, <2>4
  <2>6. Order(row, columns).order = row[columns["order"]]
    BY <1>3, <2>1, <2>3, OrderId DEF AdminRequired
  <2>7. {order \in orders : order.order = row[columns["order"]] /\ order = Order(row, columns)}
           = {Order(row, columns)}
    BY <2>5, <2>6
  <2> QED BY <2>3, <2>7, FS_Singleton
<1>7. \A order \in result.outOfScope :
         order.restaurant \notin {row[column] : row \in Range(scopeTable.rows)}
  BY <1>2, <1>3, <1>4 DEF in
<1>8. \A order \in result.eligible : order.restaurant \in Written(scopeTable)
  BY <1>2 DEF in
<1>9. /\ \A one, two \in orders : one.order = two.order => one = two
      /\ result.eligible \cap result.outOfScope = {}
  BY <1>2, <1>3, <1>5
<1> QED BY <1>1, <1>6, <1>7, <1>8, <1>9, Zenon DEF Sound, Written, result, column, orders

\* what the registry keeps of a file was written in it
SnapshotsOK(stored) ==
    /\ stored = [key \in DOMAIN stored |-> stored[key]]
    /\ \A key \in DOMAIN stored :
          /\ stored[key] = [ids |-> stored[key].ids, count |-> stored[key].count]
          /\ stored[key].ids \subseteq Written(key[2])

EligibilityInv ==
    /\ SnapshotsOK(snapshots)
    /\ answer.kind = "eligibility" /\ answer.result.status # "BLOCKED" =>
          Sound(answer.tables, answer.scopeTable, answer.columnMap, answer.result)

\* The registry keeps the restaurants of a file it had and adds those read now.
LEMMA SnapshotSaved ==
    ASSUME NEW stored, SnapshotsOK(stored), NEW key, NEW ids, NEW count,
           ids \subseteq Written(key[2])
    PROVE  LET kept == SavedSnapshot(stored, key, [ids |-> ids, count |-> count])
           IN  /\ SnapshotsOK(kept)
               /\ ids \subseteq kept[key].ids /\ kept[key].ids \subseteq Written(key[2])
<1> DEFINE snapshot == [ids |-> ids, count |-> count]
           kept == SavedSnapshot(stored, key, snapshot)
<1>1. CASE key \in DOMAIN stored
  <2>1. PICK old : old = stored[key]
    OBVIOUS
  <2>2. old = [ids |-> old.ids, count |-> old.count] /\ old.ids \subseteq Written(key[2])
    BY <1>1, <2>1 DEF SnapshotsOK
  <2>3. PICK new : new = [old EXCEPT !.ids = old.ids \cup ids]
    OBVIOUS
  <2>4. new.ids = old.ids \cup ids /\ new = [ids |-> new.ids, count |-> new.count]
    BY <2>2, <2>3
  <2>5. kept = [stored EXCEPT ![key] = new]
    BY <1>1, <2>1, <2>3 DEF SavedSnapshot
  <2>6. /\ DOMAIN kept = DOMAIN stored /\ kept[key] = new
        /\ \A k \in DOMAIN stored : k # key => kept[k] = stored[k]
        /\ kept = [k \in DOMAIN kept |-> kept[k]]
    BY <1>1, <2>5
  <2> HIDE DEF kept
  <2>7. ASSUME NEW k \in DOMAIN kept
        PROVE  /\ kept[k] = [ids |-> kept[k].ids, count |-> kept[k].count]
               /\ kept[k].ids \subseteq Written(k[2])
    <3>1. CASE k = key
      BY <2>2, <2>4, <2>6, <3>1
    <3>2. CASE k # key
      <4>1. k \in DOMAIN stored /\ kept[k] = stored[k]
        BY <2>6, <3>2
      <4> QED BY <4>1 DEF SnapshotsOK
    <3> QED BY <3>1, <3>2
  <2>8. SnapshotsOK(kept)
    BY <2>6, <2>7 DEF SnapshotsOK
  <2> QED BY <2>2, <2>4, <2>6, <2>8 DEF kept
<1>2. CASE key \notin DOMAIN stored
  <2>1. kept = [k \in DOMAIN stored \cup {key} |-> IF k = key THEN snapshot ELSE stored[k]]
    BY <1>2 DEF SavedSnapshot
  <2>2. /\ DOMAIN kept = DOMAIN stored \cup {key} /\ kept[key] = snapshot
        /\ \A k \in DOMAIN stored : k # key => kept[k] = stored[k]
        /\ kept = [k \in DOMAIN kept |-> kept[k]]
    BY <2>1
  <2> HIDE DEF kept
  <2>3. ASSUME NEW k \in DOMAIN kept
        PROVE  /\ kept[k] = [ids |-> kept[k].ids, count |-> kept[k].count]
               /\ kept[k].ids \subseteq Written(k[2])
    <3>1. CASE k = key
      BY <2>2, <3>1
    <3>2. CASE k # key
      <4>1. k \in DOMAIN stored /\ kept[k] = stored[k]
        BY <2>2, <3>2
      <4> QED BY <4>1 DEF SnapshotsOK
    <3> QED BY <3>1, <3>2
  <2>4. SnapshotsOK(kept)
    BY <2>2, <2>3 DEF SnapshotsOK
  <2> QED BY <2>2, <2>4 DEF kept
<1> QED BY <1>1, <1>2

LEMMA EligibilityAsked ==
    ASSUME EligibilityInv, NEW tables, NEW scopeTable, NEW columnMap, NEW period,
           IsTable(scopeTable), RunEligibility(tables, scopeTable, columnMap, period)
    PROVE  EligibilityInv'
<1>1. PICK admin : admin = IngestAdmin(tables, columnMap)
  OBVIOUS
<1>2. PICK scope : scope = IngestScope(scopeTable, columnMap, period)
  OBVIOUS
<1>3. PICK read : read = ReadScope(scopeTable, columnMap)
  OBVIOUS
<1>4. PICK snapshot : snapshot = IF Status(read.issues) = "BLOCKED" THEN NoSnapshot
                                 ELSE [ids |-> read.ids, count |-> Cardinality(read.ids)]
  OBVIOUS
<1>5. scope = [status |-> Status(read.issues), issues |-> read.issues, period |-> period,
               key |-> SnapshotKey(period, scopeTable), snapshot |-> snapshot]
  BY <1>2, <1>3, <1>4 DEF IngestScope
<1>6. /\ scope.status = Status(read.issues) /\ scope.snapshot = snapshot
      /\ scope.key[2] = scopeTable
  BY <1>5 DEF SnapshotKey
<1>7. PICK kept : kept = SavedSnapshot(snapshots, scope.key, snapshot)
  OBVIOUS
<1>8. Status(read.issues) # "BLOCKED" =>
         /\ read.ids \subseteq Written(scopeTable)
         /\ snapshot = [ids |-> read.ids, count |-> Cardinality(read.ids)]
  BY <1>3, <1>4, NotBlocked, ScopeRead
<1>9. CASE snapshot = NoSnapshot
  <2>1. /\ answer' = Eligibility(tables, scopeTable, columnMap, period, Apply(admin, scope))
        /\ UNCHANGED snapshots
    BY <1>1, <1>2, <1>6, <1>9 DEF RunEligibility
  <2>2. /\ answer'.tables = tables /\ answer'.scopeTable = scopeTable
        /\ answer'.columnMap = columnMap /\ answer'.result = Apply(admin, scope)
    BY <2>1 DEF Eligibility
  <2>3. ASSUME Apply(admin, scope).status # "BLOCKED"
        PROVE  Sound(tables, scopeTable, columnMap, Apply(admin, scope))
    <3>1. scope.status # "BLOCKED"
      BY <2>3 DEF Apply
    <3>2. scope.snapshot.ids = read.ids
      BY <1>6, <1>8, <3>1
    <3>3. /\ scope.snapshot.ids \subseteq Written(scopeTable)
          /\ ReadScope(scopeTable, columnMap).ids \subseteq scope.snapshot.ids
          /\ scope.status = Status(ReadScope(scopeTable, columnMap).issues)
      BY <1>3, <1>6, <1>8, <3>1, <3>2
    <3> QED BY <1>1, <2>3, <3>3, ApplySound
  <2> QED BY <2>1, <2>2, <2>3 DEF EligibilityInv
<1>10. CASE snapshot # NoSnapshot
  <2>1. PICK found : found = [scope EXCEPT !.snapshot = kept[scope.key]]
    OBVIOUS
  <2>2. /\ answer' = Eligibility(tables, scopeTable, columnMap, period, Apply(admin, found))
        /\ snapshots' = kept
    BY <1>1, <1>2, <1>6, <1>7, <1>10, <2>1 DEF RunEligibility
  <2>3. /\ answer'.tables = tables /\ answer'.scopeTable = scopeTable
        /\ answer'.columnMap = columnMap /\ answer'.result = Apply(admin, found)
    BY <2>2 DEF Eligibility
  <2>4. Status(read.issues) # "BLOCKED"
    BY <1>4, <1>10
  <2>5. /\ SnapshotsOK(kept) /\ read.ids \subseteq kept[scope.key].ids
        /\ kept[scope.key].ids \subseteq Written(scopeTable)
    <3>1. PICK key : key = scope.key
      OBVIOUS
    <3>2. read.ids \subseteq Written(key[2]) /\ SnapshotsOK(snapshots)
      BY <1>6, <1>8, <2>4, <3>1 DEF EligibilityInv
    <3>3. kept = SavedSnapshot(snapshots, key, [ids |-> read.ids, count |-> Cardinality(read.ids)])
      BY <1>7, <1>8, <2>4, <3>1
    <3> QED BY <1>6, <3>1, <3>2, <3>3, SnapshotSaved
  <2>6. found.status = Status(read.issues) /\ found.snapshot = kept[scope.key]
    BY <1>5, <2>1
  <2>7. ASSUME Apply(admin, found).status # "BLOCKED"
        PROVE  Sound(tables, scopeTable, columnMap, Apply(admin, found))
    <3>1. /\ found.snapshot.ids \subseteq Written(scopeTable)
          /\ ReadScope(scopeTable, columnMap).ids \subseteq found.snapshot.ids
          /\ found.status = Status(ReadScope(scopeTable, columnMap).issues)
      BY <1>3, <2>5, <2>6
    <3> QED BY <1>1, <2>7, <3>1, ApplySound
  <2> QED BY <2>2, <2>3, <2>5, <2>7 DEF EligibilityInv
<1> QED BY <1>9, <1>10

\* The other requests answer something else, or refuse.
LEMMA EligibilityStep ==
    ASSUME EligibilityInv, [AnalysisNext]_analysisVars
    PROVE  EligibilityInv'
<1>1. CASE AskEligibility
  <2>1. PICK tables \in AdminTables, scope \in ScopeTables, map \in ColumnMaps, period \in Periods :
           RunEligibility(tables, scope, map, period)
    BY <1>1 DEF AskEligibility
  <2>2. IsTable(scope)
    BY AnalysisAssumption
  <2> QED BY <2>1, <2>2, EligibilityAsked
<1>2. CASE AskWithoutSources
  <2>1. PICK period, issue : RefuseEligibility(period, issue)
    BY <1>2 DEF AskWithoutSources
  <2> QED BY <2>1 DEF RefuseEligibility, Eligibility, Refused, EligibilityInv
<1>3. CASE AskEnrichment
  <2>1. PICK table, map : Enrich(table, map)
    BY <1>3 DEF AskEnrichment
  <2>2. answer'.kind = "enrichment" /\ UNCHANGED snapshots
    BY <2>1 DEF Enrich
  <2> QED BY <2>2 DEF EligibilityInv
<1>4. CASE AskDiagnosis
  <2>1. answer'.kind = "diagnosis" /\ UNCHANGED snapshots
    BY <1>4 DEF AskDiagnosis, Diagnosis
  <2> QED BY <2>1 DEF EligibilityInv
<1>5. CASE AskCertification
  <2>1. answer'.kind = "certification" /\ UNCHANGED snapshots
    BY <1>5 DEF AskCertification, Certification
  <2> QED BY <2>1 DEF EligibilityInv
<1>6. CASE Done
  BY <1>6 DEF Done, EligibilityInv
<1>7. CASE UNCHANGED analysisVars
  BY <1>7 DEF analysisVars, EligibilityInv
<1> QED BY <1>1, <1>2, <1>3, <1>4, <1>5, <1>6, <1>7 DEF AnalysisNext

(***************************************************************************)
(* An eligibility that is not blocked has exactly one order for each row   *)
(* that is not empty and none in two versions, and divides them by what is *)
(* written in the payment scope, whatever the registry keeps from earlier  *)
(* requests under the same file (payment_scope.apply, over the filters of  *)
(* admin_earnings and the snapshot registry).                              *)
(***************************************************************************)
THEOREM EligibilityIsSound == AnalysisSpec => []EligibleIsScopedAndUncontested
<1>1. LegacyInit => EligibilityInv
  BY DEF LegacyInit, EligibilityInv, SnapshotsOK
<1>2. EligibilityInv /\ [AnalysisNext]_analysisVars => EligibilityInv'
  BY EligibilityStep
<1>3. EligibilityInv => EligibleIsScopedAndUncontested
  BY Zenon DEF EligibilityInv, Sound, EligibleIsScopedAndUncontested
<1> QED BY <1>1, <1>2, <1>3, PTL DEF AnalysisSpec

----------------------------------------------------------------------------
(***************************************************************************)
(* Enrichment.                                                             *)
(***************************************************************************)

\* The answer is the join of the eligibility it shows with the list it shows.
Enriched ==
    answer.kind = "enrichment" =>
       answer.enriched = EnrichedWith(answer.source.result,
                                      ReadRst(answer.rst, answer.columnMap))

LEMMA EnrichedHolds == AnalysisSpec => []Enriched
<1>1. LegacyInit => Enriched
  BY DEF LegacyInit, Enriched
<1>2. Enriched /\ [AnalysisNext]_analysisVars => Enriched'
  <2> SUFFICES ASSUME Enriched, [AnalysisNext]_analysisVars PROVE Enriched'
    OBVIOUS
  <2>1. CASE AskEligibility
    <3>1. PICK tables, scope, map, period : RunEligibility(tables, scope, map, period)
      BY <2>1 DEF AskEligibility
    <3>2. \E result : answer' = Eligibility(tables, scope, map, period, result)
      BY <3>1, Zenon DEF RunEligibility
    <3> QED BY <3>2 DEF Eligibility, Enriched
  <2>2. CASE AskWithoutSources
    <3>1. PICK period, issue : RefuseEligibility(period, issue)
      BY <2>2 DEF AskWithoutSources
    <3> QED BY <3>1 DEF RefuseEligibility, Eligibility, Enriched
  <2>3. CASE AskEnrichment
    BY <2>3 DEF AskEnrichment, Enrich, Enriched
  <2>4. CASE AskDiagnosis
    BY <2>4 DEF AskDiagnosis, Diagnosis, Enriched
  <2>5. CASE AskCertification
    BY <2>5 DEF AskCertification, Certification, Enriched
  <2>6. CASE Done
    BY <2>6 DEF Done, Enriched
  <2>7. CASE UNCHANGED analysisVars
    BY <2>7 DEF analysisVars, Enriched
  <2> QED BY <2>1, <2>2, <2>3, <2>4, <2>5, <2>6, <2>7 DEF AnalysisNext
<1> QED BY <1>1, <1>2, PTL DEF AnalysisSpec

\* A list that is not blocked left out no row, and no two of its rows disagree.
LEMMA CleanList ==
    ASSUME NEW table, NEW map, ReadRst(table, map).status # "BLOCKED"
    PROVE  LET columns == RstColumns(table, map)
               rows == {row \in Range(table.rows) : ~Empty(row)}
               partners == ReadRst(table, map).partners
           IN  /\ partners = {RstPartner(row, columns) : row \in rows}
               /\ \A p, q \in partners : q.restaurant = p.restaurant => q = p
<1> DEFINE columns == RstColumns(table, map)
           filled == {row \in Range(table.rows) : ~Empty(row)}
           identified == {row \in filled : RstIdentity(row, columns)}
           priced == {row \in identified : Cell(row, columns, "commission") # Bad}
           partners == {RstPartner(row, columns) : row \in priced}
           issues == (IF identified # filled THEN {"INVALID_RST_IDENTITY"} ELSE {})
                     \cup (IF priced # identified THEN {"INVALID_RST_FINANCIAL_METADATA"} ELSE {})
                     \cup (IF Undisputed(partners) # partners THEN {"CONFLICTING_RST_RESTAURANT_ID"}
                           ELSE {})
<1>1. ReadRst(table, map) = [status |-> Status(issues), partners |-> Undisputed(partners),
                             issues |-> issues]
  <2>1. table.readable /\ {"restaurant", "name"} \subseteq DOMAIN columns
    BY Zenon DEF ReadRst
  <2> QED BY <2>1, Zenon DEF ReadRst
<1>2. PICK found : found = issues
  OBVIOUS
<1>3. issues = {}
  <2>1. Status(found) # "BLOCKED"
    BY <1>1, <1>2
  <2>2. found \ Warnings = {}
    BY <2>1 DEF Status
  <2> QED BY <1>2, <2>2 DEF Warnings
<1>4. identified = filled /\ priced = identified /\ Undisputed(partners) = partners
  BY <1>3
<1>5. \A p, q \in partners : q.restaurant = p.restaurant => q = p
  BY <1>4 DEF Undisputed
<1> QED BY <1>1, <1>4, <1>5

\* Whatever the tables, the list and its column map: an enrichment that succeeded
\* gives every eligible order the one partner that all rows of its restaurant make
\* (rst_enrichment.py, ingest_master and enrich).
THEOREM EnrichmentsAgree == AnalysisSpec => []EnrichedFromAgreeingRows
<1>1. Enriched => EnrichedFromAgreeingRows
  <2> DEFINE columns == RstColumns(answer.rst, answer.columnMap)
             rst == ReadRst(answer.rst, answer.columnMap)
             rows(order) == {row \in Range(answer.rst.rows) :
                               ~Empty(row) /\ row[columns["restaurant"]] = order.restaurant}
             made(order) == {RstPartner(row, columns) : row \in rows(order)}
  <2> SUFFICES ASSUME Enriched, answer.kind = "enrichment",
                      answer.enriched.status = "SUCCESS",
                      NEW order \in answer.source.result.eligible
               PROVE  /\ <<order, made(order)>> \in answer.enriched.records
                      /\ Cardinality(made(order)) = 1
    BY DEF EnrichedFromAgreeingRows
  <2>1. answer.enriched = EnrichedWith(answer.source.result, rst)
    BY DEF Enriched
  <2>2. /\ rst.status # "BLOCKED"
        /\ {o.restaurant : o \in answer.source.result.eligible}
              \subseteq {p.restaurant : p \in rst.partners}
        /\ answer.enriched.records
              = {<<o, {p \in rst.partners : p.restaurant = o.restaurant}>> :
                    o \in answer.source.result.eligible}
    <3>1. PICK e, r, enriched : /\ e = answer.source.result /\ r = rst
                                /\ enriched = EnrichedWith(e, r)
      OBVIOUS
    <3>2. enriched.status = "SUCCESS"
      BY <2>1, <3>1
    <3>3. ~(e.status = "BLOCKED" \/ r.status = "BLOCKED")
      BY <3>1, <3>2 DEF EnrichedWith
    <3>4. {o.restaurant : o \in e.eligible} \subseteq {p.restaurant : p \in r.partners}
      BY <3>1, <3>2 DEF EnrichedWith
    <3>5. enriched.records
            = {<<o, {p \in r.partners : p.restaurant = o.restaurant}>> : o \in e.eligible}
      BY <3>1, <3>3 DEF EnrichedWith
    <3> QED BY <2>1, <3>1, <3>3, <3>4, <3>5
  <2>3. /\ rst.partners = {RstPartner(row, columns) :
                              row \in {r \in Range(answer.rst.rows) : ~Empty(r)}}
        /\ \A p, q \in rst.partners : q.restaurant = p.restaurant => q = p
    BY <2>2, CleanList
  <2>4. {p \in rst.partners : p.restaurant = order.restaurant} = made(order)
    BY <2>3 DEF RstPartner
  <2>5. PICK partner \in rst.partners : partner.restaurant = order.restaurant
    BY <2>2
  <2>6. made(order) = {partner}
    BY <2>3, <2>4, <2>5
  <2>7. <<order, made(order)>> \in answer.enriched.records
    BY <2>2, <2>4
  <2> QED BY <2>6, <2>7, FS_Singleton
<1> QED BY <1>1, EnrichedHolds, PTL

----------------------------------------------------------------------------
(* Orders of finite sets *)

Compares(S, R) == \A x, y \in S : x # y => <<x, y>> \in R \/ <<y, x>> \in R
IsTransitive(S, R) ==
    \A x, y, z \in S : <<x, y>> \in R /\ <<y, z>> \in R => <<x, z>> \in R
HasFirst(S, R) == \E x \in S : \A y \in S \ {x} : <<x, y>> \in R

\* A finite set has a first element in a total, transitive relation: the smallest
\* part of it without one would have one more part without one inside it.
LEMMA FirstExists ==
    ASSUME NEW S, IsFiniteSet(S), S # {}, NEW R, Compares(S, R), IsTransitive(S, R)
    PROVE  HasFirst(S, R)
<1> DEFINE F == {T \in SUBSET S : T # {} /\ ~HasFirst(T, R)}
<1> SUFFICES ASSUME ~HasFirst(S, R) PROVE FALSE
  OBVIOUS
<1>1. S \in F
  OBVIOUS
<1>2. \A T \in F : IsFiniteSet(T)
  BY FS_Subset
<1> HIDE DEF F
<1>3. PICK T \in F : \A U \in F : Cardinality(T) <= Cardinality(U)
  BY <1>1, <1>2, SmallestSet
<1>4. T \subseteq S /\ T # {} /\ ~HasFirst(T, R)
  BY <1>3 DEF F
<1>5. PICK x : x \in T
  BY <1>4
<1>6. PICK U : U = T \ {x}
  OBVIOUS
<1>7. Cardinality(U) = Cardinality(T) - 1 /\ Cardinality(T) \in Nat
  BY <1>2, <1>3, <1>5, <1>6, FS_RemoveElement, FS_CardinalityType
<1>8. U \notin F
  BY <1>3, <1>7
<1>9. CASE U = {}
  <2>1. T = {x}
    BY <1>5, <1>6, <1>9
  <2> QED BY <1>4, <2>1 DEF HasFirst
<1>10. CASE U # {}
  <2>1. HasFirst(U, R)
    BY <1>4, <1>6, <1>8, <1>10 DEF F
  <2>2. PICK y \in U : \A z \in U \ {y} : <<y, z>> \in R
    BY <2>1 DEF HasFirst
  <2>3. x \in S /\ y \in S /\ x # y /\ y \in T
    BY <1>4, <1>5, <1>6
  <2>4. CASE <<y, x>> \in R
    <3>1. \A z \in T \ {y} : <<y, z>> \in R
      BY <1>6, <2>2, <2>4
    <3> QED BY <1>4, <2>3, <3>1 DEF HasFirst
  <2>5. CASE <<x, y>> \in R
    <3>1. ASSUME NEW z \in T \ {x} PROVE <<x, z>> \in R
      BY <1>4, <1>6, <2>2, <2>3, <2>5 DEF IsTransitive
    <3> QED BY <1>4, <1>5, <3>1 DEF HasFirst
  <2> QED BY <2>3, <2>4, <2>5 DEF Compares
<1> QED BY <1>9, <1>10

\* The values of a function on 1 .. n are finitely many.
LEMMA FiniteRange ==
    ASSUME NEW n \in Nat, NEW f, f = [i \in 1 .. n |-> f[i]]
    PROVE  IsFiniteSet({f[i] : i \in 1 .. n})
<1>1. IsFiniteSet(1 .. n)
  BY FS_Interval
<1>2. f \in Surjection(1 .. n, {f[i] : i \in 1 .. n})
  BY DEF Surjection
<1> QED BY <1>1, <1>2, FS_Surjection

\* A finite set of integers has a greatest and a least element.
LEMMA Extremes ==
    ASSUME NEW S, S \subseteq Int, IsFiniteSet(S), S # {}
    PROVE  /\ Max(S) \in S /\ Min(S) \in S
           /\ \A x \in S : Min(S) <= x /\ x <= Max(S)
<1>1. PICK R : R = {p \in S \X S : p[1] < p[2]}
  OBVIOUS
<1>2. \A x, y \in S : <<x, y>> \in R <=> x < y
  BY <1>1
<1>3. PICK Q : Q = {p \in S \X S : p[1] > p[2]}
  OBVIOUS
<1>4. \A x, y \in S : <<x, y>> \in Q <=> x > y
  BY <1>3
<1>5. PICK least \in S : \A y \in S \ {least} : <<least, y>> \in R
  <2>1. Compares(S, R) /\ IsTransitive(S, R)
    BY <1>2 DEF Compares, IsTransitive
  <2>2. HasFirst(S, R)
    BY <2>1, FirstExists
  <2> QED BY <2>2 DEF HasFirst
<1>6. PICK greatest \in S : \A y \in S \ {greatest} : <<greatest, y>> \in Q
  <2>1. Compares(S, Q) /\ IsTransitive(S, Q)
    BY <1>4 DEF Compares, IsTransitive
  <2>2. HasFirst(S, Q)
    BY <2>1, FirstExists
  <2> QED BY <2>2 DEF HasFirst
<1>7. ASSUME NEW y \in S PROVE least <= y /\ greatest >= y
  <2>1. y = least \/ least < y
    BY <1>2, <1>5
  <2>2. y = greatest \/ greatest > y
    BY <1>4, <1>6
  <2> QED BY <2>1, <2>2
<1> QED BY <1>7 DEF Max, Min

----------------------------------------------------------------------------
(* Diagnosis *)

\* The occurrences of a conflict are a finite list that is not empty.
LEMMA Occurrences ==
    ASSUME NEW conflict, IsConflict(conflict)
    PROVE  \E n \in Nat : n >= 1 /\ DOMAIN conflict.occurrences = 1 .. n
                           /\ Len(conflict.occurrences) = n
<1>1. PICK list : list = conflict.occurrences
  OBVIOUS
<1>2. PICK S : list \in Seq(S) /\ list # <<>>
  BY <1>1 DEF IsConflict
<1>3. Len(list) \in Nat /\ DOMAIN list = 1 .. Len(list) /\ Len(list) # 0
  BY <1>2
<1> QED BY <1>1, <1>3

\* Weeks of 1 to 53 are one distance of nothing apart only when they are one.
LEMMA OneWeek ==
    ASSUME NEW conflict, IsConflict(conflict)
    PROVE  LET list == conflict.occurrences
           IN  /\ WeekSpan(list) \in Nat
               /\ WeekSpan(list) = 0 <=>
                     \A j, k \in DOMAIN list : list[j].year = list[k].year /\ list[j].week = list[k].week
<1>1. PICK list : list = conflict.occurrences
  OBVIOUS
<1>2. PICK n \in Nat : n >= 1 /\ DOMAIN list = 1 .. n
  BY <1>1, Occurrences
<1>3. \A i \in 1 .. n : list[i].year \in Nat /\ list[i].week \in 1 .. 53
  BY <1>1, <1>2 DEF IsConflict, IsPlace
<1>4. PICK f : f = [i \in 1 .. n |-> <<list[i].year, list[i].week>>]
  OBVIOUS
<1>5. PICK weeks : weeks = Weeks(list)
  OBVIOUS
<1>6. weeks = {f[i] : i \in 1 .. n} /\ f = [i \in 1 .. n |-> f[i]]
  BY <1>2, <1>4, <1>5 DEF Weeks
<1>7. IsFiniteSet(weeks)
  BY <1>6, FiniteRange
<1>8. /\ \A w \in weeks : w[1] \in Nat /\ w[2] \in 1 .. 53 /\ w = <<w[1], w[2]>>
      /\ \A i \in 1 .. n : <<list[i].year, list[i].week>> \in weeks
      /\ \A w \in weeks : \E i \in 1 .. n : w = <<list[i].year, list[i].week>>
      /\ weeks # {}
  BY <1>2, <1>3, <1>4, <1>6
<1>9. PICK R : R = {p \in weeks \X weeks : EarlierWeek(p[1], p[2])}
  OBVIOUS
<1>10. \A v, w \in weeks : <<v, w>> \in R <=> EarlierWeek(v, w)
  BY <1>9
<1>11. PICK Q : Q = {p \in weeks \X weeks : EarlierWeek(p[2], p[1])}
  OBVIOUS
<1>12. \A v, w \in weeks : <<v, w>> \in Q <=> EarlierWeek(w, v)
  BY <1>11
<1>13. /\ \A v, w \in weeks : v # w => EarlierWeek(v, w) \/ EarlierWeek(w, v)
       /\ \A u, v, w \in weeks : EarlierWeek(u, v) /\ EarlierWeek(v, w) => EarlierWeek(u, w)
  BY <1>8 DEF EarlierWeek
<1>14. \E w \in weeks : \A v \in weeks \ {w} : EarlierWeek(w, v)
  <2>1. Compares(weeks, R) /\ IsTransitive(weeks, R)
    BY <1>10, <1>13 DEF Compares, IsTransitive
  <2>2. HasFirst(weeks, R)
    BY <1>7, <1>8, <2>1, FirstExists
  <2> QED BY <1>10, <2>2 DEF HasFirst
<1>15. \E w \in weeks : \A v \in weeks \ {w} : EarlierWeek(v, w)
  <2>1. Compares(weeks, Q) /\ IsTransitive(weeks, Q)
    BY <1>12, <1>13 DEF Compares, IsTransitive
  <2>2. HasFirst(weeks, Q)
    BY <1>7, <1>8, <2>1, FirstExists
  <2> QED BY <1>12, <2>2 DEF HasFirst
<1> DEFINE first == CHOOSE w \in weeks : \A v \in weeks \ {w} : EarlierWeek(w, v)
           last == CHOOSE w \in weeks : \A v \in weeks \ {w} : EarlierWeek(v, w)
<1>16. WeekSpan(list) = WeekDistance(first, last)
  BY <1>5 DEF WeekSpan
<1>17. /\ first \in weeks /\ \A v \in weeks \ {first} : EarlierWeek(first, v)
  BY <1>14
<1>18. /\ last \in weeks /\ \A v \in weeks \ {last} : EarlierWeek(v, last)
  BY <1>15
<1> HIDE DEF first, last
<1>19. CASE first = last
  <2>1. \A w \in weeks : w = first
    <3> SUFFICES ASSUME NEW w \in weeks, w # first PROVE FALSE
      OBVIOUS
    <3>1. EarlierWeek(first, w) /\ EarlierWeek(w, first)
      BY <1>17, <1>18, <1>19
    <3> QED BY <1>8, <1>17, <3>1 DEF EarlierWeek
  <2>2. WeekSpan(list) = 0
    BY <1>8, <1>16, <1>17, <1>19 DEF WeekDistance
  <2>3. ASSUME NEW j \in 1 .. n, NEW k \in 1 .. n
        PROVE  list[j].year = list[k].year /\ list[j].week = list[k].week
    <3>1. <<list[j].year, list[j].week>> = first
      BY <1>8, <2>1
    <3>2. <<list[k].year, list[k].week>> = first
      BY <1>8, <2>1
    <3>3. <<list[j].year, list[j].week>> = <<list[k].year, list[k].week>>
      BY <3>1, <3>2
    <3> QED BY <3>3
  <2> QED BY <1>1, <1>2, <2>2, <2>3
<1>20. CASE first # last
  <2>1. EarlierWeek(first, last)
    BY <1>17, <1>18, <1>20
  <2>2. WeekDistance(first, last) \in Nat /\ WeekDistance(first, last) # 0
    <3>1. PICK a, b, c, d : a = first[1] /\ b = first[2] /\ c = last[1] /\ d = last[2]
      OBVIOUS
    <3>2. a \in Nat /\ b \in 1 .. 53 /\ c \in Nat /\ d \in 1 .. 53 /\ (a < c \/ (a = c /\ b < d))
      BY <1>8, <1>17, <1>18, <2>1, <3>1 DEF EarlierWeek
    <3>3. WeekDistance(first, last) = IF a = c THEN d - b ELSE 53 * (c - a) + d - b
      BY <3>1 DEF WeekDistance, WeeksPerYear
    <3> QED BY <3>2, <3>3
  <2>3. PICK i \in 1 .. n, j \in 1 .. n : first = <<list[i].year, list[i].week>> /\ last = <<list[j].year, list[j].week>>
    BY <1>8, <1>17, <1>18
  <2>4. ~(list[i].year = list[j].year /\ list[i].week = list[j].week)
    BY <1>20, <2>3
  <2> QED BY <1>1, <1>2, <1>16, <2>2, <2>4
<1> QED BY <1>19, <1>20

\* What counts as potentially automatic is what has that category.
LEMMA AutomaticCategory ==
    ASSUME NEW conflict
    PROVE  AutoResolvable(conflict) <=> Category(conflict) = "AUTO_RESOLVABLE"
<1>1. PICK fields : fields = MaterialFields(conflict)
  OBVIOUS
<1>2. CASE fields = {} \/ NegligibleFinancial(conflict)
  BY <1>1, <1>2 DEF AutoResolvable, Category
<1>3. CASE fields # {} /\ ~NegligibleFinancial(conflict) /\ CancellationEnrichment(conflict)
  <2>1. fields = {"cancellation_reason"}
    BY <1>1, <1>3 DEF CancellationEnrichment
  <2>2. fields \cap Identity = {} /\ fields \cap Financial = {} /\ fields \cap Operational # {}
    BY <2>1 DEF Identity, Financial, Money, Operational
  <2>3. Groups(fields) = {"OPERATIONAL"}
    BY <2>2 DEF Groups
  <2> QED BY <1>1, <1>3, <2>2, <2>3 DEF AutoResolvable, Category, Lifecycle
<1>4. CASE fields # {} /\ ~NegligibleFinancial(conflict) /\ ~CancellationEnrichment(conflict)
  BY <1>1, <1>4 DEF AutoResolvable, Category
<1> QED BY <1>2, <1>3, <1>4

\* Three disjoint sets that are 1 .. n together have n elements.
LEMMA ThreeParts ==
    ASSUME NEW n \in Nat, NEW A, NEW B, NEW C, A \cup B \cup C = 1 .. n,
           A \cap B = {}, A \cap C = {}, B \cap C = {}
    PROVE  /\ Cardinality(A) \in Nat /\ Cardinality(B) \in Nat /\ Cardinality(C) \in Nat
           /\ Cardinality(A) + Cardinality(B) + Cardinality(C) = n
<1>1. IsFiniteSet(1 .. n) /\ Cardinality(1 .. n) = n
  BY FS_Interval
<1>2. IsFiniteSet(A) /\ IsFiniteSet(B) /\ IsFiniteSet(C) /\ IsFiniteSet(A \cup B)
  <2>1. A \subseteq 1 .. n /\ B \subseteq 1 .. n /\ C \subseteq 1 .. n /\ A \cup B \subseteq 1 .. n
    OBVIOUS
  <2> QED BY <1>1, <2>1, FS_Subset
<1>3. /\ Cardinality(A) \in Nat /\ Cardinality(B) \in Nat /\ Cardinality(C) \in Nat
      /\ Cardinality(A \cup B) \in Nat
  BY <1>2, FS_CardinalityType
<1>4. Cardinality(A \cup B) = Cardinality(A) + Cardinality(B) - Cardinality(A \cap B)
  BY <1>2, FS_Union
<1>5. Cardinality((A \cup B) \cup C)
         = Cardinality(A \cup B) + Cardinality(C) - Cardinality((A \cup B) \cap C)
  BY <1>2, FS_Union
<1>6. Cardinality(A \cap B) = 0 /\ Cardinality((A \cup B) \cap C) = 0
  <2>1. A \cap B = {} /\ (A \cup B) \cap C = {}
    OBVIOUS
  <2> QED BY <2>1, FS_EmptySet
<1>7. Cardinality((A \cup B) \cup C) = n
  BY <1>1
<1>8. PICK a \in Nat, b \in Nat, c \in Nat, ab \in Nat :
         a = Cardinality(A) /\ b = Cardinality(B) /\ c = Cardinality(C) /\ ab = Cardinality(A \cup B)
  BY <1>3
<1>9. ab = a + b - 0
  BY <1>4, <1>6, <1>8
<1>10. n = ab + c - 0
  BY <1>5, <1>6, <1>7, <1>8
<1>11. a + b + c = n
  BY <1>9, <1>10
<1> QED BY <1>8, <1>11

Adds(conflicts, result) ==
    LET sameWeek == {i \in DOMAIN conflicts :
                       \A j, k \in DOMAIN conflicts[i].occurrences :
                          LET one == conflicts[i].occurrences[j]
                              two == conflicts[i].occurrences[k]
                          IN  one.year = two.year /\ one.week = two.week}
    IN  /\ result.auto = Cardinality({i \in DOMAIN conflicts :
                                        result.categories[i] = "AUTO_RESOLVABLE"})
        /\ result.manual = Cardinality({i \in DOMAIN conflicts :
                                          result.categories[i] # "AUTO_RESOLVABLE"})
        /\ result.sameWeek + result.adjacentWeek + result.separatedWeek = result.total
        /\ result.sameWeek = Cardinality(sameWeek)

\* A diagnosis that is not refused adds up.
LEMMA DiagnosisAdds ==
    ASSUME NEW conflicts \in Conflicts, NEW duplicates, NEW issues, NEW observations
    PROVE  Adds(conflicts, Analyze(conflicts, duplicates, issues, observations))
<1>a. PICK result : result = Analyze(conflicts, duplicates, issues, observations)
  OBVIOUS
<1>b. PICK automatic : automatic = {i \in DOMAIN conflicts : AutoResolvable(conflicts[i])}
  OBVIOUS
<1>c. PICK same : same = {i \in DOMAIN conflicts : WeekSpan(conflicts[i].occurrences) = 0}
  OBVIOUS
<1>d. PICK near : near = {i \in DOMAIN conflicts : WeekSpan(conflicts[i].occurrences) = 1}
  OBVIOUS
<1>e. PICK far : far = {i \in DOMAIN conflicts : WeekSpan(conflicts[i].occurrences) >= 2}
  OBVIOUS
<1>1. /\ result.total = Len(conflicts)
      /\ result.auto = Cardinality(automatic)
      /\ result.manual = Len(conflicts) - Cardinality(automatic)
      /\ result.sameWeek = Cardinality(same) /\ result.adjacentWeek = Cardinality(near)
      /\ result.separatedWeek = Cardinality(far)
      /\ result.categories = [i \in DOMAIN conflicts |-> Category(conflicts[i])]
  <2>1. LET given == Analyze(conflicts, duplicates, issues, observations)
            automated == {i \in DOMAIN conflicts : AutoResolvable(conflicts[i])}
            span(i) == WeekSpan(conflicts[i].occurrences)
        IN  /\ given.total = Len(conflicts)
            /\ given.auto = Cardinality(automated)
            /\ given.manual = Len(conflicts) - Cardinality(automated)
            /\ given.sameWeek = Cardinality({i \in DOMAIN conflicts : span(i) = 0})
            /\ given.adjacentWeek = Cardinality({i \in DOMAIN conflicts : span(i) = 1})
            /\ given.separatedWeek = Cardinality({i \in DOMAIN conflicts : span(i) >= 2})
            /\ given.categories = [i \in DOMAIN conflicts |-> Category(conflicts[i])]
    BY Zenon DEF Analyze, Count
  <2>2. PICK given : given = Analyze(conflicts, duplicates, issues, observations)
    OBVIOUS
  <2>3. PICK categories : categories = [i \in DOMAIN conflicts |-> Category(conflicts[i])]
    OBVIOUS
  <2>4. /\ given.total = Len(conflicts)
        /\ given.auto = Cardinality(automatic)
        /\ given.manual = Len(conflicts) - Cardinality(automatic)
        /\ given.sameWeek = Cardinality(same)
        /\ given.adjacentWeek = Cardinality(near)
        /\ given.separatedWeek = Cardinality(far)
        /\ given.categories = categories
    BY <1>b, <1>c, <1>d, <1>e, <2>1, <2>2, <2>3, SMT
  <2>5. given = result
    BY <1>a, <2>2
  <2> QED BY <2>3, <2>4, <2>5, SMT
<1>2. PICK n \in Nat : n = Len(conflicts) /\ DOMAIN conflicts = 1 .. n
  BY AnalysisAssumption
<1>3. \A i \in 1 .. n : IsConflict(conflicts[i])
  BY <1>2, AnalysisAssumption
<1>4. {i \in DOMAIN conflicts : result.categories[i] = "AUTO_RESOLVABLE"} = automatic
  BY <1>1, <1>b, AutomaticCategory
<1>5. {i \in DOMAIN conflicts : result.categories[i] # "AUTO_RESOLVABLE"} = (1 .. n) \ automatic
  BY <1>2, <1>4
<1>6. Cardinality((1 .. n) \ automatic) = n - Cardinality(automatic)
  <2>1. IsFiniteSet(1 .. n) /\ Cardinality(1 .. n) = n
    BY FS_Interval
  <2>2. (1 .. n) \cap automatic = automatic
    BY <1>2, <1>b
  <2>3. Cardinality((1 .. n) \ automatic) = Cardinality(1 .. n) - Cardinality((1 .. n) \cap automatic)
    BY <2>1, FS_Difference
  <2> QED BY <2>1, <2>2, <2>3
<1>7. \A i \in 1 .. n : WeekSpan(conflicts[i].occurrences) \in Nat
  BY <1>3, OneWeek
<1>8. same = {i \in DOMAIN conflicts :
                 \A j, k \in DOMAIN conflicts[i].occurrences :
                    /\ conflicts[i].occurrences[j].year = conflicts[i].occurrences[k].year
                    /\ conflicts[i].occurrences[j].week = conflicts[i].occurrences[k].week}
  BY <1>2, <1>3, <1>c, OneWeek
<1>9. Cardinality(same) + Cardinality(near) + Cardinality(far) = n
  <2>1. PICK d : d = [i \in 1 .. n |-> WeekSpan(conflicts[i].occurrences)]
    OBVIOUS
  <2>2. /\ same = {i \in 1 .. n : d[i] = 0} /\ near = {i \in 1 .. n : d[i] = 1}
        /\ far = {i \in 1 .. n : d[i] >= 2}
    BY <1>2, <1>c, <1>d, <1>e, <2>1
  <2>3. \A i \in 1 .. n : d[i] \in Nat
    BY <1>7, <2>1
  <2>4. \A i \in 1 .. n : i \in same \/ i \in near \/ i \in far
    BY <2>2, <2>3
  <2>5. /\ same \cup near \cup far = 1 .. n
        /\ same \cap near = {} /\ same \cap far = {} /\ near \cap far = {}
    BY <2>2, <2>4
  <2> QED BY <2>5, ThreeParts
<1>10. Adds(conflicts, result)
  BY <1>1, <1>2, <1>4, <1>5, <1>6, <1>8, <1>9 DEF Adds
<1> QED BY <1>a, <1>10

Harmless(conflict) ==
    LET places == DOMAIN conflict.occurrences
        version(j) == conflict.occurrences[j]
        reason(j) == ValueOf(version(j), "cancellation_reason")
        differs(j, k, f) ==
           f \in conflict.fields /\ ValueOf(version(j), f) # ValueOf(version(k), f)
    IN  /\ \A j, k \in places :
              /\ ~differs(j, k, "restaurant_id")
              /\ ~differs(j, k, "operational_status")
              /\ \A f \in Money : differs(j, k, f) =>
                    /\ version(j).values[f] # Null
                    /\ version(k).values[f] # Null
                    /\ version(j).values[f][1] - version(k).values[f][1]
                          \in -Tolerance .. Tolerance
        /\ (\E j, k \in places : differs(j, k, "cancellation_reason")) =>
              \E first, last \in places :
                 /\ \A j \in places : /\ ~Before(version(j), version(first))
                                      /\ ~Before(version(last), version(j))
                 /\ reason(first) = Null /\ reason(last) # Null
                 /\ Len(conflict.occurrences) = 2 =>
                       \A j \in places : reason(j) \in {Null, reason(last)}

\* One version is the latest, and no version comes after it.
LEMMA LatestStands ==
    ASSUME NEW conflict, IsConflict(conflict)
    PROVE  \E last \in DOMAIN conflict.occurrences :
              /\ Latest(conflict) = conflict.occurrences[last]
              /\ \A j \in DOMAIN conflict.occurrences :
                    ~Before(conflict.occurrences[last], conflict.occurrences[j])
<1>1. PICK n \in Nat : n >= 1 /\ DOMAIN conflict.occurrences = 1 .. n
  BY Occurrences
<1>2. PICK list : list = conflict.occurrences
  OBVIOUS
<1>3. \A i \in 1 .. n : list[i].modified \in Int /\ list[i].week \in Int /\ list[i].row \in Int
  <2>1. \A i \in 1 .. n : IsPlace(list[i])
    BY <1>1, <1>2 DEF IsConflict
  <2> QED BY <2>1 DEF IsPlace
<1>4. \A i, j \in 1 .. n :
         Follows(conflict, j, i) <=>
            Before(list[i], list[j]) \/ (~Before(list[j], list[i]) /\ i < j)
  BY <1>2 DEF Follows
<1>5. PICK R : R = {p \in (1 .. n) \X (1 .. n) : Follows(conflict, p[1], p[2])}
  OBVIOUS
<1>6. \A i, j \in 1 .. n : <<i, j>> \in R <=> Follows(conflict, i, j)
  BY <1>5
<1>7. Compares(1 .. n, R)
  BY <1>3, <1>4, <1>6 DEF Compares, Before
<1>8. IsTransitive(1 .. n, R)
  <2> SUFFICES ASSUME NEW x \in 1 .. n, NEW y \in 1 .. n, NEW z \in 1 .. n,
                      Follows(conflict, x, y), Follows(conflict, y, z)
               PROVE  Follows(conflict, x, z)
    BY <1>6 DEF IsTransitive
  <2> QED BY <1>3, <1>4 DEF Before
<1>9. \E x \in 1 .. n : \A y \in (1 .. n) \ {x} : Follows(conflict, x, y)
  <2>1. IsFiniteSet(1 .. n)
    BY FS_Interval
  <2>a. 1 \in 1 .. n
    BY <1>1
  <2>2. HasFirst(1 .. n, R)
    BY <1>7, <1>8, <2>1, <2>a, FirstExists
  <2> QED BY <1>6, <2>2 DEF HasFirst
<1>10. PICK last : last = CHOOSE i \in 1 .. n : \A j \in (1 .. n) \ {i} : Follows(conflict, i, j)
  OBVIOUS
<1>11. last \in 1 .. n /\ \A j \in (1 .. n) \ {last} : Follows(conflict, last, j)
  BY <1>9, <1>10
<1>12. Latest(conflict) = list[last]
  BY <1>1, <1>2, <1>10 DEF Latest
<1>13. \A j \in 1 .. n : ~Before(list[last], list[j])
  BY <1>3, <1>4, <1>11 DEF Before
<1> QED BY <1>1, <1>2, <1>11, <1>12, <1>13

\* And one is the first, and no version comes before it.
LEMMA FirstStands ==
    ASSUME NEW conflict, IsConflict(conflict)
    PROVE  \E first \in DOMAIN conflict.occurrences :
              /\ First(conflict) = conflict.occurrences[first]
              /\ \A j \in DOMAIN conflict.occurrences :
                    ~Before(conflict.occurrences[j], conflict.occurrences[first])
<1>1. PICK n \in Nat : n >= 1 /\ DOMAIN conflict.occurrences = 1 .. n
  BY Occurrences
<1>2. PICK list : list = conflict.occurrences
  OBVIOUS
<1>3. \A i \in 1 .. n : list[i].modified \in Int /\ list[i].week \in Int /\ list[i].row \in Int
  <2>1. \A i \in 1 .. n : IsPlace(list[i])
    BY <1>1, <1>2 DEF IsConflict
  <2> QED BY <2>1 DEF IsPlace
<1>4. \A i, j \in 1 .. n :
         Follows(conflict, j, i) <=>
            Before(list[i], list[j]) \/ (~Before(list[j], list[i]) /\ i < j)
  BY <1>2 DEF Follows
<1>5. PICK R : R = {p \in (1 .. n) \X (1 .. n) : Follows(conflict, p[2], p[1])}
  OBVIOUS
<1>6. \A i, j \in 1 .. n : <<i, j>> \in R <=> Follows(conflict, j, i)
  BY <1>5
<1>7. Compares(1 .. n, R)
  BY <1>3, <1>4, <1>6 DEF Compares, Before
<1>8. IsTransitive(1 .. n, R)
  <2> SUFFICES ASSUME NEW x \in 1 .. n, NEW y \in 1 .. n, NEW z \in 1 .. n,
                      Follows(conflict, y, x), Follows(conflict, z, y)
               PROVE  Follows(conflict, z, x)
    BY <1>6 DEF IsTransitive
  <2> QED BY <1>3, <1>4 DEF Before
<1>9. \E x \in 1 .. n : \A y \in (1 .. n) \ {x} : Follows(conflict, y, x)
  <2>1. IsFiniteSet(1 .. n)
    BY FS_Interval
  <2>a. 1 \in 1 .. n
    BY <1>1
  <2>2. HasFirst(1 .. n, R)
    BY <1>7, <1>8, <2>1, <2>a, FirstExists
  <2> QED BY <1>6, <2>2 DEF HasFirst
<1>10. PICK first : first = CHOOSE i \in 1 .. n : \A j \in (1 .. n) \ {i} : Follows(conflict, j, i)
  OBVIOUS
<1>11. first \in 1 .. n /\ \A j \in (1 .. n) \ {first} : Follows(conflict, j, first)
  BY <1>9, <1>10
<1>12. First(conflict) = list[first]
  BY <1>1, <1>2, <1>10 DEF First
<1>13. \A j \in 1 .. n : ~Before(list[j], list[first])
  BY <1>3, <1>4, <1>11 DEF Before
<1> QED BY <1>1, <1>2, <1>11, <1>12, <1>13

\* Where every version of an order has an amount and they are within the
\* tolerance of each other, any two of them are.
LEMMA WithinTolerance ==
    ASSUME NEW conflict, IsConflict(conflict), NEW f \in conflict.fields \cap Money,
           Amounts(conflict, f).count = Len(conflict.occurrences),
           Spread(Amounts(conflict, f)) <= Tolerance
    PROVE  \A j, k \in DOMAIN conflict.occurrences :
              /\ conflict.occurrences[j].values[f] # Null
              /\ conflict.occurrences[k].values[f] # Null
              /\ conflict.occurrences[j].values[f][1] - conflict.occurrences[k].values[f][1]
                    \in -Tolerance .. Tolerance
<1>1. PICK n \in Nat : /\ n >= 1 /\ DOMAIN conflict.occurrences = 1 .. n
                       /\ Len(conflict.occurrences) = n
  BY Occurrences
<1>2. PICK value : value = [i \in 1 .. n |-> conflict.occurrences[i].values[f]]
  OBVIOUS
<1>3. PICK present : present = {i \in 1 .. n : value[i] # Null}
  OBVIOUS
<1>4. Amounts(conflict, f) = [set |-> {value[i][1] : i \in present}, count |-> Cardinality(present)]
  BY <1>1, <1>2, <1>3 DEF Amounts
<1>5. present = 1 .. n
  <2>1. IsFiniteSet(1 .. n) /\ Cardinality(1 .. n) = n
    BY <1>1, FS_Interval
  <2>2. Cardinality(present) = n
    BY <1>1, <1>4
  <2> QED BY <1>3, <2>1, <2>2, FS_Subset
<1>6. \A i \in 1 .. n : value[i] # Null /\ value[i][1] \in Int
  <2>1. \A i \in 1 .. n : value[i] # Null
    BY <1>3, <1>5
  <2>2. \A i \in 1 .. n : value[i] # Null => value[i][1] \in Int
    BY <1>1, <1>2 DEF IsConflict
  <2> QED BY <2>1, <2>2
<1>7. PICK g : g = [i \in 1 .. n |-> value[i][1]]
  OBVIOUS
<1>8. PICK S : S = {g[i] : i \in 1 .. n}
  OBVIOUS
<1>9. S \subseteq Int /\ IsFiniteSet(S) /\ S # {} /\ \A i \in 1 .. n : g[i] \in S
  <2>1. IsFiniteSet(S)
    BY <1>7, <1>8, FiniteRange
  <2> QED BY <1>1, <1>6, <1>7, <1>8, <2>1
<1>10. Amounts(conflict, f).set = S
  BY <1>4, <1>5, <1>7, <1>8
<1>11. Max(S) - Min(S) <= 5
  BY <1>10 DEF Spread, Tolerance
<1>12. PICK greatest \in Int, least \in Int :
          /\ greatest = Max(S) /\ least = Min(S)
          /\ \A x \in S : least <= x /\ x <= greatest
  <2>1. /\ Max(S) \in S /\ Min(S) \in S
        /\ \A x \in S : Min(S) <= x /\ x <= Max(S)
    BY <1>9, Extremes
  <2> QED BY <1>9, <2>1
<1>13. \A j, k \in 1 .. n : g[j] - g[k] \in -5 .. 5
  <2> SUFFICES ASSUME NEW j \in 1 .. n, NEW k \in 1 .. n PROVE g[j] - g[k] \in -5 .. 5
    OBVIOUS
  <2>1. /\ g[j] \in Int /\ g[k] \in Int /\ least <= g[j] /\ least <= g[k]
        /\ g[j] <= greatest /\ g[k] <= greatest
    BY <1>9, <1>12
  <2>2. greatest - least <= 5
    BY <1>11, <1>12
  <2>3. PICK a \in Int, b \in Int :
           a = g[j] /\ b = g[k] /\ least <= a /\ least <= b /\ a <= greatest /\ b <= greatest
    BY <2>1
  <2>4. a - b <= 5 /\ b - a <= 5
    <3>1. /\ least <= a /\ least <= b
          /\ a <= greatest /\ b <= greatest
      BY <2>3
    <3> QED BY <2>2, <3>1
  <2>5. PICK c \in Int : c = a - b
    OBVIOUS
  <2>6. c <= 5 /\ -5 <= c
    BY <2>4, <2>5
  <2>7. PICK m \in Int : m = -5
    OBVIOUS
  <2>8. m <= c
    BY <2>6, <2>7
  <2>9. c \in m .. 5
    BY <2>6, <2>8
  <2>10. g[j] - g[k] \in m .. 5
    BY <2>3, <2>5, <2>9
  <2> QED BY <2>7, <2>10
<1> QED BY <1>1, <1>2, <1>6, <1>7, <1>13 DEF Tolerance

LEMMA AutomaticIsHarmless ==
    ASSUME NEW conflict, IsConflict(conflict), Category(conflict) = "AUTO_RESOLVABLE"
    PROVE  Harmless(conflict)
<1> DEFINE version(j) == conflict.occurrences[j]
           differs(j, k, f) ==
              f \in conflict.fields /\ ValueOf(version(j), f) # ValueOf(version(k), f)
           places == DOMAIN conflict.occurrences
           reason(j) == ValueOf(version(j), "cancellation_reason")
<1>1. AutoResolvable(conflict)
  BY AutomaticCategory
<1>2. PICK fields : fields = MaterialFields(conflict)
  OBVIOUS
<1>3. ASSUME NEW j \in places, NEW k \in places, NEW f, f \notin Technical, differs(j, k, f)
      PROVE  f \in fields
  BY <1>2, <1>3 DEF MaterialFields, EffectiveFields
<1>4. fields = {} \/ fields = {"cancellation_reason"} \/ fields \subseteq Money
  BY <1>1, <1>2 DEF AutoResolvable, CancellationEnrichment, NegligibleFinancial
<1>5. ASSUME NEW j \in places, NEW k \in places
      PROVE  ~differs(j, k, "restaurant_id") /\ ~differs(j, k, "operational_status")
  BY <1>3, <1>4 DEF Money, Technical
<1>6. ASSUME NEW j \in places, NEW k \in places, NEW f \in Money, differs(j, k, f)
      PROVE  /\ version(j).values[f] # Null /\ version(k).values[f] # Null
             /\ version(j).values[f][1] - version(k).values[f][1] \in -Tolerance .. Tolerance
  <2>1. f \in fields /\ f \in conflict.fields
    BY <1>3, <1>6 DEF Money, Technical
  <2>2. fields # {} /\ fields # {"cancellation_reason"}
    BY <2>1 DEF Money
  <2>3. NegligibleFinancial(conflict)
    BY <1>1, <1>2, <2>2 DEF AutoResolvable, CancellationEnrichment
  <2>4. /\ Amounts(conflict, f).count = Len(conflict.occurrences)
        /\ Spread(Amounts(conflict, f)) <= Tolerance
    BY <1>2, <2>1, <2>3 DEF NegligibleFinancial
  <2> QED BY <2>1, <2>4, WithinTolerance
<1>7. PICK last \in places : /\ Latest(conflict) = version(last)
                             /\ \A j \in places : ~Before(version(last), version(j))
  BY LatestStands
<1>8. PICK first \in places : /\ First(conflict) = version(first)
                              /\ \A j \in places : ~Before(version(j), version(first))
  BY FirstStands
<1>9. ASSUME NEW j \in places, NEW k \in places, differs(j, k, "cancellation_reason")
      PROVE  /\ reason(first) = Null /\ reason(last) # Null
             /\ Len(conflict.occurrences) = 2 =>
                   \A m \in places : reason(m) \in {Null, reason(last)}
  <2>1. "cancellation_reason" \in fields
    BY <1>3, <1>9 DEF Technical
  <2>2. CancellationEnrichment(conflict)
    BY <1>1, <1>2, <2>1 DEF AutoResolvable, NegligibleFinancial, Money
  <2>3. reason(first) = Null /\ reason(last) # Null
    BY <1>7, <1>8, <2>2 DEF CancellationEnrichment
  <2>4. ASSUME Len(conflict.occurrences) = 2, NEW m \in places
        PROVE  m = first \/ m = last
    <3>1. places = 1 .. 2
      BY <2>4, Occurrences DEF IsConflict
    <3>2. first # last
      BY <2>3
    <3> QED BY <3>1, <3>2
  <2> QED BY <2>3, <2>4
<1>10. (\E j, k \in places : differs(j, k, "cancellation_reason")) =>
         \E one, other \in places :
            /\ \A j \in places : ~Before(version(j), version(one)) /\ ~Before(version(other), version(j))
            /\ reason(one) = Null /\ reason(other) # Null
            /\ Len(conflict.occurrences) = 2 =>
                  \A j \in places : reason(j) \in {Null, reason(other)}
  BY <1>7, <1>8, <1>9
<1> QED BY <1>5, <1>6, <1>10 DEF Harmless

\* A diagnosis on the page was made of the conflicts it shows.
Diagnosed ==
    answer.kind = "diagnosis" =>
       \E conflicts \in Conflicts, duplicates \in Duplicates :
          answer = Diagnosis(conflicts, duplicates, Issues, SourceFiles, CanonicalOrders)

LEMMA DiagnosedHolds == AnalysisSpec => []Diagnosed
<1>1. LegacyInit => Diagnosed
  BY DEF LegacyInit, Diagnosed
<1>2. Diagnosed /\ [AnalysisNext]_analysisVars => Diagnosed'
  <2> SUFFICES ASSUME Diagnosed, [AnalysisNext]_analysisVars PROVE Diagnosed'
    OBVIOUS
  <2>1. CASE AskEligibility
    <3>1. PICK tables, scope, map, period : RunEligibility(tables, scope, map, period)
      BY <2>1 DEF AskEligibility
    <3>2. \E result : answer' = Eligibility(tables, scope, map, period, result)
      BY <3>1, Zenon DEF RunEligibility
    <3> QED BY <3>2 DEF Eligibility, Diagnosed
  <2>2. CASE AskWithoutSources
    <3>1. PICK period, issue : RefuseEligibility(period, issue)
      BY <2>2 DEF AskWithoutSources
    <3> QED BY <3>1 DEF RefuseEligibility, Eligibility, Diagnosed
  <2>3. CASE AskEnrichment
    BY <2>3 DEF AskEnrichment, Enrich, Diagnosed
  <2>4. CASE AskDiagnosis
    BY <2>4 DEF AskDiagnosis, Diagnosed
  <2>5. CASE AskCertification
    BY <2>5 DEF AskCertification, Certification, Diagnosed
  <2>6. CASE Done
    BY <2>6 DEF Done, Diagnosed
  <2>7. CASE UNCHANGED analysisVars
    BY <2>7 DEF analysisVars, Diagnosed
  <2> QED BY <2>1, <2>2, <2>3, <2>4, <2>5, <2>6, <2>7 DEF AnalysisNext
<1> QED BY <1>1, <1>2, PTL DEF AnalysisSpec

\* The totals of every diagnosis agree with its categories and with the weeks
\* of the conflicts it shows (conflict_diagnostics.py, analyze).
THEOREM DiagnosesAddUp == AnalysisSpec => []DiagnosisAddsUp
<1>1. Diagnosed => DiagnosisAddsUp
  <2> SUFFICES ASSUME Diagnosed, answer.kind = "diagnosis", ~answer.refused
               PROVE  DiagnosisAddsUp
    BY DEF DiagnosisAddsUp
  <2>1. PICK conflicts \in Conflicts, duplicates \in Duplicates :
           answer = Diagnosis(conflicts, duplicates, Issues, SourceFiles, CanonicalOrders)
    BY DEF Diagnosed
  <2>2. PICK result : result = Analyze(conflicts, duplicates, Issues, Observations(SourceFiles))
    OBVIOUS
  <2>3. answer.conflicts = conflicts /\ answer.result = result
    BY <2>1, <2>2 DEF Diagnosis
  <2>4. Adds(conflicts, result)
    BY <2>2, DiagnosisAdds
  <2> QED BY <2>3, <2>4 DEF Adds, DiagnosisAddsUp
<1> QED BY <1>1, DiagnosedHolds, PTL

\* What a diagnosis calls potentially resolvable hides no other restaurant, no
\* other status and no amount beyond the tolerance; where cancellation reasons
\* differ, a first version has none and a last one has one, so that of two
\* versions no reason is lost (conflict_diagnostics.py, analyze).
THEOREM ResolvableIsHarmless == AnalysisSpec => []AutoResolvableIsHarmless
<1>1. Diagnosed => AutoResolvableIsHarmless
  <2> SUFFICES ASSUME Diagnosed, answer.kind = "diagnosis", ~answer.refused,
                      NEW i \in DOMAIN answer.conflicts,
                      answer.result.categories[i] = "AUTO_RESOLVABLE"
               PROVE  Harmless(answer.conflicts[i])
    BY DEF AutoResolvableIsHarmless, Harmless
  <2>1. PICK conflicts \in Conflicts, duplicates \in Duplicates :
           answer = Diagnosis(conflicts, duplicates, Issues, SourceFiles, CanonicalOrders)
    BY DEF Diagnosed
  <2>2. PICK result : result = Analyze(conflicts, duplicates, Issues, Observations(SourceFiles))
    OBVIOUS
  <2>3. answer.conflicts = conflicts /\ answer.result = result
    BY <2>1, <2>2 DEF Diagnosis
  <2>4. result.categories = [j \in DOMAIN conflicts |-> Category(conflicts[j])]
    BY <2>2, Zenon DEF Analyze
  <2>5. Category(conflicts[i]) = "AUTO_RESOLVABLE" /\ IsConflict(conflicts[i])
    BY <2>3, <2>4, AnalysisAssumption
  <2> QED BY <2>3, <2>5, AutomaticIsHarmless
<1> QED BY <1>1, DiagnosedHolds, PTL

----------------------------------------------------------------------------
(* Decimals: a figure has one form, which an empty difference tells. *)

\* Of two exponents and 0 there is a lowest.
LEMMA CommonExponent ==
    ASSUME NEW a \in Decimal, NEW b \in Decimal
    PROVE  \E w \in Int : w <= a.e /\ w <= b.e /\ w <= 0
<1>1. PICK d, e \in Int : d = a.e /\ e = b.e
  BY DecimalFields
<1>2. CASE d <= e /\ d <= 0
  BY <1>1, <1>2
<1>3. CASE e <= d /\ e <= 0
  BY <1>1, <1>3
<1>4. CASE 0 <= d /\ 0 <= e
  BY <1>1, <1>4
<1> QED BY <1>1, <1>2, <1>3, <1>4

\* A normal form has no zero to give to a higher exponent.
LEMMA NoHigherExponent ==
    ASSUME NEW a, NEW b, Normal(a), Normal(b), a.c # 0, NEW w \in Int, w <= a.e,
           Aligned(a, w) = Aligned(b, w)
    PROVE  ~(a.e < b.e)
<1> SUFFICES ASSUME a.e < b.e PROVE FALSE
  OBVIOUS
<1>1. PICK c, e \in Int : c = a.c /\ e = a.e
  BY DecimalFields DEF Normal
<1>2. PICK d, f \in Int : d = b.c /\ f = b.e
  BY DecimalFields DEF Normal
<1>3. PICK k \in Nat : k = f - e - 1
  BY <1>1, <1>2
<1>4. e - w \in Nat /\ f - w = (e - w) + (k + 1) /\ k + 1 \in Nat /\ (k + 1) - 1 = k /\ k + 1 # 0
  BY <1>1, <1>2, <1>3
<1>5. PICK t \in Nat : t = Ten[e - w] /\ t >= 1
  BY <1>4, TenPositive
<1>6. PICK u \in Nat : u = Ten[k]
  BY TenPositive
<1>7. Ten[k + 1] = 10 * u
  BY <1>4, <1>6, TenStep
<1>8. Ten[f - w] = t * (10 * u)
  <2>1. Ten[(e - w) + (k + 1)] = Ten[e - w] * Ten[k + 1]
    BY <1>4, TenSum
  <2> QED BY <1>4, <1>5, <1>7, <2>1
<1>9. c * t = d * (t * (10 * u))
  BY <1>1, <1>2, <1>5, <1>8 DEF Aligned
<1>10. PICK v \in Int : v = d * u
  OBVIOUS
<1>11. c * t = (10 * v) * t
  BY <1>9, <1>10
<1>12. c = 10 * v
  <2>1. PICK x \in Int : x = c - 10 * v
    OBVIOUS
  <2>2. x * t = 0
    BY <1>11, <2>1
  <2>3. x >= 1 => x * t >= t
    OBVIOUS
  <2>4. x <= -1 => x * t <= -t
    OBVIOUS
  <2>5. x = 0
    BY <1>5, <2>2, <2>3, <2>4
  <2> QED BY <2>1, <2>5
<1>13. c % 10 = 0
  BY <1>12
<1>14. a.c % 10 # 0
  BY Zenon DEF Normal
<1> QED BY <1>1, <1>13, <1>14

\* Equal values have one normal form.
LEMMA NormalUnique ==
    ASSUME NEW a, NEW b, Normal(a), Normal(b), NEW w \in Int, w <= a.e, w <= b.e,
           Aligned(a, w) = Aligned(b, w)
    PROVE  a = b
<1>1. PICK c, e \in Int : c = a.c /\ e = a.e /\ a = [c |-> c, e |-> e]
  BY DecimalFields DEF Normal
<1>2. PICK d, f \in Int : d = b.c /\ f = b.e /\ b = [c |-> d, e |-> f]
  BY DecimalFields DEF Normal
<1>3. e - w \in Nat /\ f - w \in Nat
  BY <1>1, <1>2
<1>4. PICK t \in Nat, u \in Nat : t = Ten[e - w] /\ u = Ten[f - w] /\ t >= 1 /\ u >= 1
  BY <1>3, TenPositive
<1>5. c * t = d * u
  BY <1>1, <1>2, <1>4 DEF Aligned
<1>6. c = 0 <=> d = 0
  <2>1. c >= 1 => c * t >= t
    OBVIOUS
  <2>2. c <= -1 => c * t <= -t
    OBVIOUS
  <2>3. d >= 1 => d * u >= u
    OBVIOUS
  <2>4. d <= -1 => d * u <= -u
    OBVIOUS
  <2>5. c = 0 => c * t = 0
    OBVIOUS
  <2>6. d = 0 => d * u = 0
    OBVIOUS
  <2> QED BY <1>4, <1>5, <2>1, <2>2, <2>3, <2>4, <2>5, <2>6
<1>7. CASE c = 0
  <2>1. a.c = 0 /\ b.c = 0
    BY <1>1, <1>2, <1>6, <1>7
  <2>2. e = 0 /\ f = 0
    BY <1>1, <1>2, <2>1, Zenon DEF Normal
  <2> QED BY <1>1, <1>2, <1>6, <1>7, <2>2
<1>8. CASE c # 0
  <2>1. a.c # 0 /\ b.c # 0
    BY <1>1, <1>2, <1>6, <1>8
  <2>2. ~(a.e < b.e)
    BY <2>1, NoHigherExponent
  <2>3. ~(b.e < a.e)
    BY <2>1, NoHigherExponent
  <2>4. e = f
    BY <1>1, <1>2, <2>2, <2>3
  <2>5. c * t = d * t
    BY <1>4, <1>5, <2>4
  <2>6. c = d
    <3>1. PICK x \in Int : x = c - d
      OBVIOUS
    <3>2. x * t = 0
      BY <2>5, <3>1
    <3>3. x >= 1 => x * t >= t
      OBVIOUS
    <3>4. x <= -1 => x * t <= -t
      OBVIOUS
    <3>5. x = 0
      BY <1>4, <3>2, <3>3, <3>4
    <3> QED BY <3>1, <3>5
  <2> QED BY <1>1, <1>2, <2>4, <2>6
<1> QED BY <1>7, <1>8

\* The parity of a figure (HistoricalParityEngine.compare) misses nothing: the
\* difference is rounded to the context, but only that of equal figures is zero.
THEOREM NoDifference ==
    ASSUME NEW a, NEW b, Normal(a), Normal(b), Minus(a, b) = Zero
    PROVE  a = b
<1>1. a \in Decimal /\ b \in Decimal
  BY DEF Normal
<1>2. PICK w \in Int : w <= a.e /\ w <= b.e /\ w <= 0
  BY <1>1, CommonExponent
<1>3. PICK x, y \in Int : /\ x = Aligned(a, w) /\ y = Aligned(b, w)
                          /\ Aligned(Minus(a, b), w) = Kept(x - y)
  BY <1>1, <1>2, MinusAligned
<1>4. Aligned(Zero, w) = 0
  <2>1. Zero = [c |-> 0, e |-> 0]
    BY DecFacts DEF Zero
  <2>2. PICK t \in Nat : t = Ten[0 - w]
    BY <1>2, TenPositive
  <2>3. 0 * t = 0
    OBVIOUS
  <2> QED BY <2>1, <2>2, <2>3 DEF Aligned
<1>5. Kept(x - y) = 0
  BY <1>3, <1>4
<1>6. x - y = 0
  BY <1>5, KeptNotZero
<1>7. x = y
  BY <1>6
<1> QED BY <1>2, <1>3, <1>7, NormalUnique

LEMMA ZeroNormal == Normal(Zero)
BY DecFacts DEF Zero

LEMMA RoundedNormal ==
    ASSUME NEW c \in Int, NEW e \in Int
    PROVE  Normal(Rounded(c, e))
<1>1. PICK w \in Int : w <= e /\ w <= 0
  <2>1. CASE e <= 0
    BY <2>1
  <2>2. CASE 0 <= e
    BY <2>2
  <2> QED BY <2>1, <2>2
<1> QED BY <1>1, RoundedAligned

LEMMA PlusNormal ==
    ASSUME NEW a \in Decimal, NEW b \in Decimal
    PROVE  Normal(Plus(a, b)) /\ Normal(Minus(a, b))
<1>1. PICK w \in Int : w <= a.e /\ w <= b.e /\ w <= 0
  BY CommonExponent
<1> QED BY <1>1, PlusAligned, MinusAligned

LEMMA TimesNormal ==
    ASSUME NEW a \in Decimal, NEW b \in Decimal
    PROVE  Normal(Times(a, b))
<1>1. PICK c, e \in Int : c = a.c * b.c /\ e = a.e + b.e
  BY DecimalFields
<1>2. Times(a, b) = Rounded(c, e)
  BY <1>1, Zenon DEF Times
<1> QED BY <1>1, <1>2, RoundedNormal

LEMMA DividedNormal ==
    ASSUME NEW a \in Decimal
    PROVE  Normal(DividedBy12(a))
<1>1. PICK c, e \in Int : c = a.c /\ e = a.e
  BY DecimalFields
<1>2. PICK sign \in Int : sign = IF a.c < 0 THEN -1 ELSE 1
  OBVIOUS
<1>3. PICK m \in Nat : m = Abs(c)
  BY DEF Abs
<1>4. PICK p \in Nat : p = Ten[Precision]
  BY TenPositive, PrecisionAssumption
<1>5. PICK n \in Nat : n = 5 * Abs(a.c) * Ten[Precision]
  <2>1. 5 * m * p \in Nat
    OBVIOUS
  <2> QED BY <1>1, <1>3, <1>4, <2>1
<1>6. PICK q \in Nat : q = n \div 6
  OBVIOUS
<1>7. PICK h \in Int, k \in Int : h = sign * q /\ k = sign * (10 * q + 1)
  OBVIOUS
<1>8. PICK x \in Int, y \in Int : x = a.e - Precision /\ y = a.e - Precision - 1
  BY <1>1, PrecisionAssumption
<1>9. DividedBy12(a) = IF n % 6 = 0 THEN Rounded(h, x) ELSE Rounded(k, y)
  BY <1>2, <1>5, <1>6, <1>7, <1>8, Zenon DEF DividedBy12
<1> QED BY <1>9, RoundedNormal

----------------------------------------------------------------------------
(***************************************************************************)
(* Sums of orders.  FoldLeft adds the amount of the last order to the sum  *)
(* of the ones before; whether it passes over an order or the order is not *)
(* in the set, the sum is the same.                                        *)
(***************************************************************************)
Added(orders, i, sum) ==
    IF EligibleOrderAmount(orders[i]) = None THEN sum
    ELSE Plus(sum, CleanCurrency(orders[i].total))

Accumulated(orders, S, g) ==
    [s \in SUBSET S |-> IF s = {} THEN Zero ELSE Added(orders, Max(s), g[s \ {Max(s)}])]

\* The amounts of the eligible orders of S, one after the other.
AmountOf(orders, S) == (CHOOSE g : g = Accumulated(orders, S, g))[S]

IsIndexSet(S) == IsFiniteSet(S) /\ S \subseteq Int

LEMMA IndexSets ==
    ASSUME NEW S, IsIndexSet(S)
    PROVE  /\ \A s \in SUBSET S : IsIndexSet(s) /\ IsFiniteSet(s) /\ Cardinality(s) \in Nat
                                  /\ Cardinality(s) <= Cardinality(S)
           /\ \A s \in SUBSET S : s # {} =>
                 /\ Max(s) \in s /\ \A x \in s : x <= Max(s)
                 /\ s \ {Max(s)} \in SUBSET S
                 /\ Cardinality(s \ {Max(s)}) = Cardinality(s) - 1
<1>1. ASSUME NEW s \in SUBSET S
      PROVE  IsIndexSet(s) /\ IsFiniteSet(s) /\ Cardinality(s) \in Nat
             /\ Cardinality(s) <= Cardinality(S)
  BY FS_Subset, FS_CardinalityType DEF IsIndexSet
<1>2. ASSUME NEW s \in SUBSET S, s # {}
      PROVE  /\ Max(s) \in s /\ \A x \in s : x <= Max(s)
             /\ s \ {Max(s)} \in SUBSET S
             /\ Cardinality(s \ {Max(s)}) = Cardinality(s) - 1
  <2>1. IsFiniteSet(s) /\ s \subseteq Int
    BY <1>1 DEF IsIndexSet
  <2>2. Max(s) \in s /\ \A x \in s : x <= Max(s)
    BY <1>2, <2>1, Extremes
  <2> QED BY <2>1, <2>2, FS_RemoveElement
<1> QED BY <1>1, <1>2

LEMMA AccumulationExists ==
    ASSUME NEW orders, NEW S, IsIndexSet(S)
    PROVE  \E g : g = Accumulated(orders, S, g)
<1> DEFINE Upto(g, n) ==
             \A s \in SUBSET S : Cardinality(s) <= n => g[s] = Accumulated(orders, S, g)[s]
           Without == {n \in Nat : ~ \E g : Upto(g, n)}
           R == OpToRel(<, Nat)
<1>0. /\ \A s \in SUBSET S : IsFiniteSet(s) /\ Cardinality(s) \in Nat
                             /\ Cardinality(s) <= Cardinality(S)
      /\ \A s \in SUBSET S : s # {} => /\ s \ {Max(s)} \in SUBSET S
                                       /\ Cardinality(s \ {Max(s)}) = Cardinality(s) - 1
      /\ IsFiniteSet(S)
  BY IndexSets DEF IsIndexSet
<1>1. \A n \in Nat : \E g : Upto(g, n)
  <2> SUFFICES ASSUME Without # {} PROVE FALSE
    OBVIOUS
  <2>1. IsWellFoundedOn(R, Nat) /\ Without \subseteq Nat
    BY NatLessThanWellFounded
  <2>2. \A m, n \in Nat : <<m, n>> \in R <=> m < n
    BY DEF OpToRel
  <2> HIDE DEF R
  <2>3. PICK n \in Without : \A m \in Without : ~(<<m, n>> \in R)
    BY <2>1, WFMin
  <2>4. n \in Nat /\ ~ \E g : Upto(g, n)
    BY <2>3
  <2>5. n # 0
    <3> SUFFICES ASSUME n = 0 PROVE FALSE
      OBVIOUS
    <3> DEFINE zero == [s \in SUBSET S |-> Zero]
    <3>1. Upto(zero, 0)
      <4> SUFFICES ASSUME NEW s \in SUBSET S, Cardinality(s) <= 0
                   PROVE  zero[s] = Accumulated(orders, S, zero)[s]
        OBVIOUS
      <4>1. s = {}
        BY <1>0, FS_EmptySet
      <4> QED BY <4>1 DEF Accumulated
    <3> QED BY <2>4, <3>1
  <2>6. n - 1 \in Nat /\ n - 1 \notin Without
    <3> HIDE DEF Without, Upto
    <3>1. n - 1 \in Nat /\ <<n - 1, n>> \in R
      BY <2>2, <2>4, <2>5
    <3> QED BY <2>3, <3>1
  <2>7. PICK g : Upto(g, n - 1)
    BY <2>6
  <2> DEFINE h == Accumulated(orders, S, g)
  <2>8. Upto(h, n)
    <3> SUFFICES ASSUME NEW s \in SUBSET S, Cardinality(s) <= n
                 PROVE  h[s] = Accumulated(orders, S, h)[s]
      OBVIOUS
    <3>1. CASE s = {}
      BY <3>1 DEF Accumulated
    <3>2. CASE s # {}
      <4> DEFINE t == s \ {Max(s)}
      <4>2. t \in SUBSET S /\ Cardinality(t) = Cardinality(s) - 1
        BY <1>0, <3>2
      <4>3. g[t] = h[t]
        BY <1>0, <2>4, <2>7, <4>2
      <4> HIDE DEF h
      <4>4. h[s] = Added(orders, Max(s), g[t])
        BY <3>2 DEF h, Accumulated
      <4>5. Accumulated(orders, S, h)[s] = Added(orders, Max(s), h[t])
        BY <3>2 DEF Accumulated
      <4> QED BY <4>3, <4>4, <4>5
    <3> QED BY <3>1, <3>2
  <2> QED BY <2>4, <2>8
<1>2. PICK g : Upto(g, Cardinality(S))
  BY <1>0, <1>1, FS_CardinalityType
<1> DEFINE h == [s \in SUBSET S |-> g[s]]
<1>3. \A s \in SUBSET S : h[s] = Accumulated(orders, S, g)[s]
  BY <1>0, <1>2
<1>4. Accumulated(orders, S, g) = Accumulated(orders, S, h)
  <2>1. \A s \in SUBSET S : s \ {Max(s)} \in SUBSET S
    OBVIOUS
  <2> QED BY <2>1 DEF Accumulated
<1>5. h = Accumulated(orders, S, h)
  <2> HIDE DEF Upto
  <2>1. \A s \in SUBSET S : h[s] = Accumulated(orders, S, h)[s]
    BY <1>3, <1>4
  <2> QED BY <2>1 DEF Accumulated
<1> QED BY <1>5

LEMMA AccumulationIsUnique ==
    ASSUME NEW orders, NEW S, NEW T, IsIndexSet(S), T \subseteq S, NEW g, NEW h,
           g = Accumulated(orders, S, g), h = Accumulated(orders, T, h)
    PROVE  g[T] = h[T]
<1> DEFINE F == {s \in SUBSET T : g[s] # h[s]}
<1> SUFFICES ASSUME F # {} PROVE FALSE
  OBVIOUS
<1>1. \A s \in SUBSET S : IsFiniteSet(s)
  BY IndexSets
<1>2. PICK s \in F : \A t \in F : Cardinality(s) <= Cardinality(t)
  BY <1>1, SmallestSet
<1>3. s # {}
  BY <1>2 DEF Accumulated
<1> DEFINE t == s \ {Max(s)}
<1>4. t \in SUBSET T /\ Cardinality(t) = Cardinality(s) - 1 /\ Cardinality(s) \in Nat
  BY <1>2, <1>3, IndexSets
<1>5. t \notin F
  BY <1>2, <1>4
<1>6. g[t] = h[t]
  BY <1>4, <1>5
<1>7. g[s] = Added(orders, Max(s), g[t])
  BY <1>2, <1>3 DEF Accumulated
<1>8. h[s] = Added(orders, Max(s), h[t])
  BY <1>2, <1>3 DEF Accumulated
<1> QED BY <1>2, <1>6, <1>7, <1>8

LEMMA AmountStep ==
    ASSUME NEW orders, NEW S, IsIndexSet(S)
    PROVE  /\ S = {} => AmountOf(orders, S) = Zero
           /\ S # {} => AmountOf(orders, S)
                           = Added(orders, Max(S), AmountOf(orders, S \ {Max(S)}))
<1> DEFINE T == S \ {Max(S)}
           g == CHOOSE g : g = Accumulated(orders, S, g)
           h == CHOOSE h : h = Accumulated(orders, T, h)
<1>1. IsIndexSet(T) /\ T \subseteq S
  BY IndexSets
<1>2. g = Accumulated(orders, S, g) /\ h = Accumulated(orders, T, h)
  BY <1>1, AccumulationExists
<1>3. AmountOf(orders, S) = g[S] /\ AmountOf(orders, T) = h[T]
  BY Zenon DEF AmountOf
<1> HIDE DEF g, h
<1>4. g[T] = h[T]
  BY <1>1, <1>2, AccumulationIsUnique
<1>5. g[S] = IF S = {} THEN Zero ELSE Added(orders, Max(S), g[T])
  BY <1>2 DEF Accumulated
<1> QED BY <1>3, <1>4, <1>5

\* The orders left out of a sum add nothing to it.
LEMMA AmountOfEligible ==
    ASSUME NEW orders, NEW S, IsIndexSet(S), NEW paid, paid \subseteq S,
           \A i \in S : i \notin paid <=> EligibleOrderAmount(orders[i]) = None
    PROVE  AmountOf(orders, S) = AmountOf(orders, paid)
<1> DEFINE F == {s \in SUBSET S : AmountOf(orders, s) # AmountOf(orders, s \cap paid)}
<1>0. S \cap paid = paid
  OBVIOUS
<1> SUFFICES ASSUME F # {} PROVE FALSE
  BY <1>0
<1>1. \A s \in SUBSET S : IsFiniteSet(s) /\ IsIndexSet(s)
  BY IndexSets
<1>2. PICK s \in F : \A t \in F : Cardinality(s) <= Cardinality(t)
  BY <1>1, SmallestSet
<1>3. s # {}
  BY <1>2
<1>4. PICK x : x = Max(s)
  OBVIOUS
<1>5. /\ x \in s /\ (\A y \in s : y <= x)
      /\ s \ {x} \in SUBSET S /\ Cardinality(s \ {x}) = Cardinality(s) - 1
      /\ Cardinality(s) \in Nat
  BY <1>2, <1>3, <1>4, IndexSets
<1>6. AmountOf(orders, s \ {x}) = AmountOf(orders, (s \ {x}) \cap paid)
  BY <1>2, <1>5
<1>7. AmountOf(orders, s) = Added(orders, x, AmountOf(orders, s \ {x}))
  BY <1>1, <1>2, <1>3, <1>4, AmountStep
<1>8. CASE x \notin paid
  <2>1. EligibleOrderAmount(orders[x]) = None
    BY <1>2, <1>5, <1>8
  <2>2. AmountOf(orders, s) = AmountOf(orders, s \ {x})
    BY <1>7, <2>1 DEF Added
  <2>3. (s \ {x}) \cap paid = s \cap paid
    BY <1>8
  <2> QED BY <1>2, <1>6, <2>2, <2>3
<1>9. CASE x \in paid
  <2> DEFINE t == s \cap paid
  <2>1. x \in t /\ t \in SUBSET S /\ t # {} /\ t \subseteq s
    BY <1>2, <1>5, <1>9
  <2>2. Max(t) = x
    <3>1. PICK m : m = Max(t)
      OBVIOUS
    <3>2. m \in t /\ x <= m
      BY <2>1, <3>1, IndexSets
    <3>3. m <= x /\ m \in Int /\ x \in Int
      BY <1>5, <2>1, <3>2 DEF IsIndexSet
    <3> QED BY <3>1, <3>2, <3>3
  <2>3. AmountOf(orders, t) = Added(orders, x, AmountOf(orders, t \ {x}))
    BY <1>1, <2>1, <2>2, AmountStep
  <2>4. t \ {x} = (s \ {x}) \cap paid
    OBVIOUS
  <2> QED BY <1>2, <1>6, <1>7, <2>3, <2>4
<1> QED BY <1>8, <1>9

LEMMA AmountNormal ==
    ASSUME NEW orders, NEW S, IsIndexSet(S),
           \A i \in S : Normal(CleanCurrency(orders[i].total))
    PROVE  Normal(AmountOf(orders, S))
<1> DEFINE F == {s \in SUBSET S : ~Normal(AmountOf(orders, s))}
<1> SUFFICES ASSUME F # {} PROVE FALSE
  OBVIOUS
<1>1. \A s \in SUBSET S : IsFiniteSet(s) /\ IsIndexSet(s)
  BY IndexSets
<1>2. PICK s \in F : \A t \in F : Cardinality(s) <= Cardinality(t)
  BY <1>1, SmallestSet
<1>3. s # {}
  BY <1>1, <1>2, AmountStep, ZeroNormal
<1>4. PICK x : x = Max(s)
  OBVIOUS
<1>5. /\ x \in S /\ s \ {x} \in SUBSET S /\ Cardinality(s \ {x}) = Cardinality(s) - 1
      /\ Cardinality(s) \in Nat
  BY <1>2, <1>3, <1>4, IndexSets
<1>6. PICK sum : sum = AmountOf(orders, s \ {x})
  OBVIOUS
<1>7. Normal(sum)
  BY <1>2, <1>5, <1>6
<1>8. AmountOf(orders, s) = Added(orders, x, sum)
  BY <1>1, <1>2, <1>3, <1>4, <1>6, AmountStep
<1>9. PICK amount : amount = CleanCurrency(orders[x].total)
  OBVIOUS
<1>10. Normal(Plus(sum, amount))
  <2>1. sum \in Decimal /\ amount \in Decimal
    BY <1>5, <1>7, <1>9 DEF Normal
  <2> QED BY <2>1, PlusNormal
<1>11. Added(orders, x, sum) = sum \/ Added(orders, x, sum) = Plus(sum, amount)
  BY <1>9, Zenon DEF Added
<1> QED BY <1>2, <1>7, <1>8, <1>10, <1>11

\* The amount a partner is paid for.
LEMMA PartnerAmountIs ==
    ASSUME NEW orders, DOMAIN orders \subseteq Int, IsFiniteSet(DOMAIN orders),
           \A i \in DOMAIN orders : CleanCurrency(orders[i].total) # None
    PROVE  PartnerAmount(orders) = AmountOf(orders, DOMAIN orders)
<1> DEFINE S == DOMAIN orders
           Left(g) == [s \in SUBSET S |-> IF s = {} THEN Zero
                         ELSE IF EligibleOrderAmount(orders[Max(s)]) = None THEN g[s \ {Max(s)}]
                         ELSE Plus(g[s \ {Max(s)}], EligibleOrderAmount(orders[Max(s)]))]
<1>1. PartnerAmount(orders) = (CHOOSE g : g = Left(g))[S]
  BY Zenon DEF PartnerAmount, FoldLeft, MapThenFoldSet
<1>2. ASSUME NEW g PROVE Left(g) = Accumulated(orders, S, g)
  <2> SUFFICES ASSUME NEW s \in SUBSET S PROVE Left(g)[s] = Accumulated(orders, S, g)[s]
    BY DEF Accumulated
  <2>1. CASE s = {}
    BY <2>1 DEF Accumulated
  <2>2. CASE s # {}
    <3>1. PICK x : x = Max(s)
      OBVIOUS
    <3>2. PICK f : f = g[s \ {x}]
      OBVIOUS
    <3>3. Left(g)[s] = IF EligibleOrderAmount(orders[x]) = None THEN f
                       ELSE Plus(f, EligibleOrderAmount(orders[x]))
      BY <2>2, <3>1, <3>2
    <3>4. Accumulated(orders, S, g)[s] = Added(orders, x, f)
      BY <2>2, <3>1, <3>2 DEF Accumulated
    <3>5. \/ EligibleOrderAmount(orders[x]) = None
          \/ EligibleOrderAmount(orders[x]) = CleanCurrency(orders[x].total)
      BY Zenon DEF EligibleOrderAmount
    <3> QED BY <3>3, <3>4, <3>5, Zenon DEF Added
  <2> QED BY <2>1, <2>2
<1> HIDE DEF Left
<1>3. PICK h : h = Accumulated(orders, S, h)
  BY AccumulationExists DEF IsIndexSet
<1>4. PICK g : g = (CHOOSE k : k = Left(k))
  OBVIOUS
<1>5. g = Left(g)
  <2>1. h = Left(h)
    BY <1>2, <1>3
  <2> QED BY <1>4, <2>1, Zenon
<1>6. g = Accumulated(orders, S, g)
  BY <1>2, <1>5
<1>7. PICK k : k = (CHOOSE l : l = Accumulated(orders, S, l))
  OBVIOUS
<1>8. k = Accumulated(orders, S, k)
  BY <1>3, <1>7, Zenon
<1>9. g[S] = k[S]
  BY <1>6, <1>8, AccumulationIsUnique DEF IsIndexSet
<1>10. AmountOf(orders, S) = k[S]
  BY <1>7 DEF AmountOf
<1> QED BY <1>1, <1>4, <1>9, <1>10

\* And it is what the paid orders are worth, however it is written.
LEMMA TotalOfPaid ==
    ASSUME NEW orders, NEW paid, paid \subseteq Int, IsFiniteSet(paid),
           \A i \in paid : EligibleOrderAmount(orders[i]) # None
    PROVE  MapThenFoldSet(LAMBDA amount, sum : Plus(sum, amount), Zero,
                          LAMBDA j : CleanCurrency(orders[j].total), Max, paid)
              = AmountOf(orders, paid)
<1> DEFINE Sum(g) == [s \in SUBSET paid |-> IF s = {} THEN Zero
                         ELSE Plus(g[s \ {Max(s)}], CleanCurrency(orders[Max(s)].total))]
           total == MapThenFoldSet(LAMBDA amount, sum : Plus(sum, amount), Zero,
                          LAMBDA j : CleanCurrency(orders[j].total), Max, paid)
<1>1. total = (CHOOSE g : g = Sum(g))[paid]
  BY Zenon DEF MapThenFoldSet
<1> HIDE DEF total
<1>2. ASSUME NEW g PROVE Sum(g) = Accumulated(orders, paid, g)
  <2> SUFFICES ASSUME NEW s \in SUBSET paid
               PROVE  Sum(g)[s] = Accumulated(orders, paid, g)[s]
    BY DEF Accumulated
  <2>1. CASE s = {}
    BY <2>1 DEF Accumulated
  <2>2. CASE s # {}
    <3>1. PICK x : x = Max(s)
      OBVIOUS
    <3>2. x \in paid
      BY <2>2, <3>1, IndexSets DEF IsIndexSet
    <3>3. PICK f : f = g[s \ {x}]
      OBVIOUS
    <3>4. Sum(g)[s] = Plus(f, CleanCurrency(orders[x].total))
      BY <2>2, <3>1, <3>3
    <3>5. Accumulated(orders, paid, g)[s] = Added(orders, x, f)
      BY <2>2, <3>1, <3>3 DEF Accumulated
    <3> QED BY <3>2, <3>4, <3>5, Zenon DEF Added
  <2> QED BY <2>1, <2>2
<1> HIDE DEF Sum
<1>3. PICK h : h = Accumulated(orders, paid, h)
  BY AccumulationExists DEF IsIndexSet
<1>4. PICK g : g = (CHOOSE k : k = Sum(k))
  OBVIOUS
<1>5. g = Sum(g)
  <2>1. h = Sum(h)
    BY <1>2, <1>3
  <2> QED BY <1>4, <2>1, Zenon
<1>6. g = Accumulated(orders, paid, g)
  BY <1>2, <1>5
<1>7. PICK k : k = (CHOOSE l : l = Accumulated(orders, paid, l))
  OBVIOUS
<1>8. k = Accumulated(orders, paid, k)
  BY <1>3, <1>7, Zenon
<1>9. g[paid] = k[paid]
  <2>1. IsIndexSet(paid) /\ paid \subseteq paid
    BY DEF IsIndexSet
  <2> QED BY <1>6, <1>8, <2>1, AccumulationIsUnique
<1>10. AmountOf(orders, paid) = k[paid]
  BY <1>7 DEF AmountOf
<1> QED BY <1>1, <1>4, <1>9, <1>10 DEF total

----------------------------------------------------------------------------
(***************************************************************************)
(* Certificates.                                                           *)
(***************************************************************************)

LEMMA CleanNormal ==
    ASSUME NEW cell, cell \in {Missing, Invalid} \/ Normal(cell)
    PROVE  Normal(CleanCurrency(cell)) /\ CleanCurrency(cell) # None
<1>1. Normal(CleanCurrency(cell))
  BY ZeroNormal, Zenon DEF CleanCurrency
<1>2. None \notin Decimal
  BY AnalysisAssumption
<1> QED BY <1>1, <1>2 DEF Normal

LEMMA LegacyRateInteger ==
    ASSUME NEW cell, cell \in {Missing, Invalid} \cup Int
    PROVE  LegacyRate(cell) \in Int
<1>1. CASE cell \in {Missing, Invalid}
  <2>1. LegacyRate(cell) = 0
    BY <1>1, Zenon DEF LegacyRate
  <2> QED BY <2>1
<1>2. CASE cell \notin {Missing, Invalid}
  <2>1. cell \in Int
    BY <1>2
  <2>2. PICK n \in Int : n = cell \div 100
    BY <2>1
  <2>3. LegacyRate(cell) = n \/ LegacyRate(cell) = cell
    BY <1>2, <2>2 DEF LegacyRate
  <2> QED BY <2>1, <2>3
<1> QED BY <1>1, <1>2

\* The amount the reconstruction starts from is what the paid orders are worth.
LEMMA PaidTotal ==
    ASSUME NEW case, IsCase(case)
    PROVE  TotalOf(case.orders) = PartnerAmount(case.orders) /\ Normal(TotalOf(case.orders))
<1>1. PICK orders : orders = case.orders
  OBVIOUS
<1>2. orders \in Seq(Range(orders))
  BY <1>1 DEF IsCase
<1>3. PICK n \in Nat : DOMAIN orders = 1 .. n
  BY <1>2
<1>4. DOMAIN orders \subseteq Int /\ IsFiniteSet(DOMAIN orders)
  BY <1>3, FS_Interval
<1>5. ASSUME NEW j \in DOMAIN orders
      PROVE  /\ Normal(CleanCurrency(orders[j].total))
             /\ CleanCurrency(orders[j].total) # None
  <2>1. orders[j].total \in {Missing, Invalid} \/ Normal(orders[j].total)
    BY <1>1 DEF IsCase
  <2> QED BY <2>1, CleanNormal
<1>6. PICK paid : paid = PaidOf(orders)
  OBVIOUS
<1>7. paid \subseteq DOMAIN orders
  BY <1>6 DEF PaidOf
<1>8. \A j \in DOMAIN orders : j \notin paid <=> EligibleOrderAmount(orders[j]) = None
  <2> SUFFICES ASSUME NEW j \in DOMAIN orders
               PROVE  j \notin paid <=> EligibleOrderAmount(orders[j]) = None
    OBVIOUS
  <2>1. j \in paid <=> /\ orders[j].eligible # FALSE
                       /\ orders[j].decision \in {"NONE", "PAY_PARTNER"}
    BY <1>6 DEF PaidOf
  <2>2. CleanCurrency(orders[j].total) # None
    BY <1>5
  <2> QED BY <2>1, <2>2, Zenon DEF EligibleOrderAmount
<1>9. IsIndexSet(DOMAIN orders)
  BY <1>4 DEF IsIndexSet
<1>10. AmountOf(orders, DOMAIN orders) = AmountOf(orders, paid)
  BY <1>7, <1>8, <1>9, AmountOfEligible
<1>11. PartnerAmount(orders) = AmountOf(orders, DOMAIN orders)
  BY <1>4, <1>5, PartnerAmountIs
<1>12. TotalOf(orders) = AmountOf(orders, paid)
  <2>1. paid \subseteq Int /\ IsFiniteSet(paid)
    BY <1>4, <1>7, FS_Subset
  <2>2. \A j \in paid : EligibleOrderAmount(orders[j]) # None
    BY <1>7, <1>8
  <2> QED BY <1>6, <2>1, <2>2, TotalOfPaid DEF TotalOf
<1>13. Normal(AmountOf(orders, DOMAIN orders))
  BY <1>5, <1>9, AmountNormal
<1> QED BY <1>1, <1>10, <1>11, <1>12, <1>13

\* The figures of a settled period: the invoice of the chain, and what it leaves.
Settles(figures, amount, chain) ==
    /\ figures["commission_amount"] = chain.commission
    /\ figures["invoice_ht"] = chain.commission
    /\ figures["invoice_tva"] = chain.tva
    /\ figures["invoice_ttc"] = chain.ttc
    /\ figures["note_de_debours"] = Minus(amount, chain.ttc)
    /\ figures["final_net_payable"] = Minus(amount, chain.ttc)

\* The reconstruction repeats the chain of the evaluation, on the sales of the
\* context if there are any, and takes the invoice from what the orders are worth.
LEMMA ReconstructedChain ==
    ASSUME NEW orders, NEW sales, NEW rate, Normal(PartnerAmount(orders)),
           sales = None \/ Normal(sales), LegacyRate(rate) \in Int
    PROVE  LET amount == PartnerAmount(orders)
               figures == Reconstruct(orders, sales, rate)
               chain == Certified(IF sales = None THEN amount ELSE sales, LegacyRate(rate))
           IN  /\ Settles(figures, amount, chain)
               /\ \A f \in ParityFields : Normal(figures[f])
<1>1. PICK amount : amount = PartnerAmount(orders)
  OBVIOUS
<1>2. PICK r : r = LegacyRate(rate)
  OBVIOUS
<1>s. PICK sold : sold = IF sales = None THEN amount ELSE sales
  OBVIOUS
<1>3. PICK base : base = DividedBy12(sold)
  OBVIOUS
<1>4. PICK ht : ht = Times(base, Dec(r, -4))
  OBVIOUS
<1>5. PICK tva : tva = Times(ht, Dec(20, -2))
  OBVIOUS
<1>6. PICK ttc : ttc = Plus(ht, tva)
  OBVIOUS
<1>7. PICK net : net = Minus(amount, ttc)
  OBVIOUS
<1>8. Normal(ht) /\ Normal(tva) /\ Normal(ttc) /\ Normal(net)
  <2>1. amount \in Decimal /\ sold \in Decimal
    BY <1>1, <1>s DEF Normal
  <2>2. base \in Decimal
    BY <1>3, <2>1, DividedNormal DEF Normal
  <2>3. Dec(r, -4) \in Decimal
    BY <1>2, DecFacts DEF Normal
  <2>4. Normal(ht) /\ ht \in Decimal
    BY <1>4, <2>2, <2>3, TimesNormal DEF Normal
  <2>5. Dec(20, -2) \in Decimal
    BY DecFacts DEF Normal
  <2>6. Normal(tva) /\ tva \in Decimal
    BY <1>5, <2>4, <2>5, TimesNormal DEF Normal
  <2>7. Normal(ttc) /\ ttc \in Decimal
    BY <1>6, <2>4, <2>6, PlusNormal DEF Normal
  <2>8. Normal(net)
    BY <1>7, <2>1, <2>7, PlusNormal
  <2> QED BY <2>4, <2>6, <2>7, <2>8
<1>9. PICK chain : chain = Certified(sold, r)
  OBVIOUS
<1>10. chain.commission = ht /\ chain.tva = tva /\ chain.ttc = ttc
  BY <1>3, <1>4, <1>5, <1>6, <1>9 DEF Certified
<1>11. PICK figures : figures = Reconstruct(orders, sales, rate)
  OBVIOUS
<1>12. figures = [f \in ParityFields |->
                    CASE f \in {"commission_amount", "invoice_ht"} -> ht
                      [] f = "invoice_tva" -> tva
                      [] f = "invoice_ttc" -> ttc
                      [] OTHER -> net]
  BY <1>1, <1>2, <1>s, <1>3, <1>4, <1>5, <1>6, <1>7, <1>11, Zenon
     DEF Reconstruct, CommissionAmount, CommissionBase, InvoiceTva, InvoiceTtc, NoteDeDebours
<1>13. /\ figures["commission_amount"] = ht /\ figures["invoice_ht"] = ht
       /\ figures["invoice_tva"] = tva /\ figures["invoice_ttc"] = ttc
       /\ figures["note_de_debours"] = net /\ figures["final_net_payable"] = net
  BY <1>12 DEF ParityFields
<1>14. Settles(figures, amount, chain)
  BY <1>7, <1>10, <1>13 DEF Settles
<1>15. \A f \in ParityFields : Normal(figures[f])
  BY <1>8, <1>13 DEF ParityFields
<1>16. chain = Certified(IF sales = None THEN PartnerAmount(orders) ELSE sales,
                         LegacyRate(rate))
  BY <1>1, <1>2, <1>s, <1>9
<1> QED BY <1>1, <1>11, <1>14, <1>15, <1>16

\* A figure that neither lacks a reference nor differs from it is the same.
LEMMA FigureMatches ==
    ASSUME NEW expected, NEW calculated, NEW f \in ParityFields,
           expected[f] = None \/ Normal(expected[f]), Normal(calculated[f]),
           Compare(expected, calculated)[f] # "NO_REFERENCE",
           Compare(expected, calculated)[f] # "MISMATCH"
    PROVE  expected[f] = calculated[f]
<1>1. PICK e, c : e = expected[f] /\ c = calculated[f]
  OBVIOUS
<1>2. Compare(expected, calculated)[f]
        = IF e = None \/ c = None THEN "NO_REFERENCE"
          ELSE IF Minus(c, e) = Zero THEN "MATCH" ELSE "MISMATCH"
  BY <1>1 DEF Compare
<1>3. e # None /\ Minus(c, e) = Zero
  BY <1>2
<1>4. Normal(e) /\ Normal(c)
  BY <1>1, <1>3
<1> QED BY <1>1, <1>3, <1>4, NoDifference

\* What a certificate demands of the evidence and the parity of the history.
LEMMA CertifiedDemands ==
    ASSUME NEW evidence, NEW parity, NEW version, NEW implemented, NEW validated,
           NEW difference, NEW required \in BOOLEAN,
           CertificationStatus(evidence, parity, version, implemented, validated, difference,
                               required) = "CERTIFIED"
    PROVE  /\ RequiredFields \subseteq Authoritative(evidence)
           /\ required => HistoryComplete(parity) /\ With(parity, "MISMATCH") = {}
BY Zenon DEF CertificationStatus

\* A case of the history a certificate was given for stands as it was settled.
CaseStands(case) ==
    LET total == TotalOf(case.orders)
        chain == Certified(IF case.sales = None THEN total ELSE case.sales,
                           LegacyRate(case.rate))
    IN  Settles(case.expected, total, chain)

LEMMA CompleteCaseStands ==
    ASSUME NEW case, IsCase(case), case.reconstructed,
           \A f \in ParityFields : /\ ParityOf(case).fields[f] # "NO_REFERENCE"
                                   /\ ParityOf(case).fields[f] # "MISMATCH"
    PROVE  CaseStands(case)
<1>1. PICK calculated : calculated = Reconstruct(case.orders, case.sales, case.rate)
  OBVIOUS
<1>2. PICK expected : expected = case.expected
  OBVIOUS
<1>3. ParityOf(case).fields = Compare(expected, calculated)
  BY <1>1, <1>2 DEF ParityOf
<1>4. PICK amount : /\ amount = PartnerAmount(case.orders) /\ amount = TotalOf(case.orders)
                    /\ Normal(amount)
  BY PaidTotal
<1>5. LegacyRate(case.rate) \in Int /\ (case.sales = None \/ Normal(case.sales))
  BY LegacyRateInteger DEF IsCase
<1>6. PICK chain : chain = Certified(IF case.sales = None THEN amount ELSE case.sales,
                                     LegacyRate(case.rate))
  OBVIOUS
<1>7. Settles(calculated, amount, chain) /\ \A f \in ParityFields : Normal(calculated[f])
  BY <1>1, <1>4, <1>5, <1>6, ReconstructedChain
<1>8. \A f \in ParityFields :
         /\ Compare(expected, calculated)[f] # "NO_REFERENCE"
         /\ Compare(expected, calculated)[f] # "MISMATCH"
         /\ expected[f] = None \/ Normal(expected[f])
  BY <1>2, <1>3, Zenon DEF IsCase
<1>9. \A f \in ParityFields : expected[f] = calculated[f]
  BY <1>7, <1>8, FigureMatches
<1>10. Settles(expected, amount, chain)
  BY <1>7, <1>9 DEF Settles, ParityFields
<1> QED BY <1>2, <1>4, <1>6, <1>10 DEF CaseStands

\* The certificate is one for a history the program was given.
CertifiedFrom ==
    answer.kind = "certification" =>
       \E evidence \in EvidenceSets, cases \in Histories,
          version \in {PolicyVersion, None}, implemented, required \in BOOLEAN,
          difference \in {Zero, Dec(1, -2)} :
             answer = Certification(evidence, cases, version, implemented, difference,
                                    required, Cases)

LEMMA CertifiedFromHolds == AnalysisSpec => []CertifiedFrom
<1>1. LegacyInit => CertifiedFrom
  BY DEF LegacyInit, CertifiedFrom
<1>2. CertifiedFrom /\ [AnalysisNext]_analysisVars => CertifiedFrom'
  <2> SUFFICES ASSUME CertifiedFrom, [AnalysisNext]_analysisVars PROVE CertifiedFrom'
    OBVIOUS
  <2>1. CASE AskEligibility
    <3>1. PICK tables, scope, map, period : RunEligibility(tables, scope, map, period)
      BY <2>1 DEF AskEligibility
    <3>2. \E result : answer' = Eligibility(tables, scope, map, period, result)
      BY <3>1, Zenon DEF RunEligibility
    <3> QED BY <3>2 DEF Eligibility, CertifiedFrom
  <2>2. CASE AskWithoutSources
    <3>1. PICK period, issue : RefuseEligibility(period, issue)
      BY <2>2 DEF AskWithoutSources
    <3> QED BY <3>1 DEF RefuseEligibility, Eligibility, CertifiedFrom
  <2>3. CASE AskEnrichment
    BY <2>3 DEF AskEnrichment, Enrich, CertifiedFrom
  <2>4. CASE AskDiagnosis
    BY <2>4 DEF AskDiagnosis, Diagnosis, CertifiedFrom
  <2>5. CASE AskCertification
    <3>1. PICK evidence \in EvidenceSets, cases \in Histories,
               version \in {PolicyVersion, None}, implemented, required \in BOOLEAN,
               difference \in {Zero, Dec(1, -2)} :
             /\ \A i \in DOMAIN cases : Reconstructible(cases[i])
             /\ answer' = Certification(evidence, cases, version, implemented, difference,
                                        required, Cases)
      BY <2>5, Zenon DEF AskCertification
    <3> QED BY <3>1, Zenon DEF CertifiedFrom
  <2>6. CASE Done
    BY <2>6 DEF Done, CertifiedFrom
  <2>7. CASE UNCHANGED analysisVars
    BY <2>7 DEF analysisVars, CertifiedFrom
  <2> QED BY <2>1, <2>2, <2>3, <2>4, <2>5, <2>6, <2>7 DEF AnalysisNext
<1> QED BY <1>1, <1>2, PTL DEF AnalysisSpec

\* Whatever histories, evidence and flags a certificate is asked for with: one
\* that is CERTIFIED covers approved formulas only, and if it demands the history,
\* it was given at least two cases, each settled with the commission and invoice
\* of the evaluation's chain over the sales of its context, or over its paid orders
\* where the context has none, and with what they leave of its paid orders
\* (legacy_validation.py, certify and reconstruct_and_compare).
THEOREM CertificatesStand == AnalysisSpec => []CertificateStandsForHistory
<1>1. CertifiedFrom => CertificateStandsForHistory
  <2> SUFFICES ASSUME CertifiedFrom, answer.kind = "certification",
                      answer.status = "CERTIFIED"
               PROVE  CertificateStandsForHistory
    BY DEF CertificateStandsForHistory
  <2>1. PICK evidence \in EvidenceSets, cases \in Histories,
             version \in {PolicyVersion, None}, implemented, required \in BOOLEAN,
             difference \in {Zero, Dec(1, -2)} :
           answer = Certification(evidence, cases, version, implemented, difference,
                                  required, Cases)
    BY DEF CertifiedFrom
  <2>2. PICK parity : parity = [i \in DOMAIN cases |-> ParityOf(cases[i])]
    OBVIOUS
  <2>3. PICK validated : validated = MatchesAuthoritativeCases(Cases)
    OBVIOUS
  <2>4. /\ answer.evidence = evidence /\ answer.cases = cases /\ answer.required = required
        /\ answer.status = CertificationStatus(evidence, parity, version, implemented,
                                               validated, difference, required)
    BY <2>1, <2>2, <2>3 DEF Certification
  <2>5. /\ RequiredFields \subseteq Authoritative(evidence)
        /\ required => HistoryComplete(parity) /\ With(parity, "MISMATCH") = {}
    BY <2>4, CertifiedDemands
  <2>6. \A f \in RequiredFields : \E e \in evidence : e.field = f /\ e.approved
    BY <2>5 DEF Authoritative
  <2>7. ASSUME required
        PROVE  Len(cases) >= 2 /\ \A i \in DOMAIN cases : CaseStands(cases[i])
    <3>1. /\ Len(parity) >= 2 /\ (\A i \in DOMAIN parity : parity[i].reconstructed)
          /\ With(parity, "NO_REFERENCE") = {} /\ With(parity, "MISMATCH") = {}
      BY <2>5, <2>7 DEF HistoryComplete
    <3>2. cases \in Seq(Range(cases)) /\ \A i \in DOMAIN cases : IsCase(cases[i])
      BY AnalysisAssumption
    <3>3. DOMAIN parity = DOMAIN cases
      BY <2>2
    <3>4. Len(parity) = Len(cases)
      <4>1. PICK n \in Nat : n = Len(cases) /\ DOMAIN cases = 1 .. n
        BY <3>2
      <4>2. parity \in Seq(Range(parity))
        <5>1. DOMAIN parity = 1 .. n /\ parity = [i \in 1 .. n |-> ParityOf(cases[i])]
          BY <2>2, <4>1
        <5>2. \A i \in 1 .. n : parity[i] \in Range(parity)
          BY <5>1 DEF Range
        <5> QED BY <5>1, <5>2
      <4> QED BY <3>3, <4>1, <4>2
    <3>5. ASSUME NEW i \in DOMAIN cases PROVE CaseStands(cases[i])
      <4>1. parity[i] = ParityOf(cases[i]) /\ i \in DOMAIN parity
        BY <2>2
      <4>2. ParityOf(cases[i]).reconstructed = cases[i].reconstructed
        BY DEF ParityOf
      <4>3. cases[i].reconstructed
        BY <3>1, <4>1, <4>2
      <4>4. \A f \in ParityFields : /\ parity[i].fields[f] # "NO_REFERENCE"
                                    /\ parity[i].fields[f] # "MISMATCH"
        BY <3>1, <4>1 DEF With
      <4> QED BY <3>2, <4>1, <4>3, <4>4, CompleteCaseStands
    <3> QED BY <3>1, <3>4, <3>5
  <2>8. answer.required => /\ Len(answer.cases) >= 2
                           /\ \A i \in DOMAIN answer.cases : CaseStands(answer.cases[i])
    BY <2>4, <2>7
  <2>9. \A f \in RequiredFields : \E e \in answer.evidence : e.field = f /\ e.approved
    BY <2>4, <2>6
  <2> QED BY <2>8, <2>9, Zenon DEF CertificateStandsForHistory, CaseStands, Settles
<1> QED BY <1>1, CertifiedFromHolds, PTL

=============================================================================
