---------------------------- MODULE ScopeRegistry ----------------------------
(***************************************************************************)
(* The restaurant registry: one entry per restaurant of the Invoice Scope  *)
(* sheet, matched against the RST list by exact id, or by exact name when  *)
(* the sheet has no id (RestaurantRegistryBuilder.build).  Pure functions  *)
(* of the two sheets.                                                      *)
(*                                                                         *)
(* Names stand for their normal form.  What only the row's display needs   *)
(* (city, area, phone, comment) is one field, detail: two rows that differ *)
(* there are not identical.  Aliases are left out: no caller passes any.   *)
(***************************************************************************)
LOCAL INSTANCE Integers
LOCAL INSTANCE Sequences
LOCAL INSTANCE FiniteSetsExt

CONSTANTS
    RestaurantIds,
    Names,
    Contradicting,    \* pairs of names materially_different_restaurant_names tells apart
    None           \* an empty cell

ScopeRows == [id : RestaurantIds \cup {None}, name : Names \cup {None},
              inScope : BOOLEAN, rate : Int \cup {None}, detail : Nat]
RSTRows == [id : RestaurantIds \cup {None}, name : Names \cup {None},
            rate : Int \cup {None}, legal : BOOLEAN, email : BOOLEAN, rib : BOOLEAN]

\* A row with neither id nor name is skipped, by both readers.
Named(row) == row.id # None \/ row.name # None

ActiveRows(sheet) == {i \in DOMAIN sheet : Named(sheet[i]) /\ sheet[i].inScope}

\* Equal rows collapse: only the distinct records count as candidates.
RSTRecords(rst) == {rst[j] : j \in {k \in DOMAIN rst : Named(rst[k])}}

GroupKey(row) == IF row.id # None THEN <<"id", row.id>> ELSE <<"name", row.name>>

ScopeGroups(sheet) == {GroupKey(sheet[i]) : i \in ActiveRows(sheet)}

Group(sheet, key) == {i \in ActiveRows(sheet) : GroupKey(sheet[i]) = key}

Identical(sheet, rows) == Cardinality({sheet[i] : i \in rows}) = 1

Mapping(record, status) == [record |-> record, status |-> status]
NotMapped == [id |-> None, name |-> None, rate |-> None,
              legal |-> FALSE, email |-> FALSE, rib |-> FALSE]

\* materially_different_restaurant_names: never for an empty name.
Contradicts(row, record) == <<row.name, record.name>> \in Contradicting

Match(row, records) ==
    LET byId == {r \in records : r.id = row.id}
        byName == {r \in records : r.name = row.name}
        found == IF row.id # None THEN byId ELSE byName
        only == CHOOSE r \in found : TRUE
    IN  CASE found = {} -> Mapping(NotMapped, "UNMATCHED")
          [] Cardinality(found) > 1 -> Mapping(NotMapped, "AMBIGUOUS")
          [] row.id = None /\ Cardinality(found) = 1 ->
                Mapping(only, "MATCHED_BY_EXACT_NAME")
          [] row.id # None /\ Cardinality(found) = 1 /\ Contradicts(row, only) ->
                Mapping(NotMapped, "SCOPE_ID_NAME_MISMATCH")
          [] OTHER -> Mapping(only, "MATCHED_BY_ID")

MappingIssues(row, mapping) ==
    LET missing == IF mapping.record = NotMapped THEN {}
                   ELSE {issue \in {"MISSING_EMAIL", "MISSING_RIB", "MISSING_LEGAL"} :
                           \/ issue = "MISSING_EMAIL" /\ ~mapping.record.email
                           \/ issue = "MISSING_RIB" /\ ~mapping.record.rib
                           \/ issue = "MISSING_LEGAL" /\ ~mapping.record.legal}
    IN  missing \cup
        CASE mapping.status = "UNMATCHED" -> {"UNMATCHED_SCOPE_RESTAURANT"}
          [] mapping.status = "AMBIGUOUS" -> {"AMBIGUOUS_RESTAURANT_MAPPING"}
          [] mapping.status = "SCOPE_ID_NAME_MISMATCH" -> {"SCOPE_ID_NAME_MISMATCH"}
          [] mapping.record # NotMapped /\ row.rate = None -> {"MISSING_COMMISSION"}
          [] OTHER -> {}

Blocking == {"CONFLICTING_SCOPE_ROW", "UNMATCHED_SCOPE_RESTAURANT", "SCOPE_ID_NAME_MISMATCH",
             "AMBIGUOUS_RESTAURANT_MAPPING", "MISSING_COMMISSION"}

\* _registered: the first row of the group, and the RST record mapped to it.
Registered(row, mapping, status, issues) ==
    [id |-> IF mapping.record.id # None THEN mapping.record.id ELSE row.id,
     status |-> status,
     identityReady |-> mapping.record # NotMapped,
     scopeRate |-> row.rate,
     rstRate |-> mapping.record.rate,
     blocking |-> issues \cap Blocking # {},
     documentReady |-> mapping.record.legal,
     emailReady |-> mapping.record.email,
     paymentReady |-> mapping.record.rib]

FirstRow(rows) == CHOOSE i \in rows : \A j \in rows : i <= j

\* One pass of build over the groups of the sheet.
Entry(sheet, records, key) ==
    LET rows == Group(sheet, key)
        row == sheet[FirstRow(rows)]
        several == Cardinality(rows) > 1
        duplicate == several /\ Identical(sheet, rows)
        mapping == IF several /\ ~duplicate
                   THEN Mapping(NotMapped, "CONFLICTING_SCOPE")
                   ELSE Match(row, records)
        issues == MappingIssues(row, mapping)
                  \cup (IF duplicate THEN {"DUPLICATE_SCOPE_ROW"} ELSE {})
                  \cup (IF several /\ ~duplicate THEN {"CONFLICTING_SCOPE_ROW"} ELSE {})
    IN  Registered(row, mapping, IF duplicate THEN "DUPLICATE_SCOPE" ELSE mapping.status,
                   issues)

Registry(sheet, rst) ==
    [key \in ScopeGroups(sheet) |-> Entry(sheet, RSTRecords(rst), key)]

IdentityReady(registry) == {k \in DOMAIN registry : registry[k].identityReady}

IdentityBlocked(registry) == DOMAIN registry \ IdentityReady(registry)

=============================================================================
