----------------------------- MODULE MCManifests -----------------------------
(* Small publications and source folders for the checks: weekly files with *)
(* duplicates, bad cells and unreadable ones; a weekly sheet without        *)
(* checksum, a malformed name, an unsupported file, and payment scopes with *)
(* and without a period.                                                    *)
EXTENDS Manifests, TLC

MCArtifacts == <<"canonical_orders", "ingestion_issues", "ingestion_summary">>
MCNames == ToSet(MCArtifacts)

OneEach == [f \in Fields |-> 1]
Row(o, rid, d, a) ==
    [f \in Fields |-> CASE f = "order_id" -> o [] f = "restaurant_id" -> rid
                        [] f = "order_date" -> d [] OTHER -> a]
Table(headers, rows) == [headers |-> headers, rows |-> rows]

First == Table(OneEach, <<Row("o1", "r1", "d1", "a1"), Row("o2", "r1", "d1", "invalid"),
                          Row(None, "r1", "d1", "boolean")>>)
\* Corrects the amount of o1, repeats o2.
Second == Table(OneEach, <<Row("o1", "r1", "d1", "a2"), Row("o2", "r1", "d1", None),
                           Row("o3", None, "invalid", "a1"), Row(None, None, None, None)>>)
Repeats == Table(OneEach, <<Row("o1", "r1", "d1", "a1"), Row("o1", "r1", "d1", "a1"),
                            Row("o2", "r1", "d1", "a1")>>)
TwoDiscounts == Table([OneEach EXCEPT !["amount"] = 2], <<Row("o1", "r1", "d1", "a3")>>)
NoOrderId == Table([OneEach EXCEPT !["order_id"] = 0], <<Row(None, "r1", "d1", "a1")>>)
Checkbox == Table(OneEach, <<Row("o4", "r1", "d1", "a1"), Row("o5", "r1", "d1", "boolean")>>)

SmallFolders == {<<First, Second>>, <<Repeats, Checkbox>>, <<NoOrderId, TwoDiscounts>>,
                 <<Repeats, Unreadable>>}
MCUsable == {MCNames, MCNames \ {"ingestion_summary"}}

----------------------------------------------------------------------------
Admin(weekly, supported, native) ==
    [folder |-> "ADMIN_EARNINGS", weekly |-> weekly, supported |-> supported, native |-> native,
     explicit |-> None, folderPeriod |-> None, namePeriod |-> None]
Upload == Admin(TRUE, TRUE, FALSE)
Sheet == Admin(TRUE, TRUE, TRUE)
Malformed == Admin(FALSE, TRUE, FALSE)
Notes == Admin(FALSE, FALSE, FALSE)
Scope(supported, explicit, inFolder, inName) ==
    [folder |-> "PAYMENT_SCOPE", weekly |-> FALSE, supported |-> supported, native |-> FALSE,
     explicit |-> explicit, folderPeriod |-> inFolder, namePeriod |-> inName]
Named == Scope(TRUE, None, None, "P1")
Mapped == Scope(TRUE, "P1", "P2", None)
Unknown == Scope(TRUE, None, None, None)
Image == Scope(FALSE, None, "P1", None)
OnlyRst == [Named EXCEPT !.folder = "RST_LIST"]

MCShapes == {Upload, Sheet, Malformed, Named}
At0(s) == IF s = None THEN None ELSE [shape |-> s, time |-> 0]
Start(s) == [f \in DOMAIN s |-> At0(s[f])]
MCDrives == {Start(<<Upload, Sheet>>), Start(<<Upload, None>>), Start(<<Notes, Malformed>>),
             Start(<<Named, Mapped>>), Start(<<Unknown, OnlyRst>>), Start(<<Image, Upload>>)}
Everything == [l \in {"admin", "sources", "workspace"} |-> "writable"]
MCAccesses == {Everything, [Everything EXCEPT !["admin"] = "none"],
             [Everything EXCEPT !["workspace"] = "read_only"]}
MCKinds == {[c \in Checks |-> "phase2"], 1 :> "phase2" @@ 2 :> "legacy",
            1 :> "phase2" @@ 2 :> "import"}
=============================================================================
