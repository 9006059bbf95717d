------------------------------ MODULE MCDocuments ------------------------------
(***************************************************************************)
(* Two restaurants, a sheet in three contents, two sessions and two        *)
(* scripts; or one restaurant's document, published again and again.       *)
(***************************************************************************)
EXTENDS Documents

Restaurant(name, entity, address) ==
    [name |-> name, entity |-> entity, address |-> address, rib |-> None, email |-> "mail",
     review |-> None]
MCRegistry == [a |-> Restaurant("A", None, "street"), b |-> Restaurant("B", "B sarl", None)]

RowFor(id, name, entity, address) ==
    [id |-> id, name |-> name, entity |-> entity, address |-> address, rib |-> "rib1",
     email |-> "invalid", review |-> None]
FirstSheet == <<RowFor("a", "A", "A sarl", None), RowFor("b", "B", "B sarl", "road")>>
MCSheets == {FirstSheet,
             <<RowFor("a", "A", "A sarl", None), RowFor("a", "A", "Other", "street")>>,
             <<[RowFor("a", "A", "A sarl", None) EXCEPT !.review = "DO_NOT_USE"],
               RowFor("b", "C", "C sarl", "road")>>}

\* In quarters of a centime: sales of 100.05 at 10 % and of 50.00 at 12 %, with the
\* figures the evaluation makes of them.
MCSettlements ==
    [a |-> [identity |-> TRUE, review |-> FALSE, commission |-> 10, orders |-> 2,
            figures |-> [sales |-> 40020, commission |-> 3335, tva |-> 667,
                         invoice |-> 4002, net |-> 36018]],
     b |-> [identity |-> TRUE, review |-> FALSE, commission |-> 12, orders |-> 1,
            figures |-> [sales |-> 20000, commission |-> 2000, tva |-> 400,
                         invoice |-> 2400, net |-> 17600]]]

Documented ==
    {runs[p].document : p \in Scripts} \cup {publications[n].document : n \in DOMAIN publications}

\* Bounds: two runs and one fault for every document and sheet; four and two for the
\* invoice of one restaurant and one sheet.
Followed ==
    \/ started <= 2 /\ faults <= 1
    \/ /\ team \subseteq Scripts /\ versions = <<FirstSheet>>
       /\ \A document \in Documented \ {None} : document.id = "a" /\ document.type = "INVOICE"
=============================================================================
