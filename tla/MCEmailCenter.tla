----------------------------- MODULE MCEmailCenter -----------------------------
(***************************************************************************)
(* Instances of EmailCenter for TLC.                                       *)
(***************************************************************************)
EXTENDS EmailCenter

CONSTANTS p1, p2, t1, t2, s1

\* the published documents stay the same; every data change changes every package
SameDocuments == [n \in Snapshots |-> [p \in Partners |-> 1]]
DataNumber == [n \in Snapshots |-> [p \in Partners |-> n]]

\* both partners have every document and no other blocker
AllReady == [n \in Snapshots |-> Partners]

\* data 2 brings a blocker back: its documents are READY, the partner is not
ReadyInOne == [n \in Snapshots |-> IF n = 1 THEN Partners ELSE {}]

=============================================================================
