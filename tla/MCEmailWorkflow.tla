---------------------------- MODULE MCEmailWorkflow ----------------------------
(***************************************************************************)
(* Instances of EmailWorkflow for TLC.                                     *)
(***************************************************************************)
EXTENDS EmailLedger, TLC

CONSTANTS p1, p2, s1, s2

\* every data change keeps the published documents: one send key per partner
SameDocuments == [n \in Snapshots |-> [p \in Partners |-> 1]]

\* every data change changes every package
DataNumber == [n \in Snapshots |-> [p \in Partners |-> n]]

\* Sessions differ in name only, and so do partners: no data change tells
\* them apart, and a batch takes its partners in any order.
NameSymmetry == Permutations(Sessions) \cup Permutations(Partners)

\* One authorization, with a fault: the second data set, which ends it, is followed
\* while nothing has failed, no key is claimed and the period is open.
OneAuthorization ==
    /\ nextAuth <= 2
    /\ snapshot = 1 \/ (faults = 0 /\ ~locked /\ \A k \in Keys : latest[k] = "NONE")

\* Two, without a fault: the documents are republished at any time.  Nothing is FAILED
\* then, so a retry sends what any request would, and a manual close counts nothing.
WithoutFaults ==
    /\ faults = 0 /\ \A s \in Sessions : ~req[s].retry /\ ~req[s].manual
    /\ \A a \in AuthIds : authMode[a] # "DRAFT"

\* Bound: what is followed of the behaviours with two authorizations and one fault.
Followed == OneAuthorization \/ WithoutFaults
=============================================================================
