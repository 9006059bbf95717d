--------------------------- MODULE MCDocumentArchive ---------------------------
(***************************************************************************)
(* Instances of DocumentArchive for TLC.                                   *)
(***************************************************************************)
EXTENDS DocumentArchive

\* each content has pages and figures of its own
OwnPages == [c \in Contents |-> c]

\* a change of the figures that this document does not show
SamePages == [c \in Contents |-> IF c = "c3" THEN "c1" ELSE c]
=============================================================================
