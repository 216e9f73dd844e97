----------------------------- MODULE MCReview -----------------------------
(* Small instances of Review for TLC.                                      *)
EXTENDS Review, TLC

CONSTANTS look, send, wire  \* a reading tool, two side-effecting ones

\* The agent may lose a side-effecting tool by an edit; a process may not know it.
OneSender == {<<look, send>>, <<look>>}
TwoSenders == {<<send, wire>>, <<send>>}

AllKnown == {Tools}
SomeKnown == {Tools, {look}}

Symmetry == Permutations(Reviewers)

=============================================================================
