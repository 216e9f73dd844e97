---------------------------- MODULE MCJobQueue ----------------------------
(* Small instances of JobQueue for TLC.                                    *)
EXTENDS JobQueue, TLC

\* Jobs, workers and clients are interchangeable in the safety runs.
Symmetry ==
  Permutations(Jobs) \cup Permutations(Workers) \cup Permutations(Clients)

=============================================================================
