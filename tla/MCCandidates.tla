---------------------------- MODULE MCCandidates ----------------------------
(* Small instances of Candidates for TLC.                                  *)
EXTENDS Candidates, TLC

CONSTANTS c, d, x

MCCreations == {c, d}
MCIssues == {c, d, x}

\* Nothing tells two addresses or two creations apart.
MCSymmetry == Permutations(Addresses) \cup Permutations(Creations)
=============================================================================
