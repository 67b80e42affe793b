------------------------- MODULE MCResultLifecycle -------------------------
(* Small instances of ResultLifecycle for TLC.                             *)
EXTENDS ResultLifecycleRefinement, TLC

\* Rows, requests, users and aspirants are interchangeable: sound for the
\* runs that check invariants only.
Symmetry == Permutations(ResultIds) \cup Permutations(Submits)
              \cup Permutations(Reviews) \cup Permutations(Users)
              \cup Permutations(Aspirants)
=============================================================================
