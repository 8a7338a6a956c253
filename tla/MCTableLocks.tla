---------------------------- MODULE MCTableLocks ----------------------------
(* TableLocks for TLC.  Sessions are alike until one of them has the lock. *)
EXTENDS TableLocks, TLC

Symmetry == Permutations(Sessions) \cup Permutations(Cleaners)

=============================================================================
