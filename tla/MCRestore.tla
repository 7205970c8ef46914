----------------------------- MODULE MCRestore -----------------------------
(* Small instance of Restore for TLC. *)
EXTENDS Restore, TLC

Swaps == Permutations(Applies) \cup Permutations(Backups)
=============================================================================
