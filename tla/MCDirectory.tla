---------------------------- MODULE MCDirectory ----------------------------
(* Finite instances of Directory.  Keys and backends are only compared for *)
(* equality.                                                               *)
EXTENDS Directory, TLC

Symmetry == Permutations(Key) \cup Permutations(Backend)

=============================================================================
