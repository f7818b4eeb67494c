---------------------------- MODULE MCSqliteStore ----------------------------
(* A small instance of SqliteStore for TLC. *)
EXTENDS SqliteStore, TLC

Tasks == Permutations(Task)
=============================================================================
