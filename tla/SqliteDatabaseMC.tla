---------------------------- MODULE SqliteDatabaseMC ----------------------------
(***************************************************************************)
(* Small instances of SqliteDatabase for TLC.                              *)
(***************************************************************************)
EXTENDS SqliteDatabase, TLC

\* every property is a safety property, and none tells addresses apart
Symmetry == Permutations(Ips)
=============================================================================
