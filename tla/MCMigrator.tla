----------------------------- MODULE MCMigrator -----------------------------
(***************************************************************************)
(* Migrator for TLC: two processes of one release, and a later release     *)
(* that slips a file in between its predecessor's two and edits the last.  *)
(***************************************************************************)
EXTENDS Migrator

CONSTANTS m1, m2, m3, x, y

MCEmbedded ==
  [p \in Migrators |-> IF p = m3 THEN <<x, x, y>> ELSE <<x, None, x>>]
=============================================================================
