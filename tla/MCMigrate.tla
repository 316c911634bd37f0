----------------------------- MODULE MCMigrate -----------------------------
(* Migrate for TLC: fields are treated alike, and so are types.              *)
EXTENDS Migrate, TLC

FieldSymmetry == Permutations(Columns) \cup Permutations(Types)
=============================================================================
