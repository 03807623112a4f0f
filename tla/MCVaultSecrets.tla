--------------------------- MODULE MCVaultSecrets ---------------------------
(***************************************************************************)
(* Small instances of VaultSecrets.  The writers are interchangeable: no   *)
(* definition chooses among them, so the runs may use their symmetry.      *)
(***************************************************************************)
EXTENDS VaultSecrets, TLC

WriterSymmetry == Permutations(Writers)
=============================================================================
