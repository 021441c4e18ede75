-------------------------- MODULE MCLegacyMigration --------------------------
(* Values for checking LegacyMigration with TLC.                           *)
EXTENDS LegacyMigration, TLC

CONSTANTS p1, p2, keychain, newFile, a, b, n

MCRank2 == [s \in {keychain, newFile} |-> IF s = keychain THEN 1 ELSE 2]

MCProcSymmetry == Permutations(Procs)
=============================================================================
