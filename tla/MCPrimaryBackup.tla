-------------------------- MODULE MCPrimaryBackup --------------------------
(***************************************************************************)
(* Small instances of PrimaryBackup.                                       *)
(***************************************************************************)
EXTENDS PrimaryBackup, TLC

TwoServers == 1..2
ThreeServers == 1..3

ClientSymmetry == Permutations(Client) \cup Permutations(File)

=============================================================================
