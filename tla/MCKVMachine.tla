---------------------------- MODULE MCKVMachine ----------------------------
(***************************************************************************)
(* A small instance of KVMachine: one key, every form of write.            *)
(***************************************************************************)
EXTENDS KVMachine, TLC

CONSTANTS key1, v1, v2

Cas(absent, version) ==
    [op |-> "cas", key |-> key1, value |-> v2, expected |-> v1,
     expectedVersion |-> version, expectAbsent |-> absent]

AllCmds ==
    {[op |-> "put", key |-> key1, value |-> v1], [op |-> "delete", key |-> key1, value |-> v1],
     Cas(TRUE, 0), Cas(FALSE, 0), Cas(FALSE, 1), Noop}

ClientSymmetry == Permutations(Client)

=============================================================================
