----------------------------- MODULE MCKVStore -----------------------------
(***************************************************************************)
(* Small instances of KVStore: clients that write one key, or read it.     *)
(***************************************************************************)
EXTENDS KVStore, TLC

CONSTANTS key1, val1

Put == [op |-> "put", key |-> key1, value |-> val1]
WriteCmds == {Put}
WriteAndReadCmds == {Put, Noop}

NodeSymmetry == Permutations(Node)

\* states and effects follow from clog
View == <<clog, pending, sm, applied, handlers, client, restarts, done>>

=============================================================================
