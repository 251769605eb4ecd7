----------------------------- MODULE MCGateway -----------------------------
(***************************************************************************)
(* Small instances of Gateway.                                             *)
(***************************************************************************)
EXTENDS Gateway, TLC

CONSTANTS key1, val1, val2, idem

Put == [op |-> "put", key |-> key1, value |-> val1]
Create == [op |-> "cas", key |-> key1, value |-> val2, expected |-> val2,
           expectedVersion |-> 0, expectAbsent |-> TRUE]
Ask(op, key) == [op |-> op, key |-> key]

\* Two requests that use one Idempotency-Key, and a read
AllAsks == {Ask(Put, idem), Ask(Create, idem), Ask(Noop, NoKey)}

HttpSymmetry == Permutations(Http)

=============================================================================
