---------------------------- MODULE ReplicatedLog ----------------------------
(***************************************************************************)
(* What the consensus engine promises to the state machine plugged into    *)
(* apply_fn and to the callers of append_entry, without saying how: one    *)
(* log that only grows, given to every node's state machine from the start *)
(* and in order, and success reported only for entries that are in it.     *)
(***************************************************************************)
EXTENDS Naturals, Sequences

CONSTANT Server

VARIABLES
    clog,      \* the committed entries
    applied,   \* per node, the entries given to its state machine
    acked      \* the entries, with their index, reported as applied to a client

logVars == <<clog, applied, acked>>

Init ==
    /\ clog = <<>>
    /\ applied = [i \in Server |-> <<>>]
    /\ acked = {}

\* A majority holds some more entries
Commit ==
    /\ Len(clog') > Len(clog)
    /\ SubSeq(clog', 1, Len(clog)) = clog
    /\ UNCHANGED <<applied, acked>>

\* A node applies its next entry and may tell the client that wrote it
Apply(i) ==
    LET n == Len(applied[i]) + 1
        done == [index |-> n, term |-> clog[n].term, op |-> clog[n].op]
    IN  /\ n <= Len(clog)
        /\ applied' = [applied EXCEPT ![i] = Append(@, clog[n])]
        /\ acked' \in {acked, acked \cup {done}}
        /\ UNCHANGED clog

\* A node restarts with an empty state machine and replays
Reset(i) ==
    /\ applied' = [applied EXCEPT ![i] = <<>>]
    /\ UNCHANGED <<clog, acked>>

Next == Commit \/ \E i \in Server : Apply(i) \/ Reset(i)

Spec == Init /\ [][Next]_logVars

=============================================================================
