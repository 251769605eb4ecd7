----------------------------- MODULE MCRaftNode -----------------------------
(***************************************************************************)
(* Small instances of RaftNode.                                            *)
(***************************************************************************)
EXTENDS RaftNode, TLC

\* The servers that may lead are interchangeable
LeadersSymmetry == Permutations(Electable)

\* Two states that differ only in what no action reads are the same: the
\* redirect hint, the replication indexes of a node that does not lead, and
\* the votes that made a node the leader.
View ==
    <<currentTerm, votedFor, log, commitIndex, lastApplied, state, toApply,
      commitWaiters, isolated, incarnation, calls, applied, acked, committed,
      [i \in Server |-> IF state[i] = Leader THEN <<nextIndex[i], matchIndex[i]>>
                                             ELSE votes[i]]>>

=============================================================================
