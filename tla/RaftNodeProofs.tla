--------------------------- MODULE RaftNodeProofs ---------------------------
(***************************************************************************)
(* Proofs about RaftNode, for every set of servers and every bound.  They  *)
(* come in three parts, each with its inductive invariant.                 *)
(*                                                                         *)
(* Elections (ElectionInv): the variables keep their types, no vote counts *)
(* twice in a term, and no two servers lead in one term, although a        *)
(* candidate that steps down inside its term forgets its vote and may then *)
(* vote again.  A vote granted to another server is never forgotten in its *)
(* term, since only candidates forget theirs and a candidate voted for     *)
(* itself; the vote a candidate forgets is its own, which leaves the count *)
(* at the same moment.  So grants that are on their way or counted never   *)
(* disagree, and two majorities of grants in one term share a voter.       *)
(*                                                                         *)
(* Logs (LogInv): index and term determine a prefix, and a blocked client  *)
(* waits for a slot that still holds its entry.                            *)
(*                                                                         *)
(* Commitment (ReplicationInv, ApplyInv): a leader holds all that was      *)
(* committed, what a node believes committed was committed, and the engine *)
(* implements the replicated log that is promised to the state machines    *)
(* and to the clients.                                                     *)
(***************************************************************************)
EXTENDS RaftNode, TLAPS, FiniteSetTheorems, SequenceTheorems, WellFoundedInduction

-----------------------------------------------------------------------------
(* The helpers return values of the right type                             *)

\* Merge of two logs is a log, wherever the sent entries start inside or at
\* the end of the old log (handle_append_entries).
LEMMA MergeType ==
    ASSUME NEW old \in Seq(Entry), NEW entries \in Seq(Entry),
           NEW prev \in Nat, prev <= Len(old)
    PROVE  Merge(old, prev, entries) \in Seq(Entry)
<1> DEFINE last == prev + Len(entries)
           Held(k) == /\ k <= Len(old)
                      /\ \A j \in (prev + 1)..k : old[j].term = entries[j - prev].term
           new == [k \in 1..last |-> IF Held(k) THEN old[k] ELSE entries[k - prev]]
<1>1. last \in Nat
  BY LenProperties
<1>2. ASSUME NEW k \in 1..last
      PROVE  (IF Held(k) THEN old[k] ELSE entries[k - prev]) \in Entry
  <2>1. CASE Held(k)
    <3>1. k \in 1..Len(old)
      BY <2>1, LenProperties
    <3> QED
      BY <2>1, <3>1, ElementOfSeq
  <2>2. CASE ~Held(k)
    <3>1. k > prev
      BY <2>2, <1>1, LenProperties
    <3>2. k - prev \in 1..Len(entries)
      BY <3>1, <1>1, LenProperties
    <3> HIDE DEF Held
    <3> QED
      BY <2>2, <3>2, ElementOfSeq
  <2> QED
    BY <2>1, <2>2
<1>3. new \in Seq(Entry)
  <2> HIDE DEF Held
  <2>1. new \in [1..last -> Entry]
    BY <1>2
  <2> QED
    BY <1>1, <2>1
<1> QED
  BY <1>3 DEF Merge

\* A non-empty set of natural numbers has a least element.
LEMMA LeastElement ==
    ASSUME NEW T \in SUBSET Nat, T # {}
    PROVE  \E x \in T : \A y \in T : x <= y
<1> DEFINE R == OpToRel(<, Nat)
<1>1. \E x \in T : \A y \in T : ~(<<y, x>> \in R)
  <2>1. IsWellFoundedOn(R, Nat)
    BY NatLessThanWellFounded
  <2> HIDE DEF R
  <2> QED
    BY <2>1, WFMin
<1>2. ASSUME NEW x \in T, NEW y \in T, ~(<<y, x>> \in R)
      PROVE  x <= y
  BY <1>2 DEF OpToRel
<1> HIDE DEF R
<1> QED
  BY <1>1, <1>2

\* A non-empty set of natural numbers up to n has a greatest element.
LEMMA GreatestElement ==
    ASSUME NEW n \in Nat, NEW T \in SUBSET (0..n), T # {}
    PROVE  \E x \in T : \A y \in T : y <= x
<1> DEFINE U == {k \in 0..n : n - k \in T}
<1>1. U \in SUBSET Nat /\ U # {}
  <2>1. PICK x \in T : TRUE
    OBVIOUS
  <2>2. n - x \in U
    BY <2>1
  <2>3. \A k \in 0..n : k \in Nat
    OBVIOUS
  <2> QED
    BY <2>2, <2>3
<1>2. PICK k \in U : \A l \in U : k <= l
  <2> HIDE DEF U
  <2> QED
    BY <1>1, LeastElement
<1>3. ASSUME NEW y \in T
      PROVE  y <= n - k
  <2>1. n - y \in U
    OBVIOUS
  <2>2. k <= n - y
    BY <1>2, <2>1
  <2> QED
    BY <2>2
<1> QED
  BY <1>2, <1>3

\* The last entry of a term (_send_append_entries_to) is an index of the log,
\* or 0 when the log has none of that term.
LEMMA LastOfTermType ==
    ASSUME TypeOK, NEW i \in Server, NEW t \in Nat
    PROVE  LastOfTerm(i, t) \in 0..Len(log[i])
<1> DEFINE S == {k \in 1..Len(log[i]) : log[i][k].term = t}
<1>1. Len(log[i]) \in Nat
  BY LenProperties DEF TypeOK
<1>2. CASE S = {}
  BY <1>1, <1>2 DEF LastOfTerm
<1>3. CASE S # {}
  <2>1. \E k \in S : \A l \in S : l <= k
    <3>1. S \in SUBSET (0..Len(log[i]))
      BY <1>1
    <3> HIDE DEF S
    <3> QED
      BY <1>1, <1>3, <3>1, GreatestElement
  <2>2. LastOfTerm(i, t) = CHOOSE k \in S : \A l \in S : l <= k
    BY <1>3 DEF LastOfTerm
  <2>3. LastOfTerm(i, t) \in S
    <3> HIDE DEF S
    <3> QED
      BY <2>1, <2>2
  <2> QED
    BY <1>1, <2>3
<1> QED
  BY <1>2, <1>3

\* The conflict hint of handle_append_entries is an index of the log.
LEMMA FirstOfTermType ==
    ASSUME TypeOK, NEW i \in Server, NEW prev \in 1..Len(log[i])
    PROVE  FirstOfTerm(i, prev) \in 1..prev
<1> DEFINE Run(c) == \A j \in c..prev : log[i][j].term = log[i][prev].term
           T == {c \in 1..prev : Run(c)}
<1>1. prev \in Nat /\ prev >= 1
  BY LenProperties DEF TypeOK
<1>2. T \in SUBSET Nat /\ prev \in T
  BY <1>1
<1>3. PICK c \in T : \A d \in T : c <= d
  <2> HIDE DEF T
  <2> QED
    BY <1>2, LeastElement
<1>4. c > 1 => log[i][c - 1].term # log[i][prev].term
  <2> SUFFICES ASSUME c > 1, log[i][c - 1].term = log[i][prev].term
               PROVE  FALSE
    OBVIOUS
  <2>1. c - 1 \in 1..prev
    BY <1>1, <1>3
  <2>2. Run(c - 1)
    <3> TAKE j \in (c - 1)..prev
    <3>1. CASE j = c - 1
      BY <3>1
    <3>2. CASE j # c - 1
      <4>1. j \in c..prev
        BY <1>1, <1>3, <3>2
      <4> QED
        BY <1>3, <4>1
    <3> QED
      BY <3>1, <3>2
  <2>3. c - 1 \in T
    BY <2>1, <2>2
  <2> HIDE DEF T
  <2> QED
    BY <1>1, <1>2, <1>3, <2>1, <2>3
<1>5. \E d \in 1..prev : Run(d) /\ (d > 1 => log[i][d - 1].term # log[i][prev].term)
  BY <1>3, <1>4
<1> QED
  BY <1>5 DEF FirstOfTerm

\* The new next_index after a refusal is at least 1.
LEMMA NextAfterConflictType ==
    ASSUME TypeOK, NEW i \in Server, NEW ci \in Nat, NEW ct \in Nat,
           ct > 0 => ci > 0
    PROVE  NextAfterConflict(i, ci, ct) \in Nat \ {0}
<1>1. LastOfTerm(i, ct) \in Nat
  <2>1. Len(log[i]) \in Nat
    BY LenProperties DEF TypeOK
  <2> QED
    BY <2>1, LastOfTermType
<1> QED
  BY <1>1 DEF NextAfterConflict

\* _advance_commit_index leaves a commit index and a committed log.
LEMMA AdvanceCommitIndexType ==
    ASSUME TypeOK, NEW i \in Server, NEW match, AdvanceCommitIndex(i, match)
    PROVE  commitIndex' \in [Server -> Nat] /\ committed' \in Seq(Entry)
<1> DEFINE S == Committable(i, match)
           top == CHOOSE idx \in S : \A k \in S : k <= idx
<1>1. log[i] \in Seq(Entry) /\ Len(log[i]) \in Nat /\ commitIndex[i] \in Nat
  BY LenProperties DEF TypeOK
<1>2. CASE S = {}
  BY <1>2 DEF AdvanceCommitIndex, TypeOK
<1>3. CASE S # {}
  <2>1. S \in SUBSET (0..Len(log[i])) /\ S \subseteq 1..Len(log[i])
    BY <1>1 DEF Committable, LastLogIndex
  <2>2. top \in S
    <3>1. \E idx \in S : \A k \in S : k <= idx
      <4> HIDE DEF S
      <4> QED
        BY <1>1, <1>3, <2>1, GreatestElement
    <3> HIDE DEF S
    <3> QED
      BY <3>1
  <2>3. top \in 1..Len(log[i])
    BY <2>1, <2>2
  <2>4. /\ commitIndex' = [commitIndex EXCEPT ![i] = top]
        /\ committed' = IF top > Len(committed) THEN Prefix(log[i], top) ELSE committed
    BY <1>3 DEF AdvanceCommitIndex
  <2> HIDE DEF top
  <2>5. Prefix(log[i], top) \in Seq(Entry)
    <3>1. \A k \in 1..top : log[i][k] \in Entry
      BY <1>1, <2>3, ElementOfSeq
    <3> QED
      BY <2>3, <1>1, <3>1, SubSeqProperties DEF Prefix
  <2> QED
    BY <1>1, <2>3, <2>4, <2>5 DEF TypeOK
<1> QED
  BY <1>2, <1>3

\* What the applier copies from the log are slots.
LEMMA SlotsType ==
    ASSUME NEW s \in Seq(Entry), NEW from \in Nat \ {0}, NEW to \in Nat
    PROVE  Slots(s, from, to) \in Seq(Slot)
<1> DEFINE last == IF to <= Len(s) THEN to ELSE Len(s)
           n == IF last - from + 1 >= 0 THEN last - from + 1 ELSE 0
           f == [k \in 1..n |->
                   [index |-> from + k - 1, term |-> s[from + k - 1].term,
                    op |-> s[from + k - 1].op]]
<1>1. Len(s) \in Nat /\ last \in Nat /\ last <= Len(s)
  BY LenProperties
<1>2. n \in Nat
  BY <1>1
<1>3. 1..n = 1..(last - from + 1)
  BY <1>1
<1>4. ASSUME NEW k \in 1..n
      PROVE  [index |-> from + k - 1, term |-> s[from + k - 1].term,
              op |-> s[from + k - 1].op] \in Slot
  <2>1. from + k - 1 \in 1..Len(s)
    BY <1>1, <1>2
  <2>2. s[from + k - 1] \in Entry
    BY <2>1, ElementOfSeq
  <2> QED
    BY <2>1, <2>2, <1>1 DEF Entry, Slot
<1>5. f \in Seq(Slot)
  <2> HIDE DEF n
  <2>1. f \in [1..n -> Slot]
    BY <1>4
  <2> HIDE DEF f
  <2> QED
    BY <1>2, <2>1
<1> QED
  BY <1>3, <1>5 DEF Slots

\* A call in flight has the fields of its type.
LEMMA CallFields ==
    ASSUME TypeOK, NEW m \in calls
    PROVE  /\ m.type = "RequestVote" => m \in RequestVoteArgs
           /\ m.type = "RequestVoteReply" => m \in RequestVoteReply
           /\ m.type = "AppendEntries" => m \in AppendEntriesArgs
           /\ m.type = "AppendEntriesReply" => m \in AppendEntriesReply
           /\ m.to \in Server /\ m.from \in Server /\ m.term \in Nat /\ m.inc \in Nat
BY DEF TypeOK, Call, RequestVoteArgs, RequestVoteReply, AppendEntriesArgs,
       AppendEntriesReply

\* Answering a call adds its replies to the calls in flight and no others.
LEMMA AnsweredCalls ==
    ASSUME NEW m, NEW replies, Answered(m, replies)
    PROVE  calls' \subseteq calls \cup replies
BY DEF Answered

\* The initial state has the right types.
LEMMA TypeInit == Init => TypeOK
BY NilAssumption, EmptySeq DEF Init, TypeOK, Follower

\* Stepping down keeps the types.
LEMMA BecomeFollowerType ==
    ASSUME TypeOK, NEW i \in Server, NEW term \in Nat, BecomeFollower(i, term)
    PROVE  /\ state' \in [Server -> {Follower, Candidate, Leader}]
           /\ currentTerm' \in [Server -> Nat]
           /\ votedFor' \in [Server -> Server \cup {Nil}]
           /\ votes' \in [Server -> SUBSET Server]
           /\ commitWaiters' \in [Server -> SUBSET Slot]
BY DEF BecomeFollower, TypeOK

\* Every step keeps the types.
LEMMA TypeStep == TypeOK /\ [Next]_vars => TypeOK'
<1> SUFFICES ASSUME TypeOK, [Next]_vars PROVE TypeOK'
  OBVIOUS
<1>s. \A i \in Server : log[i] \in Seq(Entry) /\ Len(log[i]) \in Nat
  BY LenProperties DEF TypeOK
<1>u. \A i \in Server : /\ currentTerm[i] \in Nat /\ incarnation[i] \in Nat
                         /\ commitIndex[i] \in Nat /\ lastApplied[i] \in Nat
                         /\ \A p \in Server : /\ nextIndex[i][p] \in Nat \ {0}
                                              /\ matchIndex[i][p] \in Nat
  BY DEF TypeOK
<1>t. \A i \in Server : LastLogTerm(i) \in Nat
  <2> TAKE i \in Server
  <2>1. CASE log[i] = <<>>
    BY <2>1 DEF LastLogTerm
  <2>2. CASE log[i] # <<>>
    <3>1. Len(log[i]) \in 1..Len(log[i])
      BY <1>s, <2>2, EmptySeq
    <3>2. log[i][Len(log[i])] \in Entry
      BY <1>s, <3>1, ElementOfSeq
    <3> QED
      BY <2>2, <3>2 DEF LastLogTerm, Entry
  <2> QED
    BY <2>1, <2>2
<1>1. ASSUME NEW i \in Server, NEW sent \in SUBSET (Server \ {i}), StartElection(i, sent)
      PROVE  TypeOK'
  <2>1. \A p \in sent :
           [type |-> "RequestVote", from |-> i, to |-> p, inc |-> incarnation[i],
            term |-> currentTerm[i] + 1, lastLogIndex |-> LastLogIndex(i),
            lastLogTerm |-> LastLogTerm(i)] \in RequestVoteArgs
    BY <1>s, <1>t, <1>u DEF RequestVoteArgs, LastLogIndex
  <2>2. calls' \subseteq Call
    BY <1>1, <2>1 DEF StartElection, TypeOK, Call
  <2>3. /\ currentTerm' \in [Server -> Nat]
        /\ votedFor' \in [Server -> Server \cup {Nil}]
        /\ state' \in [Server -> {Follower, Candidate, Leader}]
        /\ leaderId' \in [Server -> Server \cup {Nil}]
        /\ votes' \in [Server -> SUBSET Server]
    BY <1>1, <1>u DEF StartElection, TypeOK
  <2>4. UNCHANGED <<log, commitWaiters, nextIndex, matchIndex, lastApplied, toApply,
                    applied, acked, commitIndex, committed, isolated, incarnation>>
    BY <1>1 DEF StartElection, peerVars, applyVars
  <2> QED
    BY <2>2, <2>3, <2>4 DEF TypeOK
<1>2. ASSUME NEW i \in Server, BecomeLeader(i)
      PROVE  TypeOK'
  <2>1. [term |-> currentTerm[i], op |-> NoOp] \in Entry
    BY DEF TypeOK, Entry
  <2>2. log' \in [Server -> Seq(Entry)]
    BY <1>2, <1>s, <2>1, AppendProperties DEF BecomeLeader, TypeOK
  <2>3. /\ nextIndex' \in [Server -> [Server -> Nat \ {0}]]
        /\ matchIndex' \in [Server -> [Server -> Nat]]
    <3>1. LastLogIndex(i) \in Nat
      BY <1>s DEF LastLogIndex
    <3>2. /\ [p \in Server |-> IF p = i THEN LastLogIndex(i) + 2 ELSE LastLogIndex(i) + 1]
               \in [Server -> Nat \ {0}]
          /\ [p \in Server |-> IF p = i THEN LastLogIndex(i) + 1 ELSE 0]
               \in [Server -> Nat]
      BY <3>1
    <3>3. /\ nextIndex' = [nextIndex EXCEPT ![i] =
               [p \in Server |-> IF p = i THEN LastLogIndex(i) + 2 ELSE LastLogIndex(i) + 1]]
          /\ matchIndex' = [matchIndex EXCEPT ![i] =
               [p \in Server |-> IF p = i THEN LastLogIndex(i) + 1 ELSE 0]]
      BY <1>2 DEF BecomeLeader
    <3> QED
      BY <3>2, <3>3, Zenon DEF TypeOK
  <2> QED
    BY <1>2, <2>2, <2>3 DEF BecomeLeader, TypeOK, applyVars
<1>3. ASSUME NEW i \in Server, LoseElection(i)
      PROVE  TypeOK'
  BY <1>3 DEF LoseElection, TypeOK, diskVars, peerVars, applyVars
<1>4. ASSUME NEW i \in Server, NEW op \in Op, AppendEntry(i, op)
      PROVE  TypeOK'
  <2>1. [term |-> currentTerm[i], op |-> op] \in Entry
    BY DEF TypeOK, Entry
  <2>2. log' \in [Server -> Seq(Entry)]
    BY <1>4, <1>s, <2>1, AppendProperties DEF AppendEntry, TypeOK
  <2>3. /\ nextIndex' \in [Server -> [Server -> Nat \ {0}]]
        /\ matchIndex' \in [Server -> [Server -> Nat]]
    <3>1. LastLogIndex(i) + 1 \in Nat
      BY <1>s DEF LastLogIndex
    <3>2. /\ matchIndex' = [matchIndex EXCEPT ![i][i] = LastLogIndex(i) + 1]
          /\ nextIndex' = [nextIndex EXCEPT ![i][i] = LastLogIndex(i) + 1 + 1]
      BY <1>4 DEF AppendEntry
    <3>3. LastLogIndex(i) + 1 + 1 \in Nat \ {0}
      BY <1>s DEF LastLogIndex
    <3> QED
      BY <3>1, <3>2, <3>3 DEF TypeOK
  <2>4. commitWaiters' \in [Server -> SUBSET Slot]
    BY <1>4, <1>s DEF AppendEntry, TypeOK, LastLogIndex, Slot
  <2> QED
    BY <1>4, <2>2, <2>3, <2>4 DEF AppendEntry, TypeOK, applyVars
<1>5. ASSUME NEW i \in Server, NEW p \in Server, SendAppendEntries(i, p)
      PROVE  TypeOK'
  <2> DEFINE prev == nextIndex[i][p] - 1
             entries == SubSeq(log[i], prev + 1, LastLogIndex(i))
  <2>1. prev \in Nat /\ prev <= Len(log[i])
    BY <1>5, <1>s, <1>u DEF SendAppendEntries, LastLogIndex
  <2>2. TermAt(i, prev) \in Nat
    <3>1. ASSUME prev # 0
          PROVE  log[i][prev] \in Entry
      <4> HIDE DEF prev
      <4>1. prev \in 1..Len(log[i])
        BY <1>s, <2>1, <3>1
      <4> QED
        BY <1>s, <4>1, ElementOfSeq
    <3> QED
      BY <3>1 DEF TermAt, Entry
  <2>3. entries \in Seq(Entry)
    <3>1. \A k \in (prev + 1)..Len(log[i]) : log[i][k] \in Entry
      BY <1>s, <2>1, ElementOfSeq
    <3> QED
      BY <1>s, <2>1, <3>1, SubSeqProperties DEF LastLogIndex
  <2>4. calls' \subseteq Call
    <3> HIDE DEF prev, entries
    <3>1. calls' = calls \cup
            {[type |-> "AppendEntries", from |-> i, to |-> p, inc |-> incarnation[i],
              term |-> currentTerm[i], prevLogIndex |-> prev,
              prevLogTerm |-> TermAt(i, prev), entries |-> entries,
              leaderCommit |-> commitIndex[i]]}
      BY <1>5 DEF SendAppendEntries, prev, entries
    <3>2. [type |-> "AppendEntries", from |-> i, to |-> p, inc |-> incarnation[i],
           term |-> currentTerm[i], prevLogIndex |-> prev,
           prevLogTerm |-> TermAt(i, prev), entries |-> entries,
           leaderCommit |-> commitIndex[i]] \in AppendEntriesArgs
      BY <2>1, <2>2, <2>3, <1>u DEF AppendEntriesArgs
    <3> QED
      BY <3>1, <3>2 DEF TypeOK, Call
  <2> QED
    BY <1>5, <2>4 DEF SendAppendEntries, TypeOK, diskVars, roleVars, peerVars, applyVars
<1>6. ASSUME NEW i \in Server, FetchCommitted(i)
      PROVE  TypeOK'
  <2>1. Slots(log[i], lastApplied[i] + 1, commitIndex[i]) \in Seq(Slot)
    <3>1. lastApplied[i] + 1 \in Nat \ {0}
      BY <1>u
    <3> QED
      BY <1>s, <1>u, <3>1, SlotsType
  <2> QED
    BY <1>6, <2>1 DEF FetchCommitted, TypeOK, diskVars, roleVars, peerVars
<1>7. ASSUME NEW i \in Server, ApplyEntry(i)
      PROVE  TypeOK'
  <2> DEFINE slot == Head(toApply[i])
  <2>1. toApply[i] \in Seq(Slot) /\ applied[i] \in Seq(Entry)
    BY DEF TypeOK
  <2>2. slot \in Slot /\ Tail(toApply[i]) \in Seq(Slot)
    BY <1>7, <2>1, HeadTailProperties DEF ApplyEntry
  <2>3. [term |-> slot.term, op |-> slot.op] \in Entry
    BY <2>2 DEF Slot, Entry
  <2>4. Append(applied[i], [term |-> slot.term, op |-> slot.op]) \in Seq(Entry)
    BY <2>1, <2>3, AppendProperties
  <2> HIDE DEF slot
  <2>5. /\ toApply' = [toApply EXCEPT ![i] = Tail(@)]
        /\ applied' = [applied EXCEPT ![i] =
                         Append(@, [term |-> slot.term, op |-> slot.op])]
        /\ commitWaiters' = [commitWaiters EXCEPT ![i] =
                               {w \in @ : w.index # slot.index}]
        /\ acked' = acked \cup (commitWaiters[i] \cap {slot})
    BY <1>7 DEF ApplyEntry, slot
  <2>6. acked' \subseteq Slot /\ commitWaiters' \in [Server -> SUBSET Slot]
    BY <2>5 DEF TypeOK
  <2>7. toApply' \in [Server -> Seq(Slot)] /\ applied' \in [Server -> Seq(Entry)]
    BY <2>2, <2>4, <2>5 DEF TypeOK
  <2> QED
    BY <1>7, <2>6, <2>7 DEF ApplyEntry, TypeOK, diskVars, peerVars
<1>8. ASSUME NEW i \in Server, NEW w \in commitWaiters[i], WaiterTimeout(i, w)
      PROVE  TypeOK'
  BY <1>8 DEF WaiterTimeout, TypeOK, diskVars, peerVars, applyVars
<1>9. ASSUME NEW i \in Server, NEW b \in BOOLEAN, SetIsolated(i, b)
      PROVE  TypeOK'
  BY <1>9 DEF SetIsolated, TypeOK, diskVars, roleVars, peerVars, applyVars
<1>10. ASSUME NEW i \in Server, Reboot(i),
              currentTerm' \in [Server -> Nat], votedFor' \in [Server -> Server \cup {Nil}],
              calls' \subseteq calls
       PROVE  TypeOK'
  <2>1. /\ [p \in Server |-> 1] \in [Server -> Nat \ {0}]
        /\ [p \in Server |-> 0] \in [Server -> Nat]
        /\ <<>> \in Seq(Slot) /\ <<>> \in Seq(Entry)
    BY EmptySeq
  <2>2. /\ nextIndex' \in [Server -> [Server -> Nat \ {0}]]
        /\ matchIndex' \in [Server -> [Server -> Nat]]
    BY <1>10, <2>1, Zenon DEF Reboot, TypeOK
  <2>3. /\ toApply' \in [Server -> Seq(Slot)]
        /\ applied' \in [Server -> Seq(Entry)]
    BY <1>10, <2>1, Zenon DEF Reboot, TypeOK
  <2>4. /\ state' \in [Server -> {Follower, Candidate, Leader}]
        /\ leaderId' \in [Server -> Server \cup {Nil}]
        /\ votes' \in [Server -> SUBSET Server]
        /\ commitWaiters' \in [Server -> SUBSET Slot]
    BY <1>10 DEF Reboot, TypeOK
  <2>5. /\ commitIndex' \in [Server -> Nat]
        /\ lastApplied' \in [Server -> Nat]
        /\ incarnation' \in [Server -> Nat]
        /\ isolated' \in [Server -> BOOLEAN]
    <3>1. /\ commitIndex' = [commitIndex EXCEPT ![i] = 0]
          /\ lastApplied' = [lastApplied EXCEPT ![i] = 0]
          /\ incarnation' = [incarnation EXCEPT ![i] = @ + 1]
          /\ isolated' = [isolated EXCEPT ![i] = FALSE]
      BY <1>10 DEF Reboot
    <3>2. /\ commitIndex \in [Server -> Nat] /\ lastApplied \in [Server -> Nat]
          /\ incarnation \in [Server -> Nat] /\ isolated \in [Server -> BOOLEAN]
      BY DEF TypeOK
    <3> QED
      BY <3>1, <3>2
  <2>6. /\ log' \in [Server -> Seq(Entry)]
        /\ acked' \subseteq Slot
        /\ committed' \in Seq(Entry)
        /\ calls' \subseteq Call
    BY <1>10 DEF Reboot, TypeOK
  <2> QED
    BY <1>10, <2>2, <2>3, <2>4, <2>5, <2>6 DEF TypeOK
<1>11. ASSUME NEW i \in Server, Restart(i)
       PROVE  TypeOK'
  BY <1>10, <1>11 DEF Restart, TypeOK
<1>12. ASSUME NEW m \in calls, CrashInHandler(m)
       PROVE  TypeOK'
  <2>1. m.to \in Server /\ m.term \in Nat
    BY CallFields
  <2>2. /\ Reboot(m.to)
        /\ currentTerm' = [currentTerm EXCEPT ![m.to] = m.term]
        /\ votedFor' = [votedFor EXCEPT ![m.to] = Nil]
        /\ calls' = calls \ {m}
    BY <1>12 DEF CrashInHandler
  <2>3. /\ currentTerm' \in [Server -> Nat]
        /\ votedFor' \in [Server -> Server \cup {Nil}]
        /\ calls' \subseteq calls
    BY <2>1, <2>2 DEF TypeOK
  <2> QED
    BY <1>10, <2>1, <2>2, <2>3
<1>13. ASSUME NEW m \in calls, LoseCall(m)
       PROVE  TypeOK'
  BY <1>13 DEF LoseCall, TypeOK, diskVars, roleVars, peerVars, applyVars
<1>14. ASSUME NEW m \in calls, HandleRequestVote(m)
       PROVE  TypeOK'
  <2> DEFINE i == m.to
             newer == m.term > currentTerm[i]
             term == IF newer THEN m.term ELSE currentTerm[i]
             vote == IF newer THEN Nil ELSE votedFor[i]
             granted == VoteGranted(i, m, term, vote)
             reply == [type |-> "RequestVoteReply", from |-> i, to |-> m.from,
                       inc |-> m.inc, election |-> m.term, term |-> term,
                       voteGranted |-> granted]
  <2>1. i \in Server /\ m.from \in Server /\ m.term \in Nat /\ m.inc \in Nat
    BY CallFields
  <2>2. term \in Nat /\ vote \in Server \cup {Nil} /\ granted \in BOOLEAN
    <3>1. granted \in BOOLEAN
      BY DEF VoteGranted
    <3> QED
      BY <2>1, <3>1, <1>u DEF TypeOK
  <2> HIDE DEF granted
  <2>3. reply \in RequestVoteReply
    <3> HIDE DEF term
    <3> QED
      BY <2>1, <2>2 DEF RequestVoteReply
  <2>4. calls' \subseteq Call
    <3>1. Answered(m, {reply})
      BY <1>14 DEF HandleRequestVote, granted
    <3> HIDE DEF reply
    <3> QED
      BY <2>3, <3>1, AnsweredCalls DEF TypeOK, Call
  <2>5. /\ currentTerm' = [currentTerm EXCEPT ![i] = term]
        /\ votedFor' = [votedFor EXCEPT ![i] = IF granted THEN m.from ELSE vote]
        /\ state' = IF newer THEN [state EXCEPT ![i] = Follower] ELSE state
        /\ votes' = IF newer THEN [votes EXCEPT ![i] = {}] ELSE votes
        /\ commitWaiters' = IF newer THEN [commitWaiters EXCEPT ![i] = {}]
                                     ELSE commitWaiters
        /\ UNCHANGED <<log, peerVars, applyVars, commitIndex, committed, leaderId,
                       isolated, incarnation>>
    BY <1>14 DEF HandleRequestVote, granted
  <2> HIDE DEF term, vote, newer
  <2> QED
    BY <2>1, <2>2, <2>4, <2>5 DEF TypeOK, peerVars, applyVars
<1>15. ASSUME NEW m \in calls, HandleRequestVoteReply(m)
       PROVE  TypeOK'
  <2>1. m.to \in Server /\ m.from \in Server /\ m.term \in Nat
    BY CallFields
  <2>2. calls' \subseteq Call
    BY <1>15, AnsweredCalls DEF HandleRequestVoteReply, TypeOK
  <2>3. CASE BecomeFollower(m.to, m.term)
    BY <1>15, <2>1, <2>2, <2>3, BecomeFollowerType
       DEF HandleRequestVoteReply, TypeOK, peerVars, applyVars
  <2>4. CASE ~BecomeFollower(m.to, m.term)
    <3>1. /\ votes' = (IF m.voteGranted /\ m.election = currentTerm[m.to] /\ votes[m.to] # {}
                       THEN [votes EXCEPT ![m.to] = @ \cup {m.from}] ELSE votes)
          /\ UNCHANGED <<state, currentTerm, votedFor, commitWaiters>>
          /\ UNCHANGED <<log, peerVars, applyVars, commitIndex, committed, leaderId,
                         isolated, incarnation>>
      BY <1>15, <2>4 DEF HandleRequestVoteReply
    <3>2. votes \in [Server -> SUBSET Server]
      BY DEF TypeOK
    <3>3. votes' \in [Server -> SUBSET Server]
      BY <2>1, <3>1, <3>2
    <3> QED
      BY <2>2, <3>1, <3>3 DEF TypeOK, peerVars, applyVars
  <2> QED
    BY <2>3, <2>4
<1>16. ASSUME NEW m \in calls, HandleAppendEntries(m)
       PROVE  TypeOK'
  <2> DEFINE i == m.to
             prev == m.prevLogIndex
             reply(term, success, ci, ct) ==
               [type |-> "AppendEntriesReply", from |-> i, to |-> m.from,
                inc |-> m.inc, newMatch |-> prev + Len(m.entries), term |-> term,
                success |-> success, conflictIndex |-> ci, conflictTerm |-> ct]
  <2>1. m \in AppendEntriesArgs
    BY <1>16, CallFields DEF HandleAppendEntries
  <2>2. /\ i \in Server /\ m.from \in Server /\ m.term \in Nat /\ m.inc \in Nat
        /\ prev \in Nat /\ m.prevLogTerm \in Nat /\ m.entries \in Seq(Entry)
        /\ m.leaderCommit \in Nat /\ Len(m.entries) \in Nat
    BY <2>1, LenProperties DEF AppendEntriesArgs
  <2>3. ASSUME NEW term \in Nat, NEW success \in BOOLEAN, NEW ci \in Nat, NEW ct \in Nat,
               ct > 0 => ci > 0
        PROVE  reply(term, success, ci, ct) \in AppendEntriesReply
    BY <2>2, <2>3 DEF AppendEntriesReply
  <2>4. ASSUME NEW term \in Nat, NEW success \in BOOLEAN, NEW ci \in Nat, NEW ct \in Nat,
               ct > 0 => ci > 0, Answered(m, {reply(term, success, ci, ct)})
        PROVE  calls' \subseteq Call
    <3> HIDE DEF reply
    <3> QED
      BY <2>3, <2>4, AnsweredCalls DEF TypeOK, Call
  <2>5. UNCHANGED <<peerVars, applyVars, committed, isolated, incarnation>>
    BY <1>16 DEF HandleAppendEntries
  <2>6. CASE m.term < currentTerm[i]
    <3>1. /\ Answered(m, {reply(currentTerm[i], FALSE, 0, 0)})
          /\ UNCHANGED <<diskVars, roleVars, commitIndex, leaderId>>
      BY <1>16, <2>2, <2>6, <1>u DEF HandleAppendEntries
    <3>2. calls' \subseteq Call
      BY <3>1, <2>2, <2>4, <1>u
    <3> QED
      BY <2>5, <3>1, <3>2 DEF TypeOK, diskVars, roleVars, peerVars, applyVars
  <2>7. CASE ~(m.term < currentTerm[i])
    <3>1. /\ IF m.term > currentTerm[i] \/ state[i] = Candidate
             THEN BecomeFollower(i, m.term)
             ELSE UNCHANGED <<currentTerm, votedFor, roleVars>>
          /\ leaderId' = [leaderId EXCEPT ![i] = m.from]
      BY <1>16, <2>7 DEF HandleAppendEntries
    <3>2. /\ state' \in [Server -> {Follower, Candidate, Leader}]
          /\ currentTerm' \in [Server -> Nat]
          /\ votedFor' \in [Server -> Server \cup {Nil}]
          /\ votes' \in [Server -> SUBSET Server]
          /\ commitWaiters' \in [Server -> SUBSET Slot]
          /\ leaderId' \in [Server -> Server \cup {Nil}]
      BY <3>1, <2>2, BecomeFollowerType DEF TypeOK, roleVars
    <3>3. CASE prev > LastLogIndex(i)
      <4>1. /\ Answered(m, {reply(m.term, FALSE, LastLogIndex(i) + 1, 0)})
            /\ UNCHANGED <<log, commitIndex>>
        BY <1>16, <2>7, <3>3 DEF HandleAppendEntries
      <4>2. PICK ci \in Nat : ci = LastLogIndex(i) + 1
        BY <1>s, <2>2 DEF LastLogIndex
      <4>3. calls' \subseteq Call
        <5>1. Answered(m, {reply(m.term, FALSE, ci, 0)})
          BY <4>1, <4>2
        <5>2. 0 > 0 => ci > 0
          OBVIOUS
        <5> HIDE DEF reply
        <5> QED
          BY <5>1, <5>2, <2>2, <2>4
      <4> QED
        BY <2>5, <3>2, <4>1, <4>3 DEF TypeOK, peerVars, applyVars
    <3>4. CASE prev <= LastLogIndex(i) /\ Conflicts(i, prev, m.prevLogTerm)
      <4>1. /\ Answered(m, {reply(m.term, FALSE, FirstOfTerm(i, prev), log[i][prev].term)})
            /\ UNCHANGED <<log, commitIndex>>
        BY <1>16, <1>s, <2>2, <2>7, <3>4 DEF HandleAppendEntries, LastLogIndex
      <4>2. prev \in 1..Len(log[i])
        BY <1>s, <2>2, <3>4 DEF Conflicts, LastLogIndex
      <4>3. FirstOfTerm(i, prev) \in Nat /\ FirstOfTerm(i, prev) > 0
        BY <2>2, <4>2, FirstOfTermType
      <4>4. log[i][prev].term \in Nat
        <5>1. log[i][prev] \in Entry
          BY <1>s, <2>2, <4>2, ElementOfSeq
        <5> QED
          BY <5>1 DEF Entry
      <4>5. calls' \subseteq Call
        BY <4>1, <4>3, <4>4, <2>2, <2>4
      <4> QED
        BY <2>5, <3>2, <4>1, <4>5 DEF TypeOK, peerVars, applyVars
    <3>5. CASE prev <= LastLogIndex(i) /\ ~Conflicts(i, prev, m.prevLogTerm)
      <4>1. /\ log' = [log EXCEPT ![i] = Merge(@, prev, m.entries)]
            /\ commitIndex' = [commitIndex EXCEPT ![i] =
                 IF m.leaderCommit > @
                 THEN IF m.leaderCommit <= Len(log'[i])
                      THEN m.leaderCommit ELSE Len(log'[i])
                 ELSE @]
            /\ Answered(m, {reply(m.term, TRUE, 0, 0)})
        BY <1>16, <1>s, <2>2, <2>7, <3>5 DEF HandleAppendEntries, LastLogIndex
      <4>2. Merge(log[i], prev, m.entries) \in Seq(Entry)
        BY <1>s, <2>2, <3>5, MergeType DEF LastLogIndex
      <4>3. log' \in [Server -> Seq(Entry)]
        BY <4>1, <4>2, <2>2 DEF TypeOK
      <4>4. Len(log'[i]) \in Nat
        BY <4>3, <2>2, LenProperties
      <4>5. commitIndex' \in [Server -> Nat]
        BY <4>1, <4>4, <2>2 DEF TypeOK
      <4>6. calls' \subseteq Call
        BY <4>1, <2>2, <2>4
      <4> QED
        BY <2>5, <3>2, <4>3, <4>5, <4>6 DEF TypeOK, peerVars, applyVars
    <3> QED
      BY <1>s, <2>2, <3>3, <3>4, <3>5 DEF LastLogIndex
  <2> QED
    BY <2>6, <2>7
<1>17. ASSUME NEW m \in calls, HandleAppendEntriesReply(m)
       PROVE  TypeOK'
  <2> DEFINE i == m.to
             p == m.from
             match == IF m.newMatch > matchIndex[i][p]
                      THEN [matchIndex[i] EXCEPT ![p] = m.newMatch] ELSE matchIndex[i]
  <2>1. m \in AppendEntriesReply
    BY <1>17, CallFields DEF HandleAppendEntriesReply
  <2>2. /\ i \in Server /\ p \in Server /\ m.term \in Nat /\ m.newMatch \in Nat
        /\ m.conflictIndex \in Nat /\ m.conflictTerm \in Nat
        /\ m.conflictTerm > 0 => m.conflictIndex > 0
    BY <2>1 DEF AppendEntriesReply
  <2>3. calls' \subseteq Call
    BY <1>17, AnsweredCalls DEF HandleAppendEntriesReply, TypeOK
  <2>4. UNCHANGED <<log, applyVars, leaderId, isolated, incarnation>>
    BY <1>17 DEF HandleAppendEntriesReply
  <2>5. CASE m.term > currentTerm[i]
    <3>1. BecomeFollower(i, m.term) /\ UNCHANGED <<peerVars, commitIndex, committed>>
      BY <1>17, <2>2, <2>5, <1>u DEF HandleAppendEntriesReply
    <3> QED
      BY <2>2, <2>3, <2>4, <3>1, BecomeFollowerType DEF TypeOK, peerVars, applyVars
  <2>6. CASE m.term <= currentTerm[i] /\ state[i] # Leader
    <3>1. UNCHANGED <<currentTerm, votedFor, roleVars, peerVars, commitIndex, committed>>
      BY <1>17, <2>2, <2>6, <1>u DEF HandleAppendEntriesReply
    <3> QED
      BY <2>3, <2>4, <3>1 DEF TypeOK, roleVars, peerVars, applyVars
  <2>7. CASE m.term <= currentTerm[i] /\ state[i] = Leader /\ m.success
    <3>1. /\ matchIndex' = [matchIndex EXCEPT ![i] = match]
          /\ nextIndex' = IF m.newMatch > matchIndex[i][p]
                          THEN [nextIndex EXCEPT ![i][p] = m.newMatch + 1]
                          ELSE nextIndex
          /\ AdvanceCommitIndex(i, match)
          /\ UNCHANGED <<currentTerm, votedFor, roleVars>>
      BY <1>17, <2>2, <2>7, <1>u DEF HandleAppendEntriesReply
    <3>2. commitIndex' \in [Server -> Nat] /\ committed' \in Seq(Entry)
      BY <2>2, <3>1, AdvanceCommitIndexType
    <3>3. match \in [Server -> Nat]
      BY <2>2 DEF TypeOK
    <3>4. m.newMatch + 1 \in Nat \ {0}
      BY <2>2
    <3>5. /\ matchIndex' \in [Server -> [Server -> Nat]]
          /\ nextIndex' \in [Server -> [Server -> Nat \ {0}]]
      <4> HIDE DEF match
      <4>1. matchIndex' \in [Server -> [Server -> Nat]]
        BY <2>2, <3>1, <3>3 DEF TypeOK
      <4>2. nextIndex' \in [Server -> [Server -> Nat \ {0}]]
        BY <2>2, <3>1, <3>4 DEF TypeOK
      <4> QED
        BY <4>1, <4>2
    <3> QED
      BY <2>3, <2>4, <3>1, <3>2, <3>5 DEF TypeOK, roleVars, applyVars
  <2>8. CASE m.term <= currentTerm[i] /\ state[i] = Leader /\ ~m.success
    <3>1. /\ nextIndex' = [nextIndex EXCEPT ![i][p] =
                             NextAfterConflict(i, m.conflictIndex, m.conflictTerm)]
          /\ UNCHANGED <<currentTerm, votedFor, roleVars, matchIndex, commitIndex,
                         committed>>
      BY <1>17, <2>2, <2>8, <1>u DEF HandleAppendEntriesReply
    <3>2. NextAfterConflict(i, m.conflictIndex, m.conflictTerm) \in Nat \ {0}
      BY <2>2, NextAfterConflictType
    <3>3. nextIndex' \in [Server -> [Server -> Nat \ {0}]]
      BY <2>2, <3>1, <3>2 DEF TypeOK
    <3> QED
      BY <2>3, <2>4, <3>1, <3>3 DEF TypeOK, roleVars, applyVars
  <2> QED
    BY <2>2, <2>5, <2>6, <2>7, <2>8, <1>u
<1>18. CASE UNCHANGED vars
  BY <1>18 DEF vars, diskVars, roleVars, peerVars, applyVars, TypeOK
<1>19. ASSUME NEW i \in Server, ServerStep(i)
       PROVE  TypeOK'
  BY <1>19, <1>1, <1>2, <1>3, <1>4, <1>5, <1>6, <1>7, <1>8, <1>9, <1>11 DEF ServerStep
<1>20. ASSUME NEW m \in calls, CallStep(m)
       PROVE  TypeOK'
  BY <1>20, <1>12, <1>13, <1>14, <1>15, <1>16, <1>17 DEF CallStep
<1> QED
  BY <1>18, <1>19, <1>20 DEF Next

\* The variables of every server always have their types.  In particular a
\* leader's next_index never falls to 0, whatever conflict hints arrive late.
THEOREM TypeCorrect == Spec => []TypeOK
<1>1. Init => TypeOK
  BY TypeInit
<1>2. TypeOK /\ [Next]_vars => TypeOK'
  BY TypeStep
<1> QED
  BY <1>1, <1>2, PTL DEF Spec

-----------------------------------------------------------------------------
(* Elections                                                               *)

\* A candidate voted for itself
CandidateVotesItself ==
    \A i \in Server : state[i] = Candidate => votedFor[i] = i

\* A leader counted a majority of votes in its term
LeaderHasMajority ==
    \A i \in Server : state[i] = Leader => Cardinality(votes[i]) >= Majority

\* Servers call their peers, never themselves
NoSelfCalls == \A m \in calls : m.from # m.to

\* VoteRemembered and OneVotePerTerm, in terms of any size
GrantRemembered ==
    \A v, c \in Server : \A term \in Nat :
        Granted(v, c, term) =>
            /\ term <= currentTerm[v]
            /\ term = currentTerm[v] => votedFor[v] = c

OneGrant ==
    \A v, c, d \in Server : \A term \in Nat :
        Granted(v, c, term) /\ Granted(v, d, term) => c = d

ElectionInv ==
    /\ CandidateVotesItself
    /\ LeaderHasMajority
    /\ NoSelfCalls
    /\ GrantRemembered
    /\ OneGrant

-----------------------------------------------------------------------------
\* A step that grants no vote, and after which every server either still has
\* its term, its vote and at most its counted votes, or has left the race (in
\* a newer term, or as a candidate that steps down), keeps the grants sound.
LEMMA NoNewGrant ==
    ASSUME TypeOK, TypeOK', ElectionInv,
           \A m \in calls' : m \in calls \/ (m.type # "RequestVoteReply" /\ m.from # m.to),
           \A j \in Server :
               \/ /\ currentTerm'[j] = currentTerm[j] /\ votedFor'[j] = votedFor[j]
                  /\ votes'[j] \subseteq votes[j]
               \/ currentTerm'[j] > currentTerm[j] /\ votes'[j] = {}
               \/ /\ currentTerm'[j] = currentTerm[j] /\ state[j] = Candidate
                  /\ votes'[j] = {}
    PROVE  NoSelfCalls' /\ GrantRemembered' /\ OneGrant'
<1>1. NoSelfCalls'
  BY DEF ElectionInv, NoSelfCalls
<1>2. ASSUME NEW v \in Server, NEW c \in Server, NEW term \in Nat, Granted(v, c, term)'
      PROVE  Granted(v, c, term)
  BY <1>2 DEF Granted
<1>3. GrantRemembered'
  <2> SUFFICES ASSUME NEW v \in Server, NEW c \in Server, NEW term \in Nat,
                      Granted(v, c, term)'
               PROVE  /\ term <= currentTerm'[v]
                      /\ term = currentTerm'[v] => votedFor'[v] = c
    BY DEF GrantRemembered
  <2>1. currentTerm[v] \in Nat /\ currentTerm'[v] \in Nat
    BY DEF TypeOK
  <2>2. /\ term <= currentTerm[v]
        /\ term = currentTerm[v] => votedFor[v] = c
    BY <1>2 DEF ElectionInv, GrantRemembered
  <2>3. CASE currentTerm'[v] > currentTerm[v]
    BY <2>1, <2>2, <2>3
  <2>4. CASE currentTerm'[v] = currentTerm[v] /\ votedFor'[v] = votedFor[v]
    BY <2>2, <2>4
  <2>5. CASE currentTerm'[v] = currentTerm[v] /\ state[v] = Candidate /\ votes'[v] = {}
    <3>1. term = currentTerm[v] => c = v
      BY <2>2, <2>5 DEF ElectionInv, CandidateVotesItself
    <3>2. ~Granted(v, v, term)'
      BY <1>1, <2>5 DEF Granted, NoSelfCalls
    <3> QED
      BY <2>2, <2>5, <3>1, <3>2
  <2> QED
    BY <2>3, <2>4, <2>5
<1>4. OneGrant'
  BY <1>2 DEF ElectionInv, OneGrant
<1> QED
  BY <1>1, <1>3, <1>4

\* Servers that are candidates or leaders after a step and kept their term,
\* vote and ballots keep what an election owes.
LEMMA OthersKeepTheirRace ==
    ASSUME ElectionInv,
           \A j \in Server : state'[j] # Follower =>
             /\ state'[j] = state[j] /\ currentTerm'[j] = currentTerm[j]
             /\ votedFor'[j] = votedFor[j] /\ votes'[j] = votes[j]
    PROVE  CandidateVotesItself' /\ LeaderHasMajority'
BY DEF ElectionInv, CandidateVotesItself, LeaderHasMajority, Follower, Candidate, Leader

\* Stepping down, where the code does it, takes the server out of the race.
LEMMA StepDown ==
    ASSUME TypeOK, TypeOK', ElectionInv, NEW i \in Server, NEW term \in Nat,
           BecomeFollower(i, term),
           term > currentTerm[i] \/ (term = currentTerm[i] /\ state[i] = Candidate),
           \A m \in calls' : m \in calls \/ (m.type # "RequestVoteReply" /\ m.from # m.to)
    PROVE  ElectionInv'
<1>1. /\ currentTerm' = [currentTerm EXCEPT ![i] = term]
      /\ votedFor' = [votedFor EXCEPT ![i] = Nil]
      /\ votes' = [votes EXCEPT ![i] = {}]
      /\ state' = [state EXCEPT ![i] = Follower]
  BY DEF BecomeFollower
<1>2. NoSelfCalls' /\ GrantRemembered' /\ OneGrant'
  <2>1. ASSUME NEW j \in Server
        PROVE  \/ /\ currentTerm'[j] = currentTerm[j] /\ votedFor'[j] = votedFor[j]
                  /\ votes'[j] \subseteq votes[j]
               \/ currentTerm'[j] > currentTerm[j] /\ votes'[j] = {}
               \/ /\ currentTerm'[j] = currentTerm[j] /\ state[j] = Candidate
                  /\ votes'[j] = {}
    BY <1>1 DEF TypeOK
  <2> QED
    BY <2>1, NoNewGrant
<1>3. CandidateVotesItself' /\ LeaderHasMajority'
  <2>1. \A j \in Server : state'[j] # Follower =>
           /\ state'[j] = state[j] /\ currentTerm'[j] = currentTerm[j]
           /\ votedFor'[j] = votedFor[j] /\ votes'[j] = votes[j]
    BY <1>1 DEF TypeOK
  <2> QED
    BY <2>1, OthersKeepTheirRace
<1> QED
  BY <1>2, <1>3 DEF ElectionInv

\* A step that changes no term, vote or role and grants nothing.
LEMMA OutsideElection ==
    ASSUME TypeOK, TypeOK', ElectionInv, UNCHANGED <<currentTerm, votedFor, state, votes>>,
           \A m \in calls' : m \in calls \/ (m.type # "RequestVoteReply" /\ m.from # m.to)
    PROVE  ElectionInv'
<1>1. NoSelfCalls' /\ GrantRemembered' /\ OneGrant'
  BY NoNewGrant
<1>2. CandidateVotesItself' /\ LeaderHasMajority'
  BY DEF ElectionInv, CandidateVotesItself, LeaderHasMajority
<1> QED
  BY <1>1, <1>2 DEF ElectionInv

\* Every step keeps the invariant.
LEMMA ElectionStep == TypeOK /\ TypeOK' /\ ElectionInv /\ [Next]_vars => ElectionInv'
<1> SUFFICES ASSUME TypeOK, TypeOK', ElectionInv, [Next]_vars
             PROVE  ElectionInv'
  OBVIOUS
<1>1. ASSUME NEW i \in Server, NEW sent \in SUBSET (Server \ {i}), StartElection(i, sent)
      PROVE  ElectionInv'
  <2> DEFINE t == currentTerm[i] + 1
  <2>1. /\ currentTerm' = [currentTerm EXCEPT ![i] = t]
        /\ votedFor' = [votedFor EXCEPT ![i] = i]
        /\ votes' = [votes EXCEPT ![i] = {i}]
        /\ state' = [state EXCEPT ![i] = Candidate]
        /\ \A m \in calls' : m \in calls \/ (m.type = "RequestVote" /\ m.from # m.to)
    BY <1>1 DEF StartElection
  <2>2. currentTerm[i] \in Nat
    BY DEF TypeOK
  <2>a. currentTerm'[i] = t /\ votedFor'[i] = i /\ votes'[i] = {i} /\ state'[i] = Candidate
    BY <2>1 DEF TypeOK
  <2>b. \A j \in Server : j # i => /\ currentTerm'[j] = currentTerm[j]
                                   /\ votedFor'[j] = votedFor[j]
                                   /\ votes'[j] = votes[j]
                                   /\ state'[j] = state[j]
    BY <2>1 DEF TypeOK
  <2>3. ASSUME NEW v \in Server, NEW c \in Server, NEW term \in Nat,
               Granted(v, c, term)'
        PROVE  Granted(v, c, term) \/ (v = i /\ c = i /\ term = t)
    <3> HIDE DEF t
    <3>1. CASE c = i
      BY <2>1, <2>3, <2>a, <3>1 DEF Granted
    <3>2. CASE c # i
      BY <2>1, <2>3, <2>b, <3>2 DEF Granted
    <3> QED
      BY <3>1, <3>2
  <2>4. ASSUME NEW c \in Server
        PROVE  ~Granted(i, c, t)
    BY <2>2 DEF ElectionInv, GrantRemembered
  <2>5. NoSelfCalls'
    BY <2>1 DEF ElectionInv, NoSelfCalls
  <2>6. GrantRemembered'
    <3> SUFFICES ASSUME NEW v \in Server, NEW c \in Server, NEW term \in Nat,
                        Granted(v, c, term)'
                 PROVE  /\ term <= currentTerm'[v]
                        /\ term = currentTerm'[v] => votedFor'[v] = c
      BY DEF GrantRemembered
    <3>1. CASE v = i /\ c = i /\ term = t
      BY <2>2, <2>a, <3>1
    <3>2. CASE Granted(v, c, term)
      <4>1. /\ term <= currentTerm[v]
            /\ term = currentTerm[v] => votedFor[v] = c
        BY <3>2 DEF ElectionInv, GrantRemembered
      <4>2. CASE v = i
        BY <2>2, <2>a, <4>1, <4>2
      <4>3. CASE v # i
        BY <2>b, <4>1, <4>3
      <4> QED
        BY <4>2, <4>3
    <3> QED
      BY <2>3, <3>1, <3>2
  <2>7. OneGrant'
    <3> SUFFICES ASSUME NEW v \in Server, NEW c \in Server, NEW d \in Server,
                        NEW term \in Nat, Granted(v, c, term)', Granted(v, d, term)'
                 PROVE  c = d
      BY DEF OneGrant
    <3>1. CASE Granted(v, c, term) /\ Granted(v, d, term)
      BY <3>1 DEF ElectionInv, OneGrant
    <3>2. CASE v = i /\ term = t
      BY <2>3, <2>4, <3>2
    <3> HIDE DEF t
    <3> QED
      BY <2>3, <3>1, <3>2
  <2>8. CandidateVotesItself' /\ LeaderHasMajority'
    BY <2>a, <2>b DEF ElectionInv, CandidateVotesItself, LeaderHasMajority,
                      Candidate, Leader
  <2> QED
    BY <2>5, <2>6, <2>7, <2>8 DEF ElectionInv
<1>2. ASSUME NEW i \in Server, BecomeLeader(i)
      PROVE  ElectionInv'
  <2>1. /\ state' = [state EXCEPT ![i] = Leader]
        /\ Cardinality(votes[i]) >= Majority
        /\ UNCHANGED <<currentTerm, votedFor, votes, calls>>
    BY <1>2 DEF BecomeLeader
  <2>2. NoSelfCalls' /\ GrantRemembered' /\ OneGrant'
    BY <2>1, NoNewGrant
  <2>3. CandidateVotesItself' /\ LeaderHasMajority'
    BY <2>1 DEF ElectionInv, CandidateVotesItself, LeaderHasMajority, TypeOK,
                Candidate, Leader
  <2> QED
    BY <2>2, <2>3 DEF ElectionInv
<1>3. ASSUME NEW i \in Server, LoseElection(i)
      PROVE  ElectionInv'
  <2>1. /\ state[i] = Candidate
        /\ votes' = [votes EXCEPT ![i] = {}]
        /\ UNCHANGED <<currentTerm, votedFor, state, calls>>
    BY <1>3 DEF LoseElection, diskVars
  <2>2. \A j \in Server : votes'[j] \subseteq votes[j] /\ (j # i => votes'[j] = votes[j])
    BY <2>1 DEF TypeOK
  <2>3. NoSelfCalls' /\ GrantRemembered' /\ OneGrant'
    BY <2>1, <2>2, NoNewGrant
  <2>4. CandidateVotesItself' /\ LeaderHasMajority'
    BY <2>1, <2>2 DEF ElectionInv, CandidateVotesItself, LeaderHasMajority,
                      Candidate, Leader
  <2> QED
    BY <2>3, <2>4 DEF ElectionInv
<1>4. ASSUME NEW i \in Server,
             \/ \E op \in Op : AppendEntry(i, op)
             \/ FetchCommitted(i)
             \/ ApplyEntry(i)
             \/ \E w \in commitWaiters[i] : WaiterTimeout(i, w)
             \/ \E b \in BOOLEAN : SetIsolated(i, b)
      PROVE  ElectionInv'
  <2>1. UNCHANGED <<currentTerm, votedFor, state, votes, calls>>
    BY <1>4 DEF AppendEntry, FetchCommitted, ApplyEntry, WaiterTimeout, SetIsolated,
                diskVars, roleVars
  <2> QED
    BY <2>1, OutsideElection
<1>5. ASSUME NEW i \in Server, NEW p \in Server, SendAppendEntries(i, p)
      PROVE  ElectionInv'
  <2>1. /\ UNCHANGED <<currentTerm, votedFor, state, votes>>
        /\ \A m \in calls' : m \in calls \/ (m.type = "AppendEntries" /\ m.from # m.to)
    BY <1>5 DEF SendAppendEntries, diskVars, roleVars
  <2> QED
    BY <2>1, OutsideElection
<1>6. ASSUME NEW i \in Server, Reboot(i), calls' \subseteq calls,
             \A j \in Server : \/ currentTerm'[j] = currentTerm[j] /\ votedFor'[j] = votedFor[j]
                               \/ j = i /\ currentTerm'[j] > currentTerm[j]
                               \/ j = i /\ currentTerm'[j] = currentTerm[j] /\ state[j] = Candidate
      PROVE  ElectionInv'
  <2>1. /\ votes' = [votes EXCEPT ![i] = {}]
        /\ state' = [state EXCEPT ![i] = Follower]
    BY <1>6 DEF Reboot
  <2>2. ASSUME NEW j \in Server
        PROVE  \/ /\ currentTerm'[j] = currentTerm[j] /\ votedFor'[j] = votedFor[j]
                  /\ votes'[j] \subseteq votes[j]
               \/ currentTerm'[j] > currentTerm[j] /\ votes'[j] = {}
               \/ /\ currentTerm'[j] = currentTerm[j] /\ state[j] = Candidate
                  /\ votes'[j] = {}
    <3>1. votes'[j] = IF j = i THEN {} ELSE votes[j]
      BY <2>1 DEF TypeOK
    <3> QED
      BY <1>6, <3>1
  <2>3. NoSelfCalls' /\ GrantRemembered' /\ OneGrant'
    BY <1>6, <2>2, NoNewGrant
  <2>4. CandidateVotesItself' /\ LeaderHasMajority'
    <3>1. \A j \in Server : state'[j] # Follower =>
             /\ state'[j] = state[j] /\ currentTerm'[j] = currentTerm[j]
             /\ votedFor'[j] = votedFor[j] /\ votes'[j] = votes[j]
      BY <1>6, <2>1 DEF TypeOK
    <3> QED
      BY <3>1, OthersKeepTheirRace
  <2> QED
    BY <2>3, <2>4 DEF ElectionInv
<1>7. ASSUME NEW i \in Server, Restart(i)
      PROVE  ElectionInv'
  BY <1>6, <1>7 DEF Restart
<1>8. ASSUME NEW m \in calls, CrashInHandler(m)
      PROVE  ElectionInv'
  <2>1. m.to \in Server /\ m.term \in Nat
    BY CallFields
  <2>2. /\ \/ m.term > currentTerm[m.to]
           \/ m.term = currentTerm[m.to] /\ state[m.to] = Candidate
        /\ Reboot(m.to)
        /\ currentTerm' = [currentTerm EXCEPT ![m.to] = m.term]
        /\ votedFor' = [votedFor EXCEPT ![m.to] = Nil]
        /\ calls' = calls \ {m}
    BY <1>8 DEF CrashInHandler
  <2>3. \A j \in Server : \/ currentTerm'[j] = currentTerm[j] /\ votedFor'[j] = votedFor[j]
                          \/ j = m.to /\ currentTerm'[j] > currentTerm[j]
                          \/ /\ j = m.to /\ currentTerm'[j] = currentTerm[j]
                             /\ state[j] = Candidate
    BY <2>1, <2>2 DEF TypeOK
  <2> QED
    BY <1>6, <2>1, <2>2, <2>3
<1>9. ASSUME NEW m \in calls, LoseCall(m)
      PROVE  ElectionInv'
  <2>1. UNCHANGED <<currentTerm, votedFor, state, votes>> /\ calls' \subseteq calls
    BY <1>9 DEF LoseCall, diskVars, roleVars
  <2> QED
    BY <2>1, OutsideElection
<1>10. ASSUME NEW m \in calls, HandleRequestVoteReply(m)
       PROVE  ElectionInv'
  <2> DEFINE i == m.to
  <2>1. i \in Server /\ m.from \in Server /\ m.term \in Nat
    BY CallFields
  <2>2. calls' \subseteq calls
    BY <1>10, AnsweredCalls DEF HandleRequestVoteReply
  <2>3. CASE m.term > currentTerm[i] /\ BecomeFollower(i, m.term)
    BY <2>1, <2>2, <2>3, StepDown
  <2>4. CASE ~(m.term > currentTerm[i] /\ BecomeFollower(i, m.term))
    <3>1. /\ m.type = "RequestVoteReply"
          /\ votes' = IF m.voteGranted /\ m.election = currentTerm[i] /\ votes[i] # {}
                      THEN [votes EXCEPT ![i] = @ \cup {m.from}] ELSE votes
          /\ UNCHANGED <<state, currentTerm, votedFor>>
      BY <1>10, <2>4 DEF HandleRequestVoteReply
    <3>2. CASE ~(m.voteGranted /\ m.election = currentTerm[i] /\ votes[i] # {})
      BY <2>2, <3>1, <3>2, OutsideElection
    <3>3. CASE m.voteGranted /\ m.election = currentTerm[i] /\ votes[i] # {}
      <4>1. \A j \in Server : votes'[j] = IF j = i THEN votes[j] \cup {m.from} ELSE votes[j]
        BY <2>1, <3>1, <3>3 DEF TypeOK
      <4>2. ASSUME NEW v \in Server, NEW c \in Server, NEW term \in Nat,
                   Granted(v, c, term)'
            PROVE  Granted(v, c, term)
        BY <2>2, <3>1, <3>3, <4>1, <4>2 DEF Granted
      <4>3. GrantRemembered' /\ OneGrant'
        BY <3>1, <4>2 DEF ElectionInv, GrantRemembered, OneGrant
      <4>4. NoSelfCalls' /\ CandidateVotesItself'
        BY <2>2, <3>1 DEF ElectionInv, NoSelfCalls, CandidateVotesItself
      <4>5. LeaderHasMajority'
        <5> SUFFICES ASSUME NEW j \in Server, state[j] = Leader
                     PROVE  Cardinality(votes'[j]) >= Majority
          BY <3>1 DEF LeaderHasMajority, Majority
        <5>1. votes[j] \subseteq votes'[j] /\ votes'[j] \subseteq Server
          BY <4>1 DEF TypeOK
        <5>2. IsFiniteSet(votes'[j])
          BY <5>1, ServerAssumption, FS_Subset
        <5>3. /\ Cardinality(votes[j]) <= Cardinality(votes'[j])
              /\ Cardinality(votes[j]) \in Nat /\ Cardinality(votes'[j]) \in Nat
          BY <5>1, <5>2, FS_Subset, FS_CardinalityType
        <5>4. Cardinality(Server) \in Nat
          BY ServerAssumption, FS_CardinalityType
        <5> QED
          BY <5>3, <5>4 DEF ElectionInv, LeaderHasMajority, Majority
      <4> QED
        BY <4>3, <4>4, <4>5 DEF ElectionInv
    <3> QED
      BY <3>2, <3>3
  <2> QED
    BY <2>3, <2>4
<1>11. ASSUME NEW m \in calls, HandleAppendEntries(m)
       PROVE  ElectionInv'
  <2> DEFINE i == m.to
  <2>1. /\ i \in Server /\ m.from \in Server /\ m.term \in Nat
        /\ i # m.from /\ currentTerm[i] \in Nat
    BY CallFields DEF ElectionInv, NoSelfCalls, TypeOK
  <2>2. \A r \in calls' : r \in calls \/ (r.type # "RequestVoteReply" /\ r.from # r.to)
    <3> DEFINE reply(term, success, ci, ct) ==
                 [type |-> "AppendEntriesReply", from |-> i, to |-> m.from, inc |-> m.inc,
                  newMatch |-> m.prevLogIndex + Len(m.entries), term |-> term,
                  success |-> success, conflictIndex |-> ci, conflictTerm |-> ct]
    <3>1. \/ Answered(m, {reply(currentTerm[i], FALSE, 0, 0)})
          \/ Answered(m, {reply(m.term, FALSE, LastLogIndex(i) + 1, 0)})
          \/ Answered(m, {reply(m.term, FALSE, FirstOfTerm(i, m.prevLogIndex),
                                log[i][m.prevLogIndex].term)})
          \/ Answered(m, {reply(m.term, TRUE, 0, 0)})
      BY <1>11 DEF HandleAppendEntries
    <3>2. ASSUME NEW term, NEW success, NEW ci, NEW ct,
                 Answered(m, {reply(term, success, ci, ct)})
          PROVE  \A r \in calls' :
                     r \in calls \/ (r.type # "RequestVoteReply" /\ r.from # r.to)
      <4>1. calls' \subseteq calls \cup {reply(term, success, ci, ct)}
        BY <3>2, AnsweredCalls
      <4> QED
        BY <2>1, <4>1
    <3> HIDE DEF reply
    <3> QED
      BY <3>1, <3>2
  <2>3. CASE m.term > currentTerm[i] \/ (m.term = currentTerm[i] /\ state[i] = Candidate)
    <3>1. BecomeFollower(i, m.term)
      BY <1>11, <2>1, <2>3 DEF HandleAppendEntries
    <3> QED
      BY <2>1, <2>2, <2>3, <3>1, StepDown
  <2>4. CASE ~(m.term > currentTerm[i] \/ (m.term = currentTerm[i] /\ state[i] = Candidate))
    <3>1. UNCHANGED <<currentTerm, votedFor, state, votes>>
      BY <1>11, <2>1, <2>4 DEF HandleAppendEntries, diskVars, roleVars
    <3> QED
      BY <2>2, <3>1, OutsideElection
  <2> QED
    BY <2>3, <2>4
<1>12. ASSUME NEW m \in calls, HandleAppendEntriesReply(m)
       PROVE  ElectionInv'
  <2> DEFINE i == m.to
  <2>1. i \in Server /\ m.term \in Nat /\ currentTerm[i] \in Nat
    BY CallFields DEF TypeOK
  <2>2. calls' \subseteq calls
    BY <1>12, AnsweredCalls DEF HandleAppendEntriesReply
  <2>3. CASE m.term > currentTerm[i]
    <3>1. BecomeFollower(i, m.term)
      BY <1>12, <2>1, <2>3 DEF HandleAppendEntriesReply
    <3> QED
      BY <2>1, <2>2, <2>3, <3>1, StepDown
  <2>4. CASE ~(m.term > currentTerm[i])
    <3>1. UNCHANGED <<currentTerm, votedFor, state, votes>>
      BY <1>12, <2>1, <2>4 DEF HandleAppendEntriesReply, roleVars
    <3> QED
      BY <2>2, <3>1, OutsideElection
  <2> QED
    BY <2>3, <2>4
<1>13. ASSUME NEW m \in calls, HandleRequestVote(m)
       PROVE  ElectionInv'
  <2> DEFINE i == m.to
             newer == m.term > currentTerm[i]
             t == IF newer THEN m.term ELSE currentTerm[i]
             vote == IF newer THEN Nil ELSE votedFor[i]
             granted == VoteGranted(i, m, t, vote)
             reply == [type |-> "RequestVoteReply", from |-> i, to |-> m.from,
                       inc |-> m.inc, election |-> m.term, term |-> t,
                       voteGranted |-> granted]
  <2>1. /\ i \in Server /\ m.from \in Server /\ m.term \in Nat
        /\ i # m.from /\ currentTerm[i] \in Nat
    BY CallFields DEF ElectionInv, NoSelfCalls, TypeOK
  <2>2. granted => m.term = t /\ vote \in {Nil, m.from}
    BY <2>1 DEF VoteGranted
  <2> HIDE DEF granted
  <2>3. /\ currentTerm' = [currentTerm EXCEPT ![i] = t]
        /\ votedFor' = [votedFor EXCEPT ![i] = IF granted THEN m.from ELSE vote]
        /\ state' = IF newer THEN [state EXCEPT ![i] = Follower] ELSE state
        /\ votes' = IF newer THEN [votes EXCEPT ![i] = {}] ELSE votes
        /\ Answered(m, {reply})
    BY <1>13 DEF HandleRequestVote, granted
  <2>4. /\ currentTerm'[i] = t
        /\ votedFor'[i] = IF granted THEN m.from ELSE vote
        /\ newer => votes'[i] = {} /\ state'[i] = Follower
        /\ ~newer => votes'[i] = votes[i] /\ state'[i] = state[i]
    <3> HIDE DEF newer, t, vote, i
    <3>1. /\ currentTerm'[i] = t
          /\ votedFor'[i] = IF granted THEN m.from ELSE vote
      BY <2>1, <2>3 DEF TypeOK
    <3>2. /\ newer => votes'[i] = {} /\ state'[i] = Follower
          /\ ~newer => votes'[i] = votes[i] /\ state'[i] = state[i]
      BY <2>1, <2>3 DEF TypeOK
    <3> QED
      BY <3>1, <3>2
  <2>5. \A j \in Server : j # i => /\ currentTerm'[j] = currentTerm[j]
                                   /\ votedFor'[j] = votedFor[j]
                                   /\ votes'[j] = votes[j]
                                   /\ state'[j] = state[j]
    BY <2>1, <2>3 DEF TypeOK
  <2>6. calls' \subseteq calls \cup {reply}
    BY <2>3, AnsweredCalls
  <2>7. ASSUME NEW v \in Server, NEW c \in Server, NEW term \in Nat,
               Granted(v, c, term)'
        PROVE  Granted(v, c, term) \/ (granted /\ v = i /\ c = m.from /\ term = t)
    <3>1. CASE v \in votes'[c] /\ currentTerm'[c] = term
      BY <2>4, <2>5, <3>1 DEF Granted
    <3>2. CASE \E r \in calls' : /\ r.type = "RequestVoteReply" /\ r.voteGranted
                                 /\ r.from = v /\ r.to = c /\ r.election = term
      <4>1. PICK r \in calls' : /\ r.type = "RequestVoteReply" /\ r.voteGranted
                                /\ r.from = v /\ r.to = c /\ r.election = term
        BY <3>2
      <4>2. CASE r \in calls
        BY <4>1, <4>2 DEF Granted
      <4>3. CASE r = reply
        <5>1. granted /\ v = i /\ c = m.from /\ term = m.term
          <6> HIDE DEF t
          <6> QED
            BY <4>1, <4>3
        <5> QED
          BY <2>2, <5>1
      <4> QED
        BY <2>6, <4>2, <4>3
    <3> QED
      BY <2>7, <3>1, <3>2 DEF Granted
  <2>8. ASSUME granted, NEW c \in Server, Granted(i, c, t)
        PROVE  c = m.from
    <3>1. t <= currentTerm[i] /\ (t = currentTerm[i] => votedFor[i] = c)
      BY <2>1, <2>8 DEF ElectionInv, GrantRemembered
    <3>2. ~newer /\ vote = c
      BY <2>1, <3>1
    <3> QED
      BY <2>2, <2>8, <3>2, NilAssumption
  <2>9. NoSelfCalls'
    BY <2>1, <2>6 DEF ElectionInv, NoSelfCalls
  <2>10. GrantRemembered'
    <3> SUFFICES ASSUME NEW v \in Server, NEW c \in Server, NEW term \in Nat,
                        Granted(v, c, term)'
                 PROVE  /\ term <= currentTerm'[v]
                        /\ term = currentTerm'[v] => votedFor'[v] = c
      BY DEF GrantRemembered
    <3>1. CASE granted /\ v = i /\ c = m.from /\ term = t
      BY <2>1, <2>4, <3>1
    <3>2. CASE Granted(v, c, term)
      <4>1. /\ term <= currentTerm[v]
            /\ term = currentTerm[v] => votedFor[v] = c
        BY <3>2 DEF ElectionInv, GrantRemembered
      <4>2. CASE v # i
        BY <2>5, <4>1, <4>2
      <4>3. CASE v = i /\ newer
        BY <2>1, <2>4, <4>1, <4>3
      <4>4. CASE v = i /\ ~newer
        <5>1. t = currentTerm[i] /\ vote = votedFor[i]
          BY <4>4
        <5>2. CASE granted
          BY <2>4, <2>8, <3>2, <4>1, <4>4, <5>1, <5>2
        <5>3. CASE ~granted
          BY <2>4, <4>1, <4>4, <5>1, <5>3
        <5> QED
          BY <5>2, <5>3
      <4> QED
        BY <4>2, <4>3, <4>4
    <3> HIDE DEF t
    <3> QED
      BY <2>7, <3>1, <3>2
  <2>11. OneGrant'
    <3> SUFFICES ASSUME NEW v \in Server, NEW c \in Server, NEW d \in Server,
                        NEW term \in Nat, Granted(v, c, term)', Granted(v, d, term)'
                 PROVE  c = d
      BY DEF OneGrant
    <3> HIDE DEF t
    <3>1. CASE Granted(v, c, term) /\ Granted(v, d, term)
      BY <3>1 DEF ElectionInv, OneGrant
    <3>2. CASE granted /\ v = i /\ term = t
      BY <2>7, <2>8, <3>2
    <3> QED
      BY <2>7, <3>1, <3>2
  <2>12. CandidateVotesItself'
    <3> SUFFICES ASSUME NEW j \in Server, state'[j] = Candidate
                 PROVE  votedFor'[j] = j
      BY DEF CandidateVotesItself
    <3>1. CASE j # i
      BY <2>5, <3>1 DEF ElectionInv, CandidateVotesItself
    <3>2. CASE j = i
      <4>1. ~newer /\ state[i] = Candidate
        BY <2>4, <3>2 DEF Follower, Candidate
      <4>2. vote = i
        BY <2>1, <4>1 DEF ElectionInv, CandidateVotesItself
      <4>3. ~granted
        BY <2>1, <2>2, <4>2, NilAssumption
      <4> QED
        BY <2>4, <3>2, <4>2, <4>3
    <3> QED
      BY <3>1, <3>2
  <2>13. LeaderHasMajority'
    <3> SUFFICES ASSUME NEW j \in Server, state'[j] = Leader
                 PROVE  Cardinality(votes'[j]) >= Majority
      BY DEF LeaderHasMajority, Majority
    <3>1. state[j] = Leader /\ votes'[j] = votes[j]
      BY <2>4, <2>5 DEF Follower, Leader
    <3> QED
      BY <3>1 DEF ElectionInv, LeaderHasMajority
  <2> QED
    BY <2>9, <2>10, <2>11, <2>12, <2>13 DEF ElectionInv
<1>14. CASE UNCHANGED vars
  BY <1>14, OutsideElection DEF vars, diskVars, roleVars
<1>15. ASSUME NEW i \in Server, ServerStep(i)
       PROVE  ElectionInv'
  BY <1>15, <1>1, <1>2, <1>3, <1>4, <1>5, <1>7 DEF ServerStep
<1>16. ASSUME NEW m \in calls, CallStep(m)
       PROVE  ElectionInv'
  BY <1>16, <1>8, <1>9, <1>10, <1>11, <1>12, <1>13 DEF CallStep
<1> QED
  BY <1>14, <1>15, <1>16 DEF Next

\* Initially nobody leads and nothing was granted.
LEMMA ElectionInit == Init => ElectionInv
<1> SUFFICES ASSUME Init PROVE ElectionInv
  OBVIOUS
<1>1. \A v, c \in Server : \A term \in Nat : ~Granted(v, c, term)
  BY DEF Init, Granted
<1> QED
  BY <1>1 DEF Init, ElectionInv, CandidateVotesItself, LeaderHasMajority, NoSelfCalls,
              GrantRemembered, OneGrant, Follower, Candidate, Leader

\* Two majorities of servers have a server in common.
LEMMA MajoritiesIntersect ==
    ASSUME NEW P \in SUBSET Server, NEW Q \in SUBSET Server,
           Cardinality(P) >= Majority, Cardinality(Q) >= Majority
    PROVE  P \cap Q # {}
<1>1. /\ Cardinality(Server) \in Nat /\ Cardinality(P) \in Nat /\ Cardinality(Q) \in Nat
      /\ IsFiniteSet(Server)
  BY ServerAssumption, FS_Subset, FS_CardinalityType
<1>2. Cardinality(P) + Cardinality(Q) > Cardinality(Server)
  BY <1>1 DEF Majority
<1> QED
  BY <1>1, <1>2, FS_MajoritiesIntersect

\* The invariant rules out two leaders in one term.
LEMMA ElectionInvIsSafe == TypeOK /\ ElectionInv => ElectionSafety
<1> SUFFICES ASSUME TypeOK, ElectionInv, NEW i \in Server, NEW j \in Server,
                    state[i] = Leader, state[j] = Leader, currentTerm[i] = currentTerm[j]
             PROVE  i = j
  BY DEF ElectionSafety
<1>1. votes[i] \cap votes[j] # {}
  BY MajoritiesIntersect DEF ElectionInv, LeaderHasMajority, TypeOK
<1>2. PICK v \in Server : v \in votes[i] /\ v \in votes[j]
  BY <1>1 DEF TypeOK
<1>3. Granted(v, i, currentTerm[i]) /\ Granted(v, j, currentTerm[i])
  BY <1>2 DEF Granted
<1> QED
  BY <1>3 DEF ElectionInv, OneGrant, TypeOK

\* The election invariant holds in every reachable state.
THEOREM ElectionInvariant == Spec => []ElectionInv
<1>1. Spec => []TypeOK
  BY TypeCorrect
<1>2. Init => ElectionInv
  BY ElectionInit
<1>3. TypeOK /\ TypeOK' /\ ElectionInv /\ [Next]_vars => ElectionInv'
  BY ElectionStep
<1> QED
  BY <1>1, <1>2, <1>3, PTL DEF Spec

\* For every cluster: two servers never lead in the same term
\* (_start_election, handle_request_vote, _become_follower).
THEOREM ElectionSafe == Spec => []ElectionSafety
<1>1. TypeOK /\ ElectionInv => ElectionSafety
  BY ElectionInvIsSafe
<1> QED
  BY <1>1, TypeCorrect, ElectionInvariant, PTL

\* For every cluster: no vote ever counts for two candidates in one term,
\* restarts and steps down inside the term included.
THEOREM OneVote == Spec => []OneVotePerTerm
<1>1. ElectionInv => OneVotePerTerm
  BY BoundAssumption DEF ElectionInv, OneGrant, OneVotePerTerm
<1> QED
  BY <1>1, ElectionInvariant, PTL

\* For every cluster: a vote granted in the voter's term is the vote it has
\* on disk.
THEOREM VotesRemembered == Spec => []VoteRemembered
<1>1. ElectionInv => VoteRemembered
  BY BoundAssumption DEF ElectionInv, GrantRemembered, VoteRemembered
<1> QED
  BY <1>1, ElectionInvariant, PTL

-----------------------------------------------------------------------------
(***************************************************************************)
(* Logs match: two logs that hold an entry of one term at one index are    *)
(* equal up to it.                                                         *)
(*                                                                         *)
(* The argument.  A term in which somebody ever led is owned: a majority   *)
(* gave that term's votes to one server, remembers it, and so nobody else  *)
(* can win the term, not even the same server after a restart.  Entries of *)
(* a term are therefore created by one uninterrupted leadership, at the    *)
(* end of one log.  Every copy of an entry, in a log or in a call, comes   *)
(* with the term of the entry before it, and handle_append_entries accepts *)
(* a copy only after an entry of that term; so index and term determine    *)
(* the entry and the term before it, and, going back, the whole prefix.    *)
(***************************************************************************)

\* Entry e stands at index n, in a log or in a call, after an entry of term p
LogLink(i, n, e, p) ==
    n \in 1..Len(log[i]) /\ log[i][n] = e /\ TermAt(i, n - 1) = p

CallLink(m, n, e, p) ==
    /\ m.type = "AppendEntries"
    /\ n - m.prevLogIndex \in 1..Len(m.entries)
    /\ m.entries[n - m.prevLogIndex] = e
    /\ p = IF n = m.prevLogIndex + 1 THEN m.prevLogTerm
                                     ELSE m.entries[n - m.prevLogIndex - 1].term

Link(n, e, p) ==
    \/ \E i \in Server : LogLink(i, n, e, p)
    \/ \E m \in calls : CallLink(m, n, e, p)

\* Server c won term t with the votes of Q: they are remembered as long as the
\* term lasts, none of them was ever given to another server, and c itself is
\* through with its election
Owns(c, Q, t) ==
    /\ Cardinality(Q) >= Majority
    /\ t <= currentTerm[c]
    /\ currentTerm[c] = t => state[c] # Candidate
    /\ \A v \in Q :
         /\ t <= currentTerm[v]
         /\ currentTerm[v] = t => votedFor[v] = c /\ state[v] # Candidate
         /\ \A d \in Server : Granted(v, d, t) => d = c

Owned(t) == \E c \in Server : \E Q \in SUBSET Server : Owns(c, Q, t)

\* Index and term determine an entry and the term of the one before it
LinksAgree ==
    \A n \in Nat : \A e, f \in Entry : \A p, q \in Nat :
        Link(n, e, p) /\ Link(n, f, q) /\ e.term = f.term => e = f /\ p = q

\* Whatever carries a term was made by an owner of that term
TermsOwned ==
    /\ \A n \in Nat : \A e \in Entry : \A p \in Nat : Link(n, e, p) => Owned(e.term)
    /\ \A m \in calls : m.type = "AppendEntries" => Owned(m.term)

\* A leader has all entries of its term
LeaderAhead ==
    \A i \in Server : state[i] = Leader =>
        \A n \in Nat : \A e \in Entry : \A p \in Nat :
            Link(n, e, p) /\ e.term = currentTerm[i] => n <= Len(log[i])

\* The calls of a leader's term are its own
CallsOfLeader ==
    \A i \in Server : state[i] = Leader =>
        \A m \in calls : m.type = "AppendEntries" /\ m.term = currentTerm[i] => m.from = i

\* There is no term before the first entry
NoTermBeforeFirst ==
    \A m \in calls : m.type = "AppendEntries" /\ m.prevLogIndex = 0 => m.prevLogTerm = 0

LogInv ==
    /\ LinksAgree
    /\ TermsOwned
    /\ LeaderAhead
    /\ CallsOfLeader
    /\ NoTermBeforeFirst

-----------------------------------------------------------------------------
(* Owned terms                                                             *)

\* What a step may do to a server's term, vote and role, and to the grants:
\* terms grow; inside a term only a candidate loses its vote and nobody becomes
\* a candidate; a grant that is new is the voter's vote in its current term.
VoterStep(v) ==
    /\ currentTerm[v] <= currentTerm'[v]
    /\ currentTerm'[v] = currentTerm[v] /\ state[v] # Candidate =>
         /\ state'[v] # Candidate
         /\ votedFor[v] # Nil => votedFor'[v] = votedFor[v]
    /\ \A d \in Server : \A t \in Nat :
         Granted(v, d, t)' => Granted(v, d, t) \/ t = currentTerm'[v]

\* Steps that add no grant
LEMMA QuietVoters ==
    ASSUME TypeOK, TypeOK', ElectionInv,
           \A m \in calls' : m \in calls \/ m.type # "RequestVoteReply",
           \A j \in Server :
               \/ /\ currentTerm'[j] = currentTerm[j] /\ votedFor'[j] = votedFor[j]
                  /\ votes'[j] \subseteq votes[j]
                  /\ state[j] # Candidate => state'[j] # Candidate
               \/ currentTerm'[j] > currentTerm[j] /\ votes'[j] = {}
               \/ /\ currentTerm'[j] = currentTerm[j] /\ state[j] = Candidate
                  /\ votes'[j] = {}
    PROVE  \A v \in Server : VoterStep(v)
<1> SUFFICES ASSUME NEW v \in Server
             PROVE  VoterStep(v)
  OBVIOUS
<1>1. currentTerm[v] \in Nat /\ currentTerm'[v] \in Nat
  BY DEF TypeOK
<1>2. ASSUME NEW d \in Server, NEW t \in Nat, Granted(v, d, t)'
      PROVE  Granted(v, d, t)
  BY <1>2 DEF Granted
<1> QED
  BY <1>1, <1>2 DEF VoterStep

\* Every step is one.
LEMMA VotersStep ==
    ASSUME TypeOK, TypeOK', ElectionInv, [Next]_vars
    PROVE  \A v \in Server : VoterStep(v)
<1>1. ASSUME NEW i \in Server, NEW sent \in SUBSET (Server \ {i}), StartElection(i, sent)
      PROVE  \A v \in Server : VoterStep(v)
  <2> SUFFICES ASSUME NEW v \in Server
               PROVE  VoterStep(v)
    OBVIOUS
  <2>1. /\ currentTerm' = [currentTerm EXCEPT ![i] = @ + 1]
        /\ votedFor' = [votedFor EXCEPT ![i] = i]
        /\ votes' = [votes EXCEPT ![i] = {i}]
        /\ state' = [state EXCEPT ![i] = Candidate]
        /\ \A m \in calls' : m \in calls \/ m.type = "RequestVote"
    BY <1>1 DEF StartElection
  <2>2. currentTerm[v] \in Nat /\ currentTerm[i] \in Nat
    BY DEF TypeOK
  <2>3. currentTerm'[i] = currentTerm[i] + 1 /\ votes'[i] = {i}
    BY <2>1 DEF TypeOK
  <2>4. \A j \in Server : j # i =>
           /\ currentTerm'[j] = currentTerm[j] /\ votedFor'[j] = votedFor[j]
           /\ votes'[j] = votes[j] /\ state'[j] = state[j]
    BY <2>1 DEF TypeOK
  <2>5. ASSUME NEW d \in Server, NEW t \in Nat, Granted(v, d, t)'
        PROVE  Granted(v, d, t) \/ t = currentTerm'[v]
    <3>1. CASE d = i
      BY <2>1, <2>3, <2>5, <3>1 DEF Granted
    <3>2. CASE d # i
      BY <2>1, <2>4, <2>5, <3>2 DEF Granted
    <3> QED
      BY <3>1, <3>2
  <2>6. CASE v = i
    BY <2>2, <2>3, <2>5, <2>6 DEF VoterStep
  <2>7. CASE v # i
    BY <2>2, <2>4, <2>5, <2>7 DEF VoterStep
  <2> QED
    BY <2>6, <2>7
<1>2. ASSUME NEW i \in Server, BecomeLeader(i) \/ LoseElection(i)
      PROVE  \A v \in Server : VoterStep(v)
  <2>1. /\ state' = [state EXCEPT ![i] = Leader] \/ state' = state
        /\ votes' = [votes EXCEPT ![i] = {}] \/ votes' = votes
        /\ UNCHANGED <<currentTerm, votedFor, calls>>
    BY <1>2 DEF BecomeLeader, LoseElection, diskVars
  <2>2. \A j \in Server : votes'[j] \subseteq votes[j]
    BY <2>1 DEF TypeOK
  <2>3. \A j \in Server : state[j] # Candidate => state'[j] # Candidate
    BY <2>1 DEF TypeOK, Candidate, Leader
  <2> QED
    BY <2>1, <2>2, <2>3, QuietVoters
<1>3. ASSUME NEW i \in Server,
             \/ \E op \in Op : AppendEntry(i, op)
             \/ FetchCommitted(i)
             \/ ApplyEntry(i)
             \/ \E w \in commitWaiters[i] : WaiterTimeout(i, w)
             \/ \E b \in BOOLEAN : SetIsolated(i, b)
      PROVE  \A v \in Server : VoterStep(v)
  <2>1. UNCHANGED <<currentTerm, votedFor, state, votes, calls>>
    BY <1>3 DEF AppendEntry, FetchCommitted, ApplyEntry, WaiterTimeout, SetIsolated,
                diskVars, roleVars
  <2> QED
    BY <2>1, QuietVoters
<1>s. ASSUME NEW i \in Server, NEW p \in Server, SendAppendEntries(i, p)
      PROVE  \A v \in Server : VoterStep(v)
  <2>1. /\ UNCHANGED <<currentTerm, votedFor, state, votes>>
        /\ \A m \in calls' : m \in calls \/ m.type = "AppendEntries"
    BY <1>s DEF SendAppendEntries, diskVars, roleVars
  <2> QED
    BY <2>1, QuietVoters
<1>4. ASSUME NEW i \in Server, Reboot(i), calls' \subseteq calls,
             \A j \in Server : \/ currentTerm'[j] = currentTerm[j] /\ votedFor'[j] = votedFor[j]
                               \/ j = i /\ currentTerm'[j] > currentTerm[j]
                               \/ j = i /\ currentTerm'[j] = currentTerm[j] /\ state[j] = Candidate
      PROVE  \A v \in Server : VoterStep(v)
  <2>1. /\ votes' = [votes EXCEPT ![i] = {}]
        /\ state' = [state EXCEPT ![i] = Follower]
    BY <1>4 DEF Reboot
  <2>2. ASSUME NEW j \in Server
        PROVE  /\ votes'[j] = IF j = i THEN {} ELSE votes[j]
               /\ state'[j] = IF j = i THEN Follower ELSE state[j]
    BY <2>1 DEF TypeOK
  <2> QED
    BY <1>4, <2>2, QuietVoters DEF Follower, Candidate
<1>5. ASSUME NEW i \in Server, Restart(i)
      PROVE  \A v \in Server : VoterStep(v)
  BY <1>4, <1>5 DEF Restart
<1>6. ASSUME NEW m \in calls, CrashInHandler(m)
      PROVE  \A v \in Server : VoterStep(v)
  <2>1. m.to \in Server /\ m.term \in Nat
    BY CallFields
  <2>2. /\ \/ m.term > currentTerm[m.to]
           \/ m.term = currentTerm[m.to] /\ state[m.to] = Candidate
        /\ Reboot(m.to)
        /\ currentTerm' = [currentTerm EXCEPT ![m.to] = m.term]
        /\ votedFor' = [votedFor EXCEPT ![m.to] = Nil]
        /\ calls' = calls \ {m}
    BY <1>6 DEF CrashInHandler
  <2>3. \A j \in Server : \/ currentTerm'[j] = currentTerm[j] /\ votedFor'[j] = votedFor[j]
                          \/ j = m.to /\ currentTerm'[j] > currentTerm[j]
                          \/ /\ j = m.to /\ currentTerm'[j] = currentTerm[j]
                             /\ state[j] = Candidate
    BY <2>1, <2>2 DEF TypeOK
  <2> QED
    BY <1>4, <2>1, <2>2, <2>3
<1>7. ASSUME NEW m \in calls, LoseCall(m)
      PROVE  \A v \in Server : VoterStep(v)
  <2>1. UNCHANGED <<currentTerm, votedFor, state, votes>> /\ calls' \subseteq calls
    BY <1>7 DEF LoseCall, diskVars, roleVars
  <2> QED
    BY <2>1, QuietVoters
<1>8. ASSUME NEW i \in Server, NEW t \in Nat, BecomeFollower(i, t),
             t > currentTerm[i] \/ (t = currentTerm[i] /\ state[i] = Candidate),
             \A m \in calls' : m \in calls \/ m.type # "RequestVoteReply"
      PROVE  \A v \in Server : VoterStep(v)
  <2>1. /\ currentTerm' = [currentTerm EXCEPT ![i] = t]
        /\ votedFor' = [votedFor EXCEPT ![i] = Nil]
        /\ votes' = [votes EXCEPT ![i] = {}]
        /\ state' = [state EXCEPT ![i] = Follower]
    BY <1>8 DEF BecomeFollower
  <2>2. ASSUME NEW j \in Server
        PROVE  \/ /\ currentTerm'[j] = currentTerm[j] /\ votedFor'[j] = votedFor[j]
                  /\ votes'[j] \subseteq votes[j]
                  /\ state[j] # Candidate => state'[j] # Candidate
               \/ currentTerm'[j] > currentTerm[j] /\ votes'[j] = {}
               \/ /\ currentTerm'[j] = currentTerm[j] /\ state[j] = Candidate
                  /\ votes'[j] = {}
    BY <1>8, <2>1 DEF TypeOK
  <2> QED
    BY <1>8, <2>2, QuietVoters
<1>9. ASSUME NEW m \in calls, HandleRequestVoteReply(m)
      PROVE  \A v \in Server : VoterStep(v)
  <2> DEFINE i == m.to
  <2>1. i \in Server /\ m.from \in Server /\ m.term \in Nat
    BY CallFields
  <2>2. calls' \subseteq calls
    BY <1>9, AnsweredCalls DEF HandleRequestVoteReply
  <2>3. CASE m.term > currentTerm[i] /\ BecomeFollower(i, m.term)
    BY <1>8, <2>1, <2>2, <2>3
  <2>4. CASE ~(m.term > currentTerm[i] /\ BecomeFollower(i, m.term))
    <3>1. /\ m.type = "RequestVoteReply"
          /\ votes' = IF m.voteGranted /\ m.election = currentTerm[i] /\ votes[i] # {}
                      THEN [votes EXCEPT ![i] = @ \cup {m.from}] ELSE votes
          /\ UNCHANGED <<state, currentTerm, votedFor>>
      BY <1>9, <2>4 DEF HandleRequestVoteReply
    <3>2. ASSUME NEW d \in Server, NEW v \in votes'[d]
          PROVE  v \in votes[d] \/ (d = i /\ v = m.from /\ m.voteGranted
                                      /\ m.election = currentTerm[i])
      <4>1. i \in DOMAIN votes
        BY <2>1 DEF TypeOK
      <4> QED
        BY <3>1, <3>2, <4>1
    <3>3. ASSUME NEW v \in Server, NEW d \in Server, NEW t \in Nat, Granted(v, d, t)'
          PROVE  Granted(v, d, t)
      BY <2>2, <3>1, <3>2, <3>3 DEF Granted
    <3>4. \A v \in Server : currentTerm[v] \in Nat
      BY DEF TypeOK
    <3> QED
      BY <3>1, <3>3, <3>4 DEF VoterStep
  <2> QED
    BY <2>3, <2>4
<1>10. ASSUME NEW m \in calls, HandleRequestVote(m)
       PROVE  \A v \in Server : VoterStep(v)
  <2> DEFINE i == m.to
             newer == m.term > currentTerm[i]
             term == IF newer THEN m.term ELSE currentTerm[i]
             vote == IF newer THEN Nil ELSE votedFor[i]
             granted == VoteGranted(i, m, term, vote)
  <2>1. i \in Server /\ m.from \in Server /\ m.term \in Nat /\ currentTerm[i] \in Nat
    BY CallFields DEF TypeOK
  <2>2. /\ currentTerm' = [currentTerm EXCEPT ![i] = term]
        /\ votedFor' = [votedFor EXCEPT ![i] = IF granted THEN m.from ELSE vote]
        /\ state' = IF newer THEN [state EXCEPT ![i] = Follower] ELSE state
        /\ votes' = IF newer THEN [votes EXCEPT ![i] = {}] ELSE votes
    BY <1>10 DEF HandleRequestVote
  <2>3. \A r \in calls' : \/ r \in calls
                          \/ r.type = "RequestVoteReply" /\ r.voteGranted = granted
                               /\ r.from = i /\ r.election = m.term
    <3>1. calls' \subseteq calls \cup
             {[type |-> "RequestVoteReply", from |-> i, to |-> m.from,
               inc |-> m.inc, election |-> m.term, term |-> term,
               voteGranted |-> granted]}
      BY <1>10, AnsweredCalls DEF HandleRequestVote
    <3> QED
      BY <3>1
  <2>4. granted => m.term >= term /\ vote \in {Nil, m.from}
    BY DEF VoteGranted
  <2> HIDE DEF granted
  <2>5. \A d \in Server : votes'[d] \subseteq votes[d]
                            /\ (votes'[d] # {} => currentTerm'[d] = currentTerm[d])
    <3>1. i \in DOMAIN votes /\ i \in DOMAIN currentTerm
      BY <2>1 DEF TypeOK
    <3>2. DOMAIN votes = Server /\ DOMAIN currentTerm = Server
      BY DEF TypeOK
    <3>3. CASE newer
      BY <2>2, <3>1, <3>2, <3>3
    <3>4. CASE ~newer
      BY <2>2, <3>1, <3>2, <3>4
    <3> QED
      BY <3>3, <3>4
  <2>6. ASSUME NEW v \in Server, NEW d \in Server, NEW t \in Nat, Granted(v, d, t)'
        PROVE  Granted(v, d, t) \/ t = currentTerm'[v]
    <3>1. currentTerm'[i] = term
      BY <2>1, <2>2 DEF TypeOK
    <3>2. CASE v \in votes'[d] /\ currentTerm'[d] = t
      BY <2>5, <3>2 DEF Granted
    <3>3. ASSUME NEW r \in calls', r.type = "RequestVoteReply", r.voteGranted, r.from = v,
                 r.to = d, r.election = t
          PROVE  Granted(v, d, t) \/ t = currentTerm'[v]
      <4>1. CASE r \in calls
        BY <3>3, <4>1 DEF Granted
      <4>2. CASE r \notin calls
        BY <2>1, <2>3, <2>4, <3>1, <3>3, <4>2
      <4> QED
        BY <4>1, <4>2
    <3> QED
      BY <2>6, <3>2, <3>3 DEF Granted
  <2>7. ASSUME NEW v \in Server, v # i
        PROVE  VoterStep(v)
    <3>1. /\ currentTerm'[v] = currentTerm[v] /\ votedFor'[v] = votedFor[v]
          /\ state'[v] = state[v] /\ currentTerm[v] \in Nat
      BY <2>1, <2>2, <2>7 DEF TypeOK
    <3> QED
      BY <2>6, <3>1 DEF VoterStep
  <2>8. VoterStep(i)
    <3>1. /\ currentTerm'[i] = term
          /\ votedFor'[i] = IF granted THEN m.from ELSE vote
          /\ state'[i] = IF newer THEN Follower ELSE state[i]
      BY <2>1, <2>2, ZenonT(60) DEF TypeOK
    <3> QED
      BY <2>1, <2>4, <2>6, <3>1 DEF VoterStep
  <2> QED
    BY <2>7, <2>8
<1>11. ASSUME NEW m \in calls, HandleAppendEntries(m)
       PROVE  \A v \in Server : VoterStep(v)
  <2> DEFINE i == m.to
  <2>1. i \in Server /\ m.term \in Nat /\ currentTerm[i] \in Nat
    BY CallFields DEF TypeOK
  <2>2. \A r \in calls' : r \in calls \/ r.type = "AppendEntriesReply"
    <3>1. ASSUME NEW reply, Answered(m, {reply}), reply.type = "AppendEntriesReply"
          PROVE  \A r \in calls' : r \in calls \/ r.type = "AppendEntriesReply"
      BY <3>1, AnsweredCalls
    <3> QED
      BY <1>11, <3>1 DEF HandleAppendEntries
  <2>3. CASE BecomeFollower(i, m.term) /\
               (m.term > currentTerm[i] \/ (m.term = currentTerm[i] /\ state[i] = Candidate))
    BY <1>8, <2>1, <2>2, <2>3
  <2>4. CASE UNCHANGED <<currentTerm, votedFor, state, votes>>
    BY <2>2, <2>4, QuietVoters
  <2> QED
    BY <1>11, <2>1, <2>3, <2>4 DEF HandleAppendEntries, diskVars, roleVars
<1>12. ASSUME NEW m \in calls, HandleAppendEntriesReply(m)
       PROVE  \A v \in Server : VoterStep(v)
  <2> DEFINE i == m.to
  <2>1. i \in Server /\ m.term \in Nat
    BY CallFields
  <2>2. calls' \subseteq calls
    BY <1>12, AnsweredCalls DEF HandleAppendEntriesReply
  <2>3. CASE m.term > currentTerm[i] /\ BecomeFollower(i, m.term)
    BY <1>8, <2>1, <2>2, <2>3
  <2>4. CASE UNCHANGED <<currentTerm, votedFor, state, votes>>
    BY <2>2, <2>4, QuietVoters
  <2> QED
    BY <1>12, <2>3, <2>4 DEF HandleAppendEntriesReply, roleVars
<1>13. CASE UNCHANGED vars
  BY <1>13, QuietVoters DEF vars, diskVars, roleVars
<1>14. ASSUME NEW i \in Server, ServerStep(i)
       PROVE  \A v \in Server : VoterStep(v)
  BY <1>14, <1>1, <1>2, <1>3, <1>5, <1>s DEF ServerStep
<1>15. ASSUME NEW m \in calls, CallStep(m)
       PROVE  \A v \in Server : VoterStep(v)
  BY <1>15, <1>6, <1>7, <1>9, <1>10, <1>11, <1>12 DEF CallStep
<1> QED
  BY <1>13, <1>14, <1>15 DEF Next

\* A term that was won stays won: no step gives a vote of it away again.
LEMMA OwnedStays ==
    ASSUME TypeOK, TypeOK', ElectionInv, ElectionInv', [Next]_vars,
           NEW t \in Nat, Owned(t)
    PROVE  Owned(t)'
<1>1. PICK c \in Server, Q \in SUBSET Server : Owns(c, Q, t)
  BY DEF Owned
<1>2. \A v \in Server : VoterStep(v)
  BY VotersStep
<1>3. \A v \in Server : currentTerm[v] \in Nat /\ currentTerm'[v] \in Nat
  BY DEF TypeOK
<1>4. t <= currentTerm'[c] /\ (currentTerm'[c] = t => state'[c] # Candidate)
  BY <1>1, <1>2, <1>3 DEF Owns, VoterStep
<1>5. ASSUME NEW v \in Q
      PROVE  /\ t <= currentTerm'[v]
             /\ currentTerm'[v] = t => votedFor'[v] = c /\ state'[v] # Candidate
             /\ \A d \in Server : Granted(v, d, t)' => d = c
  <2>1. VoterStep(v) /\ v \in Server
    BY <1>2
  <2>2. /\ t <= currentTerm[v]
        /\ currentTerm[v] = t => votedFor[v] = c /\ state[v] # Candidate
        /\ \A d \in Server : Granted(v, d, t) => d = c
    BY <1>1 DEF Owns
  <2>3. /\ t <= currentTerm'[v]
        /\ currentTerm'[v] = t => votedFor'[v] = c /\ state'[v] # Candidate
    BY <1>3, <2>1, <2>2, NilAssumption DEF VoterStep
  <2>4. ASSUME NEW d \in Server, Granted(v, d, t)'
        PROVE  d = c
    <3>1. t = currentTerm'[v] => votedFor'[v] = d
      BY <2>1, <2>4 DEF ElectionInv, GrantRemembered
    <3> QED
      BY <2>1, <2>2, <2>3, <2>4, <3>1 DEF VoterStep
  <2> QED
    BY <2>3, <2>4
<1>6. Owns(c, Q, t)'
  BY <1>1, <1>4, <1>5 DEF Owns
<1> QED
  BY <1>6 DEF Owned

\* A candidate with a majority of votes is the first winner of its term.
LEMMA NotOwnedBefore ==
    ASSUME TypeOK, ElectionInv, NEW i \in Server, BecomeLeader(i)
    PROVE  ~Owned(currentTerm[i])
<1> SUFFICES ASSUME NEW c \in Server, NEW Q \in SUBSET Server, Owns(c, Q, currentTerm[i])
             PROVE  FALSE
  BY DEF Owned
<1>1. state[i] = Candidate /\ Cardinality(votes[i]) >= Majority
  BY DEF BecomeLeader
<1>2. PICK v \in Server : v \in votes[i] /\ v \in Q
  <2>1. votes[i] \in SUBSET Server
    BY DEF TypeOK
  <2>2. votes[i] \cap Q # {}
    BY <1>1, <2>1, MajoritiesIntersect DEF Owns
  <2> QED
    BY <2>1, <2>2
<1>3. Granted(v, i, currentTerm[i])
  BY <1>2 DEF Granted
<1> QED
  BY <1>1, <1>2, <1>3 DEF Owns

\* Winning makes the term owned.
LEMMA WinnerOwns ==
    ASSUME TypeOK, ElectionInv, NEW i \in Server, BecomeLeader(i)
    PROVE  Owned(currentTerm[i])'
<1>1. /\ state' = [state EXCEPT ![i] = Leader]
      /\ Cardinality(votes[i]) >= Majority
      /\ UNCHANGED <<currentTerm, votedFor, votes, calls>>
  BY DEF BecomeLeader
<1>2. \A j \in Server : state'[j] = IF j = i THEN Leader ELSE state[j]
  BY <1>1 DEF TypeOK
<1>3. currentTerm[i] \in Nat /\ votes[i] \in SUBSET Server
  BY DEF TypeOK
<1>4. ASSUME NEW v \in votes[i]
      PROVE  /\ currentTerm[i] <= currentTerm[v]
             /\ currentTerm[v] = currentTerm[i] => votedFor[v] = i /\ state'[v] # Candidate
             /\ \A d \in Server : Granted(v, d, currentTerm[i])' => d = i
  <2>1. v \in Server /\ Granted(v, i, currentTerm[i])
    BY <1>3 DEF Granted
  <2>2. /\ currentTerm[i] <= currentTerm[v]
        /\ currentTerm[v] = currentTerm[i] => votedFor[v] = i
    BY <1>3, <2>1 DEF ElectionInv, GrantRemembered
  <2>3. currentTerm[v] = currentTerm[i] => state'[v] # Candidate
    BY <1>2, <2>1, <2>2 DEF ElectionInv, CandidateVotesItself, Candidate, Leader
  <2>4. ASSUME NEW d \in Server, Granted(v, d, currentTerm[i])'
        PROVE  d = i
    <3>1. Granted(v, d, currentTerm[i])
      BY <1>1, <2>4 DEF Granted
    <3> QED
      BY <1>3, <2>1, <3>1 DEF ElectionInv, OneGrant
  <2> QED
    BY <2>2, <2>3, <2>4
<1>5. Owns(i, votes[i], currentTerm[i])'
  <2>1. state'[i] # Candidate /\ currentTerm[i] <= currentTerm[i]
    BY <1>2, <1>3 DEF Candidate, Leader
  <2> QED
    BY <1>1, <1>4, <2>1 DEF Owns
<1> QED
  BY <1>1, <1>3, <1>5 DEF Owned

-----------------------------------------------------------------------------
(* Links                                                                   *)

\* A leader's term is owned.  (It follows from its counted votes.)
LEMMA LeaderOwns ==
    ASSUME TypeOK, ElectionInv, NEW i \in Server, state[i] = Leader
    PROVE  Owned(currentTerm[i])
<1>1. Cardinality(votes[i]) >= Majority /\ votes[i] \in SUBSET Server /\ currentTerm[i] \in Nat
  BY DEF ElectionInv, LeaderHasMajority, TypeOK
<1>2. ASSUME NEW v \in votes[i]
      PROVE  /\ currentTerm[i] <= currentTerm[v]
             /\ currentTerm[v] = currentTerm[i] => votedFor[v] = i /\ state[v] # Candidate
             /\ \A d \in Server : Granted(v, d, currentTerm[i]) => d = i
  <2>1. v \in Server /\ Granted(v, i, currentTerm[i])
    BY <1>1 DEF Granted
  <2>2. /\ currentTerm[i] <= currentTerm[v]
        /\ currentTerm[v] = currentTerm[i] => votedFor[v] = i
    BY <1>1, <2>1 DEF ElectionInv, GrantRemembered
  <2>3. currentTerm[v] = currentTerm[i] => state[v] # Candidate
    BY <2>1, <2>2 DEF ElectionInv, CandidateVotesItself, Candidate, Leader
  <2>4. \A d \in Server : Granted(v, d, currentTerm[i]) => d = i
    BY <1>1, <2>1 DEF ElectionInv, OneGrant
  <2> QED
    BY <2>2, <2>3, <2>4
<1>3. Owns(i, votes[i], currentTerm[i])
  BY <1>1, <1>2 DEF Owns, Candidate, Leader
<1> QED
  BY <1>1, <1>3 DEF Owned

\* A step after which there are no new entries, no new calls to append and no
\* new leaders, or leaders only in terms nothing carries yet, keeps the
\* invariant.
LEMMA NoNewLink ==
    ASSUME TypeOK, TypeOK', ElectionInv, ElectionInv', [Next]_vars, LogInv,
           \A n \in Nat : \A e \in Entry : \A p \in Nat : Link(n, e, p)' => Link(n, e, p),
           \A m \in calls' : m \in calls \/ m.type # "AppendEntries",
           \A i \in Server : state'[i] = Leader =>
               state[i] = Leader /\ currentTerm'[i] = currentTerm[i] /\ log'[i] = log[i]
    PROVE  LogInv'
<1>1. LinksAgree'
  BY DEF LogInv, LinksAgree
<1>2. TermsOwned'
  <2>1. ASSUME NEW n \in Nat, NEW e \in Entry, NEW p \in Nat, Link(n, e, p)'
        PROVE  Owned(e.term)'
    <3>1. e.term \in Nat
      BY DEF Entry
    <3> QED
      BY <2>1, <3>1, OwnedStays DEF LogInv, TermsOwned
  <2>2. ASSUME NEW m \in calls', m.type = "AppendEntries"
        PROVE  Owned(m.term)'
    <3>1. m \in calls /\ m.term \in Nat
      BY <2>2, CallFields
    <3> QED
      BY <2>2, <3>1, OwnedStays DEF LogInv, TermsOwned
  <2> QED
    BY <2>1, <2>2 DEF TermsOwned
<1>3. LeaderAhead'
  BY DEF LogInv, LeaderAhead
<1>4. CallsOfLeader'
  BY DEF LogInv, CallsOfLeader
<1>5. NoTermBeforeFirst'
  BY DEF LogInv, NoTermBeforeFirst
<1> QED
  BY <1>1, <1>2, <1>3, <1>4, <1>5 DEF LogInv

\* Links of logs and calls that are still there.
LEMMA KeptLinks ==
    ASSUME UNCHANGED log, \A m \in calls' : m \in calls \/ m.type # "AppendEntries"
    PROVE  \A n \in Nat : \A e \in Entry : \A p \in Nat : Link(n, e, p)' => Link(n, e, p)
BY DEF Link, LogLink, CallLink, TermAt

\* A call to append carries links of the sender's log.
LEMMA SendStep ==
    ASSUME TypeOK, TypeOK', ElectionInv, ElectionInv', LogInv,
           NEW i \in Server, NEW p \in Server, SendAppendEntries(i, p)
    PROVE  LogInv'
<1> DEFINE prev == nextIndex[i][p] - 1
           new == [type |-> "AppendEntries", from |-> i, to |-> p, inc |-> incarnation[i],
                   term |-> currentTerm[i], prevLogIndex |-> prev,
                   prevLogTerm |-> TermAt(i, prev),
                   entries |-> SubSeq(log[i], prev + 1, LastLogIndex(i)),
                   leaderCommit |-> commitIndex[i]]
<1>1. /\ state[i] = Leader /\ prev <= Len(log[i])
      /\ calls' = calls \cup {new}
      /\ UNCHANGED <<log, state, currentTerm>>
  BY DEF SendAppendEntries, LastLogIndex, diskVars, roleVars
<1>2. prev \in Nat /\ log[i] \in Seq(Entry) /\ Len(log[i]) \in Nat
  <2>1. nextIndex[i][p] \in Nat \ {0}
    BY DEF TypeOK
  <2>2. log[i] \in Seq(Entry)
    BY DEF TypeOK
  <2> QED
    BY <2>1, <2>2, LenProperties
<1>3. /\ Len(new.entries) = Len(log[i]) - prev
      /\ \A k \in 1..Len(new.entries) : new.entries[k] = log[i][prev + k]
  <2> DEFINE s == SubSeq(log[i], prev + 1, Len(log[i]))
  <2>1. new.entries = s
    BY DEF LastLogIndex
  <2> HIDE DEF new, prev
  <2>2. prev + 1 \in 1..(Len(log[i]) + 1) /\ Len(log[i]) \in (prev + 1 - 1)..Len(log[i])
    BY <1>1, <1>2
  <2>3. /\ Len(s) = Len(log[i]) - (prev + 1) + 1
        /\ \A k \in 1..(Len(log[i]) - (prev + 1) + 1) : s[k] = log[i][prev + 1 + k - 1]
    BY <1>2, <2>2, SubSeqProperties
  <2> HIDE DEF s
  <2> QED
    BY <1>1, <1>2, <2>1, <2>3
<1>4. ASSUME NEW n \in Nat, NEW e \in Entry, NEW q \in Nat, CallLink(new, n, e, q)
      PROVE  LogLink(i, n, e, q)
  <2> DEFINE k == n - prev
  <2>1. /\ k \in 1..Len(new.entries) /\ new.entries[k] = e
        /\ q = IF n = prev + 1 THEN TermAt(i, prev) ELSE new.entries[k - 1].term
    <3>1. new.prevLogIndex = prev /\ new.prevLogTerm = TermAt(i, prev)
      OBVIOUS
    <3> HIDE DEF new, prev
    <3> QED
      BY <1>4, <3>1 DEF CallLink
  <2> HIDE DEF new, prev
  <2>2. n \in 1..Len(log[i]) /\ log[i][n] = e
    BY <1>1, <1>2, <1>3, <2>1
  <2>3. CASE n = prev + 1
    BY <1>2, <2>1, <2>2, <2>3 DEF LogLink
  <2>4. CASE n # prev + 1
    <3>1. k - 1 \in 1..Len(new.entries) /\ prev + (k - 1) = n - 1 /\ n - 1 # 0
      BY <1>2, <2>1, <2>4
    <3>2. q = log[i][n - 1].term
      BY <1>3, <2>1, <2>4, <3>1
    <3> QED
      BY <2>2, <3>1, <3>2 DEF LogLink, TermAt
  <2> QED
    BY <2>3, <2>4
<1>5. ASSUME NEW n \in Nat, NEW e \in Entry, NEW q \in Nat, Link(n, e, q)'
      PROVE  Link(n, e, q)
  <2> HIDE DEF new
  <2>1. CASE \E j \in Server : LogLink(j, n, e, q)'
    BY <1>1, <2>1 DEF Link, LogLink, TermAt
  <2>2. CASE \E m \in calls' : CallLink(m, n, e, q)
    BY <1>1, <1>4, <2>2 DEF Link
  <2>3. \A m : CallLink(m, n, e, q)' <=> CallLink(m, n, e, q)
    BY DEF CallLink
  <2> QED
    BY <1>5, <2>1, <2>2, <2>3 DEF Link
<1>6. LinksAgree'
  BY <1>5 DEF LogInv, LinksAgree
<1>7. TermsOwned'
  <2>1. ASSUME NEW t \in Nat, Owned(t)
        PROVE  Owned(t)'
    BY <2>1, OwnedStays DEF Next, ServerStep
  <2>2. ASSUME NEW n \in Nat, NEW e \in Entry, NEW q \in Nat, Link(n, e, q)'
        PROVE  Owned(e.term)'
    <3>1. e.term \in Nat
      BY DEF Entry
    <3> QED
      BY <1>5, <2>1, <2>2, <3>1 DEF LogInv, TermsOwned
  <2>3. ASSUME NEW m \in calls', m.type = "AppendEntries"
        PROVE  Owned(m.term)'
    <3>1. CASE m \in calls
      <4>1. m.term \in Nat
        BY <3>1, CallFields
      <4> QED
        BY <2>1, <2>3, <3>1, <4>1 DEF LogInv, TermsOwned
    <3>2. CASE m = new
      <4>1. Owned(currentTerm[i]) /\ currentTerm[i] \in Nat
        BY <1>1, LeaderOwns DEF TypeOK
      <4> QED
        BY <2>1, <3>2, <4>1
    <3> QED
      BY <1>1, <3>1, <3>2
  <2> QED
    BY <2>2, <2>3 DEF TermsOwned
<1>8. LeaderAhead'
  BY <1>1, <1>5 DEF LogInv, LeaderAhead
<1>9. CallsOfLeader'
  <2> SUFFICES ASSUME NEW j \in Server, state'[j] = Leader, NEW m \in calls',
                      m.type = "AppendEntries", m.term = currentTerm'[j]
               PROVE  m.from = j
    BY DEF CallsOfLeader
  <2>1. CASE m \in calls
    BY <1>1, <2>1 DEF LogInv, CallsOfLeader
  <2>2. CASE m = new
    <3>1. m.from = i /\ m.term = currentTerm[i]
      BY <2>2
    <3> QED
      BY <1>1, <3>1, ElectionInvIsSafe DEF ElectionSafety
  <2> QED
    BY <1>1, <2>1, <2>2
<1>10. NoTermBeforeFirst'
  <2>1. prev = 0 => TermAt(i, prev) = 0
    BY DEF TermAt
  <2>2. new.prevLogIndex = prev /\ new.prevLogTerm = TermAt(i, prev)
    OBVIOUS
  <2> HIDE DEF new
  <2> QED
    BY <1>1, <2>1, <2>2 DEF LogInv, NoTermBeforeFirst
<1> QED
  BY <1>6, <1>7, <1>8, <1>9, <1>10 DEF LogInv

\* Appending to one log makes one new link.
LEMMA AppendLinks ==
    ASSUME TypeOK, NEW i \in Server, NEW new \in Entry,
           log' = [log EXCEPT ![i] = Append(@, new)], UNCHANGED calls,
           NEW n \in Nat, NEW e \in Entry, NEW p \in Nat, Link(n, e, p)'
    PROVE  Link(n, e, p) \/ (n = Len(log[i]) + 1 /\ e = new /\ p = TermAt(i, Len(log[i])))
<1>1. log[i] \in Seq(Entry) /\ Len(log[i]) \in Nat
  BY LenProperties DEF TypeOK
<1>2. /\ log'[i] = Append(log[i], new)
      /\ \A j \in Server : j # i => log'[j] = log[j]
  BY DEF TypeOK
<1>3. /\ Len(log'[i]) = Len(log[i]) + 1
      /\ \A k \in 1..Len(log[i]) : log'[i][k] = log[i][k]
      /\ log'[i][Len(log[i]) + 1] = new
  BY <1>1, <1>2, AppendProperties
<1>4. ASSUME NEW j \in Server, LogLink(j, n, e, p)'
      PROVE  \/ LogLink(j, n, e, p)
             \/ n = Len(log[i]) + 1 /\ e = new /\ p = TermAt(i, Len(log[i]))
  <2>1. n \in 1..Len(log'[j]) /\ log'[j][n] = e /\ TermAt(j, n - 1)' = p
    BY <1>4 DEF LogLink
  <2>2. CASE j # i
    BY <1>2, <2>1, <2>2 DEF LogLink, TermAt
  <2>3. CASE j = i
    <3>1. TermAt(i, n - 1)' = TermAt(i, n - 1)
      BY <1>1, <1>3, <2>1, <2>3 DEF TermAt
    <3> QED
      BY <1>1, <1>3, <2>1, <2>3, <3>1 DEF LogLink
  <2> QED
    BY <2>2, <2>3
<1>5. (\E m \in calls : CallLink(m, n, e, p))' => Link(n, e, p)
  BY DEF CallLink, Link
<1> QED
  BY <1>4, <1>5 DEF Link

\* A leader that appends an entry of its term, which is the only one of this
\* term beyond its log, keeps the invariant.
LEMMA AppendKeeps ==
    ASSUME TypeOK, TypeOK', ElectionInv, ElectionInv', [Next]_vars, LogInv,
           NEW i \in Server, NEW new \in Entry, new.term = currentTerm[i],
           log' = [log EXCEPT ![i] = Append(@, new)],
           UNCHANGED <<currentTerm, calls>>,
           state'[i] = Leader,
           \A j \in Server : j # i => state'[j] = state[j],
           \A n \in Nat : \A e \in Entry : \A p \in Nat :
               Link(n, e, p) /\ e.term = currentTerm[i] => n <= Len(log[i]),
           \A m \in calls : m.type = "AppendEntries" /\ m.term = currentTerm[i] => m.from = i,
           Owned(currentTerm[i])'
    PROVE  LogInv'
<1> DEFINE last == Len(log[i]) + 1
<1>1. Len(log[i]) \in Nat /\ Len(log'[i]) = last /\ last \in Nat /\ currentTerm[i] \in Nat
  <2>1. log[i] \in Seq(Entry) /\ Len(log[i]) \in Nat /\ log'[i] = Append(log[i], new)
    BY LenProperties DEF TypeOK
  <2> QED
    BY <2>1, AppendProperties DEF TypeOK
<1>2. \A j \in Server : j # i => log'[j] = log[j]
  BY DEF TypeOK
<1>3. ASSUME NEW n \in Nat, NEW e \in Entry, NEW p \in Nat, Link(n, e, p)'
      PROVE  Link(n, e, p) \/ (n = last /\ e = new /\ p = TermAt(i, Len(log[i])))
  BY <1>3, AppendLinks
<1> HIDE DEF last
<1>4. LinksAgree'
  <2> SUFFICES ASSUME NEW n \in Nat, NEW e \in Entry, NEW f \in Entry, NEW p \in Nat,
                      NEW q \in Nat, Link(n, e, p)', Link(n, f, q)', e.term = f.term
               PROVE  e = f /\ p = q
    BY DEF LinksAgree
  <2>1. CASE Link(n, e, p) /\ Link(n, f, q)
    BY <2>1 DEF LogInv, LinksAgree
  <2>2. CASE n = last /\ e = new /\ Link(n, f, q)
    BY <1>1, <2>2 DEF last
  <2>3. CASE n = last /\ f = new /\ Link(n, e, p)
    BY <1>1, <2>3 DEF last
  <2> QED
    BY <1>3, <2>1, <2>2, <2>3
<1>5. TermsOwned'
  <2>1. ASSUME NEW t \in Nat, Owned(t)
        PROVE  Owned(t)'
    BY <2>1, OwnedStays
  <2>2. Owned(currentTerm[i])'
    OBVIOUS
  <2>3. ASSUME NEW n \in Nat, NEW e \in Entry, NEW p \in Nat, Link(n, e, p)'
        PROVE  Owned(e.term)'
    <3>1. e.term \in Nat
      BY DEF Entry
    <3> QED
      BY <1>3, <2>1, <2>2, <2>3, <3>1 DEF LogInv, TermsOwned
  <2>4. ASSUME NEW m \in calls', m.type = "AppendEntries"
        PROVE  Owned(m.term)'
    <3>1. m \in calls /\ m.term \in Nat
      BY CallFields
    <3> QED
      BY <2>1, <2>4, <3>1 DEF LogInv, TermsOwned
  <2> QED
    BY <2>3, <2>4 DEF TermsOwned
<1>s. \A j \in Server : j # i /\ state'[j] = Leader => currentTerm[j] # currentTerm[i]
  <2>1. ElectionSafety'
    BY ElectionInvIsSafe, PTL
  <2> QED
    BY <2>1 DEF ElectionSafety
<1>6. LeaderAhead'
  <2> SUFFICES ASSUME NEW j \in Server, state'[j] = Leader, NEW n \in Nat, NEW e \in Entry,
                      NEW p \in Nat, Link(n, e, p)', e.term = currentTerm[j]
               PROVE  n <= Len(log'[j])
    BY DEF LeaderAhead
  <2>1. CASE j = i
    BY <1>1, <1>3, <2>1 DEF last
  <2>2. CASE j # i
    <3>1. Link(n, e, p)
      BY <1>3, <1>s, <2>2
    <3> QED
      BY <1>2, <2>2, <3>1 DEF LogInv, LeaderAhead
  <2> QED
    BY <2>1, <2>2
<1>7. CallsOfLeader'
  BY DEF LogInv, CallsOfLeader
<1>8. NoTermBeforeFirst'
  BY DEF LogInv, NoTermBeforeFirst
<1> QED
  BY <1>4, <1>5, <1>6, <1>7, <1>8 DEF LogInv

\* _become_leader: the no-op is the first entry of its term.
LEMMA BecomeLeaderKeeps ==
    ASSUME TypeOK, TypeOK', ElectionInv, ElectionInv', LogInv,
           NEW i \in Server, BecomeLeader(i)
    PROVE  LogInv'
<1>1. /\ log' = [log EXCEPT ![i] = Append(@, [term |-> currentTerm[i], op |-> NoOp])]
      /\ state' = [state EXCEPT ![i] = Leader]
      /\ UNCHANGED <<currentTerm, calls>>
  BY DEF BecomeLeader
<1>2. /\ state'[i] = Leader /\ currentTerm[i] \in Nat
      /\ \A j \in Server : j # i => state'[j] = state[j]
  BY <1>1 DEF TypeOK
<1>3. [term |-> currentTerm[i], op |-> NoOp] \in Entry
  BY <1>2 DEF Entry
<1>4. ~Owned(currentTerm[i])
  BY NotOwnedBefore
<1>5. \A n \in Nat : \A e \in Entry : \A p \in Nat :
          Link(n, e, p) /\ e.term = currentTerm[i] => n <= Len(log[i])
  BY <1>4 DEF LogInv, TermsOwned
<1>6. \A m \in calls : m.type = "AppendEntries" /\ m.term = currentTerm[i] => m.from = i
  BY <1>4 DEF LogInv, TermsOwned
<1>7. [Next]_vars
  BY DEF Next, ServerStep
<1>8. Owned(currentTerm[i])'
  BY WinnerOwns
<1> DEFINE new == [term |-> currentTerm[i], op |-> NoOp]
<1>9. new \in Entry /\ new.term = currentTerm[i] /\ log' = [log EXCEPT ![i] = Append(@, new)]
  BY <1>1, <1>3
<1> HIDE DEF new
<1> QED
  BY <1>1, <1>2, <1>5, <1>6, <1>7, <1>8, <1>9, AppendKeeps

\* append_entry
LEMMA AppendEntryKeeps ==
    ASSUME TypeOK, TypeOK', ElectionInv, ElectionInv', LogInv,
           NEW i \in Server, NEW op \in Op, AppendEntry(i, op)
    PROVE  LogInv'
<1>1. /\ log' = [log EXCEPT ![i] = Append(@, [term |-> currentTerm[i], op |-> op])]
      /\ state[i] = Leader
      /\ UNCHANGED <<state, currentTerm, calls>>
  BY DEF AppendEntry
<1>2. currentTerm[i] \in Nat
  BY DEF TypeOK
<1>3. [term |-> currentTerm[i], op |-> op] \in Entry
  BY <1>2 DEF Entry
<1>5. \A n \in Nat : \A e \in Entry : \A p \in Nat :
          Link(n, e, p) /\ e.term = currentTerm[i] => n <= Len(log[i])
  BY <1>1 DEF LogInv, LeaderAhead
<1>6. \A m \in calls : m.type = "AppendEntries" /\ m.term = currentTerm[i] => m.from = i
  BY <1>1 DEF LogInv, CallsOfLeader
<1>7. [Next]_vars
  BY DEF Next, ServerStep
<1>8. Owned(currentTerm[i])'
  <2>1. Owned(currentTerm[i])
    BY <1>1, LeaderOwns
  <2>2. PICK t \in Nat : t = currentTerm[i]
    BY <1>2
  <2>3. Owned(t)'
    BY <1>7, <2>1, <2>2, OwnedStays
  <2> QED
    BY <1>1, <2>2, <2>3 DEF Owned
<1> DEFINE new == [term |-> currentTerm[i], op |-> op]
<1>9. new \in Entry /\ new.term = currentTerm[i] /\ log' = [log EXCEPT ![i] = Append(@, new)]
  BY <1>1, <1>3
<1> HIDE DEF new
<1>10. state'[i] = Leader /\ \A j \in Server : j # i => state'[j] = state[j]
  BY <1>1
<1>11. UNCHANGED <<currentTerm, calls>>
  BY <1>1
<1> QED
  BY <1>5, <1>6, <1>7, <1>8, <1>9, <1>10, <1>11, AppendKeeps

\* handle_append_entries: what the merged log holds at an index is what the old
\* log held there or what the call carries for it, and it comes after an entry
\* of the same term as before.
LEMMA MergeLinks ==
    ASSUME TypeOK, LogInv, NEW m \in calls, m.type = "AppendEntries",
           m.prevLogIndex <= Len(log[m.to]),
           ~Conflicts(m.to, m.prevLogIndex, m.prevLogTerm),
           log' = [log EXCEPT ![m.to] = Merge(@, m.prevLogIndex, m.entries)],
           \A r \in calls' : r \in calls \/ r.type # "AppendEntries",
           NEW n \in Nat, NEW e \in Entry, NEW p \in Nat, Link(n, e, p)'
    PROVE  Link(n, e, p)
<1> DEFINE i == m.to
           prev == m.prevLogIndex
           es == m.entries
           old == log[i]
           last == prev + Len(es)
           Held(k) == /\ k <= Len(old)
                      /\ \A j \in (prev + 1)..k : old[j].term = es[j - prev].term
           merged == [k \in 1..last |-> IF Held(k) THEN old[k] ELSE es[k - prev]]
<1>1. i \in Server /\ prev \in Nat /\ es \in Seq(Entry) /\ m.prevLogTerm \in Nat
  BY CallFields DEF AppendEntriesArgs
<1>2. old \in Seq(Entry) /\ Len(old) \in Nat /\ Len(es) \in Nat /\ last \in Nat
  <2>1. old \in Seq(Entry)
    BY <1>1 DEF TypeOK
  <2> HIDE DEF es, prev, old
  <2> QED
    BY <1>1, <2>1, LenProperties
<1>3. log'[i] = Merge(old, prev, es) /\ \A j \in Server : j # i => log'[j] = log[j]
  BY <1>1 DEF TypeOK
<1>4. CASE \E r \in calls' : CallLink(r, n, e, p)'
  <2>1. \A r : CallLink(r, n, e, p)' <=> CallLink(r, n, e, p)
    BY DEF CallLink
  <2> QED
    BY <1>4, <2>1 DEF Link, CallLink
<1>5. CASE \E j \in Server : j # i /\ LogLink(j, n, e, p)'
  BY <1>3, <1>5 DEF Link, LogLink, TermAt
<1>6. CASE LogLink(i, n, e, p)'
  <2>1. n \in 1..Len(log'[i]) /\ log'[i][n] = e
        /\ p = IF n - 1 = 0 THEN 0 ELSE log'[i][n - 1].term
    BY <1>6 DEF LogLink, TermAt
  <2>2. CASE Held(last)
    <3>1. log'[i] = old
      BY <1>3, <2>2 DEF Merge
    <3> QED
      BY <1>1, <2>1, <3>1 DEF Link, LogLink, TermAt
  <2>3. CASE ~Held(last)
    <3>1. log'[i] = merged
      BY <1>3, <2>3 DEF Merge
    <3>2. DOMAIN merged = 1..last
      OBVIOUS
    <3>3. merged \in Seq(Entry)
      <4>1. prev <= Len(old)
        OBVIOUS
      <4> HIDE DEF merged, old, prev, es, i
      <4> QED
        BY <1>1, <1>2, <1>3, <3>1, <4>1, MergeType
    <3>4. Len(merged) = last
      BY <1>2, <3>2, <3>3, LenProperties
    <3>5. \A k \in 1..last : log'[i][k] = IF Held(k) THEN old[k] ELSE es[k - prev]
      BY <3>1
    <3>6. n \in 1..last
      BY <2>1, <3>1, <3>4
    <3>7. \A k \in Nat : k <= prev => Held(k)
      BY <1>1, <1>2
    <3>8. Held(n) => n = 1 \/ Held(n - 1)
      BY <1>1, <1>2, <3>6
    <3>9. \A k \in 1..last : Held(k) => k <= Len(old)
      OBVIOUS
    <3>10. \A k \in 1..last : Held(k) /\ k > prev => old[k].term = es[k - prev].term
      BY <1>1, <1>2
    <3> HIDE DEF Held, merged, es, prev, old
    <3>11. CASE Held(n)
      <4>1. n \in 1..Len(old) /\ e = old[n]
        BY <1>2, <2>1, <3>5, <3>6, <3>9, <3>11
      <4>2. n # 1 => n - 1 \in 1..last /\ p = old[n - 1].term
        BY <1>2, <2>1, <3>5, <3>6, <3>8, <3>11
      <4>3. LogLink(i, n, e, p)
        BY <2>1, <4>1, <4>2 DEF LogLink, TermAt, old
      <4> QED
        BY <1>1, <4>3 DEF Link
    <3>12. CASE ~Held(n)
      <4>1. n > prev /\ n - prev \in 1..Len(es) /\ e = es[n - prev]
        BY <1>1, <1>2, <2>1, <3>5, <3>6, <3>7, <3>12
      <4>2. n = prev + 1 => p = m.prevLogTerm
        <5>1. CASE prev = 0
          BY <2>1, <5>1 DEF LogInv, NoTermBeforeFirst, prev
        <5>2. CASE prev > 0 /\ n = prev + 1
          <6>1. prev \in 1..last /\ Held(prev)
            BY <1>1, <1>2, <3>7, <5>2
          <6>2. old[prev].term = m.prevLogTerm
            BY <5>2 DEF Conflicts, prev, old
          <6> QED
            BY <1>1, <2>1, <3>5, <5>2, <6>1, <6>2
        <5> QED
          BY <1>1, <5>1, <5>2
      <4>3. n # prev + 1 => p = es[n - prev - 1].term
        <5> SUFFICES ASSUME n # prev + 1
                     PROVE  p = es[n - prev - 1].term
          OBVIOUS
        <5>1. n - 1 \in 1..last /\ n - 1 > prev /\ n - 1 - prev = n - prev - 1
          BY <1>1, <1>2, <3>6, <4>1
        <5>2. p = log'[i][n - 1].term
          BY <1>1, <2>1, <5>1
        <5> QED
          BY <3>5, <3>10, <5>1, <5>2
      <4>4. CallLink(m, n, e, p)
        BY <4>1, <4>2, <4>3 DEF CallLink, es, prev
      <4> QED
        BY <4>4 DEF Link
    <3> QED
      BY <3>11, <3>12
  <2> QED
    BY <2>2, <2>3
<1> QED
  BY <1>4, <1>5, <1>6 DEF Link

-----------------------------------------------------------------------------
(* Steps                                                                   *)

\* Nobody is made leader, nobody starts to wait, and a leader that steps down
\* has told its clients
RoleQuiet(j) ==
    /\ state'[j] = Leader => state[j] = Leader /\ currentTerm'[j] = currentTerm[j]
    /\ commitWaiters'[j] \subseteq commitWaiters[j]
    /\ state[j] = Leader /\ state'[j] # Leader => commitWaiters'[j] = {}

NoNewAppendCall == \A m \in calls' : m \in calls \/ m.type # "AppendEntries"

\* A step that touches no log
QuietStep ==
    /\ UNCHANGED log
    /\ NoNewAppendCall
    /\ \A j \in Server : RoleQuiet(j)

\* handle_append_entries, where it accepts the entries
MergeStep(m) ==
    /\ m.type = "AppendEntries"
    /\ m.prevLogIndex <= Len(log[m.to])
    /\ ~Conflicts(m.to, m.prevLogIndex, m.prevLogTerm)
    /\ log' = [log EXCEPT ![m.to] = Merge(@, m.prevLogIndex, m.entries)]
    /\ NoNewAppendCall
    /\ \A j \in Server : RoleQuiet(j)
    /\ state'[m.to] # Leader

\* A server that becomes a follower in a newer term, or gives up its own
\* candidacy, has told its clients.
LEMMA StepDownIsQuiet ==
    ASSUME TypeOK, NEW i \in Server, NEW t, BecomeFollower(i, t)
    PROVE  (\A j \in Server : RoleQuiet(j)) /\ state'[i] # Leader
<1>1. /\ state' = [state EXCEPT ![i] = Follower]
      /\ currentTerm' = [currentTerm EXCEPT ![i] = t]
      /\ commitWaiters' = [commitWaiters EXCEPT ![i] = {}]
  BY DEF BecomeFollower
<1>2. state'[i] = Follower /\ commitWaiters'[i] = {}
  BY <1>1 DEF TypeOK
<1>3. \A j \in Server : j # i => /\ state'[j] = state[j] /\ currentTerm'[j] = currentTerm[j]
                                 /\ commitWaiters'[j] = commitWaiters[j]
  BY <1>1 DEF TypeOK
<1> QED
  BY <1>2, <1>3 DEF RoleQuiet, Follower, Leader

\* A restarted server leads nobody and nobody waits for it.
LEMMA RebootIsQuiet ==
    ASSUME TypeOK, NEW i \in Server, Reboot(i),
           \A j \in Server : j # i => currentTerm'[j] = currentTerm[j]
    PROVE  UNCHANGED log /\ \A j \in Server : RoleQuiet(j)
<1>1. /\ state' = [state EXCEPT ![i] = Follower]
      /\ commitWaiters' = [commitWaiters EXCEPT ![i] = {}]
      /\ UNCHANGED log
  BY DEF Reboot
<1>2. state'[i] = Follower /\ commitWaiters'[i] = {}
  BY <1>1 DEF TypeOK
<1>3. \A j \in Server : j # i => /\ state'[j] = state[j]
                                 /\ commitWaiters'[j] = commitWaiters[j]
  BY <1>1 DEF TypeOK
<1> QED
  BY <1>1, <1>2, <1>3 DEF RoleQuiet, Follower, Leader

\* handle_append_entries: a leader never handles a call of its own term, so
\* its log is not touched.
LEMMA HandleAppendEntriesForms ==
    ASSUME TypeOK, ElectionInv, LogInv, NEW m \in calls, HandleAppendEntries(m)
    PROVE  QuietStep \/ MergeStep(m)
<1> DEFINE i == m.to
<1>1. i \in Server /\ m.term \in Nat /\ currentTerm[i] \in Nat
      /\ m.type = "AppendEntries" /\ m.prevLogIndex \in Nat /\ m.from # i
      /\ Len(log[i]) \in Nat
  <2>1. i \in Server /\ m.term \in Nat
    BY CallFields
  <2>2. m.type = "AppendEntries"
    BY DEF HandleAppendEntries
  <2>3. m.prevLogIndex \in Nat
    BY <2>2, CallFields DEF AppendEntriesArgs
  <2>4. log[i] \in Seq(Entry) /\ currentTerm[i] \in Nat
    BY <2>1 DEF TypeOK
  <2> QED
    BY <2>1, <2>2, <2>3, <2>4, LenProperties DEF ElectionInv, NoSelfCalls
<1>2. NoNewAppendCall
  <2>1. ASSUME NEW reply, Answered(m, {reply}), reply.type = "AppendEntriesReply"
        PROVE  NoNewAppendCall
    BY <2>1, AnsweredCalls DEF NoNewAppendCall
  <2> QED
    BY <2>1 DEF HandleAppendEntries
<1>3. CASE UNCHANGED <<diskVars, roleVars>>
  BY <1>2, <1>3 DEF QuietStep, RoleQuiet, diskVars, roleVars
<1>4. CASE m.term >= currentTerm[i]
  <2>1. (\A j \in Server : RoleQuiet(j)) /\ state'[i] # Leader
    <3>1. CASE m.term > currentTerm[i] \/ state[i] = Candidate
      <4>1. BecomeFollower(i, m.term)
        BY <1>1, <1>4, <3>1 DEF HandleAppendEntries
      <4> QED
        BY <1>1, <4>1, StepDownIsQuiet
    <3>2. CASE ~(m.term > currentTerm[i] \/ state[i] = Candidate)
      <4>1. UNCHANGED <<currentTerm, state, commitWaiters>>
        BY <1>1, <1>4, <3>2 DEF HandleAppendEntries, roleVars
      <4>2. state[i] # Leader
        BY <1>1, <1>4, <3>2 DEF LogInv, CallsOfLeader
      <4> QED
        BY <4>1, <4>2 DEF RoleQuiet
    <3> QED
      BY <3>1, <3>2
  <2>2. \/ UNCHANGED log
        \/ /\ m.prevLogIndex <= Len(log[i])
           /\ ~Conflicts(i, m.prevLogIndex, m.prevLogTerm)
           /\ log' = [log EXCEPT ![i] = Merge(@, m.prevLogIndex, m.entries)]
    BY <1>1, <1>4 DEF HandleAppendEntries, LastLogIndex
  <2> QED
    BY <1>1, <1>2, <2>1, <2>2 DEF QuietStep, MergeStep
<1> QED
  BY <1>1, <1>3, <1>4 DEF HandleAppendEntries

\* The steps that matter to the logs; all others are quiet.
LEMMA LogStepForms ==
    ASSUME TypeOK, TypeOK', ElectionInv, LogInv, [Next]_vars
    PROVE  \/ QuietStep
           \/ \E i \in Server : BecomeLeader(i)
           \/ \E i \in Server : \E op \in Op : AppendEntry(i, op)
           \/ \E i \in Server : \E p \in Server : SendAppendEntries(i, p)
           \/ \E m \in calls : MergeStep(m)
<1>1. ASSUME NEW i \in Server, NEW sent \in SUBSET (Server \ {i}), StartElection(i, sent)
      PROVE  QuietStep
  <2>1. /\ state[i] # Leader
        /\ state' = [state EXCEPT ![i] = Candidate]
        /\ currentTerm' = [currentTerm EXCEPT ![i] = @ + 1]
        /\ UNCHANGED <<log, commitWaiters>>
        /\ \A m \in calls' : m \in calls \/ m.type = "RequestVote"
    BY <1>1 DEF StartElection
  <2>2. \A j \in Server : \/ j = i /\ state'[j] = Candidate
                          \/ j # i /\ state'[j] = state[j] /\ currentTerm'[j] = currentTerm[j]
    BY <2>1 DEF TypeOK
  <2> QED
    BY <2>1, <2>2 DEF QuietStep, NoNewAppendCall, RoleQuiet, Candidate, Leader
<1>2. ASSUME UNCHANGED <<log, state, currentTerm>>, calls' \subseteq calls,
             \A j \in Server : commitWaiters'[j] \subseteq commitWaiters[j]
      PROVE  QuietStep
  BY <1>2 DEF QuietStep, NoNewAppendCall, RoleQuiet
<1>3. ASSUME NEW i \in Server, LoseElection(i) \/ FetchCommitted(i)
                                  \/ \E b \in BOOLEAN : SetIsolated(i, b)
      PROVE  QuietStep
  BY <1>2, <1>3 DEF LoseElection, FetchCommitted, SetIsolated, diskVars, roleVars
<1>4. ASSUME NEW i \in Server, ApplyEntry(i) \/ \E w \in commitWaiters[i] : WaiterTimeout(i, w)
      PROVE  QuietStep
  <2>1. \A j \in Server : commitWaiters'[j] \subseteq commitWaiters[j]
    <3>1. \A j \in Server : j # i => commitWaiters'[j] = commitWaiters[j]
      BY <1>4, ZenonT(60) DEF ApplyEntry, WaiterTimeout, TypeOK
    <3>2. commitWaiters'[i] \subseteq commitWaiters[i]
      <4>1. DOMAIN commitWaiters = Server
        BY DEF TypeOK
      <4>2. CASE ApplyEntry(i)
        BY <4>1, <4>2 DEF ApplyEntry
      <4>3. ASSUME NEW w \in commitWaiters[i], WaiterTimeout(i, w)
            PROVE  commitWaiters'[i] \subseteq commitWaiters[i]
        BY <4>1, <4>3 DEF WaiterTimeout
      <4> QED
        BY <1>4, <4>2, <4>3
    <3> QED
      BY <3>1, <3>2
  <2> QED
    BY <1>2, <1>4, <2>1 DEF ApplyEntry, WaiterTimeout, diskVars
<1>5. ASSUME NEW i \in Server, Restart(i)
      PROVE  QuietStep
  BY <1>5, RebootIsQuiet DEF Restart, QuietStep, NoNewAppendCall
<1>6. ASSUME NEW m \in calls, CrashInHandler(m)
      PROVE  QuietStep
  <2>1. m.to \in Server
    BY CallFields
  <2>2. /\ Reboot(m.to) /\ calls' = calls \ {m}
        /\ currentTerm' = [currentTerm EXCEPT ![m.to] = m.term]
    BY <1>6 DEF CrashInHandler
  <2>3. \A j \in Server : j # m.to => currentTerm'[j] = currentTerm[j]
    BY <2>2 DEF TypeOK
  <2> QED
    BY <2>1, <2>2, <2>3, RebootIsQuiet DEF QuietStep, NoNewAppendCall
<1>7. ASSUME NEW m \in calls, LoseCall(m)
      PROVE  QuietStep
  BY <1>2, <1>7 DEF LoseCall, diskVars, roleVars
<1>8. ASSUME NEW m \in calls, HandleRequestVote(m)
      PROVE  QuietStep
  <2> DEFINE i == m.to
  <2>1. i \in Server /\ m.term \in Nat /\ currentTerm[i] \in Nat
    BY CallFields DEF TypeOK
  <2>2. NoNewAppendCall
    <3>1. ASSUME NEW reply, Answered(m, {reply}), reply.type = "RequestVoteReply"
          PROVE  NoNewAppendCall
      BY <3>1, AnsweredCalls DEF NoNewAppendCall
    <3> QED
      BY <1>8, <3>1 DEF HandleRequestVote
  <2>3. CASE m.term > currentTerm[i]
    <3>1. /\ state' = [state EXCEPT ![i] = Follower]
          /\ currentTerm' = [currentTerm EXCEPT ![i] = m.term]
          /\ commitWaiters' = [commitWaiters EXCEPT ![i] = {}]
          /\ UNCHANGED log
      BY <1>8, <2>3 DEF HandleRequestVote
    <3>2. state'[i] = Follower /\ commitWaiters'[i] = {}
      BY <2>1, <3>1 DEF TypeOK
    <3>3. \A j \in Server : j # i => /\ state'[j] = state[j]
                                     /\ currentTerm'[j] = currentTerm[j]
                                     /\ commitWaiters'[j] = commitWaiters[j]
      BY <3>1 DEF TypeOK
    <3> QED
      BY <2>2, <3>1, <3>2, <3>3 DEF QuietStep, RoleQuiet, Follower, Leader
  <2>4. CASE ~(m.term > currentTerm[i])
    <3>1. /\ currentTerm' = [currentTerm EXCEPT ![i] = currentTerm[i]]
          /\ UNCHANGED <<log, state, commitWaiters>>
      BY <1>8, <2>4 DEF HandleRequestVote
    <3>2. currentTerm' = currentTerm
      BY <3>1 DEF TypeOK
    <3> QED
      BY <2>2, <3>1, <3>2 DEF QuietStep, RoleQuiet
  <2> QED
    BY <2>3, <2>4
<1>9. ASSUME NEW m \in calls, HandleRequestVoteReply(m) \/ HandleAppendEntriesReply(m)
      PROVE  QuietStep
  <2>1. m.to \in Server
    BY CallFields
  <2>2. calls' \subseteq calls /\ UNCHANGED log
    BY <1>9, AnsweredCalls DEF HandleRequestVoteReply, HandleAppendEntriesReply
  <2>3. CASE BecomeFollower(m.to, m.term)
    BY <2>1, <2>2, <2>3, StepDownIsQuiet DEF QuietStep, NoNewAppendCall
  <2>4. CASE UNCHANGED <<state, currentTerm, commitWaiters>>
    BY <1>2, <2>2, <2>4
  <2> QED
    BY <1>9, <2>3, <2>4 DEF HandleRequestVoteReply, HandleAppendEntriesReply, roleVars
<1>10. CASE UNCHANGED vars
  BY <1>2, <1>10 DEF vars, diskVars, roleVars
<1>11. CASE \E i \in Server : ServerStep(i)
  BY <1>11, <1>1, <1>3, <1>4, <1>5 DEF ServerStep
<1>12. CASE \E m \in calls : CallStep(m)
  BY <1>12, <1>6, <1>7, <1>8, <1>9, HandleAppendEntriesForms DEF CallStep
<1> QED
  BY <1>10, <1>11, <1>12 DEF Next

\* Every step keeps the invariant.
LEMMA LogStep ==
    ASSUME TypeOK, TypeOK', ElectionInv, ElectionInv', LogInv, [Next]_vars
    PROVE  LogInv'
<1>1. CASE QuietStep
  <2>1. \A n \in Nat : \A e \in Entry : \A p \in Nat : Link(n, e, p)' => Link(n, e, p)
    BY <1>1, KeptLinks DEF QuietStep, NoNewAppendCall
  <2> QED
    BY <1>1, <2>1, NoNewLink DEF QuietStep, NoNewAppendCall, RoleQuiet
<1>2. ASSUME NEW m \in calls, MergeStep(m)
      PROVE  LogInv'
  <2>1. \A n \in Nat : \A e \in Entry : \A p \in Nat : Link(n, e, p)' => Link(n, e, p)
    BY <1>2, MergeLinks DEF MergeStep, NoNewAppendCall
  <2>2. m.to \in Server
    BY CallFields
  <2>3. \A j \in Server : j # m.to => log'[j] = log[j]
    BY <1>2 DEF MergeStep, TypeOK
  <2>4. \A j \in Server : state'[j] = Leader =>
            state[j] = Leader /\ currentTerm'[j] = currentTerm[j] /\ log'[j] = log[j]
    BY <1>2, <2>3 DEF MergeStep, RoleQuiet
  <2> QED
    BY <1>2, <2>1, <2>4, NoNewLink DEF MergeStep, NoNewAppendCall
<1> QED
  BY <1>1, <1>2, LogStepForms, BecomeLeaderKeeps, AppendEntryKeeps, SendStep

\* Initially there are no entries and no calls.
LEMMA LogInit == Init => LogInv
<1> SUFFICES ASSUME Init PROVE LogInv
  OBVIOUS
<1>1. \A n \in Nat : \A e \in Entry : \A p \in Nat : ~Link(n, e, p)
  BY DEF Init, Link, LogLink
<1>2. calls = {} /\ \A i \in Server : state[i] # Leader
  BY DEF Init, Follower, Leader
<1> QED
  BY <1>1, <1>2 DEF LogInv, LinksAgree, TermsOwned, LeaderAhead, CallsOfLeader,
                    NoTermBeforeFirst

\* The log invariant holds in every reachable state.
THEOREM LogInvariant == Spec => []LogInv
<1>1. TypeOK /\ TypeOK' /\ ElectionInv /\ ElectionInv' /\ LogInv /\ [Next]_vars => LogInv'
  BY LogStep
<1> QED
  BY <1>1, LogInit, TypeCorrect, ElectionInvariant, PTL DEF Spec

-----------------------------------------------------------------------------
(* Log matching                                                            *)

\* Going back from an index where the terms agree, everything agrees.
LEMMA LogInvMatches == TypeOK /\ LogInv => LogMatching
<1> SUFFICES ASSUME TypeOK, LogInv, NEW i \in Server, NEW j \in Server,
                    NEW n \in 1..Len(log[i]), n <= Len(log[j]),
                    log[i][n].term = log[j][n].term
             PROVE  Prefix(log[i], n) = Prefix(log[j], n)
  BY DEF LogMatching
<1> DEFINE a == log[i]
           b == log[j]
<1>1. a \in Seq(Entry) /\ b \in Seq(Entry) /\ Len(a) \in Nat /\ Len(b) \in Nat
  BY LenProperties DEF TypeOK
<1>2. \A k \in 1..n : k \in 1..Len(a) /\ k \in 1..Len(b) /\ a[k] \in Entry /\ b[k] \in Entry
  BY <1>1, ElementOfSeq
<1>3. ASSUME NEW k \in 1..n, a[k].term = b[k].term
      PROVE  a[k] = b[k] /\ (k # 1 => a[k - 1].term = b[k - 1].term)
  <2>1. TermAt(i, k - 1) \in Nat /\ TermAt(j, k - 1) \in Nat
    <3>1. CASE k = 1
      BY <3>1 DEF TermAt
    <3>2. CASE k # 1
      <4>1. k - 1 \in 1..n
        BY <1>1, <3>2
      <4> QED
        BY <1>2, <4>1 DEF TermAt, Entry
    <3> QED
      BY <3>1, <3>2
  <2>2. Link(k, a[k], TermAt(i, k - 1)) /\ Link(k, b[k], TermAt(j, k - 1))
    BY <1>2 DEF Link, LogLink
  <2>3. a[k] = b[k] /\ TermAt(i, k - 1) = TermAt(j, k - 1)
    <3>1. k \in Nat /\ a[k] \in Entry /\ b[k] \in Entry
      BY <1>2
    <3> HIDE DEF a, b
    <3> QED
      BY <1>3, <2>1, <2>2, <3>1 DEF LogInv, LinksAgree
  <2> QED
    BY <1>1, <2>3 DEF TermAt
<1> HIDE DEF a, b
<1>4. \A k \in 1..n : a[k].term = b[k].term
  <2> DEFINE D == {k \in 1..n : a[k].term # b[k].term}
  <2> SUFFICES ASSUME D # {}
               PROVE  FALSE
    OBVIOUS
  <2>1. PICK k \in D : \A l \in D : l <= k
    <3>1. D \in SUBSET (0..n) /\ n \in Nat
      BY <1>1
    <3> QED
      BY <3>1, GreatestElement
  <2>2. k \in 1..n /\ a[k].term # b[k].term /\ k # n
    BY <2>1 DEF a, b
  <2>3. k + 1 \in 1..n
    BY <1>1, <2>2
  <2>4. k + 1 \notin D
    BY <2>1, <2>2
  <2>5. a[k + 1].term = b[k + 1].term
    BY <2>3, <2>4
  <2>6. k + 1 # 1 /\ (k + 1) - 1 = k
    BY <2>2
  <2> QED
    BY <1>3, <2>2, <2>3, <2>5, <2>6
<1>5. \A k \in 1..n : a[k] = b[k]
  BY <1>3, <1>4
<1>6. Prefix(a, n) = [k \in 1..n |-> a[k]] /\ Prefix(b, n) = [k \in 1..n |-> b[k]]
  BY <1>1, <1>2 DEF Prefix
<1> QED
  BY <1>5, <1>6 DEF a, b

\* For every cluster: two logs that hold an entry of one term at one index are
\* equal up to it, however calls are delayed, repeated or lost and servers
\* restarted (handle_append_entries, _send_append_entries_to).
THEOREM LogsMatch == Spec => []LogMatching
BY LogInvMatches, LogInvariant, TypeCorrect, PTL

-----------------------------------------------------------------------------
(* Blocked clients                                                         *)

\* Clients wait for leaders only, and for an index of the log
WaitersAtLeader ==
    \A i \in Server : \A w \in commitWaiters[i] : state[i] = Leader /\ w.index # 0

WaiterInv == WaitersAtLeader /\ WaiterHoldsItsSlot

\* Where nobody starts to wait, and the log of a leader is not touched.
LEMMA QuietWaiters ==
    ASSUME WaiterInv, \A j \in Server : RoleQuiet(j),
           \A j \in Server : state'[j] = Leader => log'[j] = log[j]
    PROVE  WaiterInv'
<1>1. WaitersAtLeader'
  BY DEF WaiterInv, WaitersAtLeader, RoleQuiet
<1>2. WaiterHoldsItsSlot'
  <2> SUFFICES ASSUME NEW j \in Server, NEW w \in commitWaiters'[j]
               PROVE  /\ w.index <= Len(log'[j])
                      /\ log'[j][w.index] = [term |-> w.term, op |-> w.op]
                      /\ \A v \in commitWaiters'[j] : v.index = w.index => v = w
    BY DEF WaiterHoldsItsSlot
  <2>1. commitWaiters'[j] \subseteq commitWaiters[j] /\ log'[j] = log[j]
    BY <1>1 DEF WaitersAtLeader, RoleQuiet
  <2> QED
    BY <2>1 DEF WaiterInv, WaiterHoldsItsSlot
<1> QED
  BY <1>1, <1>2 DEF WaiterInv

\* append_entry: the new client waits for the new last slot.
LEMMA AppendEntryWaits ==
    ASSUME TypeOK, WaiterInv, NEW i \in Server, NEW op \in Op, AppendEntry(i, op)
    PROVE  WaiterInv'
<1> DEFINE idx == Len(log[i]) + 1
           entry == [term |-> currentTerm[i], op |-> op]
           slot == [index |-> idx, term |-> currentTerm[i], op |-> op]
<1>1. /\ state[i] = Leader /\ UNCHANGED state
      /\ log' = [log EXCEPT ![i] = Append(@, entry)]
      /\ commitWaiters' = [commitWaiters EXCEPT ![i] = {w \in @ : w.index # idx} \cup {slot}]
  BY DEF AppendEntry, LastLogIndex
<1>2. entry \in Entry /\ entry = [term |-> slot.term, op |-> slot.op] /\ slot.index = idx
  BY DEF TypeOK, Entry
<1>3. log[i] \in Seq(Entry) /\ Len(log[i]) \in Nat
  BY LenProperties DEF TypeOK
<1> HIDE DEF entry, slot
<1>4. /\ log'[i] = Append(log[i], entry)
      /\ commitWaiters'[i] = {w \in commitWaiters[i] : w.index # idx} \cup {slot}
      /\ \A j \in Server : j # i => log'[j] = log[j] /\ commitWaiters'[j] = commitWaiters[j]
  BY <1>1 DEF TypeOK
<1>5. /\ Len(log'[i]) = idx /\ log'[i][idx] = entry
      /\ \A k \in 1..Len(log[i]) : log'[i][k] = log[i][k]
  BY <1>2, <1>3, <1>4, AppendProperties
<1>6. WaitersAtLeader'
  <2>1. slot.index # 0
    BY <1>2, <1>3
  <2> QED
    BY <1>1, <1>4, <2>1 DEF WaiterInv, WaitersAtLeader
<1>7. \A w \in commitWaiters[i] : w.index \in Nat
  BY DEF TypeOK, Slot
<1>8. ASSUME NEW w \in commitWaiters'[i]
      PROVE  /\ w.index <= Len(log'[i])
             /\ log'[i][w.index] = [term |-> w.term, op |-> w.op]
             /\ \A v \in commitWaiters'[i] : v.index = w.index => v = w
  <2>1. CASE w = slot
    BY <1>2, <1>3, <1>4, <1>5, <2>1
  <2>2. CASE w # slot
    <3>1. w \in commitWaiters[i] /\ w.index # idx
      BY <1>4, <2>2
    <3>2. w.index <= Len(log[i]) /\ log[i][w.index] = [term |-> w.term, op |-> w.op]
      BY <3>1 DEF WaiterInv, WaiterHoldsItsSlot
    <3>3. w.index # 0
      BY <3>1 DEF WaiterInv, WaitersAtLeader
    <3>4. w.index \in 1..Len(log[i])
      BY <1>3, <1>7, <3>1, <3>2, <3>3
    <3> QED
      BY <1>2, <1>3, <1>4, <1>5, <3>1, <3>2, <3>4 DEF WaiterInv, WaiterHoldsItsSlot
  <2> QED
    BY <2>1, <2>2
<1>9. WaiterHoldsItsSlot'
  <2>1. ASSUME NEW j \in Server, j # i, NEW w \in commitWaiters'[j]
        PROVE  /\ w.index <= Len(log'[j])
               /\ log'[j][w.index] = [term |-> w.term, op |-> w.op]
               /\ \A v \in commitWaiters'[j] : v.index = w.index => v = w
    BY <1>4, <2>1 DEF WaiterInv, WaiterHoldsItsSlot
  <2> QED
    BY <1>8, <2>1 DEF WaiterHoldsItsSlot
<1> QED
  BY <1>6, <1>9 DEF WaiterInv

\* Every step keeps the clients at their slots.
LEMMA WaiterStep ==
    ASSUME TypeOK, TypeOK', ElectionInv, LogInv, WaiterInv, [Next]_vars
    PROVE  WaiterInv'
<1>1. CASE QuietStep
  BY <1>1, QuietWaiters DEF QuietStep
<1>2. ASSUME NEW m \in calls, MergeStep(m)
      PROVE  WaiterInv'
  <2>1. \A j \in Server : j # m.to => log'[j] = log[j]
    BY <1>2 DEF MergeStep, TypeOK
  <2> QED
    BY <1>2, <2>1, QuietWaiters DEF MergeStep
<1>3. ASSUME NEW i \in Server, BecomeLeader(i)
      PROVE  WaiterInv'
  <2>1. /\ state[i] = Candidate /\ state' = [state EXCEPT ![i] = Leader]
        /\ log' = [log EXCEPT ![i] = Append(@, [term |-> currentTerm[i], op |-> NoOp])]
        /\ UNCHANGED commitWaiters
    BY <1>3 DEF BecomeLeader
  <2>2. commitWaiters[i] = {}
    BY <2>1 DEF WaiterInv, WaitersAtLeader, Candidate, Leader
  <2>3. \A j \in Server : j # i => log'[j] = log[j] /\ state'[j] = state[j]
    BY <2>1 DEF TypeOK
  <2>4. ASSUME NEW j \in Server, NEW w \in commitWaiters'[j]
        PROVE  j # i /\ w \in commitWaiters[j]
    BY <2>1, <2>2
  <2> QED
    BY <2>1, <2>3, <2>4 DEF WaiterInv, WaitersAtLeader, WaiterHoldsItsSlot
<1>4. ASSUME NEW i \in Server, NEW p \in Server, SendAppendEntries(i, p)
      PROVE  WaiterInv'
  <2>1. UNCHANGED <<log, state, commitWaiters>>
    BY <1>4 DEF SendAppendEntries, diskVars, roleVars
  <2> QED
    BY <2>1 DEF WaiterInv, WaitersAtLeader, WaiterHoldsItsSlot
<1> QED
  BY <1>1, <1>2, <1>3, <1>4, LogStepForms, AppendEntryWaits

\* For every cluster: a client blocked in append_entry waits for a slot that
\* still holds its entry, because a leader's log is only ever appended to and
\* a server that stops leading fails its waiters (_fail_all_waiters).
THEOREM WaitersHoldTheirSlots == Spec => []WaiterHoldsItsSlot
<1>1. Init => WaiterInv
  BY DEF Init, WaiterInv, WaitersAtLeader, WaiterHoldsItsSlot
<1>2. TypeOK /\ TypeOK' /\ ElectionInv /\ LogInv /\ WaiterInv /\ [Next]_vars => WaiterInv'
  BY WaiterStep
<1>3. WaiterInv => WaiterHoldsItsSlot
  BY DEF WaiterInv
<1> QED
  BY <1>1, <1>2, <1>3, TypeCorrect, ElectionInvariant, LogInvariant, PTL DEF Spec

-----------------------------------------------------------------------------
(***************************************************************************)
(* Commitment.                                                             *)
(*                                                                         *)
(* The argument.  A history h collects every triple (server, index, term)  *)
(* such that the server, while in that term, held an entry of that term at *)
(* that index; it only grows.  An entry is chosen once a majority is in h  *)
(* for it, and dead once a majority has left its term without having held  *)
(* it: no entry is both.  Everything that carries a term (a log entry, a   *)
(* call, a counted vote) has, for each smaller term, every entry of h that *)
(* is not dead, because a candidate wins with the votes of a majority, one *)
(* of which held any entry that is not dead, and its log is at least as    *)
(* new as that voter's.  A leader counts an entry as committed when a      *)
(* majority acknowledged it in its own term, so that it is chosen.  The    *)
(* replies the leader counts must not be too late: see Timely.             *)
(*                                                                         *)
(* h and b are no variables: ReplicationInv says that some history and     *)
(* some first indexes of terms fit the state.                              *)
(***************************************************************************)

\* The log of server i has an entry of term t at index n
Contains(i, n, t) == n \in 1..Len(log[i]) /\ log[i][n].term = t

\* The last index an AppendEntries call speaks about
LastSent(m) == m.prevLogIndex + Len(m.entries)

\* A call carries an entry of term t at index n, or starts after one at least as new
Covers(m, n, t) ==
    IF n <= m.prevLogIndex THEN t <= m.prevLogTerm
    ELSE n <= LastSent(m) /\ m.entries[n - m.prevLogIndex].term = t

\* What servers hold in the terms they are in now: <<server, index, term>>
Now == {x \in Server \X Nat \X Nat : x[3] = currentTerm[x[1]] /\ Contains(x[1], x[2], x[3])}

\* A majority held entry (n, t) while in term t
Chosen(h, n, t) ==
    \E Q \in SUBSET Server : Cardinality(Q) >= Majority /\ \A v \in Q : <<v, n, t>> \in h

\* A majority left term t without having held entry (n, t) in it
Dead(h, n, t) ==
    \E Q \in SUBSET Server :
        /\ Cardinality(Q) >= Majority
        /\ \A v \in Q : currentTerm[v] > t /\ <<v, n, t>> \notin h

\* h is such a history: only entries of terms that somebody won, all that is
\* held now among them
History(h) ==
    /\ h \subseteq Server \X Nat \X Nat
    /\ \A v \in Server : \A n, t \in Nat : <<v, n, t>> \in h =>
          n > 0 /\ t <= currentTerm[v] /\ Owned(t)
    /\ Now \subseteq h

\* Terms never fall along a log or a call, nor exceed the term of their server
Rising ==
    /\ \A n \in Nat : \A e \in Entry : \A p \in Nat : Link(n, e, p) => p <= e.term /\ e.term > 0
    /\ \A i \in Server : \A n \in 1..Len(log[i]) : log[i][n].term <= currentTerm[i]
    /\ \A i \in Server : state[i] # Follower => currentTerm[i] > 0

\* The entries of term t start at index b[t], each after one of the same term
Starts(b) ==
    /\ b \in [Nat -> Nat \ {0}]
    /\ \A n \in Nat : \A e \in Entry : \A p \in Nat :
          Link(n, e, p) => b[e.term] <= n /\ (n # b[e.term] => p = e.term)

\* Who held an entry of a term held all of that term before it
HeldFromStart(h, b) ==
    \A v \in Server : \A k, t \in Nat : <<v, k, t>> \in h =>
        b[t] <= k /\ \A n \in b[t]..k : <<v, n, t>> \in h

\* Every entry in a log or a call was held by somebody in its term
LinksHeld(h) ==
    \A n \in Nat : \A e \in Entry : \A p \in Nat :
        Link(n, e, p) => \E v \in Server : <<v, n, e.term>> \in h

\* An AppendEntries call speaks of a prefix of its sender's log that ends with
\* an entry of the sender's term, the sender's no-op or a later one
CallShape(h) ==
    \A m \in calls : m.type = "AppendEntries" =>
        /\ m.term > 0 /\ m.prevLogTerm <= m.term
        /\ \A k \in 1..Len(m.entries) : m.entries[k].term <= m.term
        /\ m.term = IF m.entries = <<>> THEN m.prevLogTerm
                                        ELSE m.entries[Len(m.entries)].term
        /\ <<m.from, LastSent(m), m.term>> \in h

\* A leader's last entry is of its term, as become_leader appends one
LeaderLast == \A i \in Server : state[i] = Leader => Contains(i, Len(log[i]), currentTerm[i])

\* Nobody held more of a leader's term than the leader has
LeaderTop(h) ==
    \A i, v \in Server : \A n \in Nat :
        state[i] = Leader /\ <<v, n, currentTerm[i]>> \in h => n <= Len(log[i])

\* The log of a candidate stays as it was sent in its RequestVote calls
Requests ==
    \A m \in calls : m.type = "RequestVote" =>
        /\ m.term <= currentTerm[m.from]
        /\ state[m.from] = Candidate /\ currentTerm[m.from] = m.term =>
              m.lastLogIndex = LastLogIndex(m.from) /\ m.lastLogTerm = LastLogTerm(m.from)

\* No grant is for a term its candidate has not reached
GrantsPast ==
    \A v, c \in Server : \A u \in Nat : Granted(v, c, u) => u <= currentTerm[c]

\* A candidate has what its voters held in smaller terms, but for dead entries
VotersKnow(h) ==
    \A v, c \in Server : \A n, t, u \in Nat :
        state[c] = Candidate /\ u = currentTerm[c] /\ Granted(v, c, u) /\ t < u
          /\ <<v, n, t>> \in h => Dead(h, n, t) \/ Contains(c, n, t)

\* A server loses only dead entries of what it held
Kept(h) ==
    \A v \in Server : \A n, t \in Nat : <<v, n, t>> \in h => Dead(h, n, t) \/ Contains(v, n, t)

\* A log with an entry of some term has what is not dead of all smaller terms
CleanLogs(h) ==
    \A i \in Server : \A k \in 1..Len(log[i]) : \A n, t \in Nat :
        n > 0 /\ t < log[i][k].term => Dead(h, n, t) \/ Contains(i, n, t)

\* So has the prefix that a call speaks of
CleanCalls(h) ==
    \A m \in calls : m.type = "AppendEntries" =>
        \A n, t \in Nat : n > 0 /\ t < m.term => Dead(h, n, t) \/ Covers(m, n, t)

\* A reply of success means that both sides held the last entry in its term
RepliesHeld(h) ==
    \A m \in calls : m.type = "AppendEntriesReply" /\ m.success =>
        <<m.from, m.newMatch, m.term>> \in h /\ <<m.to, m.newMatch, m.term>> \in h

\* What a leader counts as matched in its own term was held by the peer
Matches(h) ==
    \A i, p \in Server : LET k == matchIndex[i][p] IN
        state[i] = Leader /\ k > 0 =>
            /\ k <= Len(log[i])
            /\ log[i][k].term = currentTerm[i] => <<p, k, currentTerm[i]>> \in h

\* Entry e is committed at index n, after an entry of term p
CommittedLink(n, e, p) ==
    n \in 1..Len(committed) /\ committed[n] = e
      /\ p = IF n = 1 THEN 0 ELSE committed[n - 1].term

\* Committed entries were held, and no entry of their term and index differs
CommittedHeld(h) ==
    \A n \in Nat : \A e \in Entry : \A p \in Nat : CommittedLink(n, e, p) =>
        /\ \E v \in Server : <<v, n, e.term>> \in h
        /\ \A f \in Entry : \A q \in Nat : Link(n, f, q) /\ f.term = e.term => e = f /\ p = q

\* The last committed entry is chosen
CommittedChosen(h) ==
    committed # <<>> => Chosen(h, Len(committed), committed[Len(committed)].term)

\* What a server's commit index names is committed, chosen, and in its log
CommitKnown(h) ==
    \A i \in Server : LET c == commitIndex[i] IN
        c > 0 => /\ c <= Len(committed)
                 /\ Chosen(h, c, committed[c].term)
                 /\ Contains(i, c, committed[c].term)

\* What a call says is committed is, and lies within the prefix it speaks of
CommitSent(h) ==
    \A m \in calls : m.type = "AppendEntries" /\ m.leaderCommit > 0 =>
        LET c == m.leaderCommit IN
        /\ c <= Len(committed)
        /\ c <= LastSent(m)
        /\ Chosen(h, c, committed[c].term)
        /\ committed[c].term <= m.term

-----------------------------------------------------------------------------
(* Sequences of entries                                                    *)

\* Where every term goes back to the same start, an index between the start
\* of a term and an entry of it holds an entry of it too.
LEMMA Descends ==
    ASSUME NEW s, NEW t \in Nat, NEW n \in Nat, NEW k \in Nat, n <= k, s[k].term = t,
           \A j \in (n + 1)..k : s[j].term = t => s[j - 1].term = t
    PROVE  s[n].term = t
<1> DEFINE D == {j \in n..k : s[j].term # t}
<1> SUFFICES ASSUME n \in D PROVE FALSE
  OBVIOUS
<1>1. PICK j \in D : \A l \in D : l <= j
  <2>1. D \in SUBSET (0..k) /\ D # {}
    OBVIOUS
  <2> HIDE DEF D
  <2> QED
    BY <2>1, GreatestElement
<1>2. j \in n..k /\ s[j].term # t /\ j # k
  BY <1>1
<1>3. j + 1 \in (n + 1)..k /\ j + 1 \in n..k /\ (j + 1) - 1 = j
  BY <1>2
<1>4. j + 1 \notin D
  BY <1>1, <1>2
<1>5. s[j + 1].term = t
  BY <1>3, <1>4
<1> QED
  BY <1>2, <1>3, <1>5

\* Neighbours in order are in order over any distance.
LEMMA Ascends ==
    ASSUME NEW s, NEW n \in Nat, NEW k \in Nat, n <= k,
           \A j \in n..k : s[j].term \in Nat,
           \A j \in (n + 1)..k : s[j - 1].term <= s[j].term
    PROVE  s[n].term <= s[k].term
<1> DEFINE D == {j \in n..k : s[j].term > s[k].term}
<1> SUFFICES ASSUME n \in D PROVE FALSE
  OBVIOUS
<1>1. PICK j \in D : \A l \in D : l <= j
  <2>1. D \in SUBSET (0..k) /\ D # {}
    OBVIOUS
  <2> HIDE DEF D
  <2> QED
    BY <2>1, GreatestElement
<1>2. j \in n..k /\ s[j].term > s[k].term /\ j # k
  BY <1>1
<1>3. j + 1 \in (n + 1)..k /\ j + 1 \in n..k /\ (j + 1) - 1 = j
  BY <1>2
<1>4. j + 1 \notin D
  BY <1>1, <1>2
<1>5. s[j + 1].term <= s[k].term
  BY <1>3, <1>4
<1> QED
  BY <1>2, <1>3, <1>5

\* What handle_append_entries makes of a log: nothing before the sent entries
\* changes, the sent terms are there, and a longer log is kept where it holds
\* all of them.
LEMMA MergeShape ==
    ASSUME NEW old \in Seq(Entry), NEW es \in Seq(Entry), NEW prev \in Nat,
           prev <= Len(old)
    PROVE  LET new == Merge(old, prev, es)
               last == prev + Len(es)
           IN  /\ new \in Seq(Entry) /\ Len(new) \in Nat /\ Len(new) >= last
               /\ \A k \in 1..prev : new[k] = old[k]
               /\ \A k \in (prev + 1)..last : new[k].term = es[k - prev].term
               /\ Len(new) > last => new = old
               /\ Len(new) = last \/ new = old
               /\ (last <= Len(old) /\ \A k \in (prev + 1)..last :
                     old[k].term = es[k - prev].term) => new = old
<1> DEFINE last == prev + Len(es)
           Held(k) == /\ k <= Len(old)
                      /\ \A j \in (prev + 1)..k : old[j].term = es[j - prev].term
           new == Merge(old, prev, es)
           made == [k \in 1..last |-> IF Held(k) THEN old[k] ELSE es[k - prev]]
<1>1. Len(old) \in Nat /\ Len(es) \in Nat /\ last \in Nat
  BY LenProperties
<1>2. new \in Seq(Entry) /\ Len(new) \in Nat
  BY MergeType, LenProperties
<1>3. new = IF Held(last) THEN old ELSE made
  BY DEF Merge
<1>4. CASE Held(last)
  <2>1. new = old /\ last <= Len(old)
        /\ \A j \in (prev + 1)..last : old[j].term = es[j - prev].term
    BY <1>3, <1>4
  <2> HIDE DEF Held, new
  <2> QED
    BY <1>1, <1>2, <2>1 DEF new
<1>5. CASE ~Held(last)
  <2>1. new = made
    BY <1>3, <1>5
  <2>2. DOMAIN made = 1..last
    OBVIOUS
  <2>3. Len(new) = last
    BY <1>1, <1>2, <2>1, <2>2, LenProperties
  <2>4. \A k \in 1..last : new[k] = IF Held(k) THEN old[k] ELSE es[k - prev]
    BY <2>1
  <2>5. \A k \in 1..prev : Held(k)
    BY <1>1
  <2>6. \A k \in (prev + 1)..last : Held(k) => old[k].term = es[k - prev].term
    BY <1>1
  <2>7. ~(last <= Len(old) /\ \A k \in (prev + 1)..last : old[k].term = es[k - prev].term)
    BY <1>5
  <2> HIDE DEF Held, new, made
  <2>8. \A k \in 1..prev : new[k] = old[k]
    BY <1>1, <2>4, <2>5
  <2>9. \A k \in (prev + 1)..last : new[k].term = es[k - prev].term
    BY <1>1, <2>4, <2>6
  <2> QED
    BY <1>1, <1>2, <2>3, <2>7, <2>8, <2>9 DEF new
<1> QED
  BY <1>4, <1>5

\* A set that has, with an index, the one before it, goes all the way back.
LEMMA GoesBack ==
    ASSUME NEW S, NEW n \in Nat, NEW k \in Nat, k \in S,
           \A j \in (n + 1)..k : j \in S => j - 1 \in S
    PROVE  \A j \in n..k : j \in S
<1> DEFINE D == {j \in n..k : j \notin S}
<1> SUFFICES ASSUME D # {} PROVE FALSE
  OBVIOUS
<1>1. PICK j \in D : \A l \in D : l <= j
  <2>1. D \in SUBSET (0..k)
    OBVIOUS
  <2> HIDE DEF D
  <2> QED
    BY <2>1, GreatestElement
<1>2. j \in n..k /\ j \notin S /\ j # k
  BY <1>1
<1>3. j + 1 \in (n + 1)..k /\ j + 1 \in n..k /\ (j + 1) - 1 = j
  BY <1>2
<1>4. j + 1 \notin D
  BY <1>1, <1>2
<1>5. j \in S
  BY <1>3, <1>4
<1> QED
  BY <1>2, <1>5

-----------------------------------------------------------------------------
(* Logs and calls in terms of links                                        *)

\* Every entry of a log is a link
LogsLinked ==
    \A i \in Server : \A n \in 1..Len(log[i]) :
        /\ n \in Nat /\ log[i][n] \in Entry /\ log[i][n].term \in Nat
        /\ \E e \in Entry : \E p \in Nat :
             e = log[i][n] /\ p = TermAt(i, n - 1) /\ Link(n, e, p)

\* The entries of a term stand in one row, from the start of the term on
LogsDescend ==
    \A b : Starts(b) =>
        \A i \in Server : \A k, n, t \in Nat :
            Contains(i, k, t) /\ b[t] <= n /\ n <= k => Contains(i, n, t)

\* Terms never decrease along a log
LogsSorted ==
    \A i \in Server : \A n, k \in 1..Len(log[i]) : n <= k => log[i][n].term <= log[i][k].term

\* The shape of a log in terms of links.
LEMMA LinkedLogs == TypeOK => LogsLinked
<1> SUFFICES ASSUME TypeOK, NEW i \in Server, NEW n \in 1..Len(log[i])
             PROVE  /\ n \in Nat /\ log[i][n] \in Entry /\ log[i][n].term \in Nat
                    /\ \E e \in Entry : \E p \in Nat :
                         e = log[i][n] /\ p = TermAt(i, n - 1) /\ Link(n, e, p)
  BY DEF LogsLinked
<1>1. log[i] \in Seq(Entry) /\ Len(log[i]) \in Nat
  BY LenProperties DEF TypeOK
<1>2. \A k \in 1..Len(log[i]) : log[i][k] \in Entry /\ log[i][k].term \in Nat
  <2>1. \A k \in 1..Len(log[i]) : log[i][k] \in Entry
    BY <1>1, ElementOfSeq
  <2>2. \A e \in Entry : e.term \in Nat
    BY DEF Entry
  <2> QED
    BY <2>1, <2>2
<1>3. TermAt(i, n - 1) \in Nat
  <2>1. CASE n = 1
    BY <2>1 DEF TermAt
  <2>2. CASE n # 1
    <3>1. n - 1 \in 1..Len(log[i])
      BY <1>1, <2>2
    <3> QED
      BY <1>2, <3>1 DEF TermAt
  <2> QED
    BY <2>1, <2>2
<1> QED
  BY <1>2, <1>3 DEF Link, LogLink

\* A row of a term has no gap.
LEMMA DescendingLog ==
    ASSUME TypeOK, NEW b, Starts(b), NEW i \in Server, NEW k \in Nat, NEW n \in Nat,
           NEW t \in Nat, Contains(i, k, t), b[t] <= n, n <= k
    PROVE  Contains(i, n, t)
<1>1. b[t] \in Nat \ {0}
  BY DEF Starts
<1>2. k \in 1..Len(log[i]) /\ log[i][k].term = t /\ Len(log[i]) \in Nat
  BY LenProperties DEF Contains, TypeOK
<1>3. ASSUME NEW j \in (n + 1)..k, log[i][j].term = t
      PROVE  log[i][j - 1].term = t
  <2>1. j \in Nat /\ j \in 1..Len(log[i]) /\ j # b[t] /\ j - 1 # 0
    BY <1>1, <1>2
  <2>2. PICK e \in Entry, p \in Nat :
            e = log[i][j] /\ p = TermAt(i, j - 1) /\ Link(j, e, p)
    BY <2>1, LinkedLogs DEF LogsLinked
  <2>3. Link(j, e, p) /\ e.term = t /\ j # b[e.term]
    BY <1>3, <2>1, <2>2
  <2>4. p = log[i][j - 1].term
    BY <2>1, <2>2 DEF TermAt
  <2>5. p = e.term
    BY <2>1, <2>3 DEF Starts
  <2> QED
    BY <2>3, <2>4, <2>5
<1>4. \A j \in (n + 1)..k : log[i][j].term = t => log[i][j - 1].term = t
  BY <1>3
<1>5. log[i][k].term = t
  BY <1>2
<1>6. log[i][n].term = t
  BY <1>4, <1>5, Descends
<1> QED
  BY <1>1, <1>2, <1>6 DEF Contains

\* A row of a term has no gap, in no log.
LEMMA DescendingLogs == TypeOK => LogsDescend
BY DescendingLog DEF LogsDescend

\* Links that rise make sorted logs.
LEMMA SortedLogs == TypeOK /\ Rising => LogsSorted
<1> SUFFICES ASSUME TypeOK, Rising, NEW i \in Server, NEW n \in 1..Len(log[i]),
                    NEW k \in 1..Len(log[i]), n <= k
             PROVE  log[i][n].term <= log[i][k].term
  BY DEF LogsSorted
<1>1. Len(log[i]) \in Nat
  BY LenProperties DEF TypeOK
<1>2. \A j \in n..k : log[i][j].term \in Nat
  BY <1>1, LinkedLogs DEF LogsLinked
<1>3. ASSUME NEW j \in (n + 1)..k
      PROVE  log[i][j - 1].term <= log[i][j].term
  <2>1. j \in 1..Len(log[i]) /\ j - 1 # 0
    BY <1>1
  <2>2. PICK e \in Entry, p \in Nat :
            e = log[i][j] /\ p = TermAt(i, j - 1) /\ Link(j, e, p)
    BY <2>1, LinkedLogs DEF LogsLinked
  <2>3. TermAt(i, j - 1) <= log[i][j].term
    BY <1>1, <2>1, <2>2 DEF Rising
  <2> QED
    BY <2>1, <2>3 DEF TermAt
<1> DEFINE s == log[i]
<1>4. /\ n \in Nat /\ k \in Nat
      /\ \A j \in n..k : s[j].term \in Nat
      /\ \A j \in (n + 1)..k : s[j - 1].term <= s[j].term
  BY <1>1, <1>2, <1>3
<1> HIDE DEF s
<1>5. s[n].term <= s[k].term
  BY <1>4, Ascends
<1> QED
  BY <1>5 DEF s

-----------------------------------------------------------------------------
(* Chosen and dead entries                                                 *)

\* A majority is not empty.
LEMMA MajorityHasMember ==
    ASSUME NEW Q \in SUBSET Server, Cardinality(Q) >= Majority
    PROVE  \E v \in Server : v \in Q
<1>1. Q \cap Q # {}
  BY MajoritiesIntersect
<1> QED
  BY <1>1

\* What was chosen is held by somebody.
LEMMA ChosenIsHeld ==
    ASSUME NEW h, NEW n, NEW t, Chosen(h, n, t)
    PROVE  \E v \in Server : <<v, n, t>> \in h
<1>1. PICK Q \in SUBSET Server : Cardinality(Q) >= Majority /\ \A v \in Q : <<v, n, t>> \in h
  BY DEF Chosen
<1> QED
  BY <1>1, MajorityHasMember

\* A majority that held an entry rules out a majority that never will.
LEMMA ChosenIsNotDead ==
    ASSUME NEW h, NEW n, NEW t, Chosen(h, n, t)
    PROVE  ~Dead(h, n, t)
<1> SUFFICES ASSUME Dead(h, n, t) PROVE FALSE
  OBVIOUS
<1>1. PICK P \in SUBSET Server : Cardinality(P) >= Majority /\ \A v \in P : <<v, n, t>> \in h
  BY DEF Chosen
<1>2. PICK Q \in SUBSET Server : Cardinality(Q) >= Majority /\ \A v \in Q : <<v, n, t>> \notin h
  BY DEF Dead
<1> QED
  BY <1>1, <1>2, MajoritiesIntersect

\* What was chosen stays chosen.
LEMMA ChosenStays ==
    ASSUME NEW h, NEW g, h \subseteq g, NEW n, NEW t, Chosen(h, n, t)
    PROVE  Chosen(g, n, t)
BY DEF Chosen

\* An entry nobody ever held in its term is dead once its term is over for a
\* majority.
LEMMA NobodyHeldIsDead ==
    ASSUME TypeOK, NEW h, NEW n \in Nat, NEW t \in Nat, NEW u \in Nat, t < u, Owned(u),
           \A v \in Server : <<v, n, t>> \notin h
    PROVE  Dead(h, n, t)
<1>1. PICK c \in Server, Q \in SUBSET Server : Owns(c, Q, u)
  BY DEF Owned
<1>2. Cardinality(Q) >= Majority /\ \A v \in Q : v \in Server /\ u <= currentTerm[v]
  BY <1>1 DEF Owns
<1>3. \A v \in Q : currentTerm[v] \in Nat
  BY <1>2 DEF TypeOK
<1>4. \A v \in Q : currentTerm[v] > t /\ <<v, n, t>> \notin h
  BY <1>2, <1>3
<1> QED
  BY <1>2, <1>4 DEF Dead

\* The history after a step: what is held now is added
Grows(h, g) == g = h \cup Now'

\* The dead stay dead: their terms are over.
LEMMA DeadStays ==
    ASSUME TypeOK, TypeOK', ElectionInv, [Next]_vars, NEW h, NEW g, Grows(h, g),
           NEW n, NEW t \in Nat, Dead(h, n, t)
    PROVE  Dead(g, n, t)'
<1>1. PICK Q \in SUBSET Server :
          Cardinality(Q) >= Majority /\ \A v \in Q : currentTerm[v] > t /\ <<v, n, t>> \notin h
  BY DEF Dead
<1>2. \A v \in Server : /\ currentTerm[v] \in Nat /\ currentTerm'[v] \in Nat
                        /\ currentTerm[v] <= currentTerm'[v]
  BY VotersStep DEF VoterStep, TypeOK
<1>3. ASSUME NEW v \in Q
      PROVE  currentTerm'[v] > t /\ <<v, n, t>> \notin g
  <2>0. v \in Server /\ currentTerm[v] > t
    BY <1>1
  <2>1. currentTerm'[v] > t
    BY <1>2, <2>0
  <2>2. <<v, n, t>> \notin Now'
    BY <2>1 DEF Now
  <2> QED
    BY <1>1, <2>1, <2>2 DEF Grows
<1> QED
  BY <1>1, <1>3 DEF Dead

-----------------------------------------------------------------------------
(* Steps                                                                   *)

\* A reply that says its entries are in the log
Success(m) == m.type = "AppendEntriesReply" /\ m.success

\* No step forgets a term, and what becomes of the roles in it
RolesMove ==
    \A j \in Server :
        /\ state'[j] # Follower => state[j] # Follower \/ currentTerm'[j] > currentTerm[j]
        /\ state'[j] = Leader => state[j] = Leader /\ currentTerm'[j] = currentTerm[j]
                                   /\ matchIndex'[j] = matchIndex[j]

\* A step that neither touches a log nor learns what another log holds
IdleStep ==
    /\ UNCHANGED <<log, committed>>
    /\ \A m \in calls' : m \in calls \/ (m.type # "AppendEntries" /\ ~Success(m))
    /\ \A j \in Server : commitIndex'[j] \in {0, commitIndex[j]}
    /\ RolesMove

\* handle_append_entries, where it accepts the entries
AcceptStep(m) ==
    LET i == m.to IN
    /\ m.type = "AppendEntries"
    /\ currentTerm[i] <= m.term
    /\ currentTerm' = [currentTerm EXCEPT ![i] = m.term]
    /\ state' = [state EXCEPT ![i] = Follower]
    /\ m.prevLogIndex <= Len(log[i])
    /\ ~Conflicts(i, m.prevLogIndex, m.prevLogTerm)
    /\ log' = [log EXCEPT ![i] = Merge(@, m.prevLogIndex, m.entries)]
    /\ commitIndex' = [commitIndex EXCEPT ![i] =
         IF m.leaderCommit > @
         THEN IF m.leaderCommit <= Len(log'[i]) THEN m.leaderCommit ELSE Len(log'[i])
         ELSE @]
    /\ \A r \in calls' :
         \/ r \in calls
         \/ /\ r.type = "AppendEntriesReply" /\ r.from = i /\ r.to = m.from
            /\ r.newMatch = LastSent(m) /\ r.term = m.term
    /\ UNCHANGED <<committed, matchIndex>>

\* _send_append_entries_to, where a leader is told of success
CountStep(m) ==
    LET i == m.to
        p == m.from
        match == IF m.newMatch > matchIndex[i][p]
                 THEN [matchIndex[i] EXCEPT ![p] = m.newMatch] ELSE matchIndex[i]
    IN  /\ Success(m)
        /\ m.inc = incarnation[i]
        /\ m.term <= currentTerm[i]
        /\ state[i] = Leader
        /\ matchIndex' = [matchIndex EXCEPT ![i] = match]
        /\ AdvanceCommitIndex(i, match)
        /\ calls' \subseteq calls
        /\ UNCHANGED <<log, currentTerm, state, votes>>

\* Where a server steps down, the others keep their roles.
LEMMA StepDownMoves ==
    ASSUME TypeOK, NEW i \in Server, NEW t, BecomeFollower(i, t),
           UNCHANGED matchIndex
    PROVE  RolesMove
<1>1. /\ state' = [state EXCEPT ![i] = Follower]
      /\ currentTerm' = [currentTerm EXCEPT ![i] = t]
  BY DEF BecomeFollower
<1>2. state'[i] = Follower
  BY <1>1 DEF TypeOK
<1>3. \A j \in Server : j # i => state'[j] = state[j] /\ currentTerm'[j] = currentTerm[j]
  BY <1>1 DEF TypeOK
<1> QED
  BY <1>2, <1>3 DEF RolesMove, Follower, Leader

\* A restarted server has no role and has committed nothing.
LEMMA RebootIsIdle ==
    ASSUME TypeOK, NEW i \in Server, Reboot(i), calls' \subseteq calls,
           \A j \in Server : j # i => currentTerm'[j] = currentTerm[j]
    PROVE  IdleStep
<1>1. /\ state' = [state EXCEPT ![i] = Follower]
      /\ matchIndex' = [matchIndex EXCEPT ![i] = [p \in Server |-> 0]]
      /\ commitIndex' = [commitIndex EXCEPT ![i] = 0]
      /\ UNCHANGED <<log, committed>>
  BY DEF Reboot
<1>2. state'[i] = Follower /\ commitIndex'[i] = 0
  BY <1>1 DEF TypeOK
<1>3. \A j \in Server : j # i =>
         state'[j] = state[j] /\ matchIndex'[j] = matchIndex[j] /\ commitIndex'[j] = commitIndex[j]
  BY <1>1 DEF TypeOK
<1>4. RolesMove
  BY <1>2, <1>3 DEF RolesMove, Follower, Leader
<1> QED
  BY <1>1, <1>2, <1>3, <1>4 DEF IdleStep

\* A step outside replication.
LEMMA OutsideIsIdle ==
    ASSUME UNCHANGED <<log, committed, commitIndex, state, currentTerm, matchIndex>>,
           \A m \in calls' : m \in calls \/ (m.type # "AppendEntries" /\ ~Success(m))
    PROVE  IdleStep
<1>1. RolesMove
  BY DEF RolesMove
<1> QED
  BY <1>1 DEF IdleStep

\* The forms of handle_append_entries.
LEMMA HandleAppendEntriesIs ==
    ASSUME TypeOK, ElectionInv, LogInv, NEW m \in calls, HandleAppendEntries(m)
    PROVE  IdleStep \/ AcceptStep(m)
<1> DEFINE i == m.to
           refused(ct, ci, term) ==
               [type |-> "AppendEntriesReply", from |-> i, to |-> m.from, inc |-> m.inc,
                newMatch |-> m.prevLogIndex + Len(m.entries), term |-> term,
                success |-> FALSE, conflictIndex |-> ci, conflictTerm |-> ct]
           accepted == [type |-> "AppendEntriesReply", from |-> i, to |-> m.from,
                        inc |-> m.inc, newMatch |-> m.prevLogIndex + Len(m.entries),
                        term |-> m.term, success |-> TRUE, conflictIndex |-> 0,
                        conflictTerm |-> 0]
<1>1. /\ i \in Server /\ m.from \in Server /\ m.term \in Nat /\ currentTerm[i] \in Nat
      /\ m.type = "AppendEntries"
  <2>1. i \in Server /\ m.from \in Server /\ m.term \in Nat
    BY CallFields
  <2> QED
    BY <2>1 DEF HandleAppendEntries, TypeOK
<1>2. UNCHANGED <<matchIndex, committed>>
  BY DEF HandleAppendEntries, peerVars
<1>3. ASSUME NEW ct, NEW ci, NEW term, Answered(m, {refused(ct, ci, term)})
      PROVE  \A r \in calls' : r \in calls \/ (r.type # "AppendEntries" /\ ~Success(r))
  <2>1. calls' \subseteq calls \cup {refused(ct, ci, term)}
    BY <1>3, AnsweredCalls
  <2>2. refused(ct, ci, term).type = "AppendEntriesReply" /\ ~refused(ct, ci, term).success
    OBVIOUS
  <2> HIDE DEF refused
  <2> QED
    BY <2>1, <2>2 DEF Success
<1>4. ASSUME Answered(m, {accepted})
      PROVE  \A r \in calls' :
                 \/ r \in calls
                 \/ /\ r.type = "AppendEntriesReply" /\ r.from = i /\ r.to = m.from
                    /\ r.newMatch = LastSent(m) /\ r.term = m.term
  <2>1. calls' \subseteq calls \cup {accepted}
    BY <1>4, AnsweredCalls
  <2>2. /\ accepted.type = "AppendEntriesReply" /\ accepted.from = i /\ accepted.to = m.from
        /\ accepted.newMatch = LastSent(m) /\ accepted.term = m.term
    BY DEF LastSent
  <2> HIDE DEF accepted
  <2> QED
    BY <2>1, <2>2
<1>5. CASE /\ m.term < currentTerm[i]
           /\ Answered(m, {refused(0, 0, currentTerm[i])})
           /\ UNCHANGED <<diskVars, roleVars, commitIndex, leaderId>>
  <2>1. UNCHANGED <<log, committed, commitIndex, state, currentTerm, matchIndex>>
    BY <1>2, <1>5 DEF diskVars, roleVars
  <2> HIDE DEF refused
  <2> QED
    BY <1>3, <1>5, <2>1, OutsideIsIdle
<1>6. CASE /\ ~(m.term < currentTerm[i])
           /\ IF m.term > currentTerm[i] \/ state[i] = Candidate
              THEN BecomeFollower(i, m.term)
              ELSE UNCHANGED <<currentTerm, votedFor, roleVars>>
  <2>1. \/ m.term > currentTerm[i] /\ BecomeFollower(i, m.term)
        \/ state[i] = Candidate /\ BecomeFollower(i, m.term)
        \/ m.term = currentTerm[i] /\ state[i] # Candidate /\ UNCHANGED <<currentTerm, state>>
    BY <1>1, <1>6 DEF roleVars
  <2>2. RolesMove
    BY <1>1, <1>2, <2>1, StepDownMoves DEF RolesMove
  <2>3. /\ currentTerm' = [currentTerm EXCEPT ![i] = m.term]
        /\ state' = [state EXCEPT ![i] = Follower]
    <3>1. CASE BecomeFollower(i, m.term)
      BY <3>1 DEF BecomeFollower
    <3>2. CASE m.term = currentTerm[i] /\ state[i] # Candidate
                 /\ UNCHANGED <<currentTerm, state>>
      <4>1. state[i] # Leader
        BY <1>1, <3>2 DEF LogInv, CallsOfLeader, ElectionInv, NoSelfCalls
      <4>2. state[i] = Follower
        BY <1>1, <3>2, <4>1 DEF TypeOK
      <4> QED
        BY <1>1, <3>2, <4>2 DEF TypeOK
    <3> QED
      BY <2>1, <3>1, <3>2
  <2>4. ASSUME NEW ct, NEW ci, Answered(m, {refused(ct, ci, m.term)}),
               UNCHANGED <<log, commitIndex>>
        PROVE  IdleStep
    <3> HIDE DEF refused
    <3> QED
      BY <1>2, <1>3, <2>2, <2>4 DEF IdleStep
  <2>5. ASSUME m.prevLogIndex <= Len(log[i]), ~Conflicts(i, m.prevLogIndex, m.prevLogTerm),
               log' = [log EXCEPT ![i] = Merge(@, m.prevLogIndex, m.entries)],
               commitIndex' = [commitIndex EXCEPT ![i] =
                 IF m.leaderCommit > @
                 THEN IF m.leaderCommit <= Len(log'[i])
                      THEN m.leaderCommit ELSE Len(log'[i])
                 ELSE @],
               Answered(m, {accepted})
        PROVE  AcceptStep(m)
    <3>1. currentTerm[i] <= m.term
      BY <1>1, <1>6
    <3> HIDE DEF accepted
    <3> QED
      BY <1>1, <1>2, <1>4, <2>3, <2>5, <3>1 DEF AcceptStep
  <2>6. \/ \E ct, ci : Answered(m, {refused(ct, ci, m.term)}) /\ UNCHANGED <<log, commitIndex>>
        \/ /\ ~(m.prevLogIndex > Len(log[i]))
           /\ ~(~(m.prevLogIndex > Len(log[i])) /\ Conflicts(i, m.prevLogIndex, m.prevLogTerm))
           /\ log' = [log EXCEPT ![i] = Merge(@, m.prevLogIndex, m.entries)]
           /\ commitIndex' = [commitIndex EXCEPT ![i] =
                 IF m.leaderCommit > @
                 THEN IF m.leaderCommit <= Len(log'[i])
                      THEN m.leaderCommit ELSE Len(log'[i])
                 ELSE @]
           /\ Answered(m, {accepted})
    BY <1>1, <1>6 DEF HandleAppendEntries, LastLogIndex
  <2>7. m.prevLogIndex \in Nat /\ Len(log[i]) \in Nat
    <3>1. m.prevLogIndex \in Nat
      BY <1>1, CallFields DEF AppendEntriesArgs
    <3> QED
      BY <1>1, <3>1, LenProperties DEF TypeOK
  <2> HIDE DEF refused, accepted
  <2>8. CASE \E ct, ci : Answered(m, {refused(ct, ci, m.term)})
                            /\ UNCHANGED <<log, commitIndex>>
    BY <2>4, <2>8
  <2>9. m.prevLogIndex <= Len(log[i]) <=> ~(m.prevLogIndex > Len(log[i]))
    BY <2>7
  <2> QED
    BY <2>5, <2>6, <2>8, <2>9
<1> QED
  BY <1>1, <1>5, <1>6 DEF HandleAppendEntries

\* The forms of _send_append_entries_to after its call.
LEMMA HandleAppendEntriesReplyIs ==
    ASSUME TypeOK, NEW m \in calls, HandleAppendEntriesReply(m)
    PROVE  IdleStep \/ CountStep(m)
<1> DEFINE i == m.to
           p == m.from
           match == IF m.newMatch > matchIndex[i][p]
                    THEN [matchIndex[i] EXCEPT ![p] = m.newMatch] ELSE matchIndex[i]
<1>1. i \in Server
  BY CallFields
<1>2. calls' \subseteq calls /\ UNCHANGED log /\ m.type = "AppendEntriesReply"
      /\ m.inc = incarnation[i]
  BY AnsweredCalls DEF HandleAppendEntriesReply
<1>3. CASE BecomeFollower(i, m.term) /\ UNCHANGED <<peerVars, commitIndex, committed>>
  BY <1>1, <1>2, <1>3, StepDownMoves DEF IdleStep, peerVars
<1>4. CASE UNCHANGED <<currentTerm, roleVars, matchIndex, commitIndex, committed>>
  BY <1>2, <1>4, OutsideIsIdle DEF roleVars
<1>5. CASE /\ m.term <= currentTerm[i] /\ state[i] = Leader /\ m.success
           /\ matchIndex' = [matchIndex EXCEPT ![i] = match]
           /\ AdvanceCommitIndex(i, match)
           /\ UNCHANGED <<currentTerm, votedFor, roleVars>>
  BY <1>2, <1>5 DEF CountStep, Success, roleVars
<1> QED
  BY <1>3, <1>4, <1>5 DEF HandleAppendEntriesReply, peerVars

\* The forms of a step, as far as replication is concerned.
LEMMA StepForms ==
    ASSUME TypeOK, TypeOK', ElectionInv, LogInv, [Next]_vars
    PROVE  \/ IdleStep
           \/ \E i \in Server : BecomeLeader(i)
           \/ \E i \in Server : \E op \in Op : AppendEntry(i, op)
           \/ \E i \in Server : \E p \in Server : SendAppendEntries(i, p)
           \/ \E m \in calls : AcceptStep(m)
           \/ \E m \in calls : CountStep(m)
<1>1. ASSUME NEW i \in Server, NEW sent \in SUBSET (Server \ {i}), StartElection(i, sent)
      PROVE  IdleStep
  <2>1. /\ state' = [state EXCEPT ![i] = Candidate]
        /\ currentTerm' = [currentTerm EXCEPT ![i] = @ + 1]
        /\ UNCHANGED <<log, matchIndex, commitIndex, committed>>
        /\ \A m \in calls' : m \in calls \/ m.type = "RequestVote"
    BY <1>1 DEF StartElection, peerVars
  <2>2. currentTerm[i] \in Nat /\ currentTerm'[i] = currentTerm[i] + 1 /\ state'[i] = Candidate
    BY <2>1 DEF TypeOK
  <2>3. \A j \in Server : j # i => state'[j] = state[j] /\ currentTerm'[j] = currentTerm[j]
    BY <2>1 DEF TypeOK
  <2>4. RolesMove
    <3>1. currentTerm'[i] > currentTerm[i]
      BY <2>2
    <3> QED
      BY <2>1, <2>2, <2>3, <3>1 DEF RolesMove, Candidate, Leader
  <2> QED
    BY <2>1, <2>4 DEF IdleStep, Success
<1>2. ASSUME NEW i \in Server,
             \/ LoseElection(i) \/ FetchCommitted(i) \/ ApplyEntry(i)
             \/ \E w \in commitWaiters[i] : WaiterTimeout(i, w)
             \/ \E b \in BOOLEAN : SetIsolated(i, b)
      PROVE  IdleStep
  BY <1>2, OutsideIsIdle DEF LoseElection, FetchCommitted, ApplyEntry, WaiterTimeout,
       SetIsolated, diskVars, roleVars, peerVars
<1>3. ASSUME NEW i \in Server, Restart(i)
      PROVE  IdleStep
  BY <1>3, RebootIsIdle DEF Restart
<1>4. ASSUME NEW m \in calls, CrashInHandler(m)
      PROVE  IdleStep
  <2>1. m.to \in Server
    BY CallFields
  <2>2. /\ Reboot(m.to) /\ calls' = calls \ {m}
        /\ currentTerm' = [currentTerm EXCEPT ![m.to] = m.term]
    BY <1>4 DEF CrashInHandler
  <2>3. \A j \in Server : j # m.to => currentTerm'[j] = currentTerm[j]
    BY <2>2 DEF TypeOK
  <2> QED
    BY <2>1, <2>2, <2>3, RebootIsIdle
<1>5. ASSUME NEW m \in calls, LoseCall(m)
      PROVE  IdleStep
  BY <1>5, OutsideIsIdle DEF LoseCall, diskVars, roleVars, peerVars
<1>6. ASSUME NEW m \in calls, HandleRequestVote(m)
      PROVE  IdleStep
  <2> DEFINE i == m.to
  <2>1. i \in Server /\ m.term \in Nat /\ currentTerm[i] \in Nat
    BY CallFields DEF TypeOK
  <2>2. \A r \in calls' : r \in calls \/ (r.type # "AppendEntries" /\ ~Success(r))
    <3>1. ASSUME NEW reply, Answered(m, {reply}), reply.type = "RequestVoteReply"
          PROVE  \A r \in calls' : r \in calls \/ (r.type # "AppendEntries" /\ ~Success(r))
      BY <3>1, AnsweredCalls DEF Success
    <3> QED
      BY <1>6, <3>1 DEF HandleRequestVote
  <2>3. UNCHANGED <<log, committed, commitIndex, matchIndex>>
    BY <1>6 DEF HandleRequestVote, peerVars
  <2>4. RolesMove
    <3>1. CASE m.term > currentTerm[i]
      <4>1. /\ state' = [state EXCEPT ![i] = Follower]
            /\ currentTerm' = [currentTerm EXCEPT ![i] = m.term]
        BY <1>6, <3>1 DEF HandleRequestVote
      <4>2. state'[i] = Follower
        BY <2>1, <4>1 DEF TypeOK
      <4>3. \A j \in Server : j # i => state'[j] = state[j] /\ currentTerm'[j] = currentTerm[j]
        BY <4>1 DEF TypeOK
      <4> QED
        BY <2>3, <4>2, <4>3 DEF RolesMove, Follower, Leader
    <3>2. CASE ~(m.term > currentTerm[i])
      <4>1. /\ currentTerm' = [currentTerm EXCEPT ![i] = currentTerm[i]]
            /\ UNCHANGED state
        BY <1>6, <3>2 DEF HandleRequestVote
      <4>2. currentTerm' = currentTerm
        BY <4>1 DEF TypeOK
      <4> QED
        BY <2>3, <4>1, <4>2 DEF RolesMove
    <3> QED
      BY <3>1, <3>2
  <2> QED
    BY <2>2, <2>3, <2>4 DEF IdleStep
<1>7. ASSUME NEW m \in calls, HandleRequestVoteReply(m)
      PROVE  IdleStep
  <2>1. m.to \in Server
    BY CallFields
  <2>2. calls' \subseteq calls /\ UNCHANGED <<log, matchIndex, commitIndex, committed>>
    BY <1>7, AnsweredCalls DEF HandleRequestVoteReply, peerVars
  <2>3. CASE BecomeFollower(m.to, m.term)
    BY <2>1, <2>2, <2>3, StepDownMoves DEF IdleStep
  <2>4. CASE UNCHANGED <<state, currentTerm>>
    BY <2>2, <2>4, OutsideIsIdle
  <2> QED
    BY <1>7, <2>3, <2>4 DEF HandleRequestVoteReply
<1>8. CASE UNCHANGED vars
  BY <1>8, OutsideIsIdle DEF vars, diskVars, roleVars, peerVars
<1>9. CASE \E i \in Server : ServerStep(i)
  BY <1>9, <1>1, <1>2, <1>3 DEF ServerStep
<1>10. CASE \E m \in calls : CallStep(m)
  BY <1>10, <1>4, <1>5, <1>6, <1>7, HandleAppendEntriesIs, HandleAppendEntriesReplyIs
     DEF CallStep
<1> QED
  BY <1>8, <1>9, <1>10 DEF Next

-----------------------------------------------------------------------------
(* What every step does to the history                                     *)

\* Elements of the history are triples.
LEMMA HeldTypes ==
    ASSUME NEW h, History(h), NEW x \in h
    PROVE  /\ x[1] \in Server /\ x[2] \in Nat /\ x[3] \in Nat
           /\ x = <<x[1], x[2], x[3]>>
BY DEF History

\* What is held now.
LEMMA NowContains ==
    ASSUME NEW v \in Server, NEW n \in Nat, NEW t \in Nat
    PROVE  <<v, n, t>> \in Now <=> t = currentTerm[v] /\ Contains(v, n, t)
BY DEF Now

\* The history records what is held after the step, and nothing it should not.
LEMMA HistoryGrows ==
    ASSUME TypeOK, TypeOK', ElectionInv, ElectionInv', LogInv', [Next]_vars,
           NEW h, NEW g, Grows(h, g), History(h)
    PROVE  History(g)'
<1>1. g \subseteq Server \X Nat \X Nat /\ h \subseteq g /\ Now' \subseteq g
  BY DEF Grows, History, Now
<1>2. \A v \in Server : /\ currentTerm[v] \in Nat /\ currentTerm'[v] \in Nat
                        /\ currentTerm[v] <= currentTerm'[v]
  BY VotersStep DEF VoterStep, TypeOK
<1>3. LogsLinked'
  BY LinkedLogs, PTL
<1>4. ASSUME NEW v \in Server, NEW n \in Nat, NEW t \in Nat, <<v, n, t>> \in g
      PROVE  n > 0 /\ t <= currentTerm'[v] /\ Owned(t)'
  <2>1. CASE <<v, n, t>> \in h
    <3>1. n > 0 /\ t <= currentTerm[v] /\ Owned(t)
      BY <2>1 DEF History
    <3>2. Owned(t)'
      BY <3>1, OwnedStays
    <3> QED
      BY <1>2, <3>1, <3>2
  <2>2. CASE <<v, n, t>> \in Now'
    <3>1. t = currentTerm'[v] /\ n \in 1..Len(log'[v]) /\ log'[v][n].term = t
      BY <2>2 DEF Now, Contains
    <3>2. PICK e \in Entry, p \in Nat : e = log'[v][n] /\ Link(n, e, p)'
      BY <1>3, <3>1 DEF LogsLinked
    <3>3. Owned(t)'
      BY <3>1, <3>2 DEF LogInv, TermsOwned
    <3>4. n > 0
      BY <3>1
    <3> QED
      BY <1>2, <3>1, <3>3, <3>4
  <2> QED
    BY <1>4, <2>1, <2>2 DEF Grows
<1> QED
  BY <1>1, <1>4 DEF History

\* Where no log changes nothing new is held: no entry is of a later term.
LEMMA NothingNewHeld ==
    ASSUME TypeOK, TypeOK', ElectionInv, [Next]_vars, NEW h, NEW g, Grows(h, g),
           History(h), Rising, UNCHANGED log
    PROVE  g = h
<1>1. \A v \in Server : /\ currentTerm[v] \in Nat /\ currentTerm'[v] \in Nat
                        /\ currentTerm[v] <= currentTerm'[v]
  BY VotersStep DEF VoterStep, TypeOK
<1>2. ASSUME NEW x \in Now'
      PROVE  x \in h
  <2>1. PICK v \in Server, n \in Nat, t \in Nat : x = <<v, n, t>>
    BY DEF Now
  <2>2. t = currentTerm'[v] /\ n \in 1..Len(log[v]) /\ log[v][n].term = t
    BY <1>2, <2>1 DEF Now, Contains
  <2>3. t <= currentTerm[v]
    BY <2>2 DEF Rising
  <2>4. t = currentTerm[v]
    BY <1>1, <2>2, <2>3
  <2>5. x \in Now
    BY <2>1, <2>2, <2>4 DEF Now, Contains
  <2> QED
    BY <2>5 DEF History
<1> QED
  BY <1>2 DEF Grows

\* The rows of the history have no gaps.
LEMMA HeldFromStartGrows ==
    ASSUME TypeOK', NEW h, NEW g, NEW c, Grows(h, g), Starts(c)',
           HeldFromStart(h, c)
    PROVE  HeldFromStart(g, c)
<1>1. LogsLinked'
  BY LinkedLogs, PTL
<1>2. LogsDescend'
  BY DescendingLogs, PTL
<1>3. ASSUME NEW v \in Server, NEW k \in Nat, NEW t \in Nat, <<v, k, t>> \in g
      PROVE  c[t] <= k /\ \A n \in c[t]..k : <<v, n, t>> \in g
  <2>1. CASE <<v, k, t>> \in h
    BY <2>1 DEF HeldFromStart, Grows
  <2>2. CASE <<v, k, t>> \in Now'
    <3>1. t = currentTerm'[v] /\ k \in 1..Len(log'[v]) /\ log'[v][k].term = t
      BY <2>2 DEF Now, Contains
    <3>2. PICK e \in Entry, p \in Nat : e = log'[v][k] /\ Link(k, e, p)'
      BY <1>1, <3>1 DEF LogsLinked
    <3>3. c[t] \in Nat /\ c[t] # 0
      BY DEF Starts
    <3>4. c[t] <= k
      BY <3>1, <3>2 DEF Starts
    <3>5. ASSUME NEW n \in c[t]..k
          PROVE  <<v, n, t>> \in g
      <4>1. n \in Nat /\ c[t] <= n /\ n <= k
        BY <3>3
      <4>2. Contains(v, k, t)'
        BY <3>1 DEF Contains
      <4>3. Contains(v, n, t)'
        BY <1>2, <4>1, <4>2 DEF LogsDescend
      <4>4. <<v, n, t>> \in Now'
        BY <3>1, <4>1, <4>3 DEF Now
      <4> QED
        BY <4>4 DEF Grows
    <3> QED
      BY <3>4, <3>5
  <2> QED
    BY <1>3, <2>1, <2>2 DEF Grows
<1> QED
  BY <1>3 DEF HeldFromStart

\* A leader is ahead of everything held in its term.
LEMMA LeaderTopGrows ==
    ASSUME TypeOK', LogInv', NEW h, NEW g, Grows(h, g),
           \A j, v \in Server : \A n \in Nat :
               state'[j] = Leader /\ <<v, n, currentTerm'[j]>> \in h => n <= Len(log'[j])
    PROVE  LeaderTop(g)'
<1> SUFFICES ASSUME NEW j \in Server, NEW v \in Server, NEW n \in Nat, state'[j] = Leader,
                    <<v, n, currentTerm'[j]>> \in g
             PROVE  n <= Len(log'[j])
  BY DEF LeaderTop
<1>1. LogsLinked'
  BY LinkedLogs, PTL
<1>2. CASE <<v, n, currentTerm'[j]>> \in Now'
  <2>1. n \in 1..Len(log'[v]) /\ log'[v][n].term = currentTerm'[j]
    BY <1>2 DEF Now, Contains
  <2>2. PICK e \in Entry, p \in Nat : e = log'[v][n] /\ Link(n, e, p)'
    BY <1>1, <2>1 DEF LogsLinked
  <2> QED
    BY <2>1, <2>2 DEF LogInv, LeaderAhead
<1> QED
  BY <1>2 DEF Grows

\* What is not dead and was in a log in its term is still in it.
LEMMA KeptGrows ==
    ASSUME TypeOK, TypeOK', ElectionInv, [Next]_vars, NEW h, NEW g, Grows(h, g), History(h),
           Kept(h),
           \A v \in Server : \A n, t \in Nat :
               <<v, n, t>> \in h /\ ~Dead(h, n, t) /\ Contains(v, n, t) => Contains(v, n, t)'
    PROVE  Kept(g)'
<1> SUFFICES ASSUME NEW v \in Server, NEW n \in Nat, NEW t \in Nat, <<v, n, t>> \in g
             PROVE  Dead(g, n, t)' \/ Contains(v, n, t)'
  BY DEF Kept
<1>1. CASE <<v, n, t>> \in h
  <2>1. CASE Dead(h, n, t)
    BY <2>1, DeadStays
  <2>2. CASE ~Dead(h, n, t)
    BY <1>1, <2>2 DEF Kept
  <2> QED
    BY <2>1, <2>2
<1>2. CASE <<v, n, t>> \in Now'
  BY <1>2 DEF Now
<1> QED
  BY <1>1, <1>2 DEF Grows

-----------------------------------------------------------------------------
(* The invariant of replication and commit                                 *)

\* What links, logs and calls have to do with the history
HistoryInv(h, b) ==
    /\ History(h)
    /\ Rising
    /\ Starts(b)
    /\ HeldFromStart(h, b)
    /\ LinksHeld(h)
    /\ CallShape(h)
    /\ LeaderLast
    /\ LeaderTop(h)

\* What is not dead is everywhere it should be
KeptInv(h) ==
    /\ Kept(h)
    /\ CleanLogs(h)
    /\ CleanCalls(h)

\* What leaders count and commit
CommitInv(h) ==
    /\ RepliesHeld(h)
    /\ Matches(h)
    /\ CommittedHeld(h)
    /\ CommittedChosen(h)
    /\ CommitKnown(h)
    /\ CommitSent(h)

ReplInv(h, b) == HistoryInv(h, b) /\ KeptInv(h) /\ CommitInv(h)

\* Where there are no new links, what is said of links stays true.
LEMMA LinksStay ==
    ASSUME \A n \in Nat : \A e \in Entry : \A p \in Nat : Link(n, e, p)' => Link(n, e, p),
           NEW h, NEW g, NEW b, h \subseteq g
    PROVE  /\ Starts(b) => Starts(b)'
           /\ LinksHeld(h) => LinksHeld(g)'
           /\ CommittedHeld(h) /\ UNCHANGED committed => CommittedHeld(g)'
           /\ Rising => \A n \in Nat : \A e \in Entry : \A p \in Nat :
                            Link(n, e, p)' => p <= e.term /\ e.term > 0
<1>1. Starts(b) => Starts(b)'
  BY DEF Starts
<1>2. LinksHeld(h) => LinksHeld(g)'
  BY DEF LinksHeld
<1>3. CommittedHeld(h) /\ UNCHANGED committed => CommittedHeld(g)'
  <2> SUFFICES ASSUME CommittedHeld(h), committed' = committed,
                      NEW n \in Nat, NEW e \in Entry, NEW p \in Nat, CommittedLink(n, e, p)'
               PROVE  /\ \E v \in Server : <<v, n, e.term>> \in g
                      /\ \A f \in Entry : \A q \in Nat :
                            Link(n, f, q)' /\ f.term = e.term => e = f /\ p = q
    BY DEF CommittedHeld
  <2>1. CommittedLink(n, e, p)
    BY DEF CommittedLink
  <2> QED
    BY <2>1 DEF CommittedHeld
<1>4. Rising => \A n \in Nat : \A e \in Entry : \A p \in Nat :
                    Link(n, e, p)' => p <= e.term /\ e.term > 0
  BY DEF Rising
<1> QED
  BY <1>1, <1>2, <1>3, <1>4

\* Steps that touch no log and learn nothing keep the invariant.
LEMMA IdleKeeps ==
    ASSUME TypeOK, TypeOK', ElectionInv, ElectionInv', LogInv, LogInv', [Next]_vars,
           NEW h, NEW g, NEW b, Grows(h, g), ReplInv(h, b), IdleStep
    PROVE  ReplInv(g, b)'
<1>1. g = h
  BY NothingNewHeld DEF ReplInv, HistoryInv, IdleStep
<1>2. \A v \in Server : /\ currentTerm[v] \in Nat /\ currentTerm'[v] \in Nat
                        /\ currentTerm[v] <= currentTerm'[v]
  BY VotersStep DEF VoterStep, TypeOK
<1>3. \A n \in Nat : \A e \in Entry : \A p \in Nat : Link(n, e, p)' => Link(n, e, p)
  BY KeptLinks DEF IdleStep
<1>4. \A j \in Server :
         /\ log'[j] = log[j] /\ committed' = committed
         /\ state'[j] = Leader => state[j] = Leader /\ currentTerm'[j] = currentTerm[j]
                                    /\ matchIndex'[j] = matchIndex[j]
         /\ state'[j] # Follower => state[j] # Follower \/ currentTerm'[j] > currentTerm[j]
         /\ commitIndex'[j] = 0 \/ commitIndex'[j] = commitIndex[j]
  BY DEF IdleStep, RolesMove
<1>5. \A m \in calls' : m.type = "AppendEntries" \/ Success(m) => m \in calls
  BY DEF IdleStep
<1>6. \A n, t \in Nat : Dead(h, n, t) => Dead(h, n, t)'
  BY <1>1, DeadStays
<1>h. HistoryInv(h, b) /\ KeptInv(h) /\ CommitInv(h)
  BY DEF ReplInv
<1>7. HistoryInv(h, b)'
  <2>1. History(h)'
    BY <1>1, <1>h, HistoryGrows DEF HistoryInv
  <2>2. Rising'
    <3>1. ASSUME NEW i \in Server, NEW n \in 1..Len(log'[i])
          PROVE  log'[i][n].term <= currentTerm'[i]
      <4>1. log[i][n].term <= currentTerm[i] /\ log'[i] = log[i]
        BY <1>4, <1>h DEF HistoryInv, Rising
      <4>2. log[i][n].term \in Nat
        BY <1>4, LinkedLogs DEF LogsLinked
      <4> QED
        BY <1>2, <4>1, <4>2
    <3>2. ASSUME NEW i \in Server, state'[i] # Follower
          PROVE  currentTerm'[i] > 0
      <4>1. currentTerm[i] > 0 \/ currentTerm'[i] > currentTerm[i]
        BY <1>4, <1>h, <3>2 DEF HistoryInv, Rising
      <4> QED
        BY <1>2, <4>1
    <3> QED
      BY <1>3, <1>h, <3>1, <3>2, LinksStay DEF HistoryInv, Rising
  <2>3. Starts(b)' /\ LinksHeld(h)'
    BY <1>3, <1>h, LinksStay DEF HistoryInv
  <2>4. HeldFromStart(h, b)'
    BY <1>h DEF HistoryInv, HeldFromStart
  <2>5. CallShape(h)'
    BY <1>5, <1>h DEF HistoryInv, CallShape, LastSent
  <2>6. LeaderLast'
    BY <1>4, <1>h DEF HistoryInv, LeaderLast, Contains
  <2>7. LeaderTop(h)'
    BY <1>4, <1>h DEF HistoryInv, LeaderTop
  <2> QED
    BY <2>1, <2>2, <2>3, <2>4, <2>5, <2>6, <2>7 DEF HistoryInv
<1>8. KeptInv(h)'
  <2>1. \A i \in Server : \A n, t \in Nat : Contains(i, n, t)' <=> Contains(i, n, t)
    BY <1>4 DEF Contains
  <2>2. Kept(h)'
    BY <1>6, <1>h, <2>1 DEF KeptInv, Kept
  <2>3. CleanLogs(h)'
    BY <1>4, <1>6, <1>h, <2>1 DEF KeptInv, CleanLogs
  <2>4. \A m : \A n, t \in Nat : Covers(m, n, t)' <=> Covers(m, n, t)
    BY DEF Covers, LastSent
  <2>5. CleanCalls(h)'
    BY <1>5, <1>6, <1>h, <2>4 DEF KeptInv, CleanCalls
  <2> QED
    BY <2>2, <2>3, <2>5 DEF KeptInv
<1>9. CommitInv(h)'
  <2>1. RepliesHeld(h)'
    BY <1>5, <1>h DEF CommitInv, RepliesHeld, Success
  <2>2. Matches(h)'
    BY <1>4, <1>h DEF CommitInv, Matches
  <2>3. CommittedHeld(h)'
    BY <1>3, <1>h, LinksStay DEF CommitInv, IdleStep
  <2>4. CommittedChosen(h)'
    BY <1>h DEF CommitInv, CommittedChosen, Chosen, IdleStep
  <2>5. CommitKnown(h)'
    BY <1>4, <1>h DEF CommitInv, CommitKnown, Chosen, Contains
  <2>6. CommitSent(h)'
    BY <1>5, <1>h DEF CommitInv, CommitSent, Chosen, LastSent, IdleStep
  <2> QED
    BY <2>1, <2>2, <2>3, <2>4, <2>5, <2>6 DEF CommitInv
<1> QED
  BY <1>1, <1>7, <1>8, <1>9 DEF ReplInv

\* Leader i of term T, or a candidate that becomes it, appends the entry new at
\* position last; c gives the start of term T if b does not know it yet
Appends(i, T, last, new, c) ==
    /\ T = currentTerm[i] /\ T > 0
    /\ last = Len(log[i]) + 1
    /\ new.term = T
    /\ state'[i] = Leader
    /\ log' = [log EXCEPT ![i] = Append(@, new)]
    /\ UNCHANGED <<currentTerm, calls, committed, commitIndex>>
    /\ \A j \in Server : j # i => state'[j] = state[j] /\ matchIndex'[j] = matchIndex[j]
    /\ \A p \in Server :
          \/ p = i /\ matchIndex'[i][p] = last
          \/ matchIndex'[i][p] = 0
          \/ state[i] = Leader /\ matchIndex'[i][p] = matchIndex[i][p]
    /\ c \in [Nat -> Nat \ {0}]
    /\ c[T] <= last
    /\ last # c[T] => TermAt(i, last - 1) = T

\* The new entry comes after all others of term T
ComesLast(h, b, c, T, last) ==
    /\ \A t \in Nat : t # T => c[t] = b[t]
    /\ \A n \in Nat : \A e \in Entry : \A p \in Nat :
          Link(n, e, p) /\ e.term = T => c[T] = b[T]
    /\ \A v \in Server : \A n \in Nat : <<v, n, T>> \in h => c[T] = b[T] /\ n < last

\* The log of server i holds everything older than term T that is not dead
HoldsOlder(h, i, T) ==
    \A n, t \in Nat : n > 0 /\ t < T => Dead(h, n, t) \/ Contains(i, n, t)

\* A leader, or a candidate that becomes one, appends an entry of its term that
\* comes after all others of the term, to a log that holds everything older
\* that is not dead.
LEMMA AppendingKeeps ==
    ASSUME TypeOK, TypeOK', ElectionInv, ElectionInv', LogInv, LogInv', [Next]_vars,
           NEW h, NEW g, NEW b, NEW c, Grows(h, g), ReplInv(h, b),
           NEW i \in Server, NEW T \in Nat, NEW last \in Nat, NEW new \in Entry,
           Appends(i, T, last, new, c), ComesLast(h, b, c, T, last), HoldsOlder(h, i, T)
    PROVE  ReplInv(g, c)'
<1>0. \A t \in Nat : c[t] \in Nat /\ c[t] # 0
  BY DEF Appends
<1>1. /\ log[i] \in Seq(Entry) /\ Len(log[i]) \in Nat /\ last > 0 /\ last - 1 = Len(log[i])
      /\ T > 0 /\ currentTerm[i] = T /\ currentTerm' = currentTerm /\ new.term = T
  BY LenProperties DEF TypeOK, Appends
<1>c. UNCHANGED <<calls, committed, commitIndex>>
  BY DEF Appends
<1>2. /\ Len(log'[i]) = last /\ log'[i][last] = new
      /\ \A k \in 1..Len(log[i]) : log'[i][k] = log[i][k]
  <2>1. log'[i] = Append(log[i], new)
    BY DEF TypeOK, Appends
  <2> QED
    BY <1>1, <2>1, AppendProperties
<1>3. \A j \in Server : j # i => log'[j] = log[j]
  BY DEF TypeOK, Appends
<1>4. ASSUME NEW n \in Nat, NEW e \in Entry, NEW p \in Nat, Link(n, e, p)'
      PROVE  Link(n, e, p) \/ (n = last /\ e = new /\ p = TermAt(i, last - 1))
  <2>1. Link(n, e, p) \/ (n = Len(log[i]) + 1 /\ e = new /\ p = TermAt(i, Len(log[i])))
    BY <1>4, AppendLinks, ZenonT(40) DEF Appends
  <2> QED
    BY <1>1, <2>1
<1>5. \A j \in Server : \A n, t \in Nat : Contains(j, n, t) => Contains(j, n, t)'
  <2>1. \A n, t \in Nat : Contains(i, n, t) => Contains(i, n, t)'
    BY <1>1, <1>2 DEF Contains
  <2> QED
    BY <1>3, <2>1 DEF Contains
<1>6. \A n, t \in Nat : Dead(h, n, t) => Dead(g, n, t)'
  BY DeadStays
<1>7. h \subseteq g /\ Now' \subseteq g
  BY DEF Grows
<1>8. Contains(i, last, T)' /\ <<i, last, T>> \in Now'
  <2>1. Contains(i, last, T)'
    BY <1>1, <1>2 DEF Contains
  <2> QED
    BY <1>1, <2>1 DEF Now
<1>9. \A j \in Server : state'[j] = Leader =>
          /\ j # i => state[j] = Leader /\ currentTerm[j] # T
          /\ Len(log[j]) <= Len(log'[j])
  <2>1. ElectionSafety'
    BY ElectionInvIsSafe, PTL
  <2>2. \A j \in Server : Len(log[j]) \in Nat
    BY LenProperties DEF TypeOK
  <2>3. state'[i] = Leader /\ \A j \in Server : j # i => state'[j] = state[j]
    BY DEF Appends
  <2>4. Len(log[i]) <= Len(log'[i])
    BY <1>1, <1>2
  <2> QED
    BY <1>1, <1>3, <2>1, <2>2, <2>3, <2>4 DEF ElectionSafety
<1>h. HistoryInv(h, b) /\ KeptInv(h) /\ CommitInv(h)
  BY DEF ReplInv
<1>l. TermAt(i, last - 1) <= T
  <2>1. CASE last = 1
    BY <1>1, <2>1 DEF TermAt
  <2>2. CASE last # 1
    <3>1. last - 1 \in 1..Len(log[i]) /\ TermAt(i, last - 1) = log[i][last - 1].term
      BY <1>1, <2>2 DEF TermAt
    <3> QED
      BY <1>1, <1>h, <3>1 DEF HistoryInv, Rising
  <2> QED
    BY <2>1, <2>2
<1>10. HistoryInv(g, c)'
  <2>1. History(g)'
    BY <1>h, HistoryGrows DEF HistoryInv
  <2>2. Rising'
    <3>1. ASSUME NEW n \in Nat, NEW e \in Entry, NEW p \in Nat, Link(n, e, p)'
          PROVE  p <= e.term /\ e.term > 0
      <4>1. CASE Link(n, e, p)
        BY <1>h, <4>1 DEF HistoryInv, Rising
      <4>2. CASE n = last /\ e = new /\ p = TermAt(i, last - 1)
        BY <1>1, <1>l, <4>2
      <4> QED
        BY <1>4, <3>1, <4>1, <4>2
    <3>2. ASSUME NEW j \in Server, NEW n \in 1..Len(log'[j])
          PROVE  log'[j][n].term <= currentTerm'[j]
      <4>1. CASE n \in 1..Len(log[j])
        <5>1. log'[j][n] = log[j][n] /\ log[j][n].term <= currentTerm[j]
          BY <1>2, <1>3, <1>h, <4>1 DEF HistoryInv, Rising
        <5> QED
          BY <1>1, <5>1
      <4>2. CASE n \notin 1..Len(log[j])
        <5>1. j = i /\ n = last
          BY <1>1, <1>2, <1>3, <4>2
        <5>2. log'[j][n].term = T
          BY <1>1, <1>2, <5>1
        <5> QED
          BY <1>1, <5>1, <5>2
      <4> QED
        BY <4>1, <4>2
    <3>3. ASSUME NEW j \in Server, state'[j] # Follower
          PROVE  currentTerm'[j] > 0
      <4>1. CASE j = i
        BY <1>1, <4>1
      <4>2. CASE j # i
        <5>1. state'[j] = state[j]
          BY <4>2 DEF Appends
        <5> QED
          BY <1>1, <1>h, <3>3, <5>1 DEF HistoryInv, Rising
      <4> QED
        BY <4>1, <4>2
    <3> QED
      BY <3>1, <3>2, <3>3 DEF Rising
  <2>3. Starts(c)'
    <3>1. ASSUME NEW n \in Nat, NEW e \in Entry, NEW p \in Nat, Link(n, e, p)'
          PROVE  c[e.term] <= n /\ (n # c[e.term] => p = e.term)
      <4>1. CASE Link(n, e, p)
        <5>1. e.term \in Nat
          BY DEF Entry
        <5>2. c[e.term] = b[e.term]
          BY <4>1, <5>1 DEF ComesLast
        <5> QED
          BY <1>h, <4>1, <5>2 DEF HistoryInv, Starts
      <4>2. CASE n = last /\ e = new /\ p = TermAt(i, last - 1)
        BY <1>1, <4>2 DEF Appends
      <4> QED
        BY <1>4, <3>1, <4>1, <4>2
    <3>2. c \in [Nat -> Nat \ {0}]
      BY DEF Appends
    <3> QED
      BY <3>1, <3>2 DEF Starts
  <2>4. HeldFromStart(g, c)
    <3>1. HeldFromStart(h, c)
      <4> SUFFICES ASSUME NEW v \in Server, NEW k \in Nat, NEW t \in Nat, <<v, k, t>> \in h
                   PROVE  c[t] <= k /\ \A n \in c[t]..k : <<v, n, t>> \in h
        BY DEF HeldFromStart
      <4>1. c[t] = b[t]
        BY DEF ComesLast
      <4> QED
        BY <1>h, <4>1 DEF HistoryInv, HeldFromStart
    <3> QED
      BY <2>3, <3>1, HeldFromStartGrows
  <2>5. LinksHeld(g)'
    <3> SUFFICES ASSUME NEW n \in Nat, NEW e \in Entry, NEW p \in Nat, Link(n, e, p)'
                 PROVE  \E v \in Server : <<v, n, e.term>> \in g
      BY DEF LinksHeld
    <3>1. CASE Link(n, e, p)
      BY <1>7, <1>h, <3>1 DEF HistoryInv, LinksHeld
    <3>2. CASE n = last /\ e = new
      BY <1>1, <1>7, <1>8, <3>2
    <3> QED
      BY <1>4, <3>1, <3>2
  <2>6. CallShape(g)'
    BY <1>7, <1>c, <1>h DEF HistoryInv, CallShape, LastSent
  <2>7. LeaderLast'
    <3> SUFFICES ASSUME NEW j \in Server, state'[j] = Leader
                 PROVE  Contains(j, Len(log[j]), currentTerm[j])'
      BY DEF LeaderLast
    <3>1. CASE j = i
      BY <1>1, <1>2, <1>8, <3>1 DEF Contains
    <3>2. CASE j # i
      BY <1>1, <1>3, <1>9, <1>h, <3>2 DEF HistoryInv, LeaderLast, Contains
    <3> QED
      BY <3>1, <3>2
  <2>8. LeaderTop(g)'
    <3>1. ASSUME NEW j \in Server, NEW v \in Server, NEW n \in Nat, state'[j] = Leader,
                 <<v, n, currentTerm'[j]>> \in h
          PROVE  n <= Len(log'[j])
      <4>1. CASE j = i
        <5>1. n < last
          BY <1>1, <3>1, <4>1 DEF ComesLast
        <5> QED
          BY <1>2, <4>1, <5>1
      <4>2. CASE j # i
        BY <1>1, <1>3, <1>9, <1>h, <3>1, <4>2 DEF HistoryInv, LeaderTop
      <4> QED
        BY <4>1, <4>2
    <3> QED
      BY <3>1, LeaderTopGrows
  <2>9. HeldFromStart(g, c)'
    BY <2>4 DEF HeldFromStart
  <2> QED
    BY <2>1, <2>2, <2>3, <2>5, <2>6, <2>7, <2>8, <2>9 DEF HistoryInv
<1>11. KeptInv(g)'
  <2>1. Kept(g)'
    BY <1>5, <1>h, KeptGrows DEF HistoryInv, KeptInv
  <2>2. CleanLogs(g)'
    <3> SUFFICES ASSUME NEW j \in Server, NEW k \in 1..Len(log'[j]), NEW n \in Nat,
                        NEW t \in Nat, n > 0, t < log'[j][k].term
                 PROVE  Dead(g, n, t)' \/ Contains(j, n, t)'
      BY DEF CleanLogs
    <3>1. CASE k \in 1..Len(log[j])
      <4>1. log'[j][k] = log[j][k]
        BY <1>2, <1>3, <3>1
      <4>2. Dead(h, n, t) \/ Contains(j, n, t)
        BY <1>h, <3>1, <4>1 DEF KeptInv, CleanLogs
      <4> QED
        BY <1>5, <1>6, <4>2
    <3>2. CASE k \notin 1..Len(log[j])
      <4>1. j = i /\ k = last
        BY <1>1, <1>2, <1>3, <3>2
      <4>2. t < T
        BY <1>1, <1>2, <4>1
      <4>3. Dead(h, n, t) \/ Contains(i, n, t)
        BY <4>2 DEF HoldsOlder
      <4> QED
        BY <1>5, <1>6, <4>1, <4>3
    <3> QED
      BY <3>1, <3>2
  <2>3. \A m : \A n, t \in Nat : Covers(m, n, t)' <=> Covers(m, n, t)
    BY DEF Covers, LastSent
  <2>4. CleanCalls(g)'
    BY <1>6, <1>c, <1>h, <2>3 DEF KeptInv, CleanCalls
  <2> QED
    BY <2>1, <2>2, <2>4 DEF KeptInv
<1>12. CommitInv(g)'
  <2>1. RepliesHeld(g)'
    BY <1>7, <1>c, <1>h DEF CommitInv, RepliesHeld
  <2>2. Matches(g)'
    <3> SUFFICES ASSUME NEW j \in Server, NEW p \in Server, state'[j] = Leader,
                        matchIndex'[j][p] > 0
                 PROVE  /\ matchIndex'[j][p] <= Len(log'[j])
                        /\ log'[j][matchIndex'[j][p]].term = currentTerm'[j] =>
                             <<p, matchIndex'[j][p], currentTerm'[j]>> \in g
      BY DEF Matches
    <3>1. CASE j # i
      <4>1. state[j] = Leader /\ matchIndex'[j] = matchIndex[j] /\ log'[j] = log[j]
        BY <1>3, <1>9, <3>1 DEF Appends
      <4>2. matchIndex[j][p] > 0
        BY <4>1
      <4> QED
        BY <1>1, <1>7, <1>h, <4>1, <4>2 DEF CommitInv, Matches
    <3>2. CASE j = i /\ p = i /\ matchIndex'[j][p] = last
      BY <1>1, <1>2, <1>7, <1>8, <3>2
    <3>3. CASE j = i /\ state[i] = Leader /\ matchIndex'[i][p] = matchIndex[i][p]
      <4>1. PICK k \in Nat : k = matchIndex[i][p]
        BY DEF TypeOK
      <4>2. k > 0 /\ k <= Len(log[i]) /\ (log[i][k].term = T => <<p, k, T>> \in h)
        BY <1>1, <1>h, <3>3, <4>1 DEF CommitInv, Matches
      <4>3. log'[i][k] = log[i][k] /\ k <= Len(log'[i])
        BY <1>1, <1>2, <4>2
      <4> QED
        BY <1>1, <1>7, <3>3, <4>1, <4>2, <4>3
    <3>4. CASE j = i /\ matchIndex'[i][p] = 0
      BY <3>4
    <3> QED
      BY <3>1, <3>2, <3>3, <3>4 DEF Appends
  <2>3. CommittedHeld(g)'
    <3> SUFFICES ASSUME NEW n \in Nat, NEW e \in Entry, NEW p \in Nat, CommittedLink(n, e, p)'
                 PROVE  /\ \E v \in Server : <<v, n, e.term>> \in g
                        /\ \A f \in Entry : \A q \in Nat :
                              Link(n, f, q)' /\ f.term = e.term => e = f /\ p = q
      BY DEF CommittedHeld
    <3>1. CommittedLink(n, e, p)
      BY <1>c DEF CommittedLink
    <3>2. PICK v \in Server : <<v, n, e.term>> \in h
      BY <1>h, <3>1 DEF CommitInv, CommittedHeld
    <3>3. ASSUME NEW f \in Entry, NEW q \in Nat, Link(n, f, q)', f.term = e.term
          PROVE  e = f /\ p = q
      <4>1. CASE Link(n, f, q)
        BY <1>h, <3>1, <3>3, <4>1 DEF CommitInv, CommittedHeld
      <4>2. CASE n = last /\ f = new
        <5>1. <<v, last, T>> \in h
          BY <1>1, <3>2, <3>3, <4>2
        <5>2. last < last
          BY <5>1 DEF ComesLast
        <5> QED
          BY <5>2
      <4> QED
        BY <1>4, <3>3, <4>1, <4>2
    <3> QED
      BY <1>7, <3>2, <3>3
  <2>4. \A n, t : Chosen(h, n, t) => Chosen(g, n, t)
    BY <1>7, ChosenStays
  <2>5. \A n, t : Chosen(g, n, t)' <=> Chosen(g, n, t)
    BY DEF Chosen
  <2>6. CommittedChosen(g)'
    BY <1>c, <1>h, <2>4, <2>5 DEF CommitInv, CommittedChosen
  <2>7. CommitKnown(g)'
    <3> SUFFICES ASSUME NEW j \in Server, commitIndex[j] > 0
                 PROVE  /\ commitIndex[j] <= Len(committed)
                        /\ Chosen(g, commitIndex[j], committed[commitIndex[j]].term)
                        /\ Contains(j, commitIndex[j], committed[commitIndex[j]].term)'
      BY <1>c, <2>5 DEF CommitKnown
    <3>1. /\ commitIndex[j] <= Len(committed)
          /\ Chosen(h, commitIndex[j], committed[commitIndex[j]].term)
          /\ Contains(j, commitIndex[j], committed[commitIndex[j]].term)
      BY <1>h DEF CommitInv, CommitKnown
    <3>2. log'[j][commitIndex[j]] = log[j][commitIndex[j]] /\ commitIndex[j] \in 1..Len(log'[j])
      <4>1. commitIndex[j] \in 1..Len(log[j])
        BY <3>1 DEF Contains
      <4> QED
        BY <1>1, <1>2, <1>3, <4>1
    <3>3. Contains(j, commitIndex[j], committed[commitIndex[j]].term)'
      BY <1>c, <3>1, <3>2 DEF Contains
    <3> QED
      BY <2>4, <3>1, <3>3
  <2>8. CommitSent(g)'
    BY <1>c, <1>h, <2>4, <2>5 DEF CommitInv, CommitSent, LastSent
  <2> QED
    BY <2>1, <2>2, <2>3, <2>6, <2>7, <2>8 DEF CommitInv
<1> QED
  BY <1>10, <1>11, <1>12 DEF ReplInv

\* What a candidate asks, and what its voters know of its log
VoteInv(h) ==
    /\ Requests
    /\ GrantsPast
    /\ VotersKnow(h)

\* A candidate with a majority of votes holds everything older than its term
\* that is not dead: what none of its voters held in its term is dead.
LEMMA WinnerHoldsOlder ==
    ASSUME TypeOK, ElectionInv, NEW h, History(h), VotersKnow(h), NEW i \in Server,
           state[i] = Candidate, Cardinality(votes[i]) >= Majority
    PROVE  HoldsOlder(h, i, currentTerm[i])
<1> SUFFICES ASSUME NEW n \in Nat, NEW t \in Nat, n > 0, t < currentTerm[i],
                    ~Contains(i, n, t)
             PROVE  Dead(h, n, t)
  BY DEF HoldsOlder
<1>1. votes[i] \in SUBSET Server /\ currentTerm[i] \in Nat
  BY DEF TypeOK
<1>2. ASSUME NEW v \in votes[i]
      PROVE  currentTerm[v] > t /\ (<<v, n, t>> \in h => Dead(h, n, t))
  <2>1. v \in Server /\ Granted(v, i, currentTerm[i])
    BY <1>1 DEF Granted
  <2>2. currentTerm[i] <= currentTerm[v] /\ currentTerm[v] \in Nat
    BY <1>1, <2>1 DEF ElectionInv, GrantRemembered, TypeOK
  <2> QED
    BY <1>1, <2>1, <2>2 DEF VotersKnow
<1>3. CASE \E v \in votes[i] : <<v, n, t>> \in h
  BY <1>2, <1>3
<1>4. CASE \A v \in votes[i] : <<v, n, t>> \notin h
  BY <1>1, <1>2, <1>4 DEF Dead
<1> QED
  BY <1>3, <1>4

\* The no-op of a new leader is the first entry of its term.
LEMMA BecomeLeaderRepl ==
    ASSUME TypeOK, TypeOK', ElectionInv, ElectionInv', LogInv, LogInv', [Next]_vars,
           NEW h, NEW g, NEW b, Grows(h, g), ReplInv(h, b), VoteInv(h),
           NEW i \in Server, BecomeLeader(i)
    PROVE  \E c : ReplInv(g, c)'
<1>h. HistoryInv(h, b)
  BY DEF ReplInv
<1>1. PICK T \in Nat : T = currentTerm[i]
  BY DEF TypeOK
<1>2. Len(log[i]) \in Nat
  BY LenProperties DEF TypeOK
<1>3. PICK last \in Nat : last = Len(log[i]) + 1 /\ last > 0
  BY <1>2
<1>4. [term |-> T, op |-> NoOp] \in Entry
  BY DEF Entry
<1>5. PICK new \in Entry : new = [term |-> T, op |-> NoOp] /\ new.term = T
  BY <1>4
<1>6. b \in [Nat -> Nat \ {0}]
  BY <1>h DEF HistoryInv, Starts
<1>7. PICK c \in [Nat -> Nat \ {0}] : c[T] = last /\ \A t \in Nat : t # T => c[t] = b[t]
  <2> DEFINE d == [t \in Nat |-> IF t = T THEN last ELSE b[t]]
  <2>1. d \in [Nat -> Nat \ {0}]
    BY <1>3, <1>6, SMTT(20)
  <2>2. d[T] = last /\ \A t \in Nat : t # T => d[t] = b[t]
    OBVIOUS
  <2> HIDE DEF d
  <2> QED
    BY <2>1, <2>2
<1>8. state[i] = Candidate /\ Cardinality(votes[i]) >= Majority
  BY DEF BecomeLeader
<1>9. Appends(i, T, last, new, c)
  <2>1. /\ state' = [state EXCEPT ![i] = Leader]
        /\ log' = [log EXCEPT ![i] = Append(@, new)]
        /\ UNCHANGED <<currentTerm, calls, committed, commitIndex>>
    BY <1>1, <1>5 DEF BecomeLeader
  <2>2. matchIndex' = [matchIndex EXCEPT ![i] =
                          [p \in Server |-> IF p = i THEN last ELSE 0]]
    BY <1>3 DEF BecomeLeader, LastLogIndex
  <2>3. \A p \in Server : matchIndex'[i][p] = IF p = i THEN last ELSE 0
    BY <2>2 DEF TypeOK
  <2>4. state'[i] = Leader
        /\ \A j \in Server : j # i => state'[j] = state[j] /\ matchIndex'[j] = matchIndex[j]
    BY <2>1, <2>2 DEF TypeOK
  <2>5. T > 0
    BY <1>1, <1>8, <1>h DEF HistoryInv, Rising, Candidate, Follower
  <2> QED
    BY <1>1, <1>3, <1>5, <1>7, <2>1, <2>3, <2>4, <2>5 DEF Appends
<1>10. ~Owned(T)
  BY <1>1, NotOwnedBefore
<1>11. ComesLast(h, b, c, T, last)
  <2>1. \A n \in Nat : \A e \in Entry : \A p \in Nat : ~(Link(n, e, p) /\ e.term = T)
    BY <1>10 DEF LogInv, TermsOwned
  <2>2. \A v \in Server : \A n \in Nat : <<v, n, T>> \notin h
    BY <1>10, <1>h DEF HistoryInv, History
  <2> QED
    BY <1>7, <2>1, <2>2 DEF ComesLast
<1>12. HoldsOlder(h, i, T)
  BY <1>1, <1>8, <1>h, WinnerHoldsOlder DEF HistoryInv, VoteInv
<1>13. ReplInv(g, c)'
  BY <1>9, <1>11, <1>12, AppendingKeeps
<1> QED
  BY <1>13

\* The entry of a client comes after the leader's last one, which is of its term.
LEMMA AppendEntryRepl ==
    ASSUME TypeOK, TypeOK', ElectionInv, ElectionInv', LogInv, LogInv', [Next]_vars,
           NEW h, NEW g, NEW b, Grows(h, g), ReplInv(h, b),
           NEW i \in Server, NEW op \in Op, AppendEntry(i, op)
    PROVE  ReplInv(g, b)'
<1>h. HistoryInv(h, b) /\ KeptInv(h)
  BY DEF ReplInv
<1>1. PICK T \in Nat : T = currentTerm[i]
  BY DEF TypeOK
<1>2. Len(log[i]) \in Nat
  BY LenProperties DEF TypeOK
<1>3. PICK last \in Nat : last = Len(log[i]) + 1 /\ last > 0 /\ last - 1 = Len(log[i])
  BY <1>2
<1>4. [term |-> T, op |-> op] \in Entry
  BY DEF Entry
<1>5. PICK new \in Entry : new = [term |-> T, op |-> op] /\ new.term = T
  BY <1>4
<1>6. b \in [Nat -> Nat \ {0}] /\ b[T] \in Nat
  BY <1>h DEF HistoryInv, Starts
<1>8. state[i] = Leader /\ Contains(i, Len(log[i]), T)
  BY <1>1, <1>h DEF AppendEntry, HistoryInv, LeaderLast
<1>9. Appends(i, T, last, new, b)
  <2>1. /\ log' = [log EXCEPT ![i] = Append(@, new)]
        /\ UNCHANGED <<state, currentTerm, calls, committed, commitIndex>>
    BY <1>1, <1>5 DEF AppendEntry
  <2>2. matchIndex' = [matchIndex EXCEPT ![i][i] = last]
    BY <1>3 DEF AppendEntry, LastLogIndex
  <2>3. \A p \in Server : matchIndex'[i][p] = IF p = i THEN last ELSE matchIndex[i][p]
    BY <2>2 DEF TypeOK
  <2>4. \A j \in Server : j # i => matchIndex'[j] = matchIndex[j]
    BY <2>2 DEF TypeOK
  <2>5. T > 0
    BY <1>1, <1>8, <1>h DEF HistoryInv, Rising, Leader, Follower
  <2>6. TermAt(i, last - 1) = T
    BY <1>2, <1>3, <1>8 DEF TermAt, Contains
  <2>7. b[T] <= last
    <3>1. Len(log[i]) \in 1..Len(log[i]) /\ log[i][Len(log[i])].term = T
      BY <1>8 DEF Contains
    <3>2. PICK e \in Entry, p \in Nat : e = log[i][Len(log[i])] /\ Link(Len(log[i]), e, p)
      BY <3>1, LinkedLogs DEF LogsLinked
    <3>3. b[T] <= Len(log[i])
      BY <1>2, <1>h, <3>1, <3>2 DEF HistoryInv, Starts
    <3> QED
      BY <1>2, <1>3, <1>6, <3>3, SMTT(20)
  <2> QED
    BY <1>1, <1>3, <1>5, <1>6, <1>8, <2>1, <2>3, <2>4, <2>5, <2>6, <2>7 DEF Appends
<1>11. ComesLast(h, b, b, T, last)
  <2>1. ASSUME NEW v \in Server, NEW n \in Nat, <<v, n, T>> \in h
        PROVE  n < last
    <3>1. n <= Len(log[i])
      BY <1>1, <1>8, <1>h, <2>1 DEF HistoryInv, LeaderTop
    <3> QED
      BY <1>2, <1>3, <3>1
  <2> QED
    BY <2>1 DEF ComesLast
<1>12. HoldsOlder(h, i, T)
  <2>1. Len(log[i]) \in 1..Len(log[i]) /\ log[i][Len(log[i])].term = T
    BY <1>8 DEF Contains
  <2> QED
    BY <1>h, <2>1 DEF KeptInv, CleanLogs, HoldsOlder
<1> QED
  BY <1>9, <1>11, <1>12, AppendingKeeps

-----------------------------------------------------------------------------
(* Sending                                                                 *)

\* Leader i sends the call new: its log from some index on
Sent(i, new) ==
    /\ state[i] = Leader
    /\ calls' = calls \cup {new}
    /\ UNCHANGED <<log, state, currentTerm, matchIndex, commitIndex, committed>>
    /\ new.type = "AppendEntries" /\ new.from = i /\ new.term = currentTerm[i]
    /\ new.leaderCommit = commitIndex[i]
    /\ new.prevLogIndex \in Nat /\ new.prevLogIndex <= Len(log[i])
    /\ new.prevLogTerm = TermAt(i, new.prevLogIndex)
    /\ Len(new.entries) = Len(log[i]) - new.prevLogIndex
    /\ new.entries \in Seq(Entry)
    /\ \A k \in 1..Len(new.entries) : new.entries[k] = log[i][new.prevLogIndex + k]

\* _send_append_entries_to sends the rest of the log.
LEMMA SendIsSent ==
    ASSUME TypeOK, NEW i \in Server, NEW p \in Server, SendAppendEntries(i, p)
    PROVE  \E new : Sent(i, new)
<1> DEFINE prev == nextIndex[i][p] - 1
           s == SubSeq(log[i], prev + 1, Len(log[i]))
           new == [type |-> "AppendEntries", from |-> i, to |-> p, inc |-> incarnation[i],
                   term |-> currentTerm[i], prevLogIndex |-> prev,
                   prevLogTerm |-> TermAt(i, prev), entries |-> s,
                   leaderCommit |-> commitIndex[i]]
<1>1. /\ state[i] = Leader /\ prev <= Len(log[i])
      /\ calls' = calls \cup {new}
      /\ UNCHANGED <<log, state, currentTerm, matchIndex, commitIndex, committed>>
  BY DEF SendAppendEntries, LastLogIndex, diskVars, roleVars, peerVars
<1>2. prev \in Nat /\ log[i] \in Seq(Entry) /\ Len(log[i]) \in Nat
  <2>1. nextIndex[i][p] \in Nat \ {0}
    BY DEF TypeOK
  <2>2. log[i] \in Seq(Entry)
    BY DEF TypeOK
  <2> QED
    BY <2>1, <2>2, LenProperties
<1>3. /\ new.type = "AppendEntries" /\ new.from = i /\ new.term = currentTerm[i]
      /\ new.leaderCommit = commitIndex[i] /\ new.prevLogIndex = prev
      /\ new.prevLogTerm = TermAt(i, prev) /\ new.entries = s
  OBVIOUS
<1> HIDE DEF new, prev
<1>4. /\ Len(s) = Len(log[i]) - prev
      /\ s \in Seq(Entry)
      /\ \A k \in 1..Len(s) : s[k] = log[i][prev + k]
  <2>1. prev + 1 \in 1..(Len(log[i]) + 1) /\ Len(log[i]) \in (prev + 1 - 1)..Len(log[i])
    BY <1>1, <1>2
  <2>2. /\ Len(s) = Len(log[i]) - (prev + 1) + 1
        /\ s \in Seq(Entry)
        /\ \A k \in 1..(Len(log[i]) - (prev + 1) + 1) : s[k] = log[i][prev + 1 + k - 1]
    BY <1>2, <2>1, SubSeqProperties
  <2> HIDE DEF s
  <2>3. PICK n \in Nat, q \in Nat : n = Len(log[i]) /\ q = prev /\ q <= n
    BY <1>1, <1>2
  <2>4. q <= n => n - (q + 1) + 1 = n - q /\ \A k \in Nat : q + 1 + k - 1 = q + k
    OBVIOUS
  <2>5. Len(s) = n - q /\ \A k \in 1..(n - q) : s[k] = log[i][q + 1 + k - 1]
    BY <2>2, <2>3, <2>4
  <2>6. \A k \in 1..Len(s) : s[k] = log[i][prev + k]
    <3> SUFFICES ASSUME NEW k \in 1..(n - q) PROVE s[k] = log[i][q + k]
      BY <2>3, <2>5
    <3> QED
      BY <2>4, <2>5
  <2> QED
    BY <2>2, <2>3, <2>5, <2>6
<1> HIDE DEF s
<1>5. Sent(i, new)
  BY <1>1, <1>2, <1>3, <1>4 DEF Sent
<1> QED
  BY <1>5

\* What a leader sends is linked as it is in its log.
LEMMA SentLinks ==
    ASSUME TypeOK, NEW i \in Server, NEW new, Sent(i, new)
    PROVE  \A n \in Nat : \A e \in Entry : \A q \in Nat : Link(n, e, q)' => Link(n, e, q)
<1>0. PICK prev \in Nat, top \in Nat : prev = new.prevLogIndex /\ top = Len(log[i])
  BY LenProperties DEF Sent, TypeOK
<1>1. /\ calls' = calls \cup {new} /\ log' = log /\ prev <= top
      /\ new.prevLogIndex = prev /\ new.prevLogTerm = TermAt(i, prev)
      /\ Len(new.entries) = top - prev
      /\ \A k \in 1..(top - prev) : new.entries[k] = log[i][prev + k]
  BY <1>0 DEF Sent
<1>2. ASSUME NEW n \in Nat, NEW e \in Entry, NEW q \in Nat, CallLink(new, n, e, q)
      PROVE  LogLink(i, n, e, q)
  <2>1. /\ n - prev \in 1..(top - prev) /\ new.entries[n - prev] = e
        /\ q = IF n = prev + 1 THEN TermAt(i, prev) ELSE new.entries[n - prev - 1].term
    BY <1>1, <1>2 DEF CallLink
  <2>2. PICK k \in Nat : n = prev + k /\ k \in 1..(top - prev) /\ n - prev = k
    BY <2>1
  <2>3. n \in 1..top /\ log[i][n] = e
    <3>1. n \in 1..top
      BY <2>2
    <3>2. new.entries[k] = e /\ new.entries[k] = log[i][prev + k]
      BY <1>1, <2>1, <2>2
    <3> QED
      BY <2>2, <3>1, <3>2
  <2>4. CASE k = 1
    <3>1. n = prev + 1 /\ n - 1 = prev
      BY <2>2, <2>4
    <3> QED
      BY <1>0, <2>1, <2>3, <3>1 DEF LogLink
  <2>5. CASE k # 1
    <3>1. k - 1 \in 1..(top - prev) /\ prev + (k - 1) = n - 1 /\ n - 1 # 0 /\ n # prev + 1
      BY <1>1, <2>2, <2>5
    <3>2. q = log[i][n - 1].term
      BY <1>1, <2>1, <2>2, <3>1
    <3> QED
      BY <1>0, <2>3, <3>1, <3>2 DEF LogLink, TermAt
  <2> QED
    BY <2>4, <2>5
<1>3. ASSUME NEW n \in Nat, NEW e \in Entry, NEW q \in Nat, Link(n, e, q)'
      PROVE  Link(n, e, q)
  <2>1. CASE \E j \in Server : LogLink(j, n, e, q)'
    BY <1>1, <2>1 DEF Link, LogLink, TermAt
  <2>2. CASE \E m \in calls' : CallLink(m, n, e, q)
    BY <1>1, <1>2, <2>2 DEF Link
  <2>3. \A m : CallLink(m, n, e, q)' <=> CallLink(m, n, e, q)
    BY DEF CallLink
  <2> QED
    BY <1>3, <2>1, <2>2, <2>3 DEF Link
<1> QED
  BY <1>3

\* What a leader sends has the shape of a call, ends with an entry of its term
\* and covers whatever older is not dead; it commits what is chosen.
LEMMA SentShape ==
    ASSUME TypeOK, NEW h, NEW b, ReplInv(h, b), NEW i \in Server, NEW new, Sent(i, new)
    PROVE  /\ new.term > 0 /\ new.prevLogTerm <= new.term
           /\ \A k \in 1..Len(new.entries) : new.entries[k].term <= new.term
           /\ new.term = IF new.entries = <<>> THEN new.prevLogTerm
                                               ELSE new.entries[Len(new.entries)].term
           /\ <<new.from, LastSent(new), new.term>> \in h
           /\ \A n, t \in Nat : n > 0 /\ t < new.term => Dead(h, n, t) \/ Covers(new, n, t)
           /\ new.leaderCommit > 0 =>
                /\ new.leaderCommit <= Len(committed)
                /\ new.leaderCommit <= LastSent(new)
                /\ Chosen(h, new.leaderCommit, committed[new.leaderCommit].term)
                /\ committed[new.leaderCommit].term <= new.term
<1>h. HistoryInv(h, b) /\ KeptInv(h) /\ CommitInv(h)
  BY DEF ReplInv
<1>1. PICK prev \in Nat : prev = new.prevLogIndex
  BY DEF Sent
<1>2. PICK T \in Nat : T = currentTerm[i]
  BY DEF TypeOK
<1>3. PICK top \in Nat : top = Len(log[i])
  BY LenProperties DEF TypeOK
<1>4. /\ new.from = i /\ new.term = T /\ new.leaderCommit = commitIndex[i]
      /\ prev <= top /\ new.prevLogTerm = TermAt(i, prev)
      /\ Len(new.entries) = top - prev /\ new.entries \in Seq(Entry)
      /\ \A k \in 1..(top - prev) : new.entries[k] = log[i][prev + k]
  BY <1>1, <1>2, <1>3 DEF Sent
<1>5. LastSent(new) = top
  BY <1>1, <1>4 DEF LastSent
<1>6. top \in 1..top /\ log[i][top].term = T /\ T > 0
  <2>1. state[i] = Leader
    BY DEF Sent
  <2>2. Contains(i, top, T)
    BY <1>2, <1>3, <1>h, <2>1 DEF HistoryInv, LeaderLast
  <2>3. T > 0
    BY <1>2, <1>h, <2>1 DEF HistoryInv, Rising, Leader, Follower
  <2> QED
    BY <1>3, <2>2, <2>3 DEF Contains
<1>7. \A k \in 1..top : log[i][k].term \in Nat /\ log[i][k].term <= T
  BY <1>2, <1>3, <1>h, LinkedLogs DEF LogsLinked, HistoryInv, Rising
<1>8. new.prevLogTerm <= T
  <2>1. CASE prev = 0
    BY <1>4, <2>1 DEF TermAt
  <2>2. CASE prev # 0
    BY <1>4, <1>7, <2>2 DEF TermAt
  <2> QED
    BY <2>1, <2>2
<1>9. \A k \in 1..(top - prev) : new.entries[k].term <= T
  <2>1. \A k \in 1..(top - prev) : prev + k \in 1..top
    BY <1>4
  <2> QED
    BY <1>4, <1>7, <2>1
<1>10. T = IF new.entries = <<>> THEN new.prevLogTerm ELSE new.entries[Len(new.entries)].term
  <2>1. CASE prev = top
    <3>1. new.entries = <<>>
      BY <1>4, <2>1, EmptySeq, LenProperties
    <3> QED
      BY <1>4, <1>6, <2>1, <3>1 DEF TermAt
  <2>2. CASE prev # top
    <3>1. top - prev \in 1..(top - prev) /\ prev + (top - prev) = top
      BY <1>4, <2>2
    <3>2. new.entries # <<>>
      BY <1>4, <3>1, EmptySeq
    <3> QED
      BY <1>4, <1>6, <3>1, <3>2
  <2> QED
    BY <2>1, <2>2
<1>11. <<i, top, T>> \in h
  <2>1. <<i, top, T>> \in Now
    BY <1>2, <1>3, <1>6 DEF Now, Contains
  <2> QED
    BY <1>h, <2>1 DEF HistoryInv, History
<1>12. ASSUME NEW n \in Nat, NEW t \in Nat, n > 0, t < T, ~Dead(h, n, t)
       PROVE  Covers(new, n, t)
  <2>1. Contains(i, n, t)
    BY <1>3, <1>6, <1>h, <1>12 DEF KeptInv, CleanLogs
  <2>2. n \in 1..top /\ log[i][n].term = t
    BY <1>3, <2>1 DEF Contains
  <2>3. CASE n <= prev
    <3>1. prev \in 1..top /\ TermAt(i, prev) = log[i][prev].term
      BY <1>4, <2>2, <2>3 DEF TermAt
    <3>2. LogsSorted
      BY <1>h, SortedLogs DEF HistoryInv
    <3>3. t <= log[i][prev].term
      BY <1>3, <2>2, <2>3, <3>1, <3>2 DEF LogsSorted
    <3> QED
      BY <1>1, <1>4, <2>3, <3>1, <3>3 DEF Covers
  <2>4. CASE ~(n <= prev)
    <3>1. n - prev \in 1..(top - prev) /\ prev + (n - prev) = n
      BY <1>4, <2>2, <2>4
    <3>2. new.entries[n - prev].term = t
      BY <1>4, <2>2, <3>1
    <3> QED
      BY <1>1, <1>5, <2>2, <2>4, <3>2 DEF Covers
  <2> QED
    BY <2>3, <2>4
<1>13. ASSUME new.leaderCommit > 0
       PROVE  /\ new.leaderCommit <= Len(committed)
              /\ new.leaderCommit <= LastSent(new)
              /\ Chosen(h, new.leaderCommit, committed[new.leaderCommit].term)
              /\ committed[new.leaderCommit].term <= T
  <2>1. PICK c \in Nat : c = commitIndex[i] /\ c > 0
    BY <1>4, <1>13 DEF TypeOK
  <2>2. /\ c <= Len(committed) /\ Chosen(h, c, committed[c].term)
        /\ Contains(i, c, committed[c].term)
    BY <1>h, <2>1 DEF CommitInv, CommitKnown
  <2>3. c \in 1..top /\ log[i][c].term = committed[c].term
    BY <1>3, <2>2 DEF Contains
  <2>4. c <= top /\ committed[c].term <= T
    BY <1>7, <2>3
  <2> QED
    BY <1>4, <1>5, <2>1, <2>2, <2>4
<1> QED
  BY <1>4, <1>5, <1>6, <1>8, <1>9, <1>10, <1>11, <1>12, <1>13

\* Sending keeps the invariant.
LEMMA SendKeeps ==
    ASSUME TypeOK, TypeOK', ElectionInv, ElectionInv', LogInv, LogInv', [Next]_vars,
           NEW h, NEW g, NEW b, Grows(h, g), ReplInv(h, b),
           NEW i \in Server, NEW new, Sent(i, new)
    PROVE  ReplInv(g, b)'
<1>s. /\ calls' = calls \cup {new} /\ new.type = "AppendEntries"
      /\ log' = log /\ state' = state /\ currentTerm' = currentTerm
      /\ matchIndex' = matchIndex /\ commitIndex' = commitIndex /\ committed' = committed
  BY DEF Sent
<1>h. HistoryInv(h, b) /\ KeptInv(h) /\ CommitInv(h)
  BY DEF ReplInv
<1>1. g = h
  BY <1>h, <1>s, NothingNewHeld DEF HistoryInv
<1>3. \A n \in Nat : \A e \in Entry : \A p \in Nat : Link(n, e, p)' => Link(n, e, p)
  BY SentLinks
<1>6. /\ \A n, t : Dead(h, n, t)' <=> Dead(h, n, t)
      /\ \A n, t : Chosen(h, n, t)' <=> Chosen(h, n, t)
      /\ \A j \in Server : \A n, t : Contains(j, n, t)' <=> Contains(j, n, t)
      /\ \A m, n, t : Covers(m, n, t)' <=> Covers(m, n, t)
      /\ \A m : LastSent(m)' = LastSent(m)
  BY <1>s DEF Dead, Chosen, Contains, Covers, LastSent
<1>7. HistoryInv(h, b)'
  <2>1. History(h)'
    BY <1>1, <1>h, HistoryGrows DEF HistoryInv
  <2>2. Rising'
    BY <1>3, <1>h, <1>s, LinksStay DEF HistoryInv, Rising
  <2>3. Starts(b)' /\ LinksHeld(h)'
    BY <1>3, <1>h, LinksStay DEF HistoryInv
  <2>4. HeldFromStart(h, b)'
    BY <1>h DEF HistoryInv, HeldFromStart
  <2>5. CallShape(h)'
    <3> SUFFICES ASSUME NEW m \in calls', m.type = "AppendEntries"
                 PROVE  /\ m.term > 0 /\ m.prevLogTerm <= m.term
                        /\ \A k \in 1..Len(m.entries) : m.entries[k].term <= m.term
                        /\ m.term = IF m.entries = <<>> THEN m.prevLogTerm
                                                        ELSE m.entries[Len(m.entries)].term
                        /\ <<m.from, LastSent(m), m.term>> \in h
      BY <1>6 DEF CallShape
    <3>1. CASE m \in calls
      BY <1>h, <3>1 DEF HistoryInv, CallShape
    <3>2. CASE m = new
      BY <3>2, SentShape
    <3> QED
      BY <1>s, <3>1, <3>2
  <2>6. LeaderLast'
    BY <1>6, <1>h, <1>s DEF HistoryInv, LeaderLast
  <2>7. LeaderTop(h)'
    BY <1>h, <1>s DEF HistoryInv, LeaderTop
  <2> QED
    BY <2>1, <2>2, <2>3, <2>4, <2>5, <2>6, <2>7 DEF HistoryInv
<1>8. KeptInv(h)'
  <2>1. Kept(h)'
    BY <1>6, <1>h DEF KeptInv, Kept
  <2>2. CleanLogs(h)'
    BY <1>6, <1>h, <1>s DEF KeptInv, CleanLogs
  <2>3. CleanCalls(h)'
    <3> SUFFICES ASSUME NEW m \in calls', m.type = "AppendEntries", NEW n \in Nat,
                        NEW t \in Nat, n > 0, t < m.term
                 PROVE  Dead(h, n, t) \/ Covers(m, n, t)
      BY <1>6 DEF CleanCalls
    <3>1. CASE m \in calls
      BY <1>h, <3>1 DEF KeptInv, CleanCalls
    <3>2. CASE m = new
      BY <3>2, SentShape
    <3> QED
      BY <1>s, <3>1, <3>2
  <2> QED
    BY <2>1, <2>2, <2>3 DEF KeptInv
<1>9. CommitInv(h)'
  <2>1. RepliesHeld(h)'
    BY <1>h, <1>s DEF CommitInv, RepliesHeld
  <2>2. Matches(h)'
    BY <1>h, <1>s DEF CommitInv, Matches
  <2>3. CommittedHeld(h)'
    BY <1>3, <1>h, <1>s, LinksStay DEF CommitInv
  <2>4. CommittedChosen(h)'
    BY <1>6, <1>h, <1>s DEF CommitInv, CommittedChosen
  <2>5. CommitKnown(h)'
    BY <1>6, <1>h, <1>s DEF CommitInv, CommitKnown
  <2>6. CommitSent(h)'
    <3> SUFFICES ASSUME NEW m \in calls', m.type = "AppendEntries", m.leaderCommit > 0
                 PROVE  /\ m.leaderCommit <= Len(committed)
                        /\ m.leaderCommit <= LastSent(m)
                        /\ Chosen(h, m.leaderCommit, committed[m.leaderCommit].term)
                        /\ committed[m.leaderCommit].term <= m.term
      BY <1>6, <1>s DEF CommitSent
    <3>1. CASE m \in calls
      BY <1>h, <3>1 DEF CommitInv, CommitSent
    <3>2. CASE m = new
      BY <3>2, SentShape
    <3> QED
      BY <1>s, <3>1, <3>2
  <2> QED
    BY <2>1, <2>2, <2>3, <2>4, <2>5, <2>6 DEF CommitInv
<1> QED
  BY <1>1, <1>7, <1>8, <1>9 DEF ReplInv

-----------------------------------------------------------------------------
(* Accepting                                                               *)

\* Server i of term T at most takes over what the call m says, up to its last
\* index; old and new are its log before and after
Accepted(m, i, prev, last, T, old, new) ==
    /\ i = m.to /\ i \in Server /\ prev = m.prevLogIndex /\ last = LastSent(m) /\ T = m.term
    /\ old = log[i] /\ new = log'[i]
    /\ prev <= Len(old) /\ prev <= last /\ last <= Len(new)
    /\ currentTerm[i] <= T /\ currentTerm'[i] = T /\ state'[i] = Follower
    /\ \A j \in Server : j # i =>
          currentTerm'[j] = currentTerm[j] /\ state'[j] = state[j] /\ log'[j] = log[j]
    /\ prev > 0 => old[prev].term = m.prevLogTerm
    /\ \A k \in 1..prev : new[k] = old[k]
    /\ \A k \in (prev + 1)..last : new[k].term = m.entries[k - prev].term
    /\ Len(new) = last \/ new = old
    /\ (last <= Len(old) /\ \A k \in (prev + 1)..last : old[k].term = new[k].term) => new = old
    /\ last > 0 /\ new[last].term = T

\* What handle_append_entries makes of the log where it accepts: it ends the
\* row of sent entries with one of the sender's term.
LEMMA AcceptIsAccepted ==
    ASSUME TypeOK, TypeOK', LogInv, NEW h, CallShape(h), NEW m \in calls, AcceptStep(m)
    PROVE  \E i \in Server : \E prev, last, T \in Nat : \E old, new \in Seq(Entry) :
               Accepted(m, i, prev, last, T, old, new)
<1>0. m \in AppendEntriesArgs /\ m.to \in Server
  BY CallFields DEF AcceptStep
<1>1. PICK i \in Server, prev \in Nat, T \in Nat, es \in Seq(Entry) :
          i = m.to /\ prev = m.prevLogIndex /\ T = m.term /\ es = m.entries
  BY <1>0 DEF AppendEntriesArgs
<1>2. PICK len \in Nat : len = Len(es)
  BY LenProperties
<1>3. PICK last \in Nat : last = prev + len
  OBVIOUS
<1>4. PICK old \in Seq(Entry), new \in Seq(Entry) : old = log[i] /\ new = log'[i]
  BY DEF TypeOK
<1>5. /\ currentTerm[i] <= T /\ currentTerm'[i] = T /\ state'[i] = Follower
      /\ \A j \in Server : j # i =>
            currentTerm'[j] = currentTerm[j] /\ state'[j] = state[j] /\ log'[j] = log[j]
      /\ prev <= Len(old) /\ new = Merge(old, prev, es)
  BY <1>1, <1>4 DEF AcceptStep, TypeOK
<1>6. prev > 0 => old[prev].term = m.prevLogTerm
  BY <1>1, <1>4 DEF AcceptStep, Conflicts
<1>7. /\ Len(new) >= last
      /\ \A k \in 1..prev : new[k] = old[k]
      /\ \A k \in (prev + 1)..last : new[k].term = es[k - prev].term
      /\ Len(new) = last \/ new = old
      /\ (last <= Len(old) /\ \A k \in (prev + 1)..last :
             old[k].term = es[k - prev].term) => new = old
  BY <1>2, <1>3, <1>5, MergeShape
<1>8. T > 0 /\ T = IF es = <<>> THEN m.prevLogTerm ELSE es[len].term
  BY <1>1, <1>2 DEF AcceptStep, CallShape
<1>9. last > 0 /\ new[last].term = T
  <2>1. CASE es = <<>>
    <3>1. last = prev
      BY <1>2, <1>3, <2>1, EmptySeq
    <3>2. prev # 0
      BY <1>1, <1>8, <2>1 DEF LogInv, NoTermBeforeFirst, AcceptStep
    <3>3. prev \in 1..prev
      BY <3>2
    <3> QED
      BY <1>6, <1>7, <1>8, <2>1, <3>1, <3>3
  <2>2. CASE es # <<>>
    <3>1. len # 0
      BY <1>2, <2>2, EmptySeq
    <3>2. last \in (prev + 1)..last /\ last - prev = len
      BY <1>3, <3>1
    <3> QED
      BY <1>7, <1>8, <2>2, <3>2
  <2> QED
    BY <2>1, <2>2
<1>10. Len(new) \in Nat /\ last <= Len(new)
  BY <1>7, LenProperties
<1>11. last = LastSent(m)
  BY <1>1, <1>2, <1>3 DEF LastSent
<1>12. (last <= Len(old) /\ \A k \in (prev + 1)..last : old[k].term = new[k].term) => new = old
  BY <1>7
<1>13. Accepted(m, i, prev, last, T, old, new)
  BY <1>1, <1>3, <1>4, <1>5, <1>6, <1>7, <1>9, <1>10, <1>11, <1>12 DEF Accepted
<1> QED
  BY <1>13

\* Accepting makes no new links.
LEMMA AcceptLinks ==
    ASSUME TypeOK, LogInv, NEW m \in calls, AcceptStep(m)
    PROVE  \A n \in Nat : \A e \in Entry : \A p \in Nat : Link(n, e, p)' => Link(n, e, p)
<1>1. /\ m.type = "AppendEntries" /\ m.prevLogIndex <= Len(log[m.to])
      /\ ~Conflicts(m.to, m.prevLogIndex, m.prevLogTerm)
      /\ log' = [log EXCEPT ![m.to] = Merge(@, m.prevLogIndex, m.entries)]
      /\ \A r \in calls' : r \in calls \/ r.type # "AppendEntries"
  BY DEF AcceptStep
<1> QED
  BY <1>1, MergeLinks

\* What accepting leaves in order: the terms of the merged log.
LEMMA AcceptRises ==
    ASSUME TypeOK, TypeOK', LogInv, NEW h, NEW b, HistoryInv(h, b), NEW m \in calls,
           AcceptStep(m)
    PROVE  Rising'
<1>1. PICK i \in Server, prev \in Nat, last \in Nat, T \in Nat, old \in Seq(Entry),
           new \in Seq(Entry) : Accepted(m, i, prev, last, T, old, new)
  BY AcceptIsAccepted DEF HistoryInv
<1>2. Len(old) \in Nat /\ Len(new) \in Nat /\ currentTerm[i] \in Nat
  BY LenProperties DEF TypeOK
<1>3. \A k \in 1..Len(old) : old[k].term \in Nat /\ old[k].term <= T
  <2>1. \A k \in 1..Len(old) : old[k].term \in Nat /\ old[k].term <= currentTerm[i]
    BY <1>1, LinkedLogs DEF Accepted, LogsLinked, HistoryInv, Rising
  <2>2. currentTerm[i] <= T
    BY <1>1 DEF Accepted
  <2> QED
    BY <1>2, <2>1, <2>2
<1>4. \A k \in 1..Len(new) : new[k].term <= T
  <2> SUFFICES ASSUME NEW k \in 1..Len(new) PROVE new[k].term <= T
    OBVIOUS
  <2>1. CASE new = old
    BY <1>3, <2>1
  <2>2. CASE Len(new) = last /\ k <= prev
    <3>1. new[k] = old[k] /\ k \in 1..Len(old)
      BY <1>1, <1>2, <2>2 DEF Accepted
    <3> QED
      BY <1>3, <3>1
  <2>3. CASE Len(new) = last /\ ~(k <= prev)
    <3>1. k \in (prev + 1)..last /\ k - prev \in 1..(last - prev)
      BY <1>2, <2>3
    <3>2. new[k].term = m.entries[k - prev].term
      BY <1>1, <3>1 DEF Accepted
    <3>3. Len(m.entries) = last - prev
      <4>1. m \in AppendEntriesArgs
        BY CallFields DEF AcceptStep
      <4>2. Len(m.entries) \in Nat
        BY <4>1, LenProperties DEF AppendEntriesArgs
      <4> QED
        BY <1>1, <4>2 DEF Accepted, LastSent
    <3>4. m.entries[k - prev].term <= T
      BY <1>1, <3>1, <3>3 DEF Accepted, HistoryInv, CallShape, AcceptStep
    <3> QED
      BY <3>2, <3>4
  <2> QED
    BY <1>1, <2>1, <2>2, <2>3 DEF Accepted
<1>5. ASSUME NEW j \in Server, NEW n \in 1..Len(log'[j])
      PROVE  log'[j][n].term <= currentTerm'[j]
  <2>1. CASE j = i
    BY <1>1, <1>4, <2>1 DEF Accepted
  <2>2. CASE j # i
    BY <1>1, <2>2 DEF Accepted, HistoryInv, Rising
  <2> QED
    BY <2>1, <2>2
<1>6. ASSUME NEW j \in Server, state'[j] # Follower
      PROVE  currentTerm'[j] > 0
  BY <1>1, <1>6 DEF Accepted, HistoryInv, Rising
<1>7. \A n \in Nat : \A e \in Entry : \A p \in Nat : Link(n, e, p)' => p <= e.term /\ e.term > 0
  BY AcceptLinks DEF HistoryInv, Rising
<1> QED
  BY <1>5, <1>6, <1>7 DEF Rising

\* Whatever older than its term is not dead is in the merged log.
LEMMA AcceptHoldsOlder ==
    ASSUME TypeOK, TypeOK', ElectionInv, LogInv, NEW h, NEW b, ReplInv(h, b),
           NEW m \in calls, AcceptStep(m), NEW n \in Nat, NEW t \in Nat, n > 0, t < m.term,
           ~Dead(h, n, t)
    PROVE  Contains(m.to, n, t)'
<1>h. HistoryInv(h, b) /\ KeptInv(h)
  BY DEF ReplInv
<1>1. PICK i \in Server, prev \in Nat, last \in Nat, T \in Nat, old \in Seq(Entry),
           new \in Seq(Entry) : Accepted(m, i, prev, last, T, old, new)
  BY <1>h, AcceptIsAccepted DEF HistoryInv
<1>2. Len(old) \in Nat /\ Len(new) \in Nat
  BY LenProperties
<1>3. Covers(m, n, t) /\ m.type = "AppendEntries"
  BY <1>h DEF KeptInv, CleanCalls, AcceptStep
<1>4. CASE n <= prev
  <2>1. prev \in 1..Len(old) /\ prev \in 1..Len(log[i]) /\ n \in 1..prev
    BY <1>1, <1>2, <1>4 DEF Accepted
  <2>2. t <= m.prevLogTerm /\ log[i][prev].term = m.prevLogTerm /\ m.prevLogTerm \in Nat
    <3>1. m \in AppendEntriesArgs
      BY <1>3, CallFields
    <3> QED
      BY <1>1, <1>3, <1>4, <2>1, <3>1 DEF Accepted, Covers, AppendEntriesArgs
  <2>3. Contains(i, n, t)
    <3>1. CASE t < log[i][prev].term
      BY <1>h, <2>1, <3>1 DEF KeptInv, CleanLogs
    <3>2. CASE t = log[i][prev].term
      <4>1. \E v \in Server : <<v, n, t>> \in h
        <5>1. Owned(m.term) /\ m.term \in Nat
          BY <1>3, CallFields DEF LogInv, TermsOwned
        <5> QED
          BY <5>1, NobodyHeldIsDead
      <4>2. b[t] <= n /\ Starts(b)
        BY <1>h, <4>1 DEF HistoryInv, HeldFromStart
      <4>3. Contains(i, prev, t)
        BY <2>1, <3>2 DEF Contains
      <4> QED
        BY <1>4, <4>2, <4>3, DescendingLogs DEF LogsDescend
    <3> QED
      BY <2>2, <3>1, <3>2
  <2>4. n \in 1..Len(new) /\ new[n] = old[n]
    BY <1>1, <1>2, <2>1 DEF Accepted
  <2> QED
    BY <1>1, <2>3, <2>4 DEF Contains, Accepted
<1>5. CASE ~(n <= prev)
  <2>1. n <= last /\ m.entries[n - prev].term = t
    BY <1>1, <1>3, <1>5 DEF Accepted, Covers
  <2>2. n \in (prev + 1)..last /\ n \in 1..Len(new)
    BY <1>1, <1>2, <1>5, <2>1, SMTT(20) DEF Accepted
  <2> QED
    BY <1>1, <2>1, <2>2 DEF Contains, Accepted
<1> QED
  BY <1>4, <1>5

\* An entry somebody held in its term, up to that of the call, and that is not
\* dead is in the merged log, if the call speaks of its index or it was in the
\* log before.
LEMMA AcceptHolds ==
    ASSUME TypeOK, TypeOK', ElectionInv, LogInv, NEW h, NEW b, ReplInv(h, b),
           NEW m \in calls, AcceptStep(m), NEW v \in Server, NEW n \in Nat, NEW t \in Nat,
           <<v, n, t>> \in h, t <= m.term, ~Dead(h, n, t),
           n <= LastSent(m) \/ Contains(m.to, n, t)
    PROVE  Contains(m.to, n, t)'
<1>h. HistoryInv(h, b) /\ History(h)
  BY DEF ReplInv, HistoryInv
<1>1. PICK i \in Server, prev \in Nat, last \in Nat, T \in Nat, old \in Seq(Entry),
           new \in Seq(Entry) : Accepted(m, i, prev, last, T, old, new)
  BY <1>h, AcceptIsAccepted DEF HistoryInv
<1>2. /\ Len(old) \in Nat /\ Len(new) \in Nat /\ n > 0
      /\ \A k \in 1..Len(old) : old[k] \in Entry
  BY <1>h, LenProperties, ElementOfSeq DEF History
<1>3. CASE t < T
  BY <1>1, <1>2, <1>3, AcceptHoldsOlder DEF Accepted
<1>4. CASE t = T
  <2>1. Starts(b)'
    BY <1>h, AcceptLinks, LinksStay DEF HistoryInv
  <2>2. b[T] \in Nat /\ b[T] <= n
    BY <1>4, <1>h DEF HistoryInv, HeldFromStart, Starts
  <2>3. Contains(i, last, T)'
    BY <1>1, <1>2 DEF Contains, Accepted
  <2>4. CASE n <= last
    <3>1. LogsDescend'
      BY DescendingLogs, PTL
    <3> QED
      BY <1>1, <1>4, <2>1, <2>2, <2>3, <2>4, <3>1 DEF LogsDescend, Accepted
  <2>5. CASE ~(n <= last)
    <3>1. Contains(i, n, T) /\ n \in 1..Len(old)
      BY <1>1, <1>4, <2>5 DEF Accepted, Contains
    <3>2. b[T] <= last
      <4>1. LogsLinked'
        BY LinkedLogs, PTL
      <4>2. last \in 1..Len(log'[i]) /\ log'[i][last].term = T
        BY <2>3 DEF Contains
      <4>3. PICK e \in Entry, p \in Nat : e = log'[i][last] /\ Link(last, e, p)'
        BY <4>1, <4>2 DEF LogsLinked
      <4> QED
        BY <2>1, <4>2, <4>3 DEF Starts
    <3>3. Contains(i, last, T)
      BY <1>h, <2>5, <3>1, <3>2, DescendingLogs DEF HistoryInv, LogsDescend
    <3>4. last <= Len(old) /\ old[last].term = new[last].term
      BY <1>1, <3>3 DEF Accepted, Contains
    <3>5. ASSUME NEW j \in (prev + 2)..last, old[j].term = new[j].term
          PROVE  old[j - 1].term = new[j - 1].term
      <4>1. /\ j \in Nat /\ j \in 1..Len(log[i]) /\ j \in 1..Len(log'[i]) /\ j - 1 # 0
            /\ log[i] = old /\ log'[i] = new
        BY <1>1, <1>2, <3>4, SMTT(20) DEF Accepted
      <4>2. PICK e \in Entry, p \in Nat : e = old[j] /\ p = TermAt(i, j - 1) /\ Link(j, e, p)
        BY <4>1, LinkedLogs DEF LogsLinked
      <4>3. LogsLinked'
        BY LinkedLogs, PTL
      <4>4. PICK f \in Entry, q \in Nat : f = new[j] /\ q = TermAt(i, j - 1)' /\ Link(j, f, q)'
        BY <4>1, <4>3 DEF LogsLinked
      <4>5. Link(j, f, q) /\ e.term = f.term
        BY <3>5, <4>1, <4>2, <4>4, AcceptLinks
      <4>6. p = q
        BY <4>1, <4>2, <4>5, SMTT(20) DEF LogInv, LinksAgree
      <4> QED
        BY <4>1, <4>2, <4>4, <4>6 DEF TermAt
    <3>6. \A j \in (prev + 1)..last : old[j].term = new[j].term
      <4> DEFINE S == {j \in Nat : old[j].term = new[j].term}
      <4>1. PICK k \in Nat : k = prev + 1 /\ k + 1 = prev + 2
        OBVIOUS
      <4>2. last \in S
        BY <3>4
      <4>3. \A j \in (k + 1)..last : j \in S => j - 1 \in S
        BY <3>5, <4>1
      <4> HIDE DEF S
      <4>4. \A j \in k..last : j \in S
        BY <4>2, <4>3, GoesBack
      <4> QED
        BY <4>1, <4>4 DEF S
    <3>7. new = old
      BY <1>1, <3>4, <3>6 DEF Accepted
    <3> QED
      BY <1>1, <1>4, <3>1, <3>7 DEF Contains, Accepted
  <2> QED
    BY <2>4, <2>5
<1>5. t < T \/ t = T
  BY <1>1 DEF Accepted
<1> QED
  BY <1>3, <1>4, <1>5

\* What a server committed is an entry.
LEMMA CommittedEntry ==
    ASSUME TypeOK, NEW n \in Nat, n > 0, n <= Len(committed)
    PROVE  /\ Len(committed) \in Nat /\ n \in 1..Len(committed)
           /\ committed[n] \in Entry /\ committed[n].term \in Nat
<1>1. committed \in Seq(Entry) /\ Len(committed) \in Nat
  BY LenProperties DEF TypeOK
<1>2. n \in 1..Len(committed)
  BY <1>1
<1>3. committed[n] \in Entry
  BY <1>1, <1>2, ElementOfSeq
<1> QED
  BY <1>1, <1>2, <1>3 DEF Entry

\* handle_append_entries, where it accepts, keeps the invariant.
LEMMA AcceptKeeps ==
    ASSUME TypeOK, TypeOK', ElectionInv, ElectionInv', LogInv, LogInv', [Next]_vars,
           NEW h, NEW g, NEW b, Grows(h, g), ReplInv(h, b), NEW m \in calls, AcceptStep(m)
    PROVE  ReplInv(g, b)'
<1>h. HistoryInv(h, b) /\ KeptInv(h) /\ CommitInv(h)
  BY DEF ReplInv
<1>1. PICK i \in Server, prev \in Nat, last \in Nat, T \in Nat, old \in Seq(Entry),
           new \in Seq(Entry) : Accepted(m, i, prev, last, T, old, new)
  BY <1>h, AcceptIsAccepted DEF HistoryInv
<1>2. /\ i = m.to /\ T = m.term /\ last = LastSent(m) /\ old = log[i] /\ new = log'[i]
      /\ currentTerm'[i] = T /\ currentTerm[i] <= T /\ state'[i] = Follower
      /\ Len(new) = last \/ new = old
      /\ last > 0 /\ last <= Len(new) /\ new[last].term = T
      /\ \A j \in Server : j # i =>
            currentTerm'[j] = currentTerm[j] /\ state'[j] = state[j] /\ log'[j] = log[j]
  BY <1>1 DEF Accepted
<1>3. /\ Len(old) \in Nat /\ Len(new) \in Nat /\ currentTerm[i] \in Nat
      /\ \A k \in 1..Len(new) : new[k].term \in Nat
  <2>1. \A k \in 1..Len(new) : new[k] \in Entry
    BY ElementOfSeq
  <2> QED
    BY <2>1, LenProperties DEF TypeOK, Entry
<1>4. /\ \A r \in calls' : r.type = "AppendEntries" => r \in calls
      /\ \A r \in calls' : r \in calls \/ (r.from = i /\ r.to = m.from /\ r.newMatch = last
                                             /\ r.term = T)
      /\ matchIndex' = matchIndex /\ committed' = committed
  BY <1>2 DEF AcceptStep
<1>5. \A n \in Nat : \A e \in Entry : \A p \in Nat : Link(n, e, p)' => Link(n, e, p)
  BY AcceptLinks
<1>6. /\ \A n, t \in Nat : Dead(h, n, t) => Dead(g, n, t)'
      /\ \A n, t : Chosen(h, n, t) => Chosen(g, n, t)'
  <2>1. \A n, t \in Nat : Dead(h, n, t) => Dead(g, n, t)'
    BY DeadStays
  <2>2. \A n, t : Chosen(h, n, t) => Chosen(g, n, t)
    BY ChosenStays DEF Grows
  <2>3. \A n, t : Chosen(g, n, t)' <=> Chosen(g, n, t)
    BY DEF Chosen
  <2> QED
    BY <2>1, <2>2, <2>3
<1>7. h \subseteq g /\ Now' \subseteq g
  BY DEF Grows
<1>8. \A j \in Server : state'[j] = Leader => j # i
  BY <1>2 DEF Follower, Leader
<1>9. <<i, last, T>> \in g /\ <<m.from, last, T>> \in g
  <2>1. Contains(i, last, T)'
    BY <1>2, <1>3 DEF Contains
  <2>2. <<i, last, T>> \in Now'
    BY <1>2, <2>1 DEF Now
  <2>3. <<m.from, last, T>> \in h
    BY <1>2, <1>h DEF HistoryInv, CallShape, AcceptStep
  <2> QED
    BY <1>7, <2>2, <2>3
<1>10. \A j \in Server : j # i => \A n, t : Contains(j, n, t)' <=> Contains(j, n, t)
  BY <1>2 DEF Contains
<1>11. HistoryInv(g, b)'
  <2>1. History(g)'
    BY <1>h, HistoryGrows DEF HistoryInv
  <2>2. Rising'
    BY <1>h, AcceptRises
  <2>3. Starts(b)' /\ LinksHeld(g)'
    BY <1>5, <1>7, <1>h, LinksStay DEF HistoryInv
  <2>4. HeldFromStart(g, b)'
    <3>1. HeldFromStart(g, b)
      BY <1>h, <2>3, HeldFromStartGrows DEF HistoryInv
    <3> QED
      BY <3>1 DEF HeldFromStart
  <2>5. CallShape(g)'
    BY <1>4, <1>7, <1>h DEF HistoryInv, CallShape, LastSent
  <2>6. LeaderLast'
    BY <1>2, <1>8, <1>h DEF HistoryInv, LeaderLast, Contains
  <2>7. LeaderTop(g)'
    <3>1. \A j, v \in Server : \A n \in Nat :
              state'[j] = Leader /\ <<v, n, currentTerm'[j]>> \in h => n <= Len(log'[j])
      BY <1>2, <1>8, <1>h DEF HistoryInv, LeaderTop
    <3> QED
      BY <3>1, LeaderTopGrows
  <2> QED
    BY <2>1, <2>2, <2>3, <2>4, <2>5, <2>6, <2>7 DEF HistoryInv
<1>12. ASSUME NEW v \in Server, NEW n \in Nat, NEW t \in Nat, <<v, n, t>> \in h, t <= T,
              ~Dead(h, n, t), n <= last \/ Contains(i, n, t)
       PROVE  Contains(i, n, t)'
  BY <1>2, <1>12, AcceptHolds
<1>13. KeptInv(g)'
  <2>1. Kept(g)'
    <3>1. ASSUME NEW v \in Server, NEW n \in Nat, NEW t \in Nat, <<v, n, t>> \in h,
                 ~Dead(h, n, t), Contains(v, n, t)
          PROVE  Contains(v, n, t)'
      <4>1. CASE v = i
        <5>1. t <= currentTerm[i]
          BY <1>h, <3>1, <4>1 DEF HistoryInv, History
        <5>2. t <= T
          BY <1>2, <1>3, <5>1
        <5> QED
          BY <1>12, <3>1, <4>1, <5>2
      <4>2. CASE v # i
        BY <1>10, <3>1, <4>2
      <4> QED
        BY <4>1, <4>2
    <3> QED
      BY <1>h, <3>1, KeptGrows DEF HistoryInv, KeptInv
  <2>2. CleanLogs(g)'
    <3> SUFFICES ASSUME NEW j \in Server, NEW k \in 1..Len(log'[j]), NEW n \in Nat,
                        NEW t \in Nat, n > 0, t < log'[j][k].term
                 PROVE  Dead(g, n, t)' \/ Contains(j, n, t)'
      BY DEF CleanLogs
    <3>1. CASE j # i
      <4>1. log'[j] = log[j]
        BY <1>2, <3>1
      <4>2. Dead(h, n, t) \/ Contains(j, n, t)
        BY <1>h, <4>1 DEF KeptInv, CleanLogs
      <4> QED
        BY <1>6, <1>10, <3>1, <4>2
    <3>2. CASE j = i /\ new = old
      <4>1. log'[i] = log[i]
        BY <1>2, <3>2
      <4>2. Dead(h, n, t) \/ Contains(i, n, t)
        BY <1>h, <3>2, <4>1 DEF KeptInv, CleanLogs
      <4> QED
        BY <1>6, <3>2, <4>1, <4>2 DEF Contains
    <3>3. CASE j = i /\ Len(new) = last
      <4>1. LogsSorted'
        BY <1>11, SortedLogs, PTL DEF HistoryInv
      <4>2. k \in 1..last /\ last \in 1..Len(log'[i]) /\ k <= last /\ k \in 1..Len(log'[i])
        BY <1>2, <1>3, <3>3
      <4>3. new[k].term <= T
        BY <1>2, <4>1, <4>2 DEF LogsSorted
      <4>4. new[k].term \in Nat /\ t < new[k].term
        BY <1>2, <1>3, <3>3, <4>2
      <4>5. t < T
        BY <4>3, <4>4
      <4>6. ~Dead(h, n, t) => Contains(i, n, t)'
        BY <1>2, <4>5, AcceptHoldsOlder
      <4> QED
        BY <1>6, <3>3, <4>6
    <3> QED
      BY <1>2, <3>1, <3>2, <3>3
  <2>3. \A r, n, t : Covers(r, n, t)' <=> Covers(r, n, t)
    BY DEF Covers, LastSent
  <2>4. CleanCalls(g)'
    BY <1>4, <1>6, <1>h, <2>3 DEF KeptInv, CleanCalls
  <2> QED
    BY <2>1, <2>2, <2>4 DEF KeptInv
<1>14. CommitInv(g)'
  <2>1. RepliesHeld(g)'
    BY <1>4, <1>7, <1>9, <1>h DEF CommitInv, RepliesHeld
  <2>2. Matches(g)'
    BY <1>2, <1>4, <1>7, <1>8, <1>h DEF CommitInv, Matches
  <2>3. CommittedHeld(g)'
    BY <1>4, <1>5, <1>7, <1>h, LinksStay DEF CommitInv
  <2>4. CommittedChosen(g)'
    BY <1>4, <1>6, <1>h DEF CommitInv, CommittedChosen
  <2>5. CommitKnown(g)'
    <3> SUFFICES ASSUME NEW j \in Server, NEW c \in Nat, c = commitIndex'[j], c > 0
                 PROVE  c <= Len(committed) /\ Chosen(g, c, committed[c].term)'
                        /\ Contains(j, c, committed[c].term)'
      BY <1>4 DEF CommitKnown, TypeOK
    <3>1. CASE c = commitIndex[j]
      <4>1. /\ c <= Len(committed) /\ Chosen(h, c, committed[c].term)
            /\ Contains(j, c, committed[c].term)
        BY <1>h, <3>1 DEF CommitInv, CommitKnown
      <4>2. PICK t \in Nat : t = committed[c].term
        BY <4>1, CommittedEntry
      <4>3. Contains(j, c, t)'
        <5>1. CASE j # i
          BY <1>10, <4>1, <4>2, <5>1
        <5>2. CASE j = i
          <6>1. ~Dead(h, c, t) /\ \E v \in Server : <<v, c, t>> \in h
            BY <4>1, <4>2, ChosenIsNotDead, ChosenIsHeld
          <6>2. t <= currentTerm[i]
            BY <1>h, <4>1, <4>2, <5>2 DEF Contains, HistoryInv, Rising
          <6>3. t <= T
            BY <1>2, <1>3, <6>2
          <6> QED
            BY <1>12, <4>1, <4>2, <5>2, <6>1, <6>3
        <5> QED
          BY <5>1, <5>2
      <4>4. Chosen(g, c, t)'
        BY <1>6, <4>1, <4>2
      <4> QED
        BY <1>4, <4>1, <4>2, <4>3, <4>4
    <3>2. CASE j = i /\ c = m.leaderCommit
      <4>1. /\ c <= Len(committed) /\ c <= last /\ Chosen(h, c, committed[c].term)
            /\ committed[c].term <= T
        BY <1>2, <1>h, <3>2 DEF CommitInv, CommitSent, AcceptStep
      <4>2. PICK t \in Nat : t = committed[c].term
        BY <4>1, CommittedEntry
      <4>3. ~Dead(h, c, t) /\ \E v \in Server : <<v, c, t>> \in h
        BY <4>1, <4>2, ChosenIsNotDead, ChosenIsHeld
      <4>4. Contains(i, c, t)'
        BY <1>12, <4>1, <4>2, <4>3
      <4>5. Chosen(g, c, t)'
        BY <1>6, <4>1, <4>2
      <4> QED
        BY <1>4, <3>2, <4>1, <4>2, <4>4, <4>5
    <3>3. c = commitIndex[j] \/ (j = i /\ c = m.leaderCommit)
      <4>1. CASE j # i
        BY <1>2, <4>1 DEF AcceptStep, TypeOK
      <4>2. CASE j = i
        <5>1. c = IF m.leaderCommit > commitIndex[i]
                  THEN IF m.leaderCommit <= Len(new) THEN m.leaderCommit ELSE Len(new)
                  ELSE commitIndex[i]
          BY <1>2, <4>2 DEF AcceptStep, TypeOK
        <5>2. CASE m.leaderCommit > commitIndex[i]
          <6>1. m.leaderCommit \in Nat /\ commitIndex[i] \in Nat
            <7>1. m \in AppendEntriesArgs
              BY CallFields DEF AcceptStep
            <7>2. commitIndex[i] \in Nat
              BY DEF TypeOK
            <7> QED
              BY <7>1, <7>2 DEF AppendEntriesArgs
          <6>2. m.leaderCommit <= last
            BY <1>2, <1>h, <5>2, <6>1 DEF CommitInv, CommitSent, AcceptStep
          <6>3. m.leaderCommit <= Len(new)
            BY <1>2, <1>3, <6>1, <6>2
          <6> QED
            BY <4>2, <5>1, <5>2, <6>3
        <5> QED
          BY <4>2, <5>1, <5>2
      <4> QED
        BY <4>1, <4>2
    <3> QED
      BY <3>1, <3>2, <3>3
  <2>6. CommitSent(g)'
    BY <1>4, <1>6, <1>h DEF CommitInv, CommitSent, LastSent
  <2> QED
    BY <2>1, <2>2, <2>3, <2>4, <2>5, <2>6 DEF CommitInv
<1> QED
  BY <1>11, <1>13, <1>14 DEF ReplInv

-----------------------------------------------------------------------------
(* Counting and committing                                                 *)

\* No reply of success to a call of an earlier term reaches a server that leads
\* again without having been restarted
Timely ==
    \A m \in calls : Success(m) /\ m.inc = incarnation[m.to] /\ state[m.to] = Leader =>
        m.term >= currentTerm[m.to]

\* Two servers are a majority, or no reply is that late
SmallOrTimely == Cardinality(Server) <= 3 \/ Timely

\* A log that holds the term of a committed entry agrees with everything
\* committed up to it.
LEMMA ChainsMatch ==
    ASSUME TypeOK, NEW h, CommittedHeld(h), NEW j \in Server, NEW c \in Nat, c > 0,
           c <= Len(committed), Contains(j, c, committed[c].term)
    PROVE  \A x \in 1..c : log[j][x] = committed[x]
<1>1. /\ Len(committed) \in Nat /\ Len(log[j]) \in Nat /\ c <= Len(log[j])
      /\ log[j][c].term = committed[c].term
  BY LenProperties DEF TypeOK, Contains
<1>2. ASSUME NEW x \in 1..c, log[j][x].term = committed[x].term
      PROVE  /\ log[j][x] = committed[x]
             /\ x # 1 => log[j][x - 1].term = committed[x - 1].term
  <2>1. /\ x \in Nat /\ x > 0 /\ x <= Len(committed) /\ x \in 1..Len(log[j])
        /\ x \in 1..Len(committed)
    BY <1>1
  <2>2. PICK e \in Entry : e = committed[x]
    BY <2>1, CommittedEntry
  <2>3. PICK p \in Nat : p = IF x = 1 THEN 0 ELSE committed[x - 1].term
    <3>1. CASE x = 1
      BY <3>1
    <3>2. CASE x # 1
      <4>1. x - 1 \in Nat /\ x - 1 > 0 /\ x - 1 <= Len(committed)
        BY <1>1, <2>1, <3>2
      <4> QED
        BY <3>2, <4>1, CommittedEntry
    <3> QED
      BY <3>1, <3>2
  <2>4. CommittedLink(x, e, p)
    BY <2>1, <2>2, <2>3 DEF CommittedLink
  <2>5. PICK f \in Entry, q \in Nat : f = log[j][x] /\ q = TermAt(j, x - 1) /\ Link(x, f, q)
    BY <2>1, LinkedLogs DEF LogsLinked
  <2>6. e = f /\ p = q
    BY <1>2, <2>1, <2>2, <2>4, <2>5 DEF CommittedHeld
  <2>7. x # 1 => x - 1 # 0
    BY <2>1
  <2> QED
    BY <2>2, <2>3, <2>5, <2>6, <2>7 DEF TermAt
<1> DEFINE S == {x \in Nat : log[j][x].term = committed[x].term}
<1>3. PICK one \in Nat : one = 1
  OBVIOUS
<1>4. c \in S /\ \A x \in (one + 1)..c : x \in S => x - 1 \in S
  BY <1>1, <1>2, <1>3
<1> HIDE DEF S
<1>5. \A x \in one..c : x \in S
  BY <1>4, GoesBack
<1> QED
  BY <1>2, <1>3, <1>5 DEF S

\* A leader has everything committed in its own or an earlier term.
LEMMA LeaderHasCommitted ==
    ASSUME TypeOK, NEW h, NEW b, ReplInv(h, b), NEW i \in Server, state[i] = Leader,
           committed # <<>>, committed[Len(committed)].term <= currentTerm[i]
    PROVE  /\ Len(committed) <= Len(log[i])
           /\ \A x \in 1..Len(committed) : log[i][x] = committed[x]
<1>h. HistoryInv(h, b) /\ KeptInv(h) /\ CommitInv(h)
  BY DEF ReplInv
<1>1. PICK n \in Nat, top \in Nat : n = Len(committed) /\ top = Len(log[i])
  BY LenProperties DEF TypeOK
<1>2. n > 0
  BY <1>1, EmptySeq DEF TypeOK
<1>3. PICK t \in Nat, T \in Nat : t = committed[n].term /\ T = currentTerm[i]
  BY <1>1, <1>2, CommittedEntry DEF TypeOK
<1>4. Chosen(h, n, t) /\ ~Dead(h, n, t) /\ \E v \in Server : <<v, n, t>> \in h
  <2>1. Chosen(h, n, t)
    BY <1>1, <1>3, <1>h DEF CommitInv, CommittedChosen
  <2> QED
    BY <2>1, ChosenIsNotDead, ChosenIsHeld
<1>5. Contains(i, top, T) /\ top \in 1..Len(log[i]) /\ log[i][top].term = T
  BY <1>1, <1>3, <1>h DEF HistoryInv, LeaderLast, Contains
<1>6. CASE t < T
  <2>1. Contains(i, n, t)
    BY <1>2, <1>4, <1>5, <1>6, <1>h DEF KeptInv, CleanLogs
  <2>2. n <= Len(log[i])
    BY <1>1, <2>1 DEF Contains
  <2>3. \A x \in 1..n : log[i][x] = committed[x]
    BY <1>1, <1>2, <1>3, <1>h, <2>1, ChainsMatch DEF CommitInv
  <2> QED
    BY <1>1, <2>2, <2>3
<1>7. CASE t = T
  <2>1. n <= top /\ b[T] <= n /\ Starts(b)
    BY <1>1, <1>3, <1>4, <1>7, <1>h DEF HistoryInv, LeaderTop, HeldFromStart
  <2>2. Contains(i, n, t)
    BY <1>5, <1>7, <2>1, DescendingLogs DEF LogsDescend
  <2>3. \A x \in 1..n : log[i][x] = committed[x]
    BY <1>1, <1>2, <1>3, <1>h, <2>2, ChainsMatch DEF CommitInv
  <2> QED
    BY <1>1, <2>1, <2>3
<1> QED
  BY <1>1, <1>3, <1>6, <1>7

\* What a leader finds chosen in its term agrees with what is committed, even if
\* a later leader, which this one has not heard of, committed more.
LEMMA ChosenAgrees ==
    ASSUME TypeOK, NEW h, NEW b, ReplInv(h, b), NEW i \in Server, state[i] = Leader,
           NEW top \in Nat, Contains(i, top, currentTerm[i]), Chosen(h, top, currentTerm[i])
    PROVE  \A x \in 1..Len(committed) : x <= top => log[i][x] = committed[x]
<1>h. HistoryInv(h, b) /\ KeptInv(h) /\ CommitInv(h)
  BY DEF ReplInv
<1>1. PICK n \in Nat : n = Len(committed)
  BY LenProperties DEF TypeOK
<1>2. CASE n = 0
  BY <1>1, <1>2
<1>3. CASE n # 0
  <2>0. n > 0 /\ n <= Len(committed) /\ committed # <<>>
    BY <1>1, <1>3, EmptySeq
  <2>1. PICK t \in Nat, T \in Nat : t = committed[n].term /\ T = currentTerm[i]
    <3>1. committed[n].term \in Nat
      BY <2>0, CommittedEntry
    <3> QED
      BY <3>1 DEF TypeOK
  <2>2. CASE t <= T
    BY <1>1, <2>0, <2>1, <2>2, LeaderHasCommitted
  <2>3. CASE T < t
    <3>1. Chosen(h, n, t)
      BY <1>1, <1>h, <2>0, <2>1 DEF CommitInv, CommittedChosen
    <3>2. ~Dead(h, n, t) /\ ~Dead(h, top, T)
      BY <2>1, <3>1, ChosenIsNotDead
    <3>3. PICK v \in Server : <<v, n, t>> \in h
      BY <3>1, ChosenIsHeld
    <3>4. Contains(v, n, t)
      BY <1>h, <3>2, <3>3 DEF KeptInv, Kept
    <3>5. top > 0 /\ top \in 1..Len(log[i]) /\ log[i][top].term = T
      BY <2>1 DEF Contains
    <3>6. Contains(v, top, T)
      BY <1>h, <2>3, <3>2, <3>4, <3>5 DEF KeptInv, CleanLogs, Contains
    <3>7. top <= n
      <4> SUFFICES ASSUME n < top PROVE FALSE
        OBVIOUS
      <4>1. LogsSorted
        BY <1>h, SortedLogs DEF HistoryInv
      <4>2. t <= T
        BY <3>4, <3>6, <4>1 DEF Contains, LogsSorted
      <4> QED
        BY <2>3, <4>2
    <3>8. \A x \in 1..n : log[v][x] = committed[x]
      BY <1>1, <1>h, <2>0, <2>1, <3>4, ChainsMatch DEF CommitInv
    <3>9. committed[top].term = T
      BY <3>5, <3>6, <3>7, <3>8 DEF Contains
    <3>10. \A x \in 1..top : log[i][x] = committed[x]
      BY <1>1, <1>h, <2>1, <3>5, <3>7, <3>9, ChainsMatch DEF CommitInv
    <3> QED
      BY <1>1, <3>10
  <2> QED
    BY <2>2, <2>3
<1> QED
  BY <1>2, <1>3

\* Two servers of three are a majority.
LEMMA TwoAreMajority ==
    ASSUME Cardinality(Server) <= 3, NEW i \in Server, NEW p \in Server, i # p
    PROVE  {i, p} \in SUBSET Server /\ Cardinality({i, p}) >= Majority
<1>1. Cardinality(Server) \in Nat
  BY ServerAssumption, FS_CardinalityType
<1>2. Cardinality({i, p}) = 2
  <2>1. Cardinality({i}) = 1 /\ IsFiniteSet({i})
    BY FS_Singleton
  <2>2. Cardinality({i} \cup {p}) = Cardinality({i}) + 1
    BY <2>1, FS_AddElement
  <2>3. {i} \cup {p} = {i, p}
    OBVIOUS
  <2> QED
    BY <2>1, <2>2, <2>3
<1>3. Cardinality(Server) \div 2 + 1 <= 2
  BY <1>1
<1> QED
  BY <1>2, <1>3 DEF Majority

\* _advance_commit_index: nothing, or an index of the own term that a majority
\* matches.
LEMMA AdvanceIs ==
    ASSUME TypeOK, NEW i \in Server, NEW match, AdvanceCommitIndex(i, match)
    PROVE  \/ UNCHANGED <<commitIndex, committed>>
           \/ \E top \in Nat :
                /\ Contains(i, top, currentTerm[i])
                /\ top > commitIndex[i]
                /\ Cardinality({p \in Server : match[p] >= top}) >= Majority
                /\ commitIndex' = [commitIndex EXCEPT ![i] = top]
                /\ committed' = IF top > Len(committed) THEN Prefix(log[i], top)
                                                        ELSE committed
<1> DEFINE S == Committable(i, match)
           top == CHOOSE idx \in S : \A k \in S : k <= idx
<1>1. log[i] \in Seq(Entry) /\ Len(log[i]) \in Nat /\ commitIndex[i] \in Nat
  BY LenProperties DEF TypeOK
<1>2. CASE S = {}
  BY <1>2 DEF AdvanceCommitIndex, TypeOK
<1>3. CASE S # {}
  <2>1. S \in SUBSET (0..Len(log[i])) /\ S \subseteq 1..Len(log[i])
    BY <1>1 DEF Committable, LastLogIndex
  <2>2. \E idx \in S : \A k \in S : k <= idx
    <3> HIDE DEF S
    <3> QED
      BY <1>1, <1>3, <2>1, GreatestElement
  <2>3. top \in S
    <3> HIDE DEF S
    <3> QED
      BY <2>2
  <2>4. /\ commitIndex' = [commitIndex EXCEPT ![i] = top]
        /\ committed' = IF top > Len(committed) THEN Prefix(log[i], top) ELSE committed
    BY <1>3 DEF AdvanceCommitIndex
  <2> HIDE DEF top
  <2>5. /\ top \in 1..Len(log[i]) /\ log[i][top].term = currentTerm[i]
        /\ top \in (commitIndex[i] + 1)..Len(log[i])
        /\ Cardinality({p \in Server : match[p] >= top}) >= Majority
    BY <2>1, <2>3 DEF Committable, LastLogIndex
  <2>6. top \in Nat /\ top > commitIndex[i]
    BY <1>1, <2>5
  <2> QED
    BY <2>4, <2>5, <2>6 DEF Contains
<1> QED
  BY <1>2, <1>3

\* What the counted reply says is held by its sender and its receiver; it
\* matches the leader's log even if it answers a call of an earlier term.
LEMMA CountedReply ==
    ASSUME TypeOK, ElectionInv, SmallOrTimely, NEW h, NEW b, ReplInv(h, b),
           NEW m \in calls, CountStep(m), NEW k \in Nat, k = m.newMatch, k > 0
    PROVE  /\ k <= Len(log[m.to])
           /\ log[m.to][k].term = currentTerm[m.to] => <<m.from, k, currentTerm[m.to]>> \in h
<1>h. HistoryInv(h, b) /\ KeptInv(h) /\ CommitInv(h)
  BY DEF ReplInv
<1>1. PICK i \in Server, p \in Server, u \in Nat, T \in Nat :
          i = m.to /\ p = m.from /\ u = m.term /\ T = currentTerm[i]
  <2>1. m.to \in Server /\ m.from \in Server /\ m.term \in Nat
    BY CallFields
  <2>2. currentTerm[m.to] \in Nat
    BY <2>1 DEF TypeOK
  <2> QED
    BY <2>1, <2>2
<1>2. state[i] = Leader /\ u <= T /\ Success(m) /\ m.inc = incarnation[i]
  BY <1>1 DEF CountStep
<1>3. <<p, k, u>> \in h /\ <<i, k, u>> \in h
  BY <1>1, <1>2, <1>h DEF CommitInv, RepliesHeld, Success
<1>4. CASE u = T
  <2>1. k <= Len(log[i])
    BY <1>1, <1>2, <1>3, <1>4, <1>h DEF HistoryInv, LeaderTop
  <2> QED
    BY <1>1, <1>3, <1>4, <2>1
<1>5. CASE u < T
  <2>1. Cardinality(Server) <= 3
    BY <1>1, <1>2, <1>5 DEF SmallOrTimely, Timely
  <2>2. i # p
    BY <1>1 DEF ElectionInv, NoSelfCalls
  <2>3. Chosen(h, k, u)
    <3>1. {i, p} \in SUBSET Server /\ Cardinality({i, p}) >= Majority
      BY <2>1, <2>2, TwoAreMajority
    <3> QED
      BY <1>3, <3>1 DEF Chosen
  <2>4. Len(log[i]) \in 1..Len(log[i]) /\ log[i][Len(log[i])].term = T
    BY <1>1, <1>2, <1>h DEF HistoryInv, LeaderLast, Contains
  <2>5. Contains(i, k, u)
    BY <1>5, <1>h, <2>3, <2>4, ChosenIsNotDead DEF KeptInv, CleanLogs
  <2> QED
    BY <1>1, <1>5, <2>5 DEF Contains
<1> QED
  BY <1>2, <1>4, <1>5

\* What a majority matches is chosen.
LEMMA MatchedIsChosen ==
    ASSUME TypeOK, NEW h, NEW b, HistoryInv(h, b), NEW i \in Server, NEW T \in Nat,
           T = currentTerm[i], NEW match \in [Server -> Nat],
           \A p \in Server : \A k \in Nat : match[p] = k /\ k > 0 =>
               k <= Len(log[i]) /\ (log[i][k].term = T => <<p, k, T>> \in h),
           NEW top \in Nat, Contains(i, top, T),
           Cardinality({p \in Server : match[p] >= top}) >= Majority
    PROVE  Chosen(h, top, T)
<1> DEFINE Q == {p \in Server : match[p] >= top}
<1>1. top \in 1..Len(log[i]) /\ log[i][top].term = T /\ Len(log[i]) \in Nat
  BY LenProperties DEF Contains, TypeOK
<1>2. b[T] <= top /\ b[T] \in Nat
  <2>1. PICK e \in Entry, p \in Nat : e = log[i][top] /\ Link(top, e, p)
    BY <1>1, LinkedLogs DEF LogsLinked
  <2> QED
    BY <1>1, <2>1 DEF HistoryInv, Starts
<1>3. ASSUME NEW p \in Q
      PROVE  <<p, top, T>> \in h
  <2>1. PICK k \in Nat : k = match[p] /\ k >= top /\ k > 0 /\ p \in Server
    BY <1>1
  <2>0. k <= Len(log[i]) /\ (log[i][k].term = T => <<p, k, T>> \in h)
    BY <2>1
  <2>2. k \in 1..Len(log[i])
    BY <1>1, <2>0, <2>1
  <2>3. log[i][k].term \in Nat /\ log[i][k].term <= T
    BY <2>2, LinkedLogs DEF LogsLinked, HistoryInv, Rising
  <2>4. T <= log[i][k].term
    <3>1. LogsSorted
      BY SortedLogs DEF HistoryInv
    <3> QED
      BY <1>1, <2>1, <2>2, <3>1 DEF LogsSorted
  <2>5. log[i][k].term = T
    BY <2>3, <2>4
  <2>6. <<p, k, T>> \in h
    BY <2>0, <2>5
  <2>7. top \in b[T]..k
    BY <1>1, <1>2, <2>1
  <2> QED
    BY <2>1, <2>6, <2>7 DEF HistoryInv, HeldFromStart
<1> HIDE DEF Q
<1>4. Q \in SUBSET Server /\ Cardinality(Q) >= Majority
  BY DEF Q
<1> QED
  BY <1>3, <1>4 DEF Chosen

\* Counting a reply keeps what is said of the logs.
LEMMA CountKeepsLogs ==
    ASSUME TypeOK, TypeOK', ElectionInv, ElectionInv', LogInv', [Next]_vars,
           NEW h, NEW g, NEW b, Grows(h, g), ReplInv(h, b), NEW m \in calls, CountStep(m)
    PROVE  /\ g = h
           /\ HistoryInv(h, b)' /\ KeptInv(h)'
           /\ RepliesHeld(h)'
           /\ \A n \in Nat : \A e \in Entry : \A p \in Nat : Link(n, e, p)' => Link(n, e, p)
<1>s. calls' \subseteq calls /\ log' = log /\ state' = state /\ currentTerm' = currentTerm
  BY DEF CountStep
<1>h. HistoryInv(h, b) /\ KeptInv(h) /\ CommitInv(h)
  BY DEF ReplInv
<1>1. g = h
  BY <1>h, <1>s, NothingNewHeld DEF HistoryInv
<1>3. \A n \in Nat : \A e \in Entry : \A p \in Nat : Link(n, e, p)' => Link(n, e, p)
  BY <1>s, KeptLinks
<1>6. /\ \A n, t : Dead(h, n, t)' <=> Dead(h, n, t)
      /\ \A j \in Server : \A n, t : Contains(j, n, t)' <=> Contains(j, n, t)
      /\ \A r, n, t : Covers(r, n, t)' <=> Covers(r, n, t)
      /\ \A r : LastSent(r)' = LastSent(r)
  BY <1>s DEF Dead, Contains, Covers, LastSent
<1>7. HistoryInv(h, b)'
  <2>1. History(h)'
    BY <1>1, <1>h, HistoryGrows DEF HistoryInv
  <2>2. Rising'
    BY <1>3, <1>h, <1>s, LinksStay DEF HistoryInv, Rising
  <2>3. Starts(b)' /\ LinksHeld(h)'
    BY <1>3, <1>h, LinksStay DEF HistoryInv
  <2>4. HeldFromStart(h, b)'
    BY <1>h DEF HistoryInv, HeldFromStart
  <2>5. CallShape(h)'
    BY <1>6, <1>h, <1>s DEF HistoryInv, CallShape
  <2>6. LeaderLast'
    BY <1>6, <1>h, <1>s DEF HistoryInv, LeaderLast
  <2>7. LeaderTop(h)'
    BY <1>h, <1>s DEF HistoryInv, LeaderTop
  <2> QED
    BY <2>1, <2>2, <2>3, <2>4, <2>5, <2>6, <2>7 DEF HistoryInv
<1>8. KeptInv(h)'
  <2>1. Kept(h)'
    BY <1>6, <1>h DEF KeptInv, Kept
  <2>2. CleanLogs(h)'
    BY <1>6, <1>h, <1>s DEF KeptInv, CleanLogs
  <2>3. CleanCalls(h)'
    BY <1>6, <1>h, <1>s DEF KeptInv, CleanCalls
  <2> QED
    BY <2>1, <2>2, <2>3 DEF KeptInv
<1>9. RepliesHeld(h)'
  BY <1>h, <1>s DEF CommitInv, RepliesHeld
<1> QED
  BY <1>1, <1>3, <1>7, <1>8, <1>9

\* A leader's match_index after a reply was counted.
LEMMA CountKeepsMatches ==
    ASSUME TypeOK, TypeOK', ElectionInv, SmallOrTimely, NEW h, NEW b, ReplInv(h, b),
           NEW m \in calls, CountStep(m)
    PROVE  Matches(h)'
<1>h. CommitInv(h)
  BY DEF ReplInv
<1>1. PICK i \in Server, p \in Server : i = m.to /\ p = m.from
  BY CallFields
<1>2. log' = log /\ state' = state /\ currentTerm' = currentTerm
  BY DEF CountStep
<1>3. /\ \A j \in Server : j # i => matchIndex'[j] = matchIndex[j]
      /\ \A q \in Server : q # p => matchIndex'[i][q] = matchIndex[i][q]
      /\ matchIndex'[i][p] = matchIndex[i][p] \/ matchIndex'[i][p] = m.newMatch
  <2>1. /\ matchIndex \in [Server -> [Server -> Nat]]
        /\ matchIndex' = [matchIndex EXCEPT ![i] =
             IF m.newMatch > matchIndex[i][p]
             THEN [matchIndex[i] EXCEPT ![p] = m.newMatch] ELSE matchIndex[i]]
    BY <1>1 DEF CountStep, TypeOK
  <2>2. CASE m.newMatch > matchIndex[i][p]
    BY <2>1, <2>2
  <2>3. CASE ~(m.newMatch > matchIndex[i][p])
    BY <2>1, <2>3
  <2> QED
    BY <2>2, <2>3
<1>6. matchIndex' \in [Server -> [Server -> Nat]]
  BY DEF TypeOK
<1> SUFFICES ASSUME NEW j \in Server, NEW q \in Server, state[j] = Leader,
                    NEW k \in Nat, k = matchIndex'[j][q], k > 0
             PROVE  /\ k <= Len(log[j])
                    /\ log[j][k].term = currentTerm[j] => <<q, k, currentTerm[j]>> \in h
  <2> SUFFICES ASSUME NEW j \in Server, NEW q \in Server, state[j] = Leader,
                      matchIndex'[j][q] > 0
               PROVE  /\ matchIndex'[j][q] <= Len(log[j])
                      /\ log[j][matchIndex'[j][q]].term = currentTerm[j] =>
                            <<q, matchIndex'[j][q], currentTerm[j]>> \in h
    BY <1>2 DEF Matches
  <2>1. matchIndex'[j][q] \in Nat
    BY <1>6
  <2> QED
    BY <2>1
<1>4. CASE k = matchIndex[j][q]
  BY <1>h, <1>4 DEF CommitInv, Matches
<1>5. CASE j = i /\ q = p /\ k = m.newMatch
  BY <1>1, <1>5, CountedReply
<1> QED
  BY <1>3, <1>4, <1>5

\* A leader that counted a reply commits nothing, or up to an entry of its term
\* that is chosen.
LEMMA CountChooses ==
    ASSUME TypeOK, TypeOK', NEW h, NEW b, HistoryInv(h, b), NEW m \in calls, CountStep(m),
           Matches(h)', NEW i \in Server, i = m.to, NEW T \in Nat, T = currentTerm[i]
    PROVE  \/ UNCHANGED <<commitIndex, committed>>
           \/ \E top \in Nat :
                /\ Contains(i, top, T) /\ Chosen(h, top, T) /\ top > commitIndex[i]
                /\ commitIndex' = [commitIndex EXCEPT ![i] = top]
                /\ committed' = IF top > Len(committed) THEN Prefix(log[i], top)
                                                        ELSE committed
<1>2. log' = log /\ state' = state /\ currentTerm' = currentTerm /\ state[i] = Leader
  BY DEF CountStep
<1>3. PICK match \in [Server -> Nat] : AdvanceCommitIndex(i, match) /\ matchIndex'[i] = match
  <2> DEFINE match == IF m.newMatch > matchIndex[i][m.from]
                      THEN [matchIndex[i] EXCEPT ![m.from] = m.newMatch] ELSE matchIndex[i]
  <2>1. AdvanceCommitIndex(i, match) /\ matchIndex' = [matchIndex EXCEPT ![i] = match]
    BY DEF CountStep
  <2> HIDE DEF match
  <2>2. matchIndex'[i] = match
    BY <2>1 DEF TypeOK
  <2>3. matchIndex'[i] \in [Server -> Nat]
    BY DEF TypeOK
  <2> QED
    BY <2>1, <2>2, <2>3
<1>4. \/ UNCHANGED <<commitIndex, committed>>
      \/ \E top \in Nat :
           /\ Contains(i, top, currentTerm[i])
           /\ top > commitIndex[i]
           /\ Cardinality({p \in Server : match[p] >= top}) >= Majority
           /\ commitIndex' = [commitIndex EXCEPT ![i] = top]
           /\ committed' = IF top > Len(committed) THEN Prefix(log[i], top) ELSE committed
  <2>1. AdvanceCommitIndex(i, match)
    BY <1>3
  <2> QED
    BY <2>1, AdvanceIs
<1>5. ASSUME NEW top \in Nat, Contains(i, top, T),
             Cardinality({p \in Server : match[p] >= top}) >= Majority
      PROVE  Chosen(h, top, T)
  <2>1. \A p \in Server : \A k \in Nat : match[p] = k /\ k > 0 =>
            k <= Len(log[i]) /\ (log[i][k].term = T => <<p, k, T>> \in h)
    BY <1>2, <1>3 DEF Matches
  <2> QED
    BY <1>5, <2>1, MatchedIsChosen
<1> QED
  BY <1>4, <1>5

\* What was committed stays, whatever a leader commits.
LEMMA CommitExtends ==
    ASSUME TypeOK, NEW h, NEW b, ReplInv(h, b), NEW i \in Server, state[i] = Leader,
           NEW T \in Nat, T = currentTerm[i], NEW top \in Nat, Contains(i, top, T),
           Chosen(h, top, T),
           committed' = IF top > Len(committed) THEN Prefix(log[i], top) ELSE committed
    PROVE  /\ Len(committed') \in Nat /\ Len(committed) <= Len(committed') /\ top <= Len(committed')
           /\ \A x \in 1..Len(committed) : committed'[x] = committed[x]
           /\ committed'[top].term = T
<1>1. /\ top \in 1..Len(log[i]) /\ top > 0 /\ log[i][top].term = T
      /\ log[i] \in Seq(Entry) /\ Len(log[i]) \in Nat /\ Len(committed) \in Nat
  <2>1. log[i] \in Seq(Entry) /\ committed \in Seq(Entry)
    BY DEF TypeOK
  <2>2. Len(log[i]) \in Nat /\ Len(committed) \in Nat
    BY <2>1, LenProperties
  <2>3. top \in 1..Len(log[i]) /\ log[i][top].term = T
    BY DEF Contains
  <2> QED
    BY <2>1, <2>2, <2>3
<1>2. \A x \in 1..Len(committed) : x <= top => log[i][x] = committed[x]
  BY ChosenAgrees
<1>3. CASE top > Len(committed)
  <2>1. /\ Len(Prefix(log[i], top)) = top
        /\ \A x \in 1..top : Prefix(log[i], top)[x] = log[i][x]
    BY <1>1, SubSeqProperties DEF Prefix
  <2>2. committed' = Prefix(log[i], top)
    BY <1>3
  <2>3. top \in 1..top /\ \A x \in 1..Len(committed) : x \in 1..top /\ x <= top
    BY <1>1, <1>3
  <2> QED
    BY <1>1, <1>2, <1>3, <2>1, <2>2, <2>3
<1>4. CASE ~(top > Len(committed))
  <2>1. committed' = committed
    BY <1>4
  <2>2. top \in 1..Len(committed)
    BY <1>1, <1>4
  <2> QED
    BY <1>1, <1>2, <1>4, <2>1, <2>2
<1> QED
  BY <1>3, <1>4

\* The committed log after a step of _advance_commit_index, and what is said of
\* the commit indexes.
LEMMA CountKeepsCommits ==
    ASSUME TypeOK, TypeOK', LogInv', NEW h, NEW b, ReplInv(h, b), HistoryInv(h, b)',
           NEW m \in calls, CountStep(m), Matches(h)',
           \A n \in Nat : \A e \in Entry : \A p \in Nat : Link(n, e, p)' => Link(n, e, p)
    PROVE  CommittedHeld(h)' /\ CommittedChosen(h)' /\ CommitKnown(h)' /\ CommitSent(h)'
<1>h. HistoryInv(h, b) /\ KeptInv(h) /\ CommitInv(h)
  BY DEF ReplInv
<1>1. PICK i \in Server, T \in Nat : i = m.to /\ T = currentTerm[i]
  <2>1. m.to \in Server
    BY CallFields
  <2> QED
    BY <2>1 DEF TypeOK
<1>2. calls' \subseteq calls /\ log' = log /\ state' = state /\ currentTerm' = currentTerm
      /\ state[i] = Leader
  BY <1>1 DEF CountStep
<1>6. /\ \A n, t : Chosen(h, n, t)' <=> Chosen(h, n, t)
      /\ \A j \in Server : \A n, t : Contains(j, n, t)' <=> Contains(j, n, t)
      /\ \A r : LastSent(r)' = LastSent(r)
  BY <1>2 DEF Chosen, Contains, LastSent
<1>4. CASE UNCHANGED <<commitIndex, committed>>
  <2>1. CommittedHeld(h)'
    BY <1>4, <1>h, LinksStay DEF CommitInv
  <2>2. CommittedChosen(h)' /\ CommitKnown(h)' /\ CommitSent(h)'
    BY <1>2, <1>4, <1>6, <1>h DEF CommitInv, CommittedChosen, CommitKnown, CommitSent
  <2> QED
    BY <2>1, <2>2
<1>5. ASSUME NEW top \in Nat, Contains(i, top, T), Chosen(h, top, T),
             commitIndex' = [commitIndex EXCEPT ![i] = top],
             committed' = IF top > Len(committed) THEN Prefix(log[i], top) ELSE committed
      PROVE  CommittedHeld(h)' /\ CommittedChosen(h)' /\ CommitKnown(h)' /\ CommitSent(h)'
  <2>1. Chosen(h, top, T)
    BY <1>5
  <2>2. Contains(i, top, T) /\ top \in 1..Len(log[i]) /\ top > 0 /\ log[i][top].term = T
        /\ log[i] \in Seq(Entry) /\ Len(log[i]) \in Nat /\ Len(committed) \in Nat
    <3>1. log[i] \in Seq(Entry) /\ committed \in Seq(Entry)
      BY DEF TypeOK
    <3>2. Len(log[i]) \in Nat /\ Len(committed) \in Nat
      BY <3>1, LenProperties
    <3>3. top \in 1..Len(log[i]) /\ log[i][top].term = T
      BY <1>5 DEF Contains
    <3> QED
      BY <1>5, <3>1, <3>2, <3>3
  <2>4. /\ Len(committed') \in Nat /\ Len(committed) <= Len(committed') /\ top <= Len(committed')
        /\ \A x \in 1..Len(committed) : committed'[x] = committed[x]
        /\ committed'[top].term = T
    BY <1>1, <1>2, <1>5, CommitExtends
  <2>5. CommittedHeld(h)'
    <3>1. CASE top > Len(committed)
      <4>1. /\ Len(Prefix(log[i], top)) = top
            /\ \A x \in 1..top : Prefix(log[i], top)[x] = log[i][x]
        BY <2>2, SubSeqProperties DEF Prefix
      <4>2. committed' = Prefix(log[i], top)
        BY <1>5, <3>1
      <4> SUFFICES ASSUME NEW n \in Nat, NEW e \in Entry, NEW p \in Nat, CommittedLink(n, e, p)'
                   PROVE  /\ \E v \in Server : <<v, n, e.term>> \in h
                          /\ \A f \in Entry : \A q \in Nat :
                                Link(n, f, q)' /\ f.term = e.term => e = f /\ p = q
        BY DEF CommittedHeld
      <4>3. n \in 1..top /\ e = log[i][n]
        BY <4>1, <4>2 DEF CommittedLink
      <4>4. p = TermAt(i, n - 1)
        <5>1. CASE n = 1
          BY <5>1 DEF CommittedLink, TermAt
        <5>2. CASE n # 1
          <6>1. n - 1 \in 1..top /\ n - 1 # 0
            BY <4>3, <5>2
          <6> QED
            BY <4>1, <4>2, <5>2, <6>1 DEF CommittedLink, TermAt
        <5> QED
          BY <5>1, <5>2
      <4>5. Link(n, e, p) /\ Link(n, e, p)'
        <5>1. LogLink(i, n, e, p)
          BY <2>2, <4>3, <4>4 DEF LogLink
        <5>2. LogLink(i, n, e, p)'
          BY <1>2, <5>1 DEF LogLink, TermAt
        <5> QED
          BY <5>1, <5>2 DEF Link
      <4> QED
        BY <1>h, <4>5 DEF HistoryInv, LinksHeld, LogInv, LinksAgree
    <3>2. CASE ~(top > Len(committed))
      <4>1. committed' = committed
        BY <1>5, <3>2
      <4> QED
        BY <1>h, <4>1, LinksStay DEF CommitInv
    <3> QED
      BY <3>1, <3>2
  <2>6. CommittedChosen(h)'
    <3>1. CASE top > Len(committed)
      <4>1. Len(committed') = top
        <5>1. committed' = Prefix(log[i], top)
          BY <1>5, <3>1
        <5> QED
          BY <2>2, <5>1, SubSeqProperties DEF Prefix
      <4> QED
        BY <1>6, <2>1, <2>4, <4>1 DEF CommittedChosen
    <3>2. CASE ~(top > Len(committed))
      <4>1. committed' = committed
        BY <1>5, <3>2
      <4> QED
        BY <1>6, <1>h, <4>1 DEF CommitInv, CommittedChosen
    <3> QED
      BY <3>1, <3>2
  <2>7. CommitKnown(h)'
    <3> SUFFICES ASSUME NEW j \in Server, NEW c \in Nat, c = commitIndex'[j], c > 0
                 PROVE  /\ c <= Len(committed') /\ Chosen(h, c, committed'[c].term)
                        /\ Contains(j, c, committed'[c].term)
      BY <1>6 DEF CommitKnown, TypeOK
    <3>1. CASE j = i
      <4>1. c = top
        BY <1>5, <3>1 DEF TypeOK
      <4> QED
        BY <2>1, <2>2, <2>4, <3>1, <4>1
    <3>2. CASE j # i
      <4>1. c = commitIndex[j]
        BY <1>5, <3>2 DEF TypeOK
      <4>2. /\ c <= Len(committed) /\ Chosen(h, c, committed[c].term)
            /\ Contains(j, c, committed[c].term)
        BY <1>h, <4>1 DEF CommitInv, CommitKnown
      <4>3. c \in 1..Len(committed) /\ c <= Len(committed')
        BY <2>2, <2>4, <4>2
      <4> QED
        BY <2>4, <4>2, <4>3
    <3> QED
      BY <3>1, <3>2
  <2>8. CommitSent(h)'
    <3> SUFFICES ASSUME NEW r \in calls, r.type = "AppendEntries", NEW c \in Nat,
                        c = r.leaderCommit, c > 0
                 PROVE  /\ c <= Len(committed') /\ c <= LastSent(r)
                        /\ Chosen(h, c, committed'[c].term) /\ committed'[c].term <= r.term
      <4>1. \A r \in calls : r.type = "AppendEntries" => r.leaderCommit \in Nat
        BY CallFields DEF AppendEntriesArgs
      <4> QED
        BY <1>2, <1>6, <4>1 DEF CommitSent
    <3>1. /\ c <= Len(committed) /\ c <= LastSent(r)
          /\ Chosen(h, c, committed[c].term) /\ committed[c].term <= r.term
      BY <1>h DEF CommitInv, CommitSent
    <3>2. c \in 1..Len(committed) /\ c <= Len(committed')
      BY <2>2, <2>4, <3>1
    <3> QED
      BY <2>4, <3>1, <3>2
  <2> QED
    BY <2>5, <2>6, <2>7, <2>8
<1> QED
  BY <1>1, <1>4, <1>5, <1>h, CountChooses

\* Counting a reply keeps the invariant.
LEMMA CountKeeps ==
    ASSUME TypeOK, TypeOK', ElectionInv, ElectionInv', LogInv', [Next]_vars, SmallOrTimely,
           NEW h, NEW g, NEW b, Grows(h, g), ReplInv(h, b), NEW m \in calls, CountStep(m)
    PROVE  ReplInv(g, b)'
<1>1. /\ g = h
      /\ HistoryInv(h, b)' /\ KeptInv(h)' /\ RepliesHeld(h)'
      /\ \A n \in Nat : \A e \in Entry : \A p \in Nat : Link(n, e, p)' => Link(n, e, p)
  BY CountKeepsLogs
<1>2. Matches(h)'
  BY CountKeepsMatches
<1>3. CommittedHeld(h)' /\ CommittedChosen(h)' /\ CommitKnown(h)' /\ CommitSent(h)'
  BY <1>1, <1>2, CountKeepsCommits
<1> QED
  BY <1>1, <1>2, <1>3 DEF ReplInv, CommitInv

-----------------------------------------------------------------------------
(* Votes                                                                   *)

\* A step that asks for no vote, grants none and starts no election
VotesRest ==
    /\ \A m \in calls' : m \in calls \/ m.type \notin {"RequestVote", "RequestVoteReply"}
    /\ \A j \in Server :
         \/ votes'[j] = {}
         \/ /\ currentTerm'[j] = currentTerm[j]
            /\ \A v \in votes'[j] : Granted(v, j, currentTerm[j])
    /\ \A j \in Server :
         state'[j] = Candidate => state[j] = Candidate /\ currentTerm'[j] = currentTerm[j]

\* The log of a server that is a candidate after a step is the one it had.
LEMMA CandidatesKeepLogs ==
    ASSUME TypeOK, TypeOK', ElectionInv, LogInv, [Next]_vars
    PROVE  \A j \in Server : state'[j] = Candidate => log'[j] = log[j]
<1>1. CASE IdleStep
  BY <1>1 DEF IdleStep
<1>2. ASSUME NEW i \in Server, BecomeLeader(i)
      PROVE  \A j \in Server : state'[j] = Candidate => log'[j] = log[j]
  <2>1. state'[i] = Leader
    BY <1>2 DEF BecomeLeader, TypeOK
  <2>2. \A j \in Server : j # i => log'[j] = log[j]
    BY <1>2 DEF BecomeLeader, TypeOK
  <2> QED
    BY <2>1, <2>2 DEF Leader, Candidate
<1>3. ASSUME NEW i \in Server, NEW op \in Op, AppendEntry(i, op)
      PROVE  \A j \in Server : state'[j] = Candidate => log'[j] = log[j]
  <2>1. state'[i] = Leader
    BY <1>3 DEF AppendEntry
  <2>2. \A j \in Server : j # i => log'[j] = log[j]
    BY <1>3 DEF AppendEntry, TypeOK
  <2> QED
    BY <2>1, <2>2 DEF Leader, Candidate
<1>4. ASSUME NEW i \in Server, NEW p \in Server, SendAppendEntries(i, p)
      PROVE  \A j \in Server : state'[j] = Candidate => log'[j] = log[j]
  BY <1>4 DEF SendAppendEntries, diskVars
<1>5. ASSUME NEW m \in calls, AcceptStep(m)
      PROVE  \A j \in Server : state'[j] = Candidate => log'[j] = log[j]
  <2>1. m.to \in Server
    BY CallFields
  <2>2. state'[m.to] = Follower
    BY <1>5, <2>1 DEF AcceptStep, TypeOK
  <2>3. \A j \in Server : j # m.to => log'[j] = log[j]
    BY <1>5 DEF AcceptStep, TypeOK
  <2> QED
    BY <2>2, <2>3 DEF Follower, Candidate
<1>6. ASSUME NEW m \in calls, CountStep(m)
      PROVE  \A j \in Server : state'[j] = Candidate => log'[j] = log[j]
  BY <1>6 DEF CountStep
<1> QED
  BY <1>1, <1>2, <1>3, <1>4, <1>5, <1>6, StepForms

\* Nothing changes for the votes where the terms, roles and ballots stay.
LEMMA OutsideIsQuiet ==
    ASSUME UNCHANGED <<currentTerm, state, votes>>,
           \A m \in calls' : m \in calls \/ m.type \notin {"RequestVote", "RequestVoteReply"}
    PROVE  VotesRest
<1>1. \A j \in Server : \A v \in votes[j] : Granted(v, j, currentTerm[j])
  BY DEF Granted
<1> QED
  BY <1>1 DEF VotesRest

\* Where a server leaves the race, the others stay in it.
LEMMA LeavingIsQuiet ==
    ASSUME TypeOK, NEW i \in Server,
           votes' = [votes EXCEPT ![i] = {}], state' = [state EXCEPT ![i] = Follower],
           \A j \in Server : j # i => currentTerm'[j] = currentTerm[j],
           \A m \in calls' : m \in calls \/ m.type \notin {"RequestVote", "RequestVoteReply"}
    PROVE  VotesRest
<1>1. \A j \in Server : \A v \in votes[j] : Granted(v, j, currentTerm[j])
  BY DEF Granted
<1>2. votes'[i] = {} /\ state'[i] = Follower
  BY DEF TypeOK
<1>3. \A j \in Server : j # i => votes'[j] = votes[j] /\ state'[j] = state[j]
  BY DEF TypeOK
<1> QED
  BY <1>1, <1>2, <1>3 DEF VotesRest, Follower, Candidate

\* The forms of a step, as far as votes are concerned.
LEMMA VoteForms ==
    ASSUME TypeOK, TypeOK', ElectionInv, LogInv, [Next]_vars
    PROVE  \/ VotesRest
           \/ \E i \in Server : \E sent \in SUBSET (Server \ {i}) : StartElection(i, sent)
           \/ \E m \in calls : HandleRequestVote(m)
<1>1. ASSUME NEW i \in Server, BecomeLeader(i)
      PROVE  VotesRest
  <2>1. /\ state' = [state EXCEPT ![i] = Leader]
        /\ UNCHANGED <<currentTerm, votes, calls>>
    BY <1>1 DEF BecomeLeader
  <2>2. state'[i] = Leader /\ \A j \in Server : j # i => state'[j] = state[j]
    BY <2>1 DEF TypeOK
  <2>3. \A j \in Server : \A v \in votes[j] : Granted(v, j, currentTerm[j])
    BY DEF Granted
  <2> QED
    BY <2>1, <2>2, <2>3 DEF VotesRest, Leader, Candidate
<1>2. ASSUME NEW i \in Server, LoseElection(i)
      PROVE  VotesRest
  <2>1. /\ votes' = [votes EXCEPT ![i] = {}]
        /\ UNCHANGED <<currentTerm, state, calls>>
    BY <1>2 DEF LoseElection, diskVars
  <2>2. votes'[i] = {} /\ \A j \in Server : j # i => votes'[j] = votes[j]
    BY <2>1 DEF TypeOK
  <2>3. \A j \in Server : \A v \in votes[j] : Granted(v, j, currentTerm[j])
    BY DEF Granted
  <2> QED
    BY <2>1, <2>2, <2>3 DEF VotesRest
<1>3. ASSUME NEW i \in Server,
             \/ \E op \in Op : AppendEntry(i, op)
             \/ FetchCommitted(i) \/ ApplyEntry(i)
             \/ \E w \in commitWaiters[i] : WaiterTimeout(i, w)
             \/ \E b \in BOOLEAN : SetIsolated(i, b)
      PROVE  VotesRest
  <2>1. UNCHANGED <<currentTerm, state, votes, calls>>
    BY <1>3 DEF AppendEntry, FetchCommitted, ApplyEntry, WaiterTimeout, SetIsolated,
         diskVars, roleVars
  <2> QED
    BY <2>1, OutsideIsQuiet
<1>4. ASSUME NEW i \in Server, NEW p \in Server, SendAppendEntries(i, p)
      PROVE  VotesRest
  <2>1. PICK new : Sent(i, new)
    BY <1>4, SendIsSent
  <2>2. \A m \in calls' : m \in calls \/ m.type \notin {"RequestVote", "RequestVoteReply"}
    BY <2>1 DEF Sent
  <2> QED
    BY <1>4, <2>2, OutsideIsQuiet DEF SendAppendEntries, diskVars, roleVars
<1>5. ASSUME NEW i \in Server, Reboot(i), calls' \subseteq calls,
             \A j \in Server : j # i => currentTerm'[j] = currentTerm[j]
      PROVE  VotesRest
  BY <1>5, LeavingIsQuiet DEF Reboot
<1>6. ASSUME NEW i \in Server, Restart(i)
      PROVE  VotesRest
  BY <1>5, <1>6 DEF Restart
<1>7. ASSUME NEW m \in calls, CrashInHandler(m)
      PROVE  VotesRest
  <2>1. m.to \in Server
    BY CallFields
  <2>2. /\ Reboot(m.to) /\ calls' = calls \ {m}
        /\ currentTerm' = [currentTerm EXCEPT ![m.to] = m.term]
    BY <1>7 DEF CrashInHandler
  <2>3. \A j \in Server : j # m.to => currentTerm'[j] = currentTerm[j]
    BY <2>2 DEF TypeOK
  <2> QED
    BY <1>5, <2>1, <2>2, <2>3
<1>8. ASSUME NEW m \in calls, LoseCall(m)
      PROVE  VotesRest
  <2>1. UNCHANGED <<currentTerm, state, votes>> /\ calls' \subseteq calls
    BY <1>8 DEF LoseCall, diskVars, roleVars
  <2> QED
    BY <2>1, OutsideIsQuiet
<1>9. ASSUME NEW i \in Server, NEW t, BecomeFollower(i, t),
             \A m \in calls' : m \in calls \/ m.type \notin {"RequestVote", "RequestVoteReply"}
      PROVE  VotesRest
  <2>1. /\ state' = [state EXCEPT ![i] = Follower]
        /\ currentTerm' = [currentTerm EXCEPT ![i] = t]
        /\ votes' = [votes EXCEPT ![i] = {}]
    BY <1>9 DEF BecomeFollower
  <2>2. \A j \in Server : j # i => currentTerm'[j] = currentTerm[j]
    BY <2>1 DEF TypeOK
  <2> QED
    BY <1>9, <2>1, <2>2, LeavingIsQuiet
<1>10. ASSUME NEW m \in calls, HandleRequestVoteReply(m)
       PROVE  VotesRest
  <2> DEFINE i == m.to
  <2>1. i \in Server /\ m.from \in Server /\ m.type = "RequestVoteReply"
    BY <1>10, CallFields DEF HandleRequestVoteReply
  <2>2. calls' \subseteq calls
    BY <1>10, AnsweredCalls DEF HandleRequestVoteReply
  <2>3. CASE BecomeFollower(i, m.term)
    BY <1>9, <2>1, <2>2, <2>3
  <2>4. CASE /\ votes' = IF m.voteGranted /\ m.election = currentTerm[i] /\ votes[i] # {}
                         THEN [votes EXCEPT ![i] = @ \cup {m.from}] ELSE votes
             /\ UNCHANGED <<state, currentTerm>>
    <3>1. \A j \in Server : \A v \in votes[j] : Granted(v, j, currentTerm[j])
      BY DEF Granted
    <3>2. CASE votes' = votes
      BY <2>2, <2>4, <3>2, OutsideIsQuiet
    <3>3. CASE m.voteGranted /\ m.election = currentTerm[i]
                 /\ votes' = [votes EXCEPT ![i] = @ \cup {m.from}]
      <4>1. Granted(m.from, i, currentTerm[i])
        BY <2>1, <3>3 DEF Granted
      <4>2. votes'[i] = votes[i] \cup {m.from}
            /\ \A j \in Server : j # i => votes'[j] = votes[j]
        BY <2>1, <3>3 DEF TypeOK
      <4> QED
        BY <2>2, <2>4, <3>1, <4>1, <4>2 DEF VotesRest
    <3> QED
      BY <2>4, <3>2, <3>3
  <2> QED
    BY <1>10, <2>3, <2>4 DEF HandleRequestVoteReply
<1>11. ASSUME NEW m \in calls, HandleAppendEntries(m)
       PROVE  VotesRest
  <2>1. m.to \in Server
    BY CallFields
  <2>2. \A r \in calls' : r \in calls \/ r.type = "AppendEntriesReply"
    <3>1. ASSUME NEW reply, Answered(m, {reply}), reply.type = "AppendEntriesReply"
          PROVE  \A r \in calls' : r \in calls \/ r.type = "AppendEntriesReply"
      BY <3>1, AnsweredCalls
    <3> QED
      BY <1>11, <3>1 DEF HandleAppendEntries
  <2>3. BecomeFollower(m.to, m.term) \/ UNCHANGED <<currentTerm, state, votes>>
    BY <1>11 DEF HandleAppendEntries, diskVars, roleVars
  <2> QED
    BY <1>9, <2>1, <2>2, <2>3, OutsideIsQuiet
<1>12. ASSUME NEW m \in calls, HandleAppendEntriesReply(m)
       PROVE  VotesRest
  <2>1. m.to \in Server
    BY CallFields
  <2>2. calls' \subseteq calls
    BY <1>12, AnsweredCalls DEF HandleAppendEntriesReply
  <2>3. BecomeFollower(m.to, m.term) \/ UNCHANGED <<currentTerm, state, votes>>
    BY <1>12 DEF HandleAppendEntriesReply, roleVars
  <2> QED
    BY <1>9, <2>1, <2>2, <2>3, OutsideIsQuiet
<1>13. CASE UNCHANGED vars
  <2>1. UNCHANGED <<currentTerm, state, votes, calls>>
    BY <1>13 DEF vars, diskVars, roleVars
  <2> QED
    BY <2>1, OutsideIsQuiet
<1>14. CASE \E i \in Server : ServerStep(i)
  BY <1>14, <1>1, <1>2, <1>3, <1>4, <1>6 DEF ServerStep
<1>15. CASE \E m \in calls : CallStep(m)
  BY <1>15, <1>7, <1>8, <1>10, <1>11, <1>12 DEF CallStep
<1> QED
  BY <1>13, <1>14, <1>15 DEF Next

\* A log at least as new as one that holds an entry holds it too, if it is not
\* dead: the comparison of _candidate_log_up_to_date.
LEMMA UpToDateHolds ==
    ASSUME TypeOK, NEW h, NEW b, HistoryInv(h, b), CleanLogs(h),
           NEW v \in Server, NEW c \in Server, NEW n \in Nat, NEW t \in Nat,
           Contains(v, n, t), CandidateLogUpToDate(v, LastLogIndex(c), LastLogTerm(c))
    PROVE  Dead(h, n, t) \/ Contains(c, n, t)
<1>1. PICK lv \in Nat, lc \in Nat : lv = Len(log[v]) /\ lc = Len(log[c])
  BY LenProperties DEF TypeOK
<1>2. n \in 1..lv /\ log[v][n].term = t /\ lv \in 1..lv /\ n <= lv /\ n > 0
  BY <1>1 DEF Contains
<1>0. t > 0
  <2>1. PICK e \in Entry, p \in Nat : e = log[v][n] /\ Link(n, e, p)
    BY <1>1, <1>2, LinkedLogs DEF LogsLinked
  <2> QED
    BY <1>2, <2>1 DEF HistoryInv, Rising
<1>3. PICK tv \in Nat : tv = log[v][lv].term /\ t <= tv
  <2>1. log[v][lv].term \in Nat
    BY <1>1, <1>2, LinkedLogs DEF LogsLinked
  <2>2. LogsSorted
    BY SortedLogs DEF HistoryInv
  <2>3. log[v][n].term <= log[v][lv].term
    BY <1>1, <1>2, <2>2 DEF LogsSorted
  <2> QED
    BY <1>2, <2>1, <2>3
<1>4. log[v] # <<>> /\ LastLogTerm(v) = tv /\ LastLogIndex(v) = lv /\ LastLogIndex(c) = lc
  BY <1>1, <1>2, <1>3 DEF LastLogTerm, LastLogIndex
<1>5. log[c] # <<>>
  <2> SUFFICES ASSUME log[c] = <<>> PROVE FALSE
    OBVIOUS
  <2>1. LastLogTerm(c) = 0
    BY DEF LastLogTerm
  <2> QED
    BY <1>0, <1>3, <1>4, <2>1 DEF CandidateLogUpToDate
<1>6. lc \in 1..lc /\ lc \in 1..Len(log[c])
  BY <1>1, <1>5, EmptySeq DEF TypeOK
<1>7. PICK tc \in Nat : tc = log[c][lc].term /\ LastLogTerm(c) = tc
  <2>1. log[c][lc].term \in Nat
    BY <1>6, LinkedLogs DEF LogsLinked
  <2> QED
    BY <1>1, <1>5, <2>1 DEF LastLogTerm
<1>8. tc > tv \/ (tc = tv /\ lc >= lv)
  BY <1>4, <1>7 DEF CandidateLogUpToDate
<1>9. CASE t < tc
  BY <1>2, <1>6, <1>7, <1>9 DEF CleanLogs
<1>10. CASE t = tc /\ lc >= lv
  <2>1. b[t] <= n /\ n <= lc
    <3>1. PICK e \in Entry, p \in Nat : e = log[v][n] /\ Link(n, e, p)
      BY <1>1, <1>2, LinkedLogs DEF LogsLinked
    <3>2. b[t] <= n
      BY <1>2, <3>1 DEF HistoryInv, Starts
    <3>3. n <= lc
      BY <1>2, <1>10
    <3> QED
      BY <3>2, <3>3
  <2>2. Contains(c, lc, t)
    BY <1>6, <1>7, <1>10 DEF Contains
  <2>3. Starts(b)
    BY DEF HistoryInv
  <2> QED
    BY <1>1, <2>1, <2>2, <2>3, DescendingLog
<1> QED
  BY <1>3, <1>8, <1>9, <1>10

\* handle_request_vote as a step of voters: at most one vote is added, by the
\* server asked, for a candidate with a log at least as new.
LEMMA VoteGrantIs ==
    ASSUME TypeOK, NEW m \in calls, HandleRequestVote(m)
    PROVE  /\ m.type = "RequestVote" /\ m.to \in Server /\ m.from \in Server
           /\ m.term \in Nat
           /\ \A r \in calls' : r \in calls \/ r.type = "RequestVoteReply"
           /\ \A j \in Server : votes'[j] = {} \/
                 (votes'[j] = votes[j] /\ currentTerm'[j] = currentTerm[j])
           /\ \A j \in Server :
                 state'[j] = Candidate => state[j] = Candidate /\ currentTerm'[j] = currentTerm[j]
           /\ log' = log
           /\ \A v, c \in Server : \A u \in Nat : Granted(v, c, u)' =>
                 \/ Granted(v, c, u)
                 \/ /\ v = m.to /\ c = m.from /\ u = m.term
                    /\ CandidateLogUpToDate(v, m.lastLogIndex, m.lastLogTerm)
<1> DEFINE i == m.to
           newer == m.term > currentTerm[i]
           term == IF newer THEN m.term ELSE currentTerm[i]
           vote == IF newer THEN Nil ELSE votedFor[i]
           granted == VoteGranted(i, m, term, vote)
           reply == [type |-> "RequestVoteReply", from |-> i, to |-> m.from,
                     inc |-> m.inc, election |-> m.term, term |-> term,
                     voteGranted |-> granted]
<1>1. i \in Server /\ m.from \in Server /\ m.term \in Nat /\ currentTerm[i] \in Nat
  BY CallFields DEF TypeOK
<1>2. /\ m.type = "RequestVote" /\ log' = log
      /\ currentTerm' = [currentTerm EXCEPT ![i] = term]
      /\ state' = IF newer THEN [state EXCEPT ![i] = Follower] ELSE state
      /\ votes' = IF newer THEN [votes EXCEPT ![i] = {}] ELSE votes
      /\ Answered(m, {reply})
  BY DEF HandleRequestVote
<1>3. calls' \subseteq calls \cup {reply}
  BY <1>2, AnsweredCalls
<1>4. /\ reply.type = "RequestVoteReply" /\ reply.from = i /\ reply.to = m.from
      /\ reply.election = m.term /\ reply.voteGranted = granted
  OBVIOUS
<1>5. granted => CandidateLogUpToDate(i, m.lastLogIndex, m.lastLogTerm)
  BY DEF VoteGranted
<1> HIDE DEF reply, granted
<1>6. \A j \in Server : \/ votes'[j] = {} /\ state'[j] = Follower
                        \/ votes'[j] = votes[j] /\ currentTerm'[j] = currentTerm[j]
                             /\ state'[j] = state[j]
  <2>1. CASE newer
    <3>1. votes'[i] = {} /\ state'[i] = Follower
      BY <1>1, <1>2, <2>1 DEF TypeOK
    <3>2. \A j \in Server : j # i => votes'[j] = votes[j] /\ currentTerm'[j] = currentTerm[j]
                                       /\ state'[j] = state[j]
      BY <1>1, <1>2, <2>1 DEF TypeOK
    <3> QED
      BY <3>1, <3>2
  <2>2. CASE ~newer
    <3>1. votes' = votes /\ state' = state /\ currentTerm' = [currentTerm EXCEPT ![i] = currentTerm[i]]
      BY <1>1, <1>2, <2>2
    <3>2. currentTerm' = currentTerm
      BY <3>1 DEF TypeOK
    <3> QED
      BY <3>1, <3>2
  <2> QED
    BY <2>1, <2>2
<1> HIDE DEF newer, term, vote
<1>7. ASSUME NEW v \in Server, NEW c \in Server, NEW u \in Nat, Granted(v, c, u)'
      PROVE  \/ Granted(v, c, u)
             \/ /\ v = i /\ c = m.from /\ u = m.term
                /\ CandidateLogUpToDate(v, m.lastLogIndex, m.lastLogTerm)
  BY <1>3, <1>4, <1>5, <1>6, <1>7 DEF Granted
<1>8. \A r \in calls' : r \in calls \/ r.type = "RequestVoteReply"
  BY <1>3, <1>4
<1> QED
  BY <1>1, <1>2, <1>6, <1>7, <1>8 DEF Follower, Candidate

\* Every step keeps what candidates ask and what their voters know.
LEMMA VoteKeeps ==
    ASSUME TypeOK, TypeOK', ElectionInv, ElectionInv', LogInv, [Next]_vars,
           NEW h, NEW g, NEW b, Grows(h, g), ReplInv(h, b), VoteInv(h)
    PROVE  VoteInv(g)'
<1>h. HistoryInv(h, b) /\ KeptInv(h) /\ Requests /\ GrantsPast /\ VotersKnow(h)
  BY DEF ReplInv, VoteInv
<1>1. \A v \in Server : /\ currentTerm[v] \in Nat /\ currentTerm'[v] \in Nat
                        /\ currentTerm[v] <= currentTerm'[v]
                        /\ state'[v] = Candidate /\ currentTerm'[v] = currentTerm[v] =>
                              state[v] = Candidate
  BY VotersStep DEF VoterStep, TypeOK
<1>2. \A j \in Server : state'[j] = Candidate => log'[j] = log[j]
  BY CandidatesKeepLogs
<1>3. \A n, t \in Nat : Dead(h, n, t) => Dead(g, n, t)'
  BY DeadStays
<1>4. ASSUME NEW m \in calls, m.type = "RequestVote"
      PROVE  /\ m.term <= currentTerm'[m.from]
             /\ state'[m.from] = Candidate /\ currentTerm'[m.from] = m.term =>
                   m.lastLogIndex = LastLogIndex(m.from)' /\ m.lastLogTerm = LastLogTerm(m.from)'
  <2>1. PICK c \in Server, u \in Nat : c = m.from /\ u = m.term
    BY CallFields
  <2>2. u <= currentTerm[c] /\ currentTerm[c] <= currentTerm'[c]
        /\ currentTerm[c] \in Nat /\ currentTerm'[c] \in Nat
    BY <1>1, <1>4, <1>h, <2>1 DEF Requests
  <2>3. u <= currentTerm'[c]
    BY <2>2
  <2>4. ASSUME state'[c] = Candidate, currentTerm'[c] = u
        PROVE  m.lastLogIndex = LastLogIndex(c)' /\ m.lastLogTerm = LastLogTerm(c)'
    <3>1. currentTerm[c] = u /\ state[c] = Candidate
      BY <1>1, <2>2, <2>4
    <3>2. m.lastLogIndex = LastLogIndex(c) /\ m.lastLogTerm = LastLogTerm(c)
      BY <1>4, <1>h, <2>1, <3>1 DEF Requests
    <3> QED
      BY <1>2, <2>4, <3>2 DEF LastLogIndex, LastLogTerm
  <2> QED
    BY <2>1, <2>3, <2>4
<1>5. ASSUME NEW v \in Server, NEW n \in Nat, NEW t \in Nat, NEW u \in Nat,
             t < u, u <= currentTerm'[v], <<v, n, t>> \in g
      PROVE  /\ <<v, n, t>> \in h /\ n > 0
             /\ Dead(h, n, t) \/ Contains(v, n, t)
  <2>1. <<v, n, t>> \notin Now'
    BY <1>1, <1>5 DEF Now
  <2>2. <<v, n, t>> \in h
    BY <1>5, <2>1 DEF Grows
  <2>3. n > 0
    BY <1>h, <2>2 DEF HistoryInv, History
  <2>4. Dead(h, n, t) \/ Contains(v, n, t)
    BY <1>h, <2>2 DEF KeptInv, Kept
  <2> QED
    BY <2>2, <2>3, <2>4
<1>6. CASE VotesRest
  <2>1. \A v, c \in Server : \A u \in Nat : Granted(v, c, u)' => Granted(v, c, u)
    <3> SUFFICES ASSUME NEW v \in Server, NEW c \in Server, NEW u \in Nat, Granted(v, c, u)'
                 PROVE  Granted(v, c, u)
      OBVIOUS
    <3>1. CASE \E m \in calls' : /\ m.type = "RequestVoteReply" /\ m.voteGranted
                                 /\ m.from = v /\ m.to = c /\ m.election = u
      BY <1>6, <3>1 DEF VotesRest, Granted
    <3>2. CASE v \in votes'[c] /\ currentTerm'[c] = u
      BY <1>6, <3>2 DEF VotesRest
    <3> QED
      BY <3>1, <3>2 DEF Granted
  <2>2. Requests'
    <3>1. \A m \in calls' : m.type = "RequestVote" => m \in calls
      BY <1>6 DEF VotesRest
    <3> QED
      BY <1>4, <3>1 DEF Requests
  <2>3. GrantsPast'
    <3> SUFFICES ASSUME NEW v \in Server, NEW c \in Server, NEW u \in Nat, Granted(v, c, u)'
                 PROVE  u <= currentTerm'[c]
      BY DEF GrantsPast
    <3>1. u <= currentTerm[c]
      BY <1>h, <2>1 DEF GrantsPast
    <3> QED
      BY <1>1, <3>1
  <2>4. VotersKnow(g)'
    <3> SUFFICES ASSUME NEW v \in Server, NEW c \in Server, NEW n \in Nat, NEW t \in Nat,
                        NEW u \in Nat, state'[c] = Candidate, u = currentTerm'[c],
                        Granted(v, c, u)', t < u, <<v, n, t>> \in g
                 PROVE  Dead(g, n, t)' \/ Contains(c, n, t)'
      BY DEF VotersKnow
    <3>1. state[c] = Candidate /\ u = currentTerm[c]
      BY <1>6 DEF VotesRest
    <3>2. Granted(v, c, u)
      BY <2>1
    <3>3. u <= currentTerm'[v]
      BY DEF ElectionInv, GrantRemembered
    <3>4. <<v, n, t>> \in h
      BY <1>5, <3>3
    <3>5. Dead(h, n, t) \/ Contains(c, n, t)
      BY <1>h, <3>1, <3>2, <3>4 DEF VotersKnow
    <3> QED
      BY <1>2, <1>3, <3>5 DEF Contains
  <2> QED
    BY <2>2, <2>3, <2>4 DEF VoteInv
<1>7. ASSUME NEW i \in Server, NEW sent \in SUBSET (Server \ {i}), StartElection(i, sent)
      PROVE  VoteInv(g)'
  <2> DEFINE asked == {[type |-> "RequestVote", from |-> i, to |-> p, inc |-> incarnation[i],
                        term |-> currentTerm[i] + 1, lastLogIndex |-> LastLogIndex(i),
                        lastLogTerm |-> LastLogTerm(i)] : p \in sent}
  <2>1. /\ state' = [state EXCEPT ![i] = Candidate]
        /\ currentTerm' = [currentTerm EXCEPT ![i] = @ + 1]
        /\ votes' = [votes EXCEPT ![i] = {i}]
        /\ calls' = calls \cup asked
        /\ log' = log
    BY <1>7 DEF StartElection
  <2>2. \A m \in asked : /\ m.type = "RequestVote" /\ m.from = i /\ m.term = currentTerm[i] + 1
                         /\ m.lastLogIndex = LastLogIndex(i) /\ m.lastLogTerm = LastLogTerm(i)
    OBVIOUS
  <2> HIDE DEF asked
  <2>3. /\ currentTerm'[i] = currentTerm[i] + 1 /\ votes'[i] = {i}
        /\ \A j \in Server : j # i => currentTerm'[j] = currentTerm[j] /\ votes'[j] = votes[j]
                                          /\ state'[j] = state[j]
    BY <2>1 DEF TypeOK
  <2>4. ASSUME NEW v \in Server, NEW c \in Server, NEW u \in Nat, Granted(v, c, u)'
        PROVE  Granted(v, c, u) \/ (v = i /\ c = i /\ u = currentTerm'[i])
    <3>1. CASE c = i
      BY <2>1, <2>2, <2>3, <2>4, <3>1 DEF Granted
    <3>2. CASE c # i
      BY <2>1, <2>2, <2>3, <2>4, <3>2 DEF Granted
    <3> QED
      BY <3>1, <3>2
  <2>5. Requests'
    <3>1. ASSUME NEW m \in asked
          PROVE  /\ m.term <= currentTerm'[m.from]
                 /\ m.lastLogIndex = LastLogIndex(m.from)' /\ m.lastLogTerm = LastLogTerm(m.from)'
      BY <1>1, <2>1, <2>2, <2>3 DEF LastLogIndex, LastLogTerm
    <3> QED
      BY <1>4, <2>1, <3>1 DEF Requests
  <2>6. GrantsPast'
    <3> SUFFICES ASSUME NEW v \in Server, NEW c \in Server, NEW u \in Nat, Granted(v, c, u)'
                 PROVE  u <= currentTerm'[c]
      BY DEF GrantsPast
    <3>1. CASE Granted(v, c, u)
      <4>1. u <= currentTerm[c]
        BY <1>h, <3>1 DEF GrantsPast
      <4> QED
        BY <1>1, <4>1
    <3>2. CASE c = i /\ u = currentTerm'[i]
      BY <1>1, <3>2
    <3> QED
      BY <2>4, <3>1, <3>2
  <2>7. VotersKnow(g)'
    <3> SUFFICES ASSUME NEW v \in Server, NEW c \in Server, NEW n \in Nat, NEW t \in Nat,
                        NEW u \in Nat, state'[c] = Candidate, u = currentTerm'[c],
                        Granted(v, c, u)', t < u, <<v, n, t>> \in g
                 PROVE  Dead(g, n, t)' \/ Contains(c, n, t)'
      BY DEF VotersKnow
    <3>0. u <= currentTerm'[v]
      BY DEF ElectionInv, GrantRemembered
    <3>1. CASE c = i
      <4>1. ~Granted(v, c, u)
        <5>1. ~(u <= currentTerm[c])
          BY <1>1, <2>3, <3>1
        <5> QED
          BY <1>h, <5>1 DEF GrantsPast
      <4>2. v = c
        BY <2>4, <3>1, <4>1
      <4>3. Dead(h, n, t) \/ Contains(c, n, t)
        BY <1>5, <3>0, <4>2
      <4> QED
        BY <1>2, <1>3, <4>3 DEF Contains
    <3>2. CASE c # i
      <4>1. state[c] = Candidate /\ u = currentTerm[c] /\ Granted(v, c, u)
        BY <2>3, <2>4, <3>2
      <4>4. <<v, n, t>> \in h
        BY <1>5, <3>0
      <4>5. Dead(h, n, t) \/ Contains(c, n, t)
        BY <1>h, <4>1, <4>4 DEF VotersKnow
      <4> QED
        BY <1>2, <1>3, <4>5 DEF Contains
    <3> QED
      BY <3>1, <3>2
  <2> QED
    BY <2>5, <2>6, <2>7 DEF VoteInv
<1>8. ASSUME NEW m \in calls, HandleRequestVote(m)
      PROVE  VoteInv(g)'
  <2>1. /\ m.type = "RequestVote" /\ m.to \in Server /\ m.from \in Server
        /\ m.term \in Nat
        /\ \A r \in calls' : r \in calls \/ r.type = "RequestVoteReply"
        /\ \A j \in Server :
              state'[j] = Candidate => state[j] = Candidate /\ currentTerm'[j] = currentTerm[j]
        /\ log' = log
        /\ \A v, c \in Server : \A u \in Nat : Granted(v, c, u)' =>
              \/ Granted(v, c, u)
              \/ /\ v = m.to /\ c = m.from /\ u = m.term
                 /\ CandidateLogUpToDate(v, m.lastLogIndex, m.lastLogTerm)
    BY <1>8, VoteGrantIs
  <2>2. Requests'
    <3>1. \A r \in calls' : r.type = "RequestVote" => r \in calls
      BY <2>1
    <3> QED
      BY <1>4, <3>1 DEF Requests
  <2>3. GrantsPast'
    <3> SUFFICES ASSUME NEW v \in Server, NEW c \in Server, NEW u \in Nat, Granted(v, c, u)'
                 PROVE  u <= currentTerm'[c]
      BY DEF GrantsPast
    <3>1. u <= currentTerm[c]
      BY <1>h, <2>1 DEF GrantsPast, Requests
    <3> QED
      BY <1>1, <3>1
  <2>4. VotersKnow(g)'
    <3> SUFFICES ASSUME NEW v \in Server, NEW c \in Server, NEW n \in Nat, NEW t \in Nat,
                        NEW u \in Nat, state'[c] = Candidate, u = currentTerm'[c],
                        Granted(v, c, u)', t < u, <<v, n, t>> \in g
                 PROVE  Dead(g, n, t)' \/ Contains(c, n, t)'
      BY DEF VotersKnow
    <3>1. state[c] = Candidate /\ u = currentTerm[c]
      BY <2>1
    <3>2. u <= currentTerm'[v]
      BY DEF ElectionInv, GrantRemembered
    <3>3. <<v, n, t>> \in h /\ (Dead(h, n, t) \/ Contains(v, n, t))
      BY <1>5, <3>2
    <3>4. ASSUME Granted(v, c, u)
          PROVE  Dead(h, n, t) \/ Contains(c, n, t)
      BY <1>h, <3>1, <3>3, <3>4 DEF VotersKnow
    <3>5. ASSUME c = m.from, u = m.term,
                 CandidateLogUpToDate(v, m.lastLogIndex, m.lastLogTerm)
          PROVE  Dead(h, n, t) \/ Contains(c, n, t)
      <4>1. m.lastLogIndex = LastLogIndex(c) /\ m.lastLogTerm = LastLogTerm(c)
        BY <1>h, <2>1, <3>1, <3>5 DEF Requests
      <4> QED
        BY <1>h, <3>3, <3>5, <4>1, UpToDateHolds DEF KeptInv
    <3>6. Dead(h, n, t) \/ Contains(c, n, t)
      BY <2>1, <3>4, <3>5
    <3> QED
      BY <1>2, <1>3, <3>6 DEF Contains
  <2> QED
    BY <2>2, <2>3, <2>4 DEF VoteInv
<1> QED
  BY <1>6, <1>7, <1>8, VoteForms

-----------------------------------------------------------------------------
(* The theorems on commitment                                              *)

\* Some history and some beginnings of terms satisfy the invariant
ReplicationInv == \E h, b : ReplInv(h, b) /\ VoteInv(h)

\* With empty logs and no calls the invariant holds of the empty history.
LEMMA ReplicationInit == Init => ReplicationInv
<1> SUFFICES ASSUME Init PROVE ReplicationInv
  OBVIOUS
<1>1. PICK h : h = {}
  OBVIOUS
<1>2. PICK b : b = [n \in Nat |-> 1]
  OBVIOUS
<1>3. /\ calls = {} /\ committed = <<>> /\ Len(committed) = 0
      /\ \A i \in Server : /\ log[i] = <<>> /\ Len(log[i]) = 0 /\ currentTerm[i] = 0
                           /\ commitIndex[i] = 0 /\ state[i] = Follower /\ votes[i] = {}
  BY EmptySeq DEF Init
<1>4. \A i \in Server : 1..Len(log[i]) = {}
  BY <1>3
<1>5. \A n \in Nat : \A e \in Entry : \A p \in Nat : ~Link(n, e, p)
  BY <1>3, <1>4 DEF Link, LogLink
<1>6. HistoryInv(h, b)
  <2>1. History(h)
    BY <1>1, <1>4 DEF History, Now, Contains
  <2>2. Rising
    BY <1>3, <1>4, <1>5 DEF Rising
  <2>3. Starts(b) /\ LinksHeld(h)
    BY <1>2, <1>5 DEF Starts, LinksHeld
  <2>4. HeldFromStart(h, b) /\ LeaderTop(h)
    BY <1>1 DEF HeldFromStart, LeaderTop
  <2>5. CallShape(h)
    BY <1>3 DEF CallShape
  <2>6. LeaderLast
    BY <1>3 DEF LeaderLast, Follower, Leader
  <2> QED
    BY <2>1, <2>2, <2>3, <2>4, <2>5, <2>6 DEF HistoryInv
<1>7. KeptInv(h)
  BY <1>1, <1>3, <1>4 DEF KeptInv, Kept, CleanLogs, CleanCalls
<1>8. CommitInv(h)
  <2>1. RepliesHeld(h) /\ CommitSent(h)
    BY <1>3 DEF RepliesHeld, CommitSent
  <2>2. Matches(h)
    BY <1>3 DEF Matches, Follower, Leader
  <2>3. CommittedHeld(h) /\ CommittedChosen(h)
    BY <1>3 DEF CommittedHeld, CommittedLink, CommittedChosen
  <2>4. CommitKnown(h)
    BY <1>3 DEF CommitKnown
  <2> QED
    BY <2>1, <2>2, <2>3, <2>4 DEF CommitInv
<1>9. VoteInv(h)
  BY <1>1, <1>3 DEF VoteInv, Requests, GrantsPast, VotersKnow, Granted
<1> QED
  BY <1>6, <1>7, <1>8, <1>9 DEF ReplicationInv, ReplInv

\* Every step keeps it.
LEMMA ReplicationStep ==
    TypeOK /\ TypeOK' /\ ElectionInv /\ ElectionInv' /\ LogInv /\ LogInv' /\ SmallOrTimely
      /\ ReplicationInv /\ [Next]_vars => ReplicationInv'
<1> SUFFICES ASSUME TypeOK, TypeOK', ElectionInv, ElectionInv', LogInv, LogInv',
                    SmallOrTimely, ReplicationInv, [Next]_vars
             PROVE  ReplicationInv'
  OBVIOUS
<1>1. PICK h, b : ReplInv(h, b) /\ VoteInv(h)
  BY DEF ReplicationInv
<1>2. PICK g : Grows(h, g)
  BY DEF Grows
<1>3. VoteInv(g)'
  BY <1>1, <1>2, VoteKeeps
<1>4. ASSUME IdleStep
      PROVE  \E c : ReplInv(g, c)'
  BY <1>1, <1>2, <1>4, IdleKeeps
<1>5. ASSUME NEW i \in Server, BecomeLeader(i)
      PROVE  \E c : ReplInv(g, c)'
  BY <1>1, <1>2, <1>5, BecomeLeaderRepl
<1>6. ASSUME NEW i \in Server, NEW op \in Op, AppendEntry(i, op)
      PROVE  \E c : ReplInv(g, c)'
  BY <1>1, <1>2, <1>6, AppendEntryRepl
<1>7. ASSUME NEW i \in Server, NEW p \in Server, SendAppendEntries(i, p)
      PROVE  \E c : ReplInv(g, c)'
  BY <1>1, <1>2, <1>7, SendIsSent, SendKeeps
<1>8. ASSUME NEW m \in calls, AcceptStep(m)
      PROVE  \E c : ReplInv(g, c)'
  BY <1>1, <1>2, <1>8, AcceptKeeps
<1>9. ASSUME NEW m \in calls, CountStep(m)
      PROVE  \E c : ReplInv(g, c)'
  BY <1>1, <1>2, <1>9, CountKeeps
<1>10. \E c : ReplInv(g, c)'
  BY <1>4, <1>5, <1>6, <1>7, <1>8, <1>9, StepForms
<1> QED
  BY <1>3, <1>10 DEF ReplicationInv

\* The invariant of commitment, for every cluster in which no reply comes too late.
THEOREM ReplicationInvariant == Spec /\ []SmallOrTimely => []ReplicationInv
<1>1. Init => ReplicationInv
  BY ReplicationInit
<1>2. TypeOK /\ TypeOK' /\ ElectionInv /\ ElectionInv' /\ LogInv /\ LogInv' /\ SmallOrTimely
        /\ ReplicationInv /\ [Next]_vars => ReplicationInv'
  BY ReplicationStep
<1> QED
  BY <1>1, <1>2, TypeCorrect, ElectionInvariant, LogInvariant, PTL DEF Spec

\* What a leader holds is in its log, pointwise and as a prefix.
LEMMA SamePrefix ==
    ASSUME NEW s \in Seq(Entry), NEW c \in Seq(Entry), NEW n \in Nat,
           n <= Len(s), n <= Len(c), \A x \in 1..n : s[x] = c[x]
    PROVE  Prefix(s, n) = Prefix(c, n)
<1>1. /\ Prefix(s, n) \in Seq(Entry) /\ Prefix(c, n) \in Seq(Entry)
      /\ Len(Prefix(s, n)) = n /\ Len(Prefix(c, n)) = n
      /\ \A x \in 1..n : Prefix(s, n)[x] = s[x] /\ Prefix(c, n)[x] = c[x]
  BY SubSeqProperties DEF Prefix
<1> HIDE DEF Prefix
<1> QED
  BY <1>1, SeqEqual

\* The invariant makes leaders complete.
LEMMA InvIsComplete == TypeOK /\ ReplicationInv => LeaderCompleteness
<1> SUFFICES ASSUME TypeOK, ReplicationInv, Len(committed) > 0,
                    NEW i \in Server, state[i] = Leader,
                    currentTerm[i] >= committed[Len(committed)].term
             PROVE  Len(committed) <= Len(log[i]) /\ Prefix(log[i], Len(committed)) = committed
  BY DEF LeaderCompleteness
<1>1. PICK h, b : ReplInv(h, b)
  BY DEF ReplicationInv
<1>2. committed \in Seq(Entry) /\ log[i] \in Seq(Entry) /\ Len(committed) \in Nat
  BY LenProperties DEF TypeOK
<1>3. committed # <<>>
  BY EmptySeq
<1>4. committed[Len(committed)].term <= currentTerm[i]
  <2>1. committed[Len(committed)].term \in Nat
    BY <1>2, CommittedEntry
  <2> QED
    BY <2>1 DEF TypeOK
<1>5. /\ Len(committed) <= Len(log[i])
      /\ \A x \in 1..Len(committed) : log[i][x] = committed[x]
  BY <1>1, <1>3, <1>4, LeaderHasCommitted
<1>6. Prefix(log[i], Len(committed)) = Prefix(committed, Len(committed))
  BY <1>2, <1>5, SamePrefix
<1>7. Prefix(committed, Len(committed)) = committed
  <2>1. /\ Prefix(committed, Len(committed)) \in Seq(Entry)
        /\ Len(Prefix(committed, Len(committed))) = Len(committed)
        /\ \A x \in 1..Len(committed) : Prefix(committed, Len(committed))[x] = committed[x]
    BY <1>2, SubSeqProperties DEF Prefix
  <2> QED
    BY <1>2, <2>1, SeqEqual
<1> QED
  BY <1>5, <1>6, <1>7

\* What a node believes committed is in its log and is what was committed.
LEMMA BelievedIsCommitted ==
    ASSUME TypeOK, ReplicationInv, NEW i \in Server
    PROVE  /\ commitIndex[i] \in Nat /\ Len(log[i]) \in Nat /\ Len(committed) \in Nat
           /\ commitIndex[i] <= Len(log[i]) /\ commitIndex[i] <= Len(committed)
           /\ \A x \in 1..commitIndex[i] : log[i][x] = committed[x] /\ committed[x] \in Entry
<1>1. PICK h, b : ReplInv(h, b)
  BY DEF ReplicationInv
<1>2. PICK c \in Nat : c = commitIndex[i]
  BY DEF TypeOK
<1>3. Len(committed) \in Nat /\ Len(log[i]) \in Nat
  BY LenProperties DEF TypeOK
<1>4. c <= Len(log[i]) /\ c <= Len(committed) /\ \A x \in 1..c : log[i][x] = committed[x]
  <2>1. CASE c = 0
    BY <1>3, <2>1
  <2>2. CASE c # 0
    <3>1. c > 0 /\ c <= Len(committed) /\ Contains(i, c, committed[c].term)
      BY <1>1, <1>2, <2>2 DEF ReplInv, CommitInv, CommitKnown
    <3>2. \A x \in 1..c : log[i][x] = committed[x]
      BY <1>1, <3>1, ChainsMatch DEF ReplInv, CommitInv
    <3>3. c <= Len(log[i])
      BY <1>3, <3>1 DEF Contains
    <3> QED
      BY <3>1, <3>2, <3>3
  <2> QED
    BY <2>1, <2>2
<1>5. \A x \in 1..c : committed[x] \in Entry
  <2> SUFFICES ASSUME NEW x \in 1..c PROVE committed[x] \in Entry
    OBVIOUS
  <2>1. x \in Nat /\ x > 0 /\ x <= Len(committed)
    BY <1>3, <1>4
  <2> QED
    BY <2>1, CommittedEntry
<1> QED
  BY <1>2, <1>3, <1>4, <1>5

\* The invariant makes what a node believes committed committed.
LEMMA InvIsCommitted == TypeOK /\ ReplicationInv => CommittedPrefix
<1> SUFFICES ASSUME TypeOK, ReplicationInv, NEW i \in Server
             PROVE  /\ commitIndex[i] <= Len(log[i])
                    /\ commitIndex[i] <= Len(committed)
                    /\ Prefix(log[i], commitIndex[i]) = Prefix(committed, commitIndex[i])
  BY DEF CommittedPrefix
<1>1. /\ commitIndex[i] \in Nat
      /\ commitIndex[i] <= Len(log[i]) /\ commitIndex[i] <= Len(committed)
      /\ \A x \in 1..commitIndex[i] : log[i][x] = committed[x]
  BY BelievedIsCommitted
<1>2. committed \in Seq(Entry) /\ log[i] \in Seq(Entry)
  BY DEF TypeOK
<1>3. Prefix(log[i], commitIndex[i]) = Prefix(committed, commitIndex[i])
  BY <1>1, <1>2, SamePrefix
<1> QED
  BY <1>1, <1>3

\* A new leader has lost nothing.
THEOREM LeadersComplete == Spec /\ []SmallOrTimely => []LeaderCompleteness
BY ReplicationInvariant, TypeCorrect, InvIsComplete, PTL

\* What a node believes committed is what the cluster committed.
THEOREM CommitsArePrefixes == Spec /\ []SmallOrTimely => []CommittedPrefix
BY ReplicationInvariant, TypeCorrect, InvIsCommitted, PTL

-----------------------------------------------------------------------------
(* What the engine promises to the state machines and the clients          *)

\* The slot of a committed entry
SlotAt(n) == [index |-> n, term |-> committed[n].term, op |-> committed[n].op]

\* The applier has given the state machine, or copied, a prefix of what is
\* committed
ApplyInv ==
    \A i \in Server :
        /\ lastApplied[i] <= commitIndex[i]
        /\ lastApplied[i] = Len(applied[i]) + Len(toApply[i])
        /\ \A k \in 1..Len(applied[i]) : applied[i][k] = committed[k]
        /\ \A k \in 1..Len(toApply[i]) : toApply[i][k] = SlotAt(Len(applied[i]) + k)

\* What is committed stays
Extends ==
    /\ Len(committed) \in Nat /\ Len(committed') \in Nat /\ Len(committed) <= Len(committed')
    /\ \A x \in 1..Len(committed) : committed'[x] = committed[x]

\* No step takes back what is committed.
LEMMA CommittedExtends ==
    ASSUME TypeOK, TypeOK', ElectionInv, LogInv, SmallOrTimely, ReplicationInv, [Next]_vars
    PROVE  Extends
<1>1. UNCHANGED committed => Extends
  <2>1. Len(committed) \in Nat
    BY LenProperties DEF TypeOK
  <2> QED
    BY <2>1 DEF Extends
<1>2. PICK h, b : ReplInv(h, b)
  BY DEF ReplicationInv
<1>3. ASSUME NEW m \in calls, CountStep(m)
      PROVE  Extends
  <2>1. PICK i \in Server, T \in Nat : i = m.to /\ T = currentTerm[i]
    <3>1. m.to \in Server
      BY CallFields
    <3> QED
      BY <3>1 DEF TypeOK
  <2>2. Matches(h)'
    BY <1>2, <1>3, CountKeepsMatches
  <2>3. \/ UNCHANGED <<commitIndex, committed>>
        \/ \E top \in Nat :
             /\ Contains(i, top, T) /\ Chosen(h, top, T) /\ top > commitIndex[i]
             /\ commitIndex' = [commitIndex EXCEPT ![i] = top]
             /\ committed' = IF top > Len(committed) THEN Prefix(log[i], top) ELSE committed
    BY <1>2, <1>3, <2>1, <2>2, CountChooses DEF ReplInv
  <2>4. state[i] = Leader
    BY <1>3, <2>1 DEF CountStep
  <2>5. ASSUME NEW top \in Nat, Contains(i, top, T), Chosen(h, top, T),
               committed' = IF top > Len(committed) THEN Prefix(log[i], top) ELSE committed
        PROVE  Extends
    <3>1. /\ Len(committed') \in Nat /\ Len(committed) <= Len(committed')
          /\ \A x \in 1..Len(committed) : committed'[x] = committed[x]
      BY <1>2, <2>1, <2>4, <2>5, CommitExtends
    <3>2. Len(committed) \in Nat
      BY LenProperties DEF TypeOK
    <3> QED
      BY <3>1, <3>2 DEF Extends
  <2> QED
    BY <1>1, <2>3, <2>5
<1>4. ASSUME IdleStep \/ \E m \in calls : AcceptStep(m)
      PROVE  UNCHANGED committed
  BY <1>4 DEF IdleStep, AcceptStep
<1>5. ASSUME NEW i \in Server,
             \/ BecomeLeader(i) \/ \E op \in Op : AppendEntry(i, op)
             \/ \E p \in Server : SendAppendEntries(i, p)
      PROVE  UNCHANGED committed
  BY <1>5 DEF BecomeLeader, AppendEntry, SendAppendEntries
<1> QED
  BY <1>1, <1>3, <1>4, <1>5, StepForms

\* handle_append_entries never lowers the commit index: what the leader says
\* is committed is in the log once its entries are.
LEMMA AcceptRaisesCommit ==
    ASSUME TypeOK, TypeOK', NEW h, NEW b, ReplInv(h, b), NEW m \in calls, HandleAppendEntries(m)
    PROVE  \A j \in Server : commitIndex[j] <= commitIndex'[j]
<1>1. /\ m.to \in Server /\ m.prevLogIndex \in Nat /\ m.entries \in Seq(Entry)
      /\ m.leaderCommit \in Nat /\ m.type = "AppendEntries"
  <2>1. m.type = "AppendEntries"
    BY DEF HandleAppendEntries
  <2> QED
    BY <2>1, CallFields DEF AppendEntriesArgs
<1>2. PICK i \in Server, prev \in Nat, leaderCommit \in Nat, es \in Seq(Entry) :
          i = m.to /\ prev = m.prevLogIndex /\ leaderCommit = m.leaderCommit /\ es = m.entries
  BY <1>1
<1>3. \A j \in Server : commitIndex[j] \in Nat /\ commitIndex'[j] \in Nat
  BY DEF TypeOK
<1>4. CASE UNCHANGED commitIndex
  BY <1>3, <1>4
<1>5. ASSUME ~(prev > Len(log[i])),
             log' = [log EXCEPT ![i] = Merge(@, prev, es)],
             commitIndex' = [commitIndex EXCEPT ![i] =
               IF leaderCommit > @
               THEN IF leaderCommit <= Len(log'[i]) THEN leaderCommit ELSE Len(log'[i])
               ELSE @]
      PROVE  \A j \in Server : commitIndex[j] <= commitIndex'[j]
  <2>1. log[i] \in Seq(Entry) /\ Len(log[i]) \in Nat /\ Len(es) \in Nat
    BY LenProperties DEF TypeOK
  <2>2. prev <= Len(log[i])
    BY <1>5, <2>1
  <2>3. log'[i] = Merge(log[i], prev, es)
    BY <1>5 DEF TypeOK
  <2>4. Len(log'[i]) \in Nat /\ Len(log'[i]) >= prev + Len(es)
    <3>1. PICK old \in Seq(Entry), new \in Seq(Entry), last \in Nat :
              old = log[i] /\ new = log'[i] /\ last = prev + Len(es)
      BY <2>1, SMTT(20) DEF TypeOK
    <3>2. prev <= Len(old) /\ new = Merge(old, prev, es)
      BY <2>2, <2>3, <3>1
    <3>3. Len(new) >= last
      BY <3>1, <3>2, MergeShape
    <3> QED
      BY <3>1, <3>3, LenProperties
  <2>5. leaderCommit > 0 => leaderCommit <= prev + Len(es)
    BY <1>1, <1>2 DEF ReplInv, CommitInv, CommitSent, LastSent
  <2>6. leaderCommit <= Len(log'[i])
    BY <2>1, <2>4, <2>5
  <2>7. commitIndex'[i] = IF leaderCommit > commitIndex[i] THEN leaderCommit ELSE commitIndex[i]
    BY <1>5, <2>6 DEF TypeOK
  <2>8. \A j \in Server : j # i => commitIndex'[j] = commitIndex[j]
    BY <1>5 DEF TypeOK
  <2> QED
    BY <1>3, <2>7, <2>8
<1> QED
  BY <1>2, <1>4, <1>5 DEF HandleAppendEntries, LastLogIndex

\* The forms of a step, as far as the applier is concerned.
LEMMA ApplyForms ==
    ASSUME TypeOK, TypeOK', ElectionInv, LogInv, ReplicationInv, [Next]_vars
    PROVE  \/ UNCHANGED applyVars /\ \A j \in Server : commitIndex[j] <= commitIndex'[j]
           \/ \E i \in Server : FetchCommitted(i)
           \/ \E i \in Server : ApplyEntry(i)
           \/ \E i \in Server : Reboot(i)
<1>0. \A j \in Server : commitIndex[j] \in Nat /\ commitIndex'[j] \in Nat
  BY DEF TypeOK
<1> DEFINE Quiet == UNCHANGED applyVars /\ \A j \in Server : commitIndex[j] <= commitIndex'[j]
<1>1. ASSUME UNCHANGED <<applyVars, commitIndex>>
      PROVE  Quiet
  BY <1>0, <1>1
<1>2. ASSUME NEW i \in Server,
             \/ \E sent \in SUBSET (Server \ {i}) : StartElection(i, sent)
             \/ BecomeLeader(i) \/ LoseElection(i)
             \/ \E op \in Op : AppendEntry(i, op)
             \/ \E p \in Server : SendAppendEntries(i, p)
             \/ \E w \in commitWaiters[i] : WaiterTimeout(i, w)
             \/ \E b \in BOOLEAN : SetIsolated(i, b)
      PROVE  UNCHANGED <<applyVars, commitIndex>>
  BY <1>2 DEF StartElection, BecomeLeader, LoseElection, AppendEntry, SendAppendEntries,
       WaiterTimeout, SetIsolated
<1>3. ASSUME NEW m \in calls, HandleRequestVote(m) \/ HandleRequestVoteReply(m) \/ LoseCall(m)
      PROVE  UNCHANGED <<applyVars, commitIndex>>
  BY <1>3 DEF HandleRequestVote, HandleRequestVoteReply, LoseCall
<1>4. ASSUME NEW m \in calls, HandleAppendEntries(m)
      PROVE  Quiet
  <2>1. UNCHANGED applyVars
    BY <1>4 DEF HandleAppendEntries
  <2>2. PICK h, b : ReplInv(h, b)
    BY DEF ReplicationInv
  <2> QED
    BY <1>4, <2>1, <2>2, AcceptRaisesCommit
<1>5. ASSUME NEW m \in calls, HandleAppendEntriesReply(m)
      PROVE  Quiet
  <2> DEFINE match == IF m.newMatch > matchIndex[m.to][m.from]
                      THEN [matchIndex[m.to] EXCEPT ![m.from] = m.newMatch]
                      ELSE matchIndex[m.to]
  <2>1. m.to \in Server
    BY CallFields
  <2>2. UNCHANGED applyVars
    BY <1>5 DEF HandleAppendEntriesReply
  <2>3. UNCHANGED commitIndex \/ AdvanceCommitIndex(m.to, match)
    BY <1>5 DEF HandleAppendEntriesReply
  <2> HIDE DEF match
  <2>4. ASSUME AdvanceCommitIndex(m.to, match)
        PROVE  \A j \in Server : commitIndex[j] <= commitIndex'[j]
    <3>1. \/ UNCHANGED <<commitIndex, committed>>
          \/ \E top \in Nat :
               /\ Contains(m.to, top, currentTerm[m.to])
               /\ top > commitIndex[m.to]
               /\ Cardinality({p \in Server : match[p] >= top}) >= Majority
               /\ commitIndex' = [commitIndex EXCEPT ![m.to] = top]
               /\ committed' = IF top > Len(committed) THEN Prefix(log[m.to], top)
                                                       ELSE committed
      BY <2>1, <2>4, AdvanceIs
    <3>2. ASSUME NEW top \in Nat, top > commitIndex[m.to],
                 commitIndex' = [commitIndex EXCEPT ![m.to] = top]
          PROVE  \A j \in Server : commitIndex[j] <= commitIndex'[j]
      <4>1. commitIndex'[m.to] = top
        BY <2>1, <3>2 DEF TypeOK
      <4>2. \A j \in Server : j # m.to => commitIndex'[j] = commitIndex[j]
        BY <3>2 DEF TypeOK
      <4> QED
        BY <1>0, <3>2, <4>1, <4>2
    <3>3. ASSUME UNCHANGED <<commitIndex, committed>>
          PROVE  \A j \in Server : commitIndex[j] <= commitIndex'[j]
      BY <1>0, <3>3
    <3> QED
      BY <3>1, <3>2, <3>3
  <2> QED
    BY <1>0, <2>2, <2>3, <2>4
<1>6. ASSUME NEW m \in calls, CrashInHandler(m)
      PROVE  \E i \in Server : Reboot(i)
  <2>1. m.to \in Server
    BY CallFields
  <2> QED
    BY <1>6, <2>1 DEF CrashInHandler
<1>7. CASE UNCHANGED vars
  BY <1>1, <1>7 DEF vars
<1> HIDE DEF Quiet
<1>8. CASE \E i \in Server : ServerStep(i)
  BY <1>8, <1>1, <1>2 DEF ServerStep, Restart, Quiet
<1>9. CASE \E m \in calls : CallStep(m)
  BY <1>9, <1>1, <1>3, <1>4, <1>5, <1>6 DEF CallStep, Quiet
<1> QED
  BY <1>1, <1>7, <1>8, <1>9 DEF Next, Quiet

\* The slots of a log from one index to another.
LEMMA SlotsAre ==
    ASSUME NEW s \in Seq(Entry), NEW a \in Nat, NEW c \in Nat, a <= c, c <= Len(s)
    PROVE  /\ Len(Slots(s, a + 1, c)) = c - a
           /\ \A k \in 1..(c - a) : Slots(s, a + 1, c)[k] =
                [index |-> a + k, term |-> s[a + k].term, op |-> s[a + k].op]
<1>1. c - a \in Nat /\ c - (a + 1) + 1 = c - a /\ \A k \in Nat : a + 1 + k - 1 = a + k
  OBVIOUS
<1>2. Slots(s, a + 1, c) =
        [k \in 1..(c - a) |-> [index |-> a + 1 + k - 1, term |-> s[a + 1 + k - 1].term,
                               op |-> s[a + 1 + k - 1].op]]
  BY <1>1 DEF Slots
<1>3. Slots(s, a + 1, c) \in Seq(Slot) /\ DOMAIN Slots(s, a + 1, c) = 1..(c - a)
  <2>1. Slots(s, a + 1, c) \in Seq(Slot)
    BY SlotsType
  <2> QED
    BY <1>2, <2>1
<1>4. Len(Slots(s, a + 1, c)) = c - a
  <2>1. PICK q \in Seq(Slot) : q = Slots(s, a + 1, c)
    BY <1>3
  <2>2. Len(q) \in Nat /\ DOMAIN q = 1..Len(q) /\ DOMAIN q = 1..(c - a)
    BY <1>3, <2>1, LenProperties
  <2> QED
    BY <1>1, <2>1, <2>2
<1>5. \A k \in 1..(c - a) : Slots(s, a + 1, c)[k] =
        [index |-> a + k, term |-> s[a + k].term, op |-> s[a + k].op]
  <2> SUFFICES ASSUME NEW k \in 1..(c - a)
               PROVE  Slots(s, a + 1, c)[k] =
                        [index |-> a + k, term |-> s[a + k].term, op |-> s[a + k].op]
    OBVIOUS
  <2>1. a + 1 + k - 1 = a + k
    OBVIOUS
  <2> QED
    BY <1>2, <2>1
<1> QED
  BY <1>4, <1>5

\* The applier of one server, whatever the others do.
ApplyInvOf(i) ==
    /\ lastApplied[i] <= commitIndex[i]
    /\ lastApplied[i] = Len(applied[i]) + Len(toApply[i])
    /\ \A k \in 1..Len(applied[i]) : applied[i][k] = committed[k]
    /\ \A k \in 1..Len(toApply[i]) : toApply[i][k] = SlotAt(Len(applied[i]) + k)

\* Server i has applied a entries and copied t more of the d committed ones, of
\* which it knows c to be committed
Applier(i, a, t, c, d) ==
    /\ a = Len(applied[i]) /\ t = Len(toApply[i]) /\ c = commitIndex[i] /\ d = Len(committed)
    /\ lastApplied[i] = a + t /\ a + t <= c /\ c <= d
    /\ \A k \in 1..a : applied[i][k] = committed[k]
    /\ \A k \in 1..t : toApply[i][k] = SlotAt(a + k)

\* The numbers an applier deals with.
LEMMA ApplierIs ==
    ASSUME TypeOK, ReplicationInv, ApplyInv, NEW i \in Server
    PROVE  \E a \in Nat, t \in Nat, c \in Nat, d \in Nat : Applier(i, a, t, c, d)
<1>1. PICK a \in Nat, t \in Nat : a = Len(applied[i]) /\ t = Len(toApply[i])
  BY LenProperties DEF TypeOK
<1>2. PICK c \in Nat, d \in Nat : c = commitIndex[i] /\ d = Len(committed) /\ c <= d
  BY BelievedIsCommitted
<1>3. lastApplied[i] <= c /\ lastApplied[i] = a + t
  BY <1>1, <1>2 DEF ApplyInv
<1>4. a + t <= c
  BY <1>3
<1>5. /\ \A k \in 1..a : applied[i][k] = committed[k]
      /\ \A k \in 1..t : toApply[i][k] = SlotAt(a + k)
  BY <1>1 DEF ApplyInv
<1>6. Applier(i, a, t, c, d)
  BY <1>1, <1>2, <1>3, <1>4, <1>5 DEF Applier
<1> QED
  BY <1>6

\* A server whose applier does nothing keeps what it has, whatever is committed.
LEMMA ApplyRests ==
    ASSUME TypeOK, ReplicationInv, ApplyInv, Extends, NEW i \in Server,
           lastApplied'[i] = lastApplied[i], toApply'[i] = toApply[i],
           applied'[i] = applied[i], commitIndex'[i] \in Nat, commitIndex[i] <= commitIndex'[i]
    PROVE  ApplyInvOf(i)'
<1>1. PICK a \in Nat, t \in Nat, c \in Nat, d \in Nat : Applier(i, a, t, c, d)
  BY ApplierIs
<1>2. PICK e \in Nat : e = commitIndex'[i]
  OBVIOUS
<1>3. /\ a = Len(applied[i]) /\ t = Len(toApply[i]) /\ c = commitIndex[i] /\ d = Len(committed)
      /\ lastApplied[i] = a + t /\ a + t <= c /\ c <= d /\ c <= e
      /\ \A k \in 1..a : applied[i][k] = committed[k]
      /\ \A k \in 1..t : toApply[i][k] = SlotAt(a + k)
  BY <1>1, <1>2 DEF Applier
<1>4. \A x \in 1..d : committed'[x] = committed[x]
  BY <1>3 DEF Extends
<1>31. a + t <= c /\ c <= d /\ c <= e
  BY <1>3
<1>5. a + t <= e
  BY <1>31
<1>6. \A k \in 1..a : applied[i][k] = committed'[k]
  <2>1. \A k \in 1..a : k \in 1..d
    BY <1>31
  <2> QED
    BY <1>3, <1>4, <2>1
<1>7. ASSUME NEW k \in 1..t
      PROVE  toApply[i][k] = SlotAt(a + k)'
  <2>1. PICK n \in Nat : n = a + k /\ n \in 1..d
    BY <1>31
  <2>2. toApply[i][k] = SlotAt(n)
    BY <1>3, <2>1
  <2>3. SlotAt(n)' = SlotAt(n)
    BY <1>4, <2>1 DEF SlotAt
  <2> QED
    BY <2>1, <2>2, <2>3
<1> QED
  BY <1>2, <1>3, <1>5, <1>6, <1>7 DEF ApplyInvOf

\* applier_loop copies committed entries.
LEMMA FetchKeepsApply ==
    ASSUME TypeOK, TypeOK', ReplicationInv, ApplyInv, NEW i \in Server, FetchCommitted(i)
    PROVE  ApplyInvOf(i)'
<1>1. PICK a \in Nat, t \in Nat, c \in Nat, d \in Nat : Applier(i, a, t, c, d)
  BY ApplierIs
<1>2. /\ toApply[i] = <<>> /\ Len(toApply[i]) = 0 /\ lastApplied[i] < commitIndex[i]
      /\ toApply' = [toApply EXCEPT ![i] = Slots(log[i], lastApplied[i] + 1, commitIndex[i])]
      /\ lastApplied' = [lastApplied EXCEPT ![i] = commitIndex[i]]
      /\ committed' = committed /\ applied' = applied /\ commitIndex' = commitIndex
  BY EmptySeq DEF FetchCommitted
<1>3. /\ a = Len(applied[i]) /\ c = commitIndex[i] /\ lastApplied[i] = a
      /\ \A k \in 1..a : applied[i][k] = committed[k]
  BY <1>1, <1>2 DEF Applier
<1>4. a <= c
  BY <1>2, <1>3
<1>5. c <= Len(log[i]) /\ \A x \in 1..c : log[i][x] = committed[x]
  BY <1>3, BelievedIsCommitted
<1>6. toApply'[i] = Slots(log[i], a + 1, c) /\ lastApplied'[i] = c
  BY <1>2, <1>3, <1>4 DEF TypeOK
<1>7. PICK s \in Seq(Entry) : s = log[i] /\ c <= Len(s)
  BY <1>5 DEF TypeOK
<1>8. /\ Len(Slots(s, a + 1, c)) = c - a
      /\ \A k \in 1..(c - a) : Slots(s, a + 1, c)[k] =
           [index |-> a + k, term |-> s[a + k].term, op |-> s[a + k].op]
  BY <1>4, <1>7, SlotsAre
<1>9. ASSUME NEW k \in 1..(c - a)
      PROVE  toApply'[i][k] = SlotAt(a + k)'
  <2>1. a + k \in 1..c
    BY <1>4
  <2>2. s[a + k] = committed[a + k]
    BY <1>5, <1>7, <2>1
  <2> QED
    BY <1>2, <1>6, <1>7, <1>8, <2>2 DEF SlotAt
<1>10. PICK u \in Nat : u = c - a /\ c = a + u
  BY <1>4
<1>11. Len(toApply'[i]) = u /\ Len(applied'[i]) = a
  BY <1>2, <1>3, <1>6, <1>7, <1>8, <1>10
<1>12. lastApplied'[i] <= commitIndex'[i] /\ lastApplied'[i] = a + u
  BY <1>2, <1>3, <1>6, <1>10
<1>13. \A k \in 1..a : applied'[i][k] = committed'[k]
  BY <1>2, <1>3
<1>14. \A k \in 1..u : toApply'[i][k] = SlotAt(a + k)'
  BY <1>9, <1>10
<1> QED
  BY <1>11, <1>12, <1>13, <1>14 DEF ApplyInvOf

\* What applier_loop applies is the next committed entry.
LEMMA AppliesNext ==
    ASSUME TypeOK, ReplicationInv, ApplyInv, NEW i \in Server, ApplyEntry(i),
           NEW n \in Nat, n = Len(applied[i]) + 1
    PROVE  /\ n \in 1..Len(committed) /\ committed[n] \in Entry
           /\ Head(toApply[i]) = SlotAt(n)
           /\ applied' = [applied EXCEPT ![i] = Append(@, committed[n])]
<1>1. PICK a \in Nat, t \in Nat, c \in Nat, d \in Nat : Applier(i, a, t, c, d)
  BY ApplierIs
<1>2. toApply[i] \in Seq(Slot) /\ toApply[i] # <<>>
  BY DEF ApplyEntry, TypeOK
<1>3. /\ a = Len(applied[i]) /\ t = Len(toApply[i]) /\ c = commitIndex[i] /\ d = Len(committed)
      /\ a + t <= c /\ c <= d /\ \A k \in 1..t : toApply[i][k] = SlotAt(a + k)
  BY <1>1 DEF Applier
<1>4. t > 0 /\ n = a + 1
  BY <1>2, <1>3, EmptySeq
<1>5. n \in 1..d /\ n \in 1..c /\ 1 \in 1..t
  <2>1. a + t <= c /\ c <= d
    BY <1>3
  <2> QED
    BY <1>4, <2>1
<1>6. Head(toApply[i]) = SlotAt(n)
  <2>1. Head(toApply[i]) = toApply[i][1]
    BY <1>2
  <2> QED
    BY <1>3, <1>4, <1>5, <2>1
<1>7. committed[n] \in Entry
  BY <1>3, <1>5, BelievedIsCommitted
<1>8. [term |-> SlotAt(n).term, op |-> SlotAt(n).op] = committed[n]
  BY <1>7 DEF SlotAt, Entry
<1>9. applied' = [applied EXCEPT ![i] = Append(@, committed[n])]
  BY <1>6, <1>8 DEF ApplyEntry
<1> QED
  BY <1>3, <1>5, <1>6, <1>7, <1>9

\* applier_loop applies an entry.
LEMMA ApplyKeepsApply ==
    ASSUME TypeOK, TypeOK', ReplicationInv, ApplyInv, NEW i \in Server, ApplyEntry(i)
    PROVE  ApplyInvOf(i)'
<1>1. PICK a \in Nat, t \in Nat, c \in Nat, d \in Nat : Applier(i, a, t, c, d)
  BY ApplierIs
<1>2. /\ a = Len(applied[i]) /\ t = Len(toApply[i]) /\ c = commitIndex[i]
      /\ lastApplied[i] = a + t /\ a + t <= c
      /\ \A k \in 1..a : applied[i][k] = committed[k]
      /\ \A k \in 1..t : toApply[i][k] = SlotAt(a + k)
  BY <1>1 DEF Applier
<1>3. PICK n \in Nat : n = a + 1
  OBVIOUS
<1>4. committed[n] \in Entry /\ applied' = [applied EXCEPT ![i] = Append(@, committed[n])]
  BY <1>2, <1>3, AppliesNext
<1>5. /\ toApply[i] # <<>> /\ toApply' = [toApply EXCEPT ![i] = Tail(@)]
      /\ committed' = committed /\ commitIndex' = commitIndex /\ lastApplied' = lastApplied
  BY DEF ApplyEntry
<1>6. applied[i] \in Seq(Entry) /\ toApply[i] \in Seq(Slot)
  BY DEF TypeOK
<1>7. applied'[i] = Append(applied[i], committed[n]) /\ toApply'[i] = Tail(toApply[i])
  BY <1>4, <1>5 DEF TypeOK
<1>8. /\ Len(applied'[i]) = n
      /\ \A k \in 1..a : applied'[i][k] = applied[i][k]
      /\ applied'[i][n] = committed[n]
  BY <1>2, <1>3, <1>4, <1>6, <1>7, AppendProperties
<1>9. PICK u \in Nat : t = u + 1 /\ u = Len(toApply'[i])
  <2>1. PICK q \in Seq(Slot) : q = toApply[i]
    BY <1>6
  <2>2. Len(q) = t /\ q # <<>> /\ toApply'[i] = Tail(q)
    BY <1>2, <1>5, <1>7, <2>1
  <2>3. Len(Tail(q)) = t - 1 /\ t > 0
    BY <2>2, HeadTailProperties, EmptySeq
  <2> QED
    BY <2>2, <2>3
<1>10. \A k \in 1..u : toApply'[i][k] = toApply[i][k + 1]
  BY <1>5, <1>6, <1>7, <1>9, HeadTailProperties, ZenonT(40)
<1>11. \A k \in 1..n : applied'[i][k] = committed[k]
  <2>1. \A k \in 1..n : k = n \/ k \in 1..a
    BY <1>3
  <2> QED
    BY <1>2, <1>8, <2>1
<1>12. ASSUME NEW k \in 1..u
       PROVE  toApply'[i][k] = SlotAt(n + k)
  <2>1. k + 1 \in 1..t /\ a + (k + 1) = n + k
    BY <1>3, <1>9
  <2> QED
    BY <1>2, <1>10, <2>1
<1>13. lastApplied'[i] = n + u /\ lastApplied'[i] <= commitIndex'[i]
  <2>1. t = u + 1
    BY <1>9
  <2>2. a + t = n + u
    BY <1>3, <2>1
  <2> QED
    BY <1>2, <1>5, <2>2
<1>14. \A k : SlotAt(k)' = SlotAt(k)
  BY <1>5 DEF SlotAt
<1> QED
  BY <1>5, <1>8, <1>9, <1>11, <1>12, <1>13, <1>14 DEF ApplyInvOf

\* Every step keeps the applier's invariant.
LEMMA ApplyStep ==
    TypeOK /\ TypeOK' /\ ElectionInv /\ LogInv /\ SmallOrTimely /\ ReplicationInv
      /\ ApplyInv /\ [Next]_vars => ApplyInv'
<1> SUFFICES ASSUME TypeOK, TypeOK', ElectionInv, LogInv, SmallOrTimely, ReplicationInv,
                    ApplyInv, [Next]_vars
             PROVE  ApplyInv'
  OBVIOUS
<1>1. Extends
  BY CommittedExtends
<1>2. \A j \in Server : commitIndex[j] \in Nat /\ commitIndex'[j] \in Nat
  BY DEF TypeOK
<1>3. ASSUME UNCHANGED applyVars, \A j \in Server : commitIndex[j] <= commitIndex'[j]
      PROVE  \A j \in Server : ApplyInvOf(j)'
  <2> SUFFICES ASSUME NEW j \in Server PROVE ApplyInvOf(j)'
    OBVIOUS
  <2>1. /\ lastApplied'[j] = lastApplied[j] /\ toApply'[j] = toApply[j]
        /\ applied'[j] = applied[j]
    BY <1>3 DEF applyVars
  <2> QED
    BY <1>1, <1>2, <1>3, <2>1, ApplyRests
<1>4. ASSUME NEW i \in Server, FetchCommitted(i)
      PROVE  \A j \in Server : ApplyInvOf(j)'
  <2> SUFFICES ASSUME NEW j \in Server PROVE ApplyInvOf(j)'
    OBVIOUS
  <2>1. CASE j = i
    BY <1>4, <2>1, FetchKeepsApply
  <2>2. CASE j # i
    <3>1. /\ lastApplied'[j] = lastApplied[j] /\ toApply'[j] = toApply[j]
          /\ applied'[j] = applied[j] /\ commitIndex[j] <= commitIndex'[j]
      BY <1>2, <1>4, <2>2 DEF FetchCommitted, TypeOK
    <3> QED
      BY <1>1, <1>2, <3>1, ApplyRests
  <2> QED
    BY <2>1, <2>2
<1>5. ASSUME NEW i \in Server, ApplyEntry(i)
      PROVE  \A j \in Server : ApplyInvOf(j)'
  <2> SUFFICES ASSUME NEW j \in Server PROVE ApplyInvOf(j)'
    OBVIOUS
  <2>1. CASE j = i
    BY <1>5, <2>1, ApplyKeepsApply
  <2>2. CASE j # i
    <3>1. /\ lastApplied'[j] = lastApplied[j] /\ toApply'[j] = toApply[j]
          /\ applied'[j] = applied[j] /\ commitIndex[j] <= commitIndex'[j]
      BY <1>2, <1>5, <2>2 DEF ApplyEntry, TypeOK
    <3> QED
      BY <1>1, <1>2, <3>1, ApplyRests
  <2> QED
    BY <2>1, <2>2
<1>6. ASSUME NEW i \in Server, Reboot(i)
      PROVE  \A j \in Server : ApplyInvOf(j)'
  <2> SUFFICES ASSUME NEW j \in Server PROVE ApplyInvOf(j)'
    OBVIOUS
  <2>1. CASE j = i
    <3>1. /\ lastApplied'[j] = 0 /\ commitIndex'[j] = 0
          /\ toApply'[j] = <<>> /\ applied'[j] = <<>>
      BY <1>6, <2>1 DEF Reboot, TypeOK
    <3>2. Len(toApply'[j]) = 0 /\ Len(applied'[j]) = 0
      BY <3>1, EmptySeq
    <3> QED
      BY <3>1, <3>2 DEF ApplyInvOf
  <2>2. CASE j # i
    <3>1. /\ lastApplied'[j] = lastApplied[j] /\ toApply'[j] = toApply[j]
          /\ applied'[j] = applied[j] /\ commitIndex[j] <= commitIndex'[j]
      BY <1>2, <1>6, <2>2 DEF Reboot, TypeOK
    <3> QED
      BY <1>1, <1>2, <3>1, ApplyRests
  <2> QED
    BY <2>1, <2>2
<1>7. \A j \in Server : ApplyInvOf(j)'
  BY <1>3, <1>4, <1>5, <1>6, ApplyForms
<1> QED
  BY <1>7 DEF ApplyInv, ApplyInvOf

\* The state machine of a node has been given a prefix of what is committed.
THEOREM AppliesCommitted == Spec /\ []SmallOrTimely => []ApplyInv
<1>1. Init => ApplyInv
  <2> SUFFICES ASSUME Init PROVE ApplyInv
    OBVIOUS
  <2>1. \A i \in Server : /\ lastApplied[i] = 0 /\ commitIndex[i] = 0
                          /\ toApply[i] = <<>> /\ applied[i] = <<>>
    BY DEF Init
  <2>2. \A i \in Server : Len(toApply[i]) = 0 /\ Len(applied[i]) = 0
    BY <2>1, EmptySeq
  <2>3. 0 <= 0 /\ 0 = 0 + 0 /\ 1..0 = {}
    OBVIOUS
  <2>4. \A i \in Server : /\ lastApplied[i] <= commitIndex[i]
                          /\ lastApplied[i] = Len(applied[i]) + Len(toApply[i])
                          /\ 1..Len(toApply[i]) = {} /\ 1..Len(applied[i]) = {}
    BY <2>1, <2>2, <2>3
  <2> QED
    BY <2>4 DEF ApplyInv
<1>2. TypeOK /\ TypeOK' /\ ElectionInv /\ LogInv /\ SmallOrTimely /\ ReplicationInv
        /\ ApplyInv /\ [Next]_vars => ApplyInv'
  BY ApplyStep
<1> QED
  BY <1>1, <1>2, TypeCorrect, ElectionInvariant, LogInvariant, ReplicationInvariant, PTL
     DEF Spec

\* What is committed grows by a step of the promise.
LEMMA GrowsIsCommit ==
    ASSUME TypeOK, TypeOK', Extends, committed' # committed, UNCHANGED <<applied, acked>>
    PROVE  Promise!Commit
<1>1. PICK old \in Seq(Entry), new \in Seq(Entry) : old = committed /\ new = committed'
  BY DEF TypeOK
<1>2. /\ Len(old) \in Nat /\ Len(new) \in Nat /\ Len(old) <= Len(new) /\ new # old
      /\ \A x \in 1..Len(old) : new[x] = old[x]
  BY <1>1 DEF Extends
<1>3. Len(new) # Len(old)
  BY <1>1, <1>2, SeqEqual
<1>4. Len(new) > Len(old)
  BY <1>2, <1>3
<1>5. SubSeq(new, 1, Len(old)) = old
  <2>1. /\ SubSeq(new, 1, Len(old)) \in Seq(Entry)
        /\ Len(SubSeq(new, 1, Len(old))) = Len(old)
        /\ \A x \in 1..Len(old) : SubSeq(new, 1, Len(old))[x] = new[x]
    BY <1>1, <1>2, SubSeqProperties
  <2> QED
    BY <1>1, <1>2, <2>1, SeqEqual
<1> QED
  BY <1>1, <1>4, <1>5 DEF Promise!Commit

\* An entry is applied by a step of the promise.
LEMMA ApplyIsApply ==
    ASSUME TypeOK, ReplicationInv, ApplyInv, NEW i \in Server, ApplyEntry(i)
    PROVE  Promise!Apply(i)
<1>1. PICK n \in Nat : n = Len(applied[i]) + 1
  BY LenProperties DEF TypeOK
<1>2. /\ n \in 1..Len(committed)
      /\ Head(toApply[i]) = SlotAt(n)
      /\ applied' = [applied EXCEPT ![i] = Append(@, committed[n])]
  BY <1>1, AppliesNext
<1>3. n <= Len(committed)
  <2>1. Len(committed) \in Nat
    BY LenProperties DEF TypeOK
  <2> QED
    BY <1>2, <2>1
<1>4. acked' = acked \cup (commitWaiters[i] \cap {Head(toApply[i])}) /\ UNCHANGED committed
  BY DEF ApplyEntry
<1>5. acked' \in {acked, acked \cup {SlotAt(n)}}
  BY <1>2, <1>4
<1> QED
  BY <1>1, <1>2, <1>3, <1>4, <1>5 DEF Promise!Apply, SlotAt

\* Every step of the engine is a step of the promise, or changes nothing of it.
LEMMA StepIsPromised ==
    TypeOK /\ TypeOK' /\ ElectionInv /\ LogInv /\ SmallOrTimely /\ ReplicationInv
      /\ ApplyInv /\ [Next]_vars => [Promise!Next]_(Promise!logVars)
<1> SUFFICES ASSUME TypeOK, TypeOK', ElectionInv, LogInv, SmallOrTimely, ReplicationInv,
                    ApplyInv, [Next]_vars
             PROVE  Promise!Next \/ UNCHANGED <<committed, applied, acked>>
  BY DEF Promise!logVars
<1>1. ASSUME UNCHANGED applyVars
      PROVE  Promise!Commit \/ UNCHANGED <<committed, applied, acked>>
  <2>1. UNCHANGED <<applied, acked>>
    BY <1>1 DEF applyVars
  <2> QED
    BY <2>1, CommittedExtends, GrowsIsCommit
<1>2. ASSUME NEW i \in Server, FetchCommitted(i)
      PROVE  UNCHANGED <<committed, applied, acked>>
  BY <1>2 DEF FetchCommitted
<1>3. ASSUME NEW i \in Server, ApplyEntry(i)
      PROVE  Promise!Apply(i)
  BY <1>3, ApplyIsApply
<1>4. ASSUME NEW i \in Server, Reboot(i)
      PROVE  Promise!Reset(i)
  BY <1>4 DEF Reboot, Promise!Reset
<1> QED
  BY <1>1, <1>2, <1>3, <1>4, ApplyForms DEF Promise!Next

\* The engine implements the promise.
THEOREM EngineImplements == Spec /\ []SmallOrTimely => ImplementsReplicatedLog
<1>1. Init => Promise!Init
  BY DEF Init, Promise!Init
<1>2. TypeOK /\ TypeOK' /\ ElectionInv /\ LogInv /\ SmallOrTimely /\ ReplicationInv
        /\ ApplyInv /\ [Next]_vars => [Promise!Next]_(Promise!logVars)
  BY StepIsPromised
<1> QED
  BY <1>1, <1>2, TypeCorrect, ElectionInvariant, LogInvariant, ReplicationInvariant,
     AppliesCommitted, PTL DEF Spec, ImplementsReplicatedLog, Promise!Spec

\* What a client was told is applied stays committed, at the index it was told of
AckedStays == \A w \in acked : w.index \in 1..Len(committed) /\ w = SlotAt(w.index)

\* No step takes back what a client was told, or tells it of anything else.
LEMMA AckedStep ==
    TypeOK /\ TypeOK' /\ ElectionInv /\ LogInv /\ SmallOrTimely /\ ReplicationInv
      /\ ApplyInv /\ AckedStays /\ [Next]_vars => AckedStays'
<1> SUFFICES ASSUME TypeOK, TypeOK', ElectionInv, LogInv, SmallOrTimely, ReplicationInv,
                    ApplyInv, AckedStays, [Next]_vars
             PROVE  AckedStays'
  OBVIOUS
<1>1. Extends
  BY CommittedExtends
<1>2. ASSUME NEW n \in 1..Len(committed)
      PROVE  n \in 1..Len(committed') /\ SlotAt(n)' = SlotAt(n)
  <2>1. n \in 1..Len(committed')
    BY <1>1 DEF Extends
  <2>2. committed'[n] = committed[n]
    BY <1>1 DEF Extends
  <2> QED
    BY <2>1, <2>2 DEF SlotAt
<1>3. ASSUME NEW w \in acked
      PROVE  w.index \in 1..Len(committed') /\ w = SlotAt(w.index)'
  <2>1. PICK n \in 1..Len(committed) : n = w.index /\ w = SlotAt(n)
    BY <1>3 DEF AckedStays
  <2> QED
    BY <1>2, <2>1
<1>4. CASE UNCHANGED acked
  BY <1>3, <1>4 DEF AckedStays
<1>5. ASSUME NEW i \in Server, ApplyEntry(i)
      PROVE  AckedStays'
  <2>1. PICK n \in Nat : n = Len(applied[i]) + 1
    BY LenProperties DEF TypeOK
  <2>2. n \in 1..Len(committed) /\ Head(toApply[i]) = SlotAt(n)
    BY <1>5, <2>1, AppliesNext
  <2>3. \A w \in acked' : w \in acked \/ w = SlotAt(n)
    BY <1>5, <2>2 DEF ApplyEntry
  <2>4. SlotAt(n).index = n
    BY DEF SlotAt
  <2>5. n \in 1..Len(committed') /\ SlotAt(n)' = SlotAt(n)
    BY <1>2, <2>2
  <2>6. ASSUME NEW w \in acked', w = SlotAt(n)
        PROVE  w.index \in 1..Len(committed') /\ w = SlotAt(w.index)'
    <3>1. w.index = n
      BY <2>4, <2>6
    <3> QED
      BY <2>5, <2>6, <3>1
  <2> QED
    BY <1>3, <2>3, <2>6 DEF AckedStays
<1>6. ASSUME NEW i \in Server, FetchCommitted(i) \/ Reboot(i)
      PROVE  UNCHANGED acked
  BY <1>6 DEF FetchCommitted, Reboot
<1> QED
  BY <1>4, <1>5, <1>6, ApplyForms DEF applyVars

\* A client that append_entry answered never loses its write: the entry stays
\* committed at the index it was applied at, whatever crashes and whoever leads.
THEOREM AckedWritesStay == Spec /\ []SmallOrTimely => []AckedStays
<1>1. Init => AckedStays
  BY DEF Init, AckedStays
<1>2. TypeOK /\ TypeOK' /\ ElectionInv /\ LogInv /\ SmallOrTimely /\ ReplicationInv
        /\ ApplyInv /\ AckedStays /\ [Next]_vars => AckedStays'
  BY AckedStep
<1> QED
  BY <1>1, <1>2, TypeCorrect, ElectionInvariant, LogInvariant, ReplicationInvariant,
     AppliesCommitted, PTL DEF Spec

-----------------------------------------------------------------------------
(* Three servers, as in nodes_config.json and nodes_config_kv.json         *)

\* With at most three servers a new leader has lost nothing, however late the
\* replies are.
THEOREM ThreeLeadersComplete ==
    ASSUME Cardinality(Server) <= 3
    PROVE  Spec => []LeaderCompleteness
<1>1. SmallOrTimely
  BY DEF SmallOrTimely
<1> QED
  BY <1>1, LeadersComplete, PTL

\* With at most three servers what a node believes committed was committed.
THEOREM ThreeCommitPrefixes ==
    ASSUME Cardinality(Server) <= 3
    PROVE  Spec => []CommittedPrefix
<1>1. SmallOrTimely
  BY DEF SmallOrTimely
<1> QED
  BY <1>1, CommitsArePrefixes, PTL

\* With at most three servers the engine keeps its promise to the state machines
\* and the clients, without any assumption on the calls.
THEOREM ThreeImplement ==
    ASSUME Cardinality(Server) <= 3
    PROVE  Spec => ImplementsReplicatedLog
<1>1. SmallOrTimely
  BY DEF SmallOrTimely
<1> QED
  BY <1>1, EngineImplements, PTL

=============================================================================
