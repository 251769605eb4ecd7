------------------------------ MODULE RaftNode ------------------------------
(***************************************************************************)
(* The consensus engine of part2_3_replication/raft_node.py: one RaftNode  *)
(* per server, the gRPC calls between them (raft_server.py), the client    *)
(* calls blocked in append_entry, and crash and restart.                   *)
(*                                                                         *)
(* Every method of RaftNode that changes state runs under the node's lock, *)
(* so it is one action here.  What the code does outside the lock (a gRPC  *)
(* call in flight, the vote count being waited for, the applier's batch of *)
(* copied entries, a blocked client) is state between two actions.         *)
(*                                                                         *)
(* current_term, voted_for and log are written to disk before the lock is  *)
(* released, so the variables currentTerm, votedFor and log also stand for *)
(* the files; the other variables are lost in a crash.                     *)
(***************************************************************************)
EXTENDS Integers, Sequences, FiniteSets

CONSTANTS
    Server,       \* the node ids of nodes_config.json
    Op,           \* what clients append: writes, each standing for its (client_id,
                  \* seq_num), and NoOp where linearizable reads are included
    NoOp,         \* the entry of a new leader and of a linearizable read
    Nil,          \* Python's None
    Electable,    \* the servers whose election timer may expire
    Applying,     \* the servers whose applier thread is scheduled
    Faulty,       \* the servers that are killed, or isolated by fault injection
    Duplicates,   \* may identical AppendEntries calls overlap?
    MaxTerm,      \* bound on current_term
    MaxLog,       \* bound on len(log)
    MaxCalls,     \* bound on the gRPC calls in flight
    MaxRestarts   \* bound on the restarts of one server

ASSUME ServerAssumption == IsFiniteSet(Server) /\ Server # {}
ASSUME NilAssumption == Nil \notin Server
ASSUME SubsetAssumption ==
    Electable \subseteq Server /\ Applying \subseteq Server /\ Faulty \subseteq Server
ASSUME BoundAssumption ==
    /\ Duplicates \in BOOLEAN
    /\ MaxTerm \in Nat /\ MaxLog \in Nat /\ MaxCalls \in Nat /\ MaxRestarts \in Nat

VARIABLES
    currentTerm,    \* current_term (on disk)
    votedFor,       \* voted_for (on disk)
    log,            \* log (on disk); an entry's "index" is its position
    commitIndex,    \* commit_index
    lastApplied,    \* last_applied
    state,          \* state
    leaderId,       \* leader_id, the redirect hint given to clients
    nextIndex,      \* next_index
    matchIndex,     \* match_index, the node's own entry included
    votes,          \* who granted a vote in the last _start_election, {} once it is over
    toApply,        \* the applier's copied entries, not yet applied
    commitWaiters,  \* _commit_waiters: the client calls blocked in append_entry
    isolated,       \* isolated
    incarnation,    \* how often the process was restarted
    calls,          \* gRPC requests and replies in flight
    applied,        \* the entries given to the state machine since the start
    acked,          \* history: the entries whose append_entry returned a result
    committed       \* history: the longest log prefix any leader committed

diskVars == <<currentTerm, votedFor, log>>
roleVars == <<state, votes, commitWaiters>>
peerVars == <<nextIndex, matchIndex>>
applyVars == <<lastApplied, toApply, applied, acked>>
vars == <<diskVars, roleVars, peerVars, applyVars, commitIndex, committed,
          leaderId, isolated, incarnation, calls>>

Follower == "follower"
Candidate == "candidate"
Leader == "leader"

Entry == [term : Nat, op : Op \cup {NoOp}]
\* A log entry with its position: what a client waits for, what is to be applied
Slot == [index : Nat, term : Nat, op : Op \cup {NoOp}]

RequestVoteArgs ==
    [type : {"RequestVote"}, from : Server, to : Server, inc : Nat,
     term : Nat, lastLogIndex : Nat, lastLogTerm : Nat]
RequestVoteReply ==
    [type : {"RequestVoteReply"}, from : Server, to : Server, inc : Nat,
     election : Nat, term : Nat, voteGranted : BOOLEAN]
AppendEntriesArgs ==
    [type : {"AppendEntries"}, from : Server, to : Server, inc : Nat,
     term : Nat, prevLogIndex : Nat, prevLogTerm : Nat,
     entries : Seq(Entry), leaderCommit : Nat]
\* newMatch is what the calling thread still holds, prev_idx + len(entries); a
\* conflicting term always comes with the first index of it
AppendEntriesReply ==
    {m \in [type : {"AppendEntriesReply"}, from : Server, to : Server, inc : Nat,
            newMatch : Nat, term : Nat, success : BOOLEAN,
            conflictIndex : Nat, conflictTerm : Nat] :
        m.conflictTerm > 0 => m.conflictIndex > 0}
Call == RequestVoteArgs \cup RequestVoteReply \cup AppendEntriesArgs \cup AppendEntriesReply

-----------------------------------------------------------------------------
(* Log helpers                                                             *)

\* _last_log_index: positions and indexes agree while no snapshot is installed
LastLogIndex(i) == Len(log[i])
\* _last_log_term
LastLogTerm(i) == IF log[i] = <<>> THEN 0 ELSE log[i][Len(log[i])].term
\* The term of the entry at an index, 0 before the first one
TermAt(i, index) == IF index = 0 THEN 0 ELSE log[i][index].term

\* Mutant: the longer log wins whatever its last term
LongerLogUpToDate(i, candIdx, candTerm) == candIdx >= LastLogIndex(i)

\* _candidate_log_up_to_date
CandidateLogUpToDate(i, candIdx, candTerm) ==
    IF candTerm # LastLogTerm(i) THEN candTerm > LastLogTerm(i)
                                 ELSE candIdx >= LastLogIndex(i)

\* Both votes_needed and majority
Majority == Cardinality(Server) \div 2 + 1

\* handle_append_entries: does the entry before the sent ones differ?
\* Mutant: the term of that entry is not compared
NeverConflicts(i, prev, prevTerm) == FALSE

Conflicts(i, prev, prevTerm) == prev > 0 /\ log[i][prev].term # prevTerm

\* Mutant: an entry of another term is kept instead of being replaced
MergeKeeping(old, prev, entries) ==
    old \o SubSeq(entries, Len(old) - prev + 1, Len(entries))

\* handle_append_entries: entries already held are kept, the first one with
\* another term and everything after it is replaced, what is missing is added
Merge(old, prev, entries) ==
    LET last == prev + Len(entries)
        Held(k) == /\ k <= Len(old)
                   /\ \A j \in (prev + 1)..k : old[j].term = entries[j - prev].term
    IN  IF Held(last) THEN old
        ELSE [k \in 1..last |-> IF Held(k) THEN old[k] ELSE entries[k - prev]]

\* handle_append_entries: the first index of the run of equal terms ending at prev
FirstOfTerm(i, prev) ==
    CHOOSE c \in 1..prev :
        /\ \A j \in c..prev : log[i][j].term = log[i][prev].term
        /\ c > 1 => log[i][c - 1].term # log[i][prev].term

\* _send_append_entries_to: the last own entry of the follower's conflicting term
LastOfTerm(i, t) ==
    LET S == {k \in 1..Len(log[i]) : log[i][k].term = t}
    IN  IF S = {} THEN 0 ELSE CHOOSE k \in S : \A l \in S : l <= k

\* Mutant: a hint of 0 is not raised to 1
NextWithoutMax(i, conflictIndex, conflictTerm) ==
    LET found == LastOfTerm(i, conflictTerm) IN
    IF conflictTerm > 0 /\ found > 0 THEN found + 1 ELSE conflictIndex

\* _send_append_entries_to: the new next_index after a refusal
NextAfterConflict(i, conflictIndex, conflictTerm) ==
    LET found == LastOfTerm(i, conflictTerm) IN
    IF conflictTerm > 0
    THEN IF found > 0 THEN found + 1 ELSE conflictIndex
    ELSE IF conflictIndex > 1 THEN conflictIndex ELSE 1

\* The entries of a log up to an index
Prefix(s, n) == SubSeq(s, 1, n)

-----------------------------------------------------------------------------
Init ==
    /\ currentTerm = [i \in Server |-> 0]
    /\ votedFor = [i \in Server |-> Nil]
    /\ log = [i \in Server |-> <<>>]
    /\ commitIndex = [i \in Server |-> 0]
    /\ lastApplied = [i \in Server |-> 0]
    /\ state = [i \in Server |-> Follower]
    /\ leaderId = [i \in Server |-> Nil]
    /\ nextIndex = [i \in Server |-> [p \in Server |-> 1]]
    /\ matchIndex = [i \in Server |-> [p \in Server |-> 0]]
    /\ votes = [i \in Server |-> {}]
    /\ toApply = [i \in Server |-> <<>>]
    /\ commitWaiters = [i \in Server |-> {}]
    /\ isolated = [i \in Server |-> FALSE]
    /\ incarnation = [i \in Server |-> 0]
    /\ calls = {}
    /\ applied = [i \in Server |-> <<>>]
    /\ acked = {}
    /\ committed = <<>>

\* Mutant: the blocked clients are left waiting
StepDownSilently(i, term) ==
    /\ state' = [state EXCEPT ![i] = Follower]
    /\ currentTerm' = [currentTerm EXCEPT ![i] = term]
    /\ votedFor' = [votedFor EXCEPT ![i] = Nil]
    /\ votes' = [votes EXCEPT ![i] = {}]
    /\ UNCHANGED commitWaiters

(* _become_follower: the vote is forgotten and every blocked client is told *)
(* NotLeader.  An election thread still waiting for votes will find the     *)
(* state changed and return, so its count no longer matters.                *)
BecomeFollower(i, term) ==
    /\ state' = [state EXCEPT ![i] = Follower]
    /\ currentTerm' = [currentTerm EXCEPT ![i] = term]
    /\ votedFor' = [votedFor EXCEPT ![i] = Nil]
    /\ votes' = [votes EXCEPT ![i] = {}]
    /\ commitWaiters' = [commitWaiters EXCEPT ![i] = {}]

\* The calls in flight once call m was answered by the given replies.  Several
\* sender threads (heartbeat, append_entry) may have made the same
\* AppendEntries call, in which case another copy of it is still under way.
Answered(m, replies) ==
    \E more \in IF Duplicates /\ m.type \in {"AppendEntries", "AppendEntriesReply"}
                THEN BOOLEAN ELSE {FALSE} :
        /\ calls' = (IF more THEN calls ELSE calls \ {m}) \cup replies
        /\ Cardinality(calls') <= MaxCalls

-----------------------------------------------------------------------------
(* Election                                                                *)

\* _start_election up to the wait: sent is the set of peers the request
\* reaches the network for (none while isolated)
StartElection(i, sent) ==
    /\ i \in Electable
    /\ state[i] # Leader
    /\ currentTerm[i] < MaxTerm
    /\ isolated[i] => sent = {}
    /\ Cardinality(calls) + Cardinality(sent) <= MaxCalls
    /\ state' = [state EXCEPT ![i] = Candidate]
    /\ currentTerm' = [currentTerm EXCEPT ![i] = @ + 1]
    /\ votedFor' = [votedFor EXCEPT ![i] = i]
    /\ leaderId' = [leaderId EXCEPT ![i] = Nil]
    /\ votes' = [votes EXCEPT ![i] = {i}]
    /\ calls' = calls \cup
         {[type |-> "RequestVote", from |-> i, to |-> p, inc |-> incarnation[i],
           term |-> currentTerm[i] + 1, lastLogIndex |-> LastLogIndex(i),
           lastLogTerm |-> LastLogTerm(i)] : p \in sent}
    /\ UNCHANGED <<log, commitWaiters, peerVars, applyVars, commitIndex, committed,
                   isolated, incarnation>>

\* Mutant: a vote already given in this term is not looked at
VoteAgain(i, m, term, vote) ==
    /\ m.term >= term
    /\ CandidateLogUpToDate(i, m.lastLogIndex, m.lastLogTerm)

\* handle_request_vote: the condition, once a newer term was adopted
VoteGranted(i, m, term, vote) ==
    /\ m.term >= term
    /\ vote \in {Nil, m.from}
    /\ CandidateLogUpToDate(i, m.lastLogIndex, m.lastLogTerm)

\* handle_request_vote
HandleRequestVote(m) ==
    LET i == m.to
        newer == m.term > currentTerm[i]
        term == IF newer THEN m.term ELSE currentTerm[i]
        vote == IF newer THEN Nil ELSE votedFor[i]
        granted == VoteGranted(i, m, term, vote)
    IN  /\ m.type = "RequestVote"
        /\ ~isolated[i]
        /\ currentTerm' = [currentTerm EXCEPT ![i] = term]
        /\ votedFor' = [votedFor EXCEPT ![i] = IF granted THEN m.from ELSE vote]
        /\ state' = IF newer THEN [state EXCEPT ![i] = Follower] ELSE state
        /\ votes' = IF newer THEN [votes EXCEPT ![i] = {}] ELSE votes
        /\ commitWaiters' = IF newer THEN [commitWaiters EXCEPT ![i] = {}]
                                     ELSE commitWaiters
        /\ Answered(m, {[type |-> "RequestVoteReply", from |-> i, to |-> m.from,
                         inc |-> m.inc, election |-> m.term, term |-> term,
                         voteGranted |-> granted]})
        /\ UNCHANGED <<log, peerVars, applyVars, commitIndex, committed, leaderId,
                       isolated, incarnation>>

\* request_vote_from, after its call returned: a vote is counted for the
\* election that asked for it, which only matters while that one is waiting
HandleRequestVoteReply(m) ==
    LET i == m.to IN
    /\ m.type = "RequestVoteReply"
    /\ m.inc = incarnation[i]
    /\ \/ /\ m.term > currentTerm[i]
          /\ BecomeFollower(i, m.term)
       \/ /\ m.term <= currentTerm[i]
          /\ votes' = IF m.voteGranted /\ m.election = currentTerm[i] /\ votes[i] # {}
                      THEN [votes EXCEPT ![i] = @ \cup {m.from}] ELSE votes
          /\ UNCHANGED <<state, currentTerm, votedFor, commitWaiters>>
    /\ Answered(m, {})
    /\ UNCHANGED <<log, peerVars, applyVars, commitIndex, committed, leaderId,
                   isolated, incarnation>>

\* The end of _start_election with enough votes, and _become_leader: the
\* no-op is appended and persisted in the same critical section
BecomeLeader(i) ==
    LET last == LastLogIndex(i) IN
    /\ state[i] = Candidate
    /\ Cardinality(votes[i]) >= Majority
    /\ last < MaxLog
    /\ state' = [state EXCEPT ![i] = Leader]
    /\ leaderId' = [leaderId EXCEPT ![i] = i]
    /\ log' = [log EXCEPT ![i] = Append(@, [term |-> currentTerm[i], op |-> NoOp])]
    /\ nextIndex' = [nextIndex EXCEPT ![i] =
                        [p \in Server |-> IF p = i THEN last + 2 ELSE last + 1]]
    /\ matchIndex' = [matchIndex EXCEPT ![i] =
                        [p \in Server |-> IF p = i THEN last + 1 ELSE 0]]
    /\ UNCHANGED <<currentTerm, votedFor, votes, commitWaiters, applyVars,
                   commitIndex, committed, isolated, incarnation, calls>>

\* The end of _start_election without enough votes: the thread ends, a vote
\* that arrives later is counted by nobody
LoseElection(i) ==
    /\ state[i] = Candidate
    /\ votes[i] # {}
    /\ Cardinality(votes[i]) < Majority
    /\ votes' = [votes EXCEPT ![i] = {}]
    /\ UNCHANGED <<diskVars, state, commitWaiters, peerVars, applyVars, commitIndex,
                   committed, leaderId, isolated, incarnation, calls>>

-----------------------------------------------------------------------------
(* Log replication                                                         *)

\* append_entry up to the wait.  With op = NoOp it is the read barrier of a
\* linearizable Get.
AppendEntry(i, op) ==
    LET idx == LastLogIndex(i) + 1 IN
    /\ state[i] = Leader
    /\ idx <= MaxLog
    /\ log' = [log EXCEPT ![i] = Append(@, [term |-> currentTerm[i], op |-> op])]
    /\ matchIndex' = [matchIndex EXCEPT ![i][i] = idx]
    /\ nextIndex' = [nextIndex EXCEPT ![i][i] = idx + 1]
    /\ commitWaiters' = [commitWaiters EXCEPT ![i] =
         {w \in @ : w.index # idx}
           \cup {[index |-> idx, term |-> currentTerm[i], op |-> op]}]
    /\ UNCHANGED <<currentTerm, votedFor, state, votes, applyVars, commitIndex,
                   committed, leaderId, isolated, incarnation, calls>>

\* _send_append_entries_to up to the call, by the heartbeat or after an append.
\* self.log[prev_idx - 1] raises an IndexError when next_index is past the log.
SendAppendEntries(i, p) ==
    LET prev == nextIndex[i][p] - 1 IN
    /\ state[i] = Leader
    /\ ~isolated[i]
    /\ p # i
    /\ prev <= LastLogIndex(i)
    /\ Cardinality(calls) < MaxCalls
    /\ calls' = calls \cup
         {[type |-> "AppendEntries", from |-> i, to |-> p, inc |-> incarnation[i],
           term |-> currentTerm[i], prevLogIndex |-> prev,
           prevLogTerm |-> TermAt(i, prev),
           entries |-> SubSeq(log[i], prev + 1, LastLogIndex(i)),
           leaderCommit |-> commitIndex[i]]}
    /\ UNCHANGED <<diskVars, roleVars, peerVars, applyVars, commitIndex, committed,
                   leaderId, isolated, incarnation>>

\* handle_append_entries
HandleAppendEntries(m) ==
    LET i == m.to
        stale == m.term < currentTerm[i]
        prev == m.prevLogIndex
        missing == prev > LastLogIndex(i)
        mismatch == ~missing /\ Conflicts(i, prev, m.prevLogTerm)
        Reply(success, conflictIndex, conflictTerm) ==
            Answered(m, {[type |-> "AppendEntriesReply", from |-> i, to |-> m.from,
                          inc |-> m.inc, newMatch |-> prev + Len(m.entries),
                          term |-> m.term, success |-> success,
                          conflictIndex |-> conflictIndex,
                          conflictTerm |-> conflictTerm]})
    IN
    /\ m.type = "AppendEntries"
    /\ ~isolated[i]
    /\ \/ /\ stale
          /\ Answered(m, {[type |-> "AppendEntriesReply", from |-> i, to |-> m.from,
                           inc |-> m.inc, newMatch |-> prev + Len(m.entries),
                           term |-> currentTerm[i], success |-> FALSE,
                           conflictIndex |-> 0, conflictTerm |-> 0]})
          /\ UNCHANGED <<diskVars, roleVars, commitIndex, leaderId>>
       \/ /\ ~stale
          /\ IF m.term > currentTerm[i] \/ state[i] = Candidate
             THEN BecomeFollower(i, m.term)
             ELSE UNCHANGED <<currentTerm, votedFor, roleVars>>
          /\ leaderId' = [leaderId EXCEPT ![i] = m.from]
          /\ \/ /\ missing
                /\ Reply(FALSE, LastLogIndex(i) + 1, 0)
                /\ UNCHANGED <<log, commitIndex>>
             \/ /\ mismatch
                /\ Reply(FALSE, FirstOfTerm(i, prev), log[i][prev].term)
                /\ UNCHANGED <<log, commitIndex>>
             \/ /\ ~missing /\ ~mismatch
                /\ log' = [log EXCEPT ![i] = Merge(@, prev, m.entries)]
                /\ commitIndex' = [commitIndex EXCEPT ![i] =
                     IF m.leaderCommit > @
                     THEN IF m.leaderCommit <= Len(log'[i])
                          THEN m.leaderCommit ELSE Len(log'[i])
                     ELSE @]
                /\ Reply(TRUE, 0, 0)
    /\ UNCHANGED <<peerVars, applyVars, committed, isolated, incarnation>>

\* _advance_commit_index: the highest uncommitted index of the own term held
\* by a majority, given the leader's new match_index
Committable(i, match) ==
    {idx \in (commitIndex[i] + 1)..LastLogIndex(i) :
        /\ Cardinality({p \in Server : match[p] >= idx}) >= Majority
        /\ log[i][idx].term = currentTerm[i]}

AdvanceCommitIndex(i, match) ==
    LET S == Committable(i, match)
        top == CHOOSE idx \in S : \A k \in S : k <= idx
    IN  IF S = {} THEN UNCHANGED <<commitIndex, committed>>
        ELSE /\ commitIndex' = [commitIndex EXCEPT ![i] = top]
             /\ committed' = IF top > Len(committed) THEN Prefix(log[i], top)
                                                     ELSE committed

\* _send_append_entries_to, after its call returned.  The reply is used
\* whatever term it was asked in: only a higher term and the role are checked.
HandleAppendEntriesReply(m) ==
    LET i == m.to
        p == m.from
        match == IF m.newMatch > matchIndex[i][p]
                 THEN [matchIndex[i] EXCEPT ![p] = m.newMatch] ELSE matchIndex[i]
    IN
    /\ m.type = "AppendEntriesReply"
    /\ m.inc = incarnation[i]
    /\ \/ /\ m.term > currentTerm[i]
          /\ BecomeFollower(i, m.term)
          /\ UNCHANGED <<peerVars, commitIndex, committed>>
       \/ /\ m.term <= currentTerm[i]
          /\ state[i] # Leader
          /\ UNCHANGED <<currentTerm, votedFor, roleVars, peerVars, commitIndex,
                         committed>>
       \/ /\ m.term <= currentTerm[i]
          /\ state[i] = Leader
          /\ m.success
          /\ matchIndex' = [matchIndex EXCEPT ![i] = match]
          /\ nextIndex' = IF m.newMatch > matchIndex[i][p]
                          THEN [nextIndex EXCEPT ![i][p] = m.newMatch + 1]
                          ELSE nextIndex
          /\ AdvanceCommitIndex(i, match)
          /\ UNCHANGED <<currentTerm, votedFor, roleVars>>
       \/ /\ m.term <= currentTerm[i]
          /\ state[i] = Leader
          /\ ~m.success
          /\ nextIndex' = [nextIndex EXCEPT ![i][p] =
                             NextAfterConflict(i, m.conflictIndex, m.conflictTerm)]
          /\ UNCHANGED <<currentTerm, votedFor, roleVars, matchIndex, commitIndex,
                         committed>>
    /\ Answered(m, {})
    /\ UNCHANGED <<log, applyVars, leaderId, isolated, incarnation>>

-----------------------------------------------------------------------------
(* Applier and blocked clients                                             *)

\* The slots of a log from one index to another, as far as the log has them
Slots(s, from, to) ==
    LET last == IF to <= Len(s) THEN to ELSE Len(s) IN
    [k \in 1..(last - from + 1) |->
        [index |-> from + k - 1, term |-> s[from + k - 1].term, op |-> s[from + k - 1].op]]

\* Mutant: everything in the log is applied
FetchLog(i) ==
    /\ i \in Applying
    /\ toApply[i] = <<>>
    /\ lastApplied[i] < LastLogIndex(i)
    /\ toApply' = [toApply EXCEPT ![i] =
                     Slots(log[i], lastApplied[i] + 1, LastLogIndex(i))]
    /\ lastApplied' = [lastApplied EXCEPT ![i] = LastLogIndex(i)]
    /\ UNCHANGED <<diskVars, roleVars, peerVars, commitIndex, committed, applied,
                   acked, leaderId, isolated, incarnation, calls>>

\* applier_loop, under the lock: copy the newly committed entries
FetchCommitted(i) ==
    /\ i \in Applying
    /\ toApply[i] = <<>>
    /\ lastApplied[i] < commitIndex[i]
    /\ toApply' = [toApply EXCEPT ![i] =
                     Slots(log[i], lastApplied[i] + 1, commitIndex[i])]
    /\ lastApplied' = [lastApplied EXCEPT ![i] = commitIndex[i]]
    /\ UNCHANGED <<diskVars, roleVars, peerVars, commitIndex, committed, applied,
                   acked, leaderId, isolated, incarnation, calls>>

\* applier_loop, one entry: apply_fn, then the client waiting at this index
\* gets the result if the entry is its own, and NotLeader otherwise
ApplyEntry(i) ==
    LET slot == Head(toApply[i]) IN
    /\ toApply[i] # <<>>
    /\ toApply' = [toApply EXCEPT ![i] = Tail(@)]
    /\ applied' = [applied EXCEPT ![i] =
                     Append(@, [term |-> slot.term, op |-> slot.op])]
    /\ commitWaiters' = [commitWaiters EXCEPT ![i] = {w \in @ : w.index # slot.index}]
    /\ acked' = acked \cup (commitWaiters[i] \cap {slot})
    /\ UNCHANGED <<diskVars, state, votes, peerVars, commitIndex, committed,
                   lastApplied, leaderId, isolated, incarnation, calls>>

\* append_entry: the client call gives up waiting
WaiterTimeout(i, w) ==
    /\ w \in commitWaiters[i]
    /\ commitWaiters' = [commitWaiters EXCEPT ![i] = @ \ {w}]
    /\ UNCHANGED <<diskVars, state, votes, peerVars, applyVars, commitIndex, committed,
                   leaderId, isolated, incarnation, calls>>

-----------------------------------------------------------------------------
(* Faults                                                                  *)

\* A call fails: a request is lost or refused (abort_if_isolated), or the
\* reply is lost, or the 2 s deadline ends it
LoseCall(m) ==
    /\ calls' = calls \ {m}
    /\ UNCHANGED <<diskVars, roleVars, peerVars, applyVars, commitIndex, committed,
                   leaderId, isolated, incarnation>>

\* set_isolated, by the admin RPC or by the heal timer
SetIsolated(i, b) ==
    /\ i \in Faulty
    /\ isolated[i] # b
    /\ isolated' = [isolated EXCEPT ![i] = b]
    /\ UNCHANGED <<diskVars, roleVars, peerVars, applyVars, commitIndex, committed,
                   leaderId, incarnation, calls>>

\* A new process: __init__ and _load_persistent_state.  Requests the old
\* process sent may still be handled, but nobody waits for their replies.
Reboot(i) ==
    /\ i \in Faulty
    /\ incarnation[i] < MaxRestarts
    /\ incarnation' = [incarnation EXCEPT ![i] = @ + 1]
    /\ commitIndex' = [commitIndex EXCEPT ![i] = 0]
    /\ lastApplied' = [lastApplied EXCEPT ![i] = 0]
    /\ state' = [state EXCEPT ![i] = Follower]
    /\ leaderId' = [leaderId EXCEPT ![i] = Nil]
    /\ nextIndex' = [nextIndex EXCEPT ![i] = [p \in Server |-> 1]]
    /\ matchIndex' = [matchIndex EXCEPT ![i] = [p \in Server |-> 0]]
    /\ votes' = [votes EXCEPT ![i] = {}]
    /\ toApply' = [toApply EXCEPT ![i] = <<>>]
    /\ applied' = [applied EXCEPT ![i] = <<>>]
    /\ commitWaiters' = [commitWaiters EXCEPT ![i] = {}]
    /\ isolated' = [isolated EXCEPT ![i] = FALSE]
    /\ UNCHANGED <<log, acked, committed>>

\* Mutant: voted_for is not on disk
RestartWithoutVote(i) ==
    /\ Reboot(i)
    /\ votedFor' = [votedFor EXCEPT ![i] = Nil]
    /\ UNCHANGED <<currentTerm, calls>>

\* The process is killed between two critical sections and started again
Restart(i) ==
    /\ Reboot(i)
    /\ UNCHANGED <<currentTerm, votedFor, calls>>

\* The process is killed inside a handler, after _become_follower persisted
\* the term, with no vote, and before the vote or the log was persisted.  A
\* candidate also steps down for AppendEntries of its own term.
CrashInHandler(m) ==
    LET i == m.to IN
    /\ m.type \in {"RequestVote", "AppendEntries"}
    /\ ~isolated[i]
    /\ \/ m.term > currentTerm[i]
       \/ m.type = "AppendEntries" /\ m.term = currentTerm[i] /\ state[i] = Candidate
    /\ Reboot(i)
    /\ currentTerm' = [currentTerm EXCEPT ![i] = m.term]
    /\ votedFor' = [votedFor EXCEPT ![i] = Nil]
    /\ calls' = calls \ {m}

-----------------------------------------------------------------------------
ServerStep(i) ==
    \/ \E sent \in SUBSET (Server \ {i}) : StartElection(i, sent)
    \/ BecomeLeader(i)
    \/ LoseElection(i)
    \/ \E op \in Op : AppendEntry(i, op)
    \/ \E p \in Server : SendAppendEntries(i, p)
    \/ FetchCommitted(i)
    \/ ApplyEntry(i)
    \/ \E w \in commitWaiters[i] : WaiterTimeout(i, w)
    \/ \E b \in BOOLEAN : SetIsolated(i, b)
    \/ Restart(i)

CallStep(m) ==
    \/ HandleRequestVote(m)
    \/ HandleRequestVoteReply(m)
    \/ HandleAppendEntries(m)
    \/ HandleAppendEntriesReply(m)
    \/ LoseCall(m)
    \/ CrashInHandler(m)

Next ==
    \/ \E i \in Server : ServerStep(i)
    \/ \E m \in calls : CallStep(m)

Spec == Init /\ [][Next]_vars

-----------------------------------------------------------------------------
(* Properties                                                              *)

TypeOK ==
    /\ currentTerm \in [Server -> Nat]
    /\ votedFor \in [Server -> Server \cup {Nil}]
    /\ log \in [Server -> Seq(Entry)]
    /\ commitIndex \in [Server -> Nat]
    /\ lastApplied \in [Server -> Nat]
    /\ state \in [Server -> {Follower, Candidate, Leader}]
    /\ leaderId \in [Server -> Server \cup {Nil}]
    /\ nextIndex \in [Server -> [Server -> Nat \ {0}]]
    /\ matchIndex \in [Server -> [Server -> Nat]]
    /\ votes \in [Server -> SUBSET Server]
    /\ toApply \in [Server -> Seq(Slot)]
    /\ commitWaiters \in [Server -> SUBSET Slot]
    /\ isolated \in [Server -> BOOLEAN]
    /\ incarnation \in [Server -> Nat]
    /\ calls \subseteq Call
    /\ applied \in [Server -> Seq(Entry)]
    /\ acked \subseteq Slot
    /\ committed \in Seq(Entry)

\* Two nodes never lead in the same term, although _become_follower forgets
\* the vote of a candidate that steps down inside its own term.
ElectionSafety ==
    \A i, j \in Server :
        state[i] = Leader /\ state[j] = Leader /\ currentTerm[i] = currentTerm[j]
            => i = j

\* Voter v granted its vote to candidate c in a term: the grant is on its way
\* to c, or counted by c, which is still in that term
Granted(v, c, term) ==
    \/ \E m \in calls : /\ m.type = "RequestVoteReply" /\ m.voteGranted
                        /\ m.from = v /\ m.to = c /\ m.election = term
    \/ v \in votes[c] /\ currentTerm[c] = term

\* No node's vote counts for two candidates in one term, not even that of a
\* candidate whose vote _become_follower forgets inside the term, nor of a
\* node restarted or killed while it was voting.
OneVotePerTerm ==
    \A v, c, d \in Server : \A term \in 0..MaxTerm :
        Granted(v, c, term) /\ Granted(v, d, term) => c = d

\* A vote granted in the voter's current term is the one it remembers
VoteRemembered ==
    \A v, c \in Server : \A term \in 0..MaxTerm :
        Granted(v, c, term) =>
            /\ term <= currentTerm[v]
            /\ term = currentTerm[v] => votedFor[v] = c

\* Two logs that hold an entry of one term at one index are equal up to it:
\* the check of prev_log_term and the truncation of handle_append_entries
\* keep this for late and repeated calls.
LogMatching ==
    \A i, j \in Server :
        \A n \in 1..Len(log[i]) :
            n <= Len(log[j]) /\ log[i][n].term = log[j][n].term
                => Prefix(log[i], n) = Prefix(log[j], n)

\* A leader holds everything that was committed in its own or an earlier term,
\* so a change of leader loses nothing: _candidate_log_up_to_date, and the
\* rule of _advance_commit_index to count replicas only for entries of its own
\* term, whose last one therefore dates the commit.
LeaderCompleteness ==
    LET n == Len(committed) IN
    \A i \in Server :
        n > 0 /\ state[i] = Leader /\ currentTerm[i] >= committed[n].term
            => n <= Len(log[i]) /\ Prefix(log[i], n) = committed

\* What a node believes committed is there and is what the cluster committed,
\* although handle_append_entries takes the leader's commit index up to its
\* own last entry and not up to the last entry it has just verified.
CommittedPrefix ==
    \A i \in Server :
        /\ commitIndex[i] <= Len(log[i])
        /\ commitIndex[i] <= Len(committed)
        /\ Prefix(log[i], commitIndex[i]) = Prefix(committed, commitIndex[i])

\* A client blocked in append_entry waits for a slot that still holds its
\* entry (the promise of _fail_all_waiters and of the applier's check).
WaiterHoldsItsSlot ==
    \A i \in Server : \A w \in commitWaiters[i] :
        /\ w.index <= Len(log[i])
        /\ log[i][w.index] = [term |-> w.term, op |-> w.op]
        /\ \A v \in commitWaiters[i] : v.index = w.index => v = w

\* What the cluster promises to the state machines and the clients
Promise == INSTANCE ReplicatedLog WITH clog <- committed

\* The engine implements the replicated log of module ReplicatedLog: committed
\* entries are never lost or changed, every state machine is given them in
\* order and once per start, and a client is told of success only for an
\* entry that was committed and applied.
ImplementsReplicatedLog == Promise!Spec

=============================================================================
