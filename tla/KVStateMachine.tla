--------------------------- MODULE KVStateMachine ---------------------------
(***************************************************************************)
(* The deterministic state machine of part2_3_replication/                 *)
(* kv_state_machine.py, as operators on a state: the store, the last       *)
(* versions of deleted keys, and the session table that recognises retried *)
(* writes.  Every replica computes Apply for the same entries.             *)
(***************************************************************************)
EXTENDS Naturals, Sequences

CONSTANTS
    Key,
    Value,
    NoValue,      \* the value of an absent key
    Client,       \* client ids
    MaxSessions   \* max_sessions

ASSUME NoValueAssumption == NoValue \notin Value
ASSUME MaxSessionsAssumption == MaxSessions \in Nat \ {0}

\* The entry of a linearizable read: nothing to apply
Noop == [op |-> "noop"]
\* The write requests of kv.proto; a Cas has its three forms
Request ==
    [op : {"put", "delete"}, key : Key, value : Value]
      \cup [op : {"cas"}, key : Key, value : Value, expected : Value,
            expectedVersion : Nat, expectAbsent : BOOLEAN]

Command == Request \cup {Noop}

\* version: the new or current version; flag: swapped or existed; current: the
\* value a failed Cas reports; stale: the answer to a request already overtaken
Result == [version : Nat, flag : BOOLEAN, current : Value \cup {NoValue}, stale : BOOLEAN]
Answer(version, flag, current) ==
    [version |-> version, flag |-> flag, current |-> current, stale |-> FALSE]
StaleAnswer == [version |-> 0, flag |-> FALSE, current |-> NoValue, stale |-> TRUE]

\* A key that is not in the dict
Absent == [value |-> NoValue, version |-> 0]
Cell == [value : Value, version : Nat \ {0}] \cup {Absent}
Session == [client : Client, seq : Nat \ {0}, result : Result]
\* tombstones: 0 for a key that has none; sessions: the OrderedDict, least
\* recently active first
State == [store : [Key -> Cell], tombstones : [Key -> Nat], sessions : Seq(Session)]

Found(s, key) == s.store[key].version > 0

Empty == [store |-> [k \in Key |-> Absent], tombstones |-> [k \in Key |-> 0],
          sessions |-> <<>>]

-----------------------------------------------------------------------------
(* The store                                                               *)

\* Mutant: a re-created key starts again at version 1
RestartVersion(s, key) == (IF Found(s, key) THEN s.store[key].version ELSE 0) + 1

\* _write: the next version of a key
NextVersion(s, key) ==
    (IF Found(s, key) THEN s.store[key].version ELSE s.tombstones[key]) + 1

\* _write
Write(s, key, value) ==
    [store |-> [s.store EXCEPT ![key] =
                  [value |-> value, version |-> NextVersion(s, key)]],
     tombstones |-> [s.tombstones EXCEPT ![key] = IF Found(s, key) THEN @ ELSE 0],
     sessions |-> s.sessions]

\* Mutant: a deleted key stays in the dict without a value
DeleteInPlace(s, key) == [s EXCEPT !.store[key].value = NoValue]

\* _apply_op "delete"
Delete(s, key) ==
    IF ~Found(s, key) THEN s
    ELSE [store |-> [s.store EXCEPT ![key] = Absent],
          tombstones |-> [s.tombstones EXCEPT ![key] = s.store[key].version],
          sessions |-> s.sessions]

\* Mutant: any version from the expected one on
AtLeastVersion(s, cmd) ==
    IF cmd.expectAbsent THEN ~Found(s, cmd.key)
    ELSE /\ Found(s, cmd.key)
         /\ IF cmd.expectedVersion > 0
            THEN s.store[cmd.key].version >= cmd.expectedVersion
            ELSE s.store[cmd.key].value = cmd.expected

\* _apply_op "cas": the three forms of the condition, in the code's order
Condition(s, cmd) ==
    IF cmd.expectAbsent THEN ~Found(s, cmd.key)
    ELSE /\ Found(s, cmd.key)
         /\ IF cmd.expectedVersion > 0
            THEN s.store[cmd.key].version = cmd.expectedVersion
            ELSE s.store[cmd.key].value = cmd.expected

\* _apply_op: the state afterwards
Effect(s, cmd) ==
    CASE cmd.op = "noop" -> s
      [] cmd.op = "put" -> Write(s, cmd.key, cmd.value)
      [] cmd.op = "cas" -> IF Condition(s, cmd) THEN Write(s, cmd.key, cmd.value) ELSE s
      [] cmd.op = "delete" -> Delete(s, cmd.key)

\* _apply_op: the result handed to the client
Outcome(s, cmd) ==
    CASE cmd.op = "noop" -> Answer(0, FALSE, NoValue)
      [] cmd.op = "put" -> Answer(NextVersion(s, cmd.key), FALSE, NoValue)
      [] cmd.op = "delete" -> Answer(0, Found(s, cmd.key), NoValue)
      [] cmd.op = "cas" ->
           IF Condition(s, cmd)
           THEN Answer(NextVersion(s, cmd.key), TRUE, cmd.value)
           ELSE Answer(s.store[cmd.key].version, FALSE, s.store[cmd.key].value)

-----------------------------------------------------------------------------
(* The sessions                                                            *)

SessionsOf(s, client) == {k \in 1..Len(s.sessions) : s.sessions[k].client = client}

\* Mutant: off by one, the latest request is stale already
LatestIsStale(s, client, seq) ==
    {StaleAnswer : k \in {l \in SessionsOf(s, client) : seq <= s.sessions[l].seq}}

\* _session_result: {} for None, otherwise the one answer
SessionResult(s, client, seq) ==
    {IF seq = s.sessions[k].seq THEN s.sessions[k].result ELSE StaleAnswer :
        k \in {l \in SessionsOf(s, client) : seq <= s.sessions[l].seq}}

\* The table without the session of a client
Without(sessions, client) ==
    LET k == CHOOSE l \in 1..Len(sessions) : sessions[l].client = client IN
    IF \A l \in 1..Len(sessions) : sessions[l].client # client THEN sessions
    ELSE [l \in 1..(Len(sessions) - 1) |-> IF l < k THEN sessions[l] ELSE sessions[l + 1]]

\* Mutant: one session too many is kept
RememberOneMore(s, client, seq, result) ==
    LET all == Append(Without(s.sessions, client),
                      [client |-> client, seq |-> seq, result |-> result])
    IN  [s EXCEPT !.sessions = IF Len(all) > MaxSessions + 1 THEN Tail(all) ELSE all]

\* _remember: the client becomes the most recently active, the least recently
\* active one is forgotten when there are too many
Remember(s, client, seq, result) ==
    LET all == Append(Without(s.sessions, client),
                      [client |-> client, seq |-> seq, result |-> result])
    IN  [s EXCEPT !.sessions = IF Len(all) > MaxSessions THEN Tail(all) ELSE all]

\* Mutant: a retry is looked for only before it is appended, not when applied
NeverDuplicate(s, entry) == FALSE

\* apply: is the entry a retry of an applied request?  An entry without
\* seq_num is not tracked.
Duplicate(s, entry) ==
    entry.seq > 0 /\ SessionResult(s, entry.client, entry.seq) # {}

\* apply: the state afterwards
Apply(s, entry) ==
    LET after == Effect(s, entry.cmd) IN
    CASE Duplicate(s, entry) -> s
      [] ~Duplicate(s, entry) /\ entry.seq > 0 ->
           Remember(after, entry.client, entry.seq, Outcome(s, entry.cmd))
      [] ~Duplicate(s, entry) /\ entry.seq = 0 -> after

\* apply: the result
ApplyResult(s, entry) ==
    IF Duplicate(s, entry)
    THEN CHOOSE r \in SessionResult(s, entry.client, entry.seq) : TRUE
    ELSE Outcome(s, entry.cmd)

=============================================================================
