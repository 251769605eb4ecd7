------------------------ MODULE KVStateMachineProofs ------------------------
(***************************************************************************)
(* Lemmas about the operators of the key-value state machine: what a       *)
(* write, a delete, a remembered session and an applied entry do to a      *)
(* state, for every set of keys, values and clients and every bound on the *)
(* session table.                                                          *)
(***************************************************************************)
EXTENDS KVStateMachine, TLAPS, FiniteSets, FiniteSetTheorems, SequenceTheorems

\* The version a key has, or had when it was deleted
Latest(s, key) == IF Found(s, key) THEN s.store[key].version ELSE s.tombstones[key]

-----------------------------------------------------------------------------
(* Types                                                                   *)

\* The forms of a command
LEMMA CommandForms ==
    ASSUME NEW cmd \in Command
    PROVE  \/ cmd = Noop
           \/ cmd.op \in {"put", "delete"} /\ cmd.key \in Key /\ cmd.value \in Value
           \/ /\ cmd.op = "cas" /\ cmd.key \in Key /\ cmd.value \in Value
              /\ cmd.expectAbsent \in BOOLEAN /\ cmd.expectedVersion \in Nat
  BY DEF Command, Request, Noop

\* _write returns a positive version, one more than the latest
LEMMA NextVersionType ==
    ASSUME NEW s \in State, NEW key \in Key
    PROVE  /\ NextVersion(s, key) \in Nat \ {0}
           /\ NextVersion(s, key) = Latest(s, key) + 1
           /\ Latest(s, key) \in Nat
  BY DEF State, Cell, Absent, NextVersion, Latest, Found

\* _write: the key has the new version, other keys and the sessions are as before
LEMMA WriteEffect ==
    ASSUME NEW s \in State, NEW key \in Key, NEW value \in Value
    PROVE  /\ Write(s, key, value) \in State
           /\ Write(s, key, value).sessions = s.sessions
           /\ Found(Write(s, key, value), key)
           /\ Latest(Write(s, key, value), key) = Latest(s, key) + 1
           /\ \A other \in Key \ {key} :
                /\ Latest(Write(s, key, value), other) = Latest(s, other)
                /\ Found(Write(s, key, value), other) <=> Found(s, other)
<1> DEFINE cell == [value |-> value, version |-> NextVersion(s, key)]
           stone == IF Found(s, key) THEN s.tombstones[key] ELSE 0
           w == [store |-> [s.store EXCEPT ![key] = cell],
                 tombstones |-> [s.tombstones EXCEPT ![key] = stone],
                 sessions |-> s.sessions]
<1>1. Write(s, key, value) = w
  BY DEF Write
<1>2. cell \in Cell /\ cell.version > 0 /\ cell.version = Latest(s, key) + 1
  BY NextVersionType DEF Cell
<1>3. stone \in Nat
  BY DEF State
<1>4. w \in State
  BY <1>2, <1>3 DEF State
<1>5. w.store[key] = cell /\ \A other \in Key \ {key} : w.store[other] = s.store[other]
  BY DEF State
<1>6. \A other \in Key \ {key} : w.tombstones[other] = s.tombstones[other]
  BY DEF State
<1> QED
  BY <1>1, <1>2, <1>4, <1>5, <1>6 DEF Latest, Found

\* delete: the version is kept as a tombstone
LEMMA DeleteEffect ==
    ASSUME NEW s \in State, NEW key \in Key
    PROVE  /\ Delete(s, key) \in State
           /\ Delete(s, key).sessions = s.sessions
           /\ ~Found(Delete(s, key), key)
           /\ Latest(Delete(s, key), key) = Latest(s, key)
           /\ \A other \in Key \ {key} :
                /\ Latest(Delete(s, key), other) = Latest(s, other)
                /\ Found(Delete(s, key), other) <=> Found(s, other)
<1> DEFINE w == [store |-> [s.store EXCEPT ![key] = Absent],
                 tombstones |-> [s.tombstones EXCEPT ![key] = s.store[key].version],
                 sessions |-> s.sessions]
<1>1. CASE ~Found(s, key)
  BY <1>1 DEF Delete
<1>2. CASE Found(s, key)
  <2>1. Delete(s, key) = w
    BY <1>2 DEF Delete
  <2>2. Absent \in Cell /\ Absent.version = 0 /\ s.store[key].version \in Nat
    BY DEF Cell, Absent, State
  <2>3. w \in State
    BY <2>2 DEF State
  <2>4. w.store[key] = Absent /\ \A other \in Key \ {key} : w.store[other] = s.store[other]
    BY DEF State
  <2>5. /\ w.tombstones[key] = s.store[key].version
        /\ \A other \in Key \ {key} : w.tombstones[other] = s.tombstones[other]
    BY DEF State
  <2> QED
    BY <1>2, <2>1, <2>2, <2>3, <2>4, <2>5 DEF Latest, Found
<1> QED
  BY <1>1, <1>2

\* _apply_op gives a state and a result
LEMMA EffectType ==
    ASSUME NEW s \in State, NEW cmd \in Command
    PROVE  /\ Effect(s, cmd) \in State
           /\ Effect(s, cmd).sessions = s.sessions
           /\ Outcome(s, cmd) \in Result
<1>1. \A v \in Nat, f \in BOOLEAN, c \in Value \cup {NoValue} : Answer(v, f, c) \in Result
  BY DEF Answer, Result
<1>2. CASE cmd = Noop
  BY <1>1, <1>2 DEF Noop, Effect, Outcome
<1>3. CASE cmd.op \in {"put", "delete"} /\ cmd.key \in Key /\ cmd.value \in Value
  <2>1. CASE cmd.op = "put"
    <3>1. Effect(s, cmd) = Write(s, cmd.key, cmd.value)
      BY <2>1 DEF Effect
    <3>2. Outcome(s, cmd) = Answer(NextVersion(s, cmd.key), FALSE, NoValue)
      BY <2>1 DEF Outcome
    <3>3. Outcome(s, cmd) \in Result
      BY <1>1, <1>3, <3>2, NextVersionType
    <3> QED
      BY <1>3, <3>1, <3>3, WriteEffect
  <2>2. CASE cmd.op = "delete"
    <3>1. Effect(s, cmd) = Delete(s, cmd.key)
      BY <2>2 DEF Effect
    <3>2. Outcome(s, cmd) = Answer(0, Found(s, cmd.key), NoValue)
      BY <2>2 DEF Outcome
    <3>3. Found(s, cmd.key) \in BOOLEAN
      BY DEF Found
    <3> QED
      BY <1>1, <1>3, <3>1, <3>2, <3>3, DeleteEffect
  <2> QED
    BY <1>3, <2>1, <2>2
<1>4. CASE /\ cmd.op = "cas" /\ cmd.key \in Key /\ cmd.value \in Value
           /\ cmd.expectAbsent \in BOOLEAN /\ cmd.expectedVersion \in Nat
  <2>1. s.store[cmd.key].version \in Nat /\ s.store[cmd.key].value \in Value \cup {NoValue}
    BY <1>4 DEF State, Cell, Absent
  <2>2. CASE Condition(s, cmd)
    <3>1. Effect(s, cmd) = Write(s, cmd.key, cmd.value)
      BY <1>4, <2>2 DEF Effect
    <3>2. Outcome(s, cmd) = Answer(NextVersion(s, cmd.key), TRUE, cmd.value)
      BY <1>4, <2>2 DEF Outcome
    <3>3. Outcome(s, cmd) \in Result
      BY <1>1, <1>4, <3>2, NextVersionType
    <3> QED
      BY <1>4, <3>1, <3>3, WriteEffect
  <2>3. CASE ~Condition(s, cmd)
    <3>1. Effect(s, cmd) = s
      BY <1>4, <2>3 DEF Effect
    <3>2. Outcome(s, cmd) = Answer(s.store[cmd.key].version, FALSE, s.store[cmd.key].value)
      BY <1>4, <2>3 DEF Outcome
    <3> QED
      BY <1>1, <2>1, <3>1, <3>2
  <2> QED
    BY <2>2, <2>3
<1> QED
  BY <1>2, <1>3, <1>4, CommandForms

\* Taking a session out of the table
LEMMA WithoutType ==
    ASSUME NEW sessions \in Seq(Session), NEW client \in Client
    PROVE  Without(sessions, client) \in Seq(Session)
<1> DEFINE k == CHOOSE l \in 1..Len(sessions) : sessions[l].client = client
           rest == [l \in 1..(Len(sessions) - 1) |->
                       IF l < k THEN sessions[l] ELSE sessions[l + 1]]
<1>1. CASE \A l \in 1..Len(sessions) : sessions[l].client # client
  BY <1>1 DEF Without
<1>2. CASE \E l \in 1..Len(sessions) : sessions[l].client = client
  <2>1. Without(sessions, client) = rest
    BY <1>2 DEF Without
  <2>2. Len(sessions) - 1 \in Nat
    BY <1>2
  <2>3. \A l \in 1..(Len(sessions) - 1) : rest[l] \in Session
    BY <2>2
  <2>4. rest \in [1..(Len(sessions) - 1) -> Session]
    BY <2>3
  <2> HIDE DEF rest
  <2> QED
    BY <2>1, <2>2, <2>4
<1> QED
  BY <1>1, <1>2

\* _remember changes nothing but the table
LEMMA RememberType ==
    ASSUME NEW s \in State, NEW client \in Client, NEW seq \in Nat \ {0},
           NEW result \in Result
    PROVE  /\ Remember(s, client, seq, result) \in State
           /\ Remember(s, client, seq, result).store = s.store
           /\ Remember(s, client, seq, result).tombstones = s.tombstones
<1> DEFINE new == [client |-> client, seq |-> seq, result |-> result]
           all == Append(Without(s.sessions, client), new)
           kept == IF Len(all) > MaxSessions THEN Tail(all) ELSE all
<1>1. new \in Session
  BY DEF Session
<1>2. all \in Seq(Session) /\ all # <<>>
  <2>1. Without(s.sessions, client) \in Seq(Session)
    BY WithoutType DEF State
  <2> HIDE DEF new
  <2> QED
    BY <1>1, <2>1, AppendProperties
<1>3. kept \in Seq(Session)
  <2> HIDE DEF all
  <2> QED
    BY <1>2
<1>4. Remember(s, client, seq, result) = [s EXCEPT !.sessions = kept]
  BY DEF Remember
<1> HIDE DEF kept
<1> QED
  BY <1>3, <1>4 DEF State

\* apply: a retry changes nothing; anything else takes its effect on the store,
\* whether it is remembered or not
LEMMA ApplyType ==
    ASSUME NEW s \in State, NEW client \in Client, NEW seq \in Nat, NEW cmd \in Command,
           NEW entry, entry.client = client, entry.seq = seq, entry.cmd = cmd
    PROVE  /\ Apply(s, entry) \in State
           /\ Duplicate(s, entry) => Apply(s, entry) = s
           /\ ~Duplicate(s, entry) =>
                /\ Apply(s, entry).store = Effect(s, cmd).store
                /\ Apply(s, entry).tombstones = Effect(s, cmd).tombstones
                /\ ApplyResult(s, entry) = Outcome(s, cmd)
<1>1. CASE Duplicate(s, entry)
  BY <1>1 DEF Apply
<1>2. CASE ~Duplicate(s, entry)
  <2>1. ApplyResult(s, entry) = Outcome(s, cmd)
    BY <1>2 DEF ApplyResult
  <2>2. Effect(s, cmd) \in State /\ Outcome(s, cmd) \in Result
    BY EffectType
  <2>3. CASE seq = 0
    <3>1. Apply(s, entry) = Effect(s, cmd)
      BY <1>2, <2>3 DEF Apply
    <3> QED
      BY <1>2, <2>1, <2>2, <3>1
  <2>4. CASE seq > 0
    <3>1. Apply(s, entry) = Remember(Effect(s, cmd), client, seq, Outcome(s, cmd))
      BY <1>2, <2>4 DEF Apply
    <3> QED
      BY <1>2, <2>1, <2>2, <2>4, <3>1, RememberType
  <2> QED
    BY <2>3, <2>4
<1> QED
  BY <1>1, <1>2

\* The state a node starts with
LEMMA EmptyType == Empty \in State
<1>1. Absent \in Cell
  BY DEF Cell
<1>2. <<>> \in Seq(Session)
  OBVIOUS
<1> QED
  BY <1>1, <1>2 DEF Empty, State

-----------------------------------------------------------------------------
(* The session table                                                       *)

\* The table holds a session
Holds(sessions, x) == \E k \in 1..Len(sessions) : sessions[k] = x

\* No client has two sessions
OnePerClient(sessions) ==
    \A k, l \in 1..Len(sessions) : sessions[k].client = sessions[l].client => k = l

\* Taking out a client's session leaves the others, in their order.
LEMMA WithoutHolds ==
    ASSUME NEW sessions \in Seq(Session), NEW client \in Client
    PROVE  LET rest == Without(sessions, client) IN
           /\ \A x : Holds(rest, x) => Holds(sessions, x)
           /\ \A x : Holds(sessions, x) /\ x.client # client => Holds(rest, x)
           /\ Len(rest) <= Len(sessions)
           /\ OnePerClient(sessions) =>
                OnePerClient(rest) /\ \A x : Holds(rest, x) => x.client # client
<1> DEFINE n == Len(sessions)
           k == CHOOSE l \in 1..n : sessions[l].client = client
           short == [l \in 1..(n - 1) |-> IF l < k THEN sessions[l] ELSE sessions[l + 1]]
           rest == Without(sessions, client)
<1>1. n \in Nat
  BY LenProperties
<1>2. CASE \A l \in 1..n : sessions[l].client # client
  <2>1. rest = sessions
    BY <1>2 DEF Without
  <2> QED
    BY <1>1, <1>2, <2>1 DEF Holds
<1>3. CASE \E l \in 1..n : sessions[l].client = client
  <2>1. rest = short
    BY <1>3 DEF Without
  <2>2. k \in 1..n /\ sessions[k].client = client
    BY <1>3
  <2> HIDE DEF k
  <2>3. rest \in Seq(Session) /\ DOMAIN short = 1..(n - 1)
    BY WithoutType
  <2>4. Len(rest) = n - 1
    BY <1>1, <2>1, <2>2, <2>3, LenProperties
  <2>5. \A l \in 1..(n - 1) : rest[l] = IF l < k THEN sessions[l] ELSE sessions[l + 1]
    BY <2>1
  <2> HIDE DEF short, rest, n
  <2>6. ASSUME NEW x, Holds(rest, x)
        PROVE  \E m \in 1..n : m # k /\ sessions[m] = x
    <3>1. PICK l \in 1..(n - 1) : rest[l] = x
      BY <2>4, <2>6 DEF Holds
    <3>2. CASE l < k
      BY <1>1, <2>2, <2>5, <3>1, <3>2
    <3>3. CASE ~(l < k)
      <4>1. l + 1 \in 1..n /\ l + 1 # k /\ sessions[l + 1] = x
        BY <1>1, <2>2, <2>5, <3>1, <3>3
      <4> QED
        BY <4>1
    <3> QED
      BY <3>2, <3>3
  <2>7. ASSUME NEW x, Holds(sessions, x), x.client # client
        PROVE  Holds(rest, x)
    <3>1. PICK m \in 1..n : sessions[m] = x
      BY <2>7 DEF Holds, n
    <3>2. m # k
      BY <2>2, <2>7, <3>1
    <3>3. CASE m < k
      <4>1. m \in 1..(n - 1) /\ rest[m] = x
        BY <1>1, <2>2, <2>5, <3>1, <3>3
      <4> QED
        BY <2>4, <4>1 DEF Holds
    <3>4. CASE m > k
      <4>1. m - 1 \in 1..(n - 1) /\ ~(m - 1 < k) /\ m - 1 + 1 = m
        BY <1>1, <2>2, <3>1, <3>4
      <4>2. rest[m - 1] = x
        BY <2>5, <3>1, <4>1
      <4> QED
        BY <2>4, <4>1, <4>2 DEF Holds
    <3> QED
      BY <1>1, <2>2, <3>2, <3>3, <3>4
  <2>8. ASSUME OnePerClient(sessions)
        PROVE  OnePerClient(rest) /\ \A x : Holds(rest, x) => x.client # client
    <3>1. \A l, m \in 1..n : sessions[l].client = sessions[m].client => l = m
      BY <2>8 DEF OnePerClient, n
    <3>2. ASSUME NEW l \in 1..(n - 1), NEW m \in 1..(n - 1), rest[l].client = rest[m].client
          PROVE  l = m
      <4>1. l + 1 \in 1..n /\ m + 1 \in 1..n /\ l \in 1..n /\ m \in 1..n
        BY <1>1
      <4> DEFINE old(o) == IF o < k THEN o ELSE o + 1
      <4>2. rest[l] = sessions[old(l)] /\ rest[m] = sessions[old(m)]
        BY <2>5
      <4>3. old(l) \in 1..n /\ old(m) \in 1..n
        BY <4>1
      <4>4. old(l) = old(m)
        BY <3>1, <3>2, <4>2, <4>3
      <4> QED
        BY <1>1, <2>2, <4>4
    <3>3. OnePerClient(rest)
      BY <2>4, <3>2 DEF OnePerClient
    <3>4. ASSUME NEW x, Holds(rest, x)
          PROVE  x.client # client
      BY <2>2, <2>6, <3>1, <3>4
    <3> QED
      BY <3>3, <3>4
  <2>9. \A x : Holds(rest, x) => Holds(sessions, x)
    BY <2>6 DEF Holds, n
  <2>10. Len(rest) <= Len(sessions)
    BY <1>1, <2>4 DEF n
  <2> QED
    BY <2>7, <2>8, <2>9, <2>10 DEF rest
<1> QED
  BY <1>2, <1>3

\* _remember: the client's session is the new one, nobody else's is new, and
\* nobody else's is lost while there is room for it.
LEMMA RememberHolds ==
    ASSUME NEW s \in State, NEW client \in Client, NEW seq \in Nat \ {0},
           NEW result \in Result
    PROVE  LET new == [client |-> client, seq |-> seq, result |-> result]
               before == s.sessions
               after == Remember(s, client, seq, result).sessions
               all == Append(Without(before, client), new)
           IN  /\ all \in Seq(Session)
               /\ \A x : Holds(after, x) => x = new \/ Holds(before, x)
               /\ Len(all) <= MaxSessions =>
                    /\ Holds(after, new)
                    /\ \A x : Holds(before, x) /\ x.client # client => Holds(after, x)
               /\ OnePerClient(before) => OnePerClient(after) /\ OnePerClient(all)
               /\ Len(before) <= MaxSessions => Len(after) <= MaxSessions
<1> DEFINE new == [client |-> client, seq |-> seq, result |-> result]
           before == s.sessions
           rest == Without(before, client)
           all == Append(rest, new)
           after == Remember(s, client, seq, result).sessions
<1>1. before \in Seq(Session)
  BY DEF State
<1>2. rest \in Seq(Session) /\ Len(rest) \in Nat
  BY <1>1, WithoutType, LenProperties
<1>3. new \in Session /\ new.client = client
  BY DEF Session
<1>4. after = IF Len(all) > MaxSessions THEN Tail(all) ELSE all
  BY DEF Remember, State
<1>5. /\ \A x : Holds(rest, x) => Holds(before, x)
      /\ \A x : Holds(before, x) /\ x.client # client => Holds(rest, x)
      /\ Len(rest) <= Len(before)
      /\ OnePerClient(before) =>
           OnePerClient(rest) /\ \A x : Holds(rest, x) => x.client # client
  BY <1>1, WithoutHolds
<1> HIDE DEF new, rest, before, after
<1>6. /\ all \in Seq(Session) /\ Len(all) = Len(rest) + 1 /\ all[Len(rest) + 1] = new
      /\ \A k \in 1..Len(rest) : all[k] = rest[k]
  BY <1>2, <1>3, AppendProperties
<1> HIDE DEF all
<1>7. all # <<>>
  BY <1>2, <1>6
<1>8. /\ Tail(all) \in Seq(Session) /\ Len(Tail(all)) = Len(rest)
      /\ \A k \in 1..Len(rest) : Tail(all)[k] = all[k + 1]
  BY <1>2, <1>6, <1>7, HeadTailProperties
<1>9. \A x : Holds(all, x) <=> x = new \/ Holds(rest, x)
  BY <1>2, <1>6 DEF Holds
<1>10. \A x : Holds(Tail(all), x) => Holds(all, x)
  BY <1>2, <1>6, <1>8 DEF Holds
<1>11. \A x : Holds(after, x) => Holds(all, x)
  BY <1>4, <1>10
<1>12. ASSUME Len(all) <= MaxSessions
       PROVE  after = all
  BY <1>2, <1>4, <1>6, <1>12, MaxSessionsAssumption
<1>13. ASSUME OnePerClient(before)
       PROVE  OnePerClient(after) /\ OnePerClient(all)
  <2>1. OnePerClient(rest) /\ \A k \in 1..Len(rest) : rest[k].client # client
    BY <1>5, <1>13 DEF Holds
  <2>2. OnePerClient(all)
    BY <1>2, <1>3, <1>6, <2>1 DEF OnePerClient
  <2>3. OnePerClient(Tail(all))
    <3> SUFFICES ASSUME NEW k \in 1..Len(rest), NEW l \in 1..Len(rest),
                        Tail(all)[k].client = Tail(all)[l].client
                 PROVE  k = l
      BY <1>8 DEF OnePerClient
    <3>1. k + 1 \in 1..Len(all) /\ l + 1 \in 1..Len(all)
      BY <1>2, <1>6
    <3>2. k + 1 = l + 1
      BY <1>8, <2>2, <3>1 DEF OnePerClient
    <3> QED
      BY <1>2, <3>2
  <2> QED
    BY <1>4, <2>2, <2>3
<1>14. ASSUME Len(before) <= MaxSessions
       PROVE  Len(after) <= MaxSessions
  <2>1. Len(before) \in Nat
    BY <1>1, LenProperties
  <2> QED
    BY <1>2, <1>4, <1>5, <1>6, <1>8, <1>14, <2>1, MaxSessionsAssumption
<1> QED
  BY <1>5, <1>6, <1>9, <1>11, <1>12, <1>13, <1>14 DEF new, before, rest, all, after

\* One session per client: there are no more sessions than clients.
LEMMA SessionsFit ==
    ASSUME NEW sessions \in Seq(Session), OnePerClient(sessions), IsFiniteSet(Client)
    PROVE  Len(sessions) <= Cardinality(Client)
<1> DEFINE n == Len(sessions)
           f == [k \in 1..n |-> sessions[k].client]
<1>1. n \in Nat
  BY LenProperties
<1>2. \A k \in 1..n : sessions[k].client \in Client
  <2>1. \A k \in 1..n : sessions[k] \in Session
    BY ElementOfSeq
  <2> QED
    BY <2>1 DEF Session
<1>3. f \in Injection(1..n, Client)
  BY <1>2 DEF Injection, IsInjective, OnePerClient
<1>4. Cardinality(1..n) <= Cardinality(Client)
  BY <1>3, FS_Injection
<1>5. Cardinality(1..n) = n
  <2>1. Cardinality(1..n) = IF 1 > n THEN 0 ELSE n - 1 + 1
    BY <1>1, FS_Interval
  <2> HIDE DEF n
  <2> QED
    BY <1>1, <2>1
<1> QED
  BY <1>4, <1>5

\* _session_result answers from a session of this client that is as new.
LEMMA SessionResultHeld ==
    ASSUME NEW s \in State, NEW client, NEW seq, NEW r \in SessionResult(s, client, seq)
    PROVE  /\ r \in Result
           /\ \E x \in Session : /\ Holds(s.sessions, x) /\ x.client = client /\ seq <= x.seq
                                /\ r = IF seq = x.seq THEN x.result ELSE StaleAnswer
<1>1. s.sessions \in Seq(Session)
  BY DEF State
<1>2. PICK k \in 1..Len(s.sessions) :
        /\ s.sessions[k].client = client /\ seq <= s.sessions[k].seq
        /\ r = IF seq = s.sessions[k].seq THEN s.sessions[k].result ELSE StaleAnswer
  BY DEF SessionResult, SessionsOf
<1>3. s.sessions[k] \in Session
  BY <1>1, <1>2, ElementOfSeq
<1>4. StaleAnswer \in Result
  BY DEF StaleAnswer, Result
<1> QED
  BY <1>2, <1>3, <1>4 DEF Holds, Session

\* apply: an entry is a retry when a session of its client is as new.
LEMMA DuplicateHeld ==
    ASSUME NEW s \in State, NEW entry, NEW x, Holds(s.sessions, x),
           x.client = entry.client, entry.seq <= x.seq, entry.seq > 0
    PROVE  Duplicate(s, entry)
<1>1. PICK k \in 1..Len(s.sessions) : s.sessions[k] = x
  BY DEF Holds
<1> QED
  BY <1>1 DEF Duplicate, SessionResult, SessionsOf

\* apply: the only new session is that of the entry; all others stay as long as
\* there is room for all clients.
LEMMA ApplySessions ==
    ASSUME NEW s \in State, NEW client \in Client, NEW seq \in Nat, NEW cmd \in Command,
           NEW entry, entry.client = client, entry.seq = seq, entry.cmd = cmd
    PROVE  LET before == s.sessions
               after == Apply(s, entry).sessions
               new == [client |-> client, seq |-> seq, result |-> Outcome(s, cmd)]
               effective == ~Duplicate(s, entry) /\ seq > 0
           IN  /\ \A x : Holds(after, x) => Holds(before, x) \/ (effective /\ x = new)
               /\ ~effective => after = before
               /\ OnePerClient(before) => OnePerClient(after)
               /\ Len(before) <= MaxSessions => Len(after) <= MaxSessions
               /\ effective /\ OnePerClient(before) /\ IsFiniteSet(Client)
                    /\ Cardinality(Client) <= MaxSessions =>
                    /\ Holds(after, new)
                    /\ \A x : Holds(before, x) /\ x.client # client => Holds(after, x)
<1> DEFINE mid == Effect(s, cmd)
           out == Outcome(s, cmd)
           before == s.sessions
           after == Apply(s, entry).sessions
           new == [client |-> client, seq |-> seq, result |-> out]
           effective == ~Duplicate(s, entry) /\ seq > 0
<1>1. mid \in State /\ mid.sessions = before /\ out \in Result
  BY EffectType
<1>2. ~effective => after = before
  <2>1. CASE Duplicate(s, entry)
    BY <2>1 DEF Apply
  <2>2. CASE ~Duplicate(s, entry) /\ seq = 0
    <3>1. Apply(s, entry) = mid
      BY <2>2 DEF Apply
    <3> QED
      BY <1>1, <3>1
  <2> QED
    BY <2>1, <2>2
<1>3. CASE effective
  <2> DEFINE all == Append(Without(mid.sessions, client), new)
  <2>1. Apply(s, entry) = Remember(mid, client, seq, out)
    BY <1>3 DEF Apply
  <2>2. seq \in Nat \ {0}
    BY <1>3
  <2> HIDE DEF mid, out
  <2>3. /\ all \in Seq(Session)
        /\ \A x : Holds(after, x) => x = new \/ Holds(before, x)
        /\ Len(all) <= MaxSessions =>
             /\ Holds(after, new)
             /\ \A x : Holds(before, x) /\ x.client # client => Holds(after, x)
        /\ OnePerClient(before) => OnePerClient(after) /\ OnePerClient(all)
        /\ Len(before) <= MaxSessions => Len(after) <= MaxSessions
    BY <1>1, <2>1, <2>2, RememberHolds
  <2> HIDE DEF all, new, before, after
  <2>4. ASSUME OnePerClient(before), IsFiniteSet(Client), Cardinality(Client) <= MaxSessions
        PROVE  Len(all) <= MaxSessions
    <3>1. Len(all) <= Cardinality(Client)
      BY <2>3, <2>4, SessionsFit
    <3>2. Len(all) \in Nat /\ Cardinality(Client) \in Nat
      BY <2>3, <2>4, LenProperties, FS_CardinalityType
    <3> QED
      BY <2>4, <3>1, <3>2, MaxSessionsAssumption
  <2> QED
    BY <1>3, <2>3, <2>4 DEF new, before, after, out
<1>4. CASE ~effective
  BY <1>2, <1>4
<1> QED
  BY <1>3, <1>4

\* apply: a session that was not there is that of the entry, with its result.
LEMMA NewSession ==
    ASSUME NEW s \in State, NEW entry, entry.client \in Client, entry.seq \in Nat,
           entry.cmd \in Command,
           NEW x, Holds(Apply(s, entry).sessions, x), ~Holds(s.sessions, x)
    PROVE  /\ ~Duplicate(s, entry) /\ entry.seq > 0
           /\ x.client = entry.client /\ x.seq = entry.seq
           /\ x.result = Outcome(s, entry.cmd)
<1> DEFINE mid == Effect(s, entry.cmd)
           out == Outcome(s, entry.cmd)
           new == [client |-> entry.client, seq |-> entry.seq, result |-> out]
<1>1. ~Duplicate(s, entry) /\ entry.seq > 0
  BY ApplySessions
<1>2. mid \in State /\ mid.sessions = s.sessions /\ out \in Result
  BY EffectType
<1>3. Apply(s, entry) = Remember(mid, entry.client, entry.seq, out)
  BY <1>1 DEF Apply
<1>4. entry.seq \in Nat \ {0}
  BY <1>1
<1>5. new.client = entry.client /\ new.seq = entry.seq /\ new.result = out
  OBVIOUS
<1> HIDE DEF mid, out
<1>6. \A y : Holds(Apply(s, entry).sessions, y) => y = new \/ Holds(s.sessions, y)
  <2> DEFINE all == Append(Without(mid.sessions, entry.client), new)
             after == Remember(mid, entry.client, entry.seq, out).sessions
  <2>1. /\ all \in Seq(Session)
        /\ \A y : Holds(after, y) => y = new \/ Holds(mid.sessions, y)
        /\ Len(all) <= MaxSessions =>
             /\ Holds(after, new)
             /\ \A y : Holds(mid.sessions, y) /\ y.client # entry.client => Holds(after, y)
        /\ OnePerClient(mid.sessions) => OnePerClient(after) /\ OnePerClient(all)
        /\ Len(mid.sessions) <= MaxSessions => Len(after) <= MaxSessions
    BY <1>2, <1>4, RememberHolds
  <2> QED
    BY <1>2, <1>3, <2>1
<1> QED
  BY <1>1, <1>5, <1>6 DEF out

=============================================================================
