------------------------------ MODULE Gateway ------------------------------
(***************************************************************************)
(* The web gateway of part6_web: HTTP requests on keys (api/kv.py), the    *)
(* identity a write is de-duplicated under (services/kv_service.py), and   *)
(* the client that carries a request to the Raft cluster, follows          *)
(* redirects, fails over and decides what to report when time runs out     *)
(* (clients/raft_cluster.py).                                              *)
(*                                                                         *)
(* The cluster is used through what modules RaftNode and KVStore show of   *)
(* it: an entry a node appended may be committed at any later time, or     *)
(* never; committed entries run through KVStateMachine in one order.       *)
(* While the cluster has not settled on a leader, any node may believe it  *)
(* leads and may name any other node, or none, as the leader.              *)
(***************************************************************************)
EXTENDS KVStateMachine, FiniteSets

CONSTANTS
    NodeCount,     \* nodes 0 .. node_count - 1
    Nil,           \* no leader known
    Http,          \* the HTTP requests
    NoKey,         \* a request without an Idempotency-Key
    Asks,          \* what a request may ask for: an operation and an Idempotency-Key
    MaxRedirects,  \* redirects followed without a pause: 3
    MaxAttempts,   \* bound on the failed attempts of all requests together
    MaxElections,  \* bound on the elections while requests are served
    MaxFaults      \* bound on the calls that fail in transit

Node == 0..(NodeCount - 1)

\* _identity: each HTTP request is a client of its own with seq_num 1; with an
\* Idempotency-Key the client is the key together with the request.
Fresh(h) == [http |-> h]
Identity == {Fresh(h) : h \in Http} \cup [key : {a.key : a \in Asks}, op : {a.op : a \in Asks}]

ASSUME GatewayAssumption ==
    /\ Identity \subseteq Client
    /\ \A a \in Asks : a = [op |-> a.op, key |-> a.key] /\ a.op \in Command
    /\ NodeCount \in Nat \ {0}
    /\ Nil \notin Node
    /\ MaxRedirects \in Nat /\ MaxAttempts \in Nat /\ MaxElections \in Nat /\ MaxFaults \in Nat

VARIABLES
    leaderHint,  \* _leader
    http,        \* per HTTP request, the state of its _call
    kv,          \* the state of the committed log
    pending,     \* entries some node appended that may still be committed
    leader,      \* the leader all nodes agree on, or Nil while they do not
    elections, faults,
    effects      \* history: the writes that took effect, with their result

cluster == <<leader, elections>>
vars == <<leaderHint, http, kv, pending, cluster, faults, effects>>

\* A call that has not started.  unreachable, redirects, maybe: the locals of
\* _call; status and version: the answer.  orphan and strays are history: an
\* attempt that appended was answered NOT_LEADER; attempts that missed a
\* settled leader.
NewCall == [stage |-> "new", ask |-> Nil, node |-> 0, unreachable |-> {},
            redirects |-> 0, maybe |-> FALSE, attempts |-> 0,
            status |-> 0, version |-> 0, orphan |-> FALSE, strays |-> 0]

Init ==
    /\ leaderHint = 0
    /\ http = [h \in Http |-> NewCall]
    /\ kv = Empty
    /\ pending = {}
    /\ leader \in Node
    /\ elections = 0 /\ faults = 0
    /\ effects = {}

-----------------------------------------------------------------------------
(* The service                                                             *)

\* Mutant: the key alone makes the identity
IdentityOfKeyAlone(h, ask) ==
    IF ask.key = NoKey THEN Fresh(h) ELSE [key |-> ask.key, op |-> Noop]

\* Mutant: the Idempotency-Key is ignored
IdentityOfRequest(h, ask) == Fresh(h)

\* _identity
IdentityOf(h, ask) ==
    IF ask.key = NoKey THEN Fresh(h) ELSE [key |-> ask.key, op |-> ask.op]

IsWrite(ask) == ask.op # Noop

\* put and delete of KVService with write_key and delete_key: a failed
\* condition is a 412, the delete of an absent key a 404
WriteStatus(op, result) ==
    CASE op.op = "put" -> 200
      [] op.op = "delete" -> IF result.flag THEN 204 ELSE 404
      [] op.op = "cas" /\ ~result.flag -> 412
      [] op.op = "cas" /\ result.flag -> IF op.expectAbsent THEN 201 ELSE 200

-----------------------------------------------------------------------------
(* _call                                                                   *)

\* _next_node: the next one round the ring that did not fail, itself last, and
\* what is left of unreachable
NextNode(node, unreachable) ==
    LET steps == {s \in 1..NodeCount : (node + s) % NodeCount \notin unreachable}
        first == CHOOSE s \in steps : \A t \in steps : s <= t
    IN  IF steps # {} THEN <<(node + first) % NodeCount, unreachable>>
        ELSE <<(node + 1) % NodeCount, {}>>

\* Nodes that may believe they lead, nodes that may believe they do not, and
\* what those may answer as their leader_id
MayLead == IF leader = Nil THEN Node ELSE {leader}
MayFollow == IF leader = Nil THEN Node ELSE Node \ {leader}
Hints == IF leader = Nil THEN Node \cup {Nil} ELSE {leader}

\* The attempts of c that missed a settled leader it has not given up, with
\* the one that fails now at its node
Strays(c) ==
    IF leader \notin c.unreachable \cup {c.node, Nil} THEN c.strays + 1 ELSE 0

\* The call after an attempt: the next node is tried after a pause
Advance(c, unreachable) ==
    LET next == NextNode(c.node, unreachable) IN
    [c EXCEPT !.stage = "send", !.node = next[1], !.unreachable = next[2],
              !.redirects = 0, !.strays = Strays(c)]

EntryOf(h) ==
    [client |-> IdentityOf(h, http[h].ask), seq |-> 1, cmd |-> http[h].ask.op,
     http |-> h, attempt |-> http[h].attempts]

\* A route of api/kv.py is called, and _call starts at the leader hint
Receive(h, ask) ==
    /\ http[h].stage = "new"
    /\ http' = [http EXCEPT ![h].stage = "send", ![h].ask = ask,
                            ![h].node = leaderHint]
    /\ UNCHANGED <<leaderHint, kv, pending, cluster, faults, effects>>

\* The call of the client is under way or about to be made
Attempting(h) ==
    /\ http[h].stage \in {"send", "wait"}
    /\ Cardinality(UNION {{g} \X (1..http[g].attempts) : g \in Http}) < MaxAttempts

\* _commit on a node that believes it leads: the write is in its log
AppendAt(h) ==
    LET c == http[h] IN
    /\ Attempting(h) /\ c.stage = "send"
    /\ IsWrite(c.ask)
    /\ c.node \in MayLead
    /\ pending' = pending \cup {EntryOf(h)}
    /\ http' = [http EXCEPT ![h].stage = "wait"]
    /\ UNCHANGED <<leaderHint, kv, cluster, faults, effects>>

\* The answer to the HTTP client; the locals of _call are gone
Finish(h, status, version) ==
    LET c == http[h] IN
    http' = [http EXCEPT ![h] =
      [NewCall EXCEPT !.stage = "done", !.ask = c.ask, !.attempts = c.attempts,
                      !.orphan = c.orphan, !.status = status, !.version = version]]

\* A write succeeds: its entry was applied, or the session table of the node,
\* whatever its role, knows the result already
WriteSucceeds(h) ==
    LET c == http[h] IN
    /\ Attempting(h)
    /\ IsWrite(c.ask)
    /\ leaderHint' = c.node
    /\ \E result \in SessionResult(kv, IdentityOf(h, c.ask), 1) :
          Finish(h, WriteStatus(c.ask.op, result), result.version)
    /\ UNCHANGED <<kv, pending, cluster, faults, effects>>

\* Get on a node that believes it leads, and read_key: 200 stands for the value,
\* for 304 if the client's copy is current, and for 404
ReadSucceeds(h) ==
    LET c == http[h] IN
    /\ Attempting(h) /\ c.stage = "send"
    /\ ~IsWrite(c.ask)
    /\ c.node \in MayLead
    /\ leaderHint' = c.node
    /\ Finish(h, 200, 0)
    /\ UNCHANGED <<kv, pending, cluster, faults, effects>>

\* Mutant: a NOT_LEADER answer clears maybe_applied
ForgetMaybe(c, target) == Advance([c EXCEPT !.maybe = FALSE], c.unreachable)

\* Mutant: redirects are not followed, and the same node is asked again
StayOnNode(c, target) == [c EXCEPT !.stage = "send", !.strays = Strays(c)]

\* The call after NOT_LEADER: the redirect is followed if it names another node
\* that did not fail, at most MaxRedirects times without a pause
AfterRefusal(c, target) ==
    IF target \notin c.unreachable \cup {Nil, c.node} /\ c.redirects < MaxRedirects
    THEN [c EXCEPT !.stage = "send", !.node = target, !.redirects = @ + 1,
                   !.strays = Strays(c)]
    ELSE Advance(c, c.unreachable)

\* The node answers NOT_LEADER: its role check fails, or it lost its role while
\* the write was waiting in its log
NotLeader(h) ==
    LET c == http[h]
        refused == [c EXCEPT !.attempts = @ + 1, !.orphan = @ \/ c.stage = "wait"]
    IN
    /\ Attempting(h)
    /\ c.node \in MayFollow
    /\ \E target \in Hints : http' = [http EXCEPT ![h] = AfterRefusal(refused, target)]
    /\ UNCHANGED <<leaderHint, kv, pending, cluster, faults, effects>>

\* UNAVAILABLE or DEADLINE_EXCEEDED: the node is cut off, or the call is slow;
\* a slow call may still reach a node that appends the write
FailInTransit(h) ==
    LET c == http[h]
        sent == [c EXCEPT !.attempts = @ + 1, !.maybe = @ \/ IsWrite(c.ask)]
    IN
    /\ Attempting(h)
    /\ faults < MaxFaults
    /\ faults' = faults + 1
    /\ \/ UNCHANGED pending
       \/ /\ IsWrite(c.ask) /\ c.stage = "send" /\ c.node \in MayLead
          /\ pending' = pending \cup {EntryOf(h)}
    /\ http' = [http EXCEPT ![h] = Advance(sent, c.unreachable \cup {c.node})]
    /\ UNCHANGED <<leaderHint, kv, cluster, effects>>

\* Any other error, of the call or of the node: StoreError
FailOtherwise(h) ==
    /\ http[h].stage \in {"send", "wait"}
    /\ Finish(h, 502, 0)
    /\ UNCHANGED <<leaderHint, kv, pending, cluster, faults, effects>>

\* The deadline has passed, at the latest after MaxAttempts attempts
TimeOut(h) ==
    /\ http[h].stage = "send"
    /\ http[h].attempts > 0
    /\ Finish(h, IF http[h].maybe THEN 504 ELSE 503, 0)
    /\ UNCHANGED <<leaderHint, kv, pending, cluster, faults, effects>>

-----------------------------------------------------------------------------
(* The cluster                                                             *)

\* An entry is committed and applied
Commit(e) ==
    /\ pending' = pending \ {e}
    /\ kv' = Apply(kv, e)
    /\ effects' = IF Duplicate(kv, e) THEN effects
                  ELSE effects \cup {[entry |-> e, result |-> ApplyResult(kv, e)]}
    /\ UNCHANGED <<leaderHint, http, cluster, faults>>

\* The leader is lost, or another election begins
Unsettle ==
    /\ leader # Nil
    /\ elections < MaxElections
    /\ elections' = elections + 1
    /\ leader' = Nil
    /\ http' = [h \in Http |-> [http[h] EXCEPT !.strays = 0]]
    /\ UNCHANGED <<leaderHint, kv, pending, faults, effects>>

\* A node has won and every node has heard from it
Settle(n) ==
    /\ leader = Nil
    /\ leader' = n
    /\ UNCHANGED <<leaderHint, http, kv, pending, elections, faults, effects>>

Next ==
    \/ \E h \in Http :
         \/ \E ask \in Asks : Receive(h, ask)
         \/ AppendAt(h) \/ WriteSucceeds(h) \/ ReadSucceeds(h)
         \/ NotLeader(h) \/ FailInTransit(h) \/ FailOtherwise(h) \/ TimeOut(h)
    \/ \E e \in pending : Commit(e)
    \/ Unsettle
    \/ \E n \in Node : Settle(n)

Spec == Init /\ [][Next]_vars

-----------------------------------------------------------------------------
(* Properties                                                              *)

\* A write answered with anything but 502, 503 and 504
Answered(h) == http[h].stage = "done" /\ http[h].status \notin {502, 503, 504}

\* A definite answer to a write, success, 412 or 404, is the outcome of the one
\* time this very request took effect, on whichever node and attempt, also when
\* the same Idempotency-Key was used for another request.
AnswerIsOwnEffect ==
    \A h \in Http : Answered(h) /\ IsWrite(http[h].ask) =>
        \E f \in effects :
            /\ f.entry.cmd = http[h].ask.op
            /\ f.entry.http = h \/ http[f.entry.http].ask = http[h].ask
            /\ http[h].status = WriteStatus(f.entry.cmd, f.result)
            /\ http[h].version = f.result.version

\* Two HTTP requests that are the same request with the same Idempotency-Key
\* take effect once between them, even when both are under way at the same time
\* on different nodes; so does one request that is retried.
KeyedOnce ==
    \A f, g \in effects :
        LET a == http[f.entry.http].ask  b == http[g.entry.http].ask IN
        f.entry.http = g.entry.http \/ (a = b /\ a.key # NoKey) => f = g

\* 503 tells the client that the request was not applied and never will be: no
\* attempt of it is in any log, whatever the other attempts were answered.  Only
\* the answer NOT_LEADER of a node that had appended the write before it lost
\* its role makes 503 wrong, against what part6_web/README.md says of it.
UnavailableUnlessDeposed ==
    \A h \in Http : http[h].status = 503 /\ ~http[h].orphan =>
        /\ \A e \in pending : e.http # h
        /\ \A f \in effects : f.entry.http # h

\* Once the cluster has settled on a leader, a request that has not given it up
\* reaches it after at most MissBound other attempts: redirects and failures do
\* not lead it round in circles.
MissBound == NodeCount - 1
SettledLeaderReached == \A h \in Http : http[h].strays <= MissBound

=============================================================================
