------------------------------ MODULE KVStore ------------------------------
(***************************************************************************)
(* The replicated key-value store: the servicer of raft_kv_server.py on    *)
(* every node, the state machines, and the clients of kv_client_stub.py    *)
(* that retry on other nodes until they get an answer.                     *)
(*                                                                         *)
(* The consensus engine is used through what RaftNode is shown to          *)
(* implement (module ReplicatedLog): an appended entry may be committed at *)
(* some later time, once, or be lost; committed entries reach every state  *)
(* machine in one order; the caller of append_entry gets the result only   *)
(* when its own entry is applied on its node, and an error at any time.    *)
(*                                                                         *)
(* A handler thread outlives the client that stopped waiting for it, so    *)
(* several handlers of one request can run, on one node or several.        *)
(***************************************************************************)
EXTENDS KVStateMachine, FiniteSets

CONSTANTS
    Node,
    Cmds,          \* what clients ask for: writes, and Noop for a linearizable read
    MaxRequests,   \* bound on the requests of one client
    MaxAttempts,   \* max_retries + 1
    MaxRestarts    \* bound on the restarts of nodes

ASSUME NodeAssumption == IsFiniteSet(Node) /\ Node # {}
ASSUME CmdsAssumption == Cmds \subseteq Command
ASSUME StoreBoundAssumption ==
    MaxRequests \in Nat /\ MaxAttempts \in Nat \ {0} /\ MaxRestarts \in Nat

VARIABLES
    clog,       \* the committed log
    pending,    \* entries appended to a leader's log, neither committed nor lost
    sm,         \* per node, its KVStateMachine
    applied,    \* per node, how many entries it applied
    handlers,   \* the servicer threads
    client,     \* per client, the request in hand
    restarts,   \* how many restarts there were
    states,     \* history: the state before the first and after each entry of clog
    effects,    \* history: the writes of clog that are not retries, with their result
    done        \* history: the requests answered to their client

vars == <<clog, pending, sm, applied, handlers, client, restarts, states, effects, done>>
history == <<states, effects, done>>

\* One attempt of one request.  req only tells requests apart: a read has no
\* seq_num.
Call == [client : Client, req : Nat \ {0}, attempt : 1..MaxAttempts, seq : Nat, cmd : Cmds]
\* The log entry of a call
Entry == Call
\* The thread that serves a call
Handler == [call : Call, node : Node, stage : {"lookup", "append", "wait", "read"}]

Idle == [busy |-> FALSE, req |-> 0, seq |-> 0, attempt |-> 0, cmd |-> Noop, start |-> 0]

Init ==
    /\ clog = <<>>
    /\ pending = {}
    /\ sm = [n \in Node |-> Empty]
    /\ applied = [n \in Node |-> 0]
    /\ handlers = {}
    /\ client = [c \in Client |-> Idle]
    /\ restarts = 0
    /\ states = <<Empty>>
    /\ effects = {}
    /\ done = {}

-----------------------------------------------------------------------------
(* The client stub                                                         *)

\* _next_seq: a write takes the next number, a read none
NextSeq(c, cmd) == IF cmd = Noop THEN client[c].seq ELSE client[c].seq + 1

\* put, delete, cas, cas_version, put_if_absent, get: a new request
Invoke(c, cmd) ==
    /\ ~client[c].busy
    /\ client[c].req < MaxRequests
    /\ client' = [client EXCEPT ![c] =
         [busy |-> TRUE, req |-> @.req + 1, seq |-> NextSeq(c, cmd), attempt |-> 0,
          cmd |-> cmd, start |-> Len(clog)]]
    /\ UNCHANGED <<clog, pending, sm, applied, handlers, restarts, history>>

\* Mutant: a linearizable read is served at once
ReadAtOnce(cmd) == IF cmd = Noop THEN "read" ELSE "lookup"

\* Where a handler starts: a write in _commit, a read with its barrier
FirstStage(cmd) == IF cmd = Noop THEN "append" ELSE "lookup"

\* Mutant: one attempt too many
OneAttemptMore(c, n) ==
    LET cl == client[c]
        call == [client |-> c, req |-> cl.req, attempt |-> cl.attempt + 1,
                 seq |-> IF cl.cmd = Noop THEN 0 ELSE cl.seq, cmd |-> cl.cmd]
    IN
    /\ cl.busy
    /\ cl.attempt <= MaxAttempts
    /\ client' = [client EXCEPT ![c].attempt = @ + 1]
    /\ handlers' = handlers \cup
         {[call |-> call, node |-> n, stage |-> FirstStage(cl.cmd)]}
    /\ UNCHANGED <<clog, pending, sm, applied, restarts, history>>

\* _execute: the next attempt, after NOT_LEADER, a lost call or a deadline: the
\* request is sent as it was to another node or the same one.
Attempt(c, n) ==
    LET cl == client[c]
        call == [client |-> c, req |-> cl.req, attempt |-> cl.attempt + 1,
                 seq |-> IF cl.cmd = Noop THEN 0 ELSE cl.seq, cmd |-> cl.cmd]
    IN
    /\ cl.busy
    /\ cl.attempt < MaxAttempts
    /\ client' = [client EXCEPT ![c].attempt = @ + 1]
    /\ handlers' = handlers \cup
         {[call |-> call, node |-> n, stage |-> FirstStage(cl.cmd)]}
    /\ UNCHANGED <<clog, pending, sm, applied, restarts, history>>

\* _execute raises, on another error or after the last attempt: the outcome of
\* the request is unknown to the client
GiveUp(c) ==
    /\ client[c].busy
    /\ client[c].attempt > 0
    /\ client' = [client EXCEPT ![c].busy = FALSE]
    /\ UNCHANGED <<clog, pending, sm, applied, handlers, restarts, history>>

Waits(call) ==
    LET cl == client[call.client] IN
    cl.busy /\ cl.req = call.req /\ cl.attempt = call.attempt

\* A handler returns a result: the client that still waits for this attempt
\* takes it, or the response is lost.  seen: how much of the log the answering
\* state machine had applied.
Respond(h, result, seen) ==
    /\ handlers' = handlers \ {h}
    /\ \/ /\ Waits(h.call)
          /\ client' = [client EXCEPT ![h.call.client].busy = FALSE]
          /\ done' = done \cup
               {[client |-> h.call.client, seq |-> h.call.seq, cmd |-> h.call.cmd,
                 start |-> client[h.call.client].start, result |-> result,
                 seen |-> seen]}
       \/ UNCHANGED <<client, done>>

-----------------------------------------------------------------------------
(* The servicer                                                            *)

MoveTo(h, stage) == handlers' = (handlers \ {h}) \cup {[h EXCEPT !.stage = stage]}

\* _commit, first step: lookup_session on this node's state machine, whatever
\* the node's role
Lookup(h) ==
    LET cached == SessionResult(sm[h.node], h.call.client, h.call.seq) IN
    /\ h.stage = "lookup"
    /\ \/ \E result \in cached : Respond(h, result, applied[h.node])
       \/ /\ cached = {}
          /\ MoveTo(h, "append")
          /\ UNCHANGED <<client, done>>
    /\ UNCHANGED <<clog, pending, sm, applied, restarts, states, effects>>

\* _commit and Get, second step: append_entry on a node that believes it leads
AppendToLog(h) ==
    /\ h.stage = "append"
    /\ pending' = pending \cup {h.call}
    /\ MoveTo(h, "wait")
    /\ UNCHANGED <<clog, sm, applied, client, restarts, history>>

\* The call does not reach the node or is aborted because it is isolated, or
\* NOT_LEADER or an error is returned: from the role check, from a leader that
\* lost its role while the client waited, or after the 10 s wait.  What was
\* appended stays in the log.
Refuse(h) ==
    /\ h.stage \in {"lookup", "append", "wait"}
    /\ handlers' = handlers \ {h}
    /\ UNCHANGED <<clog, pending, sm, applied, client, restarts, history>>

\* Get, last step: the barrier is applied, the value is read from the state
\* machine as it is by now
ServeRead(h) ==
    /\ h.stage = "read"
    /\ Respond(h, Answer(0, FALSE, NoValue), applied[h.node])
    /\ UNCHANGED <<clog, pending, sm, applied, restarts, states, effects>>

-----------------------------------------------------------------------------
(* The replicated log                                                      *)

\* The entry is on a majority
Commit(e) ==
    LET before == states[Len(states)] IN
    /\ pending' = pending \ {e}
    /\ clog' = Append(clog, e)
    /\ states' = Append(states, Apply(before, e))
    /\ effects' = IF e.seq = 0 \/ Duplicate(before, e) THEN effects
                  ELSE effects \cup {[client |-> e.client, seq |-> e.seq, cmd |-> e.cmd,
                                      index |-> Len(clog) + 1,
                                      result |-> ApplyResult(before, e)]}
    /\ UNCHANGED <<sm, applied, handlers, client, restarts, done>>

\* Another leader overwrote the entry
LoseEntry(e) ==
    /\ pending' = pending \ {e}
    /\ UNCHANGED <<clog, sm, applied, handlers, client, restarts, history>>

\* The applier of a node: apply_fn, and the result goes to the handler that
\* appended this very entry
ApplyNext(n) ==
    LET e == clog[applied[n] + 1]
        mine == {h \in handlers : h.node = n /\ h.stage = "wait" /\ h.call = e}
    IN
    /\ applied[n] < Len(clog)
    /\ applied' = [applied EXCEPT ![n] = @ + 1]
    /\ sm' = [sm EXCEPT ![n] = Apply(@, e)]
    /\ \/ /\ mine = {}
          /\ UNCHANGED <<handlers, client, done>>
       \/ \E h \in mine :
            IF e.cmd = Noop
            THEN MoveTo(h, "read") /\ UNCHANGED <<client, done>>
            ELSE Respond(h, ApplyResult(sm[n], e), applied[n] + 1)
    /\ UNCHANGED <<clog, pending, restarts, states, effects>>

\* Mutant: the state machine survives, the log is applied to it again
RestartOnOldState(n) ==
    /\ restarts < MaxRestarts
    /\ restarts' = restarts + 1
    /\ applied' = [applied EXCEPT ![n] = 0]
    /\ handlers' = {h \in handlers : h.node # n}
    /\ UNCHANGED <<clog, pending, sm, client, history>>

\* The process is killed and started again: the log is replayed
Restart(n) ==
    /\ restarts < MaxRestarts
    /\ restarts' = restarts + 1
    /\ sm' = [sm EXCEPT ![n] = Empty]
    /\ applied' = [applied EXCEPT ![n] = 0]
    /\ handlers' = {h \in handlers : h.node # n}
    /\ UNCHANGED <<clog, pending, client, history>>

ClientStep(c) ==
    \/ \E cmd \in Cmds : Invoke(c, cmd)
    \/ \E n \in Node : Attempt(c, n)
    \/ GiveUp(c)

Next ==
    \/ \E c \in Client : ClientStep(c)
    \/ \E h \in handlers : Lookup(h) \/ AppendToLog(h) \/ Refuse(h) \/ ServeRead(h)
    \/ \E e \in pending : Commit(e) \/ LoseEntry(e)
    \/ \E n \in Node : ApplyNext(n) \/ Restart(n)

Spec == Init /\ [][Next]_vars

-----------------------------------------------------------------------------
(* Properties                                                              *)

ClientState ==
    [busy : BOOLEAN, req : Nat, seq : Nat, attempt : 0..MaxAttempts,
     cmd : Command, start : Nat]
EffectRecord ==
    [client : Client, seq : Nat \ {0}, cmd : Cmds, index : Nat \ {0}, result : Result]
DoneRecord ==
    [client : Client, seq : Nat, cmd : Cmds, start : Nat, result : Result, seen : Nat]

TypeOK ==
    /\ clog \in Seq(Entry)
    /\ pending \subseteq Entry
    /\ sm \in [Node -> State]
    /\ applied \in [Node -> 0..Len(clog)]
    /\ handlers \subseteq Handler
    /\ client \in [Client -> ClientState]
    /\ restarts \in Nat
    /\ states \in Seq(State)
    /\ effects \subseteq EffectRecord
    /\ done \subseteq DoneRecord

\* A write takes effect at most once, however often and wherever it is retried,
\* as long as no session was evicted: the check in apply, since the one of
\* lookup_session misses the attempts that are not applied yet.
ExactlyOnce ==
    \A e, f \in effects : e.client = f.client /\ e.seq = f.seq => e = f

\* A client that is given an answer to a write is given the result of the one
\* time it took effect, from whichever node and attempt, and never the answer
\* "stale" that _session_result keeps for requests nobody waits for.
AnswersAreOutcomes ==
    \A d \in done : d.seq > 0 =>
        \E e \in effects :
            /\ e.client = d.client /\ e.seq = d.seq /\ e.cmd = d.cmd
            /\ e.result = d.result
            /\ e.index <= d.seen

\* A request takes its effect after it was made: a write at an entry committed
\* later, a read on a state no older than what was committed by then.  With the
\* answers above, that is linearizability in the order of the log.
Linearizable ==
    \A d \in done :
        IF d.seq = 0 THEN d.seen >= d.start
        ELSE \E e \in effects : /\ e.client = d.client /\ e.seq = d.seq
                                /\ e.index > d.start

\* Every node holds the state of its prefix of the log, sessions and tombstones
\* included, also after a restart.
ReplicasAgree == \A n \in Node : sm[n] = states[applied[n] + 1]

=============================================================================
