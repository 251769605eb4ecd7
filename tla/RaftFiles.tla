----------------------------- MODULE RaftFiles -----------------------------
(***************************************************************************)
(* The file system on Raft: the servicer of raft_server.py on every node,  *)
(* with its handles, versions and answers to retries, all kept per node    *)
(* and in memory, and the client of raft_client_stub.py that is redirected *)
(* to the leader and retries on other nodes.                               *)
(*                                                                         *)
(* The consensus engine is used through what module ReplicatedLog          *)
(* promises, as in module KVStore; a node that does not lead names the     *)
(* node that does.  The cache of the client works like the one of module   *)
(* FileService and is left out.                                            *)
(***************************************************************************)
EXTENDS Naturals, Sequences, FiniteSets

CONSTANTS
    NodeCount,      \* nodes 0 .. NodeCount - 1
    Client, File,
    Nil,            \* no leader known
    Absent, Empty,  \* no file, an empty file
    MaxOps,         \* bound on the operations of all clients
    MaxRetries,     \* max_retries
    MaxFaults       \* bound on time-outs, restarts, lost leaderships and late redirects together

Node == 0..(NodeCount - 1)

ASSUME RaftFilesAssumption ==
    /\ NodeCount \in Nat \ {0}
    /\ Nil \notin Node
    /\ Absent # Empty /\ Absent \notin Nat /\ Empty \notin Nat
    /\ MaxOps \in Nat /\ MaxRetries \in Nat /\ MaxFaults \in Nat

VARIABLES
    leader,      \* the node that leads, or Nil
    clog,        \* the committed log
    pending,     \* entries in the log of a leader, neither committed nor lost
    applied,     \* per node, how many entries it applied
    disk,        \* per node and file, the contents
    versions,    \* per node and file, file_versions, 0 for no entry
    opened,      \* per node, open_files; id, the open that made a handle, is history
    nextHandle,  \* per node
    dedup,       \* per node and client, dedup_cache: the last seq_num with its response
    handlers,    \* the servicer threads
    request,     \* per client, the request in hand
    seq,         \* per client, seq_num
    conn,        \* per client, _current_idx and the node it is connected to
    active,      \* per client, active_handles
    ops, faults,
    told,        \* history: the closes that were answered with success
    crossed      \* history: the closes that found a handle another open made

replica == <<applied, disk, versions, opened, nextHandle, dedup>>
raft == <<leader, clog, pending>>
user == <<request, seq, conn, active, ops, told>>
vars == <<replica, raft, handlers, user, faults, crossed>>

NoRequest == [op |-> "none"]
NoResponse == [seq |-> 0, ok |-> FALSE]

Init ==
    /\ leader = 0          \* the node the clients connect to first
    /\ clog = <<>> /\ pending = {}
    /\ applied = [n \in Node |-> 0]
    /\ disk = [n \in Node |-> [f \in File |-> Absent]]
    /\ versions = [n \in Node |-> [f \in File |-> 0]]
    /\ opened = [n \in Node |-> {}]
    /\ nextHandle = [n \in Node |-> 1]
    /\ dedup = [n \in Node |-> [c \in Client |-> NoResponse]]
    /\ handlers = {}
    /\ request = [c \in Client |-> NoRequest]
    /\ seq = [c \in Client |-> 0]
    /\ conn = [c \in Client |-> [idx |-> 0, node |-> 0]]
    /\ active = [c \in Client |-> {}]
    /\ ops = 0 /\ faults = 0
    /\ told = {} /\ crossed = {}

-----------------------------------------------------------------------------
(* The client                                                              *)

Fault == faults < MaxFaults /\ faults' = faults + 1

Begin(c) == request[c] = NoRequest /\ ops < MaxOps /\ ops' = ops + 1

\* _execute_rpc: an attempt is sent to the node the client is connected to
Send(r, node) == handlers' = handlers \cup {[req |-> r, node |-> node, stage |-> "dedup"]}

\* create and close: a request with the next seq_num.  A close sends what is
\* in the cached copy, here the number of the operation.
Call(c, new) ==
    /\ Begin(c)
    /\ seq' = [seq EXCEPT ![c] = @ + 1]
    /\ request' = [request EXCEPT ![c] = new]
    /\ Send(new, conn[c].node)
    /\ UNCHANGED <<replica, raft, conn, told, faults, crossed>>

CallCreate(c, f) ==
    /\ Call(c, [client |-> c, seq |-> seq[c] + 1, attempt |-> 0, op |-> "create", file |-> f])
    /\ UNCHANGED active

\* close takes the handle out of active_handles before it is sent
CallClose(c, a) ==
    /\ Call(c, [client |-> c, seq |-> seq[c] + 1, attempt |-> 0, op |-> "close",
                file |-> a.file, handle |-> a.handle, mode |-> a.mode, id |-> a.id,
                data |-> ops + 1])
    /\ active' = [active EXCEPT ![c] = @ \ {a}]

\* Open on whatever node the client is connected to: a handle of that node.
\* active_handles is keyed by the handle, whichever node it comes from.  Open has
\* no seq_num; a retry of it only leaves a handle behind and is left out.
Open(c, f, mode) ==
    LET n == conn[c].node  h == nextHandle[n] IN
    /\ Begin(c)
    /\ mode = "w" \/ disk[n][f] # Absent
    /\ nextHandle' = [nextHandle EXCEPT ![n] = h + 1]
    /\ opened' = [opened EXCEPT ![n] = @ \cup
                    {[handle |-> h, file |-> f, mode |-> mode, id |-> ops + 1]}]
    /\ versions' = IF versions[n][f] = 0 /\ disk[n][f] # Absent
                   THEN [versions EXCEPT ![n][f] = 1] ELSE versions
    /\ active' = [active EXCEPT ![c] = {a \in @ : a.handle # h} \cup
                    {[handle |-> h, file |-> f, mode |-> mode, id |-> ops + 1]}]
    /\ UNCHANGED <<raft, applied, disk, dedup, handlers, request, seq, conn, told, faults, crossed>>

\* The attempt of a request that its client still waits for
Waits(r) == request[r.client] = r

\* The client tries again, on the given node, the request as it is
Again(c, to) ==
    LET r == [request[c] EXCEPT !.attempt = @ + 1] IN
    IF request[c].attempt = MaxRetries
    THEN request' = [request EXCEPT ![c] = NoRequest] /\ handlers' = handlers
    ELSE request' = [request EXCEPT ![c] = r] /\ Send(r, to.node)

NextNode(c) == LET i == (conn[c].idx + 1) % NodeCount IN [idx |-> i, node |-> i]

\* UNAVAILABLE or DEADLINE_EXCEEDED: the next node is tried, while the handler
\* may still run
TimeOut(c) ==
    /\ request[c] # NoRequest
    /\ Fault
    /\ conn' = [conn EXCEPT ![c] = NextNode(c)]
    /\ Again(c, NextNode(c))
    /\ UNCHANGED <<replica, raft, seq, active, ops, told, crossed>>

\* A handler ends with NOT_LEADER: the client goes to the node it names, or to
\* the next one if it names none.  A late leader_id, that of an earlier term,
\* which any other node may have led, counts as a fault.
Redirect(h) ==
    LET c == h.req.client
        led == IF leader = Nil THEN NextNode(c) ELSE [conn[c] EXCEPT !.node = leader]
        known == {NextNode(c)} \cup {[conn[c] EXCEPT !.node = n] : n \in Node \ {h.node}}
        rest == handlers \ {h}
        r == [h.req EXCEPT !.attempt = @ + 1]
    IN
    /\ IF ~Waits(h.req)
       THEN handlers' = rest /\ UNCHANGED <<request, conn, faults>>
       ELSE \E to \in known :
            /\ IF to = led THEN UNCHANGED faults ELSE Fault
            /\ conn' = [conn EXCEPT ![c] = to]
            /\ IF r.attempt > MaxRetries
               THEN request' = [request EXCEPT ![c] = NoRequest] /\ handlers' = rest
               ELSE /\ request' = [request EXCEPT ![c] = r]
                    /\ handlers' = rest \cup
                         {[req |-> r, node |-> to.node, stage |-> "dedup"]}
    /\ UNCHANGED <<seq, active, ops, told>>

\* A handler ends with another answer: success, or an error the client raises
Answer(h, ok) ==
    /\ handlers' = handlers \ {h}
    /\ IF ~Waits(h.req) THEN UNCHANGED <<request, told>>
       ELSE /\ request' = [request EXCEPT ![h.req.client] = NoRequest]
            /\ told' = IF ok /\ h.req.op = "close" /\ h.req.mode = "w"
                       THEN told \cup {h.req} ELSE told
    /\ UNCHANGED <<seq, conn, active, ops, faults>>

-----------------------------------------------------------------------------
(* The servicer                                                            *)

Move(h, stage) ==
    /\ handlers' = (handlers \ {h}) \cup {[h EXCEPT !.stage = stage]}
    /\ UNCHANGED <<user, faults>>

\* _check_idempotent: a request no newer than the last one that was answered
\* here gets that answer
CheckIdempotent(h) ==
    LET last == dedup[h.node][h.req.client] IN
    /\ h.stage = "dedup"
    /\ IF h.req.seq <= last.seq THEN Answer(h, last.ok) ELSE Move(h, "run")
    /\ UNCHANGED <<replica, raft, crossed>>

CacheResponse(h) ==
    dedup' = [dedup EXCEPT ![h.node][h.req.client] = [seq |-> h.req.seq, ok |-> TRUE]]

Entry(h, op, file, data, own) ==
    [op |-> op, file |-> file, data |-> data, own |-> own,
     client |-> h.req.client, seq |-> h.req.seq, attempt |-> h.req.attempt]

Appended(entry) ==
    /\ pending' = pending \cup {entry}
    /\ UNCHANGED <<leader, clog>>

\* Mutant: append_entry returns before its entry is committed
AppendAndReturn(h, entry) == Appended(entry) /\ Move(h, "applied")

\* append_entry: the handler waits for its entry
AppendEntry(h, entry) == Appended(entry) /\ Move(h, "wait")

\* Create after the check: leader only, and refused if the file is there
Create(h) ==
    /\ h.stage = "run" /\ h.req.op = "create"
    /\ \/ /\ h.node # leader
          /\ Redirect(h) /\ UNCHANGED raft
       \/ /\ h.node = leader /\ disk[h.node][h.req.file] # Absent
          /\ Answer(h, FALSE) /\ UNCHANGED raft
       \/ /\ h.node = leader /\ disk[h.node][h.req.file] = Absent
          /\ AppendEntry(h, Entry(h, "create", h.req.file, Empty, TRUE))
    /\ UNCHANGED <<replica, crossed>>

\* Mutant: the handle is only looked up
LookedUp(n, found) == opened[n]

\* Close takes the handle off the table of this node
Popped(n, found) == opened[n] \ found

\* Close after the check: the handle is looked up by its number alone; only
\* then comes the role, and a follower has dropped the handle when it redirects
Close(h) ==
    LET n == h.node
        found == {o \in opened[n] : o.handle = h.req.handle}
    IN
    /\ h.stage = "run" /\ h.req.op = "close"
    /\ opened' = [opened EXCEPT ![n] = Popped(n, found)]
    /\ crossed' = crossed \cup {[client |-> h.req.client, seq |-> h.req.seq] :
                               o \in {p \in found : p.id # h.req.id}}
    /\ \/ found = {} /\ Answer(h, FALSE) /\ UNCHANGED <<raft, dedup>>
       \/ \E o \in found :
            \/ /\ o.mode = "r"
               /\ CacheResponse(h) /\ Answer(h, TRUE) /\ UNCHANGED raft
            \/ /\ o.mode = "w" /\ n # leader
               /\ Redirect(h) /\ UNCHANGED <<raft, dedup>>
            \/ /\ o.mode = "w" /\ n = leader
               /\ AppendEntry(h, Entry(h, "write", o.file, h.req.data, o.id = h.req.id))
               /\ UNCHANGED dedup
    /\ UNCHANGED <<applied, disk, versions, nextHandle>>

\* append_entry has returned: the response is kept and sent
Finish(h) ==
    /\ h.stage = "applied"
    /\ CacheResponse(h)
    /\ Answer(h, TRUE)
    /\ UNCHANGED <<raft, applied, disk, versions, opened, nextHandle, crossed>>

\* append_entry fails: the node lost its role, or 10 s have passed
FailToCommit(h) ==
    /\ h.stage = "wait"
    /\ IF h.node = leader THEN Answer(h, FALSE) ELSE Redirect(h)
    /\ UNCHANGED <<replica, raft, crossed>>

-----------------------------------------------------------------------------
(* The state machine and the log                                           *)

\* Mutant: a create empties the file
CreateTruncates(old) == Empty

\* _apply_entry "create": a file that is there keeps its contents
Created(old) == IF old = Absent THEN Empty ELSE old

\* Mutant: a create sets the version
CreateResets(old) == 1

\* _apply_entry "create": setdefault(fname, 1)
CreatedVersion(old) == IF old = 0 THEN 1 ELSE old

\* _apply_entry "write": get(fname, 1) + 1
WrittenVersion(old) == IF old = 0 THEN 2 ELSE old + 1

\* The applier of a node, and the handler that waits for this very entry there
ApplyNext(n) ==
    LET e == clog[applied[n] + 1]
        mine == {h \in handlers : /\ h.node = n /\ h.stage = "wait"
                                  /\ h.req.client = e.client /\ h.req.seq = e.seq
                                  /\ h.req.attempt = e.attempt}
    IN
    /\ applied[n] < Len(clog)
    /\ applied' = [applied EXCEPT ![n] = @ + 1]
    /\ disk' = [disk EXCEPT ![n][e.file] = IF e.op = "create" THEN Created(@) ELSE e.data]
    /\ versions' = [versions EXCEPT ![n][e.file] =
                      IF e.op = "create" THEN CreatedVersion(@) ELSE WrittenVersion(@)]
    /\ handlers' = (handlers \ mine) \cup {[h EXCEPT !.stage = "applied"] : h \in mine}
    /\ UNCHANGED <<opened, nextHandle, dedup, raft, user, faults, crossed>>

Commit(e) ==
    /\ pending' = pending \ {e}
    /\ clog' = Append(clog, e)
    /\ UNCHANGED <<replica, leader, handlers, user, faults, crossed>>

\* Another node wins an election
Elect(n) ==
    /\ n # leader
    /\ IF leader = Nil THEN UNCHANGED faults ELSE Fault
    /\ leader' = n
    /\ UNCHANGED <<replica, clog, pending, handlers, user, crossed>>

\* A node is killed and started again: the files are still on its disk, all
\* else is rebuilt from the log
Restart(n) ==
    /\ Fault
    /\ leader' = IF n = leader THEN Nil ELSE leader
    /\ applied' = [applied EXCEPT ![n] = 0]
    /\ versions' = [versions EXCEPT ![n] = [f \in File |-> 0]]
    /\ opened' = [opened EXCEPT ![n] = {}]
    /\ nextHandle' = [nextHandle EXCEPT ![n] = 1]
    /\ dedup' = [dedup EXCEPT ![n] = [c \in Client |-> NoResponse]]
    /\ handlers' = {h \in handlers : h.node # n}
    /\ UNCHANGED <<disk, clog, pending, user, crossed>>

Next ==
    \/ \E c \in Client :
         \/ \E f \in File : CallCreate(c, f) \/ \E mode \in {"r", "w"} : Open(c, f, mode)
         \/ \E a \in active[c] : CallClose(c, a)
         \/ TimeOut(c)
    \/ \E h \in handlers :
         CheckIdempotent(h) \/ Create(h) \/ Close(h) \/ Finish(h) \/ FailToCommit(h)
    \/ \E e \in pending : Commit(e)
    \/ \E n \in Node : ApplyNext(n) \/ Elect(n) \/ Restart(n)

Spec == Init /\ [][Next]_vars

-----------------------------------------------------------------------------
(* Properties                                                              *)

Writes(n, f) == {i \in 1..applied[n] : clog[i].op = "write" /\ clog[i].file = f}
LastOf(S) == CHOOSE i \in S : \A j \in S : j <= i

\* Every node that has applied a write holds the data of the last one and a
\* version that counts the writes, although clients open files while a
\* restarted node replays its log, and creates of one file may be committed
\* twice, before and after a write.
ReplicasFollowLog ==
    \A n \in Node : \A f \in File : LET W == Writes(n, f) IN
        W # {} => /\ disk[n][f] = clog[LastOf(W)].data
                  /\ versions[n][f] = Cardinality(W) + 1

Entries == pending \cup {clog[i] : i \in 1..Len(clog)}

\* A close that finds the very handle it was made for is written at most once,
\* however often it is retried and on whichever nodes: the handle is gone when
\* the second attempt comes, also where the first is not answered yet and
\* _check_idempotent does not know it.  (A retry that finds another handle of
\* the same number is excepted, see AckedCloseWritten.)
ClosedOnce ==
    \A d, e \in Entries :
        d.op = "write" /\ e.op = "write" /\ d.own /\ e.own /\ d.client = e.client /\ d.seq = e.seq
            => d = e

\* A client that is told its close succeeded has its data in the committed log,
\* under the file it opened, through redirects, retries, elections and restarts
\* and also when the answer comes from dedup_cache.  The exception is what
\* crossed holds: handles are numbered from 1 on every node and after every
\* restart, Close looks a handle up by its number alone, and a close that is
\* sent to another node than the open, or after a restart, may find a handle
\* that somebody else opened, for another file or for reading.
AckedCloseWritten ==
    \A r \in told :
        \/ [client |-> r.client, seq |-> r.seq] \in crossed
        \/ \E i \in 1..Len(clog) :
             clog[i].op = "write" /\ clog[i].file = r.file /\ clog[i].data = r.data

=============================================================================
