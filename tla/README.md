# A verification of the distributed storage and compute system

TLA+ models of the repository's replicated stores, file services, training and web
gateway, the TLC runs that check them on
small instances, and TLAPS proofs of what holds for every instance. Paths are
relative to `src/`. `PROJECT.json` maps every definition to the lines it models and
lists the runs, the mutants of each property, the hazards and the theorems.

## 1. The system

| Component | State | Operations | Interacts with |
|---|---|---|---|
| Raft engine, `part2_3_replication/raft_node.py` | term, vote, log (on disk); role, commit and apply positions, per-peer indexes, blocked callers (in memory) | election timer, `RequestVote`, `AppendEntries`, `append_entry`, applier thread, isolation, restart | peers over gRPC (`raft_server.py`), the state machine through `apply_fn`, servicers through `append_entry` |
| Key-value state machine, `kv_state_machine.py` | store, tombstones, session table | `apply` | called by the applier and by lookups and reads of the servicer |
| Key-value servicer, `raft_kv_server.py` | none of its own; one thread per call | `Put`, `Delete`, `Cas`, `Get` | engine and state machine |
| Key-value client, `kv_client_stub.py` | client id, sequence number, current node | requests with retries | any node |
| Raft file system, `raft_server.py`, `raft_client_stub.py` | files, versions, handles, per-node de-duplication | `Create`, `Open`, `Close`, ... | engine |
| Primary-backup file system, `replication/` | role, primary, files, versions, handles, de-duplication | heartbeats, election by address, replication, state transfer | peers, clients |
| File servers, `part1_filesystem/` | files, versions, handles, write locks with timers | `Create`, `Open`, `Close`, `LockFile`, ... | caching clients |
| Training, `part4_5_compute/` | weights, epoch, contributions | heartbeats, checkpoint, restore | workers; the key-value store |
| Web gateway, `part6_web/gateway/` | leader hint, sessions | `RaftCluster._call` and HTTP handlers | the key-value store |

What is hard here: handler threads that outlive their callers; gRPC calls that are
lost, late, repeated and overtaken; a lock that is released around every call and
around `apply_fn`; a process killed between two writes to disk; retries of writes
that may have happened; reads from a node that is behind. The hazards are listed one
by one, with their lines, in `PROJECT.json`.

What makes the parts correct:

* engine: one leader per term, logs that agree, nothing committed is lost, callers
  told of success only for their own applied entry;
* state machine: versions of a key never repeat, retries recognised;
* store: every write at most once, every answer the result of that one time, in an
  order that respects real time;
* primary-backup: one primary, a crashed one replaced, confirmed writes kept, a
  repeated close run once;
* Raft file system: replicas that follow the log across restarts, a close written once
  and before it is confirmed;
* file servers: a lock held until it is given back or its time is over, its owner told
  once, handles that both sides agree on, cached copies that are current when used;
* training: a step uses gradients of its own weights, one from the owner of each shard, and
  training ends;
* gateway: a status code says what happened to the request, and requests reach the
  leader.

## 2. The modules

| Module | What it is |
|---|---|
| `ReplicatedLog` | what the engine promises: one growing log, applied in order everywhere, success reported for its entries only |
| `RaftNode` | the engine, its calls, its blocked callers, crashes; properties and the refinement to `ReplicatedLog` |
| `RaftNodeProofs` | theorems about `RaftNode`: types and elections; logs and blocked callers; commitment and the refinement |
| `KVStateMachine` | the state machine as operators on a state |
| `KVStateMachineProofs` | lemmas about those operators, which `KVStoreProofs` and `GatewayProofs` use |
| `KVMachine` | one state machine under every log |
| `KVStore` | servicers, state machines and retrying clients over the replicated log |
| `KVStoreProofs` | theorems about `KVStore` (`Spec`) and `KVMachine` (`MachineSpec`) |
| `ReplicaRoles` | primary-backup: startup, heartbeats, election, partitions |
| `PrimaryBackup` | extends `ReplicaRoles` with files, replication, state transfer and clients |
| `PrimaryBackupProofs` | theorems about `ReplicaRoles` and `PrimaryBackup` |
| `Gateway`, `GatewayProofs` | the web gateway: routes, identities of writes, the retry loop; uses `KVStateMachine`; theorems |
| `FileService`, `FileServiceProofs` | the file service of part 1 with locks, timers and caching clients, over gRPC and over sockets; theorems |
| `RaftFiles`, `RaftFilesProofs` | the file system on the replicated log: servicer, client, restarts; theorems |
| `Trainer`, `TrainerProofs` | the training coordinator, its workers and its checkpoints; theorems |
| `MCRaftNode`, `MCKVMachine`, `MCKVStore`, `MCReplicaRoles`, `MCPrimaryBackup`, `MCGateway`, `MCFileService`, `MCRaftFiles`, `MCTrainer` | instances, symmetry and views for TLC |

### RaftNode

One variable per attribute of `RaftNode`; `currentTerm`, `votedFor` and `log` also
stand for the files, because every change is persisted before the lock is released.
Every critical section is an action. What runs outside the lock is state: `calls`
holds requests and replies in flight, `votes` what a waiting `_start_election` has
counted, `toApply` the applier's copied batch, `commitWaiters` the blocked callers.
A reply carries what the calling thread still has on its stack (`newMatch`, the term
of the election, the incarnation of the process). The log entry's payload is a model
value; indexes are positions, as in the code while no snapshot is installed.

Timers are nondeterminism: an election may start at any time on a node that does not
lead, a call may fail at any time, a caller may give up at any time. `Restart` is a
kill between critical sections, `CrashInHandler` one between the two persists of a
handler (`_become_follower` has stored the term and no vote, the vote or the log not yet);
a candidate also steps down inside its own term, for `AppendEntries`.
`committed` and `acked` are history, `applied` is what the state machine was given
since the process started.

### KVStateMachine, KVMachine and KVStore

`KVStateMachine` has the operations of `apply` as operators (`Effect`, `Outcome`,
`SessionResult`, `Remember`, `Apply`). `KVMachine` applies any sequence of entries to
one machine. `KVStore` puts a machine on each node, over the log that `RaftNode` is
shown to implement: an appended entry is committed once, at any later time, or lost;
a caller gets an error at any time. A handler moves through lookup, append, wait and
read; it lives on when its client has moved to another attempt. The value a read
returns is fixed by the prefix of the log its node has applied, so the model records
the length of that prefix.

### ReplicaRoles and PrimaryBackup

`ReplicaRoles` follows the one thread of a server that decides about roles, first
`_determine_startup_role`, later `_failure_detector`: `task[i]` is what it does, the
peers it still has to call, and what the others answered. Peers are called one at a
time, so the answers of one round may come from different moments. `__init__` runs the
whole startup before `main` starts the gRPC server; a starting server therefore answers
nobody and is not in `listening`. (`_not_ready` can never be true for a server that
answers.) Of `last_heartbeat` the model keeps whether it was ever set (`heard`); a
timeout needs a primary that cannot be reached, or a failed call from the budget
`MaxFaults`. Addresses are numbers, and `peer_stubs` is in ascending order, as
`start_cluster.sh` passes it. `Init` is that cluster after its first heartbeats.

`PrimaryBackup` adds what the handlers do. `Create` and `Close` are jobs, cut where the
lock is released: checks and `pop`, the file, the version, one call per backup, the
stored response. The checks before the `pop` form one action; nothing another thread
does between them gives an answer that a single step could not give. A job goes on when
its client timed out (`waited`), and a replication call that timed out may be served
later (`late`). A crash keeps only `disk`, and may leave a file being written empty. A
snapshot is taken in one step and installed in another. A client holds one file open at
a time. History: `acked`, the writes that the stub's `close` returned True for, whatever
version came with the response; `ran`, the jobs of each server; `overlapped`, the files that
two jobs were changing at the same time; `astray`, the write closes that found a handle of
another file, or of another mode; and `calm` of `ReplicaRoles`.

### Gateway

`http[h]` holds the locals of one `RaftCluster._call`: the node, `unreachable`, the
redirects without a pause, `maybe_applied`. The attempt outcomes are its `except`
branches: success, `NOT_LEADER` with or without a leader to go to, a failure in transit
(after which the request may still be served), any other error, and the deadline.
`IdentityOf` is `_identity`, `WriteStatus` the status codes of the routes. The cluster is
what `RaftNode` and `KVStore` show of it: an appended entry is committed at any later
time or never, the committed ones run through `KVStateMachine`; while `leader` is not
settled, any node may take itself for the leader and may name any other. Client
sessions belong to the identity, so two HTTP requests under one `Idempotency-Key` share
a session on purpose.

### FileService

One file, because nothing in the handlers relates two files (`nextHandle` is the only
thing they share). A handler is cut at its critical sections and at its disk accesses:
`Close` reads the version, truncates, writes, stores the version, in four steps, as
`fs/server.py` does them outside `state_lock`. Timers count down with `Tick`; a timer
that has fired can no longer be cancelled and waits for `state_lock`, as
`threading.Timer` does. `build` chooses between the gRPC service and the socket one,
which has no locks, drops the client's handle before it sends the close, returns the
version from a read close, and sends a request again once when the connection breaks.
`part2_3_replication/server.py` and `client.py` are copies of the gRPC pair. A client's
cache has one version; content is the number of the operation that wrote it. History:
`overlap`, a handler changed the file while another one was at work; and of a cached copy,
`dirty` and `unsent`, the client wrote to it through a handle for writing or for reading,
which no close has sent since, and `renamed`, a read close gave it another version.

### RaftFiles

Each node has `disk`, `file_versions`, `open_files`, `next_handle` and `dedup_cache`; all
but `disk` are empty after a `Restart`, and the log is applied again from its start. A
handler goes through the check of `dedup_cache`, the role check with the append, the wait
and the stored response; it lives on when its client timed out. `Close` pops the handle
before it looks at the role, as the code does. The engine is used through
`ReplicatedLog`: an appended entry is committed at any later time or never. A redirect names
the leader, or nobody while there is none; one that is late, of an earlier term, may name any
other node or nobody, and counts as a fault of `MaxFaults`. `crossed` is history: closes that
found a handle that another open had made, for reading or for writing.

### Trainer

`Heartbeat` is `handle_heartbeat` with everything it calls under the lock: registration,
the gradient, `_maybe_step`, the checkpoint, the response. A worker's loop is `Send`,
then `Receive` or `TimeOut`; a heartbeat whose worker has given up may still be handled.
Weights are the number of the step that made them, and a gradient is the weights and the
shards it was computed from, which is all the properties tell apart. The key-value store
is one variable that a put sets or fails to set; it is linearizable by `kv_retry`, and the
checkpoint has one writer.

## 3. The runs

| Run | Instance | Shows |
|---|---|---|
| `raft_consensus` | 3 nodes, 2 of them compete, 3 terms, logs of 3, 2 calls in flight | `TypeOK`, `ElectionSafety`, `LogMatching`, `LeaderCompleteness`, `CommittedPrefix` |
| `raft_faults` | a client write, logs of 2, one call in flight and duplicated; the third node is killed once, isolated and healed; one applier | `WaiterHoldsItsSlot`, `OneVotePerTerm`, `VoteRemembered`, the engine implements `ReplicatedLog` |
| `kv_machine` | 1 key, 2 clients, a table of 1 session, logs of 5 | `MachineTypeOK`, `VersionsNeverRepeat`, `NoABA`, `SessionsSound` |
| `kv_retry` | 2 nodes, a client with 2 requests of 2 attempts, one restart | `TypeOK`, `ExactlyOnce`, `AnswersAreOutcomes`, `Linearizable`, `ReplicasAgree` |
| `roles_failover` | 3 servers, 2 crashes, 1 restart, 1 failed call or partition | `TypeOK`, `OnePrimary`, `FailoverCompletes` |
| `roles_rejoin` | 3 servers, 1 crash, 1 restart, no failed call | violated, see the finding |
| `primary_crashes` | 3 servers, a crash, 2 clients with a numbered request each, 2 files | `AckedSurvives` |
| `primary_retry` | 2 servers, a crash, a restart, 1 fault, 2 numbered requests, 2 retries | `FilesTypeOK`, `RunsAtMostOnce`, `AcksAreOwn` |
| `gateway` | 3 nodes, 2 HTTP requests that may share a key, 1 election, 3 failed attempts, one of them in transit | `AnswerIsOwnEffect`, `KeyedOnce`, `UnavailableUnlessDeposed`, `SettledLeaderReached` |
| `files` | 2 clients, both builds, 5 operations, 1 lost response, locks of 1 tick | `LockHeld`, `NotifiedOnce`, `LockAutoReleased`, `ActiveIsOpen`, `CacheIsFresh` |
| `raft_files` | 2 nodes, a client with 3 operations of 2 retries, 2 time-outs, restarts or new leaders | `ReplicasFollowLog`, `ClosedOnce`, `AckedCloseWritten` |
| `trainer` | 2 workers, 3 shards, 2 epochs, 2 faults, 1 restart of the coordinator | `StepAtCurrentWeights`, `StepCoversShards`, `TrainingCompletes` |

Why the bounds are enough to be interesting. Three terms let a leader be deposed and
lead again, which the overwriting of uncommitted entries and the rule about entries
of the own term need. Two calls in flight let a call overtake another one. In
`raft_faults` the third node is the deciding vote of every contested election and part
of most majorities, so its crash is the one that matters; it never leads. In
`raft_consensus`, too, two of the three nodes lead; they are interchangeable there
(`LeadersSymmetry`), but not in `raft_faults`, where one of them applies. In
`primary_crashes` no action names a client or a file (`ClientSymmetry`). Logs of five
entries hold put, delete, put and a swap at a version with an entry to spare. Two
attempts of two requests let an attempt of the first request commit after the second
request was answered. In `primary_crashes` one crash lets a primary die half-way
through a replication while another client's write goes on; two clients and two files let
jobs overlap and let a close sent to the new primary find a handle of the other file, or one
of the other client for reading the same file. More
crashes and longer histories are left to the theorem. A crash, a restart and a fault let a
close be repeated on a server that is still running it and on one that has forgotten it.
In `gateway` one failed call, one election and an attempt to spare let a request be
appended on one node, refused by another and answered by a third; three nodes are the
fewest on which a redirect can lead away from the leader. Five operations in `files` hold
open, write and close of one client around open and close of the other one, or a lock,
its end and a second lock of the same owner while the first timer is still waiting. In
`raft_files` three operations are open, close and one more open whose handle may have the
same number; with two nodes every redirect changes the table the handle is looked up in.
Three shards for two workers give the workers different loads, and two epochs with a
restart let a worker hold a gradient of an epoch that is trained again.

`View` in `MCRaftNode` leaves out what no action and no property reads in that state:
the redirect hint, the replication indexes of a node that does not lead (a new leader
sets them all), the votes of a leader. In `MCKVStore` it leaves out the two histories
that are functions of the committed log. Deadlock is not checked in any run: the
bounds on terms, logs, requests and attempts stop every behaviour in the end.

Fairness. `ReplicaRoles`: weak fairness of the thread of each server, an endless loop
whose calls have deadlines. `FileService`: the clock goes on, and timer threads run and
get `state_lock`, which no handler keeps. `Trainer`: every worker's loop sends its
heartbeat, the coordinator handles it, the worker takes the answer. Crashes, restarts,
time-outs, failed puts, partitions and clients are never fair, and their number is
bounded. The other runs check safety.

Each property of a passing run has a mutant, a definition with a plausible bug
(a comment in the module says which), under which TLC finds the property violated.

### Finding

`roles_rejoin`. `replication.md` says that a primary that comes back does not reclaim
its role. TLC shows one that does: it restarts while a backup is electing itself, asks
that backup before the decision and is still named, breaks the tie with the other
backup's newer answer in its own favour, and misses the announcement because it does
not listen yet. Both stay primary: primaries watch nobody, and the role in a heartbeat
is not read. `OnePrimary` of `roles_failover` says when this cannot happen: as long as
every restart finds the others agreeing on a live primary and nobody crashes before
the restart is complete.

### Known limits

What the code does not do in all cases. Where the model has the case, the property names it
as an exception, and the run shows that within its bounds nothing else breaks the property;
where the instance leaves the case out, the entry says so.

* A default `Get` (`raft_kv_server.py:131`) on a leader elected just now, which has not
  learned the commit index yet, can miss an acknowledged write. The window closes when
  its no-op commits; `KV.md:55` names only the deposed leader. `linearizable=true` is not
  affected (`Linearizable`). Default reads are not modelled in `KVStore`.
* The session table is bounded (`kv_state_machine.py:143`). A write whose two attempts
  both reach the log, with an eviction of its session in between, is applied twice; by
  default this takes 10,000 other clients. `ExactlyOnce` is checked without eviction of a
  client with a request under way.
* A leader that appended a write and is then deposed answers `NOT_LEADER`; `_call` does
  not count this as `maybe_applied` (`raft_cluster.py:209`), and a 503 may follow although
  the entry is committed later. `UnavailableUnlessDeposed` shows that this is the only way.
* Handles of the Raft file system are numbered from 1 on every node and after every
  restart, and `Close` looks them up by number (`raft_server.py:217`). A close that is
  redirected, or comes after a restart, can find a handle that another open made and be
  confirmed for it. `AckedCloseWritten` and `ClosedOnce` except exactly these closes.
* Cached copies of the file service (`fs/client_stub.py`, `fs_wo_grpc/client_stub.py`). A copy
  that carries the server's version is used without a download (lines 91-93), and it can
  differ from the server's file in four ways, which `CacheIsFresh` names: (1) the client has it
  open for writing and has changed it, which is meant; (2) the client wrote to it through a
  handle for reading: `write` (lines 127-138) does not look at the mode, and the close sends
  nothing and leaves the version, so the copy stays different, after the close too, until the
  client closes it for writing or fetches a newer version; (3) handlers that overlap
  (`fs/server.py` lines 92 and 105, 126 and 135) pair the content of one write with the version
  of another; (4) a read close of the socket build renames the copy to the server's current
  version whatever it was fetched as. The second, third and fourth are defects.
* Training: after a restart of the coordinator a worker that gets another slot keeps the
  shards it has loaded and counts them too; a heartbeat that its worker gave up on and
  that reaches the restarted coordinator can carry a gradient of its former life; a
  restore that fails begins at epoch 0 and overwrites the checkpoint; one at the last
  epoch trains one epoch more. A coordinator restarted twice can use a gradient of other
  weights even from a worker that waits: its first life checkpoints epoch 1, the second
  begins anew and reaches an epoch 1 of its own whose checkpoint fails, the third restores
  that of the first, and a gradient of the second's epoch 1 counts
  (`ml_coordinator.py:108` compares epochs only). The proof of `StepsAtCurrentWeights` found
  this, TLC confirmed it with two restarts. `StepCoversShards` and `StepAtCurrentWeights`
  are stated accordingly. A worker that misses the final answer goes on calling a coordinator that
  has stopped (`TrainingCompletes` is about the coordinator).
* Primary-backup: writes confirmed while a backup is starting may not reach it, and a
  failed call to a live backup is only logged. `AckedSurvives` is stated without restarts
  and without failed calls. Two jobs that change one file at the same time release the
  lock before they call the backups (`replication/server.py:540-551`), so their copies
  arrive in any order and a backup keeps the last one, whatever its version. Handles are
  numbered from 1 on every server (lines 531-534), so that a write close which goes to a new
  primary can find the handle of another open under its number. If that is of another file,
  the data goes there; if it is for reading, also of the same file, the close is answered
  `success` with version 0 and writes nothing (lines 536-556), and the stub's `close` returns
  True (`client_stub.py:296-308`). The client is told of success and the write is lost.
  `AckedSurvives` excepts files with overlapping jobs and the closes of both kinds (`astray`);
  it demands of every other confirmed write that it has a version.

## 4. The proofs

All theorems hold for every value of the constants that the named assumptions of the
modules allow: finite sets of servers, nodes, clients and files where the proofs count
them; `Nil` is no server; the contents `Absent` and `Empty` differ from each other and
from what clients write; the bounds are numbers. Each rests on an invariant that is
inductive, named below.

**`RaftNodeProofs`, elections.** `TypeCorrect`: the types are inductive as they stand, because the
type of an `AppendEntries` reply says that a conflicting term comes with a conflict index,
so that `next_index` never becomes 0. `ElectionSafe`, `OneVote` and `VotesRemembered`: the
code forgets a vote in one case in which Raft does not: a candidate that hears of a leader
in its own term becomes a follower with `voted_for = None` and can vote again in this term.
`ElectionInv` shows why this is harmless: a candidate has voted for itself, so the only
vote it can forget is its own, and it leaves its own count in the same step; a vote granted
to another node is remembered for the rest of the term, across crashes (`GrantRemembered`,
`OneGrant`); a leader's counted votes are a majority (`LeaderHasMajority`); two majorities
share a voter.

**`RaftNodeProofs`, logs.** `LogsMatch`: log matching for any delay, loss or repetition of calls.
`LogInv` says that a term belongs to one uninterrupted leadership (`TermsOwned`: a majority
remembers its vote, so that not even the same node wins the term again after a restart),
that entries of a term are created at the end of one log (`LeaderAhead`), and that index
and term of an entry, in a log or in a call on its way, determine the entry and the term
before it (`LinksAgree`); going back from entry to entry gives the prefix.
`WaitersHoldTheirSlots`: a caller blocked in `append_entry` waits at a leader, whose log is
only extended, for the slot of its own entry.

**`RaftNodeProofs`, commitment.** `LeadersComplete`, `CommitsArePrefixes` and the refinement
`EngineImplements`. The code counts a late `AppendEntries` reply whatever term it was sent in
(`raft_node.py` lines 471-483), so that what followers held is not in the leader's state.
`ReplicationInv` therefore speaks of a history h, of which the theorem shows that it exists:
which server held which entry in the entry's own term. An entry is chosen when a majority
held it so (`Chosen`), dead when a majority has left its term without (`Dead`); it is never
both. Every entry that is not dead is in the logs, calls and votes that could replace it;
what a leader counts, and so what is committed, is chosen. Each step extends h by what
servers hold in the terms they are in after it. `ApplyInv` adds that the applied entries, and
those copied for the applier, are committed. The step of the refinement is by cases: a commit
extends `clog`, the applier's step applies the next entry, an answer to a waiter is one for
its own entry, a restart resets a replica, all others stutter. `AckedWritesStay` follows.

These theorems have the hypothesis `[]SmallOrTimely`: there are at most three servers, or no
successful reply to a call of an earlier term reaches a server that leads again without a
restart (`Timely`). It is needed. With three servers a successful reply means that a majority
held the entries, so they are never overwritten; with five this is not so, and the engine
could commit an entry that a minority holds. The 2 s deadline of the call and the election
timeout of at least 2 s make such a reply rare, not impossible, for a thread that is held up
between the reply and the lock. The shipped configurations have three servers, and
`ThreeLeadersComplete`, `ThreeCommitPrefixes` and `ThreeImplement` have no other hypothesis.

**`KVStoreProofs`, one machine.** `VersionsUnique`, `SwapsSeeTheirWrite` and
`SessionTableSound`, for every log and every size of the session table. `VersionInv` adds
that no version given out exceeds the latest one of its key, deleted or not, and that a
stored key was last touched by the write that gave it its version. The lemmas about `Apply`
and the session table (`KVStateMachineProofs`) serve the store and the gateway too.

**`KVStoreProofs`, the store.** `ReplicasAlwaysAgree`: every replica is at the state of what it applied
(`LogSound`). `AnswersCorrect` and `StoreLinearizable`: `StoreInv` says that all calls of
one client and `seq_num` are attempts of one request, that every session in any state comes
from an effect, that every entry is a retry or has its effect recorded, and that a client
waits only for its latest request, which no session has overtaken. `AtMostOneEffect`: no
write takes effect twice, if the table has room for a session of every client
(`NoEviction`); with evictions this is false (known limits, section 3).

**`FileServiceProofs`.** `EndsAreNotifiedOnce` and `LocksAreHeld` (an action property):
every step treats the lock in one of four ways, leaves it, lets its time pass, ends it or
grants it (`LockInv`). `HandlesStayOpen`: handles are given out once over all clients, and
one leaves the table only while the close that took it goes on (`HandleInv`).
`CopiesAreFresh`: between truncation and new version, copies of the old version are not
current, and the new version is one that no copy has (`FreshInv`); a copy changed through a
handle for writing keeps such a handle, in `active_handles` or in a close under way, until it
is sent or the server has a newer version (`EditInv`).

**`RaftFilesProofs`.** `ReplicasAlwaysFollowLog`, through restarts that replay the log over
the files on disk: the version of a file is 0 or 1 before a replica applied a write of it,
and counts the writes afterwards (`FollowInv`).
`ClosesAreWrittenOnce`: an open file is at one node at most, a close takes the handle before
it appends, and retries are the same request (`CloseInv`). `AckedClosesAreWritten`: what
`dedup_cache` keeps belongs to a close whose entry is committed (`AckInv`).

**`PrimaryBackupProofs`.**

* `RolesTyped`, `AtMostOnePrimary`: as long as no call between live servers failed and every
  restart was quiet, all that run point at what the election will find. `RolesInv` has the
  reason: a server with a lower address than a primary follows it (`LowestLeads`), so an
  election that counts it cannot end with another winner, and a server that starts meets one
  primary that all others name (`QuietStart`).
* `FilesTyped`, `WritesRunOnce`, `OwnAcks`: with crashes, restarts and failed calls.
  `CallInv`: numbers come from the client, and it waits for at most one request or job,
  which asks for what it wants now. `OnceInv`: once a close has started on a server its
  handle is spent there, and that number is not given out again before a restart, which
  begins `ran` anew; so a repeated close finds its job, its response, or no handle.
* `AckedWritesSurvive`: `KeepInv` holds while there are only crashes. Jobs run on the one
  primary, which is never demoted; a close that is not astray finds a handle of its own file
  and mode (`Fits`) and so writes; unless jobs overlap on its file, the version of a close
  is above every confirmed one, and the listening servers that it has reached hold its data
  at this version (`Spread`), which are all of them when it is confirmed. A primary that dies
  half-way leaves some backups with the newer version and some with the confirmed one, which
  is what the property allows, and the new primary counts on from its own.

**`GatewayProofs`.** `GatewayInv` is inductive. `KnownInv` and `SessionInv`: every entry,
committed or not, carries the identity of its HTTP request, and every session comes from an
effect, so a definite answer is that of an effect of the same identity, which is the same
request (`AnswersAreOwn`). `MarkInv`: an attempt that appended leaves a mark on its call,
`maybe_applied` or the model's `orphan`, until the call is answered, and 503 is given only
without the first (`UnavailableMeansUnsent`). `RingInv`: on the way to a settled leader each
miss brings the call closer round the ring of nodes, and a redirect leads straight to it,
for any number of nodes and any `MaxRedirects` (`LeaderReached`). `KeyedWritesOnce` adds
`HeldInv`, that every effect still has its session; it assumes that the table has room for
every request (`Cardinality(Http) <= MaxSessions`), without which it is false (known limits).

**`TrainerProofs`.** Both theorems assume that no more workers start than the coordinator was
told to expect (`EnoughSlots`); a worker too many would own the shards of another one again.
`StepsCoverShards` speaks of owners: each shard is owned by exactly one of the gradients of
a step, and a shard that its owner failed to load is missing from what that gradient was
computed over. Slots are numbered in the order of registration without gaps (`SlotsInv`),
the position of a shard belongs to the slot that is its remainder by `num_workers`
(`SlotOf`), and as long as the coordinator lives a worker knows no shards but its own
(`ShareInv`). `StepsAtCurrentWeights`: in the first life of the coordinator an epoch has one
set of weights in all that workers, calls, answers and the checkpoint remember (`FirstLife`).
In its second life a worker may come with a gradient of an epoch that is still ahead; nobody
who contributed, or has a call on its way that may still count, is ahead (`SecondLife`), so by
the time the epoch is reached that gradient has been replaced. A worker waits for one call,
which has the gradient it holds (`TalkInv`). A third life breaks this (known limits).

Only model-checked: liveness (`FailoverCompletes`, `LockAutoReleased`, `TrainingCompletes`),
which is out of the prover's reach, like the results of recursive definitions. Every other
property of a passing run is a theorem, `LeaderCompleteness`, `CommittedPrefix` and
`ImplementsReplicatedLog` for three servers or under the hypothesis above, `ExactlyOnce` and
`KeyedOnce` for a session table with room, the two of training for enough slots.

## 5. What is not modelled, and the plan

Not modelled:

* `handle_install_snapshot` and the snapshots of the state machines: no node sends one.
* Liveness of the engine, and the sender thread that dies of an index error when a late
  refusal moved `next_index` beyond the leader's log (`raft_node.py:441`). `RaftNode`
  bounds terms and logs, which cuts off exactly the retries that convergence needs.
* The node statuses that the gateway caches for its dashboard, and its fault-injection
  route, which only forwards `SetIsolated` (an action of `RaftNode`).
* `FileService`: restarts of the server, errors of its disk, and a client that times out
  while its handler still runs; a lost response stands for the end of a handler that
  nobody waits for.
* `RaftFiles` and `PrimaryBackup`: the client's cache, which is that of `FileService`.
* `Gateway`: the answers 400, 412 and 413 that the routes give without calling the cluster
  (malformed or too large requests, `If-Match` below version 1, `kv_service.py:44-45`).
* JSON, hex and protobuf conversion (lossless here), the encrypted framing of the socket
  build, logging, pauses and back-off, terminal clients and the data maker.

The plan, in order:

1. `RaftNode`: the late reply in a scripted instance of five servers, which shows the
   entry lost that `SmallOrTimely` excludes.
2. `FileService`: a restart of the server, which forgets versions and locks.
3. `PrimaryBackup`: what a backup that started during writes is missing.
