--------------------------- MODULE PrimaryBackup ---------------------------
(***************************************************************************)
(* The files of the primary-backup file system: the FileSystem handlers of *)
(* replication/server.py, the replication of their effects, the snapshot a *)
(* starting backup takes, and the clients of replication/client_stub.py.   *)
(* Roles, startup and elections are those of ReplicaRoles.                 *)
(*                                                                         *)
(* A Create or Close that passed its checks is a job: its thread writes    *)
(* the file, bumps the version, calls the backups one by one and stores    *)
(* the response, and releases the lock between those steps.  A job goes on *)
(* when its client stopped waiting.  The content of a file is the close    *)
(* that wrote it.  Client caches and the reading of files are left out.    *)
(***************************************************************************)
EXTENDS ReplicaRoles

CONSTANTS
    Client, File,
    Absent, Empty,   \* no such file; the file Create makes
    MaxOps,          \* bound on the seq_num of a client
    MaxRetries,      \* max_retries of the client
    MaxOpens         \* bound on the handles of a server

ASSUME FilesAssumption ==
    /\ IsFiniteSet(Client) /\ IsFiniteSet(File)
    /\ MaxOps \in Nat /\ MaxRetries \in Nat /\ MaxOpens \in Nat
    /\ Absent # Empty /\ Absent \notin [client : Client, seq : 1..MaxOps]

VARIABLES
    disk,        \* per server, the files in data_dir: the only state a crash leaves
    versions,    \* file_versions; 0 for a file that has no entry
    openFiles,   \* open_files
    nextHandle,  \* next_handle
    dedup,       \* dedup_cache
    snapshot,    \* the SyncState response a starting server holds
    requests,    \* client calls on their way
    jobs,        \* handler threads of Create and Close after their checks
    late,        \* replication calls that timed out and may still be served
    client,      \* per client, its call and the handle it holds
    acked,       \* history: the writes clients were told of
    ran,         \* history: the jobs each server ran since it started
    overlapped,  \* history: the files that two jobs were changing at the same time
    astray       \* history: the closes that found a handle of another file or mode

fileVars == <<disk, versions, openFiles, nextHandle, dedup>>
rpcVars == <<requests, jobs, late>>
history == <<acked, ran, overlapped, astray>>
vars == <<roleVars, fileVars, snapshot, rpcVars, client, history>>

Write == [client : Client, seq : 1..MaxOps]
Content == {Absent, Empty} \cup Write
NoReply == [seq |-> 0, version |-> 0]
NoHandle == [handle |-> 0, file |-> Absent, mode |-> "none"]
NoEntries == [f \in File |-> 0]
NoFiles == [f \in File |-> Absent]

\* A client between two calls
Resting(addr, seq, held) ==
    [pc |-> "rest", addr |-> addr, seq |-> seq, held |-> held, attempt |-> 0,
     op |-> "none", file |-> Absent, mode |-> "none", handle |-> 0]

FilesInit ==
    /\ Init
    /\ disk = [i \in Server |-> NoFiles]
    /\ versions = [i \in Server |-> NoEntries]
    /\ openFiles = [i \in Server |-> {}]
    /\ nextHandle = [i \in Server |-> 1]
    /\ dedup = [i \in Server |-> [c \in Client |-> NoReply]]
    /\ snapshot = [i \in Server |-> [disk |-> NoFiles, versions |-> NoEntries]]
    /\ requests = {} /\ jobs = {} /\ late = {}
    /\ client = [c \in Client |-> Resting(Lowest(Server), 0, NoHandle)]
    /\ acked = {}
    /\ ran = [i \in Server |-> <<>>]
    /\ overlapped = {} /\ astray = {}

-----------------------------------------------------------------------------
(* Clients                                                                 *)

\* A client method starts its _execute_rpc
Call(c, op, file, mode, handle, seq) ==
    client' = [client EXCEPT ![c] =
        [pc |-> "send", addr |-> @.addr, seq |-> seq, held |-> NoHandle, attempt |-> 0,
         op |-> op, file |-> file, mode |-> mode, handle |-> handle]]

ClientCreate(c, f) ==
    /\ client[c].pc = "rest" /\ client[c].held = NoHandle
    /\ client[c].seq < MaxOps
    /\ Call(c, "create", f, "w", 0, client[c].seq + 1)

ClientOpen(c, f, mode) ==
    /\ client[c].pc = "rest" /\ client[c].held = NoHandle
    /\ client[c].seq < MaxOps
    /\ Call(c, "open", f, mode, 0, client[c].seq)

ClientClose(c) ==
    /\ client[c].pc = "rest" /\ client[c].held # NoHandle
    /\ Call(c, "close", client[c].held.file, client[c].held.mode, client[c].held.handle,
            client[c].seq + 1)

\* One pass of the loop of _execute_rpc: the call is sent ...
Send(c) ==
    /\ client[c].pc = "send" /\ client[c].attempt <= MaxRetries
    /\ requests' = requests \cup
         {[client |-> c, to |-> client[c].addr, seq |-> client[c].seq, op |-> client[c].op,
           file |-> client[c].file, mode |-> client[c].mode, handle |-> client[c].handle,
           waited |-> TRUE]}
    /\ client' = [client EXCEPT ![c].pc = "wait"]
    /\ UNCHANGED <<jobs, late>>

\* ... or the passes are used up
GiveUp(c) ==
    /\ client[c].pc = "send" /\ client[c].attempt > MaxRetries
    /\ client' = [client EXCEPT ![c] = Resting(@.addr, @.seq, NoHandle)]
    /\ UNCHANGED rpcVars

\* _discover_primary: the first server that answers names the primary
Discovered ==
    IF listening = {} THEN Lowest(Server) ELSE primaryAddr[Lowest(listening)]

\* The client no longer waits for any call on its way or any job
Abandon(c, S) == {IF x.client = c THEN [x EXCEPT !.waited = FALSE] ELSE x : x \in S}

\* A live server has the call c waits for
Underway(c) ==
    \/ \E r \in requests : r.client = c /\ r.waited /\ r.to \in listening
    \/ \E j \in jobs : j.client = c /\ j.waited

\* UNAVAILABLE, when the server the call went to is or was down, or
\* DEADLINE_EXCEEDED: what was sent may still run.  The client asks around
\* and tries again.
Timeout(c) ==
    /\ client[c].pc = "wait"
    /\ Underway(c) => faults < MaxFaults
    /\ faults' = faults + (IF Underway(c) THEN 1 ELSE 0)
    /\ requests' = Abandon(c, {r \in requests : r.client = c => r.to \in listening})
    /\ jobs' = Abandon(c, jobs)
    /\ client' = [client EXCEPT ![c].pc = "send", ![c].attempt = @ + 1,
                                ![c].addr = IF client[c].attempt < MaxRetries
                                            THEN Discovered ELSE @]
    /\ UNCHANGED <<late, isolated, crashes, restarts>>

\* How a client that still waits takes the answer to its call
Answer(x, result) ==
    client' = IF x.waited THEN [client EXCEPT ![x.client] = result] ELSE client

\* _execute_rpc raises, or returns; an open file's handle goes to the caller
Raised(c) == Resting(client[c].addr, client[c].seq, NoHandle)
Returned(c, held) == Resting(client[c].addr, client[c].seq, held)

\* The call is the close of a file that the client opened for writing
ClosesWrite(call) == call.op = "close" /\ call.mode = "w"

\* The client is told of success by the response of the request numbered seq:
\* if the call is a write to it, it takes it for done, whatever the version
Confirm(x, seq, version) ==
    acked' = IF x.waited /\ ClosesWrite(client[x.client])
             THEN acked \cup {[file |-> client[x.client].file, version |-> version,
                               data |-> [client |-> x.client, seq |-> x.seq], of |-> seq]}
             ELSE acked

-----------------------------------------------------------------------------
(* The FileSystem handlers                                                 *)

\* The handler of request r runs on its server
Served(r) ==
    /\ r.to \in listening
    /\ requests' = requests \ {r}

\* _require_primary of a Create or an Open for writing; Close asks only when
\* it knows the handle and that it was opened for writing
MustBePrimary(r) ==
    \/ r.op # "close" /\ r.mode = "w"
    \/ \E h \in openFiles[r.to] : h.handle = r.handle /\ h.mode = "w"

Redirect(r) ==
    /\ Served(r)
    /\ MustBePrimary(r) /\ role[r.to] # "primary"
    /\ Answer(r, [client[r.client] EXCEPT !.pc = "send", !.attempt = @ + 1,
                                         !.addr = primaryAddr[r.to]])
    /\ UNCHANGED <<fileVars, jobs, late, history>>

\* Mutant: a cached response answers whatever its client asks next
AnyCached(r) == dedup[r.to][r.client].seq > 0

\* _check_idempotent
Cached(r) == dedup[r.to][r.client].seq >= r.seq

\* The cached response is that of the client's last request
AnswerFromCache(r) ==
    /\ Served(r)
    /\ r.op # "open" /\ Cached(r)
    /\ ~(MustBePrimary(r) /\ role[r.to] # "primary")
    /\ Answer(r, Returned(r.client, NoHandle))
    /\ Confirm(r, dedup[r.to][r.client].seq, dedup[r.to][r.client].version)
    /\ UNCHANGED <<fileVars, jobs, late, ran, overlapped, astray>>

\* The request passed the checks that come before its own work
Admitted(r, op) ==
    /\ Served(r)
    /\ r.op = op
    /\ MustBePrimary(r) => role[r.to] = "primary"
    /\ op # "open" => ~Cached(r)

\* The thread that goes on with request r on file f
Job(r, f, pc) ==
    [srv |-> r.to, client |-> r.client, seq |-> r.seq, op |-> r.op, file |-> f,
     pc |-> pc, version |-> 0, todo |-> {}, waited |-> r.waited]

\* The thread goes on; another one may be changing the same file
Begin(j) ==
    /\ jobs' = jobs \cup {j}
    /\ overlapped' = IF j.pc = "write" /\ \E k \in jobs : k.file = j.file /\ k.pc # "store"
                     THEN overlapped \cup {j.file} ELSE overlapped

HandleCreate(r) ==
    /\ Admitted(r, "create")
    /\ \/ /\ disk[r.to][r.file] # Absent
          /\ Answer(r, Raised(r.client))
          /\ UNCHANGED <<jobs, overlapped>>
       \/ /\ disk[r.to][r.file] = Absent
          /\ Begin(Job(r, r.file, "write"))
          /\ UNCHANGED client
    /\ UNCHANGED <<fileVars, late, acked, ran, astray>>

HandleOpen(r) ==
    LET i == r.to
        exists == disk[i][r.file] # Absent
        h == [handle |-> nextHandle[i], file |-> r.file, mode |-> r.mode]
    IN
    /\ Admitted(r, "open")
    /\ \/ /\ ~exists /\ r.mode = "r"
          /\ Answer(r, Raised(r.client))
          /\ UNCHANGED <<versions, openFiles, nextHandle>>
       \/ /\ exists \/ r.mode = "w"
          /\ nextHandle[i] <= MaxOpens
          /\ openFiles' = [openFiles EXCEPT ![i] = @ \cup {h}]
          /\ nextHandle' = [nextHandle EXCEPT ![i] = @ + 1]
          /\ versions' = IF exists /\ versions[i][r.file] = 0
                         THEN [versions EXCEPT ![i][r.file] = 1] ELSE versions
          /\ Answer(r, Returned(r.client, h))
    /\ UNCHANGED <<disk, dedup, jobs, late, history>>

\* Mutant: open_files.get instead of open_files.pop
PopNothing(i, h) == openFiles' = openFiles

\* open_files.pop
Pop(i, h) == openFiles' = [openFiles EXCEPT ![i] = @ \ {h}]

HandleClose(r) ==
    /\ Admitted(r, "close")
    /\ \/ /\ ~\E h \in openFiles[r.to] : h.handle = r.handle
          /\ Answer(r, Raised(r.client))
          /\ UNCHANGED <<openFiles, jobs, overlapped, astray>>
       \/ \E h \in openFiles[r.to] :
            /\ h.handle = r.handle
            /\ Pop(r.to, h)
            /\ Begin(Job(r, h.file, IF h.mode = "w" THEN "write" ELSE "store"))
            /\ astray' = IF h.file = r.file /\ h.mode = r.mode THEN astray
                         ELSE astray \cup {[client |-> r.client, seq |-> r.seq]}
            /\ UNCHANGED client
    /\ UNCHANGED <<disk, versions, nextHandle, dedup, late, acked, ran>>

-----------------------------------------------------------------------------
(* Jobs                                                                    *)

Become(j, k) == jobs' = (jobs \ {j}) \cup {k}

\* What the job writes
Data(j) == IF j.op = "create" THEN Empty ELSE [client |-> j.client, seq |-> j.seq]

\* The file is written, without the lock
JobWrite(j) ==
    /\ j.pc = "write"
    /\ disk' = [disk EXCEPT ![j.srv][j.file] = Data(j)]
    /\ ran' = IF j.op = "create" THEN ran ELSE [ran EXCEPT ![j.srv] = Append(@, Data(j))]
    /\ Become(j, [j EXCEPT !.pc = "version"])
    /\ UNCHANGED <<versions, openFiles, nextHandle, dedup, requests, late, client>>
    /\ UNCHANGED <<acked, overlapped, astray>>

\* The version Create and Close give the file: get(filename, 1) + 1
NewVersion(j) ==
    IF j.op = "create" THEN 1
    ELSE IF versions[j.srv][j.file] = 0 THEN 2 ELSE versions[j.srv][j.file] + 1

JobVersion(j) ==
    /\ j.pc = "version"
    /\ versions' = [versions EXCEPT ![j.srv][j.file] = NewVersion(j)]
    /\ Become(j, [j EXCEPT !.pc = "replicate", !.version = NewVersion(j),
                           !.todo = Peers(j.srv)])
    /\ UNCHANGED <<disk, openFiles, nextHandle, dedup, requests, late, client, history>>

\* Mutant: the backup keeps its own version
ReplicaWithoutVersion(p, j) ==
    /\ disk' = [disk EXCEPT ![p][j.file] = Data(j)]
    /\ versions' = IF versions[p][j.file] = 0 THEN [versions EXCEPT ![p][j.file] = 1]
                   ELSE versions

\* ReplicateCreate and ReplicateWrite on server p
Replicate(p, j) ==
    /\ disk' = IF j.op = "create" /\ disk[p][j.file] # Absent THEN disk
               ELSE [disk EXCEPT ![p][j.file] = Data(j)]
    /\ versions' = [versions EXCEPT ![p][j.file] = j.version]

\* One call of the loop of _replicate_write or _replicate_create; a failure
\* is only logged
JobReplicate(j) ==
    /\ j.pc = "replicate" /\ j.todo # {}
    /\ LET p == Lowest(j.todo) IN
       /\ \/ /\ Answered(j.srv, p)
             /\ Replicate(p, j)
             /\ UNCHANGED late
          \/ /\ Failed(j.srv, p)
             /\ late' \in {late, late \cup {[to |-> p, job |-> j]}}
             /\ late' # late => Reach(j.srv, p)
             /\ UNCHANGED <<disk, versions>>
       /\ Become(j, [j EXCEPT !.todo = @ \ {p}])
    /\ UNCHANGED <<openFiles, nextHandle, dedup, requests, client, history>>

\* Every backup was called: _store_response and the answer.  The response to
\* Create has no version.
JobStore(j) ==
    LET version == IF j.op = "close" THEN j.version ELSE 0 IN
    /\ j.pc = "store" \/ (j.pc = "replicate" /\ j.todo = {})
    /\ dedup' = [dedup EXCEPT ![j.srv][j.client] = [seq |-> j.seq, version |-> version]]
    /\ jobs' = jobs \ {j}
    /\ Answer(j, Returned(j.client, NoHandle))
    /\ Confirm(j, j.seq, version)
    /\ UNCHANGED <<disk, versions, openFiles, nextHandle, requests, late, ran, overlapped, astray>>

\* A replication call is served after its caller gave it up
ServeLate(m) ==
    /\ m.to \in listening
    /\ late' = late \ {m}
    /\ Replicate(m.to, m.job)
    /\ UNCHANGED <<openFiles, nextHandle, dedup, requests, jobs, client, history>>

-----------------------------------------------------------------------------
(* Startup, election and crash, and the files                              *)

\* _load_existing_files: every file on disk is at version 1
Load(i) ==
    versions' = [versions EXCEPT ![i] =
        [f \in File |-> IF disk[i][f] # Absent /\ @[f] = 0 THEN 1 ELSE @[f]]]

\* A restarted process knows nothing but its files
StartServer(i) ==
    /\ Start(i)
    /\ versions' = [versions EXCEPT ![i] = NoEntries]
    /\ openFiles' = [openFiles EXCEPT ![i] = {}]
    /\ nextHandle' = [nextHandle EXCEPT ![i] = 1]
    /\ dedup' = [dedup EXCEPT ![i] = [c \in Client |-> NoReply]]
    /\ ran' = [ran EXCEPT ![i] = <<>>]
    /\ UNCHANGED <<disk, snapshot, rpcVars, client, acked, overlapped, astray>>

BootAsPrimary(i) ==
    /\ StartAsPrimary(i)
    /\ Load(i)
    /\ UNCHANGED <<disk, openFiles, nextHandle, dedup, snapshot, rpcVars, client, history>>

\* SyncState: the files of the source that have a version and can be read
TakeSnapshot(i) ==
    /\ SyncAnswered(i)
    /\ LET s == primaryAddr[i] IN
       snapshot' = [snapshot EXCEPT ![i] =
           [disk |-> disk[s],
            versions |-> [f \in File |-> IF disk[s][f] = Absent THEN 0 ELSE versions[s][f]]]]
    /\ UNCHANGED <<fileVars, rpcVars, client, history>>

\* The files of the snapshot replace those of the same name; others stay
InstallSnapshot(i) ==
    LET snap == snapshot[i] IN
    /\ Install(i)
    /\ disk' = [disk EXCEPT ![i] =
         [f \in File |-> IF snap.versions[f] > 0 THEN snap.disk[f] ELSE @[f]]]
    /\ versions' = [versions EXCEPT ![i] =
         [f \in File |-> IF snap.versions[f] > 0 THEN snap.versions[f] ELSE @[f]]]
    /\ snapshot' = [snapshot EXCEPT ![i] = [disk |-> NoFiles, versions |-> NoEntries]]
    /\ UNCHANGED <<openFiles, nextHandle, dedup, rpcVars, client, history>>

\* After an election at startup a primary loads its files
EndServerElection(i) ==
    /\ EndElection(i)
    /\ IF task[i].boot /\ role[i] = "primary" THEN Load(i) ELSE UNCHANGED versions
    /\ UNCHANGED <<disk, openFiles, nextHandle, dedup, snapshot, rpcVars, client, history>>

\* The jobs die with the process.  One that was writing may leave the file
\* truncated: open(fpath, "wb") empties it first.
CrashServer(i) ==
    /\ Crash(i)
    /\ \E torn \in SUBSET {j.file : j \in {k \in jobs : k.srv = i /\ k.pc = "write"}} :
         disk' = [disk EXCEPT ![i] = [f \in File |-> IF f \in torn THEN Empty ELSE @[f]]]
    /\ jobs' = {j \in jobs : j.srv # i}
    /\ requests' = {r \in requests : r.to # i}
    /\ late' = {m \in late : m.to # i}
    /\ UNCHANGED <<versions, openFiles, nextHandle, dedup, snapshot, client, history>>

\* The steps of ReplicaRoles that touch no file
RoleStep(i) ==
    /\ \/ QueryPeer(i) \/ StartAsBackup(i) \/ SyncGaveUp(i)
       \/ DetectFailure(i) \/ PollPeer(i) \/ Elect(i) \/ SkipAnnouncement(i)
       \/ AnnounceToPeer(i)
       \/ \E p \in Server : Heartbeat(i, p)
       \/ Isolate(i) \/ Heal(i)
    /\ UNCHANGED <<fileVars, snapshot, rpcVars, client, history>>

-----------------------------------------------------------------------------
ServerStep(i) ==
    \/ RoleStep(i)
    \/ StartServer(i) \/ BootAsPrimary(i) \/ TakeSnapshot(i) \/ InstallSnapshot(i)
    \/ EndServerElection(i) \/ CrashServer(i)

ClientStep(c) ==
    \/ /\ \/ \E f \in File : ClientCreate(c, f)
          \/ \E f \in File, mode \in {"r", "w"} : ClientOpen(c, f, mode)
          \/ ClientClose(c)
       /\ UNCHANGED <<rpcVars, fileVars, roleVars, snapshot, history>>
    \/ /\ Send(c) \/ GiveUp(c)
       /\ UNCHANGED <<fileVars, roleVars, snapshot, history>>
    \/ /\ Timeout(c)
       /\ UNCHANGED <<fileVars, threadVars, heard, calm, snapshot, history>>

RequestStep(r) ==
    /\ \/ Redirect(r) \/ AnswerFromCache(r)
       \/ HandleCreate(r) \/ HandleOpen(r) \/ HandleClose(r)
    /\ UNCHANGED <<roleVars, snapshot>>

JobStep(j) ==
    \/ /\ JobWrite(j) \/ JobVersion(j) \/ JobStore(j)
       /\ UNCHANGED <<roleVars, snapshot>>
    \/ /\ JobReplicate(j)
       /\ UNCHANGED <<threadVars, heard, calm, snapshot>>

FilesNext ==
    \/ \E i \in Server : ServerStep(i)
    \/ \E c \in Client : ClientStep(c)
    \/ \E r \in requests : RequestStep(r)
    \/ \E j \in jobs : JobStep(j)
    \/ \E m \in late : ServeLate(m) /\ UNCHANGED <<roleVars, snapshot>>

FilesSpec == FilesInit /\ [][FilesNext]_vars

-----------------------------------------------------------------------------
Handle == [handle : 1..MaxOpens, file : File, mode : {"r", "w"}]
Request == [client : Client, to : Server, seq : 0..MaxOps, op : {"create", "open", "close"},
            file : File, mode : {"r", "w"}, handle : 0..MaxOpens, waited : BOOLEAN]
JobRecord == [srv : Server, client : Client, seq : 1..MaxOps, op : {"create", "close"},
              file : File, pc : {"write", "version", "replicate", "store"}, version : Nat,
              todo : SUBSET Server, waited : BOOLEAN]

FilesTypeOK ==
    /\ TypeOK
    /\ disk \in [Server -> [File -> Content]]
    /\ versions \in [Server -> [File -> Nat]]
    /\ openFiles \in [Server -> SUBSET Handle]
    /\ nextHandle \in [Server -> 1..MaxOpens + 1]
    /\ dedup \in [Server -> [Client -> [seq : 0..MaxOps, version : Nat]]]
    /\ requests \subseteq Request
    /\ jobs \subseteq JobRecord
    /\ late \subseteq [to : Server, job : JobRecord]
    /\ snapshot \in [Server -> [disk : [File -> Content], versions : [File -> Nat]]]
    /\ client \in [Client -> [pc : {"rest", "send", "wait"}, addr : Server, seq : 0..MaxOps,
                              held : Handle \cup {NoHandle}, attempt : 0..MaxRetries + 1,
                              op : {"none", "create", "open", "close"},
                              file : File \cup {Absent}, mode : {"none", "r", "w"},
                              handle : 0..MaxOpens]]
    /\ acked \subseteq [file : File, version : Nat, data : Write, of : 1..MaxOps]
    /\ ran \in [Server -> Seq(Write)]
    /\ overlapped \subseteq File /\ astray \subseteq Write

\* While servers only crash, a write that was confirmed to its client is on
\* every server that is up, until a newer write of the file replaces it:
\* through failovers that interrupt other writes half way.  There are two
\* exceptions.  Jobs that change one file at the same time reach the backups in
\* any order, and the last one stays there, whatever its version.  And handles
\* are numbered from 1 on every server, so that a close that is sent to a new
\* primary may find a handle of another open: when that one is of another file,
\* or for reading only, the close is confirmed and writes another file or none.
AckedSurvives ==
    restarts = 0 /\ faults = 0 =>
        \A a \in {b \in acked : b.file \notin overlapped /\ b.data \notin astray} :
        a.version > 0 /\ \A i \in listening :
            \/ versions[i][a.file] > a.version
            \/ /\ versions[i][a.file] = a.version
               /\ disk[i][a.file] \in {a.data} \cup
                    {Data(j) : j \in {k \in jobs : /\ k.srv = i /\ k.file = a.file
                                                   /\ k.pc = "version"}}

\* A server that is up runs no write twice, although its client repeats a
\* close that is still running, or that it already finished.
RunsAtMostOnce ==
    \A i \in listening : \A k, l \in DOMAIN ran[i] : ran[i][k] = ran[i][l] => k = l

\* What confirms a write is the response to that write, not one that the
\* server remembers of another request.
AcksAreOwn == \A a \in acked : a.of = a.data.seq

=============================================================================
