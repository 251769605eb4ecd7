---------------------------- MODULE FileService ----------------------------
(***************************************************************************)
(* The file service of part1_filesystem with the caches of its clients:    *)
(* the gRPC build (fs/server.py, fs/client_stub.py) with its write locks,  *)
(* and the build on sockets (fs_wo_grpc), which has no locks, takes the    *)
(* handle off the table first, and answers a read close with the current   *)
(* version.  One file; several clients, each with one operation at a time. *)
(*                                                                         *)
(* A handler is as many steps as it has critical sections and accesses to  *)
(* the disk: the server runs ten of them at a time.  Time is what is left  *)
(* of a lock and of its timer.  Contents are numbers, a new one for every  *)
(* write of a client to its cached copy.                                   *)
(***************************************************************************)
EXTENDS Naturals, Sequences

CONSTANTS
    Client,
    Absent, Empty,   \* no file, and the file while it is truncated
    Builds,          \* the builds to look at: subset of {"grpc", "socket"}
    Timeout,         \* timeout_seconds of a lock
    MaxOps,          \* bound on the operations the clients begin
    MaxLost          \* bound on the responses that are lost

ASSUME FileAssumption ==
    /\ Absent # Empty /\ Absent \notin Nat /\ Empty \notin Nat
    /\ Builds \subseteq {"grpc", "socket"}
    /\ Timeout \in Nat \ {0}
    /\ MaxOps \in Nat /\ MaxLost \in Nat

VARIABLES
    build,       \* which of the two builds runs
    disk,        \* what is in the file
    version,     \* file_versions, 0 when it has no entry for the file
    handles,     \* open_files: handle and mode
    nextHandle,
    lock,        \* file_locks: who holds it and how long still, or NoLock
    timers,      \* the threading.Timers: left, and fired while they wait for state_lock
    unread,      \* notifications: per client, the grants whose end it was not told yet
    ended,       \* history: per grant, how often its owner was notified of its end
    call,        \* per client, the operation in hand, with the locals of its handler
    cache,       \* per client, cache_metadata and the file in its cache directory
    active,      \* per client, active_handles
    ops, lost,
    overlap      \* history: a handler changed the file or its version during another one

files == <<disk, version, overlap>>
locks == <<lock, timers, unread, ended>>
client == <<cache, active>>
vars == <<build, files, handles, nextHandle, locks, call, client, ops, lost>>

NoLock == [owner |-> Absent, left |-> 0, grant |-> 0]
Idle == [stage |-> "idle"]
NoCache == [version |-> 0, data |-> Empty, dirty |-> FALSE, unsent |-> FALSE, renamed |-> FALSE]

Init ==
    /\ build \in Builds
    /\ disk \in {Absent, 0}
    /\ version = 0
    /\ handles = {}
    /\ nextHandle = 1
    /\ lock = NoLock
    /\ timers = {}
    /\ unread = [c \in Client |-> {}]
    /\ ended = <<>>
    /\ call = [c \in Client |-> Idle]
    /\ cache = [c \in Client |-> NoCache]
    /\ active = [c \in Client |-> {}]
    /\ ops = 0
    /\ lost = 0
    /\ overlap = FALSE

\* file_versions.get(filename, 1)
Version == IF version = 0 THEN 1 ELSE version

\* What Open reads: a file that is not there is opened for writing as empty
Contents == IF disk = Absent THEN Empty ELSE disk

\* A client that is free begins an operation
Begin(c) == call[c] = Idle /\ ops < MaxOps /\ ops' = ops + 1

Go(c, rest) == call' = [call EXCEPT ![c] = rest]
At(c, stage) == call[c].stage = stage

\* Handlers that have read something of the file or its version and go on
InHandler(c) ==
    call[c].stage \in {"make", "stamp", "grant", "version", "truncate", "write", "commit"}
Overlap(c) == overlap' = (overlap \/ \E d \in Client \ {c} : InHandler(d))

\* What a client does whose response is lost: the gRPC build raises, the socket
\* build connects again and sends the same request once more
Resent(q) ==
    IF build = "grpc" \/ q.again THEN Idle
    ELSE [q EXCEPT !.again = TRUE,
                   !.stage = IF "handle" \in DOMAIN q THEN "close" ELSE "read"]

\* The response reaches the client, or is lost
Deliver(c, received, notReceived) ==
    \/ Go(c, Idle) /\ received /\ UNCHANGED lost
    \/ Go(c, Resent(call[c])) /\ lost < MaxLost /\ lost' = lost + 1 /\ notReceived

-----------------------------------------------------------------------------
(* Locks, under state_lock                                                 *)

Locked == lock # NoLock
Expired == Locked /\ lock.left = 0

\* Timer.cancel: without effect on a timer that has fired
Cancel == timers' = {t \in timers : t.grant # lock.grant \/ t.fired}

\* Mutant: nobody is told
ReleaseSilently == lock' = NoLock /\ UNCHANGED <<unread, ended>>

\* The lock is taken off the table and its owner gets a message
Release ==
    /\ lock' = NoLock
    /\ unread' = [unread EXCEPT ![lock.owner] = @ \cup {lock.grant}]
    /\ ended' = [ended EXCEPT ![lock.grant] = @ + 1]

\* _cleanup_expired_lock_unlocked
Cleanup == IF Expired THEN Release /\ Cancel ELSE UNCHANGED locks
LockedNow == Locked /\ ~Expired

\* LockFile, with the clean-up: refused while another lock, of whomever, is in
\* force
LockFile(c) ==
    LET g == Len(ended) + 1 IN
    /\ build = "grpc"
    /\ Begin(c)
    /\ disk # Absent
    /\ \/ LockedNow /\ UNCHANGED locks
       \/ /\ ~LockedNow
          /\ lock' = [owner |-> c, left |-> Timeout, grant |-> g]
          /\ timers' = {t \in timers : t.grant # lock.grant \/ t.fired} \cup
                         {[owner |-> c, left |-> Timeout, grant |-> g, fired |-> FALSE]}
          /\ IF Expired
             THEN /\ unread' = [unread EXCEPT ![lock.owner] = @ \cup {lock.grant}]
                  /\ ended' = Append([ended EXCEPT ![lock.grant] = @ + 1], 0)
             ELSE ended' = Append(ended, 0) /\ UNCHANGED unread
    /\ UNCHANGED <<build, files, handles, nextHandle, call, client, lost>>

\* UnlockFile
UnlockFile(c) ==
    /\ build = "grpc"
    /\ Begin(c)
    /\ IF LockedNow /\ lock.owner = c THEN Release /\ Cancel ELSE Cleanup
    /\ UNCHANGED <<build, files, handles, nextHandle, call, client, lost>>

\* GetLockNotifications: the messages are handed over, or lost with the response
GetLockNotifications(c) ==
    /\ build = "grpc"
    /\ Begin(c)
    /\ unread[c] # {}
    /\ unread' = [unread EXCEPT ![c] = {}]
    /\ UNCHANGED <<build, files, handles, nextHandle, lock, timers, ended, call, client, lost>>

\* Time passes for the lock and the timers
Tick ==
    /\ lock.left > 0 \/ \E t \in timers : t.left > 0
    /\ lock' = [lock EXCEPT !.left = IF @ > 0 THEN @ - 1 ELSE 0]
    /\ timers' = {[t EXCEPT !.left = IF @ > 0 THEN @ - 1 ELSE 0] : t \in timers}
    /\ UNCHANGED <<build, files, handles, nextHandle, unread, ended, call, client, ops, lost>>

\* The timer fires; its thread then waits for state_lock
Fire(t) ==
    /\ ~t.fired /\ t.left = 0
    /\ timers' = (timers \ {t}) \cup {[t EXCEPT !.fired = TRUE]}
    /\ UNCHANGED <<build, files, handles, nextHandle, lock, unread, ended, call, client, ops,
                   lost>>

\* Mutant: a lock is not expired yet at the very time of its expiry
NeverExpired(t) == Locked /\ lock.owner = t.owner /\ lock.left < 0

\* Mutant: any lock of the owner is released, expired or not
ReleaseAnyOf(t) == Locked /\ lock.owner = t.owner

\* _auto_release_lock: what it checks before it releases the lock
MayRelease(t) == Locked /\ lock.owner = t.owner /\ lock.left = 0

\* _auto_release_lock
AutoRelease(t) ==
    /\ t.fired
    /\ timers' = timers \ {t}
    /\ IF MayRelease(t) THEN Release ELSE UNCHANGED <<lock, unread, ended>>
    /\ UNCHANGED <<build, files, handles, nextHandle, call, client, ops, lost>>

-----------------------------------------------------------------------------
(* Create                                                                  *)

CreateCheck(c) ==
    /\ Begin(c)
    /\ disk = Absent
    /\ Go(c, [stage |-> "make"])
    /\ UNCHANGED <<build, files, handles, nextHandle, locks, client, lost>>

CreateMake(c) ==
    /\ At(c, "make")
    /\ disk' = Empty
    /\ Overlap(c)
    /\ Go(c, [stage |-> "stamp"])
    /\ UNCHANGED <<build, ops, version, handles, nextHandle, locks, client, lost>>

CreateStamp(c) ==
    /\ At(c, "stamp")
    /\ version' = 1
    /\ Overlap(c)
    /\ Go(c, Idle)
    /\ UNCHANGED <<build, ops, disk, handles, nextHandle, locks, client, lost>>

-----------------------------------------------------------------------------
(* Open                                                                    *)

\* open of the stub: a client with a cached copy asks for the version first,
\* TestVersionNumber
OpenTest(c, mode) ==
    /\ Begin(c)
    /\ Go(c, [stage |-> "read", mode |-> mode, again |-> FALSE,
              fetch |-> cache[c].version = 0 \/ cache[c].version # Version])
    /\ UNCHANGED <<build, files, handles, nextHandle, locks, client, lost>>

\* Open: the file is looked for and read before the lock is taken
OpenRead(c) ==
    /\ At(c, "read")
    /\ IF disk = Absent /\ (call[c].mode = "r" \/ build = "socket") THEN Go(c, Idle)
       ELSE Go(c, [stage |-> "grant", mode |-> call[c].mode, fetch |-> call[c].fetch,
                   again |-> call[c].again, data |-> Contents])
    /\ UNCHANGED <<build, ops, files, handles, nextHandle, locks, client, lost>>

\* Open under state_lock: refused while locked, otherwise a handle and the
\* version; the client stores what it fetched and forgets older versions
OpenGrant(c) ==
    LET q == call[c]
        seen == IF version = 0 /\ disk # Absent THEN 1 ELSE version
        known == IF seen = 0 THEN 1 ELSE seen
        path == IF q.fetch THEN known ELSE cache[c].version
    IN
    /\ At(c, "grant")
    /\ IF q.mode = "w" THEN Cleanup ELSE UNCHANGED locks
    /\ IF q.mode = "w" /\ LockedNow
       THEN Go(c, Idle) /\ UNCHANGED <<version, handles, nextHandle, cache, active, lost>>
       ELSE /\ handles' = handles \cup {[h |-> nextHandle, mode |-> q.mode]}
            /\ nextHandle' = nextHandle + 1
            /\ version' = seen
            /\ Deliver(c,
                 /\ active' = [active EXCEPT ![c] = @ \cup
                                 {[h |-> nextHandle, mode |-> q.mode, path |-> path]}]
                 /\ cache' = IF ~q.fetch THEN cache
                             ELSE [cache EXCEPT ![c] =
                                     [NoCache EXCEPT !.version = known, !.data = q.data]],
                 UNCHANGED <<active, cache>>)
    /\ UNCHANGED <<build, ops, disk, overlap>>

-----------------------------------------------------------------------------
(* Reading and writing the cached copy                                     *)

\* The file a handle works on is there: fetching a newer version removed it
HasFile(c, a) == a.path = cache[c].version

\* write: the cached file is changed in place, whatever the mode of the handle.
\* What goes through a handle for reading is not sent when that one is closed.
WriteLocal(c, a) ==
    /\ Begin(c)
    /\ HasFile(c, a)
    /\ cache' = [cache EXCEPT ![c].data = ops', ![c].dirty = @ \/ a.mode = "w",
                             ![c].unsent = @ \/ a.mode = "r"]
    /\ UNCHANGED <<build, files, handles, nextHandle, locks, call, active, lost>>

-----------------------------------------------------------------------------
(* Close                                                                   *)

\* close of the stub sends the copy; the socket build forgets the handle first
CloseSend(c, a) ==
    /\ Begin(c)
    /\ HasFile(c, a)
    /\ Go(c, [stage |-> "close", handle |-> a, again |-> FALSE, data |-> cache[c].data])
    /\ active' = IF build = "socket" THEN [active EXCEPT ![c] = @ \ {a}] ELSE active
    /\ UNCHANGED <<build, files, handles, nextHandle, locks, cache, lost>>

\* Mutant: the handle is taken off the table before the lock is looked at
Popped(q, refused) == handles \ {[h |-> q.handle.h, mode |-> q.handle.mode]}

\* Close: a handle the file of which is locked stays open
Remaining(q, refused) ==
    IF refused THEN handles ELSE handles \ {[h |-> q.handle.h, mode |-> q.handle.mode]}

\* Close, first critical section: an unknown handle and a locked file are
\* refused
CloseTake(c) ==
    LET q == call[c]
        open == [h |-> q.handle.h, mode |-> q.handle.mode] \in handles
        refused == build = "grpc" /\ q.handle.mode = "w" /\ LockedNow
    IN
    /\ At(c, "close")
    /\ IF open /\ build = "grpc" /\ q.handle.mode = "w" THEN Cleanup ELSE UNCHANGED locks
    /\ handles' = IF open THEN Remaining(q, refused) ELSE handles
    /\ Go(c, IF open /\ ~refused THEN [q EXCEPT !.stage = "version"] ELSE Idle)
    /\ UNCHANGED <<build, ops, files, nextHandle, client, lost>>

\* The client learns the new version: its copy, which a write close has sent
\* to the server, is renamed to it
Renamed(c, new) ==
    LET read == call[c].handle.mode = "r" IN
    [cache EXCEPT ![c] =
      [version |-> new, data |-> @.data, dirty |-> @.dirty /\ read, unsent |-> @.unsent /\ read,
       renamed |-> (@.renamed \/ new # @.version) /\ read]]

\* Close, second critical section: the current version.  A read close is done:
\* the gRPC build returns 0, the socket build the current version, which its
\* client takes for the version of its copy.
CloseVersion(c) ==
    LET q == call[c] IN
    /\ At(c, "version")
    /\ IF q.handle.mode = "w"
       THEN /\ Go(c, [stage |-> "truncate", handle |-> q.handle, data |-> q.data,
                      again |-> q.again, current |-> Version])
            /\ UNCHANGED <<cache, active, lost>>
       ELSE Deliver(c,
              /\ active' = [active EXCEPT ![c] = @ \ {q.handle}]
              /\ cache' = IF build = "socket" THEN Renamed(c, Version) ELSE cache,
              UNCHANGED <<active, cache>>)
    /\ UNCHANGED <<build, ops, files, handles, nextHandle, locks>>

\* open(filepath, 'wb') truncates the file, f.write fills it
CloseTruncate(c) ==
    /\ At(c, "truncate")
    /\ disk' = Empty
    /\ Overlap(c)
    /\ Go(c, [call[c] EXCEPT !.stage = "write"])
    /\ UNCHANGED <<build, ops, version, handles, nextHandle, locks, client, lost>>

CloseWrite(c) ==
    /\ At(c, "write")
    /\ disk' = call[c].data
    /\ Overlap(c)
    /\ Go(c, [call[c] EXCEPT !.stage = "commit"])
    /\ UNCHANGED <<build, ops, version, handles, nextHandle, locks, client, lost>>

\* Mutant: the version stays
SameVersion(q) == q.current

\* The version of what was written
NewVersion(q) == q.current + 1

\* Close, last critical section
CloseCommit(c) ==
    LET q == call[c] IN
    /\ At(c, "commit")
    /\ version' = NewVersion(q)
    /\ Overlap(c)
    /\ Deliver(c,
         /\ active' = [active EXCEPT ![c] = @ \ {q.handle}]
         /\ cache' = Renamed(c, NewVersion(q)),
         UNCHANGED <<active, cache>>)
    /\ UNCHANGED <<build, ops, disk, handles, nextHandle, locks>>

ClientStep(c) ==
    \/ LockFile(c) \/ UnlockFile(c) \/ GetLockNotifications(c)
    \/ CreateCheck(c) \/ CreateMake(c) \/ CreateStamp(c)
    \/ \E mode \in {"r", "w"} : OpenTest(c, mode)
    \/ OpenRead(c) \/ OpenGrant(c)
    \/ \E a \in active[c] : WriteLocal(c, a) \/ CloseSend(c, a)
    \/ CloseTake(c) \/ CloseVersion(c) \/ CloseTruncate(c) \/ CloseWrite(c) \/ CloseCommit(c)

Next ==
    \/ \E c \in Client : ClientStep(c)
    \/ Tick
    \/ \E t \in timers : Fire(t) \/ AutoRelease(t)

Spec == Init /\ [][Next]_vars

\* Clocks go on, and a timer's thread starts and gets state_lock, which no
\* handler keeps
FairSpec ==
    Spec /\ WF_vars(Tick) /\ WF_vars(\E t \in timers : Fire(t) \/ AutoRelease(t))

-----------------------------------------------------------------------------
(* Properties                                                              *)

\* A lock ends only by its owner's UnlockFile or when its time is over, never
\* by the timer of an earlier lock of the same client that had fired already
\* when it was cancelled.
LockHeld ==
    [][Locked /\ lock'.grant # lock.grant =>
         Expired \/ (lock' = NoLock /\ UnlockFile(lock.owner))]_vars

\* The owner of a lock is told exactly once of its end, whichever of the timer,
\* the next caller that finds the lock expired, or the owner itself ends it.
NotifiedOnce ==
    \A g \in 1..Len(ended) : ended[g] = (IF lock.grant = g THEN 0 ELSE 1)

\* What the client takes for open is open at the server, also after a close
\* that was refused because of a lock: it can be closed later.  Only a lost
\* response leaves a handle of one side alone.
ActiveIsOpen ==
    lost = 0 =>
        \A c \in Client : \A a \in active[c] :
            \/ [h |-> a.h, mode |-> a.mode] \in handles
            \/ ~At(c, "idle") /\ "handle" \in DOMAIN call[c] /\ call[c].handle = a

\* The client has its copy open for writing, or such a close of it under way
OpenForWriting(c) ==
    \/ \E a \in active[c] : a.mode = "w" /\ HasFile(c, a)
    \/ "handle" \in DOMAIN call[c] /\ call[c].handle.mode = "w" /\ HasFile(c, call[c].handle)

\* A cached copy that carries the server's version, and would be used without a
\* download, has the server's content between two handlers.  There are four
\* exceptions: the client changed the copy and has it still open for writing;
\* it changed the copy through a handle for reading, whose close sends nothing,
\* and no write close sent the copy since; a handler changed the file while
\* another handler was at work; and (socket build) a read close gave the copy a
\* version it was not fetched as.
CacheIsFresh ==
    \A c \in Client :
        /\ ~overlap /\ \A d \in Client : ~InHandler(d)
        /\ cache[c].version = Version
        /\ ~(cache[c].dirty /\ OpenForWriting(c)) /\ ~cache[c].unsent /\ ~cache[c].renamed
        => cache[c].data = Contents

\* A lock whose time is over is taken off the table although its owner never
\* unlocks it and nobody asks for the file again.
LockAutoReleased == Expired ~> ~Expired

=============================================================================
