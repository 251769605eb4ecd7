------------------------- MODULE FileServiceProofs -------------------------
(***************************************************************************)
(* Proofs about module FileService, for every set of clients, time-out and *)
(* number of operations: the end of a lock is told exactly once, a lock is *)
(* never taken away early, what a client has open is open at the server,   *)
(* and a copy that is used without a download has the server's content.    *)
(***************************************************************************)
EXTENDS FileService, TLAPS, SequenceTheorems

-----------------------------------------------------------------------------
(* Locks                                                                   *)

\* What is in file_locks: nothing, or a grant that was recorded
LockOK ==
    /\ ended \in Seq(Nat)
    /\ \/ lock = NoLock
       \/ lock \in [owner : Client, left : Nat, grant : 1..Len(ended)]

LockInv == LockOK /\ NotifiedOnce

\* How a step may treat the lock: leave it alone, let its time pass, end it,
\* or grant it anew (after ending what was left of an expired one)
Kept == UNCHANGED <<lock, ended>>
Passed == lock' = [lock EXCEPT !.left = IF @ > 0 THEN @ - 1 ELSE 0] /\ UNCHANGED ended
Ended == Locked /\ lock' = NoLock /\ ended' = [ended EXCEPT ![lock.grant] = @ + 1]
Granted(c) ==
    /\ ~LockedNow
    /\ lock' = [owner |-> c, left |-> Timeout, grant |-> Len(ended) + 1]
    /\ ended' = Append(IF Expired THEN [ended EXCEPT ![lock.grant] = @ + 1] ELSE ended, 0)

\* The lock of a client that holds none has no grant
LEMMA NoLockGrant == NoLock.grant = 0 /\ NoLock.left = 0
BY DEF NoLock

\* A step that leaves the lock alone
LEMMA KeptInv == LockInv /\ Kept => LockInv'
BY DEF LockInv, LockOK, NotifiedOnce, Kept

\* Time passes for the owner of the lock
LEMMA PassedInv == LockInv /\ Passed => LockInv'
<1> SUFFICES ASSUME LockInv, Passed PROVE LockInv'
  OBVIOUS
<1>1. CASE lock = NoLock
  <2>1. lock' = NoLock
    BY <1>1 DEF Passed, NoLock
  <2> QED
    BY <1>1, <2>1 DEF LockInv, LockOK, NotifiedOnce, Passed
<1>2. CASE lock \in [owner : Client, left : Nat, grant : 1..Len(ended)]
  <2>1. lock' \in [owner : Client, left : Nat, grant : 1..Len(ended)] /\ lock'.grant = lock.grant
    BY <1>2 DEF Passed
  <2> QED
    BY <2>1 DEF LockInv, LockOK, NotifiedOnce, Passed
<1> QED
  BY <1>1, <1>2 DEF LockInv, LockOK

\* The end of a lock is counted where it is taken off the table
LEMMA EndCounted ==
    ASSUME LockInv, Locked,
           NEW e, e = [ended EXCEPT ![lock.grant] = @ + 1]
    PROVE  /\ e \in Seq(Nat) /\ Len(e) = Len(ended)
           /\ \A g \in 1..Len(e) : e[g] = 1
<1>1. /\ ended \in Seq(Nat)
      /\ lock.grant \in 1..Len(ended)
  BY DEF LockInv, LockOK, Locked
<1>2. e \in Seq(Nat) /\ Len(e) = Len(ended)
  BY <1>1
<1>3. \A g \in 1..Len(ended) : e[g] = IF g = lock.grant THEN ended[g] + 1 ELSE ended[g]
  BY <1>1
<1>4. \A g \in 1..Len(ended) : ended[g] = IF lock.grant = g THEN 0 ELSE 1
  BY DEF LockInv, NotifiedOnce
<1> QED
  BY <1>2, <1>3, <1>4

\* A lock comes to its end
LEMMA EndedInv == LockInv /\ Ended => LockInv'
<1> SUFFICES ASSUME LockInv, Ended PROVE LockInv'
  OBVIOUS
<1>1. ended' \in Seq(Nat) /\ \A g \in 1..Len(ended') : ended'[g] = 1
  BY EndCounted DEF Ended
<1>2. lock' = NoLock /\ NoLock.grant = 0
  BY NoLockGrant DEF Ended
<1>3. NotifiedOnce'
  <2>1. \A g \in 1..Len(ended') : lock'.grant # g
    BY <1>1, <1>2
  <2> QED
    BY <1>1, <2>1 DEF NotifiedOnce
<1> QED
  BY <1>1, <1>2, <1>3 DEF LockInv, LockOK

\* A client gets the lock
LEMMA GrantedInv == ASSUME NEW c \in Client, LockInv, Granted(c) PROVE LockInv'
<1> DEFINE e == IF Expired THEN [ended EXCEPT ![lock.grant] = @ + 1] ELSE ended
<1>1. e \in Seq(Nat) /\ Len(e) = Len(ended) /\ \A g \in 1..Len(e) : e[g] = 1
  <2>1. CASE Expired
    BY <2>1, EndCounted DEF Expired
  <2>2. CASE ~Expired
    <3>1. lock = NoLock
      BY <2>2 DEF Granted, LockedNow, Locked
    <3>2. ended \in Seq(Nat) /\ \A g \in 1..Len(ended) : lock.grant # g
      BY <3>1, NoLockGrant DEF LockInv, LockOK
    <3> QED
      BY <2>2, <3>2 DEF LockInv, NotifiedOnce
  <2> QED
    BY <2>1, <2>2
<1>2. ended' = Append(e, 0)
  BY DEF Granted
<1> HIDE DEF e
<1>3. Len(ended) \in Nat
  BY DEF LockInv, LockOK
<1>4. ended' \in Seq(Nat) /\ Len(ended') = Len(ended) + 1
  BY <1>1, <1>2
<1>5. \A g \in 1..Len(ended) : ended'[g] = 1
  BY <1>1, <1>2
<1>6. ended'[Len(ended) + 1] = 0
  BY <1>1, <1>2
<1>7. lock' = [owner |-> c, left |-> Timeout, grant |-> Len(ended) + 1]
  BY DEF Granted
<1>8. lock' \in [owner : Client, left : Nat, grant : 1..Len(ended')] /\ lock'.grant = Len(ended) + 1
  BY <1>3, <1>4, <1>7, FileAssumption
<1>9. NotifiedOnce'
  BY <1>3, <1>4, <1>5, <1>6, <1>8 DEF NotifiedOnce
<1> QED
  BY <1>4, <1>8, <1>9 DEF LockInv, LockOK

\* _cleanup_expired_lock_unlocked ends the lock or leaves it
LEMMA CleanupEffect == Cleanup => (Expired /\ Ended) \/ Kept
BY DEF Cleanup, Release, Ended, Kept, Expired, locks

\* Every step treats the lock in one of these ways, and ends it only when its
\* time is over or its owner unlocks it
LEMMA LockSteps ==
    [Next]_vars =>
        \/ Kept
        \/ Passed
        \/ Expired /\ Ended
        \/ Ended /\ UnlockFile(lock.owner)
        \/ \E c \in Client : Granted(c)
<1> SUFFICES ASSUME [Next]_vars
             PROVE  \/ Kept
                    \/ Passed
                    \/ Expired /\ Ended
                    \/ Ended /\ UnlockFile(lock.owner)
                    \/ \E c \in Client : Granted(c)
  OBVIOUS
<1>1. CASE UNCHANGED vars
  BY <1>1 DEF vars, locks, Kept
<1>2. ASSUME NEW c \in Client, ClientStep(c)
      PROVE  \/ Kept
             \/ Expired /\ Ended
             \/ Ended /\ UnlockFile(lock.owner)
             \/ Granted(c)
  <2>1. CASE LockFile(c)
    BY <2>1 DEF LockFile, Granted, Kept, locks
  <2>2. CASE UnlockFile(c)
    <3>1. CASE LockedNow /\ lock.owner = c
      BY <2>2, <3>1 DEF UnlockFile, Release, Ended, LockedNow
    <3>2. CASE ~(LockedNow /\ lock.owner = c)
      BY <2>2, <3>2, CleanupEffect DEF UnlockFile
    <3> QED
      BY <3>1, <3>2
  <2>3. CASE GetLockNotifications(c)
    BY <2>3 DEF GetLockNotifications, Kept
  <2>4. CASE CreateCheck(c) \/ CreateMake(c) \/ CreateStamp(c)
    BY <2>4 DEF CreateCheck, CreateMake, CreateStamp, Kept, locks
  <2>5. CASE \E mode \in {"r", "w"} : OpenTest(c, mode)
    BY <2>5 DEF OpenTest, Kept, locks
  <2>6. CASE OpenRead(c)
    BY <2>6 DEF OpenRead, Kept, locks
  <2>7. CASE OpenGrant(c)
    <3>1. Cleanup \/ UNCHANGED locks
      BY <2>7 DEF OpenGrant
    <3> QED
      BY <3>1, CleanupEffect DEF Kept, locks
  <2>8. CASE \E a \in active[c] : WriteLocal(c, a) \/ CloseSend(c, a)
    BY <2>8 DEF WriteLocal, CloseSend, Kept, locks
  <2>9. CASE CloseTake(c)
    <3>1. Cleanup \/ UNCHANGED locks
      BY <2>9 DEF CloseTake
    <3> QED
      BY <3>1, CleanupEffect DEF Kept, locks
  <2>10. CASE CloseVersion(c) \/ CloseTruncate(c) \/ CloseWrite(c) \/ CloseCommit(c)
    BY <2>10 DEF CloseVersion, CloseTruncate, CloseWrite, CloseCommit, Kept, locks
  <2> QED
    BY <1>2, <2>1, <2>2, <2>3, <2>4, <2>5, <2>6, <2>7, <2>8, <2>9, <2>10 DEF ClientStep
<1>3. CASE Tick
  BY <1>3 DEF Tick, Passed
<1>4. ASSUME NEW t \in timers, Fire(t) \/ AutoRelease(t)
      PROVE  Kept \/ (Expired /\ Ended)
  <2>1. CASE Fire(t)
    BY <2>1 DEF Fire, Kept
  <2>2. CASE AutoRelease(t)
    BY <2>2 DEF AutoRelease, MayRelease, Release, Ended, Expired, Kept
  <2> QED
    BY <1>4, <2>1, <2>2
<1> QED
  BY <1>1, <1>2, <1>3, <1>4 DEF Next

\* The invariant of the lock holds at the start
LEMMA LockInit == Init => LockInv
BY DEF Init, LockInv, LockOK, NotifiedOnce

\* ... and every step of the service keeps it
LEMMA LockStep == LockInv /\ [Next]_vars => LockInv'
BY LockSteps, KeptInv, PassedInv, EndedInv, GrantedInv

\* In every execution the owner of a lock is told exactly once of its end,
\* whichever of the timer, the next caller and the owner itself ends it.
THEOREM EndsAreNotifiedOnce == Spec => []NotifiedOnce
<1>1. LockInv => NotifiedOnce
  BY DEF LockInv
<1> QED
  BY <1>1, LockInit, LockStep, PTL DEF Spec

\* In every execution a lock ends only when its time is over or its owner
\* unlocks it: a timer of an earlier grant, fired and not cancelled in time,
\* never ends a later one.
THEOREM LocksAreHeld == Spec => LockHeld
<1>1. ASSUME LockInv, [Next]_vars
      PROVE  [Locked /\ lock'.grant # lock.grant =>
                Expired \/ (lock' = NoLock /\ UnlockFile(lock.owner))]_vars
  <2> SUFFICES ASSUME Locked, lock'.grant # lock.grant
               PROVE  Expired \/ (lock' = NoLock /\ UnlockFile(lock.owner))
    OBVIOUS
  <2>1. CASE Kept
    BY <2>1 DEF Kept
  <2>2. CASE Passed
    BY <2>2 DEF Passed, Locked, LockInv, LockOK
  <2>3. CASE Ended /\ UnlockFile(lock.owner)
    BY <2>3 DEF Ended
  <2>4. CASE \E c \in Client : Granted(c)
    BY <2>4 DEF Granted, LockedNow
  <2> QED
    BY <1>1, LockSteps, <2>1, <2>2, <2>3, <2>4
<1> QED
  BY <1>1, LockInit, LockStep, PTL DEF Spec, LockHeld

-----------------------------------------------------------------------------
(* Types                                                                   *)

Mode == {"r", "w"}
Data == Nat \cup {Empty}
Handle == [h : Nat, mode : Mode, path : Nat]

Writing == {"truncate", "write", "commit"}
Taken == Writing \cup {"version"}
Closing == Taken \cup {"close"}
Stage == {"idle", "make", "stamp", "read", "grant"} \cup Closing

\* The locals a handler has at the stage it is in
CallOK(q) ==
    /\ "stage" \in DOMAIN q /\ q.stage \in Stage
    /\ q.stage \in {"read", "grant"} =>
         {"mode", "fetch", "again"} \subseteq DOMAIN q /\ q.mode \in Mode
    /\ q.stage = "grant" =>
         "handle" \notin DOMAIN q /\ "data" \in DOMAIN q /\ q.data \in Data
    /\ q.stage \in Closing =>
         {"handle", "again", "data"} \subseteq DOMAIN q /\ q.handle \in Handle /\ q.data \in Data
    /\ q.stage \in Writing =>
         "current" \in DOMAIN q /\ q.current \in Nat /\ q.handle.mode = "w"

CacheEntry ==
    [version : Nat, data : Data, dirty : BOOLEAN, unsent : BOOLEAN, renamed : BOOLEAN]

TypeInv ==
    /\ disk \in Data \cup {Absent}
    /\ version \in Nat /\ nextHandle \in Nat /\ ops \in Nat /\ lost \in Nat
    /\ overlap \in BOOLEAN
    /\ active \in [Client -> SUBSET Handle]
    /\ cache \in [Client -> CacheEntry]
    /\ DOMAIN call = Client
    /\ \A c \in Client : CallOK(call[c])

\* The stages are different strings
LEMMA IdleOK == CallOK(Idle) /\ Idle.stage = "idle"
BY DEF CallOK, Idle, Stage, Closing, Taken, Writing

\* A handler that goes on to another stage keeps its locals
LEMMA StageSet ==
    ASSUME NEW q, CallOK(q), NEW s \in Stage
    PROVE  LET r == [q EXCEPT !.stage = s] IN
           /\ DOMAIN r = DOMAIN q /\ r.stage = s
           /\ \A x \in DOMAIN q : x # "stage" => r[x] = q[x]
BY DEF CallOK

\* A request that is sent again starts from the beginning with its handle, or
\* reads the file anew
LEMMA ResentOK ==
    ASSUME NEW q, CallOK(q), q.stage \in {"grant", "version", "commit"}
    PROVE  /\ CallOK(Resent(q))
           /\ \/ Resent(q) = Idle
              \/ q.stage = "grant" /\ Resent(q).stage = "read"
              \/ /\ q.stage # "grant" /\ Resent(q).stage = "close"
                 /\ Resent(q).handle = q.handle /\ Resent(q).data = q.data
<1>1. CASE build = "grpc" \/ q.again
  BY <1>1, IdleOK DEF Resent
<1>2. CASE ~(build = "grpc" \/ q.again)
  <2> DEFINE to == IF "handle" \in DOMAIN q THEN "close" ELSE "read"
             r == [q EXCEPT !.again = TRUE, !.stage = to]
  <2>1. Resent(q) = r
    BY <1>2 DEF Resent
  <2>2. DOMAIN r = DOMAIN q /\ "stage" \in DOMAIN q /\ "again" \in DOMAIN q
    BY DEF CallOK, Closing, Taken, Writing
  <2>3. r.stage = to /\ \A x \in DOMAIN q : x # "stage" /\ x # "again" => r[x] = q[x]
    BY <2>2
  <2>4. CASE q.stage = "grant"
    <3>1. to = "read" /\ {"mode", "fetch"} \subseteq DOMAIN q /\ q.mode \in Mode
      BY <2>4 DEF CallOK
    <3> QED
      BY <2>1, <2>2, <2>3, <2>4, <3>1 DEF CallOK, Stage, Closing, Taken, Writing
  <2>5. CASE q.stage \in {"version", "commit"}
    <3>1. /\ to = "close" /\ {"handle", "data"} \subseteq DOMAIN q
          /\ q.handle \in Handle /\ q.data \in Data
      BY <2>5 DEF CallOK, Closing, Taken, Writing
    <3> QED
      BY <2>1, <2>2, <2>3, <2>5, <3>1 DEF CallOK, Stage, Closing, Taken, Writing
  <2> QED
    BY <2>4, <2>5
<1> QED
  BY <1>1, <1>2

\* What Deliver leaves of the call in hand
LEMMA Delivered ==
    ASSUME TypeInv, NEW c \in Client, call[c].stage \in {"grant", "version", "commit"},
           call' = [call EXCEPT ![c] = Idle] \/ call' = [call EXCEPT ![c] = Resent(call[c])]
    PROVE  /\ DOMAIN call' = Client
           /\ \A d \in Client : CallOK(call'[d])
           /\ \A d \in Client \ {c} : call'[d] = call[d]
           /\ \/ call'[c] = Idle
              \/ call[c].stage = "grant" /\ call'[c].stage = "read"
              \/ /\ call[c].stage # "grant" /\ call'[c].stage = "close"
                 /\ call'[c].handle = call[c].handle /\ call'[c].data = call[c].data
<1>1. DOMAIN call = Client /\ \A d \in Client : CallOK(call[d])
  BY DEF TypeInv
<1>2. PICK r \in {Idle, Resent(call[c])} : call' = [call EXCEPT ![c] = r]
  OBVIOUS
<1>3. DOMAIN call' = Client /\ call'[c] = r /\ \A d \in Client \ {c} : call'[d] = call[d]
  BY <1>1, <1>2
<1>4. CASE r = Idle
  BY <1>1, <1>3, <1>4, IdleOK
<1>5. CASE r = Resent(call[c])
  BY <1>1, <1>3, <1>5, ResentOK
<1> QED
  BY <1>4, <1>5

\* A step of one client leaves what the others have
Frame(c) ==
    /\ \A d \in Client \ {c} : call'[d] = call[d] /\ cache'[d] = cache[d] /\ active'[d] = active[d]

\* A call whose stage and locals are right keeps the types
LEMMA GoOK ==
    ASSUME TypeInv, NEW c \in Client, NEW r, CallOK(r), Go(c, r)
    PROVE  /\ DOMAIN call' = Client /\ call'[c] = r
           /\ \A d \in Client : CallOK(call'[d])
           /\ \A d \in Client \ {c} : call'[d] = call[d]
BY DEF TypeInv, Go

\* The handlers of the lock leave files and clients alone
LEMMA LockType ==
    ASSUME TypeInv, NEW c \in Client,
           LockFile(c) \/ UnlockFile(c) \/ GetLockNotifications(c)
    PROVE  TypeInv' /\ Frame(c)
<1>1. UNCHANGED <<build, files, handles, nextHandle, call, client, lost>> /\ ops' = ops + 1
  BY DEF LockFile, UnlockFile, GetLockNotifications, Begin
<1> QED
  BY <1>1 DEF TypeInv, Frame, files, client

\* What Create changes, and that it keeps the types
LEMMA CreateType ==
    ASSUME TypeInv, NEW c \in Client,
           CreateCheck(c) \/ CreateMake(c) \/ CreateStamp(c)
    PROVE  TypeInv' /\ Frame(c)
<1>1. /\ CallOK([stage |-> "make"]) /\ CallOK([stage |-> "stamp"])
  BY DEF CallOK, Stage, Closing, Taken, Writing
<1>2. /\ \E r : CallOK(r) /\ Go(c, r)
      /\ UNCHANGED <<nextHandle, client, lost>>
      /\ ops' \in {ops, ops + 1}
      /\ disk' \in {disk, Empty} /\ version' \in {version, 1} /\ overlap' \in BOOLEAN
  BY <1>1, IdleOK DEF CreateCheck, CreateMake, CreateStamp, Begin, Overlap, files, TypeInv
<1> QED
  BY <1>2, GoOK DEF TypeInv, Frame, client, Data

\* open of the stub: the version is asked for first
LEMMA OpenTestType ==
    ASSUME TypeInv, NEW c \in Client, NEW mode \in Mode, OpenTest(c, mode)
    PROVE  TypeInv' /\ Frame(c) /\ call'[c].stage = "read"
<1> DEFINE r == [stage |-> "read", mode |-> mode, again |-> FALSE,
                 fetch |-> cache[c].version = 0 \/ cache[c].version # Version]
<1>1. CallOK(r) /\ r.stage = "read"
  BY DEF CallOK, Stage, Closing, Taken, Writing
<1>2. Go(c, r) /\ UNCHANGED <<files, nextHandle, client, lost>> /\ ops' = ops + 1
  BY DEF OpenTest, Begin
<1> HIDE DEF r
<1> QED
  BY <1>1, <1>2, GoOK DEF TypeInv, Frame, client, files

\* Open: the read of the file, outside the lock
LEMMA OpenReadType ==
    ASSUME TypeInv, NEW c \in Client, OpenRead(c)
    PROVE  /\ TypeInv' /\ Frame(c)
           /\ call[c].stage = "read"
           /\ \/ call'[c] = Idle
              \/ call'[c].stage = "grant" /\ call'[c].data = Contents
<1>1. call[c].stage = "read" /\ CallOK(call[c])
  BY DEF OpenRead, At, TypeInv
<1> DEFINE r == [stage |-> "grant", mode |-> call[c].mode, fetch |-> call[c].fetch,
                 again |-> call[c].again, data |-> Contents]
<1>2. call[c].mode \in Mode /\ Contents \in Data
  BY <1>1 DEF CallOK, TypeInv, Contents, Data
<1>3. CallOK(r) /\ r.stage = "grant" /\ r.data = Contents
  BY <1>2 DEF CallOK, Stage, Closing, Taken, Writing
<1>4. (Go(c, Idle) \/ Go(c, r)) /\ UNCHANGED <<ops, files, nextHandle, client, lost>>
  BY DEF OpenRead
<1> HIDE DEF r
<1>5. TypeInv' /\ Frame(c) /\ call'[c] \in {Idle, r}
  BY <1>3, <1>4, IdleOK, GoOK DEF TypeInv, Frame, client, files
<1> QED
  BY <1>1, <1>3, <1>5

\* What OpenGrant does to the versions and the tables of the client
LEMMA OpenGrantType ==
    ASSUME TypeInv, NEW c \in Client, OpenGrant(c)
    PROVE  /\ TypeInv' /\ Frame(c)
           /\ call[c].stage = "grant" /\ disk' = disk /\ overlap' = overlap
           /\ version' \in {version, IF version = 0 /\ disk # Absent THEN 1 ELSE version}
           /\ call'[c] = Idle \/ call'[c].stage = "read"
           /\ \/ cache'[c] = cache[c]
              \/ /\ cache'[c].version = Version /\ cache'[c].data = call[c].data
                 /\ ~cache'[c].dirty
           /\ \/ active'[c] = active[c] /\ handles' \in {handles, handles \cup {[h |-> nextHandle, mode |-> call[c].mode]}}
                 /\ nextHandle' \in {nextHandle, nextHandle + 1}
              \/ /\ \E path \in Nat : path = cache'[c].version /\ active'[c] = active[c] \cup
                      {[h |-> nextHandle, mode |-> call[c].mode, path |-> path]}
                 /\ handles' = handles \cup {[h |-> nextHandle, mode |-> call[c].mode]}
                 /\ nextHandle' = nextHandle + 1
<1> DEFINE q == call[c]
           seen == IF version = 0 /\ disk # Absent THEN 1 ELSE version
           known == IF seen = 0 THEN 1 ELSE seen
           path == IF q.fetch THEN known ELSE cache[c].version
           new == [NoCache EXCEPT !.version = known, !.data = q.data]
<1>1. call[c].stage = "grant" /\ CallOK(call[c])
  BY DEF OpenGrant, At, TypeInv
<1>2. q.mode \in Mode /\ q.data \in Data
  BY <1>1 DEF CallOK
<1>3. seen \in Nat /\ known = Version /\ known \in Nat /\ path \in Nat
  BY DEF TypeInv, Version, CacheEntry
<1>4. new \in CacheEntry /\ new.version = Version /\ new.data = call[c].data /\ ~new.dirty
  <2> HIDE DEF q, known
  <2>1. new \in [version : {known}, data : {q.data}, dirty : {FALSE}, unsent : {FALSE},
                 renamed : {FALSE}]
    BY DEF NoCache
  <2> QED
    BY <1>2, <1>3, <2>1 DEF CacheEntry, q
<1>5. UNCHANGED <<build, ops, disk, overlap>>
  BY DEF OpenGrant
<1>6. CASE Go(c, Idle) /\ UNCHANGED <<version, handles, nextHandle, cache, active, lost>>
  BY <1>1, <1>5, <1>6, IdleOK, GoOK DEF TypeInv, Frame
<1>7. CASE /\ handles' = handles \cup {[h |-> nextHandle, mode |-> q.mode]}
           /\ nextHandle' = nextHandle + 1
           /\ version' = seen
           /\ Go(c, Resent(call[c])) /\ lost' = lost + 1 /\ UNCHANGED <<active, cache>>
  <2>1. /\ DOMAIN call' = Client /\ \A d \in Client : CallOK(call'[d])
        /\ \A d \in Client \ {c} : call'[d] = call[d]
        /\ call'[c] = Idle \/ call'[c].stage = "read"
    BY <1>1, <1>7, Delivered DEF Go
  <2>2. TypeInv' /\ Frame(c)
    BY <1>3, <1>5, <1>7, <2>1 DEF TypeInv, Frame
  <2> QED
    BY <1>1, <1>5, <1>7, <2>1, <2>2
<1>8. CASE /\ handles' = handles \cup {[h |-> nextHandle, mode |-> q.mode]}
           /\ nextHandle' = nextHandle + 1
           /\ version' = seen
           /\ Go(c, Idle) /\ UNCHANGED lost
           /\ active' = [active EXCEPT ![c] = @ \cup
                           {[h |-> nextHandle, mode |-> q.mode, path |-> path]}]
           /\ cache' = IF ~q.fetch THEN cache ELSE [cache EXCEPT ![c] = new]
  <2>1. /\ DOMAIN call' = Client /\ \A d \in Client : CallOK(call'[d])
        /\ \A d \in Client \ {c} : call'[d] = call[d]
        /\ call'[c] = Idle
    BY <1>8, GoOK, IdleOK
  <2>2. [h |-> nextHandle, mode |-> q.mode, path |-> path] \in Handle
    BY <1>2, <1>3 DEF Handle, TypeInv
  <2>3. /\ active' \in [Client -> SUBSET Handle]
        /\ active'[c] = active[c] \cup {[h |-> nextHandle, mode |-> q.mode, path |-> path]}
        /\ \A d \in Client \ {c} : active'[d] = active[d]
    BY <1>8, <2>2 DEF TypeInv
  <2>4. /\ cache' \in [Client -> CacheEntry]
        /\ cache'[c] \in {cache[c], new}
        /\ \A d \in Client \ {c} : cache'[d] = cache[d]
    BY <1>4, <1>8 DEF TypeInv
  <2>6. path = cache'[c].version
    <3>1. cache'[c] = IF q.fetch THEN new ELSE cache[c]
      BY <1>4, <1>8 DEF TypeInv
    <3> HIDE DEF new
    <3> QED
      BY <1>3, <1>4, <3>1
  <2>5. TypeInv' /\ Frame(c)
    BY <1>3, <1>5, <1>8, <2>1, <2>3, <2>4 DEF TypeInv, Frame
  <2> QED
    BY <1>1, <1>3, <1>4, <1>5, <1>8, <2>1, <2>3, <2>4, <2>5, <2>6
<1>9. \/ Go(c, Idle) /\ UNCHANGED <<version, handles, nextHandle, cache, active, lost>>
      \/ /\ handles' = handles \cup {[h |-> nextHandle, mode |-> q.mode]}
         /\ nextHandle' = nextHandle + 1
         /\ version' = seen
         /\ \/ /\ Go(c, Idle) /\ UNCHANGED lost
               /\ active' = [active EXCEPT ![c] = @ \cup
                               {[h |-> nextHandle, mode |-> q.mode, path |-> path]}]
               /\ cache' = IF ~q.fetch THEN cache ELSE [cache EXCEPT ![c] = new]
            \/ Go(c, Resent(call[c])) /\ lost' = lost + 1 /\ UNCHANGED <<active, cache>>
  BY Zenon DEF OpenGrant, Deliver
<1> HIDE DEF q, seen, known, path, new
<1> QED
  BY <1>6, <1>7, <1>8, <1>9

\* A write into the client's copy
LEMMA WriteLocalType ==
    ASSUME TypeInv, NEW c \in Client, NEW a \in active[c], WriteLocal(c, a)
    PROVE  /\ TypeInv' /\ Frame(c) /\ call[c] = Idle
           /\ UNCHANGED <<files, handles, nextHandle, call, active, lost>>
           /\ cache'[c].version = cache[c].version
           /\ cache'[c].dirty = (cache[c].dirty \/ a.mode = "w")
           /\ cache'[c].unsent = (cache[c].unsent \/ a.mode = "r")
           /\ cache'[c].renamed = cache[c].renamed
<1> DEFINE old == cache[c]
           e == [old EXCEPT !.data = ops', !.dirty = @ \/ a.mode = "w",
                            !.unsent = @ \/ a.mode = "r"]
<1>1. /\ UNCHANGED <<files, handles, nextHandle, call, active, lost>>
      /\ ops' = ops + 1 /\ call[c] = Idle
  BY DEF WriteLocal, Begin
<1>2. ops' \in Data /\ old \in CacheEntry
  BY <1>1 DEF TypeInv, Data
<1>3. cache' = [cache EXCEPT ![c] = e]
  BY Zenon DEF WriteLocal
<1>4. e \in CacheEntry /\ e.version = old.version
  BY <1>2 DEF CacheEntry
<1>5. /\ e.dirty = (old.dirty \/ a.mode = "w") /\ e.unsent = (old.unsent \/ a.mode = "r")
      /\ e.renamed = old.renamed
  BY <1>2 DEF CacheEntry
<1> HIDE DEF e
<1>6. /\ cache' \in [Client -> CacheEntry] /\ cache'[c] = e
      /\ \A d \in Client \ {c} : cache'[d] = cache[d]
  BY <1>3, <1>4 DEF TypeInv
<1> QED
  BY <1>1, <1>2, <1>4, <1>5, <1>6 DEF TypeInv, Frame, files

\* close of the stub sends the handle and the cached data
LEMMA CloseSendType ==
    ASSUME TypeInv, NEW c \in Client, NEW a \in active[c], CloseSend(c, a)
    PROVE  /\ TypeInv' /\ Frame(c) /\ call[c] = Idle
           /\ call'[c].stage = "close" /\ call'[c].handle = a /\ call'[c].data = cache[c].data
           /\ active'[c] \in {active[c], active[c] \ {a}}
           /\ UNCHANGED <<files, handles, nextHandle, cache, lost>>
<1> DEFINE r == [stage |-> "close", handle |-> a, again |-> FALSE, data |-> cache[c].data]
<1>1. a \in Handle /\ cache[c].data \in Data
  BY DEF TypeInv, CacheEntry
<1>2. CallOK(r) /\ r.stage = "close" /\ r.handle = a /\ r.data = cache[c].data
  BY <1>1 DEF CallOK, Stage, Closing, Taken, Writing
<1>3. /\ Go(c, r) /\ UNCHANGED <<files, handles, nextHandle, cache, lost>>
      /\ ops' = ops + 1 /\ call[c] = Idle
      /\ active' = [active EXCEPT ![c] = @ \ {a}] \/ active' = active
  BY DEF CloseSend, Begin
<1> HIDE DEF r
<1>4. /\ active' \in [Client -> SUBSET Handle] /\ active'[c] \in {active[c], active[c] \ {a}}
      /\ \A d \in Client \ {c} : active'[d] = active[d]
  BY <1>3 DEF TypeInv
<1>5. /\ DOMAIN call' = Client /\ \A d \in Client : CallOK(call'[d])
      /\ \A d \in Client \ {c} : call'[d] = call[d]
      /\ call'[c] = r
  BY <1>2, <1>3, GoOK
<1>6. TypeInv' /\ Frame(c)
  BY <1>3, <1>4, <1>5 DEF TypeInv, Frame, files
<1> QED
  BY <1>2, <1>3, <1>4, <1>5, <1>6

\* Close: the handle is taken off the table
LEMMA CloseTakeType ==
    ASSUME TypeInv, NEW c \in Client, CloseTake(c)
    PROVE  /\ TypeInv' /\ Frame(c) /\ call[c].stage = "close"
           /\ UNCHANGED <<files, nextHandle, client, lost>>
           /\ LET hm == [h |-> call[c].handle.h, mode |-> call[c].handle.mode] IN
              \/ hm \notin handles /\ handles' = handles /\ call'[c] = Idle
              \/ handles' = handles /\ call'[c] = Idle
              \/ /\ handles' = handles \ {hm} /\ call'[c].stage = "version"
                 /\ call'[c].handle = call[c].handle /\ call'[c].data = call[c].data
<1> DEFINE q == call[c]
           hm == [h |-> q.handle.h, mode |-> q.handle.mode]
           r == [q EXCEPT !.stage = "version"]
<1>1. call[c].stage = "close" /\ CallOK(call[c])
  BY DEF CloseTake, At, TypeInv
<1>2. {"handle", "again", "data"} \subseteq DOMAIN q /\ q.handle \in Handle /\ q.data \in Data
  BY <1>1 DEF CallOK, Closing
<1>3. DOMAIN r = DOMAIN q /\ r.stage = "version" /\ r.handle = q.handle /\ r.data = q.data
  <2>1. "version" \in Stage
    BY DEF Stage, Closing, Taken
  <2> QED
    BY <1>1, <1>2, <2>1, StageSet
<1>4. CallOK(r)
  BY <1>1, <1>2, <1>3 DEF CallOK, Stage, Closing, Taken, Writing
<1>5. /\ UNCHANGED <<ops, files, nextHandle, client, lost>>
      /\ \/ hm \notin handles /\ handles' = handles /\ Go(c, Idle)
         \/ handles' = handles /\ Go(c, Idle)
         \/ handles' = handles \ {hm} /\ Go(c, r)
  BY DEF CloseTake, Remaining
<1> HIDE DEF r
<1>6. /\ DOMAIN call' = Client /\ \A d \in Client : CallOK(call'[d])
      /\ \A d \in Client \ {c} : call'[d] = call[d]
      /\ \/ hm \notin handles /\ handles' = handles /\ call'[c] = Idle
         \/ handles' = handles /\ call'[c] = Idle
         \/ handles' = handles \ {hm} /\ call'[c] = r
  BY <1>4, <1>5, IdleOK, GoOK
<1>7. TypeInv' /\ Frame(c)
  BY <1>5, <1>6 DEF TypeInv, Frame, files, client
<1> QED
  BY <1>1, <1>3, <1>5, <1>6, <1>7

\* The copy of a client whose close was answered with a version
LEMMA RenamedType ==
    ASSUME TypeInv, NEW c \in Client, NEW new \in Nat, cache' = Renamed(c, new)
    PROVE  /\ cache' \in [Client -> CacheEntry]
           /\ \A d \in Client \ {c} : cache'[d] = cache[d]
           /\ cache'[c].version = new /\ cache'[c].data = cache[c].data
           /\ cache'[c].dirty = (cache[c].dirty /\ call[c].handle.mode = "r")
           /\ cache'[c].unsent = (cache[c].unsent /\ call[c].handle.mode = "r")
           /\ cache'[c].renamed = ((cache[c].renamed \/ new # cache[c].version)
                                     /\ call[c].handle.mode = "r")
<1> DEFINE read == call[c].handle.mode = "r"
           old == cache[c]
           e == [version |-> new, data |-> old.data, dirty |-> old.dirty /\ read,
                 unsent |-> old.unsent /\ read,
                 renamed |-> (old.renamed \/ new # old.version) /\ read]
<1>1. cache' = [cache EXCEPT ![c] = e]
  BY Zenon DEF Renamed
<1>2. old \in CacheEntry
  BY DEF TypeInv
<1>3. e \in CacheEntry
  BY <1>2 DEF CacheEntry
<1>4. /\ e.version = new /\ e.data = old.data
      /\ e.dirty = (old.dirty /\ read) /\ e.unsent = (old.unsent /\ read)
      /\ e.renamed = ((old.renamed \/ new # old.version) /\ read)
  OBVIOUS
<1> HIDE DEF e
<1>5. /\ cache' \in [Client -> CacheEntry] /\ cache'[c] = e
      /\ \A d \in Client \ {c} : cache'[d] = cache[d]
  BY <1>1, <1>3 DEF TypeInv
<1> QED
  BY <1>4, <1>5

\* Close: the current version is read; a read close ends
LEMMA CloseVersionType ==
    ASSUME TypeInv, NEW c \in Client, CloseVersion(c)
    PROVE  /\ TypeInv' /\ Frame(c) /\ call[c].stage = "version"
           /\ UNCHANGED <<files, handles, nextHandle>>
           /\ \/ /\ call'[c].stage = "truncate" /\ call'[c].handle = call[c].handle
                 /\ call'[c].data = call[c].data /\ call'[c].current = Version
                 /\ UNCHANGED <<cache, active, lost>>
              \/ /\ call'[c] = Idle /\ UNCHANGED lost
                 /\ active'[c] = active[c] \ {call[c].handle}
                 /\ cache' = cache \/ (call[c].handle.mode = "r" /\ cache' = Renamed(c, Version))
              \/ /\ lost' = lost + 1 /\ UNCHANGED <<cache, active>>
                 /\ \/ call'[c] = Idle
                    \/ /\ call'[c].stage = "close" /\ call'[c].handle = call[c].handle
                       /\ call'[c].data = call[c].data
<1> DEFINE q == call[c]
           r == [stage |-> "truncate", handle |-> q.handle, data |-> q.data,
                 again |-> q.again, current |-> Version]
<1>1. call[c].stage = "version" /\ CallOK(call[c])
  BY DEF CloseVersion, At, TypeInv
<1>2. q.handle \in Handle /\ q.data \in Data
  BY <1>1 DEF CallOK, Closing, Taken
<1>3. Version \in Nat
  BY DEF Version, TypeInv
<1>4. UNCHANGED <<ops, files, handles, nextHandle>>
  BY DEF CloseVersion
<1>5. CASE q.handle.mode = "w" /\ Go(c, r) /\ UNCHANGED <<cache, active, lost>>
  <2>1. CallOK(r)
    BY <1>2, <1>3, <1>5 DEF CallOK, Stage, Closing, Taken, Writing
  <2>2. /\ r.stage = "truncate" /\ r.handle = q.handle /\ r.data = q.data /\ r.current = Version
    OBVIOUS
  <2> HIDE DEF r
  <2>3. /\ DOMAIN call' = Client /\ \A d \in Client : CallOK(call'[d])
        /\ \A d \in Client \ {c} : call'[d] = call[d]
        /\ call'[c] = r
    BY <1>5, <2>1, GoOK
  <2>4. TypeInv' /\ Frame(c)
    BY <1>4, <1>5, <2>3 DEF TypeInv, Frame, files
  <2> QED
    BY <1>1, <1>4, <1>5, <2>2, <2>3, <2>4
<1>6. CASE /\ Go(c, Idle) /\ UNCHANGED lost
           /\ active' = [active EXCEPT ![c] = @ \ {q.handle}]
           /\ cache' = cache \/ (q.handle.mode = "r" /\ cache' = Renamed(c, Version))
  <2>1. /\ DOMAIN call' = Client /\ \A d \in Client : CallOK(call'[d])
        /\ \A d \in Client \ {c} : call'[d] = call[d]
        /\ call'[c] = Idle
    BY <1>6, GoOK, IdleOK
  <2>2. /\ active' \in [Client -> SUBSET Handle] /\ active'[c] = active[c] \ {q.handle}
        /\ \A d \in Client \ {c} : active'[d] = active[d]
    BY <1>6 DEF TypeInv
  <2>3. cache' \in [Client -> CacheEntry] /\ \A d \in Client \ {c} : cache'[d] = cache[d]
    <3>1. CASE cache' = cache
      BY <3>1 DEF TypeInv
    <3>2. CASE cache' = Renamed(c, Version)
      BY <3>2, <1>3, RenamedType
    <3> QED
      BY <1>6, <3>1, <3>2
  <2>4. TypeInv' /\ Frame(c)
    BY <1>4, <1>6, <2>1, <2>2, <2>3 DEF TypeInv, Frame, files
  <2> QED
    BY <1>1, <1>4, <1>6, <2>1, <2>2, <2>4
<1>7. CASE Go(c, Resent(call[c])) /\ lost' = lost + 1 /\ UNCHANGED <<active, cache>>
  <2>1. /\ DOMAIN call' = Client /\ \A d \in Client : CallOK(call'[d])
        /\ \A d \in Client \ {c} : call'[d] = call[d]
        /\ \/ call'[c] = Idle
           \/ /\ call'[c].stage = "close" /\ call'[c].handle = call[c].handle
              /\ call'[c].data = call[c].data
    BY <1>1, <1>7, Delivered DEF Go
  <2>2. TypeInv' /\ Frame(c)
    BY <1>4, <1>7, <2>1 DEF TypeInv, Frame, files
  <2> QED
    BY <1>1, <1>4, <1>7, <2>1, <2>2
<1>8. \/ q.handle.mode = "w" /\ Go(c, r) /\ UNCHANGED <<cache, active, lost>>
      \/ /\ q.handle.mode # "w"
         /\ \/ /\ Go(c, Idle) /\ UNCHANGED lost
               /\ active' = [active EXCEPT ![c] = @ \ {q.handle}]
               /\ cache' = IF build = "socket" THEN Renamed(c, Version) ELSE cache
            \/ Go(c, Resent(call[c])) /\ lost' = lost + 1 /\ UNCHANGED <<active, cache>>
  BY Zenon DEF CloseVersion, Deliver
<1>9. q.handle.mode # "w" => q.handle.mode = "r"
  BY <1>2 DEF Handle, Mode
<1> HIDE DEF q, r
<1> QED
  BY <1>5, <1>6, <1>7, <1>8, <1>9

\* Close: the file is emptied and written, while others run
LEMMA CloseDiskType ==
    ASSUME TypeInv, NEW c \in Client, CloseTruncate(c) \/ CloseWrite(c)
    PROVE  /\ TypeInv' /\ Frame(c)
           /\ UNCHANGED <<version, handles, nextHandle, client, lost>>
           /\ Overlap(c)
           /\ call'[c].handle = call[c].handle
           /\ call'[c].data = call[c].data /\ call'[c].current = call[c].current
           /\ \/ call[c].stage = "truncate" /\ call'[c].stage = "write" /\ disk' = Empty
              \/ call[c].stage = "write" /\ call'[c].stage = "commit" /\ disk' = call[c].data
<1> DEFINE q == call[c]
<1>1. /\ UNCHANGED <<ops, version, handles, nextHandle, client, lost>> /\ Overlap(c)
      /\ overlap' \in BOOLEAN
      /\ CallOK(q) /\ q.stage \in Writing
  BY DEF CloseTruncate, CloseWrite, At, TypeInv, Overlap, Writing
<1>2. PICK s \in {"write", "commit"} : Go(c, [q EXCEPT !.stage = s]) /\
          (\/ q.stage = "truncate" /\ s = "write" /\ disk' = Empty
           \/ q.stage = "write" /\ s = "commit" /\ disk' = q.data)
  BY DEF CloseTruncate, CloseWrite, At
<1> DEFINE r == [q EXCEPT !.stage = s]
<1>3. /\ {"handle", "again", "data", "current"} \subseteq DOMAIN q /\ q.handle \in Handle
      /\ q.data \in Data /\ q.current \in Nat /\ q.handle.mode = "w"
  BY <1>1 DEF CallOK, Closing, Taken
<1>4. /\ DOMAIN r = DOMAIN q /\ r.stage = s /\ r.handle = q.handle /\ r.data = q.data
      /\ r.current = q.current
  <2>1. s \in Stage
    BY DEF Stage, Closing, Taken, Writing
  <2> QED
    BY <1>1, <1>3, <2>1, StageSet
<1>5. CallOK(r)
  BY <1>1, <1>3, <1>4 DEF CallOK, Stage, Closing, Taken, Writing
<1> HIDE DEF r
<1>6. /\ DOMAIN call' = Client /\ \A d \in Client : CallOK(call'[d])
      /\ \A d \in Client \ {c} : call'[d] = call[d]
      /\ call'[c] = r
  BY <1>2, <1>5, GoOK DEF r
<1>7. disk' \in Data \cup {Absent}
  BY <1>2, <1>3 DEF Data
<1>8. TypeInv' /\ Frame(c)
  BY <1>1, <1>6, <1>7 DEF TypeInv, Frame, client
<1> QED
  BY <1>1, <1>2, <1>4, <1>6, <1>8

\* Close: the new version, and the answer
LEMMA CloseCommitType ==
    ASSUME TypeInv, NEW c \in Client, CloseCommit(c)
    PROVE  /\ TypeInv' /\ Frame(c) /\ call[c].stage = "commit"
           /\ UNCHANGED <<disk, handles, nextHandle>>
           /\ version' = call[c].current + 1 /\ Overlap(c)
           /\ \/ /\ call'[c] = Idle /\ UNCHANGED lost
                 /\ active'[c] = active[c] \ {call[c].handle}
                 /\ cache' = Renamed(c, call[c].current + 1)
              \/ /\ lost' = lost + 1 /\ UNCHANGED <<cache, active>>
                 /\ \/ call'[c] = Idle
                    \/ /\ call'[c].stage = "close" /\ call'[c].handle = call[c].handle
                       /\ call'[c].data = call[c].data
<1> DEFINE q == call[c]
<1>1. call[c].stage = "commit" /\ CallOK(call[c])
  BY DEF CloseCommit, At, TypeInv
<1>2. q.handle \in Handle /\ q.data \in Data /\ q.current \in Nat
  BY <1>1 DEF CallOK, Closing, Taken, Writing
<1>3. /\ UNCHANGED <<ops, disk, handles, nextHandle>> /\ version' = q.current + 1 /\ Overlap(c)
      /\ overlap' \in BOOLEAN
  BY DEF CloseCommit, NewVersion, Overlap, TypeInv
<1>4. CASE /\ Go(c, Idle) /\ UNCHANGED lost
           /\ active' = [active EXCEPT ![c] = @ \ {q.handle}]
           /\ cache' = Renamed(c, q.current + 1)
  <2>1. /\ DOMAIN call' = Client /\ \A d \in Client : CallOK(call'[d])
        /\ \A d \in Client \ {c} : call'[d] = call[d]
        /\ call'[c] = Idle
    BY <1>4, GoOK, IdleOK
  <2>2. /\ active' \in [Client -> SUBSET Handle] /\ active'[c] = active[c] \ {q.handle}
        /\ \A d \in Client \ {c} : active'[d] = active[d]
    BY <1>4 DEF TypeInv
  <2>3. cache' \in [Client -> CacheEntry] /\ \A d \in Client \ {c} : cache'[d] = cache[d]
    <3>1. q.current + 1 \in Nat
      BY <1>2
    <3> QED
      BY <1>4, <3>1, RenamedType
  <2>4. TypeInv' /\ Frame(c)
    BY <1>2, <1>3, <1>4, <2>1, <2>2, <2>3 DEF TypeInv, Frame
  <2> QED
    BY <1>1, <1>3, <1>4, <2>1, <2>2, <2>4
<1>5. CASE Go(c, Resent(call[c])) /\ lost' = lost + 1 /\ UNCHANGED <<active, cache>>
  <2>1. /\ DOMAIN call' = Client /\ \A d \in Client : CallOK(call'[d])
        /\ \A d \in Client \ {c} : call'[d] = call[d]
        /\ \/ call'[c] = Idle
           \/ /\ call'[c].stage = "close" /\ call'[c].handle = call[c].handle
              /\ call'[c].data = call[c].data
    BY <1>1, <1>5, Delivered DEF Go
  <2>2. TypeInv' /\ Frame(c)
    BY <1>2, <1>3, <1>5, <2>1 DEF TypeInv, Frame
  <2> QED
    BY <1>1, <1>3, <1>5, <2>1, <2>2
<1>6. \/ /\ Go(c, Idle) /\ UNCHANGED lost
         /\ active' = [active EXCEPT ![c] = @ \ {q.handle}]
         /\ cache' = Renamed(c, q.current + 1)
      \/ Go(c, Resent(call[c])) /\ lost' = lost + 1 /\ UNCHANGED <<active, cache>>
  BY Zenon DEF CloseCommit, Deliver, NewVersion
<1> QED
  BY <1>4, <1>5, <1>6

\* Time and timers touch nothing of the files and the clients
LEMMA TimeFrame ==
    Tick \/ (\E t \in timers : Fire(t) \/ AutoRelease(t)) =>
        UNCHANGED <<files, handles, nextHandle, call, client, ops, lost>>
BY DEF Tick, Fire, AutoRelease

\* The types hold at the start
LEMMA TypeInit == Init => TypeInv
<1> SUFFICES ASSUME Init PROVE TypeInv
  OBVIOUS
<1>1. NoCache \in CacheEntry
  BY DEF NoCache, CacheEntry, Data
<1>2. cache \in [Client -> CacheEntry]
  BY <1>1 DEF Init
<1>3. active \in [Client -> SUBSET Handle]
  BY DEF Init
<1>4. DOMAIN call = Client /\ \A c \in Client : CallOK(call[c])
  BY IdleOK DEF Init
<1>5. disk \in Data \cup {Absent}
  BY DEF Init, Data
<1> QED
  BY <1>2, <1>3, <1>4, <1>5 DEF Init, TypeInv

\* ... and every step keeps them
LEMMA TypeStep == TypeInv /\ [Next]_vars => TypeInv'
<1> SUFFICES ASSUME TypeInv, [Next]_vars PROVE TypeInv'
  OBVIOUS
<1>1. CASE UNCHANGED vars
  BY <1>1 DEF TypeInv, vars, files, client
<1>2. ASSUME NEW c \in Client, ClientStep(c) PROVE TypeInv'
  BY <1>2, LockType, CreateType, OpenTestType, OpenReadType, OpenGrantType, WriteLocalType,
     CloseSendType, CloseTakeType, CloseVersionType, CloseDiskType, CloseCommitType
     DEF ClientStep, Mode
<1>3. CASE Tick \/ \E t \in timers : Fire(t) \/ AutoRelease(t)
  BY <1>3, TimeFrame DEF TypeInv, files, client
<1> QED
  BY <1>1, <1>2, <1>3 DEF Next

-----------------------------------------------------------------------------
(* Handles                                                                 *)

\* The handles a client knows of: in active_handles or in a close it sent
Mine(c) == active[c] \cup (IF call[c].stage \in Closing THEN {call[c].handle} ELSE {})

\* Handles are numbered once, whatever is lost and sent again
HandlesDiffer ==
    /\ \A c \in Client : \A a \in Mine(c) : a.h < nextHandle
    /\ \A c, d \in Client : \A a \in Mine(c) : \A b \in Mine(d) : a.h = b.h => c = d /\ a = b

IsOpen(a) == [h |-> a.h, mode |-> a.mode] \in handles

\* A handle is off the table only while the close that took it goes on
HandlesKept ==
    lost = 0 =>
        \A c \in Client : \A a \in active[c] :
            IsOpen(a) \/ (call[c].stage \in Taken /\ call[c].handle = a)

HandleInv == HandlesDiffer /\ HandlesKept

\* A client that only forgets handles keeps them different
LEMMA Forgetting ==
    ASSUME HandlesDiffer, nextHandle' = nextHandle,
           \A d \in Client : Mine(d)' \subseteq Mine(d)
    PROVE  HandlesDiffer'
<1> DEFINE M(d) == Mine(d)
<1>1. \A d \in Client : M(d)' \subseteq M(d)
  OBVIOUS
<1>2. /\ \A d \in Client : \A a \in M(d)' : a.h < nextHandle'
      /\ \A c, d \in Client : \A a \in M(c)' : \A b \in M(d)' : a.h = b.h => c = d /\ a = b
  <2> HIDE DEF M
  <2>1. /\ \A c \in Client : \A a \in M(c) : a.h < nextHandle
        /\ \A c, d \in Client : \A a \in M(c) : \A b \in M(d) : a.h = b.h => c = d /\ a = b
    BY DEF HandlesDiffer, M
  <2> QED
    BY <1>1, <2>1
<1> QED
  BY <1>2 DEF HandlesDiffer

\* The other clients' handles stay where they are
LEMMA FrameMine ==
    ASSUME NEW c \in Client, Frame(c)
    PROVE  \A d \in Client \ {c} : Mine(d)' = Mine(d)
BY DEF Frame, Mine

\* Nobody has a handle at the start
LEMMA HandleInit == Init => HandleInv
BY IdleOK DEF Init, HandleInv, HandlesDiffer, HandlesKept, Mine, Closing, Taken, Writing

\* OpenGrant adds the one number that was not given out
LEMMA OpenGrantHandle ==
    ASSUME TypeInv, HandleInv, NEW c \in Client, OpenGrant(c)
    PROVE  HandleInv'
<1> DEFINE m == call[c].mode
<1>1. /\ TypeInv' /\ Frame(c) /\ call[c].stage = "grant"
      /\ call'[c] = Idle \/ call'[c].stage = "read"
      /\ \/ active'[c] = active[c] /\ handles' \in {handles, handles \cup {[h |-> nextHandle, mode |-> m]}}
            /\ nextHandle' \in {nextHandle, nextHandle + 1}
         \/ /\ \E path \in Nat : active'[c] = active[c] \cup {[h |-> nextHandle, mode |-> m, path |-> path]}
            /\ handles' = handles \cup {[h |-> nextHandle, mode |-> m]}
            /\ nextHandle' = nextHandle + 1
  BY OpenGrantType
<1> DEFINE new == active'[c] \ active[c]
<1>2. /\ active[c] \subseteq active'[c]
      /\ \A a \in new : /\ a.h = nextHandle /\ nextHandle' = nextHandle + 1
                        /\ [h |-> a.h, mode |-> a.mode] \in handles'
      /\ \A a, b \in new : a = b
  <2>1. CASE active'[c] = active[c]
    BY <2>1
  <2>2. ASSUME NEW path \in Nat,
               active'[c] = active[c] \cup {[h |-> nextHandle, mode |-> m, path |-> path]},
               handles' = handles \cup {[h |-> nextHandle, mode |-> m]},
               nextHandle' = nextHandle + 1
        PROVE  /\ active[c] \subseteq active'[c]
               /\ \A a \in new : /\ a.h = nextHandle
                                 /\ [h |-> a.h, mode |-> a.mode] \in handles'
               /\ \A a, b \in new : a = b
    <3>1. \A a \in new : a = [h |-> nextHandle, mode |-> m, path |-> path]
      BY <2>2
    <3>2. \A a \in new : a.h = nextHandle /\ a.mode = m
      BY <3>1
    <3> QED
      BY <2>2, <3>1, <3>2
  <2> QED
    BY <1>1, <2>1, <2>2
<1>3. /\ handles \subseteq handles' /\ nextHandle \in Nat /\ nextHandle' \in Nat
      /\ nextHandle' >= nextHandle
  BY <1>1 DEF TypeInv
<1>4. Mine(c)' = Mine(c) \cup new /\ Mine(c) = active[c]
  BY <1>1, <1>2, IdleOK DEF Mine, Closing, Taken, Writing
<1> HIDE DEF new
<1>5. \A d \in Client \ {c} : Mine(d)' = Mine(d)
  BY <1>1, FrameMine
<1>12. \A a \in new : a.h = nextHandle
  BY <1>2
<1>13. \A a \in new : IsOpen(a)'
  BY <1>2 DEF IsOpen
<1>6. \A d \in Client : \A a \in Mine(d) : a.h \in Nat
  BY DEF TypeInv, Mine, CallOK, Handle
<1>7. \A d \in Client : \A a \in Mine(d) : a.h < nextHandle
  BY DEF HandleInv, HandlesDiffer
<1>8. \A d \in Client : \A a \in Mine(d)' : a.h < nextHandle'
  <2> TAKE d \in Client
  <2> TAKE a \in Mine(d)'
  <2>1. a \in Mine(d) \/ a \in new
    BY <1>4, <1>5
  <2>2. CASE a \in Mine(d)
    BY <1>3, <1>6, <1>7, <2>2
  <2>3. CASE a \in new
    <3>1. a.h = nextHandle /\ nextHandle' = nextHandle + 1
      BY <1>2, <2>3
    <3> QED
      BY <1>3, <3>1
  <2> QED
    BY <2>1, <2>2, <2>3
<1>9. \A d, e \in Client : \A a \in Mine(d)' : \A b \in Mine(e)' : a.h = b.h => d = e /\ a = b
  <2> TAKE d, e \in Client
  <2> TAKE a \in Mine(d)'
  <2> TAKE b \in Mine(e)'
  <2> HAVE a.h = b.h
  <2>1. (a \in Mine(d) \/ (d = c /\ a \in new)) /\ (b \in Mine(e) \/ (e = c /\ b \in new))
    BY <1>4, <1>5
  <2>2. CASE a \in Mine(d) /\ b \in Mine(e)
    BY <2>2 DEF HandleInv, HandlesDiffer
  <2>3. CASE a \in Mine(d) /\ b \in new
    BY <1>3, <1>6, <1>7, <1>12, <2>3
  <2>4. CASE a \in new /\ b \in Mine(e)
    BY <1>3, <1>6, <1>7, <1>12, <2>4
  <2>5. CASE d = c /\ a \in new /\ e = c /\ b \in new
    BY <1>2, <2>5
  <2> QED
    BY <2>1, <2>2, <2>3, <2>4, <2>5
<1>10. HandlesDiffer'
  BY <1>8, <1>9 DEF HandlesDiffer
<1>11. HandlesKept'
  <2> SUFFICES ASSUME lost' = 0, NEW d \in Client, NEW a \in active'[d]
               PROVE  IsOpen(a)' \/ (call'[d].stage \in Taken /\ call'[d].handle = a)
    BY DEF HandlesKept, IsOpen
  <2>1. lost = 0
    BY DEF OpenGrant, Deliver, TypeInv
  <2>2. CASE d = c
    <3>1. a \in active[c] => IsOpen(a)
      BY <1>1, <2>1 DEF HandleInv, HandlesKept, Taken, Writing
    <3>2. a \in active[c] \/ a \in new
      BY <2>2 DEF new
    <3>3. CASE a \in active[c]
      BY <1>3, <3>1, <3>3 DEF IsOpen
    <3>4. CASE a \in new
      BY <1>13, <3>4
    <3> QED
      BY <3>2, <3>3, <3>4
  <2>3. CASE d # c
    <3>1. a \in active[d] /\ call'[d] = call[d]
      BY <1>1, <2>3 DEF Frame
    <3> QED
      BY <1>3, <2>1, <3>1 DEF HandleInv, HandlesKept, IsOpen
  <2> QED
    BY <2>2, <2>3
<1> QED
  BY <1>10, <1>11 DEF HandleInv

\* Every other step of a client only forgets handles
LEMMA ForgetHandle ==
    ASSUME TypeInv, HandleInv, NEW c \in Client, Frame(c), nextHandle' = nextHandle,
           lost' = 0 => lost = 0,
           Mine(c)' \subseteq Mine(c),
           \A d \in Client \ {c} : \A b \in active[d] : IsOpen(b) => IsOpen(b)',
           lost' = 0 => \A a \in active'[c] :
               IsOpen(a)' \/ (call'[c].stage \in Taken /\ call'[c].handle = a)
    PROVE  HandleInv'
<1>1. \A d \in Client : Mine(d)' \subseteq Mine(d)
  BY FrameMine
<1>2. HandlesDiffer'
  BY <1>1, Forgetting DEF HandleInv
<1>3. HandlesKept'
  <2> SUFFICES ASSUME lost' = 0, NEW d \in Client, NEW a \in active'[d]
               PROVE  IsOpen(a)' \/ (call'[d].stage \in Taken /\ call'[d].handle = a)
    BY DEF HandlesKept, IsOpen
  <2>1. CASE d = c
    BY <2>1
  <2>2. CASE d # c
    <3>1. a \in active[d] /\ call'[d] = call[d]
      BY <2>2 DEF Frame
    <3> QED
      BY <2>2, <3>1 DEF HandleInv, HandlesKept, IsOpen
  <2> QED
    BY <2>1, <2>2
<1> QED
  BY <1>2, <1>3 DEF HandleInv

\* A client whose handles and their entries in the table stay keeps them; it
\* may begin a call, as long as a close it goes on with keeps its handle
LEMMA QuietHandle ==
    ASSUME TypeInv, HandleInv, NEW c \in Client, Frame(c),
           UNCHANGED <<handles, nextHandle, lost>>, active'[c] = active[c],
           \/ call'[c] = call[c]
           \/ call[c].stage \notin Closing /\ call'[c].stage \notin Closing
           \/ /\ call[c].stage \in Taken /\ call'[c].stage \in Taken
              /\ call'[c].handle = call[c].handle
    PROVE  HandleInv'
<1>1. Mine(c)' \subseteq Mine(c)
  BY DEF Mine, Closing
<1>2. \A d \in Client : \A b \in active[d] : IsOpen(b) => IsOpen(b)'
  BY DEF IsOpen
<1>3. lost' = 0 => \A a \in active'[c] :
          IsOpen(a)' \/ (call'[c].stage \in Taken /\ call'[c].handle = a)
  <2> SUFFICES ASSUME lost' = 0, NEW a \in active'[c]
               PROVE  IsOpen(a)' \/ (call'[c].stage \in Taken /\ call'[c].handle = a)
    OBVIOUS
  <2>1. IsOpen(a) \/ (call[c].stage \in Taken /\ call[c].handle = a)
    BY DEF HandleInv, HandlesKept, IsOpen
  <2> QED
    BY <1>2, <2>1 DEF Closing
<1> QED
  BY <1>1, <1>2, <1>3, ForgetHandle

\* A close is sent for a handle its client has
LEMMA CloseSendHandle ==
    ASSUME TypeInv, HandleInv, NEW c \in Client, NEW a \in active[c], CloseSend(c, a)
    PROVE  HandleInv'
<1>1. /\ Frame(c) /\ call[c] = Idle
      /\ call'[c].stage = "close" /\ call'[c].handle = a
      /\ active'[c] \subseteq active[c]
      /\ UNCHANGED <<handles, nextHandle, lost>>
  BY CloseSendType
<1>2. Mine(c)' \subseteq Mine(c)
  BY <1>1 DEF Mine
<1>3. \A d \in Client : \A b \in active[d] : IsOpen(b) => IsOpen(b)'
  BY <1>1 DEF IsOpen
<1>4. lost' = 0 => \A b \in active'[c] : IsOpen(b)'
  BY <1>1, <1>3, IdleOK DEF HandleInv, HandlesKept, IsOpen, Taken, Writing
<1> QED
  BY <1>1, <1>2, <1>3, <1>4, ForgetHandle

\* Close takes off the table the handle of this client and of no other
LEMMA CloseTakeHandle ==
    ASSUME TypeInv, HandleInv, NEW c \in Client, CloseTake(c)
    PROVE  HandleInv'
<1> DEFINE own == call[c].handle
           hm == [h |-> own.h, mode |-> own.mode]
<1>1. /\ TypeInv' /\ Frame(c) /\ call[c].stage = "close"
      /\ UNCHANGED <<files, nextHandle, client, lost>>
      /\ LET hm1 == [h |-> call[c].handle.h, mode |-> call[c].handle.mode] IN
              \/ hm1 \notin handles /\ handles' = handles /\ call'[c] = Idle
              \/ handles' = handles /\ call'[c] = Idle
              \/ /\ handles' = handles \ {hm1} /\ call'[c].stage = "version"
                 /\ call'[c].handle = call[c].handle /\ call'[c].data = call[c].data
  BY CloseTakeType
<1>2. active' = active
  BY <1>1 DEF client
<1>3. Mine(c) = active[c] \cup {own}
  BY <1>1 DEF Mine, Closing
<1>4. Mine(c)' \subseteq Mine(c)
  <2>1. call'[c].stage \in Closing => call'[c].handle = own
    BY <1>1, IdleOK DEF Closing, Taken, Writing
  <2> QED
    BY <1>2, <1>3, <2>1 DEF Mine
<1>5. \A d \in Client : \A b \in active[d] : IsOpen(b) /\ ~(d = c /\ b = own) => IsOpen(b)'
  <2> SUFFICES ASSUME NEW d \in Client, NEW b \in active[d], IsOpen(b), ~(d = c /\ b = own)
               PROVE  IsOpen(b)'
    BY DEF IsOpen
  <2>1. b.h # own.h
    <3>1. b \in Mine(d) /\ own \in Mine(c)
      BY <1>3 DEF Mine
    <3> QED
      BY <3>1 DEF HandleInv, HandlesDiffer
  <2>2. [h |-> b.h, mode |-> b.mode] # hm
    BY <2>1
  <2> QED
    BY <1>1, <2>2 DEF IsOpen
<1>6. lost' = 0 => \A b \in active'[c] :
          IsOpen(b)' \/ (call'[c].stage \in Taken /\ call'[c].handle = b)
  <2> SUFFICES ASSUME lost' = 0, NEW b \in active[c]
               PROVE  IsOpen(b)' \/ (call'[c].stage \in Taken /\ call'[c].handle = b)
    BY <1>2 DEF IsOpen
  <2>1. IsOpen(b)
    BY <1>1 DEF HandleInv, HandlesKept, IsOpen, Taken, Writing
  <2>2. CASE b # own
    BY <1>5, <2>1, <2>2
  <2>3. CASE b = own
    <3>1. CASE handles' = handles
      BY <2>1, <3>1 DEF IsOpen
    <3>2. CASE call'[c].stage = "version" /\ call'[c].handle = call[c].handle
      BY <2>3, <3>2 DEF Taken
    <3> QED
      BY <1>1, <3>1, <3>2
  <2> QED
    BY <2>2, <2>3
<1> QED
  BY <1>1, <1>4, <1>5, <1>6, ForgetHandle

\* The close is answered, or the answer is lost
LEMMA AnsweredHandle ==
    ASSUME TypeInv, HandleInv, NEW c \in Client, Frame(c), call[c].stage \in Taken,
           UNCHANGED <<handles, nextHandle>>,
           \/ /\ call'[c] = Idle /\ UNCHANGED lost
              /\ active'[c] = active[c] \ {call[c].handle}
           \/ /\ lost' = lost + 1 /\ active' = active
              /\ \/ call'[c] = Idle
                 \/ /\ call'[c].stage = "close" /\ call'[c].handle = call[c].handle
    PROVE  HandleInv'
<1>1. Mine(c)' \subseteq Mine(c)
  BY IdleOK DEF Mine, Closing, Taken, Writing
<1>2. \A d \in Client : \A b \in active[d] : IsOpen(b) => IsOpen(b)'
  BY DEF IsOpen
<1>3. lost' = 0 => lost = 0 /\ active'[c] = active[c] \ {call[c].handle}
  BY DEF TypeInv
<1>4. lost' = 0 => \A b \in active'[c] : IsOpen(b)'
  <2> SUFFICES ASSUME lost' = 0, NEW b \in active'[c] PROVE IsOpen(b)'
    OBVIOUS
  <2>1. b \in active[c] /\ b # call[c].handle /\ lost = 0
    BY <1>3
  <2>2. IsOpen(b)
    BY <2>1 DEF HandleInv, HandlesKept, IsOpen
  <2> QED
    BY <1>2, <2>1, <2>2
<1> QED
  BY <1>1, <1>2, <1>3, <1>4, ForgetHandle

\* Every step keeps both sides agreed on the open handles
LEMMA HandleStep == TypeInv /\ HandleInv /\ [Next]_vars => HandleInv'
<1> SUFFICES ASSUME TypeInv, HandleInv, [Next]_vars PROVE HandleInv'
  OBVIOUS
<1>1. CASE UNCHANGED vars
  BY <1>1 DEF HandleInv, HandlesDiffer, HandlesKept, IsOpen, Mine, vars, client
<1>2. ASSUME NEW c \in Client, ClientStep(c) PROVE HandleInv'
  <2>1. CASE LockFile(c) \/ UnlockFile(c) \/ GetLockNotifications(c)
    <3>1. UNCHANGED <<handles, nextHandle, lost, call, active>>
      BY <2>1 DEF LockFile, UnlockFile, GetLockNotifications, client
    <3> QED
      BY <2>1, <3>1, LockType, QuietHandle
  <2>2. CASE CreateCheck(c) \/ CreateMake(c) \/ CreateStamp(c)
    <3>1. /\ UNCHANGED <<handles, nextHandle, lost, active>>
          /\ call[c].stage \notin Closing /\ call'[c].stage \notin Closing
      BY <2>2, IdleOK DEF CreateCheck, CreateMake, CreateStamp, client, Begin, At, Go, TypeInv,
         Closing, Taken, Writing
    <3> QED
      BY <2>2, <3>1, CreateType, QuietHandle
  <2>3. CASE \E mode \in {"r", "w"} : OpenTest(c, mode)
    <3>1. /\ UNCHANGED <<handles, nextHandle, lost, active>> /\ call[c].stage = "idle"
      BY <2>3, IdleOK DEF OpenTest, client, Begin
    <3>2. Frame(c) /\ call'[c].stage = "read"
      BY <2>3, OpenTestType DEF Mode
    <3> QED
      BY <3>1, <3>2, QuietHandle DEF Closing, Taken, Writing
  <2>4. CASE OpenRead(c)
    <3>1. UNCHANGED <<handles, nextHandle, lost, active>>
      BY <2>4 DEF OpenRead, client
    <3>2. Frame(c) /\ call[c].stage = "read" /\ call'[c].stage \in {"idle", "grant"}
      BY <2>4, OpenReadType, IdleOK
    <3> QED
      BY <3>1, <3>2, QuietHandle DEF Closing, Taken, Writing
  <2>5. CASE OpenGrant(c)
    BY <2>5, OpenGrantHandle
  <2>6. ASSUME NEW a \in active[c], WriteLocal(c, a) PROVE HandleInv'
    <3>1. UNCHANGED <<handles, nextHandle, lost, call, active>>
      BY <2>6 DEF WriteLocal
    <3> QED
      BY <2>6, <3>1, WriteLocalType, QuietHandle
  <2>7. ASSUME NEW a \in active[c], CloseSend(c, a) PROVE HandleInv'
    BY <2>7, CloseSendHandle
  <2>8. CASE CloseTake(c)
    BY <2>8, CloseTakeHandle
  <2>9. CASE CloseVersion(c)
    <3>1. Frame(c) /\ call[c].stage = "version" /\ UNCHANGED <<handles, nextHandle>>
      BY <2>9, CloseVersionType
    <3>2. CASE /\ call'[c].stage = "truncate" /\ call'[c].handle = call[c].handle
               /\ UNCHANGED <<cache, active, lost>>
      BY <3>1, <3>2, QuietHandle DEF Taken, Writing
    <3>3. CASE \/ /\ call'[c] = Idle /\ UNCHANGED lost
                  /\ active'[c] = active[c] \ {call[c].handle}
               \/ /\ lost' = lost + 1 /\ active' = active
                  /\ \/ call'[c] = Idle
                     \/ /\ call'[c].stage = "close" /\ call'[c].handle = call[c].handle
      BY <3>1, <3>3, AnsweredHandle DEF Taken
    <3> QED
      BY <2>9, <3>2, <3>3, CloseVersionType
  <2>10. CASE CloseTruncate(c) \/ CloseWrite(c)
    <3>1. /\ Frame(c) /\ UNCHANGED <<handles, nextHandle, client, lost>>
          /\ call'[c].handle = call[c].handle
          /\ call[c].stage \in Taken /\ call'[c].stage \in Taken
      BY <2>10, CloseDiskType DEF Taken, Writing
    <3> QED
      BY <3>1, QuietHandle DEF client
  <2>11. CASE CloseCommit(c)
    <3>1. /\ Frame(c) /\ call[c].stage = "commit" /\ UNCHANGED <<handles, nextHandle>>
          /\ \/ /\ call'[c] = Idle /\ UNCHANGED lost
                /\ active'[c] = active[c] \ {call[c].handle}
             \/ /\ lost' = lost + 1 /\ active' = active
                /\ \/ call'[c] = Idle
                   \/ /\ call'[c].stage = "close" /\ call'[c].handle = call[c].handle
      BY <2>11, CloseCommitType
    <3> QED
      BY <3>1, AnsweredHandle DEF Taken, Writing
  <2> QED
    BY <1>2, <2>1, <2>2, <2>3, <2>4, <2>5, <2>6, <2>7, <2>8, <2>9, <2>10, <2>11 DEF ClientStep
<1>3. CASE Tick \/ \E t \in timers : Fire(t) \/ AutoRelease(t)
  BY <1>3, TimeFrame DEF HandleInv, HandlesDiffer, HandlesKept, IsOpen, Mine, client
<1> QED
  BY <1>1, <1>2, <1>3 DEF Next

\* In every execution without a lost response, what a client has in
\* active_handles is open at the server unless its own close of it is under
\* way: a close that a lock refused leaves the handle to be closed later.
THEOREM HandlesStayOpen == Spec => []ActiveIsOpen
<1>1. TypeInv /\ HandleInv => ActiveIsOpen
  <2> SUFFICES ASSUME TypeInv, HandleInv, lost = 0, NEW c \in Client, NEW a \in active[c],
                      ~([h |-> a.h, mode |-> a.mode] \in handles)
               PROVE  ~At(c, "idle") /\ "handle" \in DOMAIN call[c] /\ call[c].handle = a
    BY DEF ActiveIsOpen
  <2>1. call[c].stage \in Taken /\ call[c].handle = a
    BY DEF HandleInv, HandlesKept, IsOpen
  <2>2. "handle" \in DOMAIN call[c]
    BY <2>1 DEF TypeInv, CallOK, Closing
  <2> QED
    BY <2>1, <2>2 DEF At, Taken, Writing
<1> QED
  BY <1>1, TypeInit, TypeStep, HandleInit, HandleStep, PTL DEF Spec

-----------------------------------------------------------------------------
(* Cached copies                                                           *)

\* A copy that would be used without a download
Fresh(c) ==
    cache[c].version = Version /\ ~cache[c].dirty /\ ~cache[c].unsent /\ ~cache[c].renamed
        => cache[c].data = Contents

\* What a handler has read is still so while it goes on
HandlerSees(c) ==
    /\ call[c].stage = "make" => disk = Absent
    /\ call[c].stage = "stamp" => disk # Absent /\ version <= 1
    /\ call[c].stage = "grant" => call[c].data = Contents
    /\ call[c].stage \in Writing => call[c].current = Version
    /\ call[c].stage = "commit" => disk = call[c].data
    /\ call[c].stage \in Closing => call[c].data = cache[c].data

Midway(c) == call[c].stage \in {"write", "commit"}

\* As long as no handler changed the file during another one.  Between the
\* truncation of the file and the new version copies of the old version differ
\* from it; the new version is one no copy has.
FreshInv ==
    ~overlap =>
        /\ disk = Absent => version = 0
        /\ \A c \in Client : cache[c].version <= Version
        /\ \A c \in Client : HandlerSees(c)
        /\ (\A d \in Client : ~Midway(d)) => \A c \in Client : Fresh(c)

\* There are no copies at the start
LEMMA FreshInit == Init => FreshInv
<1> SUFFICES ASSUME Init PROVE FreshInv
  OBVIOUS
<1>1. \A c \in Client : call[c].stage = "idle"
  BY IdleOK DEF Init
<1>2. \A c \in Client : cache[c].version = 0
  BY DEF Init, NoCache
<1>3. Version = 1
  BY DEF Init, Version
<1> QED
  BY <1>1, <1>2, <1>3
     DEF Init, FreshInv, HandlerSees, Fresh, Writing, Closing, Taken

\* Stages that need nothing of the file
Outside == {"idle", "read", "close"}

\* A step that changes the file and leaves overlap FALSE finds every other
\* client outside its handlers
LEMMA Alone ==
    ASSUME TypeInv, NEW c \in Client, Overlap(c), ~overlap'
    PROVE  ~overlap /\ \A d \in Client \ {c} : call[d].stage \in Outside
BY DEF Overlap, InHandler, Outside, TypeInv, CallOK, Stage, Closing, Taken, Writing

\* A client outside its handlers sees nothing of the file
LEMMA OutsideSees ==
    ASSUME NEW d \in Client, HandlerSees(d), call[d].stage \in Outside,
           call'[d] = call[d], cache'[d] = cache[d]
    PROVE  HandlerSees(d)' /\ ~Midway(d)'
BY DEF HandlerSees, Outside, Midway, Writing, Closing, Taken

\* A step that leaves the file, and the version as it is understood
LEMMA QuietFresh ==
    ASSUME TypeInv, FreshInv, NEW c \in Client, Frame(c), overlap' = overlap,
           disk' = disk, version' = version \/ (version = 0 /\ version' = 1 /\ disk # Absent),
           ~overlap => /\ cache'[c].version <= Version
                       /\ HandlerSees(c)'
                       /\ Midway(c) => Midway(c)'
                       /\ (\A d \in Client : ~Midway(d)) => Fresh(c)'
    PROVE  FreshInv'
<1> SUFFICES ASSUME ~overlap PROVE FreshInv'
  BY DEF FreshInv
<1>1. Version' = Version /\ Contents' = Contents
  BY DEF Version, Contents
<1>2. \A d \in Client \ {c} : HandlerSees(d)' /\ (Midway(d) <=> Midway(d)') /\ (Fresh(d) => Fresh(d)')
  <2> SUFFICES ASSUME NEW d \in Client \ {c}
               PROVE  HandlerSees(d)' /\ (Midway(d) <=> Midway(d)') /\ (Fresh(d) => Fresh(d)')
    OBVIOUS
  <2>1. call'[d] = call[d] /\ cache'[d] = cache[d] /\ HandlerSees(d)
    BY DEF Frame, FreshInv
  <2>2. Fresh(d) => Fresh(d)'
    BY <1>1, <2>1 DEF Fresh
  <2>3. Midway(d) <=> Midway(d)'
    BY <2>1 DEF Midway
  <2>4. HandlerSees(d)'
    BY <1>1, <2>1 DEF HandlerSees, TypeInv
  <2> QED
    BY <2>2, <2>3, <2>4
<1>3. \A d \in Client : HandlerSees(d)'
  BY <1>2
<1>4. \A d \in Client : cache'[d].version <= Version'
  BY <1>1 DEF Frame, FreshInv
<1>5. disk' = Absent => version' = 0
  BY DEF FreshInv
<1>6. ASSUME \A d \in Client : ~Midway(d)'
      PROVE  \A d \in Client : Fresh(d)'
  <2>1. \A d \in Client : ~Midway(d)
    BY <1>2, <1>6
  <2>2. Fresh(c)'
    BY <2>1
  <2>3. \A d \in Client : Fresh(d)
    BY <2>1 DEF FreshInv
  <2> QED
    BY <1>2, <2>2, <2>3
<1> QED
  BY <1>3, <1>4, <1>5, <1>6 DEF FreshInv

\* A step that changes the file alone
LEMMA ChangeFresh ==
    ASSUME TypeInv, FreshInv, NEW c \in Client, Frame(c), Overlap(c), disk' # Absent,
           ~overlap' => /\ HandlerSees(c)'
                        /\ \A d \in Client : cache'[d].version <= Version'
                        /\ ~Midway(c)' => \A d \in Client : Fresh(d)'
    PROVE  FreshInv'
<1> SUFFICES ASSUME ~overlap' PROVE FreshInv'
  BY DEF FreshInv
<1>1. ~overlap /\ \A d \in Client \ {c} : call[d].stage \in Outside
  BY Alone
<1>2. \A d \in Client \ {c} : HandlerSees(d)' /\ ~Midway(d)'
  BY <1>1, OutsideSees DEF FreshInv, Frame
<1>3. \A d \in Client : HandlerSees(d)'
  BY <1>2
<1>4. (\A d \in Client : ~Midway(d)') => \A d \in Client : Fresh(d)'
  OBVIOUS
<1> QED
  BY <1>3, <1>4 DEF FreshInv

\* A step of a client that leaves its copy and ends in a stage where it has
\* read nothing new of the file
LEMMA SameCopy ==
    ASSUME TypeInv, FreshInv, NEW c \in Client, Frame(c), UNCHANGED files,
           cache'[c] = cache[c], ~Midway(c), ~overlap => HandlerSees(c)'
    PROVE  FreshInv'
<1>1. overlap' = overlap /\ disk' = disk /\ version' = version
  BY DEF files
<1>2. ~overlap => /\ cache'[c].version <= Version
                  /\ (\A d \in Client : ~Midway(d)) => Fresh(c)'
  <2>1. Version' = Version /\ Contents' = Contents
    BY <1>1 DEF Version, Contents
  <2> QED
    BY <2>1 DEF FreshInv, Fresh
<1> QED
  BY <1>1, <1>2, QuietFresh

\* Create makes an empty file that nobody has a copy of
LEMMA CreateFresh ==
    ASSUME TypeInv, FreshInv, NEW c \in Client,
           CreateCheck(c) \/ CreateMake(c) \/ CreateStamp(c)
    PROVE  FreshInv'
<1>1. Frame(c)
  BY CreateType
<1>2. CASE CreateCheck(c)
  <2>1. /\ UNCHANGED <<files, cache>> /\ call[c].stage = "idle" /\ disk = Absent
        /\ call'[c].stage = "make"
    BY <1>2, IdleOK DEF CreateCheck, client, Begin, Go, TypeInv
  <2>2. HandlerSees(c)'
    BY <2>1 DEF HandlerSees, Writing, Closing, Taken, files
  <2> QED
    BY <1>1, <2>1, <2>2, SameCopy DEF Midway
<1>3. CASE CreateMake(c) \/ CreateStamp(c)
  <2>1. /\ UNCHANGED cache /\ Overlap(c)
        /\ \/ /\ call[c].stage = "make" /\ call'[c].stage = "stamp"
              /\ disk' = Empty /\ version' = version
           \/ /\ call[c].stage = "stamp" /\ call'[c].stage = "idle"
              /\ disk' = disk /\ version' = 1
    BY <1>3, IdleOK DEF CreateMake, CreateStamp, client, At, Go, TypeInv
  <2>2. ASSUME ~overlap
        PROVE  Version' = Version /\ Contents' = Contents /\ disk' # Absent /\ version' <= 1
    <3>1. HandlerSees(c) /\ (disk = Absent => version = 0)
      BY <2>2 DEF FreshInv
    <3> QED
      BY <2>1, <3>1, FileAssumption DEF HandlerSees, Version, Contents, TypeInv
  <2>3. ASSUME ~overlap'
        PROVE  /\ HandlerSees(c)'
               /\ \A d \in Client : cache'[d].version <= Version'
               /\ \A d \in Client : Fresh(d)'
    <3>1. ~overlap /\ \A d \in Client \ {c} : call[d].stage \in Outside
      BY <2>1, <2>3, Alone
    <3>2. \A d \in Client : ~Midway(d)
      BY <2>1, <3>1 DEF Midway, Outside
    <3>3. \A d \in Client : Fresh(d) /\ cache[d].version <= Version
      BY <3>1, <3>2 DEF FreshInv
    <3>4. Version' = Version /\ Contents' = Contents /\ disk' # Absent /\ version' <= 1
      BY <2>2, <3>1
    <3>5. HandlerSees(c)'
      BY <2>1, <3>4 DEF HandlerSees, Writing, Closing, Taken
    <3>6. \A d \in Client : Fresh(d)'
      BY <2>1, <3>3, <3>4 DEF Fresh
    <3> QED
      BY <2>1, <3>3, <3>4, <3>5, <3>6
  <2>4. CASE overlap'
    BY <2>4 DEF FreshInv
  <2>5. CASE ~overlap'
    <3>1. disk' # Absent
      BY <2>1, <2>2, <2>5, Alone
    <3> QED
      BY <1>1, <2>1, <2>3, <3>1, ChangeFresh
  <2> QED
    BY <2>4, <2>5
<1> QED
  BY <1>2, <1>3

\* An open that fetches leaves the contents it read, under the current version
LEMMA OpenFresh ==
    ASSUME TypeInv, FreshInv, NEW c \in Client, OpenGrant(c)
    PROVE  FreshInv'
<1>1. /\ Frame(c) /\ call[c].stage = "grant" /\ disk' = disk /\ overlap' = overlap
      /\ version' \in {version, IF version = 0 /\ disk # Absent THEN 1 ELSE version}
      /\ call'[c] = Idle \/ call'[c].stage = "read"
      /\ \/ cache'[c] = cache[c]
         \/ cache'[c].version = Version /\ cache'[c].data = call[c].data
  BY OpenGrantType
<1>2. version' = version \/ (version = 0 /\ version' = 1 /\ disk # Absent)
  BY <1>1
<1>3. Version' = Version /\ Contents' = Contents
  BY <1>1, <1>2 DEF Version, Contents
<1>4. ASSUME ~overlap
      PROVE  /\ cache'[c].version <= Version
             /\ HandlerSees(c)'
             /\ (\A d \in Client : ~Midway(d)) => Fresh(c)'
  <2>1. HandlerSees(c) /\ cache[c].version <= Version
    BY <1>4 DEF FreshInv
  <2>2. Version \in Nat
    BY DEF Version, TypeInv
  <2>3. HandlerSees(c)'
    <3>1. call'[c].stage \in {"idle", "read"}
      BY <1>1, IdleOK
    <3> QED
      BY <3>1 DEF HandlerSees, Writing, Closing, Taken
  <2>4. (\A d \in Client : ~Midway(d)) => Fresh(c)
    BY <1>4 DEF FreshInv
  <2>5. cache'[c].version <= Version
    BY <1>1, <2>1, <2>2
  <2>6. CASE cache'[c] = cache[c]
    <3>1. Fresh(c) => Fresh(c)'
      BY <1>3, <2>6 DEF Fresh
    <3> QED
      BY <2>3, <2>4, <2>5, <3>1
  <2>7. CASE cache'[c].version = Version /\ cache'[c].data = call[c].data
    <3>1. Fresh(c)'
      BY <1>1, <1>3, <2>1, <2>7 DEF Fresh, HandlerSees
    <3> QED
      BY <2>3, <2>5, <3>1
  <2> QED
    BY <1>1, <2>6, <2>7
<1>5. ~Midway(c)
  BY <1>1 DEF Midway
<1> QED
  BY <1>1, <1>2, <1>4, <1>5, QuietFresh

\* A write into a copy makes it dirty, or marks it as not sent
LEMMA WriteLocalFresh ==
    ASSUME TypeInv, FreshInv, NEW c \in Client, NEW a \in active[c], WriteLocal(c, a)
    PROVE  FreshInv'
<1>1. /\ Frame(c) /\ call[c].stage = "idle" /\ UNCHANGED <<files, call>>
      /\ cache'[c].dirty = (cache[c].dirty \/ a.mode = "w")
      /\ cache'[c].unsent = (cache[c].unsent \/ a.mode = "r")
  BY WriteLocalType, IdleOK
<1>2. a.mode \in Mode
  BY DEF TypeInv, Handle
<1>3. /\ cache'[c].version = cache[c].version
      /\ cache'[c].dirty \/ cache'[c].unsent
  BY <1>1, <1>2, WriteLocalType DEF Mode
<1>4. ~overlap => /\ cache'[c].version <= Version
                  /\ HandlerSees(c)' /\ ~Midway(c)
                  /\ Fresh(c)'
  BY <1>1, <1>3 DEF FreshInv, HandlerSees, Fresh, Midway, Writing, Closing, Taken
<1> QED
  BY <1>1, <1>4, QuietFresh DEF files

\* The first steps of a close change no copy
LEMMA CloseBeginFresh ==
    ASSUME TypeInv, FreshInv, NEW c \in Client,
           CloseTake(c) \/ \E a \in active[c] : CloseSend(c, a)
    PROVE  FreshInv'
<1>1. CASE CloseTake(c)
  <2>1. /\ Frame(c) /\ call[c].stage = "close" /\ UNCHANGED <<files, cache>>
        /\ \/ call'[c] = Idle
           \/ call'[c].stage = "version" /\ call'[c].data = call[c].data
    BY <1>1, CloseTakeType DEF client
  <2>2. ~overlap => HandlerSees(c)'
    BY <2>1, IdleOK DEF FreshInv, HandlerSees, Writing, Closing, Taken
  <2> QED
    BY <2>1, <2>2, SameCopy DEF Midway
<1>2. ASSUME NEW a \in active[c], CloseSend(c, a) PROVE FreshInv'
  <2>1. /\ Frame(c) /\ call[c].stage = "idle" /\ UNCHANGED <<files, cache>>
        /\ call'[c].stage = "close" /\ call'[c].data = cache[c].data
    BY <1>2, CloseSendType, IdleOK
  <2>2. HandlerSees(c)'
    BY <2>1 DEF HandlerSees, Writing, Closing, Taken
  <2> QED
    BY <2>1, <2>2, SameCopy DEF Midway
<1> QED
  BY <1>1, <1>2

\* A read close ends, a write close remembers the current version
LEMMA CloseVersionFresh ==
    ASSUME TypeInv, FreshInv, NEW c \in Client, CloseVersion(c)
    PROVE  FreshInv'
<1>1. Frame(c) /\ call[c].stage = "version" /\ UNCHANGED files
  BY CloseVersionType
<1>2. ~Midway(c)
  BY <1>1 DEF Midway
<1>3. Version' = Version /\ Contents' = Contents /\ Version \in Nat
  BY <1>1 DEF Version, Contents, files, TypeInv
<1>4. CASE cache' = cache
  <2>1. \/ call'[c] = Idle
        \/ call'[c].stage = "close" /\ call'[c].data = call[c].data
        \/ /\ call'[c].stage = "truncate" /\ call'[c].data = call[c].data
           /\ call'[c].current = Version
    BY CloseVersionType
  <2>2. ~overlap => HandlerSees(c)'
    BY <1>1, <1>3, <1>4, <2>1, IdleOK DEF FreshInv, HandlerSees, Writing, Closing, Taken
  <2> QED
    BY <1>1, <1>2, <1>4, <2>2, SameCopy
<1>5. CASE call'[c] = Idle /\ call[c].handle.mode = "r" /\ cache' = Renamed(c, Version)
  <2>1. /\ cache'[c].version = Version /\ cache'[c].data = cache[c].data
        /\ cache'[c].renamed = (cache[c].renamed \/ Version # cache[c].version)
        /\ cache'[c].dirty = cache[c].dirty /\ cache'[c].unsent = cache[c].unsent
    <3>1. cache[c] \in CacheEntry
      BY DEF TypeInv
    <3>2. {cache[c].dirty, cache[c].unsent, cache[c].renamed} \subseteq BOOLEAN
      BY <3>1 DEF CacheEntry
    <3>3. /\ cache'[c].version = Version /\ cache'[c].data = cache[c].data
          /\ cache'[c].dirty = (cache[c].dirty /\ call[c].handle.mode = "r")
          /\ cache'[c].unsent = (cache[c].unsent /\ call[c].handle.mode = "r")
          /\ cache'[c].renamed = ((cache[c].renamed \/ Version # cache[c].version)
                                     /\ call[c].handle.mode = "r")
      BY <1>3, <1>5, RenamedType
    <3> QED
      BY <1>5, <3>2, <3>3
  <2>2. Fresh(c) => Fresh(c)'
    BY <1>3, <1>5, <2>1 DEF Fresh
  <2>3. HandlerSees(c)'
    BY <1>5, IdleOK DEF HandlerSees, Writing, Closing, Taken
  <2>4. ~overlap => /\ cache'[c].version <= Version
                    /\ (\A d \in Client : ~Midway(d)) => Fresh(c)'
    BY <1>3, <2>1, <2>2 DEF FreshInv
  <2> QED
    BY <1>1, <1>2, <2>3, <2>4, QuietFresh DEF files
<1> QED
  BY <1>4, <1>5, CloseVersionType

\* The file is emptied and written: the close is midway, copies are compared after it
LEMMA CloseDiskFresh ==
    ASSUME TypeInv, FreshInv, NEW c \in Client, CloseTruncate(c) \/ CloseWrite(c)
    PROVE  FreshInv'
<1>1. /\ Frame(c) /\ UNCHANGED <<version, cache>> /\ Overlap(c)
      /\ call'[c].data = call[c].data /\ call'[c].current = call[c].current
      /\ \/ call[c].stage = "truncate" /\ call'[c].stage = "write" /\ disk' = Empty
         \/ call[c].stage = "write" /\ call'[c].stage = "commit" /\ disk' = call[c].data
  BY CloseDiskType DEF client
<1>2. disk' # Absent
  BY <1>1, FileAssumption DEF TypeInv, CallOK, Data, Closing, Taken, Writing
<1>3. Version' = Version /\ Midway(c)'
  BY <1>1 DEF Version, Midway
<1>4. ASSUME ~overlap'
      PROVE  HandlerSees(c)' /\ \A d \in Client : cache'[d].version <= Version'
  <2>1. ~overlap
    BY <1>1, <1>4, Alone
  <2>2. HandlerSees(c) /\ \A d \in Client : cache[d].version <= Version
    BY <2>1 DEF FreshInv
  <2> QED
    BY <1>1, <1>3, <2>2 DEF HandlerSees, Writing, Closing, Taken
<1> QED
  BY <1>1, <1>2, <1>3, <1>4, ChangeFresh

\* The new version is one no copy has yet but the one that was written
LEMMA CloseCommitFresh ==
    ASSUME TypeInv, FreshInv, NEW c \in Client, CloseCommit(c)
    PROVE  FreshInv'
<1>1. /\ Frame(c) /\ call[c].stage = "commit" /\ disk' = disk
      /\ version' = call[c].current + 1 /\ Overlap(c)
      /\ \/ call'[c] = Idle /\ cache' = Renamed(c, call[c].current + 1)
         \/ /\ cache' = cache
            /\ \/ call'[c] = Idle
               \/ call'[c].stage = "close" /\ call'[c].data = call[c].data
  BY CloseCommitType
<1>2. call[c].current \in Nat /\ call[c].data \in Data /\ Version \in Nat
  BY <1>1 DEF TypeInv, CallOK, Closing, Taken, Writing, Version
<1>3. Version' = call[c].current + 1 /\ Contents' = Contents
  BY <1>1, <1>2 DEF Version, Contents
<1> SUFFICES ASSUME ~overlap' PROVE FreshInv'
  BY DEF FreshInv
<1>4. ~overlap
  BY <1>1, Alone
<1>5. /\ HandlerSees(c) /\ \A d \in Client : cache[d].version <= Version
  BY <1>4 DEF FreshInv
<1>6. /\ call[c].current = Version /\ disk = call[c].data /\ call[c].data = cache[c].data
  BY <1>1, <1>5 DEF HandlerSees, Writing, Closing, Taken
<1>7. disk # Absent /\ Contents = call[c].data
  BY <1>2, <1>6, FileAssumption DEF Data, Contents
<1>8. Version' = Version + 1
  BY <1>3, <1>6
<1>9. \A d \in Client : cache'[d] = cache[d] => cache'[d].version <= Version' /\ Fresh(d)'
  <2> SUFFICES ASSUME NEW d \in Client, cache'[d] = cache[d]
               PROVE  cache'[d].version <= Version' /\ Fresh(d)'
    BY DEF Fresh
  <2>1. cache[d].version \in Nat /\ cache[d].version <= Version
    BY <1>5 DEF TypeInv, CacheEntry
  <2>2. cache'[d].version < Version'
    BY <1>2, <1>8, <2>1
  <2> QED
    BY <1>2, <1>8, <2>1, <2>2 DEF Fresh
<1>10. \A d \in Client \ {c} : cache'[d] = cache[d]
  BY <1>1 DEF Frame
<1>11. cache'[c].version <= Version' /\ Fresh(c)' /\ HandlerSees(c)'
  <2>1. CASE call'[c] = Idle /\ cache' = Renamed(c, call[c].current + 1)
    <3>1. call[c].current + 1 \in Nat
      BY <1>2
    <3>2. cache'[c].version = call[c].current + 1 /\ cache'[c].data = cache[c].data
      BY <2>1, <3>1, RenamedType
    <3>3. Fresh(c)'
      BY <1>3, <1>6, <1>7, <3>2 DEF Fresh
    <3>4. HandlerSees(c)'
      BY <2>1, IdleOK DEF HandlerSees, Writing, Closing, Taken
    <3> QED
      BY <1>3, <3>1, <3>2, <3>3, <3>4
  <2>2. CASE /\ cache' = cache
             /\ \/ call'[c] = Idle
                \/ call'[c].stage = "close" /\ call'[c].data = call[c].data
    <3>1. HandlerSees(c)'
      BY <1>6, <2>2, IdleOK DEF HandlerSees, Writing, Closing, Taken
    <3> QED
      BY <1>9, <2>2, <3>1
  <2> QED
    BY <1>1, <2>1, <2>2
<1>12. \A d \in Client : cache'[d].version <= Version' /\ Fresh(d)'
  BY <1>9, <1>10, <1>11
<1> QED
  BY <1>1, <1>7, <1>11, <1>12, ChangeFresh

\* Every step keeps the copies fresh
LEMMA FreshStep == TypeInv /\ FreshInv /\ [Next]_vars => FreshInv'
<1> SUFFICES ASSUME TypeInv, FreshInv, [Next]_vars PROVE FreshInv'
  OBVIOUS
<1>1. ASSUME UNCHANGED <<disk, version, overlap, call, cache>> PROVE FreshInv'
  BY <1>1 DEF FreshInv, HandlerSees, Midway, Fresh, Version, Contents
<1>2. CASE UNCHANGED vars
  BY <1>1, <1>2 DEF vars, files, client
<1>3. ASSUME NEW c \in Client, ClientStep(c) PROVE FreshInv'
  <2>1. CASE LockFile(c) \/ UnlockFile(c) \/ GetLockNotifications(c)
    BY <1>1, <2>1 DEF LockFile, UnlockFile, GetLockNotifications, files, client
  <2>2. CASE CreateCheck(c) \/ CreateMake(c) \/ CreateStamp(c)
    BY <2>2, CreateFresh
  <2>3. CASE \E mode \in {"r", "w"} : OpenTest(c, mode)
    <3>1. UNCHANGED <<files, cache>> /\ call[c].stage = "idle"
      BY <2>3, IdleOK DEF OpenTest, client, Begin
    <3>2. Frame(c) /\ call'[c].stage = "read"
      BY <2>3, OpenTestType DEF Mode
    <3>3. HandlerSees(c)'
      BY <3>2 DEF HandlerSees, Writing, Closing, Taken
    <3> QED
      BY <3>1, <3>2, <3>3, SameCopy DEF Midway
  <2>4. CASE OpenRead(c)
    <3>1. UNCHANGED <<files, cache>>
      BY <2>4 DEF OpenRead, client
    <3>2. /\ Frame(c) /\ call[c].stage = "read"
          /\ call'[c] = Idle \/ (call'[c].stage = "grant" /\ call'[c].data = Contents)
      BY <2>4, OpenReadType
    <3>3. Contents' = Contents
      BY <3>1 DEF files, Contents
    <3>4. HandlerSees(c)'
      BY <3>2, <3>3, IdleOK DEF HandlerSees, Writing, Closing, Taken
    <3> QED
      BY <3>1, <3>2, <3>4, SameCopy DEF Midway
  <2>5. CASE OpenGrant(c)
    BY <2>5, OpenFresh
  <2>6. ASSUME NEW a \in active[c], WriteLocal(c, a) PROVE FreshInv'
    BY <2>6, WriteLocalFresh
  <2>7. CASE CloseTake(c) \/ \E a \in active[c] : CloseSend(c, a)
    BY <2>7, CloseBeginFresh
  <2>8. CASE CloseVersion(c)
    BY <2>8, CloseVersionFresh
  <2>9. CASE CloseTruncate(c) \/ CloseWrite(c)
    BY <2>9, CloseDiskFresh
  <2>10. CASE CloseCommit(c)
    BY <2>10, CloseCommitFresh
  <2> QED
    BY <1>3, <2>1, <2>2, <2>3, <2>4, <2>5, <2>6, <2>7, <2>8, <2>9, <2>10 DEF ClientStep
<1>4. CASE Tick \/ \E t \in timers : Fire(t) \/ AutoRelease(t)
  BY <1>1, <1>4, TimeFrame DEF files, client
<1> QED
  BY <1>2, <1>3, <1>4 DEF Next

-----------------------------------------------------------------------------
(* Copies that their clients change                                        *)

\* What goes through handle a goes into the copy, and its close sends it
Writes(c, a) == a.mode = "w" /\ HasFile(c, a)

\* A copy changed through a handle for writing belongs to such a handle, which
\* the server knows or is closing, until the server has a newer version
EditOK(c) ==
    /\ \A a \in Mine(c) : a.path <= cache[c].version
    /\ build = "grpc" /\ call[c].stage \in Closing => call[c].handle \in active[c]
    /\ \A a \in Mine(c) : Writes(c, a) =>
         \/ IsOpen(a) \/ (call[c].stage \in Taken /\ call[c].handle = a)
         \/ cache[c].version < Version
    /\ cache[c].dirty =>
         \/ cache[c].renamed \/ cache[c].version < Version
         \/ \E a \in Mine(c) : Writes(c, a)

EditInv == ~overlap => \A c \in Client : EditOK(c)

\* There are no handles at the start
LEMMA EditInit == Init => EditInv
<1> SUFFICES ASSUME Init, NEW c \in Client PROVE EditOK(c)
  BY DEF EditInv
<1>1. Mine(c) = {} /\ call[c].stage \notin Closing
  BY IdleOK DEF Init, Mine, Closing, Taken, Writing
<1>2. ~cache[c].dirty
  BY DEF Init, NoCache
<1> QED
  BY <1>1, <1>2 DEF EditOK

\* The versions and paths are numbers
LEMMA EditTypes ==
    ASSUME TypeInv
    PROVE  /\ Version \in Nat
           /\ \A c \in Client : /\ cache[c].version \in Nat
                                /\ cache[c].dirty \in BOOLEAN /\ cache[c].renamed \in BOOLEAN
           /\ \A c \in Client : \A a \in Mine(c) : a.path \in Nat /\ a.mode \in Mode
<1>1. Version \in Nat
  BY DEF TypeInv, Version
<1>2. ASSUME NEW c \in Client
      PROVE  /\ cache[c].version \in Nat
             /\ cache[c].dirty \in BOOLEAN /\ cache[c].renamed \in BOOLEAN
  <2>1. cache[c] \in CacheEntry
    BY DEF TypeInv
  <2> QED
    BY <2>1 DEF CacheEntry
<1>3. ASSUME NEW c \in Client, NEW a \in Mine(c) PROVE a.path \in Nat /\ a.mode \in Mode
  <2>1. a \in active[c] \/ (call[c].stage \in Closing /\ a = call[c].handle)
    BY DEF Mine
  <2>2. active[c] \subseteq Handle /\ CallOK(call[c])
    BY DEF TypeInv
  <2>3. a \in Handle
    BY <2>1, <2>2 DEF CallOK
  <2> QED
    BY <2>3 DEF Handle
<1> QED
  BY <1>1, <1>2, <1>3

\* A step of client c that leaves the others their open handles
LEMMA EditFrame ==
    ASSUME TypeInv, TypeInv', EditInv, NEW c \in Client, Frame(c), build' = build,
           ~overlap' => ~overlap /\ Version <= Version' /\ EditOK(c)',
           \A d \in Client \ {c} : \A a \in Mine(d) : IsOpen(a) => IsOpen(a)'
    PROVE  EditInv'
<1> SUFFICES ASSUME ~overlap', NEW d \in Client, d # c PROVE EditOK(d)'
  BY DEF EditInv
<1>1. call'[d] = call[d] /\ cache'[d] = cache[d] /\ active'[d] = active[d]
  BY DEF Frame
<1>2. Mine(d)' = Mine(d) /\ \A a : Writes(d, a)' <=> Writes(d, a)
  BY <1>1 DEF Mine, Writes, HasFile
<1>3. EditOK(d)
  BY DEF EditInv
<1>4. cache[d].version < Version => cache'[d].version < Version'
  <2>1. Version' \in Nat
    BY DEF TypeInv, Version
  <2>2. Version \in Nat /\ cache[d].version \in Nat
    BY EditTypes
  <2> QED
    BY <1>1, <2>1, <2>2
<1>5. \A a \in Mine(d)' : a.path <= cache'[d].version
  BY <1>1, <1>2, <1>3 DEF EditOK
<1>6. build' = "grpc" /\ call'[d].stage \in Closing => call'[d].handle \in active'[d]
  BY <1>1, <1>3 DEF EditOK
<1>7. ASSUME NEW a \in Mine(d)', Writes(d, a)'
      PROVE  \/ IsOpen(a)' \/ (call'[d].stage \in Taken /\ call'[d].handle = a)
             \/ cache'[d].version < Version'
  <2>1. a \in Mine(d) /\ Writes(d, a)
    BY <1>2, <1>7
  <2>2. \/ IsOpen(a) \/ (call[d].stage \in Taken /\ call[d].handle = a)
        \/ cache[d].version < Version
    BY <1>3, <2>1 DEF EditOK
  <2> QED
    BY <1>1, <1>4, <2>1, <2>2
<1>8. cache'[d].dirty => \/ cache'[d].renamed \/ cache'[d].version < Version'
                         \/ \E a \in Mine(d)' : Writes(d, a)'
  <2>1. cache[d].dirty => \/ cache[d].renamed \/ cache[d].version < Version
                          \/ \E a \in Mine(d) : Writes(d, a)
    BY <1>3 DEF EditOK
  <2> QED
    BY <1>1, <1>2, <1>4, <2>1
<1> QED
  BY <1>5, <1>6, <1>7, <1>8 DEF EditOK

\* A step of a client that changes neither its copy nor its handles
LEMMA EditQuiet ==
    ASSUME TypeInv, TypeInv', EditInv, NEW c \in Client, Frame(c), build' = build,
           handles' = handles, active'[c] = active[c], cache'[c] = cache[c],
           ~overlap' => ~overlap /\ Version <= Version',
           \/ call'[c] = call[c]
           \/ call[c].stage \notin Closing /\ call'[c].stage \notin Closing
           \/ /\ call[c].stage \in Taken /\ call'[c].stage \in Taken
              /\ call'[c].handle = call[c].handle
    PROVE  EditInv'
<1>1. ASSUME ~overlap' PROVE EditOK(c)'
  <2>1. EditOK(c)
    BY <1>1 DEF EditInv
  <2>2. Mine(c)' = Mine(c) /\ \A a : Writes(c, a)' <=> Writes(c, a)
    BY DEF Mine, Writes, HasFile, Closing
  <2>3. cache[c].version < Version => cache'[c].version < Version'
    <3>1. Version' \in Nat
      BY DEF TypeInv, Version
    <3>2. Version \in Nat /\ cache[c].version \in Nat
      BY EditTypes
    <3> QED
      BY <1>1, <3>1, <3>2
  <2>4. \A a : IsOpen(a)' <=> IsOpen(a)
    BY DEF IsOpen
  <2>5. \A a \in Mine(c)' : a.path <= cache'[c].version
    BY <2>1, <2>2 DEF EditOK
  <2>6. build' = "grpc" /\ call'[c].stage \in Closing => call'[c].handle \in active'[c]
    BY <2>1 DEF EditOK, Closing
  <2>7. ASSUME NEW a \in Mine(c)', Writes(c, a)'
        PROVE  \/ IsOpen(a)' \/ (call'[c].stage \in Taken /\ call'[c].handle = a)
               \/ cache'[c].version < Version'
    <3>1. a \in Mine(c) /\ Writes(c, a)
      BY <2>2, <2>7
    <3>2. \/ IsOpen(a) \/ (call[c].stage \in Taken /\ call[c].handle = a)
          \/ cache[c].version < Version
      BY <2>1, <3>1 DEF EditOK
    <3> QED
      BY <2>3, <2>4, <3>2 DEF Closing
  <2>8. cache'[c].dirty => \/ cache'[c].renamed \/ cache'[c].version < Version'
                           \/ \E a \in Mine(c)' : Writes(c, a)'
    <3>1. cache[c].dirty => \/ cache[c].renamed \/ cache[c].version < Version
                            \/ \E a \in Mine(c) : Writes(c, a)
      BY <2>1 DEF EditOK
    <3> QED
      BY <2>2, <2>3, <3>1
  <2> QED
    BY <2>5, <2>6, <2>7, <2>8 DEF EditOK
<1>2. \A d \in Client \ {c} : \A a \in Mine(d) : IsOpen(a) => IsOpen(a)'
  BY DEF IsOpen
<1> QED
  BY <1>1, <1>2, EditFrame

\* Create leaves the version as it is understood
LEMMA EditCreate ==
    ASSUME TypeInv, FreshInv, EditInv, NEW c \in Client,
           CreateCheck(c) \/ CreateMake(c) \/ CreateStamp(c)
    PROVE  EditInv'
<1>1. TypeInv' /\ Frame(c)
  BY CreateType
<1>2. /\ UNCHANGED <<build, handles, cache, active>>
      /\ call[c].stage \notin Closing /\ call'[c].stage \notin Closing
  BY IdleOK DEF CreateCheck, CreateMake, CreateStamp, client, Begin, At, Go, TypeInv,
     Closing, Taken, Writing
<1>3. /\ ~overlap' => ~overlap
      /\ version' = version \/ (call[c].stage = "stamp" /\ version' = 1)
  <2>1. CASE CreateCheck(c)
    BY <2>1 DEF CreateCheck, files
  <2>2. CASE CreateMake(c)
    BY <2>2 DEF CreateMake, Overlap
  <2>3. CASE CreateStamp(c)
    BY <2>3 DEF CreateStamp, Overlap, At
  <2> QED
    BY <2>1, <2>2, <2>3
<1>4. ASSUME ~overlap' PROVE ~overlap /\ Version <= Version'
  <2>1. call[c].stage = "stamp" => version <= 1
    BY <1>3, <1>4 DEF FreshInv, HandlerSees
  <2>2. version \in Nat
    BY DEF TypeInv
  <2>3. CASE version' = version
    BY <1>3, <1>4, <2>2, <2>3 DEF Version
  <2>4. CASE call[c].stage = "stamp" /\ version' = 1
    BY <1>3, <1>4, <2>1, <2>2, <2>4 DEF Version
  <2> QED
    BY <1>3, <2>3, <2>4
<1> QED
  BY <1>1, <1>2, <1>4, EditQuiet

\* Open hands out a handle of the copy, which is clean if it was fetched
LEMMA EditOpen ==
    ASSUME TypeInv, FreshInv, EditInv, NEW c \in Client, OpenGrant(c)
    PROVE  EditInv'
<1>1. /\ TypeInv' /\ Frame(c)
      /\ call[c].stage = "grant" /\ disk' = disk /\ overlap' = overlap
      /\ version' \in {version, IF version = 0 /\ disk # Absent THEN 1 ELSE version}
      /\ call'[c] = Idle \/ call'[c].stage = "read"
      /\ cache'[c] = cache[c] \/ (cache'[c].version = Version /\ ~cache'[c].dirty)
  BY OpenGrantType
<1>2. /\ handles \subseteq handles'
      /\ \/ active'[c] = active[c]
         \/ \E path \in Nat :
              /\ path = cache'[c].version
              /\ active'[c] = active[c] \cup
                    {[h |-> nextHandle, mode |-> call[c].mode, path |-> path]}
              /\ handles' = handles \cup {[h |-> nextHandle, mode |-> call[c].mode]}
  BY OpenGrantType
<1>3. Version' = Version /\ Version \in Nat /\ cache[c].version \in Nat
  BY <1>1, EditTypes DEF Version
<1>4. build' = build
  BY DEF OpenGrant
<1>5. Mine(c) = active[c] /\ Mine(c)' = active'[c] /\ call'[c].stage \notin Closing
  BY <1>1, IdleOK DEF Mine, Closing, Taken, Writing
<1>6. \A a : IsOpen(a) => IsOpen(a)'
  BY <1>2 DEF IsOpen
<1>7. \A a \in Mine(c)' : a \in Mine(c) \/ (a.path = cache'[c].version /\ IsOpen(a)')
  <2> SUFFICES ASSUME NEW a \in active'[c], a \notin active[c]
               PROVE  a.path = cache'[c].version /\ IsOpen(a)'
    BY <1>5
  <2>1. PICK path \in Nat :
          /\ path = cache'[c].version
          /\ active'[c] = active[c] \cup {[h |-> nextHandle, mode |-> call[c].mode, path |-> path]}
          /\ handles' = handles \cup {[h |-> nextHandle, mode |-> call[c].mode]}
    BY <1>2
  <2>2. a = [h |-> nextHandle, mode |-> call[c].mode, path |-> path]
    BY <2>1
  <2>3. a.h = nextHandle /\ a.mode = call[c].mode /\ a.path = path
    BY <2>2
  <2> QED
    BY <2>1, <2>3 DEF IsOpen
<1>8. ASSUME ~overlap' PROVE EditOK(c)'
  <2>1. EditOK(c) /\ cache[c].version <= Version
    BY <1>1, <1>8 DEF EditInv, FreshInv
  <2>2. /\ cache[c].version <= cache'[c].version /\ cache'[c].version \in Nat
        /\ cache'[c].version = cache[c].version \/ cache'[c].version = Version
    BY <1>1, <1>3, <2>1
  <2>3. \A a \in Mine(c) : a.path \in Nat /\ a.path <= cache[c].version
    BY <2>1, EditTypes DEF EditOK
  <2>4. \A a \in Mine(c)' : a.path <= cache'[c].version
    BY <1>3, <1>7, <2>2, <2>3
  <2>5. ASSUME NEW a \in Mine(c)', Writes(c, a)'
        PROVE  IsOpen(a)' \/ cache'[c].version < Version'
    <3>1. CASE a \in Mine(c) /\ a.path = cache[c].version
      <4>1. Writes(c, a)
        BY <2>5, <3>1 DEF Writes, HasFile
      <4>2. IsOpen(a) \/ cache[c].version < Version
        BY <1>1, <2>1, <3>1, <4>1 DEF EditOK, Taken, Writing
      <4>3. cache'[c].version = cache[c].version
        BY <2>5, <3>1 DEF Writes, HasFile
      <4> QED
        BY <1>3, <1>6, <4>2, <4>3
    <3>2. CASE a \in Mine(c) /\ a.path # cache[c].version
      <4>1. a.path = cache'[c].version
        BY <2>5 DEF Writes, HasFile
      <4>2. a.path < cache[c].version
        BY <1>3, <2>3, <3>2
      <4> QED
        BY <1>3, <2>2, <2>3, <3>2, <4>1, <4>2
    <3> QED
      BY <1>7, <3>1, <3>2
  <2>6. cache'[c].dirty => \/ cache'[c].renamed \/ cache'[c].version < Version'
                           \/ \E a \in Mine(c)' : Writes(c, a)'
    <3> SUFFICES ASSUME cache'[c].dirty
                 PROVE  \/ cache'[c].renamed \/ cache'[c].version < Version'
                        \/ \E a \in Mine(c)' : Writes(c, a)'
      OBVIOUS
    <3>1. cache'[c] = cache[c]
      BY <1>1
    <3>2. \/ cache[c].renamed \/ cache[c].version < Version
          \/ \E a \in Mine(c) : Writes(c, a)
      BY <2>1, <3>1 DEF EditOK
    <3>3. Mine(c) \subseteq Mine(c)'
      BY <1>2, <1>5
    <3>4. \A a : Writes(c, a) => Writes(c, a)'
      BY <3>1 DEF Writes, HasFile
    <3> QED
      BY <1>3, <3>1, <3>2, <3>3, <3>4
  <2> QED
    BY <1>5, <2>4, <2>5, <2>6 DEF EditOK
<1>9. \A d \in Client \ {c} : \A a \in Mine(d) : IsOpen(a) => IsOpen(a)'
  BY <1>6
<1> QED
  BY <1>1, <1>3, <1>4, <1>8, <1>9, EditFrame

\* A write goes through a handle of the copy
LEMMA EditWrite ==
    ASSUME TypeInv, EditInv, NEW c \in Client, NEW a \in active[c], WriteLocal(c, a)
    PROVE  EditInv'
<1>1. /\ TypeInv' /\ Frame(c) /\ call[c] = Idle
      /\ UNCHANGED <<files, handles, call, active>>
      /\ cache'[c].version = cache[c].version
      /\ cache'[c].dirty = (cache[c].dirty \/ a.mode = "w")
      /\ cache'[c].renamed = cache[c].renamed
  BY WriteLocalType
<1>2. build' = build /\ HasFile(c, a)
  BY DEF WriteLocal
<1>3. /\ Version' = Version /\ overlap' = overlap /\ Version \in Nat
      /\ \A b : IsOpen(b)' <=> IsOpen(b)
      /\ \A b : Writes(c, b)' <=> Writes(c, b)
      /\ Mine(c)' = Mine(c)
  BY <1>1, EditTypes DEF Version, files, IsOpen, Writes, HasFile, Mine
<1>4. ASSUME ~overlap' PROVE EditOK(c)'
  <2>1. EditOK(c)
    BY <1>3, <1>4 DEF EditInv
  <2>2. cache'[c].dirty => \/ cache'[c].renamed \/ cache'[c].version < Version'
                           \/ \E b \in Mine(c)' : Writes(c, b)'
    <3>1. CASE cache[c].dirty
      BY <1>1, <1>3, <2>1, <3>1 DEF EditOK
    <3>2. CASE a.mode = "w"
      <4>1. a \in Mine(c) /\ Writes(c, a)
        BY <1>2, <3>2 DEF Mine, Writes
      <4> QED
        BY <1>3, <4>1
    <3> QED
      BY <1>1, <3>1, <3>2
  <2>3. \A b \in Mine(c)' : b.path <= cache'[c].version
    BY <1>1, <1>3, <2>1 DEF EditOK
  <2>4. build' = "grpc" /\ call'[c].stage \in Closing => call'[c].handle \in active'[c]
    BY <1>1, <1>2, <2>1 DEF EditOK
  <2>5. \A b \in Mine(c)' : Writes(c, b)' =>
          \/ IsOpen(b)' \/ (call'[c].stage \in Taken /\ call'[c].handle = b)
          \/ cache'[c].version < Version'
    BY <1>1, <1>3, <2>1 DEF EditOK
  <2> QED
    BY <2>2, <2>3, <2>4, <2>5 DEF EditOK
<1> QED
  BY <1>1, <1>2, <1>3, <1>4, EditFrame

\* The close that is sent keeps its handle; the gRPC build also leaves it in
\* active_handles
LEMMA EditSend ==
    ASSUME TypeInv, EditInv, NEW c \in Client, NEW a \in active[c], CloseSend(c, a)
    PROVE  EditInv'
<1>1. /\ TypeInv' /\ Frame(c) /\ call[c] = Idle
      /\ call'[c].stage = "close" /\ call'[c].handle = a
      /\ active'[c] \in {active[c], active[c] \ {a}}
      /\ UNCHANGED <<files, handles, cache>>
  BY CloseSendType
<1>2. build' = build /\ (build = "grpc" => active' = active)
  BY DEF CloseSend
<1>3. /\ Version' = Version /\ overlap' = overlap /\ Version \in Nat
      /\ \A b : IsOpen(b)' <=> IsOpen(b)
      /\ \A b : Writes(c, b)' <=> Writes(c, b)
  BY <1>1, EditTypes DEF Version, files, IsOpen, Writes, HasFile
<1>4. Mine(c)' = Mine(c) /\ call[c].stage \notin Closing
  BY <1>1, IdleOK DEF Mine, Closing, Taken, Writing
<1>5. ASSUME ~overlap' PROVE EditOK(c)'
  <2>1. EditOK(c)
    BY <1>3, <1>5 DEF EditInv
  <2>2. \A b \in Mine(c)' : b.path <= cache'[c].version
    BY <1>1, <1>4, <2>1 DEF EditOK
  <2>3. build' = "grpc" => call'[c].handle \in active'[c]
    BY <1>1, <1>2
  <2>4. \A b \in Mine(c)' : Writes(c, b)' => IsOpen(b)' \/ cache'[c].version < Version'
    BY <1>1, <1>3, <1>4, <2>1 DEF EditOK, Closing
  <2>5. cache'[c].dirty => \/ cache'[c].renamed \/ cache'[c].version < Version'
                           \/ \E b \in Mine(c)' : Writes(c, b)'
    BY <1>1, <1>3, <1>4, <2>1 DEF EditOK
  <2> QED
    BY <2>2, <2>3, <2>4, <2>5 DEF EditOK
<1> QED
  BY <1>1, <1>2, <1>3, <1>5, EditFrame

\* Close: a refused handle stays in active_handles; a handle that the server
\* does not know was closed by an earlier attempt, which made a new version
LEMMA EditTake ==
    ASSUME TypeInv, HandleInv, EditInv, NEW c \in Client, CloseTake(c)
    PROVE  EditInv'
<1> DEFINE own == call[c].handle
           hm == [h |-> own.h, mode |-> own.mode]
<1>1. TypeInv' /\ Frame(c) /\ call[c].stage = "close" /\ UNCHANGED <<files, client>>
  BY CloseTakeType
<1>2. \/ hm \notin handles /\ handles' = handles /\ call'[c] = Idle
      \/ build = "grpc" /\ handles' = handles /\ call'[c] = Idle
      \/ handles' = handles \ {hm} /\ call'[c].stage = "version" /\ call'[c].handle = own
  <2>1. \/ hm \notin handles /\ handles' = handles /\ Go(c, Idle)
        \/ build = "grpc" /\ handles' = handles /\ Go(c, Idle)
        \/ handles' = handles \ {hm} /\ Go(c, [call[c] EXCEPT !.stage = "version"])
    BY DEF CloseTake, Remaining
  <2>2. Go(c, Idle) => call'[c] = Idle
    BY DEF Go, TypeInv
  <2>3. call'[c] = Idle \/ (call'[c].stage = "version" /\ call'[c].handle = own)
    BY CloseTakeType
  <2>4. Go(c, [call[c] EXCEPT !.stage = "version"]) => call'[c].stage = "version"
    <3>1. "stage" \in DOMAIN call[c] /\ c \in DOMAIN call
      BY DEF TypeInv, CallOK
    <3> QED
      BY <3>1 DEF Go
  <2> QED
    BY <2>1, <2>2, <2>3, <2>4, IdleOK
<1>3. build' = build
  BY DEF CloseTake
<1>4. /\ Version' = Version /\ overlap' = overlap /\ Version \in Nat
      /\ cache' = cache /\ active' = active
      /\ \A b : Writes(c, b)' <=> Writes(c, b)
  BY <1>1, EditTypes DEF Version, files, client, Writes, HasFile
<1>5. Mine(c) = active[c] \cup {own}
  BY <1>1 DEF Mine, Closing
<1>6. \A d \in Client : \A b \in Mine(d) : IsOpen(b) /\ ~(d = c /\ b = own) => IsOpen(b)'
  <2> SUFFICES ASSUME NEW d \in Client, NEW b \in Mine(d), IsOpen(b), ~(d = c /\ b = own)
               PROVE  IsOpen(b)'
    OBVIOUS
  <2>1. b.h # own.h
    BY <1>5 DEF HandleInv, HandlesDiffer
  <2>2. [h |-> b.h, mode |-> b.mode] # hm
    BY <2>1
  <2> QED
    BY <1>2, <2>2 DEF IsOpen
<1>7. ASSUME ~overlap' PROVE EditOK(c)'
  <2>1. EditOK(c)
    BY <1>4, <1>7 DEF EditInv
  <2>2. CASE call'[c] = Idle
    <3>1. Mine(c)' = active[c] /\ call'[c].stage \notin Closing
      BY <1>4, <2>2, IdleOK DEF Mine, Closing, Taken, Writing
    <3>2. \A b \in Mine(c) : Writes(c, b) => IsOpen(b) \/ cache[c].version < Version
      BY <1>1, <2>1 DEF EditOK, Taken, Writing
    <3>3. \A b : IsOpen(b)' <=> IsOpen(b)
      BY <1>2, <2>2, IdleOK DEF IsOpen
    <3>4. \A b \in Mine(c)' : /\ b.path <= cache'[c].version
                              /\ Writes(c, b)' => IsOpen(b)' \/ cache'[c].version < Version'
      BY <1>4, <1>5, <2>1, <3>1, <3>2, <3>3 DEF EditOK
    <3>5. cache'[c].dirty => \/ cache'[c].renamed \/ cache'[c].version < Version'
                             \/ \E b \in Mine(c)' : Writes(c, b)'
      <4> SUFFICES ASSUME cache[c].dirty, ~cache[c].renamed, ~(cache[c].version < Version)
                   PROVE  \E b \in Mine(c)' : Writes(c, b)'
        BY <1>4
      <4>1. PICK b \in Mine(c) : Writes(c, b)
        BY <2>1 DEF EditOK
      <4>2. IsOpen(b)
        BY <3>2, <4>1
      <4>3. b = own => own \in active[c]
        <5>1. b = own => hm \in handles
          BY <4>2 DEF IsOpen
        <5>2. b = own => build = "grpc"
          BY <1>2, <2>2, <5>1, IdleOK
        <5> QED
          BY <1>1, <2>1, <5>2 DEF EditOK, Closing
      <4> QED
        BY <1>4, <1>5, <3>1, <4>1, <4>3
    <3> QED
      BY <3>1, <3>4, <3>5 DEF EditOK
  <2>3. CASE call'[c].stage = "version" /\ call'[c].handle = own
    <3>1. Mine(c)' = Mine(c) /\ call'[c].stage \in Taken
      BY <1>4, <1>5, <2>3 DEF Mine, Closing, Taken
    <3>2. build' = "grpc" => call'[c].handle \in active'[c]
      BY <1>1, <1>3, <1>4, <2>1, <2>3 DEF EditOK, Closing
    <3>3. \A b \in Mine(c) : Writes(c, b) => IsOpen(b) \/ cache[c].version < Version
      BY <1>1, <2>1 DEF EditOK, Taken, Writing
    <3>4. \A b \in Mine(c)' : Writes(c, b)' =>
            \/ IsOpen(b)' \/ call'[c].handle = b \/ cache'[c].version < Version'
      BY <1>4, <1>6, <2>3, <3>1, <3>3
    <3>5. \A b \in Mine(c)' : b.path <= cache'[c].version
      BY <1>4, <2>1, <3>1 DEF EditOK
    <3>6. cache'[c].dirty => \/ cache'[c].renamed \/ cache'[c].version < Version'
                             \/ \E b \in Mine(c)' : Writes(c, b)'
      BY <1>4, <2>1, <3>1 DEF EditOK
    <3> QED
      BY <3>1, <3>2, <3>4, <3>5, <3>6 DEF EditOK
  <2> QED
    BY <1>2, <2>2, <2>3
<1>8. \A d \in Client \ {c} : \A b \in Mine(d) : IsOpen(b) => IsOpen(b)'
  BY <1>6
<1> QED
  BY <1>1, <1>3, <1>4, <1>7, <1>8, EditFrame

\* The gRPC build does not send a request again
LEMMA AnsweredOnce ==
    ASSUME TypeInv, NEW c \in Client, build = "grpc",
           CloseCommit(c) \/ (CloseVersion(c) /\ call[c].handle.mode = "r")
    PROVE  call'[c] = Idle
<1>1. Resent(call[c]) = Idle
  BY DEF Resent
<1>2. Go(c, Idle) \/ Go(c, Resent(call[c]))
  <2>1. CASE CloseCommit(c)
    BY Zenon, <2>1 DEF CloseCommit, Deliver
  <2>2. CASE CloseVersion(c) /\ call[c].handle.mode = "r"
    BY <2>2 DEF CloseVersion, Deliver
  <2> QED
    BY <2>1, <2>2
<1> QED
  BY <1>1, <1>2 DEF Go, TypeInv

\* Close: a read close ends, and may give the copy the server's version
LEMMA EditVersion ==
    ASSUME TypeInv, FreshInv, EditInv, NEW c \in Client, CloseVersion(c)
    PROVE  EditInv'
<1> DEFINE own == call[c].handle
<1>1. TypeInv' /\ Frame(c) /\ call[c].stage = "version" /\ UNCHANGED <<files, handles>>
  BY CloseVersionType
<1>2. build' = build
  BY DEF CloseVersion
<1>3. /\ Version' = Version /\ overlap' = overlap /\ Version \in Nat /\ Version <= Version'
      /\ \A b : IsOpen(b)' <=> IsOpen(b)
  BY <1>1, EditTypes DEF Version, files, IsOpen
<1>4. CASE own.mode = "w"
  <2>1. /\ call'[c].stage = "truncate" /\ UNCHANGED <<cache, active>>
    BY <1>4 DEF CloseVersion, Go, TypeInv
  <2>2. call'[c].handle = own
    BY <1>4 DEF CloseVersion, Go, TypeInv
  <2> QED
    BY <1>1, <1>2, <1>3, <2>1, <2>2, EditQuiet DEF Taken, Writing
<1>5. CASE own.mode # "w"
  <2>1. own.mode = "r" /\ own \in Handle
    BY <1>1, <1>5 DEF TypeInv, CallOK, Handle, Mode, Closing, Taken
  <2>2. /\ call'[c] = Idle \/ (call'[c].stage = "close" /\ call'[c].handle = own)
        /\ active'[c] = active[c] \/ active'[c] = active[c] \ {own}
        /\ cache' = cache \/ cache' = Renamed(c, Version)
    <3>1. call'[c].stage # "truncate"
      BY <1>1, <1>5, IdleOK, CloseVersionType, Delivered DEF CloseVersion, Deliver, Go
    <3> QED
      BY <3>1, CloseVersionType
  <2>3. build = "grpc" => call'[c] = Idle
    BY <2>1, AnsweredOnce
  <2>4. /\ Mine(c) = active[c] \cup {own}
        /\ Mine(c)' \subseteq Mine(c) /\ Mine(c) \ {own} \subseteq Mine(c)'
    BY <1>1, <2>2, IdleOK DEF Mine, Closing, Taken, Writing
  <2>5. \/ /\ cache'[c].version = cache[c].version /\ cache'[c].dirty = cache[c].dirty
           /\ cache'[c].renamed = cache[c].renamed
        \/ /\ cache'[c].version = Version /\ Version # cache[c].version
           /\ cache'[c].renamed
    <3>1. CASE cache' = cache
      BY <3>1
    <3>2. CASE cache' = Renamed(c, Version)
      <4>1. /\ cache'[c].version = Version
            /\ cache'[c].dirty = (cache[c].dirty /\ own.mode = "r")
            /\ cache'[c].renamed = ((cache[c].renamed \/ Version # cache[c].version)
                                       /\ own.mode = "r")
        BY <1>3, <3>2, RenamedType
      <4>2. cache[c].dirty \in BOOLEAN /\ cache[c].renamed \in BOOLEAN
        BY EditTypes
      <4> QED
        BY <2>1, <4>1, <4>2
    <3> QED
      BY <2>2, <3>1, <3>2
  <2>6. ASSUME ~overlap' PROVE EditOK(c)'
    <3>1. EditOK(c) /\ cache[c].version <= Version /\ cache[c].version \in Nat
      BY <1>3, <2>6, EditTypes DEF EditInv, FreshInv
    <3>2. \A b \in Mine(c) : b.path \in Nat /\ b.path <= cache[c].version
      BY <3>1, EditTypes DEF EditOK
    <3>3. \A b \in Mine(c)' : b.path <= cache'[c].version
      BY <1>3, <2>4, <2>5, <3>1, <3>2
    <3>4. build' = "grpc" => call'[c].stage \notin Closing
      BY <1>2, <2>3, IdleOK DEF Closing, Taken, Writing
    <3>5. \A b \in Mine(c) : Writes(c, b)' =>
            Writes(c, b) /\ b # own /\ cache'[c].version = cache[c].version
      <4> SUFFICES ASSUME NEW b \in Mine(c), Writes(c, b)'
                   PROVE  Writes(c, b) /\ b # own /\ cache'[c].version = cache[c].version
        OBVIOUS
      <4>1. b.mode = "w" /\ b.path = cache'[c].version
        BY DEF Writes, HasFile
      <4>2. cache'[c].version = cache[c].version
        BY <1>3, <2>5, <3>1, <3>2, <4>1
      <4> QED
        BY <2>1, <4>1, <4>2 DEF Writes, HasFile
    <3>6. \A b \in Mine(c)' : Writes(c, b)' => IsOpen(b)' \/ cache'[c].version < Version'
      BY <1>3, <2>4, <3>1, <3>5 DEF EditOK
    <3>7. cache'[c].dirty => \/ cache'[c].renamed \/ cache'[c].version < Version'
                             \/ \E b \in Mine(c)' : Writes(c, b)'
      <4> SUFFICES ASSUME cache'[c].dirty, ~cache'[c].renamed, ~(cache'[c].version < Version')
                   PROVE  \E b \in Mine(c)' : Writes(c, b)'
        OBVIOUS
      <4>1. /\ cache'[c].version = cache[c].version
            /\ cache[c].dirty /\ ~cache[c].renamed /\ ~(cache[c].version < Version)
        BY <1>3, <2>5
      <4>2. PICK b \in Mine(c) : Writes(c, b)
        BY <3>1, <4>1 DEF EditOK
      <4>3. b # own /\ Writes(c, b)'
        BY <2>1, <4>1, <4>2 DEF Writes, HasFile
      <4> QED
        BY <2>4, <4>3
    <3> QED
      BY <3>3, <3>4, <3>6, <3>7 DEF EditOK
  <2>7. \A d \in Client \ {c} : \A b \in Mine(d) : IsOpen(b) => IsOpen(b)'
    BY <1>3
  <2> QED
    BY <1>1, <1>2, <1>3, <2>6, <2>7, EditFrame
<1> QED
  BY <1>4, <1>5

\* Close: the new version is above that of every copy, and of every handle
LEMMA EditCommit ==
    ASSUME TypeInv, FreshInv, EditInv, NEW c \in Client, CloseCommit(c)
    PROVE  EditInv'
<1> DEFINE own == call[c].handle
           new == call[c].current + 1
<1>1. /\ TypeInv' /\ Frame(c) /\ call[c].stage = "commit" /\ handles' = handles
      /\ version' = new /\ Overlap(c)
      /\ \/ /\ call'[c] = Idle /\ active'[c] = active[c] \ {own}
            /\ cache' = Renamed(c, new)
         \/ /\ UNCHANGED <<cache, active>>
            /\ call'[c] = Idle \/ (call'[c].stage = "close" /\ call'[c].handle = own)
  BY CloseCommitType
<1>2. build' = build
  BY DEF CloseCommit
<1>3. build = "grpc" => call'[c] = Idle
  BY AnsweredOnce
<1>4. call[c].current \in Nat /\ own.mode = "w" /\ Version \in Nat
  BY <1>1, EditTypes DEF TypeInv, CallOK, Closing, Taken, Writing
<1>5. Version' = new
  BY <1>1, <1>4 DEF Version
<1>6. \A b : IsOpen(b)' <=> IsOpen(b)
  BY <1>1 DEF IsOpen
<1>7. ASSUME ~overlap'
      PROVE  /\ ~overlap /\ EditOK(c) /\ Version' = Version + 1
             /\ cache[c].version \in Nat /\ cache[c].version <= Version
  <2>1. ~overlap
    BY <1>1, <1>7, Alone
  <2>2. HandlerSees(c) /\ cache[c].version <= Version /\ EditOK(c)
    BY <2>1 DEF FreshInv, EditInv
  <2>3. call[c].current = Version
    BY <1>1, <2>2 DEF HandlerSees, Writing
  <2> QED
    BY <1>5, <2>1, <2>2, <2>3, EditTypes
<1>8. Mine(c)' \subseteq Mine(c)
  BY <1>1, IdleOK DEF Mine, Closing, Taken, Writing
<1>9. build' = "grpc" => call'[c].stage \notin Closing
  BY <1>2, <1>3, IdleOK DEF Closing, Taken, Writing
<1>10. ASSUME ~overlap' PROVE EditOK(c)'
  <2>1. \A b \in Mine(c) : b.path \in Nat /\ b.path <= cache[c].version
    BY <1>7, <1>10, EditTypes DEF EditOK
  <2>2. CASE cache' = Renamed(c, new)
    <3>1. new \in Nat
      BY <1>4
    <3>2. cache'[c].version = new /\ cache'[c].dirty = (cache[c].dirty /\ own.mode = "r")
      BY <2>2, <3>1, RenamedType
    <3>3. ~cache'[c].dirty /\ cache'[c].version = Version + 1
      BY <1>4, <1>5, <1>7, <1>10, <3>2
    <3>4. \A b \in Mine(c) : b.path < cache'[c].version
      BY <1>4, <1>7, <1>10, <2>1, <3>3
    <3>5. \A b \in Mine(c)' : b.path <= cache'[c].version /\ ~Writes(c, b)'
      <4> SUFFICES ASSUME NEW b \in Mine(c)' PROVE b.path <= cache'[c].version /\ ~Writes(c, b)'
        OBVIOUS
      <4>1. b.path \in Nat /\ b.path < cache'[c].version /\ cache'[c].version \in Nat
        BY <1>4, <1>8, <2>1, <3>1, <3>2, <3>4
      <4>2. b.path <= cache'[c].version /\ b.path # cache'[c].version
        BY <4>1
      <4> QED
        BY <4>2 DEF Writes, HasFile
    <3> QED
      BY <1>9, <3>3, <3>5 DEF EditOK
  <2>3. CASE cache' = cache
    <3>1. cache'[c].version < Version'
      BY <1>4, <1>7, <1>10, <2>3
    <3>2. \A b \in Mine(c)' : b.path <= cache'[c].version
      BY <1>8, <2>1, <2>3
    <3> QED
      BY <1>9, <3>1, <3>2 DEF EditOK
  <2> QED
    BY <1>1, <2>2, <2>3
<1>11. ~overlap' => ~overlap /\ Version <= Version' /\ EditOK(c)'
  BY <1>4, <1>7, <1>10
<1>12. \A d \in Client \ {c} : \A b \in Mine(d) : IsOpen(b) => IsOpen(b)'
  BY <1>6
<1> QED
  BY <1>1, <1>2, <1>11, <1>12, EditFrame

\* Every step keeps that a changed copy has a handle for writing
LEMMA EditStep == TypeInv /\ HandleInv /\ FreshInv /\ EditInv /\ [Next]_vars => EditInv'
<1> SUFFICES ASSUME TypeInv, HandleInv, FreshInv, EditInv, [Next]_vars PROVE EditInv'
  OBVIOUS
<1>1. ASSUME UNCHANGED <<build, files, handles, call, client>> PROVE EditInv'
  BY <1>1 DEF EditInv, EditOK, Mine, IsOpen, Writes, HasFile, Version, files, client
<1>2. CASE UNCHANGED vars
  BY <1>1, <1>2 DEF vars
<1>3. ASSUME NEW c \in Client, ClientStep(c) PROVE EditInv'
  <2>0. TypeInv'
    BY TypeStep
  <2>1. CASE LockFile(c) \/ UnlockFile(c) \/ GetLockNotifications(c)
    BY <1>1, <2>1 DEF LockFile, UnlockFile, GetLockNotifications
  <2>2. CASE CreateCheck(c) \/ CreateMake(c) \/ CreateStamp(c)
    BY <2>2, EditCreate
  <2>3. CASE (\E mode \in {"r", "w"} : OpenTest(c, mode)) \/ OpenRead(c)
    <3>1. UNCHANGED <<build, files, handles, client>>
      BY <2>3 DEF OpenTest, OpenRead
    <3>2. /\ Frame(c) /\ call[c].stage \in {"idle", "read"}
          /\ call'[c].stage \in {"idle", "read", "grant"}
      <4>1. CASE \E mode \in {"r", "w"} : OpenTest(c, mode)
        BY <4>1, OpenTestType, IdleOK DEF Mode, OpenTest, Begin
      <4>2. CASE OpenRead(c)
        BY <4>2, OpenReadType, IdleOK
      <4> QED
        BY <2>3, <4>1, <4>2
    <3>3. call[c].stage \notin Closing /\ call'[c].stage \notin Closing
      BY <3>2 DEF Closing, Taken, Writing
    <3>4. active' = active /\ cache' = cache /\ overlap' = overlap /\ Version <= Version'
      <4>1. active' = active /\ cache' = cache /\ overlap' = overlap /\ Version' = Version
        BY <3>1 DEF client, files, Version
      <4> QED
        BY <4>1, EditTypes
    <3> QED
      BY <2>0, <3>1, <3>2, <3>3, <3>4, EditQuiet
  <2>4. CASE OpenGrant(c)
    BY <2>4, EditOpen
  <2>5. ASSUME NEW a \in active[c], WriteLocal(c, a) PROVE EditInv'
    BY <2>5, EditWrite
  <2>6. ASSUME NEW a \in active[c], CloseSend(c, a) PROVE EditInv'
    BY <2>6, EditSend
  <2>7. CASE CloseTake(c)
    BY <2>7, EditTake
  <2>8. CASE CloseVersion(c)
    BY <2>8, EditVersion
  <2>9. CASE CloseTruncate(c) \/ CloseWrite(c)
    <3>1. /\ Frame(c) /\ UNCHANGED <<version, handles, client>> /\ Overlap(c)
          /\ call[c].stage \in Taken /\ call'[c].stage \in Taken
          /\ call'[c].handle = call[c].handle
      BY <2>9, CloseDiskType DEF Taken, Writing
    <3>2. build' = build
      BY <2>9 DEF CloseTruncate, CloseWrite
    <3>3. ~overlap' => ~overlap
      BY <3>1 DEF Overlap
    <3>4. active' = active /\ cache' = cache /\ Version <= Version'
      <4>1. active' = active /\ cache' = cache /\ Version' = Version
        BY <3>1 DEF client, Version
      <4> QED
        BY <4>1, EditTypes
    <3> QED
      BY <2>0, <3>1, <3>2, <3>3, <3>4, EditQuiet
  <2>10. CASE CloseCommit(c)
    BY <2>10, EditCommit
  <2> QED
    BY <1>3, <2>1, <2>2, <2>3, <2>4, <2>5, <2>6, <2>7, <2>8, <2>9, <2>10 DEF ClientStep
<1>4. CASE Tick \/ \E t \in timers : Fire(t) \/ AutoRelease(t)
  <2>1. build' = build
    BY <1>4 DEF Tick, Fire, AutoRelease
  <2> QED
    BY <1>1, <1>4, <2>1, TimeFrame
<1> QED
  BY <1>2, <1>3, <1>4 DEF Next

\* In every execution a copy that would be used without a download has the
\* server's content between two handlers, except for what CacheIsFresh names:
\* a copy its client changed and has open for writing, one it changed through
\* a handle for reading and that no write close has sent since, handlers that
\* changed the file during one another, and a version that a read close of the
\* socket build gave to a copy.
THEOREM CopiesAreFresh == Spec => []CacheIsFresh
<1>1. TypeInv /\ FreshInv /\ EditInv => CacheIsFresh
  <2> SUFFICES ASSUME TypeInv, FreshInv, EditInv, NEW c \in Client,
                      ~overlap, \A d \in Client : ~InHandler(d), cache[c].version = Version,
                      ~(cache[c].dirty /\ OpenForWriting(c)),
                      ~cache[c].unsent, ~cache[c].renamed
               PROVE  cache[c].data = Contents
    BY DEF CacheIsFresh
  <2>1. \A d \in Client : ~Midway(d)
    BY DEF Midway, InHandler
  <2>2. ~cache[c].dirty
    <3> SUFFICES ASSUME cache[c].dirty PROVE OpenForWriting(c)
      OBVIOUS
    <3>1. ~(cache[c].version < Version)
      BY EditTypes
    <3>2. PICK a \in Mine(c) : Writes(c, a)
      BY <3>1 DEF EditInv, EditOK
    <3>3. call[c].stage \in Closing => "handle" \in DOMAIN call[c]
      BY DEF TypeInv, CallOK
    <3> QED
      BY <3>2, <3>3 DEF Mine, Writes, OpenForWriting
  <2> QED
    BY <2>1, <2>2 DEF FreshInv, Fresh
<1> QED
  BY <1>1, TypeInit, TypeStep, HandleInit, HandleStep, FreshInit, FreshStep, EditInit, EditStep,
     PTL DEF Spec

=============================================================================
