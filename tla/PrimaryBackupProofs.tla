------------------------- MODULE PrimaryBackupProofs -------------------------
(***************************************************************************)
(* Theorems about the primary-backup file system: ReplicaRoles, for its    *)
(* own specification, and PrimaryBackup, for FilesSpec.                    *)
(***************************************************************************)
EXTENDS PrimaryBackup, FiniteSetTheorems, SequenceTheorems, WellFoundedInduction, TLAPS

-----------------------------------------------------------------------------
(* Lowest                                                                  *)

\* A set of addresses has a lowest one
LEMMA LowestIs ==
    ASSUME NEW S, S \subseteq Nat, S # {}
    PROVE  Lowest(S) \in S /\ \A t \in S : Lowest(S) <= t
<1> DEFINE Less == {p \in Nat \X Nat : p[1] < p[2]}
<1>1. PICK x \in S : \A y \in S : ~(<<y, x>> \in Less)
  <2>1. IsWellFoundedOn(Less, Nat)
    BY NatLessThanWellFounded DEF OpToRel
  <2> HIDE DEF Less
  <2> QED
    BY <2>1, WFMin
<1>2. \A y \in S : x <= y
  <2> SUFFICES ASSUME NEW y \in S PROVE x <= y
    OBVIOUS
  <2>1. x \in Nat /\ y \in Nat
    OBVIOUS
  <2>2. <<y, x>> \in Nat \X Nat /\ <<y, x>>[1] = y /\ <<y, x>>[2] = x
    BY <2>1
  <2>3. y < x => <<y, x>> \in Less
    BY <2>2
  <2>4. ~(y < x)
    BY <1>1, <2>3
  <2> QED
    BY <2>1, <2>4
<1> QED
  BY <1>2 DEF Lowest

\* The lowest address is an address
LEMMA LowestOfServers ==
    ASSUME NEW S \in SUBSET Server, S # {}
    PROVE  Lowest(S) \in S /\ Lowest(S) \in Server /\ \A t \in S : Lowest(S) <= t
BY LowestIs, ServerAssumption

\* max(votes) of _query_peers_for_primary is one of the addresses peers named
LEMMA MostNamedIsNamed ==
    ASSUME NEW answers \in Seq(Server), answers # <<>>
    PROVE  \E k \in DOMAIN answers : MostNamed(answers) = answers[k]
<1> DEFINE votes(a) == Cardinality({k \in DOMAIN answers : answers[k] = a})
           n == Len(answers)
           best == {k \in DOMAIN answers :
                      \A l \in DOMAIN answers : votes(answers[l]) <= votes(answers[k])}
<1>1. n \in Nat /\ DOMAIN answers = 1..n /\ n > 0
  BY EmptySeq, LenProperties
<1>2. \A a : votes(a) \in 0..n
  <2> SUFFICES ASSUME NEW a PROVE votes(a) \in 0..n
    OBVIOUS
  <2>1. IsFiniteSet(1..n) /\ Cardinality(1..n) = n
    BY <1>1, FS_Interval
  <2>2. {k \in DOMAIN answers : answers[k] = a} \subseteq 1..n
    BY <1>1
  <2>3. /\ Cardinality({k \in DOMAIN answers : answers[k] = a}) <= Cardinality(1..n)
        /\ IsFiniteSet({k \in DOMAIN answers : answers[k] = a})
    BY <2>1, <2>2, FS_Subset
  <2>4. Cardinality({k \in DOMAIN answers : answers[k] = a}) \in Nat
    BY <2>3, FS_CardinalityType
  <2> QED
    BY <2>1, <2>3, <2>4, <1>1
<1>3. best # {}
  <2> DEFINE short == {n - votes(answers[k]) : k \in DOMAIN answers}
  <2>1. short \subseteq Nat /\ short # {}
    <3>1. \A k \in DOMAIN answers : n - votes(answers[k]) \in Nat
      <4> HIDE DEF votes, n
      <4> QED
        BY <1>1, <1>2
    <3>2. 1 \in DOMAIN answers
      BY <1>1
    <3> QED
      BY <3>1, <3>2
  <2>2. Lowest(short) \in short /\ \A t \in short : Lowest(short) <= t
    BY <2>1, LowestIs
  <2>3. PICK k \in DOMAIN answers : Lowest(short) = n - votes(answers[k])
    BY <2>2
  <2>4. \A l \in DOMAIN answers : n - votes(answers[k]) <= n - votes(answers[l])
    <3>1. \A l \in DOMAIN answers : n - votes(answers[l]) \in short
      OBVIOUS
    <3> HIDE DEF votes, n, short
    <3> QED
      BY <2>2, <2>3, <3>1
  <2>5. \A l \in DOMAIN answers : votes(answers[l]) <= votes(answers[k])
    <3> HIDE DEF votes, n
    <3> QED
      BY <1>1, <1>2, <2>4
  <2> QED
    BY <2>5
<1>4. Lowest(best) \in best
  <2>1. best \subseteq Nat
    BY <1>1
  <2> QED
    BY <2>1, <1>3, LowestIs
<1>5. MostNamed(answers) = answers[Lowest(best)]
  BY DEF MostNamed
<1> QED
  BY <1>4, <1>5

\* What a starting server goes by is an address: an answer of a peer, or the
\* lowest address
LEMMA ClaimedIsServer ==
    ASSUME NEW answers \in Seq(Server)
    PROVE  Claimed(answers) \in Server
<1>1. Lowest(Server) \in Server
  BY LowestOfServers, ServerAssumption
<1>2. CASE answers = <<>>
  BY <1>1, <1>2 DEF Claimed
<1>3. CASE answers # <<>>
  <2>1. PICK k \in DOMAIN answers : MostNamed(answers) = answers[k]
    BY <1>3, MostNamedIsNamed
  <2>2. answers[k] \in Server
    BY <2>1, ElementOfSeq, LenProperties
  <2> QED
    BY <1>3, <2>1, <2>2 DEF Claimed
<1> QED
  BY <1>2, <1>3

-----------------------------------------------------------------------------
(* The types of ReplicaRoles                                               *)

TaskType ==
    [pc : {"down", "query", "sync", "install", "elect", "announce", "idle"},
     todo : SUBSET Server, alive : SUBSET Server, answers : Seq(Server), boot : BOOLEAN]

\* A candidate counts itself, a server that is down answers nobody, and
\* nobody calls itself
ThreadInv ==
    \A i \in Server :
        /\ task[i].pc = "elect" => i \in task[i].alive
        /\ task[i].pc = "down" => i \notin listening
        /\ task[i].todo \subseteq Peers(i)

RolesType == TypeOK /\ ThreadInv

\* What a step of PrimaryBackup that is no step of ReplicaRoles does here: a
\* call of another thread fails
OtherFault ==
    /\ UNCHANGED <<threadVars, heard, isolated, crashes, restarts, calm>>
    /\ \/ faults' = faults
       \/ faults < MaxFaults /\ faults' = faults + 1

\* A call between servers disturbs nothing but the count of the faults
LEMMA CallFacts ==
    ASSUME TypeOK, NEW i, NEW p, Answered(i, p) \/ Failed(i, p)
    PROVE  /\ UNCHANGED <<isolated, crashes, restarts>>
           /\ faults' \in 0..MaxFaults
BY RolesBoundAssumption DEF TypeOK, Answered, Failed, faultVars

\* The tasks of a thread that waits and of a server that is down
LEMMA IdleAndDown ==
    /\ Idle \in TaskType /\ Idle.pc = "idle" /\ Idle.todo = {}
    /\ Down \in TaskType /\ Down.pc = "down" /\ Down.todo = {}
BY DEF Idle, Down, Task, TaskType

\* An election starts with every peer to call, and its holder alive
LEMMA PollFacts ==
    ASSUME NEW i \in Server, NEW boot \in BOOLEAN
    PROVE  /\ Poll(i, boot) \in TaskType
           /\ Poll(i, boot).pc = "elect" /\ Poll(i, boot).todo = Peers(i)
           /\ Poll(i, boot).alive = {i}
BY DEF Poll, Task, TaskType, Peers

\* The thread of server i goes on
LEMMA GotoFacts ==
    ASSUME TypeOK, ThreadInv, NEW i \in Server, NEW t \in TaskType, Goto(i, t),
           t.pc = "elect" => i \in t.alive,
           t.pc = "down" => i \notin listening',
           t.todo \subseteq Peers(i),
           \A k \in Server : k # i /\ k \in listening' => k \in listening
    PROVE  /\ task' \in [Server -> TaskType] /\ ThreadInv'
           /\ task'[i] = t
           /\ \A k \in Server : k # i => task'[k] = task[k]
<1>1. task \in [Server -> TaskType]
  BY DEF TypeOK, TaskType
<1>2. task' = [task EXCEPT ![i] = t]
  BY DEF Goto
<1>3. /\ task' \in [Server -> TaskType] /\ task'[i] = t
      /\ \A k \in Server : k # i => task'[k] = task[k]
  BY <1>1, <1>2
<1>4. ThreadInv'
  BY <1>3 DEF ThreadInv, Peers
<1> QED
  BY <1>3, <1>4

\* The types of roles, addresses and tasks, step by step
LEMMA RolesTypeNext ==
    ASSUME RolesType, Next \/ OtherFault \/ UNCHANGED roleVars
    PROVE  RolesType'
<1> USE DEF RolesType
<1>a. /\ role \in [Server -> {"unknown", "primary", "backup"}]
      /\ primaryAddr \in [Server -> Server]
      /\ listening \subseteq Server
      /\ task \in [Server -> TaskType]
      /\ heard \in [Server -> SUBSET Server]
      /\ isolated \subseteq Server
      /\ crashes \in 0..MaxCrashes /\ restarts \in 0..MaxRestarts /\ faults \in 0..MaxFaults
      /\ calm \in BOOLEAN
  BY DEF TypeOK, TaskType
<1>b. SUFFICES ASSUME Next PROVE RolesType'
  <2>1. CASE OtherFault
    BY <1>a, <2>1, RolesBoundAssumption DEF OtherFault, threadVars, TypeOK, TaskType, ThreadInv
  <2>2. CASE UNCHANGED roleVars
    BY <2>2 DEF roleVars, threadVars, faultVars, TypeOK, ThreadInv
  <2> QED
    BY <2>1, <2>2
<1>c. PICK i \in Server :
        \/ ThreadStep(i)
        \/ \E p \in Server : Heartbeat(i, p)
        \/ Start(i) \/ Crash(i) \/ Isolate(i) \/ Heal(i)
  BY <1>b DEF Next
<1>d. /\ task[i].pc \in {"down", "query", "sync", "install", "elect", "announce", "idle"}
      /\ task[i].todo \subseteq Server /\ task[i].alive \subseteq Server
      /\ task[i].answers \in Seq(Server) /\ task[i].boot \in BOOLEAN
      /\ task[i] \in TaskType
      /\ task[i].todo \subseteq Peers(i)
      /\ Peers(i) \subseteq Server
  BY <1>a DEF TaskType, ThreadInv, Peers
<1>e. Lowest(Server) \in Server
  BY LowestOfServers, ServerAssumption
\* TypeOK' when the thread's task and little else changes
<1>f. ASSUME NEW t \in TaskType, Goto(i, t),
             t.pc = "elect" => i \in t.alive, t.pc = "down" => i \notin listening',
             t.todo \subseteq Peers(i),
             role' \in [Server -> {"unknown", "primary", "backup"}],
             primaryAddr' \in [Server -> Server],
             listening' \subseteq listening \cup {i},
             heard' \in [Server -> SUBSET Server],
             isolated' = isolated,
             crashes' \in 0..MaxCrashes /\ restarts' \in 0..MaxRestarts,
             faults' \in 0..MaxFaults, calm' \in BOOLEAN
      PROVE  RolesType'
  <2>1. task' \in [Server -> TaskType] /\ ThreadInv'
    <3>1. \A k \in Server : k # i /\ k \in listening' => k \in listening
      BY <1>f
    <3> QED
      BY <1>f, <3>1, GotoFacts
  <2>2. listening' \subseteq Server
    BY <1>a, <1>f
  <2> QED
    BY <1>a, <1>f, <2>1, <2>2 DEF TypeOK, TaskType
<1>1. CASE QueryPeer(i)
  <2> DEFINE p == Lowest(task[i].todo)
             t1 == [task[i] EXCEPT !.todo = @ \ {p}, !.answers = Append(@, primaryAddr[p])]
             t2 == [task[i] EXCEPT !.todo = @ \ {p}]
  <2>1. p \in Server
    BY <1>1, <1>d, LowestOfServers DEF QueryPeer
  <2>2. primaryAddr[p] \in Server
    BY <1>a, <2>1
  <2>3. Append(task[i].answers, primaryAddr[p]) \in Seq(Server)
    BY <1>d, <2>2, AppendProperties
  <2>4. t1 \in TaskType /\ t1.pc = "query" /\ t1.todo \subseteq Peers(i)
    BY <1>1, <1>d, <2>3 DEF TaskType, QueryPeer
  <2>5. t2 \in TaskType /\ t2.pc = "query" /\ t2.todo \subseteq Peers(i)
    BY <1>1, <1>d DEF TaskType, QueryPeer
  <2>6. PICK t \in {t1, t2} : Goto(i, t) /\ (Answered(i, p) \/ Failed(i, p))
    BY <1>1 DEF QueryPeer
  <2>7. UNCHANGED <<isolated, crashes, restarts>> /\ faults' \in 0..MaxFaults
    BY <2>6, CallFacts
  <2>8. UNCHANGED <<role, primaryAddr, listening, heard, calm>>
    BY <1>1 DEF QueryPeer
  <2>9. t \in TaskType /\ t.pc = "query" /\ t.todo \subseteq Peers(i)
    BY <2>4, <2>5
  <2> HIDE DEF t1, t2, p
  <2> QED
    BY <1>a, <2>6, <2>7, <2>8, <2>9, <1>f
<1>2. CASE StartAsPrimary(i)
  BY <1>2, <1>a, <1>d, <1>f, IdleAndDown DEF StartAsPrimary, faultVars
<1>3. CASE StartAsBackup(i)
  <2> DEFINE t == Task("sync", {}, {}, <<>>, TRUE)
  <2>1. t \in TaskType /\ t.pc = "sync" /\ t.todo = {}
    BY DEF Task, TaskType
  <2>2. Claimed(task[i].answers) \in Server
    BY <1>d, ClaimedIsServer
  <2> HIDE DEF t
  <2>3. Goto(i, t)
    BY <1>3 DEF StartAsBackup, t
  <2>4. /\ role' \in [Server -> {"unknown", "primary", "backup"}]
        /\ primaryAddr' \in [Server -> Server]
        /\ UNCHANGED <<listening, heard, isolated, crashes, restarts, faults, calm>>
    BY <1>3, <1>a, <2>2 DEF StartAsBackup, faultVars
  <2> QED
    BY <1>a, <2>1, <2>3, <2>4, <1>f
<1>4. CASE SyncAnswered(i)
  <2> DEFINE t == Task("install", {}, {}, <<>>, TRUE)
  <2>1. t \in TaskType /\ t.pc = "install" /\ t.todo = {}
    BY DEF Task, TaskType
  <2> HIDE DEF t
  <2>3. Goto(i, t)
    BY <1>4 DEF SyncAnswered, t
  <2>4. UNCHANGED <<role, primaryAddr, listening, heard, isolated, crashes, restarts, faults, calm>>
    BY <1>4, <1>a DEF SyncAnswered, faultVars
  <2> QED
    BY <1>a, <2>1, <2>3, <2>4, <1>f
<1>5. CASE Install(i)
  BY <1>5, <1>a, <1>d, <1>f, IdleAndDown DEF Install, faultVars
<1>6. CASE SyncGaveUp(i)
  <2>1. UNCHANGED <<isolated, crashes, restarts>> /\ faults' \in 0..MaxFaults
    BY <1>6, CallFacts DEF SyncGaveUp
  <2>2. Goto(i, Poll(i, TRUE)) /\ UNCHANGED <<role, primaryAddr, listening, heard, calm>>
    BY <1>6 DEF SyncGaveUp
  <2>3. /\ Poll(i, TRUE) \in TaskType /\ Poll(i, TRUE).pc = "elect"
        /\ Poll(i, TRUE).todo = Peers(i) /\ Poll(i, TRUE).alive = {i}
    BY PollFacts
  <2> QED
    BY <1>a, <2>1, <2>2, <2>3, <1>f
<1>7. CASE DetectFailure(i)
  <2>1. UNCHANGED <<isolated, crashes, restarts>> /\ faults' \in 0..MaxFaults
    BY <1>7, CallFacts DEF DetectFailure, Suspect
  <2>2. Goto(i, Poll(i, FALSE)) /\ UNCHANGED <<role, primaryAddr, listening, heard, calm>>
    BY <1>7 DEF DetectFailure
  <2>3. /\ Poll(i, FALSE) \in TaskType /\ Poll(i, FALSE).pc = "elect"
        /\ Poll(i, FALSE).todo = Peers(i) /\ Poll(i, FALSE).alive = {i}
    BY PollFacts
  <2> QED
    BY <1>a, <2>1, <2>2, <2>3, <1>f
<1>8. CASE PollPeer(i)
  <2> DEFINE p == Lowest(task[i].todo)
             t1 == [task[i] EXCEPT !.todo = @ \ {p}, !.alive = @ \cup {p}]
             t2 == [task[i] EXCEPT !.todo = @ \ {p}]
  <2>1. p \in Server
    BY <1>8, <1>d, LowestOfServers DEF PollPeer
  <2>2. i \in task[i].alive /\ task[i].pc = "elect"
    BY <1>8 DEF ThreadInv, PollPeer
  <2>4. t1 \in TaskType /\ i \in t1.alive /\ t1.pc = "elect" /\ t1.todo \subseteq Peers(i)
    BY <1>d, <2>1, <2>2 DEF TaskType
  <2>5. t2 \in TaskType /\ i \in t2.alive /\ t2.pc = "elect" /\ t2.todo \subseteq Peers(i)
    BY <1>d, <2>2 DEF TaskType
  <2>6. PICK t \in {t1, t2} : Goto(i, t) /\ (Answered(i, p) \/ Failed(i, p))
    BY <1>8 DEF PollPeer
  <2>7. UNCHANGED <<isolated, crashes, restarts>> /\ faults' \in 0..MaxFaults
    BY <2>6, CallFacts
  <2>8. UNCHANGED <<role, primaryAddr, listening, heard, calm>>
    BY <1>8 DEF PollPeer
  <2>9. t \in TaskType /\ i \in t.alive /\ t.pc = "elect" /\ t.todo \subseteq Peers(i)
    BY <2>4, <2>5
  <2> HIDE DEF t1, t2, p
  <2> QED
    BY <1>a, <2>6, <2>7, <2>8, <2>9, <1>f
<1>9. CASE Elect(i)
  <2> DEFINE t == Task("announce", IF NewPrimary(i) = i THEN Peers(i) ELSE {}, {}, <<>>,
                       task[i].boot)
  <2>1. t \in TaskType /\ t.pc = "announce" /\ t.todo \subseteq Peers(i)
    BY <1>d DEF Task, TaskType
  <2>2. NewPrimary(i) \in Server
    <3>1. i \in task[i].alive
      BY <1>9 DEF ThreadInv, Elect
    <3> QED
      BY <1>d, <3>1, LowestOfServers DEF NewPrimary
  <2> HIDE DEF t
  <2>3. Goto(i, t)
    BY <1>9 DEF Elect, t
  <2>4. /\ role' \in [Server -> {"unknown", "primary", "backup"}]
        /\ primaryAddr' \in [Server -> Server]
        /\ UNCHANGED <<listening, heard, isolated, crashes, restarts, faults, calm>>
    BY <1>9, <1>a, <2>2 DEF Elect, faultVars
  <2> QED
    BY <1>a, <2>1, <2>3, <2>4, <1>f
<1>10. CASE SkipAnnouncement(i)
  <2> DEFINE t == [task[i] EXCEPT !.todo = {}]
  <2>1. t \in TaskType /\ t.pc = "announce" /\ t.todo = {}
    BY <1>10, <1>d DEF TaskType, SkipAnnouncement
  <2> HIDE DEF t
  <2>3. Goto(i, t)
    BY <1>10 DEF SkipAnnouncement, t
  <2>4. UNCHANGED <<role, primaryAddr, listening, heard, isolated, crashes, restarts, faults, calm>>
    BY <1>10, <1>a DEF SkipAnnouncement, faultVars
  <2> QED
    BY <1>a, <2>1, <2>3, <2>4, <1>f
<1>11. CASE AnnounceToPeer(i)
  <2> DEFINE p == Lowest(task[i].todo)
             t == [task[i] EXCEPT !.todo = @ \ {p}]
  <2>1. p \in Server
    BY <1>11, <1>d, LowestOfServers DEF AnnounceToPeer
  <2>5. t \in TaskType /\ t.pc = "announce" /\ t.todo \subseteq Peers(i)
    BY <1>11, <1>d DEF TaskType, AnnounceToPeer
  <2>6. Goto(i, t) /\ (Answered(i, p) \/ Failed(i, p))
    BY <1>11 DEF AnnounceToPeer
  <2>7. UNCHANGED <<isolated, crashes, restarts>> /\ faults' \in 0..MaxFaults
    BY <2>6, CallFacts
  <2>8. UNCHANGED <<listening, heard, calm>>
    BY <1>11 DEF AnnounceToPeer
  <2>9. /\ role' \in [Server -> {"unknown", "primary", "backup"}]
        /\ primaryAddr' \in [Server -> Server]
    BY <1>11, <1>a, <2>1 DEF AnnounceToPeer
  <2> HIDE DEF t, p
  <2> QED
    BY <1>a, <2>5, <2>6, <2>7, <2>8, <2>9, <1>f
<1>12. CASE EndElection(i)
  BY <1>12, <1>a, <1>d, <1>f, IdleAndDown DEF EndElection, faultVars
<1>13. CASE \E p \in Server : Heartbeat(i, p)
  <2>1. PICK p \in Server : Heartbeat(i, p)
    BY <1>13
  <2>2. heard' \in [Server -> SUBSET Server]
    BY <1>a, <2>1 DEF Heartbeat
  <2> QED
    BY <2>1, <2>2 DEF Heartbeat, threadVars, faultVars, TypeOK, ThreadInv
<1>14. CASE Start(i)
  <2> DEFINE t == Task("query", Peers(i), {}, <<>>, TRUE)
  <2>1. t \in TaskType /\ t.pc = "query" /\ t.todo \subseteq Peers(i)
    BY <1>d DEF Task, TaskType
  <2> HIDE DEF t
  <2>3. Goto(i, t)
    BY <1>14 DEF Start, t
  <2>4. /\ role' \in [Server -> {"unknown", "primary", "backup"}]
        /\ primaryAddr' \in [Server -> Server]
        /\ heard' \in [Server -> SUBSET Server]
        /\ UNCHANGED <<listening, isolated, crashes, faults>>
    BY <1>14, <1>a, <1>e DEF Start
  <2>5. restarts' \in 0..MaxRestarts /\ calm' \in BOOLEAN
    BY <1>14, <1>a, RolesBoundAssumption DEF Start
  <2> QED
    BY <1>a, <2>1, <2>3, <2>4, <2>5, <1>f
<1>15. CASE Crash(i)
  <2>1. crashes' \in 0..MaxCrashes /\ calm' \in BOOLEAN
    BY <1>15, <1>a, RolesBoundAssumption DEF Crash
  <2>2. Goto(i, Down) /\ UNCHANGED <<role, primaryAddr, heard, isolated, restarts, faults>>
    BY <1>15 DEF Crash
  <2>3. listening' \subseteq listening \cup {i} /\ i \notin listening'
    BY <1>15 DEF Crash
  <2> QED
    BY <1>a, <2>1, <2>2, <2>3, <1>f, IdleAndDown
<1>16. CASE Isolate(i)
  BY <1>16, <1>a, RolesBoundAssumption DEF Isolate, threadVars, TypeOK, TaskType, ThreadInv
<1>17. CASE Heal(i)
  BY <1>17, <1>a DEF Heal, threadVars, TypeOK, TaskType, ThreadInv
<1> QED
  BY <1>c, <1>1, <1>2, <1>3, <1>4, <1>5, <1>6, <1>7, <1>8, <1>9, <1>10, <1>11, <1>12,
     <1>13, <1>14, <1>15, <1>16, <1>17 DEF ThreadStep

\* ... and in the initial cluster
LEMMA RolesTypeInit == Init => RolesType
<1> SUFFICES ASSUME Init PROVE RolesType
  OBVIOUS
<1>1. Lowest(Server) \in Server
  BY LowestOfServers, ServerAssumption
<1>2. /\ role \in [Server -> {"unknown", "primary", "backup"}]
      /\ primaryAddr \in [Server -> Server]
      /\ listening \subseteq Server
      /\ heard \in [Server -> SUBSET Server]
      /\ isolated \subseteq Server
      /\ crashes \in 0..MaxCrashes /\ restarts \in 0..MaxRestarts /\ faults \in 0..MaxFaults
      /\ calm \in BOOLEAN
  BY <1>1, RolesBoundAssumption DEF Init, Peers
<1>3. task \in [Server -> TaskType] /\ \A i \in Server : task[i] = Idle
  BY IdleAndDown DEF Init
<1>4. ThreadInv
  BY <1>3, IdleAndDown DEF ThreadInv
<1> QED
  BY <1>2, <1>3, <1>4 DEF RolesType, TypeOK, TaskType

\* Servers, roles and threads have their types, whatever crashes, restarts
\* and partitions do: a server always goes by an address of the cluster,
\* although the answers of its peers may be stale or missing and an election
\* may find nobody but the server itself.
THEOREM RolesTyped == Spec => []TypeOK
<1>1. RolesType /\ [Next]_roleVars => RolesType'
  BY RolesTypeNext
<1>2. RolesType => TypeOK
  BY DEF RolesType
<1> QED
  BY <1>1, <1>2, RolesTypeInit, PTL DEF Spec

-----------------------------------------------------------------------------
(* One primary                                                             *)

\* A server that answers holds no election without having called, or being
\* about to call, every server that answers; and it announces only itself
QuietThread(i) ==
    \/ task[i] = Idle
    \/ task[i].pc = "elect" /\ listening \subseteq task[i].alive \cup task[i].todo
    \/ task[i].pc = "announce" /\ (task[i].todo # {} => role[i] = "primary")

\* Server s starts among servers that follow p: p is named by all the peers
\* s has asked, and by at least one of those it will have asked
QuietStart(s, p) ==
    /\ \A i \in listening : primaryAddr[i] = p /\ task[i] = Idle
    /\ \/ /\ task[s].pc = "query"
          /\ \A k \in DOMAIN task[s].answers : task[s].answers[k] = p
          /\ p \in task[s].todo \/ task[s].answers # <<>>
       \/ task[s].pc \in {"sync", "install"} /\ primaryAddr[s] = p

\* A server with a lower address than a primary follows it: only a server
\* that is the lowest one it can reach takes the role, unless it joined later
LowestLeads ==
    \A q \in Primaries : \A i \in listening :
        i >= q \/ (primaryAddr[i] = q /\ task[i] = Idle)

QuietBody ==
    /\ isolated = {}
    /\ \A i \in listening : QuietThread(i)
    /\ LowestLeads
    /\ \A q, r \in Primaries : q = r
    /\ \A s \in Starting : \E p \in Primaries : QuietStart(s, p)

QuietInv == calm /\ faults = 0 => QuietBody

\* Without restarts nobody starts
NoRestartInv == restarts = 0 => calm /\ Starting = {}

RolesInv == RolesType /\ QuietInv /\ NoRestartInv

\* The types of the variables of ReplicaRoles, one by one
LEMMA RoleTypes ==
    ASSUME RolesType
    PROVE  /\ role \in [Server -> {"unknown", "primary", "backup"}]
           /\ primaryAddr \in [Server -> Server]
           /\ listening \subseteq Server
           /\ task \in [Server -> TaskType]
           /\ heard \in [Server -> SUBSET Server]
           /\ isolated \subseteq Server
           /\ crashes \in Nat /\ restarts \in Nat /\ faults \in Nat
           /\ calm \in BOOLEAN
           /\ ThreadInv
           /\ Primaries \subseteq listening
           /\ Server \subseteq Nat
BY ServerAssumption, RolesBoundAssumption DEF RolesType, TypeOK, TaskType, Primaries

\* Without faults a call fails only when its peer does not answer
LEMMA CallOutcome ==
    ASSUME RolesType, isolated = {}, NEW i, NEW p, faults = 0, faults' = 0
    PROVE  /\ Answered(i, p) => p \in listening
           /\ Failed(i, p) => p \notin listening
BY RoleTypes DEF Answered, Failed, Reach

\* Nobody calls himself in the next step either, and the step changes the
\* task of one server only
LEMMA StepOfThread ==
    ASSUME RolesType, RolesType', NEW i \in Server, NEW t, Goto(i, t)
    PROVE  /\ task'[i] = t
           /\ \A k \in Server : k # i => task'[k] = task[k]
BY RoleTypes DEF Goto

\* Faults and disturbances are never taken back
LEMMA QuietBefore ==
    ASSUME RolesType, Next \/ OtherFault, calm', faults' = 0
    PROVE  calm /\ faults = 0
<1>1. faults \in Nat
  BY RoleTypes
<1>2. CASE OtherFault
  BY <1>1, <1>2 DEF OtherFault
<1>3. CASE Next
  <2>1. PICK i \in Server :
          \/ ThreadStep(i)
          \/ \E p \in Server : Heartbeat(i, p)
          \/ Start(i) \/ Crash(i) \/ Isolate(i) \/ Heal(i)
    BY <1>3 DEF Next
  <2>2. ASSUME NEW p, Answered(i, p) \/ Failed(i, p) PROVE faults = 0
    BY <1>1, <2>2 DEF Answered, Failed, faultVars
  <2>3. CASE ThreadStep(i)
    <3>1. faults = 0
      BY <2>2, <2>3 DEF ThreadStep, QueryPeer, StartAsPrimary, StartAsBackup, SyncAnswered,
         Install, SyncGaveUp, DetectFailure, Suspect, PollPeer, Elect, SkipAnnouncement,
         AnnounceToPeer, EndElection, faultVars
    <3>2. calm
      BY <2>3 DEF ThreadStep, QueryPeer, StartAsPrimary, StartAsBackup, SyncAnswered,
         Install, SyncGaveUp, DetectFailure, Suspect, PollPeer, Elect, SkipAnnouncement,
         AnnounceToPeer, EndElection
    <3> QED
      BY <3>1, <3>2
  <2>4. CASE \E p \in Server : Heartbeat(i, p)
    BY <2>4 DEF Heartbeat, faultVars
  <2>5. CASE Start(i)
    BY <2>5 DEF Start
  <2>6. CASE Crash(i)
    BY <2>6 DEF Crash
  <2>7. CASE Isolate(i)
    BY <2>7, <1>1 DEF Isolate
  <2>8. CASE Heal(i)
    BY <2>8 DEF Heal
  <2> QED
    BY <2>1, <2>3, <2>4, <2>5, <2>6, <2>7, <2>8
<1> QED
  BY <1>2, <1>3

\* The steps of a server that starts: it becomes a backup of the primary the
\* others follow
LEMMA QuietStartStep ==
    ASSUME RolesInv, RolesType', calm, faults = 0, faults' = 0, NEW i \in Server,
           \/ QueryPeer(i) \/ StartAsPrimary(i) \/ StartAsBackup(i)
           \/ SyncAnswered(i) \/ Install(i) \/ SyncGaveUp(i)
    PROVE  QuietBody'
<1>a. QuietBody
  BY DEF RolesInv, QuietInv
<1>b. RolesType
  BY DEF RolesInv
<1>c. i \notin listening /\ task[i].pc \in {"query", "sync", "install"}
  <2>1. task[i].pc \in {"query", "sync", "install"}
    BY DEF QueryPeer, StartAsPrimary, StartAsBackup, SyncAnswered, Install, SyncGaveUp
  <2>2. i \in listening => QuietThread(i)
    BY <1>a DEF QuietBody
  <2> QED
    BY <2>1, <2>2, IdleAndDown DEF QuietThread
<1>d. i \in Starting
  BY <1>c DEF Starting
<1>e. PICK p \in Primaries : QuietStart(i, p)
  BY <1>a, <1>d DEF QuietBody
<1>f. p \in listening /\ p \in Server /\ p # i /\ isolated = {} /\ isolated' = {}
  <2>1. p \in listening /\ p \in Server /\ isolated = {}
    BY <1>a, <1>b, RoleTypes DEF QuietBody
  <2>2. UNCHANGED isolated
    BY DEF QueryPeer, StartAsPrimary, StartAsBackup, SyncAnswered, Install, SyncGaveUp,
       Answered, Failed, faultVars
  <2> QED
    BY <1>c, <2>1, <2>2
<1>g. /\ role \in [Server -> {"unknown", "primary", "backup"}]
      /\ primaryAddr \in [Server -> Server]
      /\ listening \subseteq Server /\ Server \subseteq Nat
      /\ task[i].answers \in Seq(Server)
      /\ \A k \in listening : primaryAddr[k] = p /\ task[k] = Idle
      /\ \A q \in Primaries : q = p
  BY <1>a, <1>b, <1>e, RoleTypes DEF QuietBody, QuietStart, TaskType
\* When the server does not listen yet
<1>h. ASSUME UNCHANGED listening, NEW t, Goto(i, t),
             \A k \in Server : k # i => role'[k] = role[k] /\ primaryAddr'[k] = primaryAddr[k],
             \/ /\ t.pc = "query"
                /\ \A k \in DOMAIN t.answers : t.answers[k] = p
                /\ p \in t.todo \/ t.answers # <<>>
             \/ t.pc \in {"sync", "install"} /\ primaryAddr'[i] = p
      PROVE  QuietBody'
  <2>1. task'[i] = t /\ \A k \in Server : k # i => task'[k] = task[k]
    BY <1>b, <1>h, StepOfThread
  <2>2. \A k \in listening : k \in Server /\ k # i
    BY <1>c, <1>g
  <2>3. Primaries' = Primaries
    BY <1>h, <2>2 DEF Primaries
  <2>4. \A k \in listening' : task'[k] = Idle /\ primaryAddr'[k] = p
    BY <1>g, <1>h, <2>1, <2>2
  <2>5. LowestLeads'
    BY <1>g, <2>3, <2>4 DEF LowestLeads
  <2>6. \A k \in listening' : QuietThread(k)'
    BY <2>4, IdleAndDown DEF QuietThread
  <2>7. \A s \in Starting' : QuietStart(s, p)'
    <3> SUFFICES ASSUME NEW s \in Starting' PROVE QuietStart(s, p)'
      OBVIOUS
    <3>1. CASE s = i
      BY <1>h, <2>1, <2>4, <3>1 DEF QuietStart
    <3>2. CASE s # i
      <4>1. s \in Server /\ s \in Starting /\ task'[s] = task[s] /\ primaryAddr'[s] = primaryAddr[s]
        BY <3>2, <2>1, <1>h DEF Starting
      <4>2. QuietStart(s, p)
        BY <1>a, <1>g, <4>1 DEF QuietBody
      <4> QED
        BY <2>4, <4>1, <4>2 DEF QuietStart
    <3> QED
      BY <3>1, <3>2
  <2> QED
    BY <1>f, <1>g, <2>3, <2>5, <2>6, <2>7 DEF QuietBody
<1>1. CASE QueryPeer(i)
  <2> DEFINE q == Lowest(task[i].todo)
  <2>1. q \in task[i].todo /\ task[i].pc = "query" /\ UNCHANGED <<role, primaryAddr, listening>>
    <3>1. task[i].todo \in SUBSET Server
      BY <1>b, RoleTypes DEF TaskType
    <3> QED
      BY <1>1, <3>1, LowestOfServers DEF QueryPeer
  <2>2. /\ \A k \in DOMAIN task[i].answers : task[i].answers[k] = p
        /\ p \in task[i].todo \/ task[i].answers # <<>>
    BY <1>e, <2>1 DEF QuietStart
  <2>3. CASE /\ Answered(i, q)
             /\ Goto(i, [task[i] EXCEPT !.todo = @ \ {q},
                                        !.answers = Append(@, primaryAddr[q])])
    <3> DEFINE t == [task[i] EXCEPT !.todo = @ \ {q}, !.answers = Append(@, primaryAddr[q])]
    <3>1. q \in listening
      BY <1>b, <1>f, <2>3, CallOutcome
    <3>2. primaryAddr[q] = p
      BY <3>1, <1>g
    <3>3. /\ Append(task[i].answers, p) # <<>>
          /\ \A k \in DOMAIN Append(task[i].answers, p) : Append(task[i].answers, p)[k] = p
      <4>1. p \in Server /\ task[i].answers \in Seq(Server)
        BY <1>f, <1>g
      <4> DEFINE a == task[i].answers
                 n == Len(a)
      <4>2. /\ n \in Nat /\ DOMAIN a = 1..n
            /\ DOMAIN Append(a, p) = 1..(n + 1)
            /\ \A k \in 1..n : Append(a, p)[k] = a[k]
            /\ Append(a, p)[n + 1] = p
        BY <4>1, LenProperties, AppendProperties
      <4>3. \A k \in 1..n : a[k] = p
        BY <2>2, <4>2
      <4>4. Append(a, p) # <<>>
        BY <4>1, AppendProperties
      <4> HIDE DEF a, n
      <4>5. \A k \in 1..(n + 1) : Append(a, p)[k] = p
        <5>1. \A k \in 1..(n + 1) : k \in 1..n \/ k = n + 1
          BY <4>2
        <5> QED
          BY <4>2, <4>3, <5>1
      <4> QED
        BY <4>2, <4>4, <4>5 DEF a
    <3>4. t.pc = "query" /\ t.answers = Append(task[i].answers, p)
      <4>1. task[i] \in TaskType
        BY <1>b, RoleTypes
      <4> QED
        BY <2>1, <3>2, <4>1 DEF TaskType
    <3> HIDE DEF t
    <3>5. Goto(i, t)
      BY <2>3 DEF t
    <3> QED
      BY <2>1, <3>3, <3>4, <3>5, <1>h
  <2>4. CASE Failed(i, q) /\ Goto(i, [task[i] EXCEPT !.todo = @ \ {q}])
    <3> DEFINE t == [task[i] EXCEPT !.todo = @ \ {q}]
    <3>1. q # p
      BY <1>b, <1>f, <2>4, CallOutcome
    <3>4. t.pc = "query" /\ t.answers = task[i].answers /\ t.todo = task[i].todo \ {q}
      <4>1. task[i] \in TaskType
        BY <1>b, RoleTypes
      <4> QED
        BY <2>1, <4>1 DEF TaskType
    <3> HIDE DEF t
    <3>5. Goto(i, t)
      BY <2>4 DEF t
    <3> QED
      BY <2>1, <2>2, <3>1, <3>4, <3>5, <1>h
  <2> QED
    BY <1>1, <2>3, <2>4 DEF QueryPeer
<1>n. ASSUME task[i].pc = "query", task[i].todo = {} PROVE Claimed(task[i].answers) = p
  <2>1. task[i].answers # <<>> /\ \A k \in DOMAIN task[i].answers : task[i].answers[k] = p
    BY <1>e, <1>n DEF QuietStart
  <2>2. PICK k \in DOMAIN task[i].answers : MostNamed(task[i].answers) = task[i].answers[k]
    BY <2>1, <1>g, MostNamedIsNamed
  <2> QED
    BY <2>1, <2>2 DEF Claimed
<1>2. CASE StartAsPrimary(i)
  BY <1>2, <1>n, <1>f DEF StartAsPrimary
<1>3. CASE StartAsBackup(i)
  <2> DEFINE t == Task("sync", {}, {}, <<>>, TRUE)
  <2>1. t.pc = "sync"
    BY DEF Task
  <2> HIDE DEF t
  <2>2. Goto(i, t) /\ UNCHANGED listening
    BY <1>3 DEF StartAsBackup, t
  <2>3. Claimed(task[i].answers) = p
    BY <1>3, <1>n DEF StartAsBackup
  <2>4. /\ primaryAddr'[i] = p
        /\ \A k \in Server : k # i => role'[k] = role[k] /\ primaryAddr'[k] = primaryAddr[k]
    BY <1>3, <1>g, <2>3 DEF StartAsBackup
  <2> QED
    BY <2>1, <2>2, <2>4, <1>h
<1>4. CASE SyncAnswered(i)
  <2> DEFINE t == Task("install", {}, {}, <<>>, TRUE)
  <2>1. t.pc = "install"
    BY DEF Task
  <2> HIDE DEF t
  <2>2. Goto(i, t) /\ UNCHANGED <<role, primaryAddr, listening>>
    BY <1>4 DEF SyncAnswered, t
  <2>3. primaryAddr[i] = p
    BY <1>4, <1>e DEF SyncAnswered, QuietStart
  <2> QED
    BY <2>1, <2>2, <2>3, <1>h
<1>5. CASE Install(i)
  <2>1. primaryAddr[i] = p
    BY <1>5, <1>e DEF Install, QuietStart
  <2>2. /\ listening' = listening \cup {i} /\ UNCHANGED primaryAddr
        /\ role'[i] = "backup" /\ \A k \in Server : k # i => role'[k] = role[k]
    BY <1>5, <1>g DEF Install
  <2>3. task'[i] = Idle /\ \A k \in Server : k # i => task'[k] = task[k]
    BY <1>5, <1>b, StepOfThread DEF Install
  <2>4. Primaries' = Primaries
    BY <1>c, <1>g, <2>2 DEF Primaries
  <2>5. \A k \in listening' : task'[k] = Idle /\ primaryAddr'[k] = p
    BY <1>g, <2>1, <2>2, <2>3
  <2>6. LowestLeads'
    BY <1>g, <2>4, <2>5 DEF LowestLeads
  <2>7. \A k \in listening' : QuietThread(k)'
    BY <2>5, IdleAndDown DEF QuietThread
  <2>8. \A s \in Starting' : QuietStart(s, p)'
    <3> SUFFICES ASSUME NEW s \in Starting' PROVE QuietStart(s, p)'
      OBVIOUS
    <3>1. s # i /\ s \in Server
      BY <2>2 DEF Starting
    <3>2. s \in Starting /\ task'[s] = task[s]
      BY <3>1, <2>2, <2>3 DEF Starting
    <3>3. QuietStart(s, p)
      BY <1>a, <1>g, <3>2 DEF QuietBody
    <3> QED
      BY <2>2, <2>5, <3>2, <3>3 DEF QuietStart
  <2> QED
    BY <1>f, <1>g, <2>4, <2>6, <2>7, <2>8 DEF QuietBody
<1>6. CASE SyncGaveUp(i)
  <2>1. primaryAddr[i] = p /\ Failed(i, primaryAddr[i])
    BY <1>6, <1>e DEF SyncGaveUp, QuietStart
  <2> QED
    BY <2>1, <1>b, <1>f, CallOutcome
<1> QED
  BY <1>1, <1>2, <1>3, <1>4, <1>5, <1>6

\* The steps of an election: the winner is the lowest server that answers
LEMMA QuietElectionStep ==
    ASSUME RolesInv, RolesType', calm, faults = 0, faults' = 0, NEW i \in Server,
           \/ DetectFailure(i) \/ PollPeer(i) \/ Elect(i) \/ SkipAnnouncement(i)
           \/ AnnounceToPeer(i) \/ EndElection(i)
    PROVE  QuietBody'
<1>a. QuietBody
  BY DEF RolesInv, QuietInv
<1>b. RolesType
  BY DEF RolesInv
<1>c. i \in listening /\ Starting = {}
  <2>1. CASE DetectFailure(i)
    <3>1. i \in listening /\ Failed(i, primaryAddr[i])
      BY <2>1 DEF DetectFailure, Suspect
    <3>2. \A s \in Starting : \E p \in listening : primaryAddr[i] = p
      BY <1>a, <3>1, <1>b, RoleTypes DEF QuietBody, QuietStart
    <3>3. primaryAddr[i] \notin listening
      BY <3>1, <1>a, <1>b, CallOutcome DEF QuietBody
    <3> QED
      BY <3>1, <3>2, <3>3
  <2>2. CASE ~DetectFailure(i)
    <3>1. task[i].pc \in {"elect", "announce"}
      BY <2>2 DEF PollPeer, Elect, SkipAnnouncement, AnnounceToPeer, EndElection
    <3>2. \A s \in Starting : i \notin listening \/ task[i] = Idle
      BY <1>a DEF QuietBody, QuietStart
    <3>3. \A s \in Starting : i \notin listening
      BY <3>1, <3>2, IdleAndDown
    <3>4. i \notin listening => i \in Starting
      BY <3>1 DEF Starting
    <3>5. i \in Starting => \E p \in Primaries : QuietStart(i, p)
      BY <1>a DEF QuietBody
    <3>6. i \notin Starting
      BY <3>1, <3>5 DEF QuietStart
    <3> QED
      BY <3>3, <3>4, <3>6
  <2> QED
    BY <2>1, <2>2
<1>d. /\ role \in [Server -> {"unknown", "primary", "backup"}]
      /\ primaryAddr \in [Server -> Server]
      /\ listening \subseteq Server /\ Server \subseteq Nat
      /\ task[i] \in TaskType
      /\ isolated = {}
      /\ Primaries \subseteq listening
      /\ task[i].todo \subseteq Peers(i) /\ task[i].todo \in SUBSET Server
      /\ task[i].pc = "elect" => i \in task[i].alive
  BY <1>a, <1>b, RoleTypes DEF QuietBody, TaskType, ThreadInv
<1>e. listening' = listening /\ isolated' = {}
  BY <1>c, <1>d DEF DetectFailure, Suspect, PollPeer, Elect, SkipAnnouncement,
     AnnounceToPeer, EndElection, Answered, Failed, faultVars
\* It remains to look at the thread, the roles and who is followed
<1>f. ASSUME NEW t \in TaskType, Goto(i, t), t.pc # "down",
             \A k \in listening \ {i} : QuietThread(k)',
             QuietThread(i)',
             LowestLeads', \A q, r \in Primaries' : q = r
      PROVE  QuietBody'
  <2>1. task'[i] = t /\ \A k \in Server : k # i => task'[k] = task[k]
    BY <1>b, <1>f, StepOfThread
  <2>2. Starting' = {}
    BY <1>c, <1>e, <2>1 DEF Starting
  <2> QED
    BY <1>e, <1>f, <2>2 DEF QuietBody
\* When roles stay
<1>g. ASSUME NEW t \in TaskType, Goto(i, t), t.pc # "down",
             UNCHANGED <<role, primaryAddr>>,
             \A q \in Primaries : i >= q,
             \/ t = Idle
             \/ t.pc = "elect" /\ listening \subseteq t.alive \cup t.todo
             \/ t.pc = "announce" /\ (t.todo # {} => role[i] = "primary")
      PROVE  QuietBody'
  <2>1. task'[i] = t /\ \A k \in Server : k # i => task'[k] = task[k]
    BY <1>b, <1>g, StepOfThread
  <2>2. Primaries' = Primaries
    BY <1>e, <1>g DEF Primaries
  <2>3. \A k \in listening \ {i} : QuietThread(k)'
    <3>1. \A k \in listening \ {i} : QuietThread(k) /\ k \in Server
      BY <1>a, <1>d DEF QuietBody
    <3> QED
      BY <1>e, <1>g, <2>1, <3>1 DEF QuietThread
  <2>4. QuietThread(i)'
    BY <1>e, <1>g, <2>1 DEF QuietThread
  <2>5. LowestLeads'
    <3>1. \A q \in Primaries : \A k \in listening \ {i} :
             k \in Server /\ (k >= q \/ (primaryAddr[k] = q /\ task[k] = Idle))
      BY <1>a, <1>d DEF QuietBody, LowestLeads
    <3> QED
      BY <1>e, <1>g, <2>1, <2>2, <3>1 DEF LowestLeads
  <2>6. \A q, r \in Primaries' : q = r
    BY <1>a, <2>2 DEF QuietBody
  <2> QED
    BY <1>f, <1>g, <2>3, <2>4, <2>5, <2>6
<1>h. task[i] # Idle => \A q \in Primaries : i >= q
  BY <1>a, <1>c DEF QuietBody, LowestLeads
<1>1. CASE DetectFailure(i)
  <2>1. /\ Poll(i, FALSE) \in TaskType /\ Poll(i, FALSE).pc = "elect"
        /\ Poll(i, FALSE).todo = Peers(i) /\ Poll(i, FALSE).alive = {i}
    BY PollFacts
  <2>2. primaryAddr[i] \notin listening
    BY <1>1, <1>b, <1>d, CallOutcome DEF DetectFailure, Suspect
  <2>3. \A q \in Primaries : i >= q
    BY <1>a, <1>c, <1>d, <2>2 DEF QuietBody, LowestLeads
  <2>4. listening \subseteq {i} \cup Peers(i)
    BY <1>d DEF Peers
  <2>5. Goto(i, Poll(i, FALSE)) /\ UNCHANGED <<role, primaryAddr>>
    BY <1>1 DEF DetectFailure
  <2> QED
    BY <2>1, <2>3, <2>4, <2>5, <1>g
<1>k. task[i].pc = "elect" => listening \subseteq task[i].alive \cup task[i].todo
  BY <1>a, <1>c, IdleAndDown DEF QuietBody, QuietThread
<1>2. CASE PollPeer(i)
  <2> DEFINE p == Lowest(task[i].todo)
             t1 == [task[i] EXCEPT !.todo = @ \ {p}, !.alive = @ \cup {p}]
             t2 == [task[i] EXCEPT !.todo = @ \ {p}]
  <2>1. p \in task[i].todo /\ p \in Server /\ task[i].pc = "elect"
    BY <1>2, <1>d, LowestOfServers DEF PollPeer
  <2>2. \A q \in Primaries : i >= q
    BY <2>1, <1>h, IdleAndDown
  <2>3. /\ t1 \in TaskType /\ t1.pc = "elect"
        /\ t1.alive = task[i].alive \cup {p} /\ t1.todo = task[i].todo \ {p}
    BY <1>d, <2>1 DEF TaskType
  <2>4. /\ t2 \in TaskType /\ t2.pc = "elect"
        /\ t2.alive = task[i].alive /\ t2.todo = task[i].todo \ {p}
    BY <1>d, <2>1 DEF TaskType
  <2>5. UNCHANGED <<role, primaryAddr>>
    BY <1>2 DEF PollPeer
  <2>6. CASE Answered(i, p) /\ Goto(i, t1)
    <3>1. listening \subseteq t1.alive \cup t1.todo
      BY <1>k, <2>1, <2>3
    <3> HIDE DEF t1, p
    <3> QED
      BY <2>2, <2>3, <2>5, <2>6, <3>1, <1>g
  <2>7. CASE Failed(i, p) /\ Goto(i, t2)
    <3>1. p \notin listening
      BY <1>b, <1>d, <2>7, CallOutcome
    <3>2. listening \subseteq t2.alive \cup t2.todo
      BY <1>k, <2>1, <2>4, <3>1
    <3> HIDE DEF t2, p
    <3> QED
      BY <2>2, <2>4, <2>5, <2>7, <3>2, <1>g
  <2> QED
    BY <1>2, <2>6, <2>7 DEF PollPeer
<1>3. CASE Elect(i)
  <2> DEFINE new == NewPrimary(i)
             t == Task("announce", IF new = i THEN Peers(i) ELSE {}, {}, <<>>, task[i].boot)
  <2>1. task[i].pc = "elect" /\ task[i].todo = {} /\ i \in task[i].alive
    BY <1>3, <1>d DEF Elect
  <2>2. listening \subseteq task[i].alive
    BY <2>1, <1>k
  <2>3. new \in Server /\ \A k \in listening : new <= k
    <3>1. task[i].alive \in SUBSET Server
      BY <1>d DEF TaskType
    <3> QED
      BY <2>1, <2>2, <3>1, LowestOfServers DEF NewPrimary
  <2>4. t \in TaskType /\ t.pc = "announce" /\ t.todo = IF new = i THEN Peers(i) ELSE {}
    BY <1>d DEF Task, TaskType, Peers
  <2>5. /\ Goto(i, t)
        /\ primaryAddr'[i] = new
        /\ role'[i] = IF new = i THEN "primary" ELSE "backup"
        /\ \A k \in Server : k # i => role'[k] = role[k] /\ primaryAddr'[k] = primaryAddr[k]
    BY <1>3, <1>d DEF Elect
  <2> HIDE DEF t, new
  <2>6. task'[i] = t /\ \A k \in Server : k # i => task'[k] = task[k]
    BY <1>b, <2>4, <2>5, StepOfThread
  <2>7. QuietThread(i)'
    BY <2>4, <2>5, <2>6 DEF QuietThread
  <2>8. \A k \in listening \ {i} : QuietThread(k)'
    <3>1. \A k \in listening \ {i} : QuietThread(k) /\ k \in Server
      BY <1>a, <1>d DEF QuietBody
    <3> QED
      BY <1>e, <2>5, <2>6, <3>1 DEF QuietThread
  <2>9. \A q \in Primaries : i >= q
    BY <2>1, <1>h, IdleAndDown
  <2>10. \A q \in Primaries' : q \in Server /\ q \in listening
    BY <1>d, <1>e DEF Primaries
  <2>11. ASSUME NEW q \in Primaries', q # i PROVE q \in Primaries /\ new # i
    <3>1. q \in Primaries
      BY <2>5, <2>10, <2>11, <1>e DEF Primaries
    <3>2. new = i => q >= i
      BY <2>3, <2>10
    <3>3. q \in Nat /\ i \in Nat /\ i >= q
      BY <1>d, <2>9, <2>10, <3>1
    <3> QED
      BY <2>11, <3>1, <3>2, <3>3
  <2>12. i \in Primaries' => new = i
    BY <2>5 DEF Primaries
  <2>13. \A q, r \in Primaries' : q = r
    <3>1. \A q, r \in Primaries : q = r
      BY <1>a DEF QuietBody
    <3> QED
      BY <2>11, <2>12, <3>1
  <2>14. LowestLeads'
    <3> SUFFICES ASSUME NEW q \in Primaries', NEW k \in listening'
                 PROVE  k >= q \/ (primaryAddr'[k] = q /\ task'[k] = Idle)
      BY DEF LowestLeads
    <3>1. CASE q = i
      BY <1>d, <1>e, <2>3, <2>12, <3>1
    <3>2. CASE q # i
      <4>1. q \in Primaries
        BY <2>11, <3>2
      <4>2. k \in listening /\ k \in Server
        BY <1>d, <1>e
      <4>3. k >= q \/ (primaryAddr[k] = q /\ task[k] = Idle)
        BY <1>a, <4>1, <4>2 DEF QuietBody, LowestLeads
      <4> QED
        BY <2>5, <2>6, <2>9, <4>1, <4>2, <4>3
    <3> QED
      BY <3>1, <3>2
  <2> QED
    BY <2>4, <2>5, <2>7, <2>8, <2>13, <2>14, <1>f
<1>4. CASE SkipAnnouncement(i)
  <2> DEFINE t == [task[i] EXCEPT !.todo = {}]
  <2>1. t \in TaskType /\ t.pc = "announce" /\ t.todo = {} /\ task[i].pc = "announce"
    BY <1>4, <1>d DEF TaskType, SkipAnnouncement
  <2>2. \A q \in Primaries : i >= q
    BY <2>1, <1>h, IdleAndDown
  <2> HIDE DEF t
  <2>3. Goto(i, t) /\ UNCHANGED <<role, primaryAddr>>
    BY <1>4 DEF SkipAnnouncement, t
  <2> QED
    BY <2>1, <2>2, <2>3, <1>g
<1>5. CASE AnnounceToPeer(i)
  <2> DEFINE p == Lowest(task[i].todo)
             t == [task[i] EXCEPT !.todo = @ \ {p}]
  <2>1. p \in Server /\ p # i /\ task[i].pc = "announce" /\ task[i].todo # {}
    BY <1>5, <1>d, LowestOfServers DEF AnnounceToPeer, Peers
  <2>2. t \in TaskType /\ t.pc = "announce"
    BY <1>d, <2>1 DEF TaskType
  <2>3. Goto(i, t)
    BY <1>5 DEF AnnounceToPeer
  <2>4. role[i] = "primary" /\ i \in Primaries
    <3>1. QuietThread(i)
      BY <1>a, <1>c DEF QuietBody
    <3> QED
      BY <2>1, <3>1, <1>c, IdleAndDown DEF QuietThread, Primaries
  <2>5. \A q \in Primaries : i >= q
    BY <2>1, <1>h, IdleAndDown
  <2>6. CASE Failed(i, p) /\ UNCHANGED <<role, primaryAddr>>
    <3> HIDE DEF t, p
    <3> QED
      BY <2>2, <2>3, <2>4, <2>5, <2>6, <1>g
  <2>7. CASE /\ Answered(i, p)
             /\ primaryAddr' = [primaryAddr EXCEPT ![p] = i]
             /\ role' = [role EXCEPT ![p] = "backup"]
    <3> HIDE DEF t, p
    <3>1. /\ primaryAddr'[p] = i /\ role'[p] = "backup"
          /\ \A k \in Server : k # p => role'[k] = role[k] /\ primaryAddr'[k] = primaryAddr[k]
      BY <1>d, <2>1, <2>7
    <3>2. task'[i] = t /\ \A k \in Server : k # i => task'[k] = task[k]
      BY <1>b, <2>2, <2>3, StepOfThread
    <3>3. \A q \in Primaries : q = i
      BY <1>a, <2>4 DEF QuietBody
    <3>4. Primaries' = {i}
      BY <1>d, <1>e, <2>1, <2>4, <3>1, <3>3 DEF Primaries
    <3>5. QuietThread(i)'
      BY <2>1, <2>2, <2>4, <3>1, <3>2 DEF QuietThread
    <3>6. \A k \in listening \ {i} : QuietThread(k)'
      <4> SUFFICES ASSUME NEW k \in listening \ {i} PROVE QuietThread(k)'
        OBVIOUS
      <4>1. k \in Server /\ task'[k] = task[k] /\ k \notin Primaries
        BY <1>d, <3>2, <3>3
      <4>2. role[k] # "primary"
        BY <4>1 DEF Primaries
      <4>3. QuietThread(k)
        BY <1>a DEF QuietBody
      <4> QED
        BY <1>e, <4>1, <4>2, <4>3 DEF QuietThread
    <3>7. LowestLeads'
      <4> SUFFICES ASSUME NEW k \in listening
                   PROVE  k >= i \/ (primaryAddr'[k] = i /\ task'[k] = Idle)
        BY <1>e, <3>4 DEF LowestLeads
      <4>1. k >= i \/ (primaryAddr[k] = i /\ task[k] = Idle)
        BY <1>a, <2>4 DEF QuietBody, LowestLeads
      <4>2. k \in Server /\ k \in Nat /\ i \in Nat
        BY <1>d
      <4>3. CASE k = i
        BY <4>2, <4>3
      <4>4. CASE k # i
        BY <3>1, <3>2, <4>1, <4>2, <4>4
      <4> QED
        BY <4>3, <4>4
    <3> QED
      BY <2>2, <2>3, <3>4, <3>5, <3>6, <3>7, <1>f
  <2> QED
    BY <1>5, <2>6, <2>7 DEF AnnounceToPeer
<1>6. CASE EndElection(i)
  <2>1. \A q \in Primaries : i >= q
    BY <1>6, <1>h, IdleAndDown DEF EndElection
  <2> QED
    BY <1>6, <2>1, <1>g, IdleAndDown DEF EndElection
<1> QED
  BY <1>1, <1>2, <1>3, <1>4, <1>5, <1>6

\* A server starts among servers that agree, or crashes while none starts
LEMMA QuietStartOrCrash ==
    ASSUME RolesInv, RolesType', calm, faults = 0, calm', NEW i \in Server,
           Start(i) \/ Crash(i)
    PROVE  QuietBody'
<1>a. QuietBody
  BY DEF RolesInv, QuietInv
<1>b. RolesType
  BY DEF RolesInv
<1>d. /\ role \in [Server -> {"unknown", "primary", "backup"}]
      /\ primaryAddr \in [Server -> Server]
      /\ listening \subseteq Server /\ Server \subseteq Nat
      /\ task \in [Server -> TaskType]
      /\ isolated = {}
      /\ Primaries \subseteq listening
      /\ ThreadInv
  BY <1>a, <1>b, RoleTypes DEF QuietBody
<1>e. isolated' = {} /\ Starting = {}
  BY <1>d DEF Start, Crash
<1>1. CASE Start(i)
  <2> DEFINE t == Task("query", Peers(i), {}, <<>>, TRUE)
  <2>1. t.pc = "query" /\ t.todo = Peers(i) /\ t.answers = <<>>
    BY DEF Task
  <2> HIDE DEF t
  <2>2. Goto(i, t)
    BY <1>1 DEF Start, t
  <2>3. task'[i] = t /\ \A k \in Server : k # i => task'[k] = task[k]
    BY <1>b, <2>2, StepOfThread
  <2>4. i \notin listening /\ listening' = listening
    BY <1>1, <1>d DEF Start, ThreadInv
  <2>5. \A k \in Server : k # i => role'[k] = role[k] /\ primaryAddr'[k] = primaryAddr[k]
    BY <1>1, <1>d DEF Start
  <2>6. PICK p \in Primaries : \A k \in listening : primaryAddr[k] = p /\ task[k] = Idle
    BY <1>1 DEF Start, Agreed
  <2>7. \A k \in listening' : k \in Server /\ k # i /\ task'[k] = Idle /\ primaryAddr'[k] = p
    BY <1>d, <2>3, <2>4, <2>5, <2>6
  <2>8. Primaries' = Primaries
    BY <2>4, <2>5, <2>7 DEF Primaries
  <2>9. \A q, r \in Primaries : q = r
    BY <1>a DEF QuietBody
  <2>10. LowestLeads'
    BY <2>6, <2>7, <2>8, <2>9 DEF LowestLeads
  <2>11. \A k \in listening' : QuietThread(k)'
    BY <2>7, IdleAndDown DEF QuietThread
  <2>12. \A s \in Starting' : QuietStart(s, p)'
    <3>1. \A s \in Starting' : s = i
      BY <1>e, <2>3, <2>4 DEF Starting
    <3>2. p \in Peers(i)
      BY <1>d, <2>4, <2>6 DEF Peers
    <3>3. QuietStart(i, p)'
      BY <2>1, <2>3, <2>7, <3>2, EmptySeq DEF QuietStart
    <3> QED
      BY <3>1, <3>3
  <2> QED
    BY <1>e, <2>6, <2>8, <2>9, <2>10, <2>11, <2>12 DEF QuietBody
<1>2. CASE Crash(i)
  <2>1. task'[i] = Down /\ \A k \in Server : k # i => task'[k] = task[k]
    BY <1>2, <1>b, StepOfThread DEF Crash
  <2>2. listening' = listening \ {i} /\ UNCHANGED <<role, primaryAddr>>
    BY <1>2 DEF Crash
  <2>3. Primaries' = Primaries \ {i}
    BY <2>2 DEF Primaries
  <2>4. Starting' = {}
    BY <1>e, <2>1, <2>2, IdleAndDown DEF Starting
  <2>5. \A k \in listening' : QuietThread(k)'
    <3>1. \A k \in listening' : k \in Server /\ k # i /\ QuietThread(k)
      BY <1>a, <1>d, <2>2 DEF QuietBody
    <3> QED
      BY <2>1, <2>2, <3>1 DEF QuietThread
  <2>6. LowestLeads'
    <3>1. \A q \in Primaries' : \A k \in listening' :
             k \in Server /\ k # i /\ (k >= q \/ (primaryAddr[k] = q /\ task[k] = Idle))
      BY <1>a, <1>d, <2>2, <2>3 DEF QuietBody, LowestLeads
    <3> QED
      BY <2>1, <2>2, <3>1 DEF LowestLeads
  <2>7. \A q, r \in Primaries' : q = r
    BY <1>a, <2>3 DEF QuietBody
  <2> QED
    BY <1>e, <2>4, <2>5, <2>6, <2>7 DEF QuietBody
<1> QED
  BY <1>1, <1>2

\* Without restarts no server ever starts, and calm stays true
LEMMA NoRestartNext ==
    ASSUME RolesInv, RolesType', Next \/ OtherFault
    PROVE  NoRestartInv'
<1> SUFFICES ASSUME restarts' = 0 PROVE calm' /\ Starting' = {}
  BY DEF NoRestartInv
<1>b. RolesType
  BY DEF RolesInv
<1>c. restarts \in Nat
  BY <1>b, RoleTypes
<1>1. CASE OtherFault
  BY <1>1 DEF OtherFault, threadVars, Starting, RolesInv, NoRestartInv
<1>2. CASE Next
  <2>1. PICK i \in Server :
          \/ ThreadStep(i)
          \/ \E p \in Server : Heartbeat(i, p)
          \/ Start(i) \/ Crash(i) \/ Isolate(i) \/ Heal(i)
    BY <1>2 DEF Next
  <2>2. ~Start(i)
    <3>1. Start(i) => restarts' = restarts + 1
      BY DEF Start
    <3> QED
      BY <1>c, <3>1
  <2>3. restarts = 0
    <3>1. ASSUME NEW p, Answered(i, p) \/ Failed(i, p) PROVE restarts = 0
      BY <3>1 DEF Answered, Failed, faultVars
    <3>2. CASE ThreadStep(i)
      BY <3>1, <3>2 DEF ThreadStep, QueryPeer, StartAsPrimary, StartAsBackup, SyncAnswered,
         Install, SyncGaveUp, DetectFailure, Suspect, PollPeer, Elect, SkipAnnouncement,
         AnnounceToPeer, EndElection, faultVars
    <3>3. CASE ~ThreadStep(i)
      BY <2>1, <2>2, <3>3 DEF Heartbeat, Crash, Isolate, Heal, faultVars
    <3> QED
      BY <3>2, <3>3
  <2>4. calm /\ Starting = {}
    BY <2>3 DEF RolesInv, NoRestartInv
  <2>5. CASE Crash(i)
    <3>1. task'[i] = Down /\ \A k \in Server : k # i => task'[k] = task[k]
      BY <2>5, <1>b, StepOfThread DEF Crash
    <3>2. listening' = listening \ {i} /\ calm'
      BY <2>4, <2>5 DEF Crash
    <3> QED
      BY <2>4, <3>1, <3>2, IdleAndDown DEF Starting
  <2>6. CASE Isolate(i) \/ Heal(i) \/ \E p \in Server : Heartbeat(i, p)
    BY <2>4, <2>6 DEF Isolate, Heal, Heartbeat, threadVars, Starting
  <2>7. CASE ThreadStep(i)
    <3>1. PICK t : Goto(i, t)
      BY <2>7 DEF ThreadStep, QueryPeer, StartAsPrimary, StartAsBackup, SyncAnswered,
         Install, SyncGaveUp, DetectFailure, PollPeer, Elect, SkipAnnouncement,
         AnnounceToPeer, EndElection
    <3>2. \A k \in Server : k # i => task'[k] = task[k]
      BY <1>b, <3>1, StepOfThread
    <3>3. UNCHANGED calm /\ listening \subseteq listening'
      BY <2>7 DEF ThreadStep, QueryPeer, StartAsPrimary, StartAsBackup, SyncAnswered,
         Install, SyncGaveUp, DetectFailure, PollPeer, Elect, SkipAnnouncement,
         AnnounceToPeer, EndElection
    <3>4. i \in listening
      <4>1. task[i].pc # "down"
        BY <2>7, IdleAndDown DEF ThreadStep, QueryPeer, StartAsPrimary, StartAsBackup, SyncAnswered,
           Install, SyncGaveUp, DetectFailure, PollPeer, Elect, SkipAnnouncement,
           AnnounceToPeer, EndElection
      <4> QED
        BY <2>4, <4>1 DEF Starting
    <3> QED
      BY <2>4, <3>2, <3>3, <3>4 DEF Starting
  <2> QED
    BY <2>1, <2>2, <2>5, <2>6, <2>7
<1> QED
  BY <1>1, <1>2

\* RolesInv is inductive, under the steps of ReplicaRoles and under the faults of
\* other threads
LEMMA RolesNext ==
    ASSUME RolesInv, Next \/ OtherFault \/ UNCHANGED roleVars
    PROVE  RolesInv'
<1>1. RolesType'
  BY RolesTypeNext DEF RolesInv
<1>2. CASE UNCHANGED roleVars
  BY <1>1, <1>2 DEF roleVars, threadVars, faultVars, RolesInv, QuietInv, NoRestartInv,
     QuietBody, QuietThread, QuietStart, LowestLeads, Primaries, Starting
<1>3. CASE Next \/ OtherFault
  <2>1. NoRestartInv'
    BY <1>1, <1>3, NoRestartNext
  <2>2. ASSUME calm', faults' = 0 PROVE QuietBody'
    <3>1. calm /\ faults = 0
      BY <1>3, <2>2, QuietBefore DEF RolesInv
    <3>2. QuietBody
      BY <3>1 DEF RolesInv, QuietInv
    <3>3. CASE UNCHANGED <<threadVars, isolated>>
      <4>1. UNCHANGED <<role, primaryAddr, listening, task, isolated>>
        BY <3>3 DEF threadVars
      <4>2. Primaries' = Primaries /\ Starting' = Starting
        BY <4>1 DEF Primaries, Starting
      <4> QED
        BY <3>2, <4>1, <4>2 DEF QuietBody, QuietThread, QuietStart, LowestLeads
    <3>4. CASE Next /\ ~UNCHANGED <<threadVars, isolated>>
      <4>1. PICK i \in Server :
              \/ ThreadStep(i)
              \/ \E p \in Server : Heartbeat(i, p)
              \/ Start(i) \/ Crash(i) \/ Isolate(i) \/ Heal(i)
        BY <3>4 DEF Next
      <4>2. ~\E p \in Server : Heartbeat(i, p)
        BY <3>4 DEF Heartbeat, faultVars, threadVars
      <4>3. ~Isolate(i)
        BY <2>2, <3>1 DEF Isolate
      <4>4. ~Heal(i)
        BY <3>2 DEF Heal, QuietBody
      <4>5. CASE Start(i) \/ Crash(i)
        BY <1>1, <2>2, <3>1, <4>5, QuietStartOrCrash
      <4>6. CASE ThreadStep(i)
        BY <1>1, <2>2, <3>1, <4>6, QuietStartStep, QuietElectionStep DEF ThreadStep
      <4> QED
        BY <4>1, <4>2, <4>3, <4>4, <4>5, <4>6
    <3> QED
      BY <1>3, <3>3, <3>4 DEF OtherFault
  <2> QED
    BY <1>1, <2>1, <2>2 DEF RolesInv, QuietInv
<1> QED
  BY <1>2, <1>3

\* ... and holds in the initial cluster
LEMMA RolesInit == Init => RolesInv
<1> SUFFICES ASSUME Init PROVE RolesInv
  OBVIOUS
<1>1. RolesType
  BY RolesTypeInit
<1>2. Lowest(Server) \in Server /\ \A t \in Server : Lowest(Server) <= t
  BY LowestOfServers, ServerAssumption
<1>3. \A i \in Server : task[i] = Idle /\ primaryAddr[i] = Lowest(Server)
  BY DEF Init
<1>4. Starting = {} /\ listening = Server
  BY <1>3, IdleAndDown DEF Init, Starting
<1>5. Primaries = {Lowest(Server)}
  BY <1>2 DEF Init, Primaries
<1>6. QuietBody
  BY <1>3, <1>4, <1>5 DEF Init, QuietBody, QuietThread, LowestLeads
<1> QED
  BY <1>1, <1>4, <1>6 DEF RolesInv, QuietInv, NoRestartInv, Init

\* Primaries that are all the same are one at most
LEMMA RolesInvImpliesOnePrimary == RolesInv => OnePrimary
<1> SUFFICES ASSUME RolesInv, calm, faults = 0 PROVE Cardinality(Primaries) <= 1
  BY DEF OnePrimary
<1>1. \A q, r \in Primaries : q = r
  BY DEF RolesInv, QuietInv, QuietBody
<1>2. CASE Primaries = {}
  BY <1>2, FS_EmptySet
<1>3. CASE Primaries # {}
  <2>1. PICK q \in Primaries : Primaries = {q}
    BY <1>1, <1>3
  <2> QED
    BY <2>1, FS_Singleton
<1> QED
  BY <1>2, <1>3

\* However many servers there are: crashes, elections that overlap and look at
\* different moments, and restarts among servers that agree never make two
\* primaries.
THEOREM AtMostOnePrimary == Spec => []OnePrimary
<1>1. RolesInv /\ [Next]_roleVars => RolesInv'
  BY RolesNext
<1> QED
  BY <1>1, RolesInit, RolesInvImpliesOnePrimary, PTL DEF Spec

-----------------------------------------------------------------------------
(* The calls of the clients                                                *)

ClientRecord ==
    [pc : {"rest", "send", "wait"}, addr : Server, seq : 0..MaxOps,
     held : Handle \cup {NoHandle}, attempt : 0..MaxRetries + 1,
     op : {"none", "create", "open", "close"}, file : File \cup {Absent},
     mode : {"none", "r", "w"}, handle : 0..MaxOpens]

\* Between two calls there is no operation, and during one there is; a client
\* that holds a handle has a number left for the close
ClientSound(r) ==
    /\ r.held # NoHandle => r.pc = "rest" /\ r.seq < MaxOps
    /\ r.op = "open" => r.seq < MaxOps
    /\ r.op \in {"create", "close"} => r.seq > 0
    /\ r.pc = "rest" => r.op = "none"
    /\ r.pc # "rest" => r.op # "none" /\ r.file \in File /\ r.mode # "none"
    /\ r.pc = "wait" => r.attempt <= MaxRetries

\* Request or job x belongs to the call its client waits for
Asks(x) ==
    /\ client[x.client].pc = "wait"
    /\ client[x.client].op = x.op
    /\ client[x.client].seq = x.seq

CallTypes ==
    /\ requests \subseteq Request
    /\ jobs \subseteq JobRecord
    /\ client \in [Client -> ClientRecord]
    /\ dedup \in [Server -> [Client -> [seq : 0..MaxOps, version : Nat]]]
    /\ \A c \in Client : ClientSound(client[c])

\* Numbers come from the client, and it waits for one request or job at most
WaitInv ==
    /\ \A r \in requests :
        /\ r.op # "open" => r.seq > 0
        /\ r.seq <= client[r.client].seq
        /\ r.waited => /\ Asks(r)
                       /\ r.file = client[r.client].file
                       /\ r.mode = client[r.client].mode
                       /\ r.handle = client[r.client].handle
    /\ \A j \in jobs :
        /\ j.seq <= client[j.client].seq
        /\ j.waited => Asks(j)
    /\ \A r, q \in requests : r.waited /\ q.waited /\ r.client = q.client => r = q
    /\ \A j, k \in jobs : j.waited /\ k.waited /\ j.client = k.client => j = k
    /\ \A r \in requests : \A j \in jobs : ~(r.waited /\ j.waited /\ r.client = j.client)
    /\ \A i \in Server : \A c \in Client : dedup[i][c].seq <= client[c].seq

CallInv == CallTypes /\ WaitInv

\* A client between two calls is sound
LEMMA RestingFacts ==
    ASSUME NEW addr \in Server, NEW seq \in 0..MaxOps, NEW held \in Handle \cup {NoHandle},
           held # NoHandle => seq < MaxOps
    PROVE  /\ Resting(addr, seq, held) \in ClientRecord
           /\ ClientSound(Resting(addr, seq, held))
           /\ Resting(addr, seq, held).seq = seq
           /\ Resting(addr, seq, held).pc = "rest"
           /\ Resting(addr, seq, held).op = "none"
           /\ Resting(addr, seq, held).held = held
<1> DEFINE r == Resting(addr, seq, held)
<1>1. /\ r.pc = "rest" /\ r.addr = addr /\ r.seq = seq /\ r.held = held
      /\ r.attempt = 0 /\ r.op = "none"
  BY DEF Resting
<1>2. r \in ClientRecord
  BY FilesAssumption DEF Resting, ClientRecord
<1> HIDE DEF r
<1>3. ClientSound(r)
  BY <1>1, FilesAssumption DEF ClientSound
<1> QED
  BY <1>1, <1>2, <1>3 DEF r

\* The thread of a request is a job with the fields of the request
LEMMA JobFacts ==
    ASSUME NEW r \in Request, r.op \in {"create", "close"}, r.seq > 0, NEW f \in File,
           NEW pc \in {"write", "version", "replicate", "store"}
    PROVE  /\ Job(r, f, pc) \in JobRecord
           /\ Job(r, f, pc).srv = r.to /\ Job(r, f, pc).client = r.client
           /\ Job(r, f, pc).seq = r.seq /\ Job(r, f, pc).op = r.op
           /\ Job(r, f, pc).file = f /\ Job(r, f, pc).pc = pc
           /\ Job(r, f, pc).waited = r.waited
<1>1. r.seq \in 1..MaxOps
  BY FilesAssumption DEF Request
<1> QED
  BY <1>1 DEF Job, JobRecord, Request

\* Abandon changes what is waited for, and nothing else
LEMMA AbandonRequests ==
    ASSUME NEW c, NEW S \in SUBSET Request
    PROVE  /\ Abandon(c, S) \subseteq Request
           /\ \A x \in Abandon(c, S) : \E y \in S :
                /\ x.client = y.client /\ x.to = y.to /\ x.seq = y.seq /\ x.op = y.op
                /\ x.file = y.file /\ x.mode = y.mode /\ x.handle = y.handle
                /\ x.waited => x = y /\ y.client # c
                /\ y.client # c => x = y
<1> SUFFICES ASSUME NEW x \in Abandon(c, S)
             PROVE  /\ x \in Request
                    /\ \E y \in S :
                        /\ x.client = y.client /\ x.to = y.to /\ x.seq = y.seq /\ x.op = y.op
                        /\ x.file = y.file /\ x.mode = y.mode /\ x.handle = y.handle
                        /\ x.waited => x = y /\ y.client # c
                        /\ y.client # c => x = y
  OBVIOUS
<1>1. PICK y \in S : x = IF y.client = c THEN [y EXCEPT !.waited = FALSE] ELSE y
  BY DEF Abandon
<1>2. y \in Request
  OBVIOUS
<1>3. CASE y.client = c
  BY <1>1, <1>2, <1>3 DEF Request
<1>4. CASE y.client # c
  BY <1>1, <1>2, <1>4
<1> QED
  BY <1>3, <1>4

\* The same of jobs
LEMMA AbandonJobs ==
    ASSUME NEW c, NEW S \in SUBSET JobRecord
    PROVE  /\ Abandon(c, S) \subseteq JobRecord
           /\ \A x \in Abandon(c, S) : \E y \in S :
                /\ x.srv = y.srv /\ x.client = y.client /\ x.seq = y.seq /\ x.op = y.op
                /\ x.file = y.file /\ x.pc = y.pc /\ x.version = y.version /\ x.todo = y.todo
                /\ x.waited => x = y /\ y.client # c
                /\ y.client # c => x = y
                /\ y.client = c => x = [y EXCEPT !.waited = FALSE]
<1> SUFFICES ASSUME NEW x \in Abandon(c, S)
             PROVE  /\ x \in JobRecord
                    /\ \E y \in S :
                        /\ x.srv = y.srv /\ x.client = y.client /\ x.seq = y.seq /\ x.op = y.op
                        /\ x.file = y.file /\ x.pc = y.pc /\ x.version = y.version
                        /\ x.todo = y.todo
                        /\ x.waited => x = y /\ y.client # c
                        /\ y.client # c => x = y
                        /\ y.client = c => x = [y EXCEPT !.waited = FALSE]
  OBVIOUS
<1>1. PICK y \in S : x = IF y.client = c THEN [y EXCEPT !.waited = FALSE] ELSE y
  BY DEF Abandon
<1>2. y \in JobRecord
  OBVIOUS
<1>3. CASE y.client = c
  BY <1>1, <1>2, <1>3 DEF JobRecord
<1>4. CASE y.client # c
  BY <1>1, <1>2, <1>4
<1> QED
  BY <1>3, <1>4

\* A handler answers request or job x
LEMMA AnswerKeeps ==
    ASSUME CallInv, NEW x, x.client \in Client, NEW result, Answer(x, result),
           x.waited => /\ result \in ClientRecord /\ ClientSound(result)
                       /\ result.seq = client[x.client].seq,
           requests' \subseteq requests, jobs' \subseteq jobs,
           x.waited => \A q \in requests' : q.waited => q.client # x.client,
           x.waited => \A k \in jobs' : k.waited => k.client # x.client,
           dedup' \in [Server -> [Client -> [seq : 0..MaxOps, version : Nat]]],
           \A i \in Server : \A c \in Client : dedup'[i][c].seq <= client[c].seq
    PROVE  CallInv'
<1>1. client \in [Client -> ClientRecord] /\ requests \subseteq Request /\ jobs \subseteq JobRecord
  BY DEF CallInv, CallTypes
<1>2. /\ client' \in [Client -> ClientRecord]
      /\ \A c \in Client : client'[c].seq = client[c].seq /\ ClientSound(client'[c])
      /\ \A c \in Client : c # x.client \/ ~x.waited => client'[c] = client[c]
  <2>1. CASE x.waited
    BY <1>1, <2>1 DEF Answer, CallInv, CallTypes
  <2>2. CASE ~x.waited
    BY <1>1, <2>2 DEF Answer, CallInv, CallTypes
  <2> QED
    BY <2>1, <2>2
<1>3. /\ \A q \in requests' : q \in requests /\ q.client \in Client
      /\ \A k \in jobs' : k \in jobs /\ k.client \in Client
  BY <1>1 DEF Request, JobRecord
<1>4. /\ \A q \in requests' : q.waited => client'[q.client] = client[q.client]
      /\ \A k \in jobs' : k.waited => client'[k.client] = client[k.client]
  BY <1>2, <1>3
<1>5. WaitInv
  BY DEF CallInv
<1>6. WaitInv'
  <2>1. \A r \in requests' :
        /\ r.op # "open" => r.seq > 0
        /\ r.seq <= client'[r.client].seq
        /\ r.waited => /\ Asks(r)'
                       /\ r.file = client'[r.client].file
                       /\ r.mode = client'[r.client].mode
                       /\ r.handle = client'[r.client].handle
    BY <1>2, <1>3, <1>4, <1>5 DEF WaitInv, Asks
  <2>2. \A j \in jobs' :
        /\ j.seq <= client'[j.client].seq
        /\ j.waited => Asks(j)'
    BY <1>2, <1>3, <1>4, <1>5 DEF WaitInv, Asks
  <2>3. \A i \in Server : \A c \in Client : dedup'[i][c].seq <= client'[c].seq
    BY <1>2
  <2> QED
    BY <1>3, <1>5, <2>1, <2>2, <2>3 DEF WaitInv
<1> QED
  BY <1>1, <1>2, <1>6 DEF CallInv, CallTypes

\* Request or job x goes on as job k
LEMMA WorkKeeps ==
    ASSUME CallInv, UNCHANGED <<client, dedup>>, NEW k \in JobRecord,
           requests' \subseteq requests, jobs' \subseteq jobs \cup {k},
           k.seq <= client[k.client].seq,
           k.waited => Asks(k),
           k.waited => \A q \in requests' : q.waited => q.client # k.client,
           k.waited => \A l \in jobs' : l.waited /\ l.client = k.client => l = k
    PROVE  CallInv'
<1>1. client \in [Client -> ClientRecord] /\ requests \subseteq Request /\ jobs \subseteq JobRecord
  BY DEF CallInv, CallTypes
<1>2. WaitInv
  BY DEF CallInv
<1>3. /\ \A q \in requests' : q \in requests
      /\ \A l \in jobs' : l \in jobs \/ l = k
  OBVIOUS
<1>4. WaitInv'
  <2>1. \A r \in requests' :
        /\ r.op # "open" => r.seq > 0
        /\ r.seq <= client'[r.client].seq
        /\ r.waited => /\ Asks(r)'
                       /\ r.file = client'[r.client].file
                       /\ r.mode = client'[r.client].mode
                       /\ r.handle = client'[r.client].handle
    BY <1>2, <1>3 DEF WaitInv, Asks
  <2>2. \A j \in jobs' :
        /\ j.seq <= client'[j.client].seq
        /\ j.waited => Asks(j)'
    BY <1>2, <1>3 DEF WaitInv, Asks
  <2>3. \A j, l \in jobs' : j.waited /\ l.waited /\ j.client = l.client => j = l
    BY <1>2, <1>3 DEF WaitInv
  <2>4. \A r \in requests' : \A j \in jobs' : ~(r.waited /\ j.waited /\ r.client = j.client)
    BY <1>2, <1>3 DEF WaitInv
  <2> QED
    BY <1>2, <1>3, <2>1, <2>2, <2>3, <2>4 DEF WaitInv
<1> QED
  BY <1>1, <1>4 DEF CallInv, CallTypes

\* Calls and jobs are lost with their server
LEMMA LossKeeps ==
    ASSUME CallInv, UNCHANGED client, requests' \subseteq requests, jobs' \subseteq jobs,
           dedup' \in [Server -> [Client -> [seq : 0..MaxOps, version : Nat]]],
           \A i \in Server : \A c \in Client : dedup'[i][c].seq <= client[c].seq
    PROVE  CallInv'
<1>1. \A r \in requests' : Asks(r) => Asks(r)'
  BY DEF Asks
<1>2. \A j \in jobs' : Asks(j) => Asks(j)'
  BY DEF Asks
<1>3. CallTypes'
  BY DEF CallInv, CallTypes
<1>4. WaitInv'
  BY <1>1, <1>2 DEF CallInv, WaitInv
<1> QED
  BY <1>3, <1>4 DEF CallInv

\* What a client may hold
LEMMA HeldFacts ==
    ASSUME NEW h \in Handle
    PROVE  /\ h # NoHandle /\ h.handle \in 1..MaxOpens /\ h.file \in File /\ h.mode \in {"r", "w"}
           /\ h.handle \in 0..MaxOpens
BY FilesAssumption DEF Handle, NoHandle

\* A client method begins
LEMMA CallKeeps ==
    ASSUME CallInv, NEW c \in Client, client[c].pc = "rest",
           NEW op \in {"create", "open", "close"}, NEW f \in File, NEW mode \in {"r", "w"},
           NEW handle \in 0..MaxOpens, NEW seq \in 0..MaxOps,
           Call(c, op, f, mode, handle, seq),
           client[c].seq <= seq, op = "open" => seq < MaxOps, op # "open" => seq > 0,
           UNCHANGED <<requests, jobs, dedup>>
    PROVE  CallInv'
<1> DEFINE n == [pc |-> "send", addr |-> client[c].addr, seq |-> seq, held |-> NoHandle,
                 attempt |-> 0, op |-> op, file |-> f, mode |-> mode, handle |-> handle]
<1>1. client \in [Client -> ClientRecord] /\ requests \subseteq Request /\ jobs \subseteq JobRecord
  BY DEF CallInv, CallTypes
<1>2. /\ n \in ClientRecord /\ n.pc = "send" /\ n.seq = seq /\ n.held = NoHandle
      /\ n.op = op /\ n.file = f /\ n.mode = mode /\ n.handle = handle
  BY <1>1, FilesAssumption DEF ClientRecord
<1>3. client' = [client EXCEPT ![c] = n]
  BY DEF Call
<1> HIDE DEF n
<1>4. ClientSound(n)
  BY <1>2 DEF ClientSound
<1>5. client'[c] = n /\ client' \in [Client -> ClientRecord]
  BY <1>1, <1>2, <1>3
<1>6. \A d \in Client : d # c => client'[d] = client[d]
  BY <1>1, <1>3
<1>7. WaitInv
  BY DEF CallInv
<1>8. /\ \A q \in requests : q.client \in Client /\ (q.waited => q.client # c)
      /\ \A k \in jobs : k.client \in Client /\ (k.waited => k.client # c)
  BY <1>1, <1>7 DEF Request, JobRecord, WaitInv, Asks
<1>9. \A d \in Client : client'[d].seq \in Nat /\ client[d].seq \in Nat /\ client[d].seq <= client'[d].seq
  BY <1>1, <1>2, <1>5, <1>6, FilesAssumption DEF ClientRecord
<1>10. WaitInv'
  <2>1. \A r \in requests' :
        /\ r.op # "open" => r.seq > 0
        /\ r.seq <= client'[r.client].seq
        /\ r.waited => /\ Asks(r)'
                       /\ r.file = client'[r.client].file
                       /\ r.mode = client'[r.client].mode
                       /\ r.handle = client'[r.client].handle
    <3> SUFFICES ASSUME NEW r \in requests
                 PROVE  /\ r.op # "open" => r.seq > 0
                        /\ r.seq <= client'[r.client].seq
                        /\ r.waited => /\ Asks(r)'
                                       /\ r.file = client'[r.client].file
                                       /\ r.mode = client'[r.client].mode
                                       /\ r.handle = client'[r.client].handle
      OBVIOUS
    <3>1. r.seq \in Nat
      BY <1>1, FilesAssumption DEF Request
    <3>2. r.seq <= client'[r.client].seq
      BY <3>1, <1>7, <1>8, <1>9 DEF WaitInv
    <3> QED
      BY <3>2, <1>6, <1>7, <1>8 DEF WaitInv, Asks
  <2>2. \A j \in jobs' :
        /\ j.seq <= client'[j.client].seq
        /\ j.waited => Asks(j)'
    <3> SUFFICES ASSUME NEW j \in jobs
                 PROVE  j.seq <= client'[j.client].seq /\ (j.waited => Asks(j)')
      OBVIOUS
    <3>1. j.seq \in Nat
      BY <1>1, FilesAssumption DEF JobRecord
    <3>2. j.seq <= client'[j.client].seq
      BY <3>1, <1>7, <1>8, <1>9 DEF WaitInv
    <3> QED
      BY <3>2, <1>6, <1>7, <1>8 DEF WaitInv, Asks
  <2>3. \A i \in Server : \A d \in Client : dedup'[i][d].seq <= client'[d].seq
    <3> SUFFICES ASSUME NEW i \in Server, NEW d \in Client
                 PROVE  dedup[i][d].seq <= client'[d].seq
      OBVIOUS
    <3>1. dedup[i][d].seq \in Nat
      BY FilesAssumption DEF CallInv, CallTypes
    <3>2. dedup[i][d].seq <= client[d].seq
      BY <1>7 DEF WaitInv
    <3> QED
      BY <3>1, <3>2, <1>9
  <2> QED
    BY <1>7, <2>1, <2>2, <2>3 DEF WaitInv
<1>11. \A d \in Client : ClientSound(client'[d])
  BY <1>4, <1>5, <1>6 DEF CallInv, CallTypes
<1> QED
  BY <1>1, <1>5, <1>10, <1>11 DEF CallInv, CallTypes

\* _execute_rpc sends the call
LEMMA SendKeeps ==
    ASSUME CallInv, NEW c \in Client, Send(c), UNCHANGED dedup
    PROVE  CallInv'
<1> DEFINE q == [client |-> c, to |-> client[c].addr, seq |-> client[c].seq,
                 op |-> client[c].op, file |-> client[c].file, mode |-> client[c].mode,
                 handle |-> client[c].handle, waited |-> TRUE]
<1>1. client \in [Client -> ClientRecord] /\ requests \subseteq Request /\ jobs \subseteq JobRecord
  BY DEF CallInv, CallTypes
<1>2. client[c].pc = "send" /\ client[c].attempt <= MaxRetries /\ ClientSound(client[c])
  BY DEF Send, CallInv, CallTypes
<1>3. /\ q \in Request
      /\ q.client = c /\ q.seq = client[c].seq /\ q.op = client[c].op /\ q.waited
      /\ q.file = client[c].file /\ q.mode = client[c].mode /\ q.handle = client[c].handle
  <2>1. /\ client[c].addr \in Server /\ client[c].seq \in 0..MaxOps
        /\ client[c].op \in {"none", "create", "open", "close"}
        /\ client[c].file \in File \cup {Absent}
        /\ client[c].mode \in {"none", "r", "w"} /\ client[c].handle \in 0..MaxOpens
    BY <1>1 DEF ClientRecord
  <2>2. client[c].op # "none" /\ client[c].file \in File /\ client[c].mode # "none"
    BY <1>2 DEF ClientSound
  <2>3. client[c].op \in {"create", "open", "close"} /\ client[c].mode \in {"r", "w"}
    BY <2>1, <2>2
  <2> QED
    BY <2>1, <2>2, <2>3 DEF Request
<1> HIDE DEF q
<1>4. requests' = requests \cup {q} /\ UNCHANGED jobs /\ client' = [client EXCEPT ![c].pc = "wait"]
  BY DEF Send, q
<1>5. /\ client'[c] = [client[c] EXCEPT !.pc = "wait"]
      /\ \A d \in Client : d # c => client'[d] = client[d]
      /\ client' \in [Client -> ClientRecord]
  BY <1>1, <1>4 DEF ClientRecord
<1>6. /\ client'[c].pc = "wait" /\ client'[c].seq = client[c].seq /\ client'[c].op = client[c].op
      /\ client'[c].file = client[c].file /\ client'[c].handle = client[c].handle
      /\ client'[c].held = client[c].held /\ client'[c].attempt = client[c].attempt
      /\ client'[c].mode = client[c].mode
  BY <1>1, <1>5 DEF ClientRecord
<1>7. \A d \in Client : client'[d].seq = client[d].seq /\ ClientSound(client'[d])
  <2>1. ClientSound(client'[c])
    BY <1>2, <1>6 DEF ClientSound
  <2>2. \A d \in Client : ClientSound(client[d])
    BY DEF CallInv, CallTypes
  <2> QED
    BY <1>5, <1>6, <2>1, <2>2
<1>8. WaitInv
  BY DEF CallInv
<1>9. /\ \A r \in requests : r.client \in Client /\ (r.waited => r.client # c)
      /\ \A k \in jobs : k.client \in Client /\ (k.waited => k.client # c)
  BY <1>1, <1>2, <1>8 DEF Request, JobRecord, WaitInv, Asks
<1>10. client[c].seq \in Nat /\ (q.op # "open" => q.seq > 0)
  <2>1. client[c] \in ClientRecord
    BY <1>1
  <2> QED
    BY <1>2, <1>3, <2>1, FilesAssumption DEF ClientRecord, ClientSound
<1>11. WaitInv'
  <2>1. ASSUME NEW r \in requests'
        PROVE  /\ r.op # "open" => r.seq > 0
               /\ r.seq <= client'[r.client].seq
               /\ r.waited => /\ Asks(r)'
                              /\ r.file = client'[r.client].file
                              /\ r.mode = client'[r.client].mode
                              /\ r.handle = client'[r.client].handle
    <3>1. CASE r = q
      BY <1>3, <1>6, <1>10, <3>1 DEF Asks
    <3>2. CASE r \in requests
      BY <1>5, <1>7, <1>8, <1>9, <3>2 DEF WaitInv, Asks
    <3> QED
      BY <1>4, <3>1, <3>2
  <2>2. ASSUME NEW j \in jobs'
        PROVE  j.seq <= client'[j.client].seq /\ (j.waited => Asks(j)')
    BY <1>4, <1>5, <1>7, <1>8, <1>9 DEF WaitInv, Asks
  <2>3. \A r, s \in requests' : r.waited /\ s.waited /\ r.client = s.client => r = s
    BY <1>3, <1>4, <1>8, <1>9 DEF WaitInv
  <2>4. \A r \in requests' : \A j \in jobs' : ~(r.waited /\ j.waited /\ r.client = j.client)
    BY <1>3, <1>4, <1>8, <1>9 DEF WaitInv
  <2>5. \A i \in Server : \A d \in Client : dedup'[i][d].seq <= client'[d].seq
    BY <1>7, <1>8 DEF WaitInv
  <2> QED
    BY <1>4, <1>8, <2>1, <2>2, <2>3, <2>4, <2>5 DEF WaitInv
<1>12. requests' \subseteq Request /\ jobs' \subseteq JobRecord
  BY <1>1, <1>3, <1>4
<1> QED
  BY <1>5, <1>7, <1>11, <1>12 DEF CallInv, CallTypes

\* A client that waits for nothing changes: its call ends, or is to be repeated
LEMMA LeaveKeeps ==
    ASSUME CallInv, NEW c \in Client, NEW n \in ClientRecord,
           client' = [client EXCEPT ![c] = n], ClientSound(n), n.seq = client[c].seq,
           requests' \subseteq Request, jobs' \subseteq JobRecord,
           \A x \in requests' : \E y \in requests :
                /\ x.client = y.client /\ x.seq = y.seq /\ x.op = y.op
                /\ x.waited => x = y /\ y.client # c,
           \A x \in jobs' : \E y \in jobs :
                /\ x.client = y.client /\ x.seq = y.seq
                /\ x.waited => x = y /\ y.client # c,
           UNCHANGED dedup
    PROVE  CallInv'
<1>1. client \in [Client -> ClientRecord] /\ requests \subseteq Request /\ jobs \subseteq JobRecord
  BY DEF CallInv, CallTypes
<1>2. /\ client' \in [Client -> ClientRecord]
      /\ \A d \in Client : client'[d].seq = client[d].seq /\ ClientSound(client'[d])
      /\ \A d \in Client : d # c => client'[d] = client[d]
  BY <1>1 DEF CallInv, CallTypes
<1>3. /\ \A q \in requests' : q.client \in Client
      /\ \A k \in jobs' : k.client \in Client
  BY DEF Request, JobRecord
<1>4. WaitInv
  BY DEF CallInv
<1>5. WaitInv'
  <2>1. ASSUME NEW r \in requests'
        PROVE  /\ r.op # "open" => r.seq > 0
               /\ r.seq <= client'[r.client].seq
               /\ r.waited => /\ Asks(r)'
                              /\ r.file = client'[r.client].file
                              /\ r.mode = client'[r.client].mode
                              /\ r.handle = client'[r.client].handle
    <3>1. PICK y \in requests : /\ r.client = y.client /\ r.seq = y.seq /\ r.op = y.op
                                /\ r.waited => r = y /\ y.client # c
      OBVIOUS
    <3> QED
      BY <1>2, <1>3, <1>4, <3>1 DEF WaitInv, Asks
  <2>2. ASSUME NEW j \in jobs'
        PROVE  j.seq <= client'[j.client].seq /\ (j.waited => Asks(j)')
    <3>1. PICK y \in jobs : /\ j.client = y.client /\ j.seq = y.seq
                            /\ j.waited => j = y /\ y.client # c
      OBVIOUS
    <3> QED
      BY <1>2, <1>3, <1>4, <3>1 DEF WaitInv, Asks
  <2>3. \A r \in requests' : r.waited => r \in requests
    OBVIOUS
  <2>4. \A j \in jobs' : j.waited => j \in jobs
    OBVIOUS
  <2>5. \A i \in Server : \A d \in Client : dedup'[i][d].seq <= client'[d].seq
    BY <1>2, <1>4 DEF WaitInv
  <2> QED
    BY <1>4, <2>1, <2>2, <2>3, <2>4, <2>5 DEF WaitInv
<1> QED
  BY <1>2, <1>5 DEF CallInv, CallTypes

\* _discover_primary finds an address
LEMMA DiscoveredIsServer ==
    ASSUME RolesType
    PROVE  Discovered \in Server
<1>1. Lowest(Server) \in Server
  BY LowestOfServers, ServerAssumption
<1>2. listening \in SUBSET Server /\ primaryAddr \in [Server -> Server]
  BY RoleTypes
<1>3. listening # {} => Lowest(listening) \in Server
  BY <1>2, LowestOfServers
<1> QED
  BY <1>1, <1>2, <1>3 DEF Discovered

\* Calls and numbers, when a client takes a step
LEMMA ClientStepKeeps ==
    ASSUME RolesType, CallInv, UNCHANGED dedup, NEW c \in Client, ClientStep(c)
    PROVE  CallInv'
<1>1. /\ client \in [Client -> ClientRecord] /\ client[c] \in ClientRecord
      /\ ClientSound(client[c])
      /\ requests \subseteq Request /\ jobs \subseteq JobRecord
  BY DEF CallInv, CallTypes
<1>2. client[c].seq \in 0..MaxOps /\ (client[c].seq < MaxOps => client[c].seq + 1 \in 0..MaxOps)
  BY <1>1, FilesAssumption DEF ClientRecord
<1>3. CASE (\E f \in File : ClientCreate(c, f)) /\ UNCHANGED rpcVars
  <2>1. PICK f \in File : ClientCreate(c, f)
    BY <1>3
  <2>2. 0 \in 0..MaxOpens
    BY FilesAssumption
  <2>3. /\ Call(c, "create", f, "w", 0, client[c].seq + 1)
        /\ client[c].pc = "rest" /\ client[c].seq < MaxOps
    BY <2>1 DEF ClientCreate
  <2>4. client[c].seq <= client[c].seq + 1 /\ client[c].seq + 1 > 0
    BY <1>2
  <2> QED
    BY <1>2, <1>3, <2>2, <2>3, <2>4, CallKeeps DEF rpcVars
<1>4. CASE (\E f \in File, mode \in {"r", "w"} : ClientOpen(c, f, mode)) /\ UNCHANGED rpcVars
  <2>1. PICK f \in File, mode \in {"r", "w"} : ClientOpen(c, f, mode)
    BY <1>4
  <2>2. 0 \in 0..MaxOpens
    BY FilesAssumption
  <2>3. /\ Call(c, "open", f, mode, 0, client[c].seq)
        /\ client[c].pc = "rest" /\ client[c].seq < MaxOps
    BY <2>1 DEF ClientOpen
  <2>4. client[c].seq <= client[c].seq
    BY <1>2
  <2> QED
    BY <1>2, <1>4, <2>2, <2>3, <2>4, CallKeeps DEF rpcVars
<1>5. CASE ClientClose(c) /\ UNCHANGED rpcVars
  <2> DEFINE h == client[c].held
  <2>1. /\ Call(c, "close", h.file, h.mode, h.handle, client[c].seq + 1)
        /\ client[c].pc = "rest" /\ h # NoHandle
    BY <1>5 DEF ClientClose
  <2>2. h \in Handle /\ client[c].seq < MaxOps
    BY <1>1, <2>1 DEF ClientRecord, ClientSound
  <2>3. h.handle \in 0..MaxOpens /\ h.file \in File /\ h.mode \in {"r", "w"}
    BY <2>2, HeldFacts
  <2>4. client[c].seq <= client[c].seq + 1 /\ client[c].seq + 1 > 0
    BY <1>2
  <2> HIDE DEF h
  <2> QED
    BY <1>2, <1>5, <2>1, <2>2, <2>3, <2>4, CallKeeps DEF rpcVars
<1>6. CASE Send(c)
  BY <1>6, SendKeeps
<1>7. CASE GiveUp(c)
  <2> DEFINE n == Resting(client[c].addr, client[c].seq, NoHandle)
  <2>1. client[c].addr \in Server
    BY <1>1 DEF ClientRecord
  <2>2. n \in ClientRecord /\ ClientSound(n) /\ n.seq = client[c].seq
    BY <1>2, <2>1, RestingFacts
  <2>3. client' = [client EXCEPT ![c] = n] /\ UNCHANGED <<requests, jobs>> /\ client[c].pc = "send"
    BY <1>1, <1>7 DEF GiveUp, rpcVars
  <2> HIDE DEF n
  <2>4. /\ \A r \in requests : r.waited => r.client # c
        /\ \A k \in jobs : k.waited => k.client # c
    BY <2>3 DEF CallInv, WaitInv, Asks
  <2> QED
    BY <1>1, <2>2, <2>3, <2>4, LeaveKeeps
<1>8. CASE Timeout(c)
  <2> DEFINE n == [client[c] EXCEPT !.pc = "send", !.attempt = @ + 1,
                                    !.addr = IF client[c].attempt < MaxRetries
                                             THEN Discovered ELSE @]
             S == {r \in requests : r.client = c => r.to \in listening}
  <2>1. client' = [client EXCEPT ![c] = n]
    BY <1>1, <1>8 DEF Timeout
  <2>2. client[c].pc = "wait" /\ requests' = Abandon(c, S) /\ jobs' = Abandon(c, jobs)
    BY <1>8 DEF Timeout
  <2>3. Discovered \in Server
    BY DiscoveredIsServer
  <2>4. /\ n \in ClientRecord
        /\ n.pc = "send" /\ n.seq = client[c].seq /\ n.held = client[c].held
        /\ n.op = client[c].op /\ n.file = client[c].file /\ n.mode = client[c].mode
    <3>1. client[c].attempt \in 0..MaxRetries + 1 /\ client[c].attempt <= MaxRetries
      BY <1>1, <2>2 DEF ClientRecord, ClientSound
    <3>2. client[c].attempt + 1 \in 0..MaxRetries + 1
      BY <3>1, FilesAssumption
    <3> DEFINE addr == IF client[c].attempt < MaxRetries THEN Discovered ELSE client[c].addr
    <3>3. addr \in Server
      BY <1>1, <2>3 DEF ClientRecord
    <3>4. n = [client[c] EXCEPT !.pc = "send", !.attempt = client[c].attempt + 1, !.addr = addr]
      OBVIOUS
    <3> HIDE DEF addr, n
    <3> QED
      BY <1>1, <3>2, <3>3, <3>4 DEF ClientRecord
  <2>5. ClientSound(n)
    <3> HIDE DEF n
    <3> QED
      BY <1>1, <2>2, <2>4 DEF ClientSound
  <2>6. S \in SUBSET Request /\ S \subseteq requests
    BY <1>1
  <2>7. /\ requests' \subseteq Request
        /\ \A x \in requests' : \E y \in requests :
             /\ x.client = y.client /\ x.seq = y.seq /\ x.op = y.op
             /\ x.waited => x = y /\ y.client # c
    <3> HIDE DEF S
    <3> QED
      BY <2>2, <2>6, AbandonRequests
  <2>8. /\ jobs' \subseteq JobRecord
        /\ \A x \in jobs' : \E y \in jobs :
             /\ x.client = y.client /\ x.seq = y.seq
             /\ x.waited => x = y /\ y.client # c
    BY <1>1, <2>2, AbandonJobs
  <2> HIDE DEF n
  <2> QED
    BY <2>1, <2>4, <2>5, <2>7, <2>8, LeaveKeeps
<1> QED
  BY <1>3, <1>4, <1>5, <1>6, <1>7, <1>8 DEF ClientStep

\* The files, and what is kept about them
FileTypes ==
    /\ disk \in [Server -> [File -> Content]]
    /\ versions \in [Server -> [File -> Nat]]
    /\ openFiles \in [Server -> SUBSET Handle]
    /\ nextHandle \in [Server -> 1..MaxOpens + 1]
    /\ late \subseteq [to : Server, job : JobRecord]
    /\ snapshot \in [Server -> [disk : [File -> Content], versions : [File -> Nat]]]
    /\ acked \subseteq [file : File, version : Nat, data : Write, of : 1..MaxOps]
    /\ ran \in [Server -> Seq(Write)]
    /\ overlapped \subseteq File /\ astray \subseteq Write

FilesInv == RolesInv /\ FileTypes /\ CallInv

\* The types of the fields of requests, jobs and clients
LEMMA CallFieldTypes ==
    ASSUME CallInv
    PROVE  /\ \A r \in requests : /\ r \in Request /\ r.client \in Client /\ r.to \in Server
                                  /\ r.seq \in 0..MaxOps /\ r.seq \in Nat
                                  /\ r.op \in {"create", "open", "close"}
                                  /\ r.file \in File /\ r.mode \in {"r", "w"}
                                  /\ r.handle \in 0..MaxOpens /\ r.waited \in BOOLEAN
           /\ \A j \in jobs : /\ j \in JobRecord /\ j.srv \in Server /\ j.client \in Client
                              /\ j.seq \in 1..MaxOps /\ j.seq \in Nat
                              /\ j.op \in {"create", "close"} /\ j.file \in File
                              /\ j.pc \in {"write", "version", "replicate", "store"}
                              /\ j.version \in Nat /\ j.todo \in SUBSET Server
                              /\ j.waited \in BOOLEAN
           /\ \A c \in Client : /\ client[c] \in ClientRecord /\ ClientSound(client[c])
                                /\ client[c].addr \in Server
                                /\ client[c].seq \in 0..MaxOps /\ client[c].seq \in Nat
                                /\ client[c].file \in File \cup {Absent}
                                /\ client[c].handle \in 0..MaxOpens
<1>1. requests \subseteq Request /\ jobs \subseteq JobRecord /\ client \in [Client -> ClientRecord]
  BY DEF CallInv, CallTypes
<1>2. 0..MaxOps \subseteq Nat /\ 1..MaxOps \subseteq Nat
  BY FilesAssumption
<1>3. \A r \in Request : /\ r.client \in Client /\ r.to \in Server
                         /\ r.seq \in 0..MaxOps
                         /\ r.op \in {"create", "open", "close"}
                         /\ r.file \in File /\ r.mode \in {"r", "w"}
                         /\ r.handle \in 0..MaxOpens /\ r.waited \in BOOLEAN
  BY DEF Request
<1>4. \A j \in JobRecord : /\ j.srv \in Server /\ j.client \in Client
                           /\ j.seq \in 1..MaxOps
                           /\ j.op \in {"create", "close"} /\ j.file \in File
                           /\ j.pc \in {"write", "version", "replicate", "store"}
                           /\ j.version \in Nat /\ j.todo \in SUBSET Server
                           /\ j.waited \in BOOLEAN
  BY DEF JobRecord
<1>5. \A c \in ClientRecord : /\ c.addr \in Server /\ c.seq \in 0..MaxOps
                              /\ c.file \in File \cup {Absent} /\ c.handle \in 0..MaxOpens
  BY DEF ClientRecord
<1> QED
  BY <1>1, <1>2, <1>3, <1>4, <1>5 DEF CallInv, CallTypes

\* The answers that end a call
LEMMA AnswerFacts ==
    ASSUME CallInv, NEW c \in Client, NEW held \in Handle \cup {NoHandle},
           held # NoHandle => client[c].seq < MaxOps
    PROVE  /\ Returned(c, held) \in ClientRecord /\ ClientSound(Returned(c, held))
           /\ Returned(c, held).seq = client[c].seq
           /\ Raised(c) \in ClientRecord /\ ClientSound(Raised(c))
           /\ Raised(c).seq = client[c].seq
<1>1. client[c].addr \in Server /\ client[c].seq \in 0..MaxOps
  BY CallFieldTypes
<1> QED
  BY <1>1, RestingFacts DEF Returned, Raised

\* Calls and numbers, when a handler runs
LEMMA RequestStepKeeps ==
    ASSUME CallInv, FileTypes, RolesType, NEW r \in requests, RequestStep(r)
    PROVE  CallInv'
<1>1. /\ r \in Request /\ r.client \in Client /\ r.to \in Server
      /\ r.op \in {"create", "open", "close"} /\ r.file \in File /\ r.mode \in {"r", "w"}
      /\ requests' = requests \ {r}
  BY CallFieldTypes DEF RequestStep, Redirect, AnswerFromCache, HandleCreate, HandleOpen,
     HandleClose, Admitted, Served
<1>2. /\ \A i \in Server : \A c \in Client : dedup[i][c].seq <= client[c].seq
      /\ dedup \in [Server -> [Client -> [seq : 0..MaxOps, version : Nat]]]
      /\ client \in [Client -> ClientRecord]
      /\ jobs \subseteq JobRecord
  BY DEF CallInv, CallTypes, WaitInv
<1>3. /\ r.waited => \A q \in requests' : q.waited => q.client # r.client
      /\ r.waited => \A k \in jobs : k.waited => k.client # r.client
      /\ r.waited => /\ client[r.client].pc = "wait" /\ client[r.client].op = r.op
      /\ r.op # "open" => r.seq > 0
      /\ r.seq <= client[r.client].seq
      /\ r.waited => client[r.client].seq = r.seq
  BY <1>1 DEF CallInv, WaitInv, Asks
<1>4. requests' \subseteq requests
  BY <1>1
\* A handler that answers
<1>5. ASSUME NEW result, Answer(r, result), UNCHANGED <<jobs, dedup>>,
             r.waited => /\ result \in ClientRecord /\ ClientSound(result)
                         /\ result.seq = client[r.client].seq
      PROVE  CallInv'
  BY <1>1, <1>2, <1>3, <1>4, <1>5, AnswerKeeps
\* A handler that goes on
<1>6. ASSUME NEW f \in File, NEW pc \in {"write", "store"}, r.op # "open",
             jobs' = jobs \cup {Job(r, f, pc)}, UNCHANGED <<client, dedup>>
      PROVE  CallInv'
  <2> DEFINE k == Job(r, f, pc)
  <2>1. /\ k \in JobRecord /\ k.client = r.client /\ k.seq = r.seq /\ k.op = r.op
        /\ k.waited = r.waited
    BY <1>1, <1>3, <1>6, JobFacts
  <2>2. jobs' = jobs \cup {k} /\ UNCHANGED <<client, dedup>>
    BY <1>6
  <2> HIDE DEF k
  <2>3. k.waited => Asks(k)
    BY <1>3, <2>1 DEF Asks
  <2> QED
    BY <1>3, <1>4, <2>1, <2>2, <2>3, WorkKeeps
<1>7. NoHandle \in Handle \cup {NoHandle}
  OBVIOUS
<1>8. /\ Returned(r.client, NoHandle) \in ClientRecord /\ ClientSound(Returned(r.client, NoHandle))
      /\ Returned(r.client, NoHandle).seq = client[r.client].seq
      /\ Raised(r.client) \in ClientRecord /\ ClientSound(Raised(r.client))
      /\ Raised(r.client).seq = client[r.client].seq
  BY <1>1, <1>7, AnswerFacts
<1>9. CASE Redirect(r)
  <2> DEFINE n == [client[r.client] EXCEPT !.pc = "send", !.attempt = @ + 1,
                                           !.addr = primaryAddr[r.to]]
  <2>1. Answer(r, n) /\ UNCHANGED <<jobs, dedup>>
    BY <1>9 DEF Redirect, fileVars
  <2>2. ASSUME r.waited
        PROVE  n \in ClientRecord /\ ClientSound(n) /\ n.seq = client[r.client].seq
    <3> DEFINE c == client[r.client]
    <3>1. c \in ClientRecord /\ ClientSound(c) /\ c.pc = "wait"
      BY <1>1, <1>3, <2>2, CallFieldTypes
    <3>2. c.attempt \in 0..MaxRetries + 1 /\ c.attempt <= MaxRetries
      BY <3>1 DEF ClientRecord, ClientSound
    <3>3. c.attempt + 1 \in 0..MaxRetries + 1
      BY <3>2, FilesAssumption
    <3>4. primaryAddr[r.to] \in Server
      BY <1>1, RoleTypes
    <3> HIDE DEF c
    <3>5. n = [c EXCEPT !.pc = "send", !.attempt = c.attempt + 1, !.addr = primaryAddr[r.to]]
      BY DEF c
    <3> HIDE DEF n
    <3>6. /\ n \in ClientRecord
          /\ n.pc = "send" /\ n.seq = c.seq /\ n.held = c.held /\ n.op = c.op
          /\ n.file = c.file /\ n.mode = c.mode
      BY <3>1, <3>3, <3>4, <3>5 DEF ClientRecord
    <3>7. ClientSound(n)
      BY <3>1, <3>6 DEF ClientSound
    <3> QED
      BY <3>6, <3>7 DEF c
  <2> HIDE DEF n
  <2> QED
    BY <2>1, <2>2, <1>5
<1>10. CASE AnswerFromCache(r)
  BY <1>5, <1>8, <1>10 DEF AnswerFromCache, fileVars
<1>11. CASE HandleCreate(r)
  <2>1. UNCHANGED dedup /\ r.op # "open"
    BY <1>11 DEF HandleCreate, Admitted, fileVars
  <2>2. CASE Answer(r, Raised(r.client)) /\ UNCHANGED jobs
    BY <1>5, <1>8, <2>1, <2>2
  <2>3. CASE Begin(Job(r, r.file, "write")) /\ UNCHANGED client
    BY <1>1, <1>6, <2>1, <2>3 DEF Begin
  <2> QED
    BY <1>11, <2>2, <2>3 DEF HandleCreate
<1>12. CASE HandleOpen(r)
  <2> DEFINE h == [handle |-> nextHandle[r.to], file |-> r.file, mode |-> r.mode]
  <2>1. UNCHANGED <<jobs, dedup>> /\ r.op = "open"
    BY <1>12 DEF HandleOpen, Admitted
  <2>2. CASE Answer(r, Raised(r.client))
    BY <1>5, <1>8, <2>1, <2>2
  <2>3. CASE nextHandle[r.to] <= MaxOpens /\ Answer(r, Returned(r.client, h))
    <3>1. h \in Handle
      <4>1. nextHandle[r.to] \in 1..MaxOpens + 1
        BY <1>1 DEF FileTypes
      <4>2. nextHandle[r.to] \in 1..MaxOpens
        BY <4>1, <2>3, FilesAssumption
      <4> QED
        BY <1>1, <4>2 DEF Handle
    <3>2. r.waited => client[r.client].seq < MaxOps
      BY <1>1, <1>3, <2>1, CallFieldTypes DEF ClientSound
    <3> HIDE DEF h
    <3>3. r.waited => /\ Returned(r.client, h) \in ClientRecord /\ ClientSound(Returned(r.client, h))
                      /\ Returned(r.client, h).seq = client[r.client].seq
      BY <1>1, <3>1, <3>2, AnswerFacts
    <3> QED
      BY <1>5, <2>1, <2>3, <3>3
  <2> QED
    BY <1>12, <2>2, <2>3 DEF HandleOpen
<1>13. CASE HandleClose(r)
  <2>1. UNCHANGED dedup /\ r.op # "open"
    BY <1>13 DEF HandleClose, Admitted
  <2>2. CASE Answer(r, Raised(r.client)) /\ UNCHANGED jobs
    BY <1>5, <1>8, <2>1, <2>2
  <2>3. CASE \E h \in openFiles[r.to] :
               /\ Begin(Job(r, h.file, IF h.mode = "w" THEN "write" ELSE "store"))
               /\ UNCHANGED client
    <3>1. PICK h \in openFiles[r.to] :
               /\ Begin(Job(r, h.file, IF h.mode = "w" THEN "write" ELSE "store"))
               /\ UNCHANGED client
      BY <2>3
    <3>2. h.file \in File
      BY <1>1, HeldFacts DEF FileTypes
    <3>3. (IF h.mode = "w" THEN "write" ELSE "store") \in {"write", "store"}
      OBVIOUS
    <3> QED
      BY <1>6, <2>1, <3>1, <3>2, <3>3 DEF Begin
  <2> QED
    BY <1>13, <2>2, <2>3 DEF HandleClose
<1> QED
  BY <1>9, <1>10, <1>11, <1>12, <1>13 DEF RequestStep

\* The version that Create or Close gives is a positive number
LEMMA NewVersionIsNumber ==
    ASSUME FileTypes, NEW j \in JobRecord
    PROVE  NewVersion(j) \in Nat /\ NewVersion(j) > 0
<1>1. versions[j.srv][j.file] \in Nat
  BY DEF FileTypes, JobRecord
<1> QED
  BY <1>1 DEF NewVersion

\* What the steps of a job do to it
LEMMA JobMoves ==
    ASSUME CallInv, FileTypes, NEW j \in jobs
    PROVE  /\ JobWrite(j) => \E k \in JobRecord :
                /\ jobs' = (jobs \ {j}) \cup {k}
                /\ k.srv = j.srv /\ k.client = j.client /\ k.seq = j.seq /\ k.op = j.op
                /\ k.file = j.file /\ k.waited = j.waited
                /\ k.pc = "version" /\ k.version = j.version /\ k.todo = j.todo
           /\ JobVersion(j) => \E k \in JobRecord :
                /\ jobs' = (jobs \ {j}) \cup {k}
                /\ k.srv = j.srv /\ k.client = j.client /\ k.seq = j.seq /\ k.op = j.op
                /\ k.file = j.file /\ k.waited = j.waited
                /\ k.pc = "replicate" /\ k.version = NewVersion(j) /\ k.todo = Peers(j.srv)
           /\ JobReplicate(j) => \E k \in JobRecord :
                /\ jobs' = (jobs \ {j}) \cup {k}
                /\ k.srv = j.srv /\ k.client = j.client /\ k.seq = j.seq /\ k.op = j.op
                /\ k.file = j.file /\ k.waited = j.waited
                /\ k.pc = "replicate" /\ k.version = j.version
                /\ k.todo = j.todo \ {Lowest(j.todo)}
<1>1. /\ j \in JobRecord /\ j.srv \in Server /\ j.version \in Nat /\ j.todo \in SUBSET Server
      /\ j.pc \in {"write", "version", "replicate", "store"}
  BY CallFieldTypes
<1>2. ASSUME JobWrite(j)
      PROVE  \E k \in JobRecord :
                /\ jobs' = (jobs \ {j}) \cup {k}
                /\ k.srv = j.srv /\ k.client = j.client /\ k.seq = j.seq /\ k.op = j.op
                /\ k.file = j.file /\ k.waited = j.waited
                /\ k.pc = "version" /\ k.version = j.version /\ k.todo = j.todo
  <2> DEFINE k == [j EXCEPT !.pc = "version"]
  <2>1. /\ k \in JobRecord
        /\ k.srv = j.srv /\ k.client = j.client /\ k.seq = j.seq /\ k.op = j.op
        /\ k.file = j.file /\ k.waited = j.waited
        /\ k.pc = "version" /\ k.version = j.version /\ k.todo = j.todo
    BY <1>1 DEF JobRecord
  <2>2. jobs' = (jobs \ {j}) \cup {k}
    BY <1>2 DEF JobWrite, Become
  <2> HIDE DEF k
  <2> QED
    BY <2>1, <2>2
<1>3. ASSUME JobVersion(j)
      PROVE  \E k \in JobRecord :
                /\ jobs' = (jobs \ {j}) \cup {k}
                /\ k.srv = j.srv /\ k.client = j.client /\ k.seq = j.seq /\ k.op = j.op
                /\ k.file = j.file /\ k.waited = j.waited
                /\ k.pc = "replicate" /\ k.version = NewVersion(j) /\ k.todo = Peers(j.srv)
  <2> DEFINE k == [j EXCEPT !.pc = "replicate", !.version = NewVersion(j), !.todo = Peers(j.srv)]
  <2>1. jobs' = (jobs \ {j}) \cup {k}
    BY <1>3 DEF JobVersion, Become
  <2>2. NewVersion(j) \in Nat /\ Peers(j.srv) \in SUBSET Server
    BY <1>1, NewVersionIsNumber DEF Peers
  <2>3. /\ k \in JobRecord
        /\ k.srv = j.srv /\ k.client = j.client /\ k.seq = j.seq /\ k.op = j.op
        /\ k.file = j.file /\ k.waited = j.waited
        /\ k.pc = "replicate" /\ k.version = NewVersion(j) /\ k.todo = Peers(j.srv)
    BY <1>1, <2>2 DEF JobRecord
  <2> HIDE DEF k
  <2> QED
    BY <2>1, <2>3
<1>4. ASSUME JobReplicate(j)
      PROVE  \E k \in JobRecord :
                /\ jobs' = (jobs \ {j}) \cup {k}
                /\ k.srv = j.srv /\ k.client = j.client /\ k.seq = j.seq /\ k.op = j.op
                /\ k.file = j.file /\ k.waited = j.waited
                /\ k.pc = "replicate" /\ k.version = j.version
                /\ k.todo = j.todo \ {Lowest(j.todo)}
  <2> DEFINE rest == j.todo \ {Lowest(j.todo)}
             k == [j EXCEPT !.todo = rest]
  <2>1. jobs' = (jobs \ {j}) \cup {k} /\ j.pc = "replicate"
    BY <1>4 DEF JobReplicate, Become
  <2>2. rest \in SUBSET Server
    BY <1>1
  <2> HIDE DEF rest
  <2>4. /\ k \in JobRecord
        /\ k.srv = j.srv /\ k.client = j.client /\ k.seq = j.seq /\ k.op = j.op
        /\ k.file = j.file /\ k.waited = j.waited
        /\ k.pc = j.pc /\ k.version = j.version /\ k.todo = rest
    BY <1>1, <2>2 DEF JobRecord
  <2> HIDE DEF k
  <2> QED
    BY <2>1, <2>4 DEF rest
<1> QED
  BY <1>2, <1>3, <1>4

\* Calls and numbers, when a job goes on
LEMMA JobStepKeeps ==
    ASSUME CallInv, FileTypes, NEW j \in jobs, JobStep(j)
    PROVE  CallInv'
<1>1. j \in JobRecord /\ j.client \in Client /\ j.srv \in Server /\ j.seq \in 1..MaxOps
      /\ j.seq \in Nat /\ j.version \in Nat
  BY CallFieldTypes
<1>2. /\ \A i \in Server : \A c \in Client : dedup[i][c].seq <= client[c].seq
      /\ dedup \in [Server -> [Client -> [seq : 0..MaxOps, version : Nat]]]
      /\ j.seq <= client[j.client].seq
      /\ j.waited => Asks(j)
      /\ j.waited => \A q \in requests : q.waited => q.client # j.client
      /\ j.waited => \A l \in jobs : l.waited /\ l.client = j.client => l = j
  BY DEF CallInv, CallTypes, WaitInv
<1>3. CASE JobWrite(j) \/ JobVersion(j) \/ JobReplicate(j)
  <2>1. PICK k \in JobRecord :
          /\ jobs' = (jobs \ {j}) \cup {k}
          /\ k.client = j.client /\ k.seq = j.seq /\ k.op = j.op /\ k.waited = j.waited
    BY <1>3, JobMoves
  <2>2. UNCHANGED <<client, dedup, requests>>
    BY <1>3 DEF JobWrite, JobVersion, JobReplicate
  <2>3. k.waited => Asks(k)
    BY <1>2, <2>1 DEF Asks
  <2>4. k.waited => \A l \in jobs' : l.waited /\ l.client = k.client => l = k
    BY <1>2, <2>1
  <2>5. k.waited => \A q \in requests' : q.waited => q.client # k.client
    BY <1>2, <2>1, <2>2
  <2>6. k.seq <= client[k.client].seq /\ requests' \subseteq requests /\ jobs' \subseteq jobs \cup {k}
    BY <1>2, <2>1, <2>2
  <2> QED
    BY <2>2, <2>3, <2>4, <2>5, <2>6, WorkKeeps
<1>4. CASE JobStore(j)
  <2> DEFINE version == IF j.op = "close" THEN j.version ELSE 0
             e == [seq |-> j.seq, version |-> version]
  <2>1. /\ dedup' = [dedup EXCEPT ![j.srv][j.client] = e]
        /\ jobs' = jobs \ {j}
        /\ Answer(j, Returned(j.client, NoHandle))
        /\ UNCHANGED requests
    BY <1>4 DEF JobStore
  <2>2. e \in [seq : 0..MaxOps, version : Nat] /\ e.seq = j.seq
    BY <1>1, FilesAssumption
  <2> HIDE DEF e
  <2>3. dedup' \in [Server -> [Client -> [seq : 0..MaxOps, version : Nat]]]
    BY <1>1, <1>2, <2>1, <2>2
  <2>4. \A i \in Server : \A c \in Client : dedup'[i][c].seq <= client[c].seq
    <3> SUFFICES ASSUME NEW i \in Server, NEW c \in Client
                 PROVE  dedup'[i][c].seq <= client[c].seq
      OBVIOUS
    <3>1. dedup'[i][c] = IF i = j.srv /\ c = j.client THEN e ELSE dedup[i][c]
      BY <1>1, <1>2, <2>1
    <3> QED
      BY <1>2, <2>2, <3>1
  <2>5. /\ Returned(j.client, NoHandle) \in ClientRecord
        /\ ClientSound(Returned(j.client, NoHandle))
        /\ Returned(j.client, NoHandle).seq = client[j.client].seq
    <3>1. NoHandle \in Handle \cup {NoHandle}
      OBVIOUS
    <3> QED
      BY <1>1, <3>1, AnswerFacts
  <2>6. /\ requests' \subseteq requests /\ jobs' \subseteq jobs
        /\ j.waited => \A q \in requests' : q.waited => q.client # j.client
        /\ j.waited => \A k \in jobs' : k.waited => k.client # j.client
    BY <1>2, <2>1
  <2> QED
    BY <1>1, <2>1, <2>3, <2>4, <2>5, <2>6, AnswerKeeps
<1> QED
  BY <1>3, <1>4 DEF JobStep

\* To ReplicaRoles a step of PrimaryBackup is one of its own, or a failed call
LEMMA FilesStepIsRoleStep ==
    ASSUME RolesType, FilesNext
    PROVE  Next \/ OtherFault \/ UNCHANGED roleVars
<1>1. faults \in Nat
  BY RoleTypes
<1>2. CASE \E i \in Server : ServerStep(i)
  <2>1. PICK i \in Server : ServerStep(i)
    BY <1>2
  <2>2. CASE RoleStep(i)
    BY <2>2 DEF RoleStep, Next, ThreadStep
  <2>3. CASE \/ StartServer(i) \/ BootAsPrimary(i) \/ TakeSnapshot(i) \/ InstallSnapshot(i)
             \/ EndServerElection(i) \/ CrashServer(i)
    BY <2>3 DEF StartServer, BootAsPrimary, TakeSnapshot, InstallSnapshot, EndServerElection,
       CrashServer, Next, ThreadStep
  <2> QED
    BY <2>1, <2>2, <2>3 DEF ServerStep
<1>3. CASE \E c \in Client : ClientStep(c)
  <2>1. PICK c \in Client : ClientStep(c)
    BY <1>3
  <2>2. CASE Timeout(c) /\ UNCHANGED <<threadVars, heard, calm>>
    <3>1. faults' = faults + (IF Underway(c) THEN 1 ELSE 0) /\ (Underway(c) => faults < MaxFaults)
      BY <2>2 DEF Timeout
    <3>2. UNCHANGED <<threadVars, heard, isolated, crashes, restarts, calm>>
      BY <2>2 DEF Timeout
    <3>3. CASE Underway(c)
      BY <3>1, <3>2, <3>3 DEF OtherFault
    <3>4. CASE ~Underway(c)
      BY <1>1, <3>1, <3>2, <3>4 DEF OtherFault
    <3> QED
      BY <3>3, <3>4
  <2> QED
    BY <2>1, <2>2 DEF ClientStep
<1>4. CASE \E r \in requests : RequestStep(r)
  BY <1>4 DEF RequestStep
<1>5. CASE \E j \in jobs : JobStep(j)
  <2>1. PICK j \in jobs : JobStep(j)
    BY <1>5
  <2>2. CASE JobReplicate(j) /\ UNCHANGED <<threadVars, heard, calm, snapshot>>
    <3>1. Answered(j.srv, Lowest(j.todo)) \/ Failed(j.srv, Lowest(j.todo))
      BY <2>2 DEF JobReplicate
    <3> QED
      BY <2>2, <3>1 DEF Answered, Failed, OtherFault, faultVars
  <2> QED
    BY <2>1, <2>2 DEF JobStep
<1>6. CASE \E m \in late : ServeLate(m) /\ UNCHANGED <<roleVars, snapshot>>
  BY <1>6
<1> QED
  BY <1>2, <1>3, <1>4, <1>5, <1>6 DEF FilesNext

\* Calls and numbers, when a server takes a step: a crash loses calls, a start
\* empties the cache
LEMMA ServerStepKeeps ==
    ASSUME CallInv, NEW i \in Server, ServerStep(i)
    PROVE  CallInv'
<1>1. /\ dedup \in [Server -> [Client -> [seq : 0..MaxOps, version : Nat]]]
      /\ \A k \in Server : \A c \in Client : dedup[k][c].seq <= client[c].seq
      /\ \A c \in Client : client[c].seq \in Nat
  BY CallFieldTypes DEF CallInv, CallTypes, WaitInv
<1>2. CASE UNCHANGED <<requests, jobs, client, dedup>>
  BY <1>1, <1>2, LossKeeps
<1>3. CASE StartServer(i)
  <2>1. /\ UNCHANGED <<requests, jobs, client>>
        /\ dedup' = [dedup EXCEPT ![i] = [c \in Client |-> NoReply]]
    BY <1>3 DEF StartServer, rpcVars
  <2>2. NoReply \in [seq : 0..MaxOps, version : Nat] /\ NoReply.seq = 0
    BY FilesAssumption DEF NoReply
  <2>3. /\ dedup' \in [Server -> [Client -> [seq : 0..MaxOps, version : Nat]]]
        /\ \A k \in Server : \A c \in Client :
             dedup'[k][c] = IF k = i THEN NoReply ELSE dedup[k][c]
    BY <1>1, <2>1, <2>2
  <2>4. \A k \in Server : \A c \in Client : dedup'[k][c].seq <= client[c].seq
    <3> SUFFICES ASSUME NEW k \in Server, NEW c \in Client
                 PROVE  dedup'[k][c].seq <= client[c].seq
      OBVIOUS
    <3>1. CASE k = i
      <4>1. dedup'[k][c].seq = 0
        BY <2>2, <2>3, <3>1
      <4>2. client[c].seq \in Nat
        BY <1>1
      <4> QED
        BY <4>1, <4>2
    <3>2. CASE k # i
      BY <1>1, <2>3, <3>2
    <3> QED
      BY <3>1, <3>2
  <2> QED
    BY <2>1, <2>3, <2>4, LossKeeps
<1>4. CASE CrashServer(i)
  BY <1>1, <1>4, LossKeeps DEF CrashServer
<1> QED
  BY <1>2, <1>3, <1>4 DEF ServerStep, RoleStep, BootAsPrimary, TakeSnapshot, InstallSnapshot,
     EndServerElection, fileVars, rpcVars

\* CallInv is inductive
LEMMA CallNext ==
    ASSUME CallInv, FileTypes, RolesType, FilesNext
    PROVE  CallInv'
<1>1. CASE \E i \in Server : ServerStep(i)
  BY <1>1, ServerStepKeeps
<1>2. CASE \E c \in Client : ClientStep(c)
  <2>1. UNCHANGED dedup
    BY <1>2 DEF ClientStep, fileVars
  <2> QED
    BY <1>2, <2>1, ClientStepKeeps
<1>3. CASE \E r \in requests : RequestStep(r)
  BY <1>3, RequestStepKeeps
<1>4. CASE \E j \in jobs : JobStep(j)
  BY <1>4, JobStepKeeps
<1>5. CASE \E m \in late : ServeLate(m)
  <2>1. UNCHANGED <<requests, jobs, client, dedup>>
    BY <1>5 DEF ServeLate
  <2>2. /\ dedup \in [Server -> [Client -> [seq : 0..MaxOps, version : Nat]]]
        /\ \A k \in Server : \A c \in Client : dedup[k][c].seq <= client[c].seq
    BY DEF CallInv, CallTypes, WaitInv
  <2> QED
    BY <2>1, <2>2, LossKeeps
<1> QED
  BY <1>1, <1>2, <1>3, <1>4, <1>5 DEF FilesNext

\* What a job writes is content, and not nothing
LEMMA DataIsContent ==
    ASSUME NEW j \in JobRecord
    PROVE  /\ Data(j) \in Content /\ Data(j) # Absent
           /\ j.op = "close" => /\ Data(j) = [client |-> j.client, seq |-> j.seq]
                                /\ Data(j) \in Write
BY FilesAssumption DEF Data, Content, Write, JobRecord

\* A backup stores contents and versions
LEMMA ReplicateTypes ==
    ASSUME FileTypes, NEW p \in Server, NEW j \in JobRecord, Replicate(p, j)
    PROVE  /\ disk' \in [Server -> [File -> Content]]
           /\ versions' \in [Server -> [File -> Nat]]
<1>1. j.file \in File /\ j.version \in Nat
  BY DEF JobRecord
<1>2. Data(j) \in Content
  BY DataIsContent
<1> QED
  BY <1>1, <1>2 DEF FileTypes, Replicate

\* A confirmation carries a file, a version, a write and a number
LEMMA ConfirmTypes ==
    ASSUME FileTypes, NEW x, NEW seq \in 1..MaxOps, NEW version \in Nat, Confirm(x, seq, version),
           x.client \in Client, x.seq \in 1..MaxOps, x.waited => client[x.client].file \in File
    PROVE  acked' \subseteq [file : File, version : Nat, data : Write, of : 1..MaxOps]
<1>1. acked \subseteq [file : File, version : Nat, data : Write, of : 1..MaxOps]
  BY DEF FileTypes
<1>2. [client |-> x.client, seq |-> x.seq] \in Write
  BY DEF Write
<1> QED
  BY <1>1, <1>2 DEF Confirm

\* The types of the files and handles, when a handler runs
LEMMA FileTypesRequest ==
    ASSUME CallInv, FileTypes, NEW r \in requests, RequestStep(r)
    PROVE  FileTypes'
<1>1. /\ r \in Request /\ r.client \in Client /\ r.to \in Server /\ r.seq \in 0..MaxOps
      /\ r.seq \in Nat
      /\ r.op \in {"create", "open", "close"} /\ r.file \in File /\ r.mode \in {"r", "w"}
  BY CallFieldTypes
<1>2. /\ r.op # "open" => r.seq \in 1..MaxOps
      /\ r.waited => client[r.client].file \in File
  BY <1>1, FilesAssumption DEF CallInv, WaitInv
<1>3. CASE Redirect(r)
  BY <1>3 DEF Redirect, RequestStep, FileTypes, fileVars, history
<1>4. CASE AnswerFromCache(r)
  <2> DEFINE d == dedup[r.to][r.client]
  <2>1. d.seq \in 0..MaxOps /\ d.version \in Nat
    BY <1>1 DEF CallInv, CallTypes
  <2>2. r.seq \in 1..MaxOps /\ d.seq >= r.seq /\ Confirm(r, d.seq, d.version)
    BY <1>2, <1>4 DEF AnswerFromCache, Cached
  <2> HIDE DEF d
  <2>3. d.seq \in 1..MaxOps
    BY <2>1, <2>2, FilesAssumption
  <2>4. acked' \subseteq [file : File, version : Nat, data : Write, of : 1..MaxOps]
    BY <1>1, <1>2, <2>1, <2>2, <2>3, ConfirmTypes
  <2> QED
    BY <1>4, <2>4 DEF AnswerFromCache, RequestStep, FileTypes, fileVars
<1>5. CASE HandleCreate(r)
  <2>1. overlapped' \subseteq File
    <3>1. CASE UNCHANGED overlapped
      BY <3>1 DEF FileTypes
    <3>2. CASE Begin(Job(r, r.file, "write"))
      <4>1. Job(r, r.file, "write").file = r.file
        BY DEF Job
      <4> QED
        BY <1>1, <3>2, <4>1 DEF Begin, FileTypes
    <3> QED
      BY <1>5, <3>1, <3>2 DEF HandleCreate
  <2> QED
    BY <1>5, <2>1 DEF HandleCreate, RequestStep, FileTypes, fileVars
<1>6. CASE HandleOpen(r)
  <2> DEFINE i == r.to
             h == [handle |-> nextHandle[i], file |-> r.file, mode |-> r.mode]
  <2>1. UNCHANGED <<disk, late, history, snapshot>>
    BY <1>6 DEF HandleOpen, RequestStep
  <2>2. CASE UNCHANGED <<versions, openFiles, nextHandle>>
    BY <2>1, <2>2 DEF FileTypes, history
  <2>3. CASE /\ nextHandle[i] <= MaxOpens
             /\ openFiles' = [openFiles EXCEPT ![i] = @ \cup {h}]
             /\ nextHandle' = [nextHandle EXCEPT ![i] = @ + 1]
             /\ versions' = IF disk[i][r.file] # Absent /\ versions[i][r.file] = 0
                            THEN [versions EXCEPT ![i][r.file] = 1] ELSE versions
    <3>1. nextHandle[i] \in 1..MaxOpens /\ nextHandle[i] + 1 \in 1..MaxOpens + 1
      <4>1. nextHandle[i] \in 1..MaxOpens + 1
        BY <1>1 DEF FileTypes
      <4> QED
        BY <4>1, <2>3, FilesAssumption
    <3>2. h \in Handle
      BY <1>1, <3>1 DEF Handle
    <3> HIDE DEF h
    <3>3. openFiles' \in [Server -> SUBSET Handle] /\ nextHandle' \in [Server -> 1..MaxOpens + 1]
      BY <1>1, <2>3, <3>1, <3>2 DEF FileTypes
    <3>4. versions' \in [Server -> [File -> Nat]]
      BY <1>1, <2>3 DEF FileTypes
    <3> QED
      BY <2>1, <3>3, <3>4 DEF FileTypes, history
  <2> QED
    BY <1>6, <2>2, <2>3 DEF HandleOpen
<1>7. CASE HandleClose(r)
  <2>1. UNCHANGED <<disk, versions, nextHandle, late, acked, ran, snapshot>> /\ r.op = "close"
    BY <1>7 DEF HandleClose, RequestStep, Admitted
  <2>2. CASE UNCHANGED <<openFiles, overlapped, astray>>
    BY <2>1, <2>2 DEF FileTypes
  <2>3. CASE \E h \in openFiles[r.to] :
               /\ Pop(r.to, h)
               /\ Begin(Job(r, h.file, IF h.mode = "w" THEN "write" ELSE "store"))
               /\ astray' = IF h.file = r.file /\ h.mode = r.mode THEN astray
                            ELSE astray \cup {[client |-> r.client, seq |-> r.seq]}
    <3>1. PICK h \in openFiles[r.to] :
               /\ Pop(r.to, h)
               /\ Begin(Job(r, h.file, IF h.mode = "w" THEN "write" ELSE "store"))
               /\ astray' = IF h.file = r.file /\ h.mode = r.mode THEN astray
                            ELSE astray \cup {[client |-> r.client, seq |-> r.seq]}
      BY <2>3
    <3>2. h.file \in File
      BY <1>1, HeldFacts DEF FileTypes
    <3>3. Job(r, h.file, IF h.mode = "w" THEN "write" ELSE "store").file = h.file
      BY DEF Job
    <3>4. overlapped' \subseteq File
      BY <3>1, <3>2, <3>3 DEF Begin, FileTypes
    <3>5. openFiles' \in [Server -> SUBSET Handle]
      BY <1>1, <3>1 DEF Pop, FileTypes
    <3>6. astray' \subseteq Write
      BY <1>1, <1>2, <2>1, <3>1 DEF FileTypes, Write
    <3> QED
      BY <2>1, <3>4, <3>5, <3>6 DEF FileTypes
  <2> QED
    BY <1>7, <2>2, <2>3 DEF HandleClose
<1> QED
  BY <1>3, <1>4, <1>5, <1>6, <1>7 DEF RequestStep

\* ... when a job goes on
LEMMA FileTypesJob ==
    ASSUME CallInv, FileTypes, RolesType, NEW j \in jobs, JobStep(j)
    PROVE  FileTypes'
<1>1. /\ j \in JobRecord /\ j.srv \in Server /\ j.client \in Client /\ j.seq \in 1..MaxOps
      /\ j.file \in File /\ j.version \in Nat /\ j.todo \in SUBSET Server
  BY CallFieldTypes
<1>2. Data(j) \in Content /\ (j.op # "create" => Data(j) \in Write)
  <2>1. j.op \in {"create", "close"}
    BY CallFieldTypes
  <2> QED
    BY <1>1, <2>1, DataIsContent
<1>3. CASE JobWrite(j)
  <2>1. disk' \in [Server -> [File -> Content]]
    BY <1>1, <1>2, <1>3 DEF JobWrite, FileTypes
  <2>2. ran' \in [Server -> Seq(Write)]
    <3>1. CASE j.op = "create"
      BY <1>3, <3>1 DEF JobWrite, FileTypes
    <3>2. CASE j.op # "create"
      <4>1. Append(ran[j.srv], Data(j)) \in Seq(Write)
        BY <1>1, <1>2, <3>2, AppendProperties DEF FileTypes
      <4> QED
        BY <1>1, <1>3, <3>2, <4>1 DEF JobWrite, FileTypes
    <3> QED
      BY <3>1, <3>2
  <2>3. UNCHANGED <<versions, openFiles, nextHandle, late, snapshot, acked, overlapped, astray>>
    BY <1>3 DEF JobWrite, JobStep, JobReplicate
  <2> QED
    BY <2>1, <2>2, <2>3 DEF FileTypes
<1>4. CASE JobVersion(j)
  <2>1. NewVersion(j) \in Nat
    BY <1>1, NewVersionIsNumber
  <2>2. versions' \in [Server -> [File -> Nat]]
    BY <1>1, <1>4, <2>1 DEF JobVersion, FileTypes
  <2>3. UNCHANGED <<disk, openFiles, nextHandle, late, snapshot, history>>
    BY <1>4 DEF JobVersion, JobStep, JobReplicate
  <2> QED
    BY <2>2, <2>3 DEF FileTypes, history
<1>5. CASE JobReplicate(j)
  <2> DEFINE p == Lowest(j.todo)
  <2>1. p \in Server
    BY <1>1, <1>5, LowestOfServers DEF JobReplicate
  <2>2. UNCHANGED <<openFiles, nextHandle, snapshot, history>>
    BY <1>5 DEF JobReplicate, JobStep, JobWrite, JobVersion, JobStore
  <2>3. disk' \in [Server -> [File -> Content]] /\ versions' \in [Server -> [File -> Nat]]
    <3>1. Replicate(p, j) \/ UNCHANGED <<disk, versions>>
      BY <1>5 DEF JobReplicate
    <3> HIDE DEF p
    <3> QED
      BY <1>1, <2>1, <3>1, ReplicateTypes DEF FileTypes
  <2>4. late' \subseteq [to : Server, job : JobRecord]
    <3>1. late' = late \/ late' = late \cup {[to |-> p, job |-> j]}
      BY <1>5 DEF JobReplicate
    <3> HIDE DEF p
    <3> QED
      BY <1>1, <2>1, <3>1 DEF FileTypes
  <2> QED
    BY <2>2, <2>3, <2>4 DEF FileTypes, history
<1>6. CASE JobStore(j)
  <2> DEFINE version == IF j.op = "close" THEN j.version ELSE 0
  <2>1. version \in Nat /\ Confirm(j, j.seq, version)
    BY <1>1, <1>6 DEF JobStore
  <2>2. j.waited => client[j.client].file \in File
    <3>1. j.waited => client[j.client].pc = "wait"
      BY DEF CallInv, WaitInv, Asks
    <3> QED
      BY <1>1, <3>1, CallFieldTypes DEF ClientSound
  <2> HIDE DEF version
  <2>3. acked' \subseteq [file : File, version : Nat, data : Write, of : 1..MaxOps]
    BY <1>1, <2>1, <2>2, ConfirmTypes
  <2>4. UNCHANGED <<disk, versions, openFiles, nextHandle, late, ran, overlapped, astray, snapshot>>
    BY <1>6 DEF JobStore, JobStep, JobReplicate
  <2> QED
    BY <2>3, <2>4 DEF FileTypes
<1> QED
  BY <1>3, <1>4, <1>5, <1>6 DEF JobStep

\* ... when a server starts, loads, synchronises or crashes
LEMMA FileTypesServer ==
    ASSUME FileTypes, RolesType, CallInv, NEW i \in Server, ServerStep(i)
    PROVE  FileTypes'
<1>0. /\ NoFiles \in [File -> Content] /\ NoEntries \in [File -> Nat]
      /\ primaryAddr[i] \in Server
      /\ Absent \in Content /\ Empty \in Content
      /\ 1 \in 1..MaxOpens + 1
      /\ <<>> \in Seq(Write)
  BY RoleTypes, FilesAssumption, EmptySeq DEF NoFiles, NoEntries, Content
<1>a. ASSUME Load(i) PROVE versions' \in [Server -> [File -> Nat]]
  BY <1>a DEF Load, FileTypes
<1>1. CASE RoleStep(i)
  BY <1>1 DEF RoleStep, fileVars, rpcVars, history, FileTypes
<1>2. CASE StartServer(i)
  <2>1. /\ versions' = [versions EXCEPT ![i] = NoEntries]
        /\ openFiles' = [openFiles EXCEPT ![i] = {}]
        /\ nextHandle' = [nextHandle EXCEPT ![i] = 1]
        /\ ran' = [ran EXCEPT ![i] = <<>>]
        /\ UNCHANGED <<disk, snapshot, late, acked, overlapped, astray>>
    BY <1>2 DEF StartServer, rpcVars
  <2>2. /\ versions' \in [Server -> [File -> Nat]]
        /\ openFiles' \in [Server -> SUBSET Handle]
        /\ nextHandle' \in [Server -> 1..MaxOpens + 1]
        /\ ran' \in [Server -> Seq(Write)]
    BY <1>0, <2>1 DEF FileTypes
  <2> QED
    BY <2>1, <2>2 DEF FileTypes
<1>3. CASE BootAsPrimary(i)
  BY <1>a, <1>3 DEF BootAsPrimary, rpcVars, history, FileTypes
<1>4. CASE TakeSnapshot(i)
  <2> DEFINE s == primaryAddr[i]
             n == [disk |-> disk[s],
                   versions |-> [f \in File |-> IF disk[s][f] = Absent THEN 0 ELSE versions[s][f]]]
  <2>1. snapshot' = [snapshot EXCEPT ![i] = n]
    BY <1>4 DEF TakeSnapshot
  <2>2. n \in [disk : [File -> Content], versions : [File -> Nat]]
    BY <1>0 DEF FileTypes
  <2> HIDE DEF n
  <2>3. snapshot' \in [Server -> [disk : [File -> Content], versions : [File -> Nat]]]
    BY <2>1, <2>2 DEF FileTypes
  <2> QED
    BY <1>4, <2>3 DEF TakeSnapshot, fileVars, rpcVars, history, FileTypes
<1>5. CASE InstallSnapshot(i)
  <2> DEFINE snap == snapshot[i]
             d == [f \in File |-> IF snap.versions[f] > 0 THEN snap.disk[f] ELSE disk[i][f]]
             v == [f \in File |-> IF snap.versions[f] > 0 THEN snap.versions[f] ELSE versions[i][f]]
             n == [disk |-> NoFiles, versions |-> NoEntries]
  <2>1. /\ disk' = [disk EXCEPT ![i] = d]
        /\ versions' = [versions EXCEPT ![i] = v]
        /\ snapshot' = [snapshot EXCEPT ![i] = n]
        /\ UNCHANGED <<openFiles, nextHandle, late, history>>
    <3>1. i \in DOMAIN disk /\ i \in DOMAIN versions
      BY DEF FileTypes
    <3>2. UNCHANGED <<openFiles, nextHandle, late, history>>
      BY <1>5 DEF InstallSnapshot, rpcVars
    <3> QED
      BY <1>5, <3>1, <3>2 DEF InstallSnapshot
  <2>2. snap \in [disk : [File -> Content], versions : [File -> Nat]]
    BY DEF FileTypes
  <2>3. snap.disk \in [File -> Content] /\ snap.versions \in [File -> Nat]
    BY <2>2
  <2>4. disk[i] \in [File -> Content] /\ versions[i] \in [File -> Nat]
    BY DEF FileTypes
  <2> HIDE DEF snap
  <2>5. d \in [File -> Content] /\ v \in [File -> Nat]
    BY <2>3, <2>4
  <2>6. n \in [disk : [File -> Content], versions : [File -> Nat]]
    BY <1>0
  <2> HIDE DEF d, v, n
  <2>7. /\ disk' \in [Server -> [File -> Content]]
        /\ versions' \in [Server -> [File -> Nat]]
        /\ snapshot' \in [Server -> [disk : [File -> Content], versions : [File -> Nat]]]
    BY <2>1, <2>5, <2>6 DEF FileTypes
  <2> QED
    BY <2>1, <2>7 DEF FileTypes, history
<1>6. CASE EndServerElection(i)
  <2>1. versions' \in [Server -> [File -> Nat]]
    <3>1. Load(i) \/ UNCHANGED versions
      BY <1>6 DEF EndServerElection
    <3> QED
      BY <1>a, <3>1 DEF FileTypes
  <2> QED
    BY <1>6, <2>1 DEF EndServerElection, rpcVars, history, FileTypes
<1>7. CASE CrashServer(i)
  <2>1. PICK torn : disk' = [disk EXCEPT ![i] = [f \in File |-> IF f \in torn THEN Empty ELSE @[f]]]
    BY <1>7 DEF CrashServer
  <2>2. disk' \in [Server -> [File -> Content]]
    BY <1>0, <2>1 DEF FileTypes
  <2>3. late' \subseteq late /\ UNCHANGED <<versions, openFiles, nextHandle, snapshot, history>>
    BY <1>7 DEF CrashServer
  <2> QED
    BY <2>2, <2>3 DEF FileTypes, history
<1> QED
  BY <1>1, <1>2, <1>3, <1>4, <1>5, <1>6, <1>7 DEF ServerStep

\* ... and in every step
LEMMA FileTypesNext ==
    ASSUME FileTypes, RolesType, CallInv, FilesNext
    PROVE  FileTypes'
<1>1. CASE \E i \in Server : ServerStep(i)
  BY <1>1, FileTypesServer
<1>2. CASE \E c \in Client : ClientStep(c)
  BY <1>2 DEF ClientStep, Send, GiveUp, Timeout, rpcVars, fileVars, history, FileTypes
<1>3. CASE \E r \in requests : RequestStep(r)
  BY <1>3, FileTypesRequest
<1>4. CASE \E j \in jobs : JobStep(j)
  BY <1>4, FileTypesJob
<1>5. CASE \E m \in late : ServeLate(m) /\ UNCHANGED <<roleVars, snapshot>>
  <2>1. PICK m \in late : ServeLate(m) /\ UNCHANGED snapshot
    BY <1>5
  <2>2. m.to \in Server /\ m.job \in JobRecord
    BY DEF FileTypes
  <2>3. Replicate(m.to, m.job)
    BY <2>1 DEF ServeLate
  <2>4. disk' \in [Server -> [File -> Content]] /\ versions' \in [Server -> [File -> Nat]]
    BY <2>2, <2>3, ReplicateTypes
  <2>5. late' \subseteq late /\ UNCHANGED <<openFiles, nextHandle, history>>
    BY <2>1 DEF ServeLate
  <2> QED
    BY <2>1, <2>4, <2>5 DEF FileTypes, history
<1> QED
  BY <1>1, <1>2, <1>3, <1>4, <1>5 DEF FilesNext

\* FilesInv is inductive
LEMMA FilesInvNext ==
    ASSUME FilesInv, FilesNext \/ UNCHANGED vars
    PROVE  FilesInv'
<1>1. CASE UNCHANGED vars
  <2>1. UNCHANGED roleVars /\ UNCHANGED <<requests, jobs, client, dedup>>
    BY <1>1 DEF vars, fileVars, rpcVars
  <2>2. RolesInv'
    BY <2>1, RolesNext DEF FilesInv
  <2>3. CallInv'
    <3>1. /\ dedup \in [Server -> [Client -> [seq : 0..MaxOps, version : Nat]]]
          /\ \A k \in Server : \A c \in Client : dedup[k][c].seq <= client[c].seq
      BY DEF FilesInv, CallInv, CallTypes, WaitInv
    <3> QED
      BY <2>1, <3>1, LossKeeps DEF FilesInv
  <2>4. FileTypes'
    BY <1>1 DEF vars, fileVars, rpcVars, history, FilesInv, FileTypes
  <2> QED
    BY <2>2, <2>3, <2>4 DEF FilesInv
<1>2. CASE FilesNext
  <2>1. RolesType
    BY DEF FilesInv, RolesInv
  <2>2. RolesInv'
    BY <1>2, <2>1, FilesStepIsRoleStep, RolesNext DEF FilesInv
  <2> QED
    BY <1>2, <2>1, <2>2, CallNext, FileTypesNext DEF FilesInv
<1> QED
  BY <1>1, <1>2

\* ... and holds initially
LEMMA FilesInvInit == FilesInit => FilesInv
<1> SUFFICES ASSUME FilesInit PROVE FilesInv
  OBVIOUS
<1>1. RolesInv
  BY RolesInit DEF FilesInit
<1>2. /\ NoFiles \in [File -> Content] /\ NoEntries \in [File -> Nat]
      /\ 1 \in 1..MaxOpens + 1 /\ <<>> \in Seq(Write)
      /\ NoReply \in [seq : 0..MaxOps, version : Nat] /\ NoReply.seq = 0
  BY FilesAssumption, EmptySeq DEF NoFiles, NoEntries, Content, NoReply
<1>3. FileTypes
  <2> DEFINE n == [disk |-> NoFiles, versions |-> NoEntries]
  <2>1. n \in [disk : [File -> Content], versions : [File -> Nat]]
    BY <1>2
  <2>2. snapshot = [i \in Server |-> n]
    BY DEF FilesInit
  <2> HIDE DEF n
  <2>3. snapshot \in [Server -> [disk : [File -> Content], versions : [File -> Nat]]]
    BY <2>1, <2>2
  <2> QED
    BY <1>2, <2>3 DEF FilesInit, FileTypes
<1>4. Lowest(Server) \in Server /\ 0 \in 0..MaxOps
  BY LowestOfServers, ServerAssumption, FilesAssumption
<1>5. /\ Resting(Lowest(Server), 0, NoHandle) \in ClientRecord
      /\ ClientSound(Resting(Lowest(Server), 0, NoHandle))
      /\ Resting(Lowest(Server), 0, NoHandle).seq = 0
  BY <1>4, RestingFacts
<1>6. \A c \in Client : client[c] = Resting(Lowest(Server), 0, NoHandle)
  BY DEF FilesInit
<1>7. client \in [Client -> ClientRecord]
  BY <1>5 DEF FilesInit
<1>8. \A i \in Server : \A c \in Client : dedup[i][c] = NoReply
  BY DEF FilesInit
<1>9. dedup \in [Server -> [Client -> [seq : 0..MaxOps, version : Nat]]]
  BY <1>2 DEF FilesInit
<1>10. CallTypes
  BY <1>5, <1>6, <1>7, <1>9 DEF FilesInit, CallTypes
<1>11. WaitInv
  BY <1>2, <1>5, <1>6, <1>8 DEF FilesInit, WaitInv
<1> QED
  BY <1>1, <1>3, <1>10, <1>11 DEF FilesInv, CallInv

\* ... and implies the types of the module
LEMMA FilesInvImpliesTypes == FilesInv => FilesTypeOK
BY DEF FilesInv, FilesTypeOK, FileTypes, CallInv, CallTypes, ClientRecord, RolesInv, RolesType

\* Files, handles, requests and jobs have their types: no client runs out of
\* sequence numbers with a handle in its hands, no retry exceeds max_retries,
\* and what confirms a write always carries a file and a number of its own.
THEOREM FilesTyped == FilesSpec => []FilesTypeOK
<1>1. FilesInv /\ [FilesNext]_vars => FilesInv'
  BY FilesInvNext
<1> QED
  BY <1>1, FilesInvInit, FilesInvImpliesTypes, PTL DEF FilesSpec

-----------------------------------------------------------------------------
(* Every write runs once                                                   *)

\* Every handle number of a server is given out once
HandleInv ==
    \A i \in Server : \A h \in openFiles[i] :
        /\ h.handle < nextHandle[i]
        /\ \A g \in openFiles[i] : g.handle = h.handle => g = h

\* Handle n of server i was given out and popped, or died with an open file
Spent(i, n) == n < nextHandle[i] /\ \A h \in openFiles[i] : h.handle # n

\* The close numbered s of client c is about handle n
Closes(c, s, n) ==
    \/ \E r \in requests : r.op = "close" /\ r.client = c /\ r.seq = s /\ r.handle = n
    \/ client[c].op = "close" /\ client[c].seq = s /\ client[c].handle = n

\* Server i runs that close, or has run it
Started(i, c, s) ==
    \/ \E j \in jobs : j.op = "close" /\ j.srv = i /\ j.client = c /\ j.seq = s
    \/ \E k \in DOMAIN ran[i] : ran[i][k] = [client |-> c, seq |-> s]

\* A close keeps its handle however often it is repeated
OneHandle ==
    \A c \in Client : \A s, m, n : Closes(c, s, m) /\ Closes(c, s, n) => m = n

\* A close that a server started cannot start there again: its handle is spent
StartedSpent ==
    \A i \in Server : \A c \in Client : \A s :
        Started(i, c, s) =>
            s \in Nat /\ s <= client[c].seq /\ \A n : Closes(c, s, n) => Spent(i, n)

JobsLive == \A j \in jobs : j.srv \in listening

OneJob ==
    \A j, k \in jobs :
        /\ j.op = "close" /\ k.op = "close"
        /\ j.srv = k.srv /\ j.client = k.client /\ j.seq = k.seq
        => j = k

NotYetRun ==
    \A j \in jobs : j.op = "close" /\ j.pc = "write" =>
        \A k \in DOMAIN ran[j.srv] : ran[j.srv][k] # Data(j)

RanOnce == \A i \in Server : \A k, l \in DOMAIN ran[i] : ran[i][k] = ran[i][l] => k = l

OnceInv ==
    /\ HandleInv /\ OneHandle /\ StartedSpent
    /\ JobsLive /\ OneJob /\ NotYetRun /\ RanOnce

\* The closes of a step were there before, or are new calls
OldOrNew ==
    /\ \A r \in requests' : r.op = "close" => Closes(r.client, r.seq, r.handle)
    /\ \A c \in Client : client[c].seq <= client'[c].seq
    /\ \A c \in Client : client'[c].op = "close" =>
          Closes(c, client'[c].seq, client'[c].handle) \/ client'[c].seq > client[c].seq

\* A close's number does not exceed that of its client
LEMMA ClosesBound ==
    ASSUME CallInv, NEW c \in Client, NEW s, NEW n, Closes(c, s, n)
    PROVE  s \in Nat /\ s <= client[c].seq
<1>1. CASE \E r \in requests : r.op = "close" /\ r.client = c /\ r.seq = s /\ r.handle = n
  BY <1>1, CallFieldTypes DEF CallInv, WaitInv
<1>2. CASE client[c].op = "close" /\ client[c].seq = s /\ client[c].handle = n
  <2>1. client[c].seq \in Nat
    BY CallFieldTypes
  <2> QED
    BY <1>2, <2>1
<1> QED
  BY <1>1, <1>2 DEF Closes

\* A close has one handle; its number, when it is new, is above all that its
\* client has used
LEMMA ClosesKept ==
    ASSUME CallInv, CallInv', OneHandle, OldOrNew
    PROVE  /\ OneHandle'
           /\ \A c \in Client : \A s, n :
                Closes(c, s, n)' => Closes(c, s, n) \/ s > client[c].seq
<1>1. \A c \in Client : client[c].seq \in Nat
  BY CallFieldTypes
<1>2. \A c \in Client : client'[c].seq \in Nat
  <2>1. client' \in [Client -> ClientRecord]
    BY DEF CallInv, CallTypes
  <2> QED
    BY <2>1, FilesAssumption DEF ClientRecord
<1>3. ASSUME NEW c \in Client, NEW s, NEW n, Closes(c, s, n)'
      PROVE  \/ Closes(c, s, n)
             \/ s > client[c].seq /\ s = client'[c].seq /\ n = client'[c].handle
  <2>1. CASE \E r \in requests' : r.op = "close" /\ r.client = c /\ r.seq = s /\ r.handle = n
    BY <2>1 DEF OldOrNew
  <2>2. CASE client'[c].op = "close" /\ client'[c].seq = s /\ client'[c].handle = n
    BY <2>2 DEF OldOrNew
  <2> QED
    BY <1>3, <2>1, <2>2 DEF Closes
<1>4. ASSUME NEW c \in Client, NEW s, NEW m, NEW n, Closes(c, s, m)', Closes(c, s, n)'
      PROVE  m = n
  <2>1. \/ Closes(c, s, n)
        \/ s > client[c].seq /\ n = client'[c].handle
    BY <1>3, <1>4
  <2>2. \/ Closes(c, s, m)
        \/ s > client[c].seq /\ m = client'[c].handle
    BY <1>3, <1>4
  <2>3. Closes(c, s, n) \/ Closes(c, s, m) => s \in Nat /\ s <= client[c].seq
    BY ClosesBound
  <2>4. ~(s \in Nat /\ s <= client[c].seq /\ s > client[c].seq)
    BY <1>1
  <2> QED
    BY <2>1, <2>2, <2>3, <2>4 DEF OneHandle
<1> QED
  BY <1>3, <1>4 DEF OneHandle

\* When the calls stay, but some are lost
LEMMA OldOrNewLoss ==
    ASSUME CallInv, requests' \subseteq requests, UNCHANGED client
    PROVE  OldOrNew
<1>1. \A r \in requests' : r.op = "close" => Closes(r.client, r.seq, r.handle)
  BY DEF Closes
<1>2. \A c \in Client : client[c].seq \in Nat
  BY CallFieldTypes
<1>3. \A c \in Client : client'[c].op = "close" => Closes(c, client'[c].seq, client'[c].handle)
  BY DEF Closes
<1> QED
  BY <1>1, <1>2, <1>3 DEF OldOrNew

\* When one client changes
LEMMA OldOrNewClient ==
    ASSUME CallInv, NEW c \in Client, NEW n, client' = [client EXCEPT ![c] = n],
           \A r \in requests' : r.op = "close" => Closes(r.client, r.seq, r.handle),
           client[c].seq <= n.seq,
           n.op = "close" => \/ n.seq > client[c].seq
                             \/ /\ client[c].op = "close" /\ n.seq = client[c].seq
                                /\ n.handle = client[c].handle
    PROVE  OldOrNew
<1>1. \A d \in Client : client[d].seq \in Nat
  BY CallFieldTypes
<1>2. client \in [Client -> ClientRecord]
  BY DEF CallInv, CallTypes
<1>3. client'[c] = n /\ \A d \in Client : d # c => client'[d] = client[d]
  BY <1>2
<1>4. \A d \in Client : client[d].seq <= client'[d].seq
  BY <1>1, <1>3
<1>5. \A d \in Client : client'[d].op = "close" =>
        Closes(d, client'[d].seq, client'[d].handle) \/ client'[d].seq > client[d].seq
  BY <1>3 DEF Closes
<1> QED
  BY <1>4, <1>5 DEF OldOrNew

\* When a handler answers: the call ends or is repeated as it is
LEMMA OldOrNewAnswer ==
    ASSUME CallInv, requests' \subseteq requests, NEW x, x.client \in Client, NEW result,
           Answer(x, result), result.seq = client[x.client].seq,
           \/ result.op = "none"
           \/ result.op = client[x.client].op /\ result.handle = client[x.client].handle
    PROVE  OldOrNew
<1>1. client[x.client].seq \in Nat
  BY CallFieldTypes
<1>2. CASE x.waited
  <2>1. client' = [client EXCEPT ![x.client] = result]
    BY <1>2 DEF Answer
  <2>2. \A r \in requests' : r.op = "close" => Closes(r.client, r.seq, r.handle)
    BY DEF Closes
  <2>3. client[x.client].seq <= result.seq
    BY <1>1
  <2> QED
    BY <2>1, <2>2, <2>3, OldOrNewClient
<1>3. CASE ~x.waited
  BY <1>3, OldOrNewLoss DEF Answer
<1> QED
  BY <1>2, <1>3

\* An answer ends the call and keeps the number
LEMMA AnswerFields ==
    ASSUME CallInv, NEW c \in Client, NEW held
    PROVE  /\ Returned(c, held).op = "none" /\ Returned(c, held).seq = client[c].seq
           /\ Raised(c).op = "none" /\ Raised(c).seq = client[c].seq
BY DEF Returned, Raised, Resting

\* Every step repeats closes as they are, or makes one with a new number
LEMMA OldOrNewNext ==
    ASSUME CallInv, FilesNext
    PROVE  OldOrNew
<1>a. \A c \in Client : client[c] \in ClientRecord /\ client[c].seq \in Nat
  BY CallFieldTypes
<1>1. CASE \E i \in Server : ServerStep(i)
  <2>1. requests' \subseteq requests /\ UNCHANGED client
    BY <1>1 DEF ServerStep, RoleStep, StartServer, BootAsPrimary, TakeSnapshot,
       InstallSnapshot, EndServerElection, CrashServer, rpcVars
  <2> QED
    BY <2>1, OldOrNewLoss
<1>2. CASE \E c \in Client : ClientStep(c)
  <2>1. PICK c \in Client : ClientStep(c)
    BY <1>2
  <2>b. client[c] \in ClientRecord /\ client[c].seq \in Nat
    BY <1>a
  <2>2. ASSUME NEW op, NEW f, NEW mode, NEW handle, NEW seq \in Nat,
               Call(c, op, f, mode, handle, seq), UNCHANGED requests,
               \/ seq > client[c].seq
               \/ op # "close" /\ seq = client[c].seq
        PROVE  OldOrNew
    <3> DEFINE n == [pc |-> "send", addr |-> client[c].addr, seq |-> seq, held |-> NoHandle,
                     attempt |-> 0, op |-> op, file |-> f, mode |-> mode, handle |-> handle]
    <3>1. client' = [client EXCEPT ![c] = n]
      BY <2>2 DEF Call
    <3>2. n.seq = seq /\ n.op = op
      OBVIOUS
    <3> HIDE DEF n
    <3>3. client[c].seq <= n.seq /\ (n.op = "close" => n.seq > client[c].seq)
      BY <2>b, <2>2, <3>2
    <3>4. \A r \in requests' : r.op = "close" => Closes(r.client, r.seq, r.handle)
      BY <2>2 DEF Closes
    <3> QED
      BY <3>1, <3>3, <3>4, OldOrNewClient
  <2>3. CASE /\ \/ \E f \in File : ClientCreate(c, f)
                \/ \E f \in File, mode \in {"r", "w"} : ClientOpen(c, f, mode)
                \/ ClientClose(c)
             /\ UNCHANGED rpcVars
    <3>1. client[c].seq + 1 \in Nat /\ client[c].seq + 1 > client[c].seq
      BY <2>b
    <3>2. UNCHANGED requests
      BY <2>3 DEF rpcVars
    <3>3. CASE \E f \in File : ClientCreate(c, f)
      BY <2>2, <3>1, <3>2, <3>3 DEF ClientCreate
    <3>4. CASE \E f \in File, mode \in {"r", "w"} : ClientOpen(c, f, mode)
      BY <2>b, <2>2, <3>2, <3>4 DEF ClientOpen
    <3>5. CASE ClientClose(c)
      BY <2>2, <3>1, <3>2, <3>5 DEF ClientClose
    <3> QED
      BY <2>3, <3>3, <3>4, <3>5
  <2>4. CASE Send(c)
    <3> DEFINE n == [client[c] EXCEPT !.pc = "wait"]
               q == [client |-> c, to |-> client[c].addr, seq |-> client[c].seq,
                     op |-> client[c].op, file |-> client[c].file, mode |-> client[c].mode,
                     handle |-> client[c].handle, waited |-> TRUE]
    <3>0. client \in [Client -> ClientRecord]
      BY DEF CallInv, CallTypes
    <3>1. client' = [client EXCEPT ![c] = n] /\ requests' = requests \cup {q}
      BY <2>4, <3>0 DEF Send
    <3>2. n.seq = client[c].seq /\ n.op = client[c].op /\ n.handle = client[c].handle
      BY <2>b DEF ClientRecord
    <3>3. q.client = c /\ q.seq = client[c].seq /\ q.op = client[c].op /\ q.handle = client[c].handle
      OBVIOUS
    <3> HIDE DEF n, q
    <3>4. \A r \in requests' : r.op = "close" => Closes(r.client, r.seq, r.handle)
      BY <3>1, <3>3 DEF Closes
    <3>5. client[c].seq <= n.seq
      BY <2>b, <3>2
    <3> QED
      BY <3>1, <3>2, <3>4, <3>5, OldOrNewClient
  <2>5. CASE GiveUp(c)
    <3> DEFINE n == Resting(client[c].addr, client[c].seq, NoHandle)
    <3>0. client \in [Client -> ClientRecord]
      BY DEF CallInv, CallTypes
    <3>1. client' = [client EXCEPT ![c] = n] /\ UNCHANGED requests
      BY <2>5, <3>0 DEF GiveUp, rpcVars
    <3>2. n.seq = client[c].seq /\ n.op = "none"
      BY DEF Resting
    <3> HIDE DEF n
    <3>3. \A r \in requests' : r.op = "close" => Closes(r.client, r.seq, r.handle)
      BY <3>1 DEF Closes
    <3>4. client[c].seq <= n.seq
      BY <2>b, <3>2
    <3> QED
      BY <3>1, <3>2, <3>3, <3>4, OldOrNewClient
  <2>6. CASE Timeout(c)
    <3> DEFINE n == [client[c] EXCEPT !.pc = "send", !.attempt = @ + 1,
                                      !.addr = IF client[c].attempt < MaxRetries
                                               THEN Discovered ELSE @]
               S == {r \in requests : r.client = c => r.to \in listening}
    <3>0. client \in [Client -> ClientRecord] /\ requests \subseteq Request
      BY DEF CallInv, CallTypes
    <3>1. client' = [client EXCEPT ![c] = n] /\ requests' = Abandon(c, S)
      BY <2>6, <3>0 DEF Timeout
    <3>2. n.seq = client[c].seq /\ n.op = client[c].op /\ n.handle = client[c].handle
      BY <2>b DEF ClientRecord
    <3> HIDE DEF n
    <3>3. S \in SUBSET Request /\ S \subseteq requests
      BY <3>0
    <3> HIDE DEF S
    <3>4. \A x \in requests' : \E y \in requests :
            x.client = y.client /\ x.seq = y.seq /\ x.op = y.op /\ x.handle = y.handle
      BY <3>1, <3>3, AbandonRequests
    <3>5. \A r \in requests' : r.op = "close" => Closes(r.client, r.seq, r.handle)
      BY <3>4 DEF Closes
    <3>6. client[c].seq <= n.seq
      BY <2>b, <3>2
    <3> QED
      BY <3>1, <3>2, <3>5, <3>6, OldOrNewClient
  <2> QED
    BY <2>1, <2>3, <2>4, <2>5, <2>6 DEF ClientStep
<1>3. CASE \E r \in requests : RequestStep(r)
  <2>1. PICK r \in requests : RequestStep(r)
    BY <1>3
  <2>2. r.client \in Client /\ requests' \subseteq requests
    BY <2>1, CallFieldTypes DEF RequestStep, Redirect, AnswerFromCache, HandleCreate,
       HandleOpen, HandleClose, Admitted, Served
  <2>3. CASE Redirect(r)
    <3> DEFINE n == [client[r.client] EXCEPT !.pc = "send", !.attempt = @ + 1,
                                             !.addr = primaryAddr[r.to]]
    <3>1. Answer(r, n)
      BY <2>3 DEF Redirect
    <3>2. client[r.client] \in ClientRecord
      BY <1>a, <2>2
    <3>3. /\ n.seq = client[r.client].seq /\ n.op = client[r.client].op
          /\ n.handle = client[r.client].handle
      BY <3>2 DEF ClientRecord
    <3> HIDE DEF n
    <3> QED
      BY <2>2, <3>1, <3>3, OldOrNewAnswer
  <2>4. CASE Answer(r, Raised(r.client)) \/ \E h : Answer(r, Returned(r.client, h))
    BY <2>2, <2>4, AnswerFields, OldOrNewAnswer
  <2>5. CASE UNCHANGED client
    BY <2>2, <2>5, OldOrNewLoss
  <2> QED
    BY <2>1, <2>3, <2>4, <2>5 DEF RequestStep, AnswerFromCache, HandleCreate, HandleOpen, HandleClose
<1>4. CASE \E j \in jobs : JobStep(j)
  <2>1. PICK j \in jobs : JobStep(j)
    BY <1>4
  <2>2. j.client \in Client /\ UNCHANGED requests
    BY <2>1, CallFieldTypes DEF JobStep, JobWrite, JobVersion, JobStore, JobReplicate
  <2>3. CASE JobStore(j)
    <3>1. Answer(j, Returned(j.client, NoHandle))
      BY <2>3 DEF JobStore
    <3> QED
      BY <2>2, <3>1, AnswerFields, OldOrNewAnswer
  <2>4. CASE UNCHANGED client
    BY <2>2, <2>4, OldOrNewLoss
  <2> QED
    BY <2>1, <2>3, <2>4 DEF JobStep, JobWrite, JobVersion, JobReplicate
<1>5. CASE \E m \in late : ServeLate(m)
  BY <1>5, OldOrNewLoss DEF ServeLate
<1> QED
  BY <1>1, <1>2, <1>3, <1>4, <1>5 DEF FilesNext

\* A close that is under way, or that has run, cannot start again, provided
\* that what a step starts has a number of its client and a handle that is spent
LEMMA StartedKept ==
    ASSUME CallInv, CallInv', OneHandle, OldOrNew,
           \A i \in Server : \A c \in Client : \A s : Started(i, c, s)' =>
               s \in Nat /\ s <= client[c].seq /\ \A n : Closes(c, s, n) => Spent(i, n)'
    PROVE  OneHandle' /\ StartedSpent'
<1>1. /\ OneHandle'
      /\ \A c \in Client : \A s, n : Closes(c, s, n)' => Closes(c, s, n) \/ s > client[c].seq
  BY ClosesKept
<1>2. ASSUME NEW i \in Server, NEW c \in Client, NEW s, Started(i, c, s)'
      PROVE  s \in Nat /\ s <= client'[c].seq /\ \A n : Closes(c, s, n)' => Spent(i, n)'
  <2>1. s \in Nat /\ s <= client[c].seq /\ \A n : Closes(c, s, n) => Spent(i, n)'
    BY <1>2
  <2>2. client[c].seq \in Nat
    BY CallFieldTypes
  <2>3. client[c].seq <= client'[c].seq
    BY DEF OldOrNew
  <2>4. client'[c].seq \in Nat
    <3>1. client' \in [Client -> ClientRecord]
      BY DEF CallInv, CallTypes
    <3> QED
      BY <3>1, FilesAssumption DEF ClientRecord
  <2>5. s <= client'[c].seq /\ ~(s > client[c].seq)
    BY <2>1, <2>2, <2>3, <2>4
  <2> QED
    BY <1>1, <2>1, <2>5
<1> QED
  BY <1>1, <1>2 DEF StartedSpent

\* The steps that start no close: they may move the jobs of closes on, or lose
\* some, and touch neither the handles nor what has run
LEMMA OnceJobs ==
    ASSUME CallInv, CallInv', OnceInv, OldOrNew, UNCHANGED <<openFiles, nextHandle, ran>>,
           \A j \in jobs' : j.op = "close" => \E k \in jobs :
               /\ k.op = "close" /\ k.srv = j.srv /\ k.client = j.client /\ k.seq = j.seq
               /\ j.pc = "write" => k.pc = "write",
           OneJob', JobsLive'
    PROVE  OnceInv'
<1>1. HandleInv'
  BY DEF OnceInv, HandleInv
<1>2. \A i \in Server : \A c \in Client : \A s : Started(i, c, s)' => Started(i, c, s)
  BY DEF Started
<1>3. \A i \in Server : \A n : Spent(i, n) => Spent(i, n)'
  BY DEF Spent
<1>4. OneHandle' /\ StartedSpent'
  <2>1. \A i \in Server : \A c \in Client : \A s : Started(i, c, s)' =>
          s \in Nat /\ s <= client[c].seq /\ \A n : Closes(c, s, n) => Spent(i, n)'
    BY <1>2, <1>3 DEF OnceInv, StartedSpent
  <2> QED
    BY <2>1, StartedKept DEF OnceInv
<1>5. NotYetRun'
  <2> SUFFICES ASSUME NEW j \in jobs', j.op = "close", j.pc = "write"
               PROVE  \A k \in DOMAIN ran'[j.srv] : ran'[j.srv][k] # Data(j)
    BY DEF NotYetRun, Data
  <2>1. PICK k \in jobs : /\ k.op = "close" /\ k.srv = j.srv /\ k.client = j.client
                          /\ k.seq = j.seq /\ k.pc = "write"
    OBVIOUS
  <2>2. Data(k) = Data(j)
    BY <2>1 DEF Data
  <2> QED
    BY <2>1, <2>2 DEF OnceInv, NotYetRun
<1>6. RanOnce'
  BY DEF OnceInv, RanOnce
<1> QED
  BY <1>1, <1>4, <1>5, <1>6 DEF OnceInv

\* ... in particular those that touch no job of a close
LEMMA OnceSameJobs ==
    ASSUME CallInv, CallInv', OnceInv, OldOrNew, UNCHANGED <<openFiles, nextHandle, ran>>,
           \A j \in jobs' : j.op = "close" => j \in jobs,
           JobsLive'
    PROVE  OnceInv'
<1>1. OneJob'
  BY DEF OnceInv, OneJob
<1>2. \A j \in jobs' : j.op = "close" => \E k \in jobs :
               /\ k.op = "close" /\ k.srv = j.srv /\ k.client = j.client /\ k.seq = j.seq
               /\ j.pc = "write" => k.pc = "write"
  OBVIOUS
<1> QED
  BY <1>1, <1>2, OnceJobs

\* ... and those that move one job on
LEMMA OnceMoves ==
    ASSUME CallInv, CallInv', OnceInv, OldOrNew, UNCHANGED <<openFiles, nextHandle, ran, listening>>,
           NEW j \in jobs, NEW k, jobs' = (jobs \ {j}) \cup {k},
           k.srv = j.srv, k.client = j.client, k.seq = j.seq, k.op = j.op,
           k.pc = "write" => j.pc = "write"
    PROVE  OnceInv'
<1>1. OneJob'
  BY DEF OnceInv, OneJob
<1>2. \A x \in jobs' : x.op = "close" => \E y \in jobs :
               /\ y.op = "close" /\ y.srv = x.srv /\ y.client = x.client /\ y.seq = x.seq
               /\ x.pc = "write" => y.pc = "write"
  OBVIOUS
<1>3. JobsLive'
  BY DEF OnceInv, JobsLive
<1> QED
  BY <1>1, <1>2, <1>3, OnceJobs

\* The server forgets its handles, and what it ran, together
LEMMA OnceStart ==
    ASSUME CallInv, CallInv', RolesType, OnceInv, OldOrNew, NEW i \in Server,
           openFiles \in [Server -> SUBSET Handle],
           nextHandle \in [Server -> 1..MaxOpens + 1],
           ran \in [Server -> Seq(Write)], StartServer(i)
    PROVE  OnceInv'
<1>1. /\ openFiles' = [openFiles EXCEPT ![i] = {}] /\ nextHandle' = [nextHandle EXCEPT ![i] = 1]
      /\ ran' = [ran EXCEPT ![i] = <<>>] /\ UNCHANGED <<jobs, listening>>
  BY DEF StartServer, Start, rpcVars
<1>2. i \notin listening
  BY DEF StartServer, Start, RolesType, ThreadInv
<1>3. \A j \in jobs : j.srv # i /\ j.srv \in Server
  BY <1>2, CallFieldTypes DEF OnceInv, JobsLive
<1>4. /\ openFiles'[i] = {} /\ nextHandle'[i] = 1 /\ ran'[i] = <<>>
      /\ \A p \in Server : p # i => /\ openFiles'[p] = openFiles[p]
                                    /\ nextHandle'[p] = nextHandle[p] /\ ran'[p] = ran[p]
  BY <1>1
<1>5. HandleInv'
  BY <1>4 DEF OnceInv, HandleInv
<1>6. ASSUME NEW p \in Server, NEW c \in Client, NEW s, Started(p, c, s)'
      PROVE  s \in Nat /\ s <= client[c].seq /\ \A n : Closes(c, s, n) => Spent(p, n)'
  <2>1. p # i
    BY <1>1, <1>3, <1>4, <1>6 DEF Started
  <2>2. Started(p, c, s)
    BY <1>1, <1>4, <1>6, <2>1 DEF Started
  <2>3. \A n : Spent(p, n) => Spent(p, n)'
    BY <1>4, <2>1 DEF Spent
  <2> QED
    BY <2>2, <2>3 DEF OnceInv, StartedSpent
<1>7. OneHandle' /\ StartedSpent'
  BY <1>6, StartedKept DEF OnceInv
<1>8. OneJob' /\ JobsLive'
  BY <1>1 DEF OnceInv, OneJob, JobsLive
<1>9. NotYetRun'
  BY <1>1, <1>3, <1>4 DEF OnceInv, NotYetRun, Data
<1>10. RanOnce'
  BY <1>4 DEF OnceInv, RanOnce
<1> QED
  BY <1>5, <1>7, <1>8, <1>9, <1>10 DEF OnceInv

\* The new handle is the next one
LEMMA OnceOpen ==
    ASSUME CallInv, CallInv', OnceInv, OldOrNew, NEW i \in Server, NEW h,
           openFiles \in [Server -> SUBSET Handle],
           nextHandle \in [Server -> 1..MaxOpens + 1],
           h.handle = nextHandle[i],
           openFiles' = [openFiles EXCEPT ![i] = @ \cup {h}],
           nextHandle' = [nextHandle EXCEPT ![i] = @ + 1],
           UNCHANGED <<jobs, ran, listening>>
    PROVE  OnceInv'
<1>1. /\ openFiles'[i] = openFiles[i] \cup {h} /\ nextHandle'[i] = nextHandle[i] + 1
      /\ \A p \in Server : p # i => /\ openFiles'[p] = openFiles[p]
                                    /\ nextHandle'[p] = nextHandle[p]
  OBVIOUS
<1>2. \A p \in Server : nextHandle[p] \in Nat
  BY FilesAssumption
<1>3. \A p \in Server : \A g \in openFiles[p] : g.handle \in Nat
  BY FilesAssumption DEF Handle
<1>4. HandleInv'
  <2>1. \A g \in openFiles[i] : g.handle < nextHandle[i]
    BY DEF OnceInv, HandleInv
  <2>2. \A g \in openFiles'[i] : g.handle < nextHandle'[i]
    BY <1>1, <1>2, <1>3, <2>1
  <2>3. \A g \in openFiles[i] : g.handle # h.handle
    BY <1>2, <1>3, <2>1
  <2>4. \A g, k \in openFiles'[i] : g.handle = k.handle => g = k
    BY <1>1, <2>3 DEF OnceInv, HandleInv
  <2> QED
    BY <1>1, <2>2, <2>4 DEF OnceInv, HandleInv
<1>5. ASSUME NEW p \in Server, NEW n, n \in Nat, Spent(p, n)
      PROVE  Spent(p, n)'
  <2>1. n < nextHandle'[p]
    BY <1>1, <1>2, <1>5 DEF Spent
  <2>2. n # nextHandle[p]
    BY <1>2, <1>5 DEF Spent
  <2> QED
    BY <1>1, <1>5, <2>1, <2>2 DEF Spent
<1>6. \A c \in Client : \A s, n : Closes(c, s, n) => n \in Nat
  <2>1. 0..MaxOpens \subseteq Nat
    BY FilesAssumption
  <2> QED
    BY <2>1, CallFieldTypes DEF Closes
<1>7. \A p \in Server : \A c \in Client : \A s : Started(p, c, s)' => Started(p, c, s)
  BY DEF Started
<1>8. \A p \in Server : \A c \in Client : \A s : Started(p, c, s)' =>
          s \in Nat /\ s <= client[c].seq /\ \A n : Closes(c, s, n) => Spent(p, n)'
  BY <1>5, <1>6, <1>7 DEF OnceInv, StartedSpent
<1>9. OneHandle' /\ StartedSpent'
  BY <1>8, StartedKept DEF OnceInv
<1>10. OneJob' /\ JobsLive' /\ NotYetRun' /\ RanOnce'
  BY DEF OnceInv, OneJob, JobsLive, NotYetRun, RanOnce, Data
<1> QED
  BY <1>4, <1>9, <1>10 DEF OnceInv

\* A close pops its handle, and starts if no repetition of it started before
LEMMA OnceClose ==
    ASSUME CallInv, CallInv', OnceInv, OldOrNew, NEW r \in requests, NEW h \in openFiles[r.to],
           NEW pc \in {"write", "version", "replicate", "store"},
           openFiles \in [Server -> SUBSET Handle],
           r.op = "close", h.handle = r.handle, r.to \in listening,
           openFiles' = [openFiles EXCEPT ![r.to] = @ \ {h}],
           jobs' = jobs \cup {Job(r, h.file, pc)},
           UNCHANGED <<nextHandle, ran, listening>>
    PROVE  OnceInv'
<1> DEFINE j == Job(r, h.file, pc)
<1>1. /\ r \in Request /\ r.to \in Server /\ r.client \in Client /\ r.seq \in Nat /\ r.seq > 0
      /\ r.seq <= client[r.client].seq
  BY CallFieldTypes DEF CallInv, WaitInv
<1>2. h.file \in File /\ h.handle \in Nat
  BY <1>1, FilesAssumption DEF Handle
<1>3. j.srv = r.to /\ j.client = r.client /\ j.seq = r.seq /\ j.op = "close"
  BY <1>1, <1>2, JobFacts
<1>4. jobs' = jobs \cup {j}
  OBVIOUS
<1> HIDE DEF j
<1>5. /\ openFiles'[r.to] = openFiles[r.to] \ {h}
      /\ \A p \in Server : p # r.to => openFiles'[p] = openFiles[p]
  BY <1>1
<1>6. HandleInv'
  BY <1>1, <1>5 DEF OnceInv, HandleInv
<1>7. Closes(r.client, r.seq, r.handle)
  BY DEF Closes
<1>8. ~Started(r.to, r.client, r.seq)
  <2>1. ~Spent(r.to, r.handle)
    BY DEF Spent
  <2> QED
    BY <1>1, <1>7, <2>1 DEF OnceInv, StartedSpent
<1>9. \A p \in Server : \A n : Spent(p, n) => Spent(p, n)'
  BY <1>5 DEF Spent
<1>10. Spent(r.to, r.handle)'
  BY <1>1, <1>2, <1>5 DEF OnceInv, HandleInv, Spent
<1>11. ASSUME NEW p \in Server, NEW c \in Client, NEW s, Started(p, c, s)'
       PROVE  s \in Nat /\ s <= client[c].seq /\ \A n : Closes(c, s, n) => Spent(p, n)'
  <2>1. CASE Started(p, c, s)
    BY <1>9, <2>1 DEF OnceInv, StartedSpent
  <2>2. CASE ~Started(p, c, s)
    <3>1. p = r.to /\ c = r.client /\ s = r.seq
      BY <1>3, <1>4, <1>11, <2>2 DEF Started
    <3>2. \A n : Closes(c, s, n) => n = r.handle
      BY <1>7, <3>1 DEF OnceInv, OneHandle
    <3> QED
      BY <1>1, <1>10, <3>1, <3>2
  <2> QED
    BY <2>1, <2>2
<1>12. OneHandle' /\ StartedSpent'
  BY <1>11, StartedKept DEF OnceInv
<1>13. OneJob' /\ JobsLive'
  BY <1>3, <1>4, <1>8 DEF OnceInv, OneJob, JobsLive, Started
<1>14. \A k \in DOMAIN ran[r.to] : ran[r.to][k] # Data(j)
  BY <1>3, <1>8 DEF Started, Data
<1>15. NotYetRun'
  BY <1>3, <1>4, <1>14 DEF OnceInv, NotYetRun, Data
<1>16. RanOnce'
  BY DEF OnceInv, RanOnce
<1> QED
  BY <1>6, <1>12, <1>13, <1>15, <1>16 DEF OnceInv

\* A close that has not run yet runs
LEMMA OnceWrite ==
    ASSUME CallInv, CallInv', FileTypes, OnceInv, OldOrNew, NEW j \in jobs, JobWrite(j),
           UNCHANGED listening
    PROVE  OnceInv'
<1>1. /\ j \in JobRecord /\ j.srv \in Server /\ j.client \in Client /\ j.seq \in Nat
      /\ j.op \in {"create", "close"} /\ j.pc = "write"
  BY CallFieldTypes DEF JobWrite
<1>2. PICK k \in JobRecord :
        /\ jobs' = (jobs \ {j}) \cup {k}
        /\ k.srv = j.srv /\ k.client = j.client /\ k.seq = j.seq /\ k.op = j.op
        /\ k.pc = "version"
  BY JobMoves
<1>3. UNCHANGED <<openFiles, nextHandle>>
  BY DEF JobWrite
<1>4. CASE j.op = "create"
  <2>1. UNCHANGED ran
    BY <1>4 DEF JobWrite
  <2> QED
    BY <1>1, <1>2, <1>3, <2>1, OnceMoves
<1>5. CASE j.op = "close"
  <2> DEFINE d == [client |-> j.client, seq |-> j.seq]
  <2>1. Data(j) = d /\ ran' = [ran EXCEPT ![j.srv] = Append(@, d)]
    BY <1>5 DEF JobWrite, Data
  <2> HIDE DEF d
  <2>2. ran \in [Server -> Seq(Write)]
    BY DEF FileTypes
  <2>3. /\ ran'[j.srv] = Append(ran[j.srv], d)
        /\ \A p \in Server : p # j.srv => ran'[p] = ran[p]
    BY <1>1, <2>1, <2>2
  <2>4. ran[j.srv] \in Seq(Write)
    BY <1>1, <2>2
  <2>5. /\ DOMAIN ran[j.srv] = 1..Len(ran[j.srv]) /\ Len(ran[j.srv]) \in Nat
        /\ DOMAIN ran'[j.srv] = 1..(Len(ran[j.srv]) + 1)
        /\ \A l \in 1..Len(ran[j.srv]) : ran'[j.srv][l] = ran[j.srv][l]
        /\ ran'[j.srv][Len(ran[j.srv]) + 1] = d
    BY <2>3, <2>4
  <2>6. \A l \in DOMAIN ran'[j.srv] : l \in DOMAIN ran[j.srv] \/ l = Len(ran[j.srv]) + 1
    BY <2>5
  <2>7. \A l \in DOMAIN ran[j.srv] : ran[j.srv][l] # d
    BY <1>1, <1>5, <2>1 DEF OnceInv, NotYetRun
  <2>8. \A l \in DOMAIN ran'[j.srv] :
          \/ l \in DOMAIN ran[j.srv] /\ ran'[j.srv][l] = ran[j.srv][l]
          \/ l = Len(ran[j.srv]) + 1 /\ ran'[j.srv][l] = d
    BY <2>5, <2>6
  <2>9. RanOnce'
    <3> SUFFICES ASSUME NEW p \in Server, NEW m \in DOMAIN ran'[p], NEW l \in DOMAIN ran'[p],
                        ran'[p][m] = ran'[p][l]
                 PROVE  m = l
      BY DEF RanOnce
    <3>1. CASE p # j.srv
      BY <2>3, <3>1 DEF OnceInv, RanOnce
    <3>2. CASE p = j.srv
      <4>1. \/ m \in DOMAIN ran[p] /\ ran'[p][m] = ran[p][m]
            \/ m = Len(ran[j.srv]) + 1 /\ ran'[p][m] = d
        BY <2>8, <3>2
      <4>2. \/ l \in DOMAIN ran[p] /\ ran'[p][l] = ran[p][l]
            \/ l = Len(ran[j.srv]) + 1 /\ ran'[p][l] = d
        BY <2>8, <3>2
      <4> QED
        BY <2>7, <3>2, <4>1, <4>2 DEF OnceInv, RanOnce
    <3> QED
      BY <3>1, <3>2
  <2>10. \A p \in Server : \A c \in Client : \A s : Started(p, c, s)' => Started(p, c, s)
    <3> SUFFICES ASSUME NEW p \in Server, NEW c \in Client, NEW s, Started(p, c, s)'
                 PROVE  Started(p, c, s)
      OBVIOUS
    <3>1. CASE \E x \in jobs' : x.op = "close" /\ x.srv = p /\ x.client = c /\ x.seq = s
      BY <1>2, <1>5, <3>1 DEF Started
    <3>2. CASE \E l \in DOMAIN ran'[p] : ran'[p][l] = [client |-> c, seq |-> s]
      <4>1. PICK l \in DOMAIN ran'[p] : ran'[p][l] = [client |-> c, seq |-> s]
        BY <3>2
      <4>2. CASE ran'[p][l] = d /\ p = j.srv
        <5>1. c = j.client /\ s = j.seq
          BY <4>1, <4>2 DEF d
        <5> QED
          BY <1>5, <4>2, <5>1 DEF Started
      <4>3. CASE l \in DOMAIN ran[p] /\ ran'[p][l] = ran[p][l]
        BY <4>1, <4>3 DEF Started
      <4> QED
        BY <2>3, <2>8, <4>1, <4>2, <4>3
    <3> QED
      BY <3>1, <3>2 DEF Started
  <2>11. \A p \in Server : \A n : Spent(p, n) => Spent(p, n)'
    BY <1>3 DEF Spent
  <2>12. \A p \in Server : \A c \in Client : \A s : Started(p, c, s)' =>
          s \in Nat /\ s <= client[c].seq /\ \A n : Closes(c, s, n) => Spent(p, n)'
    BY <2>10, <2>11 DEF OnceInv, StartedSpent
  <2>13. OneHandle' /\ StartedSpent'
    BY <2>12, StartedKept DEF OnceInv
  <2>14. HandleInv' /\ OneJob' /\ JobsLive'
    BY <1>2, <1>3 DEF OnceInv, HandleInv, OneJob, JobsLive
  <2>15. ASSUME NEW x \in jobs', x.op = "close", x.pc = "write"
         PROVE  \A l \in DOMAIN ran'[x.srv] : ran'[x.srv][l] # Data(x)
    <3>1. x \in jobs /\ x # j
      BY <1>2, <2>15
    <3>2. \A l \in DOMAIN ran[x.srv] : ran[x.srv][l] # Data(x)
      BY <2>15, <3>1 DEF OnceInv, NotYetRun
    <3>3. ~(x.srv = j.srv /\ x.client = j.client /\ x.seq = j.seq)
      BY <1>5, <2>15, <3>1 DEF OnceInv, OneJob
    <3>4. x.srv = j.srv => Data(x) # d
      <4>1. Data(x) = [client |-> x.client, seq |-> x.seq]
        BY <2>15 DEF Data
      <4> QED
        BY <3>3, <4>1 DEF d
    <3>5. x.srv \in Server
      BY <3>1, CallFieldTypes
    <3> QED
      BY <2>3, <2>8, <3>2, <3>4, <3>5
  <2>16. NotYetRun'
    BY <2>15 DEF NotYetRun, Data
  <2> QED
    BY <2>9, <2>13, <2>14, <2>16 DEF OnceInv
<1> QED
  BY <1>1, <1>4, <1>5

\* OnceInv, when a handler runs
LEMMA OnceRequest ==
    ASSUME CallInv, CallInv', FileTypes, OnceInv, OldOrNew, NEW r \in requests, RequestStep(r)
    PROVE  OnceInv'
<1>1. r \in Request /\ r.to \in Server /\ r.to \in listening /\ UNCHANGED listening
  BY CallFieldTypes DEF RequestStep, Redirect, AnswerFromCache, HandleCreate,
     HandleOpen, HandleClose, Admitted, Served, roleVars, threadVars
<1>2. /\ openFiles \in [Server -> SUBSET Handle] /\ nextHandle \in [Server -> 1..MaxOpens + 1]
  BY DEF FileTypes
<1>3. CASE UNCHANGED <<openFiles, nextHandle, ran, jobs>>
  BY <1>1, <1>3, OnceSameJobs DEF OnceInv, JobsLive
<1>4. CASE HandleCreate(r)
  <2>1. UNCHANGED <<openFiles, nextHandle, ran>> /\ r.op = "create" /\ r.file \in File
    BY <1>4, CallFieldTypes DEF HandleCreate, fileVars, Admitted
  <2>2. CASE UNCHANGED jobs
    BY <1>3, <2>1, <2>2
  <2>3. CASE jobs' = jobs \cup {Job(r, r.file, "write")}
    <3> DEFINE j == Job(r, r.file, "write")
    <3>1. j.op = "create" /\ j.srv = r.to
      BY <2>1 DEF Job
    <3>2. jobs' = jobs \cup {j}
      BY <2>3
    <3> HIDE DEF j
    <3>3. \A x \in jobs' : x.op = "close" => x \in jobs
      BY <3>1, <3>2
    <3>4. JobsLive'
      BY <1>1, <3>1, <3>2 DEF OnceInv, JobsLive
    <3> QED
      BY <2>1, <3>3, <3>4, OnceSameJobs
  <2> QED
    BY <1>4, <2>2, <2>3 DEF HandleCreate, Begin
<1>5. CASE HandleOpen(r)
  <2>1. CASE UNCHANGED <<openFiles, nextHandle>>
    BY <1>3, <1>5, <2>1 DEF HandleOpen, history
  <2>2. CASE ~UNCHANGED <<openFiles, nextHandle>>
    <3> DEFINE h == [handle |-> nextHandle[r.to], file |-> r.file, mode |-> r.mode]
    <3>1. /\ openFiles' = [openFiles EXCEPT ![r.to] = @ \cup {h}]
          /\ nextHandle' = [nextHandle EXCEPT ![r.to] = @ + 1]
          /\ UNCHANGED <<jobs, ran>>
      BY <1>5, <2>2 DEF HandleOpen, history
    <3>2. h.handle = nextHandle[r.to]
      OBVIOUS
    <3> HIDE DEF h
    <3> QED
      BY <1>1, <1>2, <3>1, <3>2, OnceOpen
  <2> QED
    BY <2>1, <2>2
<1>6. CASE HandleClose(r)
  <2>1. UNCHANGED <<nextHandle, ran>> /\ r.op = "close"
    BY <1>6 DEF HandleClose, Admitted
  <2>2. CASE UNCHANGED <<openFiles, jobs>>
    BY <1>3, <2>1, <2>2
  <2>3. CASE \E h \in openFiles[r.to] :
               /\ h.handle = r.handle /\ Pop(r.to, h)
               /\ Begin(Job(r, h.file, IF h.mode = "w" THEN "write" ELSE "store"))
    <3>1. PICK h \in openFiles[r.to] :
               /\ h.handle = r.handle /\ Pop(r.to, h)
               /\ Begin(Job(r, h.file, IF h.mode = "w" THEN "write" ELSE "store"))
      BY <2>3
    <3>2. PICK pc \in {"write", "store"} : pc = IF h.mode = "w" THEN "write" ELSE "store"
      OBVIOUS
    <3>3. /\ openFiles' = [openFiles EXCEPT ![r.to] = @ \ {h}]
          /\ jobs' = jobs \cup {Job(r, h.file, pc)}
      BY <3>1, <3>2 DEF Pop, Begin
    <3> QED
      BY <1>1, <1>2, <2>1, <3>1, <3>3, OnceClose
  <2> QED
    BY <1>6, <2>2, <2>3 DEF HandleClose
<1>7. CASE Redirect(r) \/ AnswerFromCache(r)
  BY <1>3, <1>7 DEF Redirect, AnswerFromCache, fileVars, history
<1> QED
  BY <1>4, <1>5, <1>6, <1>7 DEF RequestStep

\* ... when a client gives a call up
LEMMA OnceTimeout ==
    ASSUME CallInv, CallInv', OnceInv, OldOrNew, NEW c \in Client, Timeout(c),
           UNCHANGED <<openFiles, nextHandle, ran, listening>>
    PROVE  OnceInv'
<1>1. jobs' = Abandon(c, jobs) /\ jobs \in SUBSET JobRecord
  BY DEF Timeout, CallInv, CallTypes
<1>2. \A x \in jobs' : \E y \in jobs :
        /\ x.srv = y.srv /\ x.client = y.client /\ x.seq = y.seq /\ x.op = y.op /\ x.pc = y.pc
        /\ y.client # c => x = y
        /\ y.client = c => x = [y EXCEPT !.waited = FALSE]
  BY <1>1, AbandonJobs
<1>3. ASSUME NEW x \in jobs', NEW z \in jobs',
             x.op = "close", z.op = "close",
             x.srv = z.srv, x.client = z.client, x.seq = z.seq
      PROVE  x = z
  <2>1. PICK y \in jobs :
        /\ x.srv = y.srv /\ x.client = y.client /\ x.seq = y.seq /\ x.op = y.op
        /\ y.client # c => x = y
        /\ y.client = c => x = [y EXCEPT !.waited = FALSE]
    BY <1>2
  <2>2. PICK w \in jobs :
        /\ z.srv = w.srv /\ z.client = w.client /\ z.seq = w.seq /\ z.op = w.op
        /\ w.client # c => z = w
        /\ w.client = c => z = [w EXCEPT !.waited = FALSE]
    BY <1>2
  <2>3. y = w
    BY <1>3, <2>1, <2>2 DEF OnceInv, OneJob
  <2>4. CASE y.client = c
    <3>1. x = [y EXCEPT !.waited = FALSE] /\ z = [y EXCEPT !.waited = FALSE]
      BY <2>1, <2>2, <2>3, <2>4
    <3> QED
      BY <3>1, ZenonT(30)
  <2>5. CASE y.client # c
    <3>1. x = y /\ z = y
      BY <2>1, <2>2, <2>3, <2>5
    <3> QED
      BY <3>1
  <2> QED
    BY <2>4, <2>5
<1>4. OneJob'
  BY <1>3 DEF OneJob
<1>5. JobsLive'
  BY <1>2 DEF OnceInv, JobsLive
<1>6. \A j \in jobs' : j.op = "close" => \E k \in jobs :
               /\ k.op = "close" /\ k.srv = j.srv /\ k.client = j.client /\ k.seq = j.seq
               /\ j.pc = "write" => k.pc = "write"
  BY <1>2
<1> QED
  BY <1>4, <1>5, <1>6, OnceJobs

\* ... when a server takes a step
LEMMA OnceServer ==
    ASSUME CallInv, CallInv', RolesType, FileTypes, OnceInv, OldOrNew,
           NEW i \in Server, ServerStep(i)
    PROVE  OnceInv'
<1>1. CASE StartServer(i)
  BY <1>1, OnceStart DEF FileTypes
<1>2. CASE CrashServer(i)
  <2>1. /\ UNCHANGED <<openFiles, nextHandle, ran>> /\ listening' = listening \ {i}
        /\ jobs' = {j \in jobs : j.srv # i}
    BY <1>2 DEF CrashServer, Crash, history
  <2>2. JobsLive'
    BY <2>1 DEF OnceInv, JobsLive
  <2> QED
    BY <2>1, <2>2, OnceSameJobs
<1>3. ASSUME listening \subseteq listening', UNCHANGED <<openFiles, nextHandle, ran, jobs>>
      PROVE  OnceInv'
  <2>1. JobsLive'
    BY <1>3 DEF OnceInv, JobsLive
  <2> QED
    BY <1>3, <2>1, OnceSameJobs
<1>4. CASE RoleStep(i)
  <2>1. UNCHANGED <<openFiles, nextHandle, ran, jobs>>
    BY <1>4 DEF RoleStep, fileVars, rpcVars, history
  <2>2. listening' = listening
    BY <1>4 DEF RoleStep, QueryPeer, StartAsBackup, SyncGaveUp, DetectFailure, PollPeer,
       Elect, SkipAnnouncement, AnnounceToPeer, Heartbeat, Isolate, Heal, threadVars
  <2> QED
    BY <1>3, <2>1, <2>2
<1>5. CASE BootAsPrimary(i) \/ TakeSnapshot(i) \/ InstallSnapshot(i) \/ EndServerElection(i)
  <2>1. UNCHANGED <<openFiles, nextHandle, ran, jobs>>
    BY <1>5 DEF BootAsPrimary, TakeSnapshot, InstallSnapshot, EndServerElection, fileVars,
       rpcVars, history
  <2>2. listening \subseteq listening'
    BY <1>5 DEF BootAsPrimary, TakeSnapshot, InstallSnapshot, EndServerElection,
       StartAsPrimary, SyncAnswered, Install, EndElection
  <2> QED
    BY <1>3, <2>1, <2>2
<1> QED
  BY <1>1, <1>2, <1>4, <1>5 DEF ServerStep

\* ... when a job goes on
LEMMA OnceJob ==
    ASSUME CallInv, CallInv', FileTypes, OnceInv, OldOrNew, NEW j \in jobs, JobStep(j)
    PROVE  OnceInv'
<1>1. UNCHANGED listening
  BY DEF JobStep, roleVars, threadVars
<1>2. CASE JobWrite(j)
  BY <1>1, <1>2, OnceWrite
<1>3. CASE JobVersion(j) \/ JobReplicate(j)
  <2>1. UNCHANGED <<openFiles, nextHandle, ran>>
    BY <1>3 DEF JobVersion, JobReplicate, history
  <2>2. PICK k \in JobRecord :
                /\ jobs' = (jobs \ {j}) \cup {k}
                /\ k.srv = j.srv /\ k.client = j.client /\ k.seq = j.seq /\ k.op = j.op
                /\ k.pc = "replicate"
    BY <1>3, JobMoves
  <2> QED
    BY <1>1, <2>1, <2>2, OnceMoves
<1>4. CASE JobStore(j)
  <2>1. UNCHANGED <<openFiles, nextHandle, ran>> /\ jobs' = jobs \ {j}
    BY <1>4 DEF JobStore
  <2>2. JobsLive'
    BY <1>1, <2>1 DEF OnceInv, JobsLive
  <2> QED
    BY <2>1, <2>2, OnceSameJobs
<1> QED
  BY <1>2, <1>3, <1>4 DEF JobStep

\* OnceInv is inductive relative to FilesInv
LEMMA OnceNext == FilesInv /\ FilesInv' /\ OnceInv /\ [FilesNext]_vars => OnceInv'
<1> SUFFICES ASSUME FilesInv, FilesInv', OnceInv, [FilesNext]_vars PROVE OnceInv'
  OBVIOUS
<1>1. CallInv /\ CallInv' /\ FileTypes /\ RolesType
  BY DEF FilesInv, RolesInv
<1>2. CASE UNCHANGED vars
  <2>1. /\ UNCHANGED <<openFiles, nextHandle, ran, jobs, listening, client>>
        /\ requests' \subseteq requests
    BY <1>2 DEF vars, fileVars, rpcVars, history, roleVars, threadVars
  <2>2. JobsLive'
    BY <2>1 DEF OnceInv, JobsLive
  <2> QED
    BY <1>1, <2>1, <2>2, OldOrNewLoss, OnceSameJobs
<1>3. CASE FilesNext
  <2>1. OldOrNew
    BY <1>1, <1>3, OldOrNewNext
  <2>2. CASE \E i \in Server : ServerStep(i)
    BY <1>1, <2>1, <2>2, OnceServer
  <2>3. CASE \E c \in Client : ClientStep(c)
    <3>1. PICK c \in Client : ClientStep(c)
      BY <2>3
    <3>2. UNCHANGED <<openFiles, nextHandle, ran, listening>>
      BY <3>1 DEF ClientStep, fileVars, roleVars, threadVars, history
    <3>3. CASE UNCHANGED jobs
      <4>1. JobsLive'
        BY <3>2, <3>3 DEF OnceInv, JobsLive
      <4> QED
        BY <1>1, <2>1, <3>2, <3>3, <4>1, OnceSameJobs
    <3>4. CASE Timeout(c)
      BY <1>1, <2>1, <3>2, <3>4, OnceTimeout
    <3> QED
      BY <3>1, <3>3, <3>4 DEF ClientStep, Send, GiveUp, rpcVars
  <2>4. CASE \E r \in requests : RequestStep(r)
    BY <1>1, <2>1, <2>4, OnceRequest
  <2>5. CASE \E j \in jobs : JobStep(j)
    BY <1>1, <2>1, <2>5, OnceJob
  <2>6. CASE \E m \in late : ServeLate(m) /\ UNCHANGED <<roleVars, snapshot>>
    <3>1. UNCHANGED <<openFiles, nextHandle, ran, jobs, listening>>
      BY <2>6 DEF ServeLate, history, roleVars, threadVars
    <3>2. JobsLive'
      BY <3>1 DEF OnceInv, JobsLive
    <3> QED
      BY <1>1, <2>1, <3>1, <3>2, OnceSameJobs
  <2> QED
    BY <1>3, <2>2, <2>3, <2>4, <2>5, <2>6 DEF FilesNext
<1> QED
  BY <1>2, <1>3

\* ... and holds initially
LEMMA OnceInit == FilesInit => OnceInv
<1> SUFFICES ASSUME FilesInit PROVE OnceInv
  OBVIOUS
<1>1. \A c \in Client : client[c].op = "none"
  BY DEF FilesInit, Resting
<1>2. requests = {} /\ jobs = {}
  BY DEF FilesInit
<1>3. \A i \in Server : openFiles[i] = {} /\ ran[i] = <<>>
  BY DEF FilesInit
<1>4. \A c \in Client : \A s, n : ~Closes(c, s, n)
  BY <1>1, <1>2 DEF Closes
<1>5. \A i \in Server : \A c, s : ~Started(i, c, s)
  BY <1>2, <1>3 DEF Started
<1> QED
  BY <1>2, <1>3, <1>4, <1>5
     DEF OnceInv, HandleInv, OneHandle, StartedSpent, JobsLive, OneJob, NotYetRun, RanOnce

\* ... and says that a server that is up runs no write twice
LEMMA OnceInvImplies == FilesInv /\ OnceInv => RunsAtMostOnce
BY DEF FilesInv, RolesInv, RolesType, TypeOK, OnceInv, RanOnce, RunsAtMostOnce

\* However often its client repeats a close, to a server that still runs it or
\* already finished it, the server runs it once: the handle it names was popped
\* for the first one, and no other handle has its number.
THEOREM WritesRunOnce == FilesSpec => []RunsAtMostOnce
<1>1. FilesInv /\ [FilesNext]_vars => FilesInv'
  BY FilesInvNext
<1>2. FilesInv /\ FilesInv' /\ OnceInv /\ [FilesNext]_vars => OnceInv'
  BY OnceNext
<1> QED
  BY <1>1, <1>2, FilesInvInit, OnceInit, OnceInvImplies, PTL DEF FilesSpec

-----------------------------------------------------------------------------
(* A confirmation is that of the write                                     *)

\* A step confirms a write with the response to it
LEMMA AcksNext == FilesInv /\ AcksAreOwn /\ [FilesNext]_vars => AcksAreOwn'
<1> SUFFICES ASSUME FilesInv, AcksAreOwn, [FilesNext]_vars PROVE AcksAreOwn'
  OBVIOUS
<1>1. ASSUME NEW x, NEW version, Confirm(x, x.seq, version)
      PROVE  AcksAreOwn'
  BY <1>1 DEF Confirm, AcksAreOwn
<1>2. CASE UNCHANGED acked
  BY <1>2 DEF AcksAreOwn
<1>3. CASE \E r \in requests : AnswerFromCache(r)
  <2>1. PICK r \in requests : AnswerFromCache(r)
    BY <1>3
  <2>2. /\ r.client \in Client /\ r.to \in Server /\ r.seq \in Nat
        /\ client[r.client].seq \in Nat
    BY CallFieldTypes DEF FilesInv
  <2>3. CASE ~r.waited
    BY <1>2, <2>1, <2>3 DEF AnswerFromCache, Confirm
  <2>4. CASE r.waited
    <3>1. client[r.client].seq = r.seq
      BY <2>4 DEF FilesInv, CallInv, WaitInv, Asks
    <3>2. dedup[r.to][r.client].seq <= client[r.client].seq
      BY <2>2 DEF FilesInv, CallInv, WaitInv
    <3>3. dedup[r.to][r.client].seq \in 0..MaxOps
      BY <2>2 DEF FilesInv, CallInv, CallTypes
    <3>4. dedup[r.to][r.client].seq >= r.seq
      BY <2>1 DEF AnswerFromCache, Cached
    <3>5. dedup[r.to][r.client].seq = r.seq
      BY <2>2, <3>1, <3>2, <3>3, <3>4, FilesAssumption
    <3> QED
      BY <1>1, <2>1, <3>5 DEF AnswerFromCache
  <2> QED
    BY <2>3, <2>4
<1>4. CASE \E j \in jobs : JobStore(j)
  BY <1>1, <1>4 DEF JobStore
<1> QED
  BY <1>2, <1>3, <1>4 DEF vars, history, FilesNext, ServerStep, RoleStep, StartServer,
     BootAsPrimary, TakeSnapshot, InstallSnapshot, EndServerElection, CrashServer, ClientStep,
     RequestStep, Redirect, HandleCreate, HandleOpen, HandleClose, JobStep, JobWrite,
     JobVersion, JobReplicate, ServeLate

\* What a client takes for the confirmation of its write is the response to
\* that write: the server's last response to it cannot be that of a later
\* request, for the client makes none before it has this one's answer.
THEOREM OwnAcks == FilesSpec => []AcksAreOwn
<1>1. FilesInv /\ [FilesNext]_vars => FilesInv'
  BY FilesInvNext
<1>2. FilesInv /\ AcksAreOwn /\ [FilesNext]_vars => AcksAreOwn'
  BY AcksNext
<1>3. FilesInit => AcksAreOwn
  BY DEF FilesInit, AcksAreOwn
<1> QED
  BY <1>1, <1>2, <1>3, FilesInvInit, PTL DEF FilesSpec

-----------------------------------------------------------------------------
(* While servers only crash, confirmed writes survive                      *)

\* No call is given up, and none is answered from the cache
CallsQuiet ==
    /\ late = {}
    /\ \A r \in requests : r.waited /\ (r.op = "create" => r.mode = "w")
    /\ \A j \in jobs : j.waited
    /\ \A c \in Client : client[c].op = "create" => client[c].mode = "w"
    /\ \A c \in Client : client[c].op \in {"create", "close"} =>
          \A i \in listening : dedup[i][c].seq < client[c].seq

\* A server that holds an election is no primary
VotersAreBackups == \A i \in listening : task[i].pc = "elect" => role[i] # "primary"

\* The job changes its file; it is not the close of a file opened for reading
Active(j) == j.pc # "store"

\* The confirmed writes that AckedSurvives is about
Acks == {b \in acked : b.file \notin overlapped /\ b.data \notin astray}

JobsLead == \A j \in jobs : Active(j) => role[j.srv] = "primary"

JobsAlone ==
    \A j, k \in jobs : Active(j) /\ Active(k) /\ j.file = k.file =>
        j = k \/ j.file \in overlapped

\* The job of a close is on the file of the call, and writes it if the client had
\* it open for writing
Fits(j) ==
    /\ j.file = client[j.client].file
    /\ client[j.client].mode = "w" => Active(j)
JobsOfCalls == \A j \in jobs : j.op = "close" => Fits(j) \/ Data(j) \in astray

\* What has a version exists
Existing ==
    /\ \A i \in listening : \A f \in File : versions[i][f] > 0 => disk[i][f] # Absent
    /\ \A j \in jobs : j.pc \in {"version", "replicate"} => disk[j.srv][j.file] # Absent
    /\ \A j \in jobs : j.pc = "store" => j.version = 0
    /\ \A a \in Acks : a.version > 0

\* The servers that a close has reached have what it wrote, at its version,
\* which is above all that were confirmed before
Reached(j) ==
    /\ j.pc = "version" => disk[j.srv][j.file] = Data(j)
    /\ j.pc = "replicate" =>
        /\ j.version > 0
        /\ \A i \in listening \ j.todo :
              versions[i][j.file] = j.version /\ disk[i][j.file] = Data(j)
        /\ \A a \in Acks : a.file = j.file => a.version < j.version
Spread == \A j \in jobs : j.op = "close" /\ j.file \notin overlapped => Reached(j)

\* A file that is being created has no confirmed write
FreshFiles == \A j \in jobs : Active(j) /\ j.op = "create" => \A a \in Acks : a.file # j.file

\* Server i has the confirmed write a, or a newer one
Kept(a, i) ==
    \/ versions[i][a.file] > a.version
    \/ /\ versions[i][a.file] = a.version
       /\ \/ disk[i][a.file] = a.data
          \/ \E j \in jobs : /\ j.srv = i /\ j.file = a.file /\ j.pc = "version"
                             /\ disk[i][a.file] = Data(j)

AllKept == \A a \in Acks : \A i \in listening : Kept(a, i)

FilesKept ==
    /\ JobsLead /\ JobsAlone /\ JobsOfCalls
    /\ Existing /\ Spread /\ FreshFiles /\ AllKept

KeepBody == CallsQuiet /\ VotersAreBackups /\ FilesKept

KeepInv == restarts = 0 /\ faults = 0 => KeepBody

\* The restarts are never taken back
LEMMA RestartsPast ==
    ASSUME RolesType, Next \/ OtherFault \/ UNCHANGED roleVars, restarts' = 0
    PROVE  restarts = 0
<1>1. restarts \in Nat
  BY RoleTypes
<1>2. CASE OtherFault \/ UNCHANGED roleVars
  BY <1>2 DEF OtherFault, roleVars, faultVars
<1>3. CASE Next
  <2>1. PICK i \in Server :
          \/ ThreadStep(i)
          \/ \E p \in Server : Heartbeat(i, p)
          \/ Start(i) \/ Crash(i) \/ Isolate(i) \/ Heal(i)
    BY <1>3 DEF Next
  <2>2. ASSUME NEW p, Answered(i, p) \/ Failed(i, p) PROVE restarts = 0
    BY <2>2 DEF Answered, Failed, faultVars
  <2>3. CASE ThreadStep(i)
    BY <2>2, <2>3 DEF ThreadStep, QueryPeer, StartAsPrimary, StartAsBackup, SyncAnswered,
       Install, SyncGaveUp, DetectFailure, Suspect, PollPeer, Elect, SkipAnnouncement,
       AnnounceToPeer, EndElection, faultVars
  <2>4. CASE Start(i)
    BY <1>1, <2>4 DEF Start
  <2>5. CASE Crash(i) \/ Isolate(i) \/ Heal(i) \/ \E p \in Server : Heartbeat(i, p)
    BY <2>5 DEF Crash, Isolate, Heal, Heartbeat, faultVars
  <2> QED
    BY <2>1, <2>3, <2>4, <2>5
<1> QED
  BY <1>2, <1>3

\* If no server has restarted and no call has failed after a step, none had
\* before it
LEMMA QuietPast ==
    ASSUME FilesInv, FilesInv', FilesNext, restarts' = 0, faults' = 0
    PROVE  restarts = 0 /\ faults = 0
<1>1. RolesType /\ calm'
  BY DEF FilesInv, RolesInv, NoRestartInv
<1>2. Next \/ OtherFault \/ UNCHANGED roleVars
  BY <1>1, FilesStepIsRoleStep
<1>3. CASE UNCHANGED roleVars
  BY <1>3 DEF roleVars, faultVars
<1> QED
  BY <1>1, <1>2, <1>3, RestartsPast, QuietBefore

\* Then the servers that are not down listen, and start nothing
LEMMA QuietFacts ==
    ASSUME FilesInv, restarts = 0, faults = 0
    PROVE  /\ isolated = {}
           /\ \A i \in Server : task[i].pc # "down" => i \in listening
           /\ \A i \in listening : QuietThread(i) /\ task[i].pc \in {"idle", "elect", "announce"}
           /\ \A q, r \in Primaries : q = r
<1>1. calm /\ Starting = {}
  BY DEF FilesInv, RolesInv, NoRestartInv
<1>2. QuietBody
  BY <1>1 DEF FilesInv, RolesInv, QuietInv
<1>3. \A i \in Server : task[i].pc # "down" => i \in listening
  BY <1>1 DEF Starting
<1>4. \A i \in listening : task[i].pc \in {"idle", "elect", "announce"}
  BY <1>2, IdleAndDown DEF QuietBody, QuietThread
<1> QED
  BY <1>2, <1>3, <1>4 DEF QuietBody

\* The steps that servers take while they only crash: no primary loses its
\* role, and none holds an election
LEMMA QuietServer ==
    ASSUME FilesInv, FilesInv', restarts = 0, faults = 0, restarts' = 0, faults' = 0,
           VotersAreBackups, NEW i \in Server, ServerStep(i)
    PROVE  /\ RoleStep(i) \/ EndServerElection(i) \/ CrashServer(i)
           /\ listening' \subseteq listening
           /\ \A p \in listening' : role[p] = "primary" => role'[p] = "primary"
           /\ VotersAreBackups'
<1>1. RolesType /\ RolesType' /\ faults \in Nat /\ restarts \in Nat
  BY RoleTypes DEF FilesInv, RolesInv
<1>a. /\ role \in [Server -> {"unknown", "primary", "backup"}]
      /\ listening \subseteq Server
  BY <1>1, RoleTypes
<1>2. /\ isolated = {}
      /\ \A s \in Server : task[s].pc # "down" => s \in listening
      /\ \A s \in listening : QuietThread(s) /\ task[s].pc \in {"idle", "elect", "announce"}
      /\ \A q, r \in Primaries : q = r
  BY QuietFacts
<1>3. task[i].pc \notin {"query", "sync", "install"}
  BY <1>2
<1>4. ~StartServer(i)
  <2>1. StartServer(i) => restarts' = restarts + 1
    BY DEF StartServer, Start
  <2> QED
    BY <1>1, <2>1
<1>5. RoleStep(i) \/ EndServerElection(i) \/ CrashServer(i)
  BY <1>3, <1>4 DEF ServerStep, BootAsPrimary, StartAsPrimary, TakeSnapshot, SyncAnswered,
     InstallSnapshot, Install
<1>6. ASSUME NEW t, Goto(i, t), UNCHANGED <<role, listening>>,
             t.pc = "elect" => role[i] # "primary"
      PROVE  VotersAreBackups'
  <2>1. task'[i] = t /\ \A k \in Server : k # i => task'[k] = task[k]
    BY <1>1, <1>6, StepOfThread
  <2> QED
    BY <1>6, <1>a, <2>1 DEF VotersAreBackups
<1>7. CASE EndServerElection(i)
  <2>1. EndElection(i)
    BY <1>7 DEF EndServerElection
  <2>2. UNCHANGED <<role, listening>> /\ Goto(i, Idle)
    BY <1>2, <2>1 DEF EndElection
  <2> QED
    BY <1>5, <1>6, <2>2, IdleAndDown
<1>8. CASE CrashServer(i)
  <2>1. listening' = listening \ {i} /\ Goto(i, Down) /\ UNCHANGED role
    BY <1>8 DEF CrashServer, Crash
  <2>2. \A k \in Server : k # i => task'[k] = task[k]
    BY <1>1, <2>1, StepOfThread
  <2> QED
    BY <1>5, <1>a, <2>1, <2>2 DEF VotersAreBackups
<1>9. CASE RoleStep(i)
  <2>1. CASE UNCHANGED threadVars
    BY <1>5, <2>1 DEF threadVars, VotersAreBackups
  <2>2. CASE DetectFailure(i)
    <3>1. UNCHANGED <<role, listening>> /\ Goto(i, Poll(i, FALSE)) /\ role[i] = "backup"
      BY <2>2 DEF DetectFailure
    <3> QED
      BY <1>5, <1>6, <3>1
  <2>3. CASE PollPeer(i)
    <3>1. PICK t : Goto(i, t)
      BY <2>3 DEF PollPeer
    <3>2. UNCHANGED <<role, listening>> /\ task[i].pc = "elect" /\ i \in listening
      BY <1>2, <2>3 DEF PollPeer
    <3>3. role[i] # "primary"
      BY <3>2 DEF VotersAreBackups
    <3> QED
      BY <1>5, <1>6, <3>1, <3>2, <3>3
  <2>4. CASE Elect(i)
    <3>1. task[i].pc = "elect" /\ i \in listening /\ UNCHANGED listening
      BY <1>2, <2>4 DEF Elect
    <3>2. role[i] # "primary"
      BY <3>1 DEF VotersAreBackups
    <3>3. \A p \in Server : p # i => role'[p] = role[p]
      BY <1>a, <2>4 DEF Elect
    <3>4. PICK todo : Goto(i, Task("announce", todo, {}, <<>>, task[i].boot))
      BY <2>4 DEF Elect
    <3>5. /\ task'[i] = Task("announce", todo, {}, <<>>, task[i].boot)
          /\ \A k \in Server : k # i => task'[k] = task[k]
      BY <1>1, <3>4, StepOfThread
    <3>6. task'[i].pc = "announce"
      BY <3>5 DEF Task
    <3>7. \A k \in listening' : task'[k].pc = "elect" => role'[k] # "primary"
      BY <1>a, <3>1, <3>3, <3>5, <3>6 DEF VotersAreBackups
    <3> QED
      BY <1>5, <1>a, <3>1, <3>2, <3>3, <3>7 DEF VotersAreBackups
  <2>5. CASE SkipAnnouncement(i)
    <3> DEFINE t == [task[i] EXCEPT !.todo = {}]
    <3>1. Goto(i, t) /\ UNCHANGED <<role, listening>> /\ task[i].pc = "announce"
      BY <2>5 DEF SkipAnnouncement
    <3>2. t.pc = task[i].pc
      BY <1>1, RoleTypes DEF TaskType
    <3> HIDE DEF t
    <3> QED
      BY <1>5, <1>6, <3>1, <3>2
  <2>6. CASE AnnounceToPeer(i)
    <3>1. task[i].pc = "announce" /\ task[i].todo # {} /\ i \in listening /\ UNCHANGED listening
      BY <1>2, <2>6 DEF AnnounceToPeer
    <3>2. role[i] = "primary"
      BY <1>2, <3>1, IdleAndDown DEF QuietThread
    <3> DEFINE p == Lowest(task[i].todo)
               t == [task[i] EXCEPT !.todo = @ \ {p}]
    <3>3. p \in task[i].todo /\ task[i].todo \subseteq Peers(i)
      <4>1. task[i].todo \subseteq Peers(i) /\ Peers(i) \subseteq Server
        BY <1>1 DEF RolesType, ThreadInv, Peers
      <4> QED
        BY <3>1, <4>1, LowestIs, ServerAssumption
    <3>4. p \in Server /\ p # i
      BY <3>3 DEF Peers
    <3>5. Goto(i, t) /\ \/ UNCHANGED role
                        \/ role' = [role EXCEPT ![p] = "backup"]
      BY <2>6 DEF AnnounceToPeer
    <3>6. t.pc = task[i].pc
      BY <1>1, RoleTypes DEF TaskType
    <3> HIDE DEF p, t
    <3>7. p \in listening => role[p] # "primary"
      BY <1>2, <3>1, <3>2, <3>4 DEF Primaries
    <3>8. \A k \in Server : role'[k] = role[k] \/ (k = p /\ role'[k] = "backup")
      BY <1>a, <3>4, <3>5
    <3>9. task'[i].pc = "announce" /\ \A k \in Server : k # i => task'[k] = task[k]
      BY <1>1, <3>1, <3>5, <3>6, StepOfThread
    <3>10. \A k \in listening' : task'[k].pc = "elect" => role'[k] # "primary"
      BY <1>a, <3>1, <3>8, <3>9 DEF VotersAreBackups
    <3> QED
      BY <1>5, <1>a, <3>1, <3>7, <3>8, <3>10 DEF VotersAreBackups
  <2>7. CASE \/ QueryPeer(i) \/ StartAsBackup(i) \/ SyncGaveUp(i)
    BY <1>3, <2>7 DEF QueryPeer, StartAsBackup, SyncGaveUp
  <2>8. CASE (\E p \in Server : Heartbeat(i, p)) \/ Isolate(i) \/ Heal(i)
    BY <2>1, <2>8 DEF Heartbeat, Isolate, Heal
  <2> QED
    BY <1>9, <2>2, <2>3, <2>4, <2>5, <2>6, <2>7, <2>8 DEF RoleStep
<1> QED
  BY <1>5, <1>7, <1>8, <1>9

\* Nothing that FilesKept says is disturbed when servers stop, jobs end, and a
\* file that exists gets its first version
LEMMA KeepFrame ==
    ASSUME FilesInv, FilesKept, jobs' \subseteq jobs, listening' \subseteq listening,
           \A p \in listening' : role[p] = "primary" => role'[p] = "primary",
           \A j \in jobs : j.srv \in listening' /\ j.pc = "version" => j \in jobs',
           \A j \in jobs' : j.srv \in listening' /\ client'[j.client] = client[j.client],
           \A i \in listening' : \A f \in File :
               /\ disk'[i][f] = disk[i][f]
               /\ \/ versions'[i][f] = versions[i][f]
                  \/ versions[i][f] = 0 /\ disk[i][f] # Absent /\ versions'[i][f] = 1,
           UNCHANGED <<acked, overlapped, astray>>
    PROVE  FilesKept'
<1>1. listening \subseteq Server
  BY RoleTypes DEF FilesInv, RolesInv
<1>2. \A j \in jobs : j.file \in File /\ j.srv \in Server /\ j.version \in Nat
  BY CallFieldTypes DEF FilesInv
<1>3. \A a \in acked : a.file \in File /\ a.version \in Nat
  BY DEF FilesInv, FileTypes
<1>4. Acks' = Acks
  BY DEF Acks
<1>5. JobsLead'
  BY DEF FilesKept, JobsLead, Active
<1>6. JobsAlone'
  BY DEF FilesKept, JobsAlone, Active
<1>7. JobsOfCalls'
  BY DEF FilesKept, JobsOfCalls, Fits, Active, Data
<1>8. Existing'
  <2>1. \A i \in listening' : \A f \in File : versions'[i][f] > 0 => disk'[i][f] # Absent
    BY DEF FilesKept, Existing
  <2>2. \A j \in jobs' : j.pc \in {"version", "replicate"} => disk'[j.srv][j.file] # Absent
    BY <1>2 DEF FilesKept, Existing
  <2> QED
    BY <1>4, <2>1, <2>2 DEF FilesKept, Existing
<1>9. Spread'
  <2> SUFFICES ASSUME NEW j \in jobs', j.op = "close", j.file \notin overlapped'
               PROVE  Reached(j)'
    BY DEF Spread
  <2>1. j \in jobs /\ j.file \in File /\ j.srv \in listening' /\ j.version \in Nat
    BY <1>2
  <2>2. Reached(j)
    BY <2>1 DEF FilesKept, Spread
  <2>3. j.pc = "version" => disk'[j.srv][j.file] = Data(j)
    BY <2>1, <2>2 DEF Reached
  <2>4. ASSUME NEW i \in listening' \ j.todo, j.pc = "replicate"
        PROVE  versions'[i][j.file] = j.version /\ disk'[i][j.file] = Data(j)
    <3>1. versions[i][j.file] = j.version /\ disk[i][j.file] = Data(j) /\ j.version > 0
      BY <2>2, <2>4 DEF Reached
    <3> QED
      BY <2>1, <2>4, <3>1
  <2>5. j.pc = "replicate" => j.version > 0 /\ \A a \in Acks' : a.file = j.file => a.version < j.version
    BY <1>4, <2>2 DEF Reached
  <2> QED
    BY <2>3, <2>4, <2>5 DEF Reached, Data
<1>10. FreshFiles'
  BY <1>4 DEF FilesKept, FreshFiles, Active
<1>11. AllKept'
  <2> SUFFICES ASSUME NEW a \in Acks', NEW i \in listening' PROVE Kept(a, i)'
    BY DEF AllKept
  <2>1. a \in Acks /\ i \in listening /\ a.file \in File /\ a.version \in Nat /\ a.version > 0
    BY <1>3, <1>4 DEF Acks, FilesKept, Existing
  <2>2. Kept(a, i)
    BY <2>1 DEF FilesKept, AllKept
  <2>3. versions[i][a.file] # 0
    BY <2>1, <2>2 DEF Kept
  <2>4. versions'[i][a.file] = versions[i][a.file] /\ disk'[i][a.file] = disk[i][a.file]
    BY <2>1, <2>3
  <2> QED
    BY <2>2, <2>4 DEF Kept, Data
<1> QED
  BY <1>5, <1>6, <1>7, <1>8, <1>9, <1>10, <1>11 DEF FilesKept

\* When a job begins
LEMMA KeepBegin ==
    ASSUME FilesInv, FilesKept, NEW j \in JobRecord, Begin(j),
           UNCHANGED <<disk, versions, listening, role, client, acked>>,
           j.srv \in listening,
           j.pc \in {"write", "store"}, j.version = 0,
           j.pc = "write" => role[j.srv] = "primary",
           j.op = "create" => disk[j.srv][j.file] = Absent,
           astray \subseteq astray',
           j.op = "close" => Fits(j) \/ Data(j) \in astray'
    PROVE  FilesKept'
<1>1. /\ jobs' = jobs \cup {j} /\ overlapped \subseteq overlapped'
      /\ j.pc = "write" => \A k \in jobs : Active(k) /\ k.file = j.file => j.file \in overlapped'
  BY DEF Begin, Active
<1>2. Acks' \subseteq Acks
  BY <1>1 DEF Acks
<1>3. JobsLead'
  BY <1>1 DEF FilesKept, JobsLead, Active
<1>4. JobsAlone'
  BY <1>1 DEF FilesKept, JobsAlone, Active
<1>5. JobsOfCalls'
  <2>1. \A k \in jobs : k.op = "close" => Fits(k) \/ Data(k) \in astray
    BY DEF FilesKept, JobsOfCalls
  <2> QED
    BY <1>1, <2>1 DEF JobsOfCalls, Fits, Active, Data
<1>6. Existing'
  BY <1>1, <1>2 DEF FilesKept, Existing
<1>7. Spread'
  <2> SUFFICES ASSUME NEW k \in jobs', k.op = "close", k.file \notin overlapped'
               PROVE  Reached(k)'
    BY DEF Spread
  <2>1. CASE k = j
    BY <2>1 DEF Reached
  <2>2. CASE k \in jobs
    <3>1. Reached(k)
      BY <1>1, <2>2 DEF FilesKept, Spread
    <3> QED
      BY <1>2, <3>1 DEF Reached, Data
  <2> QED
    BY <1>1, <2>1, <2>2
<1>8. FreshFiles'
  <2> SUFFICES ASSUME NEW k \in jobs', Active(k), k.op = "create", NEW a \in Acks'
               PROVE  a.file # k.file
    BY DEF FreshFiles, Active
  <2>1. CASE k \in jobs
    BY <1>2, <2>1 DEF FilesKept, FreshFiles
  <2>2. CASE k = j
    <3>1. a \in Acks /\ a \in acked /\ a.version \in Nat /\ a.file \in File /\ a.version > 0
      BY <1>2 DEF Acks, FilesInv, FileTypes, FilesKept, Existing
    <3>2. Kept(a, j.srv)
      BY <3>1 DEF FilesKept, AllKept
    <3>3. versions[j.srv][a.file] \in Nat
      BY <3>1 DEF FilesInv, FileTypes, JobRecord
    <3>4. versions[j.srv][a.file] > 0
      BY <3>1, <3>2, <3>3 DEF Kept
    <3>5. disk[j.srv][a.file] # Absent
      BY <3>1, <3>4 DEF FilesKept, Existing
    <3> QED
      BY <2>2, <3>5
  <2> QED
    BY <1>1, <2>1, <2>2
<1>9. AllKept'
  <2> SUFFICES ASSUME NEW a \in Acks', NEW i \in listening' PROVE Kept(a, i)'
    BY DEF AllKept
  <2>1. Kept(a, i)
    BY <1>2 DEF FilesKept, AllKept
  <2> QED
    BY <1>1, <2>1 DEF Kept, Data
<1> QED
  BY <1>3, <1>4, <1>5, <1>6, <1>7, <1>8, <1>9 DEF FilesKept

\* Two jobs at work on one file are no longer of interest
LEMMA OtherFiles ==
    ASSUME FilesKept, NEW j \in jobs, Active(j), NEW x \in jobs, Active(x), x # j,
           x.file \notin overlapped
    PROVE  x.file # j.file
BY DEF FilesKept, JobsAlone

\* A job moves on, and takes nothing from the others
LEMMA KeepMoves ==
    ASSUME FilesInv, FilesKept, NEW j \in jobs, NEW k \in JobRecord,
           jobs' = (jobs \ {j}) \cup {k},
           k.srv = j.srv, k.client = j.client, k.seq = j.seq, k.op = j.op, k.file = j.file,
           Active(j), Active(k),
           UNCHANGED <<listening, role, client, acked, overlapped, astray>>
    PROVE  /\ JobsLead' /\ JobsAlone' /\ JobsOfCalls' /\ FreshFiles'
           /\ Acks' = Acks /\ Data(k) = Data(j)
<1>1. Data(k) = Data(j) /\ Acks' = Acks
  BY DEF Data, Acks
<1>2. JobsLead'
  BY DEF FilesKept, JobsLead, Active
<1>3. JobsAlone'
  BY DEF FilesKept, JobsAlone, Active
<1>4. JobsOfCalls'
  BY <1>1 DEF FilesKept, JobsOfCalls, Fits, Active, Data
<1>5. FreshFiles'
  BY <1>1 DEF FilesKept, FreshFiles, Active
<1> QED
  BY <1>1, <1>2, <1>3, <1>4, <1>5

\* When a job writes its file
LEMMA KeepWrite ==
    ASSUME FilesInv, FilesKept, NEW j \in jobs, JobWrite(j), j.srv \in listening,
           UNCHANGED <<listening, role>>
    PROVE  FilesKept'
<1>1. /\ j \in JobRecord /\ j.srv \in Server /\ j.file \in File /\ j.pc = "write"
      /\ j.op \in {"create", "close"}
  BY CallFieldTypes DEF FilesInv, JobWrite
<1>2. PICK k \in JobRecord :
        /\ jobs' = (jobs \ {j}) \cup {k}
        /\ k.srv = j.srv /\ k.client = j.client /\ k.seq = j.seq /\ k.op = j.op
        /\ k.file = j.file /\ k.pc = "version"
  BY JobMoves DEF FilesInv
<1>3. Active(j) /\ Active(k)
  BY <1>1, <1>2 DEF Active
<1>4. UNCHANGED <<versions, client, acked, overlapped, astray>>
  BY DEF JobWrite
<1>5. /\ JobsLead' /\ JobsAlone' /\ JobsOfCalls' /\ FreshFiles'
      /\ Acks' = Acks /\ Data(k) = Data(j)
  BY <1>2, <1>3, <1>4, KeepMoves
<1>6. disk \in [Server -> [File -> Content]] /\ versions \in [Server -> [File -> Nat]]
  BY DEF FilesInv, FileTypes
<1>7. /\ disk'[j.srv][j.file] = Data(j)
      /\ \A i \in Server : \A f \in File :
            ~(i = j.srv /\ f = j.file) => disk'[i][f] = disk[i][f]
  BY <1>1, <1>6 DEF JobWrite
<1>8. Data(j) # Absent
  BY <1>1, DataIsContent
<1>9. \A x \in jobs : x.file \in File /\ x.srv \in Server
  BY CallFieldTypes DEF FilesInv
<1>10. listening \subseteq Server
  BY RoleTypes DEF FilesInv, RolesInv
<1>11. \A a \in acked : a.file \in File /\ a.version \in Nat
  BY DEF FilesInv, FileTypes
<1>12. Existing'
  <2>1. \A i \in listening' : \A f \in File : versions'[i][f] > 0 => disk'[i][f] # Absent
    BY <1>4, <1>7, <1>8, <1>10 DEF FilesKept, Existing
  <2>2. \A x \in jobs' : x.pc \in {"version", "replicate"} => disk'[x.srv][x.file] # Absent
    <3> SUFFICES ASSUME NEW x \in jobs', x.pc \in {"version", "replicate"}
                 PROVE  disk'[x.srv][x.file] # Absent
      OBVIOUS
    <3>1. CASE x = k
      BY <1>2, <1>7, <1>8, <3>1
    <3>2. CASE x \in jobs
      <4>1. disk[x.srv][x.file] # Absent
        BY <3>2 DEF FilesKept, Existing
      <4> QED
        BY <1>7, <1>8, <1>9, <3>2, <4>1
    <3> QED
      BY <1>2, <3>1, <3>2
  <2>3. \A x \in jobs' : x.pc = "store" => x.version = 0
    BY <1>2 DEF FilesKept, Existing
  <2> QED
    BY <1>4, <1>5, <2>1, <2>2, <2>3 DEF FilesKept, Existing
<1>13. Spread'
  <2> SUFFICES ASSUME NEW x \in jobs', x.op = "close", x.file \notin overlapped'
               PROVE  Reached(x)'
    BY DEF Spread
  <2>1. CASE x = k
    BY <1>2, <1>5, <1>7, <2>1 DEF Reached, Data
  <2>2. CASE x \in jobs /\ x # j
    <3>1. Reached(x)
      BY <1>4, <2>2 DEF FilesKept, Spread
    <3>2. CASE ~Active(x)
      BY <3>2 DEF Active, Reached
    <3>3. CASE Active(x)
      <4>1. x.file # j.file
        BY <1>3, <1>4, <2>2, <3>3, OtherFiles
      <4>2. \A i \in Server : disk'[i][x.file] = disk[i][x.file]
        BY <1>7, <1>9, <2>2, <4>1
      <4> QED
        BY <1>4, <1>5, <1>9, <1>10, <2>2, <3>1, <4>2 DEF Reached, Data
    <3> QED
      BY <3>2, <3>3
  <2> QED
    BY <1>2, <2>1, <2>2
<1>14. AllKept'
  <2> SUFFICES ASSUME NEW a \in Acks, NEW i \in listening PROVE Kept(a, i)'
    BY <1>5 DEF AllKept
  <2>1. Kept(a, i) /\ a.file \in File /\ i \in Server
    BY <1>10, <1>11 DEF FilesKept, AllKept, Acks
  <2>2. CASE i = j.srv /\ a.file = j.file
    BY <1>2, <1>4, <1>5, <1>7, <2>1, <2>2 DEF Kept, Data
  <2>3. CASE ~(i = j.srv /\ a.file = j.file)
    <3>1. disk'[i][a.file] = disk[i][a.file]
      BY <1>7, <2>1, <2>3
    <3>2. \A x \in jobs : x.pc = "version" => x \in jobs'
      BY <1>1, <1>2
    <3> QED
      BY <1>4, <2>1, <3>1, <3>2 DEF Kept, Data
  <2> QED
    BY <2>2, <2>3
<1> QED
  BY <1>5, <1>12, <1>13, <1>14 DEF FilesKept

\* When a job sets the version of its file
LEMMA KeepVersion ==
    ASSUME FilesInv, FilesKept, NEW j \in jobs, JobVersion(j), j.srv \in listening,
           UNCHANGED <<listening, role>>
    PROVE  FilesKept'
<1>1. /\ j \in JobRecord /\ j.srv \in Server /\ j.file \in File /\ j.pc = "version"
      /\ j.op \in {"create", "close"}
  BY CallFieldTypes DEF FilesInv, JobVersion
<1>2. PICK k \in JobRecord :
        /\ jobs' = (jobs \ {j}) \cup {k}
        /\ k.srv = j.srv /\ k.client = j.client /\ k.seq = j.seq /\ k.op = j.op
        /\ k.file = j.file /\ k.pc = "replicate" /\ k.version = NewVersion(j)
        /\ k.todo = Peers(j.srv)
  BY JobMoves DEF FilesInv
<1>3. Active(j) /\ Active(k)
  BY <1>1, <1>2 DEF Active
<1>4. UNCHANGED <<disk, client, acked, overlapped, astray>>
  BY DEF JobVersion, history
<1>5. /\ JobsLead' /\ JobsAlone' /\ JobsOfCalls' /\ FreshFiles'
      /\ Acks' = Acks /\ Data(k) = Data(j)
  BY <1>2, <1>3, <1>4, KeepMoves
<1>6. versions \in [Server -> [File -> Nat]]
  BY DEF FilesInv, FileTypes
<1>7. /\ versions'[j.srv][j.file] = NewVersion(j)
      /\ \A i \in Server : \A f \in File :
            ~(i = j.srv /\ f = j.file) => versions'[i][f] = versions[i][f]
  BY <1>1, <1>6 DEF JobVersion
<1>8. NewVersion(j) \in Nat /\ NewVersion(j) > 0
  BY <1>1, NewVersionIsNumber DEF FilesInv
<1>9. \A x \in jobs : x.file \in File /\ x.srv \in Server
  BY CallFieldTypes DEF FilesInv
<1>10. listening \subseteq Server
  BY RoleTypes DEF FilesInv, RolesInv
<1>11. \A a \in acked : a.file \in File /\ a.version \in Nat
  BY DEF FilesInv, FileTypes
<1>12. ASSUME NEW a \in Acks, a.file = j.file
       PROVE  a.version < NewVersion(j)
  <2>1. Kept(a, j.srv) /\ a.version \in Nat /\ a.version > 0
    BY <1>11 DEF FilesKept, AllKept, Existing, Acks
  <2>2. versions[j.srv][j.file] \in Nat
    BY <1>1, <1>6
  <2>3. versions[j.srv][j.file] >= a.version
    BY <1>12, <2>1, <2>2 DEF Kept
  <2>4. j.op = "close"
    BY <1>1, <1>3, <1>12 DEF FilesKept, FreshFiles
  <2> QED
    BY <2>1, <2>2, <2>3, <2>4 DEF NewVersion
<1>13. Existing'
  <2>1. disk[j.srv][j.file] # Absent
    BY <1>1 DEF FilesKept, Existing
  <2>2. \A i \in listening' : \A f \in File : versions'[i][f] > 0 => disk'[i][f] # Absent
    BY <1>4, <1>7, <1>10, <2>1 DEF FilesKept, Existing
  <2>3. \A x \in jobs' : x.pc \in {"version", "replicate"} => disk'[x.srv][x.file] # Absent
    BY <1>2, <1>4, <2>1 DEF FilesKept, Existing
  <2>4. \A x \in jobs' : x.pc = "store" => x.version = 0
    BY <1>2 DEF FilesKept, Existing
  <2> QED
    BY <1>4, <1>5, <2>2, <2>3, <2>4 DEF FilesKept, Existing
<1>14. Spread'
  <2> SUFFICES ASSUME NEW x \in jobs', x.op = "close", x.file \notin overlapped'
               PROVE  Reached(x)'
    BY DEF Spread
  <2>1. CASE x = k
    <3>1. Reached(j)
      BY <1>2, <1>4, <2>1 DEF FilesKept, Spread
    <3>2. disk[j.srv][j.file] = Data(j)
      BY <1>1, <3>1 DEF Reached
    <3>3. \A i \in listening' \ x.todo : i = j.srv
      BY <1>2, <1>10, <2>1 DEF Peers
    <3>4. \A i \in listening' \ x.todo :
            versions'[i][x.file] = x.version /\ disk'[i][x.file] = Data(x)
      BY <1>2, <1>4, <1>5, <1>7, <2>1, <3>2, <3>3
    <3>5. \A a \in Acks' : a.file = x.file => a.version < x.version
      BY <1>2, <1>5, <1>12, <2>1
    <3> QED
      BY <1>2, <1>8, <2>1, <3>4, <3>5 DEF Reached, Data
  <2>2. CASE x \in jobs /\ x # j
    <3>1. Reached(x)
      BY <1>4, <2>2 DEF FilesKept, Spread
    <3>2. CASE ~Active(x)
      BY <3>2 DEF Active, Reached
    <3>3. CASE Active(x)
      <4>1. x.file # j.file
        BY <1>3, <1>4, <2>2, <3>3, OtherFiles
      <4>2. \A i \in Server : versions'[i][x.file] = versions[i][x.file]
        BY <1>7, <1>9, <2>2, <4>1
      <4> QED
        BY <1>4, <1>5, <1>9, <1>10, <2>2, <3>1, <4>2 DEF Reached, Data
    <3> QED
      BY <3>2, <3>3
  <2> QED
    BY <1>2, <2>1, <2>2
<1>15. AllKept'
  <2> SUFFICES ASSUME NEW a \in Acks, NEW i \in listening PROVE Kept(a, i)'
    BY <1>5 DEF AllKept
  <2>1. Kept(a, i) /\ a.file \in File /\ i \in Server
    BY <1>10, <1>11 DEF FilesKept, AllKept, Acks
  <2>2. CASE i = j.srv /\ a.file = j.file
    <3>1. a.version < NewVersion(j) /\ a.version \in Nat
      BY <1>11, <1>12, <2>2 DEF Acks
    <3>2. versions'[i][a.file] > a.version
      BY <1>7, <1>8, <2>2, <3>1
    <3> QED
      BY <3>2 DEF Kept
  <2>3. CASE ~(i = j.srv /\ a.file = j.file)
    <3>1. versions'[i][a.file] = versions[i][a.file]
      BY <1>7, <2>1, <2>3
    <3>2. \A x \in jobs : x # j => x \in jobs'
      BY <1>2
    <3> QED
      BY <1>4, <2>1, <2>3, <3>1, <3>2 DEF Kept, Data
  <2> QED
    BY <2>2, <2>3
<1> QED
  BY <1>5, <1>13, <1>14, <1>15 DEF FilesKept

\* When a job has called a backup: it is down, or has what the job wrote
LEMMA KeepReplicate ==
    ASSUME FilesInv, FilesKept, NEW j \in jobs, NEW k \in JobRecord, NEW p \in Server,
           j.pc = "replicate", jobs' = (jobs \ {j}) \cup {k},
           k.srv = j.srv, k.client = j.client, k.seq = j.seq, k.op = j.op, k.file = j.file,
           k.pc = "replicate", k.version = j.version, k.todo = j.todo \ {p},
           p \in listening => Replicate(p, j),
           p \notin listening => UNCHANGED <<disk, versions>>,
           UNCHANGED <<listening, role, client, acked, overlapped, astray>>
    PROVE  FilesKept'
<1>1. /\ j \in JobRecord /\ j.srv \in Server /\ j.file \in File /\ j.version \in Nat
      /\ j.op \in {"create", "close"}
  BY CallFieldTypes DEF FilesInv
<1>3. Active(j) /\ Active(k)
  BY DEF Active
<1>5. /\ JobsLead' /\ JobsAlone' /\ JobsOfCalls' /\ FreshFiles'
      /\ Acks' = Acks /\ Data(k) = Data(j)
  BY <1>3, KeepMoves
<1>6. disk \in [Server -> [File -> Content]] /\ versions \in [Server -> [File -> Nat]]
  BY DEF FilesInv, FileTypes
<1>7. \A i \in Server : \A f \in File : ~(i = p /\ f = j.file) =>
        disk'[i][f] = disk[i][f] /\ versions'[i][f] = versions[i][f]
  BY <1>1, <1>6 DEF Replicate
<1>8. p \in listening =>
        /\ versions'[p][j.file] = j.version
        /\ \/ disk'[p][j.file] = Data(j)
           \/ /\ j.op = "create" /\ disk[p][j.file] # Absent
              /\ disk'[p][j.file] = disk[p][j.file]
  BY <1>1, <1>6 DEF Replicate
<1>9. p \notin listening => \A f \in File :
        disk'[p][f] = disk[p][f] /\ versions'[p][f] = versions[p][f]
  OBVIOUS
<1> HIDE DEF Replicate
<1>10. Data(j) # Absent
  BY <1>1, DataIsContent
<1>11. \A x \in jobs : x.file \in File /\ x.srv \in Server
  BY CallFieldTypes DEF FilesInv
<1>12. listening \subseteq Server
  BY RoleTypes DEF FilesInv, RolesInv
<1>13. \A a \in acked : a.file \in File /\ a.version \in Nat
  BY DEF FilesInv, FileTypes
<1>14. \A i \in Server : \A f \in File :
         disk'[i][f] = disk[i][f] \/ disk'[i][f] = Data(j)
  BY <1>1, <1>7, <1>8, <1>9
<1>15. Existing'
  <2>1. p \in listening => disk'[p][j.file] # Absent
    BY <1>8, <1>10
  <2>2. \A i \in listening' : \A f \in File : versions'[i][f] > 0 => disk'[i][f] # Absent
    BY <1>7, <1>12, <2>1 DEF FilesKept, Existing
  <2>3. \A x \in jobs' : x.pc \in {"version", "replicate"} => disk'[x.srv][x.file] # Absent
    <3> SUFFICES ASSUME NEW x \in jobs', x.pc \in {"version", "replicate"}
                 PROVE  disk'[x.srv][x.file] # Absent
      OBVIOUS
    <3>1. disk[x.srv][x.file] # Absent /\ x.srv \in Server /\ x.file \in File
      BY <1>1, <1>11 DEF FilesKept, Existing
    <3> QED
      BY <1>10, <1>14, <3>1
  <2>4. \A x \in jobs' : x.pc = "store" => x.version = 0
    BY DEF FilesKept, Existing
  <2> QED
    BY <1>5, <2>2, <2>3, <2>4 DEF FilesKept, Existing
<1>16. Spread'
  <2> SUFFICES ASSUME NEW x \in jobs', x.op = "close", x.file \notin overlapped'
               PROVE  Reached(x)'
    BY DEF Spread
  <2>1. CASE x = k
    <3>1. Reached(j)
      BY <2>1 DEF FilesKept, Spread
    <3>2. /\ j.version > 0
          /\ \A i \in listening \ j.todo :
                versions[i][j.file] = j.version /\ disk[i][j.file] = Data(j)
          /\ \A a \in Acks : a.file = j.file => a.version < j.version
      BY <3>1 DEF Reached
    <3>3. ASSUME NEW i \in listening \ k.todo
          PROVE  versions'[i][j.file] = j.version /\ disk'[i][j.file] = Data(j)
      <4>1. CASE i = p
        BY <1>8, <2>1, <3>3, <4>1
      <4>2. CASE i # p
        <5>1. i \in listening \ j.todo /\ i \in Server
          BY <1>12, <3>3, <4>2
        <5> QED
          BY <1>1, <1>7, <3>2, <4>2, <5>1
      <4> QED
        BY <4>1, <4>2
    <3> QED
      BY <1>5, <2>1, <3>2, <3>3 DEF Reached, Data
  <2>2. CASE x \in jobs /\ x # j
    <3>1. Reached(x)
      BY <2>2 DEF FilesKept, Spread
    <3>2. CASE ~Active(x)
      BY <3>2 DEF Active, Reached
    <3>3. CASE Active(x)
      <4>1. x.file # j.file
        BY <1>3, <2>2, <3>3, OtherFiles
      <4>2. \A i \in Server : /\ versions'[i][x.file] = versions[i][x.file]
                              /\ disk'[i][x.file] = disk[i][x.file]
        BY <1>7, <1>11, <2>2, <4>1
      <4> QED
        BY <1>5, <1>11, <1>12, <2>2, <3>1, <4>2 DEF Reached, Data
    <3> QED
      BY <3>2, <3>3
  <2> QED
    BY <2>1, <2>2
<1>17. AllKept'
  <2> SUFFICES ASSUME NEW a \in Acks, NEW i \in listening PROVE Kept(a, i)'
    BY <1>5 DEF AllKept
  <2>1. /\ Kept(a, i) /\ a.file \in File /\ i \in Server /\ a.version \in Nat
        /\ a.file \notin overlapped
    BY <1>12, <1>13 DEF FilesKept, AllKept, Acks
  <2>2. CASE i = p /\ a.file = j.file
    <3>1. j.op = "close"
      BY <1>1, <1>3, <2>2 DEF FilesKept, FreshFiles
    <3>2. Reached(j)
      BY <2>1, <2>2, <3>1 DEF FilesKept, Spread
    <3>3. a.version < j.version
      BY <2>2, <3>2 DEF Reached
    <3>4. versions'[i][a.file] > a.version
      BY <1>1, <1>8, <2>1, <2>2, <3>3
    <3> QED
      BY <3>4 DEF Kept
  <2>3. CASE ~(i = p /\ a.file = j.file)
    <3>1. versions'[i][a.file] = versions[i][a.file] /\ disk'[i][a.file] = disk[i][a.file]
      BY <1>7, <2>1, <2>3
    <3>2. \A x \in jobs : x.pc = "version" => x \in jobs'
      OBVIOUS
    <3> QED
      BY <2>1, <3>1, <3>2 DEF Kept, Data
  <2> QED
    BY <2>2, <2>3
<1> QED
  BY <1>5, <1>15, <1>16, <1>17 DEF FilesKept

\* When a job ends, and its client is told of its write
LEMMA KeepStore ==
    ASSUME FilesInv, FilesKept, CallsQuiet, NEW j \in jobs, JobStore(j),
           UNCHANGED <<listening, role>>
    PROVE  FilesKept'
<1> DEFINE version == IF j.op = "close" THEN j.version ELSE 0
           new == [file |-> client[j.client].file, version |-> version,
                   data |-> [client |-> j.client, seq |-> j.seq], of |-> j.seq]
<1>1. /\ j \in JobRecord /\ j.file \in File /\ j.client \in Client /\ j.version \in Nat
      /\ j.op \in {"create", "close"} /\ j.waited
  BY CallFieldTypes DEF FilesInv, CallsQuiet
<1>2. /\ jobs' = jobs \ {j}
      /\ UNCHANGED <<disk, versions, overlapped, astray>>
      /\ j.pc = "store" \/ (j.pc = "replicate" /\ j.todo = {})
  BY DEF JobStore
<1>3. \A x \in jobs' : client'[x.client] = client[x.client]
  <2>1. \A x \in jobs' : x.client # j.client /\ x.client \in Client
    BY <1>1, <1>2, CallFieldTypes DEF FilesInv, CallInv, WaitInv, CallsQuiet
  <2>2. client \in [Client -> ClientRecord]
    BY DEF FilesInv, CallInv, CallTypes
  <2>3. client' = [client EXCEPT ![j.client] = Returned(j.client, NoHandle)]
    BY <1>1 DEF JobStore, Answer
  <2> QED
    BY <2>1, <2>2, <2>3
<1>4. \/ acked' = acked
      \/ acked' = acked \cup {new} /\ j.op = "close" /\ client[j.client].mode = "w"
  <2>1. client[j.client].op = j.op
    BY <1>1 DEF FilesInv, CallInv, WaitInv, Asks
  <2> QED
    BY <1>1, <2>1 DEF JobStore, Confirm, ClosesWrite
<1>5. new.file = client[j.client].file /\ (j.op = "close" => new.version = j.version)
  OBVIOUS
<1>6. j.op = "close" => new.data = Data(j)
  BY DEF Data
<1> HIDE DEF new
<1>7. \A a \in acked : a.file \in File /\ a.version \in Nat
  BY DEF FilesInv, FileTypes
<1>8. ASSUME NEW a \in Acks', a \notin Acks
      PROVE  /\ a = new /\ j.op = "close" /\ j.pc = "replicate" /\ j.todo = {}
             /\ a.file = j.file /\ a.version = j.version /\ a.data = Data(j) /\ a.version > 0
             /\ a.file \notin overlapped
  <2>1. /\ a = new /\ j.op = "close" /\ client[j.client].mode = "w"
        /\ a.file \notin overlapped /\ a.data \notin astray
    BY <1>2, <1>4, <1>8 DEF Acks
  <2>2. j.file = client[j.client].file /\ j.pc # "store"
    BY <1>6, <2>1 DEF FilesKept, JobsOfCalls, Fits, Active
  <2>3. j.pc = "replicate" /\ j.todo = {} /\ a.file = j.file
    BY <1>2, <1>5, <2>1, <2>2
  <2>4. j.version > 0
    BY <2>1, <2>3 DEF FilesKept, Spread, Reached
  <2> QED
    BY <1>5, <1>6, <2>1, <2>3, <2>4
<1>9. JobsLead' /\ JobsAlone'
  BY <1>2 DEF FilesKept, JobsLead, JobsAlone, Active
<1>10. JobsOfCalls'
  BY <1>2, <1>3 DEF FilesKept, JobsOfCalls, Fits, Active, Data
<1>11. Existing'
  BY <1>2, <1>8 DEF FilesKept, Existing
<1>12. ASSUME NEW x \in jobs', Active(x), x.file \notin overlapped, NEW a \in Acks', a \notin Acks
       PROVE  a.file # x.file
  <2>1. Active(j) /\ x \in jobs /\ x # j /\ a.file = j.file
    BY <1>2, <1>8, <1>12 DEF Active
  <2> QED
    BY <1>12, <2>1, OtherFiles
<1>13. Spread'
  <2> SUFFICES ASSUME NEW x \in jobs', x.op = "close", x.file \notin overlapped'
               PROVE  Reached(x)'
    BY DEF Spread
  <2>1. Reached(x)
    BY <1>2 DEF FilesKept, Spread
  <2>2. x.pc = "replicate" => \A a \in Acks' : a.file = x.file => a.version < x.version
    <3> SUFFICES ASSUME x.pc = "replicate", NEW a \in Acks', a.file = x.file
                 PROVE  a.version < x.version
      OBVIOUS
    <3>1. a \in Acks
      BY <1>2, <1>12 DEF Active
    <3> QED
      BY <2>1, <3>1 DEF Reached
  <2> QED
    BY <1>2, <2>1, <2>2 DEF Reached, Data
<1>14. FreshFiles'
  <2> SUFFICES ASSUME NEW x \in jobs', Active(x), x.op = "create", NEW a \in Acks',
                      a.file = x.file
               PROVE  FALSE
    BY DEF FreshFiles, Active
  <2>1. CASE a \in Acks
    BY <1>2, <2>1 DEF FilesKept, FreshFiles
  <2>2. CASE a \notin Acks
    <3>1. x.file \notin overlapped
      BY <1>8, <2>2
    <3> QED
      BY <1>12, <2>2, <3>1
  <2> QED
    BY <2>1, <2>2
<1>15. AllKept'
  <2> SUFFICES ASSUME NEW a \in Acks', NEW i \in listening PROVE Kept(a, i)'
    BY DEF AllKept
  <2>1. CASE a \in Acks
    <3>1. Kept(a, i)
      BY <2>1 DEF FilesKept, AllKept
    <3>2. \A x \in jobs : x.pc = "version" => x \in jobs'
      BY <1>2
    <3> QED
      BY <1>2, <3>1, <3>2 DEF Kept, Data
  <2>2. CASE a \notin Acks
    <3>1. /\ j.op = "close" /\ j.pc = "replicate" /\ j.todo = {}
          /\ a.file = j.file /\ a.version = j.version /\ a.data = Data(j)
          /\ a.file \notin overlapped
      BY <1>8, <2>2
    <3>2. Reached(j)
      BY <3>1 DEF FilesKept, Spread
    <3>3. versions[i][j.file] = j.version /\ disk[i][j.file] = Data(j)
      BY <3>1, <3>2 DEF Reached
    <3> QED
      BY <1>2, <3>1, <3>3 DEF Kept
  <2> QED
    BY <2>1, <2>2
<1> QED
  BY <1>9, <1>10, <1>11, <1>13, <1>14, <1>15 DEF FilesKept

\* When a client's call changes, and the others stay as they are
LEMMA CallsClient ==
    ASSUME FilesInv, CallsQuiet, NEW c \in Client, NEW n, client' = [client EXCEPT ![c] = n],
           n.op = "create" => n.mode = "w",
           n.op \in {"create", "close"} => \A i \in listening : dedup'[i][c].seq < n.seq,
           \A i \in listening : \A d \in Client : d # c => dedup'[i][d] = dedup[i][d],
           \A r \in requests' : r.waited /\ (r.op = "create" => r.mode = "w"),
           \A j \in jobs' : j.waited,
           UNCHANGED <<late, listening>>
    PROVE  CallsQuiet'
<1>1. client'[c] = n /\ \A d \in Client : d # c => client'[d] = client[d]
  BY DEF FilesInv, CallInv, CallTypes
<1>2. \A d \in Client : client'[d].op = "create" => client'[d].mode = "w"
  BY <1>1 DEF CallsQuiet
<1>3. ASSUME NEW d \in Client, client'[d].op \in {"create", "close"}, NEW i \in listening
      PROVE  dedup'[i][d].seq < client'[d].seq
  <2>1. CASE d = c
    BY <1>1, <1>3, <2>1
  <2>2. CASE d # c
    BY <1>1, <1>3, <2>2 DEF CallsQuiet
  <2> QED
    BY <2>1, <2>2
<1> QED
  BY <1>2, <1>3 DEF CallsQuiet

\* When no client's call changes
LEMMA CallsStay ==
    ASSUME CallsQuiet, late' \subseteq late, listening' \subseteq listening,
           \A r \in requests' : r \in requests,
           \A j \in jobs' : j.waited,
           UNCHANGED <<client, dedup>>
    PROVE  CallsQuiet'
BY DEF CallsQuiet

\* A client whose request or job is under way waits for nothing else
LEMMA OneCall ==
    ASSUME FilesInv, CallsQuiet
    PROVE  /\ \A j \in jobs : j.client \in Client /\ client[j.client].pc = "wait"
           /\ \A j, k \in jobs : j.client = k.client => j = k
           /\ \A r \in requests : \A j \in jobs : r.client # j.client
BY CallFieldTypes DEF FilesInv, CallInv, WaitInv, CallsQuiet, Asks

\* No answer comes from the cache
LEMMA NoneCached ==
    ASSUME FilesInv, CallsQuiet, NEW r \in requests
    PROVE  ~AnswerFromCache(r)
<1> SUFFICES ASSUME AnswerFromCache(r) PROVE FALSE
  OBVIOUS
<1>1. /\ r.client \in Client /\ r.to \in Server /\ r.seq \in Nat
      /\ r.op \in {"create", "open", "close"} /\ client[r.client].seq \in Nat
  BY CallFieldTypes DEF FilesInv
<1>2. r.op # "open" /\ r.to \in listening /\ dedup[r.to][r.client].seq >= r.seq
  BY DEF AnswerFromCache, Served, Cached
<1>3. client[r.client].op = r.op /\ client[r.client].seq = r.seq
  BY DEF FilesInv, CallInv, WaitInv, CallsQuiet, Asks
<1>4. dedup[r.to][r.client].seq < client[r.client].seq
  BY <1>1, <1>2, <1>3 DEF CallsQuiet
<1>5. dedup[r.to][r.client].seq \in 0..MaxOps
  BY <1>1 DEF FilesInv, CallInv, CallTypes
<1>6. dedup[r.to][r.client].seq \in Nat
  BY <1>5, FilesAssumption
<1> QED
  BY <1>1, <1>2, <1>3, <1>4, <1>6

\* KeepBody, when a server takes a step
LEMMA KeepServer ==
    ASSUME FilesInv, FilesInv', JobsLive', KeepBody,
           restarts = 0, faults = 0, restarts' = 0, faults' = 0,
           NEW i \in Server, ServerStep(i)
    PROVE  KeepBody'
<1>1. /\ RoleStep(i) \/ EndServerElection(i) \/ CrashServer(i)
      /\ listening' \subseteq listening
      /\ \A p \in listening' : role[p] = "primary" => role'[p] = "primary"
      /\ VotersAreBackups'
  BY QuietServer DEF KeepBody
<1>a. FilesKept /\ CallsQuiet /\ listening \subseteq Server
  BY RoleTypes DEF KeepBody, FilesInv, RolesInv
<1>b. disk \in [Server -> [File -> Content]] /\ versions \in [Server -> [File -> Nat]]
  BY DEF FilesInv, FileTypes
<1>2. /\ UNCHANGED <<client, dedup, acked, overlapped, astray>>
      /\ jobs' \subseteq jobs /\ requests' \subseteq requests /\ late' \subseteq late
  BY <1>1 DEF RoleStep, EndServerElection, CrashServer, fileVars, rpcVars, history
<1>3. CallsQuiet'
  BY <1>1, <1>2, <1>a, CallsStay DEF CallsQuiet
<1>4. \A j \in jobs' : j.srv \in listening' /\ client'[j.client] = client[j.client]
  BY <1>2 DEF JobsLive
<1>5. ASSUME \A j \in jobs : j.srv \in listening' => j \in jobs',
             \A p \in listening' : \A f \in File :
               /\ disk'[p][f] = disk[p][f]
               /\ \/ versions'[p][f] = versions[p][f]
                  \/ versions[p][f] = 0 /\ disk[p][f] # Absent /\ versions'[p][f] = 1
      PROVE  FilesKept'
  BY <1>1, <1>2, <1>4, <1>5, <1>a, KeepFrame
<1>6. CASE RoleStep(i)
  <2>1. UNCHANGED <<jobs, disk, versions>>
    BY <1>6 DEF RoleStep, fileVars, rpcVars
  <2> QED
    BY <1>1, <1>3, <1>5, <2>1 DEF KeepBody
<1>7. CASE CrashServer(i)
  <2>1. listening' = listening \ {i} /\ jobs' = {j \in jobs : j.srv # i} /\ UNCHANGED versions
    BY <1>7 DEF CrashServer, Crash
  <2>2. \A p \in Server : p # i => disk'[p] = disk[p]
    BY <1>7, <1>b DEF CrashServer
  <2> QED
    BY <1>1, <1>3, <1>5, <1>a, <2>1, <2>2 DEF KeepBody
<1>8. CASE EndServerElection(i)
  <2>1. UNCHANGED <<jobs, disk>> /\ (Load(i) \/ UNCHANGED versions)
    BY <1>8 DEF EndServerElection, rpcVars
  <2>2. \A p \in Server : \A f \in File :
               \/ versions'[p][f] = versions[p][f]
               \/ versions[p][f] = 0 /\ disk[p][f] # Absent /\ versions'[p][f] = 1
    BY <1>b, <2>1 DEF Load
  <2> QED
    BY <1>1, <1>3, <1>5, <1>a, <2>1, <2>2 DEF KeepBody
<1> QED
  BY <1>1, <1>6, <1>7, <1>8

\* ... when a client takes a step: none gives up a call that is under way
LEMMA KeepClient ==
    ASSUME FilesInv, FilesInv', OnceInv, KeepBody, faults = 0, faults' = 0,
           NEW c \in Client, ClientStep(c)
    PROVE  KeepBody'
<1>a. FilesKept /\ CallsQuiet /\ VotersAreBackups /\ JobsLive
  BY DEF KeepBody, OnceInv
<1>b. client \in [Client -> ClientRecord] /\ client[c] \in ClientRecord /\ client[c].seq \in Nat
  BY CallFieldTypes DEF FilesInv, CallInv, CallTypes
<1>c. \A i \in listening : dedup[i][c].seq <= client[c].seq /\ dedup[i][c].seq \in Nat
  <2>1. listening \subseteq Server
    BY RoleTypes DEF FilesInv, RolesInv
  <2>2. \A i \in Server : dedup[i][c].seq <= client[c].seq /\ dedup[i][c].seq \in 0..MaxOps
    BY DEF FilesInv, CallInv, CallTypes, WaitInv
  <2> QED
    BY <2>1, <2>2, FilesAssumption
<1>1. UNCHANGED <<role, listening, task, disk, versions, dedup, late, acked, overlapped, astray>>
  BY DEF ClientStep, fileVars, rpcVars, roleVars, threadVars, history, Send, GiveUp, Timeout
<1>2. VotersAreBackups'
  BY <1>1, <1>a DEF VotersAreBackups
<1>3. ASSUME jobs' = jobs, CallsQuiet', \A j \in jobs : j.client # c,
             \A d \in Client : d # c => client'[d] = client[d]
      PROVE  KeepBody'
  <2>1. \A j \in jobs' : j.srv \in listening' /\ client'[j.client] = client[j.client]
    BY <1>1, <1>3, <1>a, OneCall DEF JobsLive
  <2>2. FilesKept'
    BY <1>1, <1>3, <1>a, <2>1, KeepFrame
  <2> QED
    BY <1>2, <1>3, <2>2 DEF KeepBody
<1>4. client[c].pc # "wait" => \A j \in jobs : j.client # c
  BY <1>a, OneCall
<1>5. ASSUME NEW n, client' = [client EXCEPT ![c] = n], jobs' = jobs,
             \A j \in jobs : j.client # c,
             n.op = "create" => n.mode = "w",
             n.op \in {"create", "close"} =>
                \/ n.seq = client[c].seq + 1
                \/ client[c].op = n.op /\ n.seq = client[c].seq,
             \A r \in requests' : r.waited /\ (r.op = "create" => r.mode = "w")
      PROVE  KeepBody'
  <2>1. n.op \in {"create", "close"} => \A i \in listening : dedup'[i][c].seq < n.seq
    BY <1>1, <1>5, <1>a, <1>b, <1>c DEF CallsQuiet
  <2>2. CallsQuiet'
    BY <1>1, <1>5, <1>a, <2>1, CallsClient DEF CallsQuiet
  <2>3. \A d \in Client : d # c => client'[d] = client[d]
    BY <1>5, <1>b
  <2> QED
    BY <1>3, <1>5, <2>2, <2>3
<1>6. ASSUME NEW op, NEW f, NEW mode, NEW handle, NEW seq, Call(c, op, f, mode, handle, seq),
             client[c].pc = "rest", UNCHANGED rpcVars,
             op = "create" => mode = "w",
             op # "open" => seq = client[c].seq + 1
      PROVE  KeepBody'
  <2> DEFINE n == [pc |-> "send", addr |-> client[c].addr, seq |-> seq, held |-> NoHandle,
                   attempt |-> 0, op |-> op, file |-> f, mode |-> mode, handle |-> handle]
  <2>1. client' = [client EXCEPT ![c] = n]
    BY <1>6 DEF Call
  <2>2. n.op = op /\ n.mode = mode /\ n.seq = seq
    OBVIOUS
  <2> HIDE DEF n
  <2>3. UNCHANGED <<requests, jobs>>
    BY <1>6 DEF rpcVars
  <2>4. \A r \in requests' : r.waited /\ (r.op = "create" => r.mode = "w")
    BY <1>a, <2>3 DEF CallsQuiet
  <2> QED
    BY <1>4, <1>5, <1>6, <2>1, <2>2, <2>3, <2>4
<1>7. CASE /\ \/ \E f \in File : ClientCreate(c, f)
              \/ \E f \in File, mode \in {"r", "w"} : ClientOpen(c, f, mode)
              \/ ClientClose(c)
           /\ UNCHANGED rpcVars
  <2>1. CASE \E f \in File : ClientCreate(c, f)
    BY <1>6, <1>7, <2>1 DEF ClientCreate
  <2>2. CASE \E f \in File, mode \in {"r", "w"} : ClientOpen(c, f, mode)
    BY <1>6, <1>7, <2>2 DEF ClientOpen
  <2>3. CASE ClientClose(c)
    BY <1>6, <1>7, <2>3 DEF ClientClose
  <2> QED
    BY <1>7, <2>1, <2>2, <2>3
<1>8. CASE Send(c)
  <2> DEFINE n == [client[c] EXCEPT !.pc = "wait"]
             q == [client |-> c, to |-> client[c].addr, seq |-> client[c].seq,
                   op |-> client[c].op, file |-> client[c].file, mode |-> client[c].mode,
                   handle |-> client[c].handle, waited |-> TRUE]
  <2>1. client' = [client EXCEPT ![c] = n] /\ requests' = requests \cup {q}
    BY <1>8, <1>b DEF Send
  <2>2. n.seq = client[c].seq /\ n.op = client[c].op /\ n.mode = client[c].mode
    BY <1>b DEF ClientRecord
  <2>3. q.waited /\ q.op = client[c].op /\ q.mode = client[c].mode
    OBVIOUS
  <2> HIDE DEF n, q
  <2>4. client[c].op = "create" => client[c].mode = "w"
    BY <1>a DEF CallsQuiet
  <2>5. \A r \in requests' : r.waited /\ (r.op = "create" => r.mode = "w")
    BY <1>a, <2>1, <2>3, <2>4 DEF CallsQuiet
  <2>6. jobs' = jobs /\ \A j \in jobs : j.client # c
    BY <1>4, <1>8 DEF Send
  <2> QED
    BY <1>5, <2>1, <2>2, <2>4, <2>5, <2>6
<1>9. CASE GiveUp(c)
  <2> DEFINE n == Resting(client[c].addr, client[c].seq, NoHandle)
  <2>1. client' = [client EXCEPT ![c] = n] /\ UNCHANGED <<requests, jobs>>
    BY <1>9, <1>b DEF GiveUp, rpcVars
  <2>2. n.op = "none"
    BY DEF Resting
  <2> HIDE DEF n
  <2>3. \A r \in requests' : r.waited /\ (r.op = "create" => r.mode = "w")
    BY <1>a, <2>1 DEF CallsQuiet
  <2>4. \A j \in jobs : j.client # c
    BY <1>4, <1>9 DEF GiveUp
  <2> QED
    BY <1>5, <2>1, <2>2, <2>3, <2>4
<1>10. CASE Timeout(c)
  <2> DEFINE n == [client[c] EXCEPT !.pc = "send", !.attempt = @ + 1,
                                    !.addr = IF client[c].attempt < MaxRetries
                                             THEN Discovered ELSE @]
             S == {r \in requests : r.client = c => r.to \in listening}
  <2>1. client' = [client EXCEPT ![c] = n]
    BY <1>10, <1>b DEF Timeout
  <2>2. n.seq = client[c].seq /\ n.op = client[c].op /\ n.mode = client[c].mode
    BY <1>b DEF ClientRecord
  <2> HIDE DEF n
  <2>3. ~Underway(c)
    BY <1>10 DEF Timeout
  <2>4. \A j \in jobs : j.client # c
    BY <1>a, <2>3 DEF Underway, CallsQuiet
  <2>5. \A r \in S : r \in requests /\ r.client # c
    BY <1>a, <2>3 DEF Underway, CallsQuiet
  <2>6. jobs' = Abandon(c, jobs) /\ requests' = Abandon(c, S)
    BY <1>10 DEF Timeout
  <2> HIDE DEF S
  <2>7. jobs' = jobs
    BY <2>4, <2>6 DEF Abandon
  <2>8. \A r \in requests' : r \in requests
    BY <2>5, <2>6 DEF Abandon
  <2>9. \A r \in requests' : r.waited /\ (r.op = "create" => r.mode = "w")
    BY <1>a, <2>8 DEF CallsQuiet
  <2>10. client[c].op = "create" => client[c].mode = "w"
    BY <1>a DEF CallsQuiet
  <2> QED
    BY <1>5, <2>1, <2>2, <2>4, <2>7, <2>9, <2>10
<1> QED
  BY <1>7, <1>8, <1>9, <1>10 DEF ClientStep

\* ... when a handler runs
LEMMA KeepRequest ==
    ASSUME FilesInv, OnceInv, KeepBody, NEW r \in requests, RequestStep(r)
    PROVE  KeepBody'
<1>a. FilesKept /\ CallsQuiet /\ VotersAreBackups /\ JobsLive
  BY DEF KeepBody, OnceInv
<1>b. /\ r \in Request /\ r.client \in Client /\ r.to \in Server /\ r.file \in File
      /\ r.waited /\ (r.op = "create" => r.mode = "w") /\ r.op \in {"create", "open", "close"}
      /\ r.op # "open" => r.seq > 0
  BY <1>a, CallFieldTypes DEF FilesInv, CallInv, WaitInv, CallsQuiet
<1>c. client \in [Client -> ClientRecord] /\ client[r.client] \in ClientRecord
  BY <1>b DEF FilesInv, CallInv, CallTypes
<1>d. \A j \in jobs : j.client # r.client
  BY <1>a, OneCall
<1>e. versions \in [Server -> [File -> Nat]]
  BY DEF FilesInv, FileTypes
<1>1. UNCHANGED <<role, listening, task>>
  BY DEF RequestStep, roleVars, threadVars
<1>2. VotersAreBackups'
  BY <1>1, <1>a DEF VotersAreBackups
<1>3. UNCHANGED <<disk, dedup, late, acked>> /\ requests' = requests \ {r} /\ r.to \in listening
  BY <1>a, NoneCached DEF RequestStep, Redirect, HandleCreate, HandleOpen, HandleClose,
     Admitted, Served, fileVars, history
<1>4. \A q \in requests' : q.waited /\ (q.op = "create" => q.mode = "w")
  BY <1>3, <1>a DEF CallsQuiet
<1>5. ASSUME UNCHANGED <<jobs, overlapped, astray>>, NEW n, Answer(r, n),
             n.op = "create" => n.mode = "w",
             n.op \in {"create", "close"} =>
                client[r.client].op = n.op /\ n.seq = client[r.client].seq,
             \A i \in listening' : \A f \in File :
                \/ versions'[i][f] = versions[i][f]
                \/ versions[i][f] = 0 /\ disk[i][f] # Absent /\ versions'[i][f] = 1
      PROVE  KeepBody'
  <2>1. client' = [client EXCEPT ![r.client] = n]
    BY <1>5, <1>b DEF Answer
  <2>2. \A d \in Client : d # r.client => client'[d] = client[d]
    BY <2>1, <1>c
  <2>3. n.op \in {"create", "close"} => \A i \in listening : dedup'[i][r.client].seq < n.seq
    BY <1>3, <1>5, <1>a, <1>b DEF CallsQuiet
  <2>4. CallsQuiet'
    BY <1>1, <1>3, <1>4, <1>5, <1>a, <1>b, <2>1, <2>3, CallsClient DEF CallsQuiet
  <2>5. \A j \in jobs' : j.srv \in listening' /\ client'[j.client] = client[j.client]
    BY <1>1, <1>5, <1>a, <1>d, <2>2, OneCall DEF JobsLive
  <2>6. FilesKept'
    BY <1>1, <1>3, <1>5, <1>a, <2>5, KeepFrame
  <2> QED
    BY <1>2, <2>4, <2>6 DEF KeepBody
<1>6. ASSUME UNCHANGED <<jobs, overlapped, astray, versions>>, Answer(r, Raised(r.client))
      PROVE  KeepBody'
  <2> DEFINE n == Raised(r.client)
  <2>1. n.op = "none"
    BY DEF Raised, Resting
  <2>2. Answer(r, n) /\ UNCHANGED <<jobs, overlapped, astray, versions>>
    BY <1>6
  <2> HIDE DEF n
  <2>3. (n.op = "create" => n.mode = "w") /\ n.op \notin {"create", "close"}
    BY <2>1
  <2>4. \A i \in listening' : \A f \in File :
                \/ versions'[i][f] = versions[i][f]
                \/ versions[i][f] = 0 /\ disk[i][f] # Absent /\ versions'[i][f] = 1
    BY <2>2
  <2> QED
    BY <1>5, <2>2, <2>3, <2>4
<1>7. ASSUME NEW f \in File, NEW pc \in {"write", "store"}, Begin(Job(r, f, pc)),
             UNCHANGED <<client, versions>>, astray \subseteq astray',
             r.op \in {"create", "close"},
             pc = "write" => role[r.to] = "primary",
             r.op = "create" => disk[r.to][f] = Absent,
             r.op = "close" => \/ f = r.file /\ (r.mode = "w" => pc = "write")
                               \/ [client |-> r.client, seq |-> r.seq] \in astray'
      PROVE  KeepBody'
  <2> DEFINE j == Job(r, f, pc)
  <2>0. pc \in {"write", "version", "replicate", "store"} /\ r.seq > 0
    BY <1>7, <1>b
  <2>1. /\ j \in JobRecord /\ j.srv = r.to /\ j.client = r.client /\ j.seq = r.seq
        /\ j.op = r.op /\ j.file = f /\ j.pc = pc /\ j.waited = r.waited
    <3>1. r \in Request /\ f \in File /\ r.op \in {"create", "close"}
      BY <1>7, <1>b
    <3>2. /\ Job(r, f, pc) \in JobRecord
          /\ Job(r, f, pc).srv = r.to /\ Job(r, f, pc).client = r.client
          /\ Job(r, f, pc).seq = r.seq /\ Job(r, f, pc).op = r.op
          /\ Job(r, f, pc).file = f /\ Job(r, f, pc).pc = pc
          /\ Job(r, f, pc).waited = r.waited
      BY <2>0, <3>1, JobFacts
    <3> QED
      BY <3>2
  <2>2. j.version = 0
    BY DEF Job
  <2>3. Begin(j)
    BY <1>7
  <2> HIDE DEF j
  <2>4. r.file = client[r.client].file /\ r.mode = client[r.client].mode
    BY <1>b DEF FilesInv, CallInv, WaitInv
  <2>5. j.op = "close" => Fits(j) \/ Data(j) \in astray'
    BY <1>7, <2>1, <2>4 DEF Fits, Active, Data
  <2>6. FilesKept'
    BY <1>1, <1>3, <1>7, <1>a, <2>1, <2>2, <2>3, <2>5, KeepBegin
  <2>7. jobs' = jobs \cup {j}
    BY <2>3 DEF Begin
  <2>8. CallsQuiet'
    BY <1>1, <1>3, <1>7, <1>a, <1>b, <2>1, <2>7, CallsStay DEF CallsQuiet
  <2> QED
    BY <1>2, <2>6, <2>8 DEF KeepBody
<1>8. CASE Redirect(r)
  <2> DEFINE n == [client[r.client] EXCEPT !.pc = "send", !.attempt = @ + 1,
                                           !.addr = primaryAddr[r.to]]
  <2>1. Answer(r, n) /\ UNCHANGED <<jobs, overlapped, astray, versions>>
    BY <1>8 DEF Redirect, fileVars, history
  <2>2. /\ n.seq = client[r.client].seq /\ n.op = client[r.client].op
        /\ n.mode = client[r.client].mode
    BY <1>c DEF ClientRecord
  <2> HIDE DEF n
  <2>3. n.op = "create" => n.mode = "w"
    BY <1>a, <1>b, <2>2 DEF CallsQuiet
  <2> QED
    BY <1>5, <2>1, <2>2, <2>3
<1>9. CASE HandleCreate(r)
  <2>1. r.op = "create" /\ role[r.to] = "primary" /\ UNCHANGED <<versions, astray>>
    BY <1>9, <1>b DEF HandleCreate, Admitted, MustBePrimary, fileVars
  <2>2. CASE Answer(r, Raised(r.client)) /\ UNCHANGED <<jobs, overlapped>>
    BY <1>6, <2>1, <2>2
  <2>3. CASE /\ disk[r.to][r.file] = Absent
             /\ Begin(Job(r, r.file, "write")) /\ UNCHANGED client
    BY <1>7, <1>b, <2>1, <2>3
  <2> QED
    BY <1>9, <2>2, <2>3 DEF HandleCreate
<1>10. CASE HandleOpen(r)
  <2>1. UNCHANGED <<jobs, overlapped, astray>>
    BY <1>10 DEF HandleOpen, history
  <2>2. CASE Answer(r, Raised(r.client)) /\ UNCHANGED versions
    BY <1>6, <2>1, <2>2
  <2>3. CASE ~(Answer(r, Raised(r.client)) /\ UNCHANGED versions)
    <3>1. PICK h : Answer(r, Returned(r.client, h))
      BY <1>10, <2>3 DEF HandleOpen
    <3>2. Returned(r.client, h).op = "none"
      BY DEF Returned, Resting
    <3>3. versions' = IF disk[r.to][r.file] # Absent /\ versions[r.to][r.file] = 0
                      THEN [versions EXCEPT ![r.to][r.file] = 1] ELSE versions
      BY <1>10, <2>3 DEF HandleOpen
    <3>4. \A i \in Server : \A f \in File :
                \/ versions'[i][f] = versions[i][f]
                \/ versions[i][f] = 0 /\ disk[i][f] # Absent /\ versions'[i][f] = 1
      BY <1>b, <1>e, <3>3
    <3>5. listening' \subseteq Server
      BY <1>1, RoleTypes DEF FilesInv, RolesInv
    <3> QED
      BY <1>5, <2>1, <3>1, <3>2, <3>4, <3>5
  <2> QED
    BY <2>2, <2>3
<1>11. CASE HandleClose(r)
  <2>1. r.op = "close" /\ UNCHANGED versions
    BY <1>11 DEF HandleClose, Admitted
  <2>2. CASE Answer(r, Raised(r.client)) /\ UNCHANGED <<jobs, overlapped, astray>>
    BY <1>6, <2>1, <2>2
  <2>3. CASE \E h \in openFiles[r.to] :
            /\ h.handle = r.handle
            /\ Begin(Job(r, h.file, IF h.mode = "w" THEN "write" ELSE "store"))
            /\ astray' = IF h.file = r.file /\ h.mode = r.mode THEN astray
                         ELSE astray \cup {[client |-> r.client, seq |-> r.seq]}
            /\ UNCHANGED client
    <3>1. PICK h \in openFiles[r.to] :
            /\ h.handle = r.handle
            /\ Begin(Job(r, h.file, IF h.mode = "w" THEN "write" ELSE "store"))
            /\ astray' = IF h.file = r.file /\ h.mode = r.mode THEN astray
                         ELSE astray \cup {[client |-> r.client, seq |-> r.seq]}
            /\ UNCHANGED client
      BY <2>3
    <3>2. h.file \in File
      BY <1>b DEF FilesInv, FileTypes, Handle
    <3>3. PICK pc \in {"write", "store"} : pc = IF h.mode = "w" THEN "write" ELSE "store"
      OBVIOUS
    <3>4. Begin(Job(r, h.file, pc)) /\ astray \subseteq astray'
      BY <3>1, <3>3
    <3>5. pc = "write" => role[r.to] = "primary"
      BY <1>11, <3>1, <3>3 DEF HandleClose, Admitted, MustBePrimary
    <3>6. \/ h.file = r.file /\ (r.mode = "w" => pc = "write")
          \/ [client |-> r.client, seq |-> r.seq] \in astray'
      BY <3>1, <3>3
    <3> QED
      BY <1>7, <2>1, <3>1, <3>2, <3>4, <3>5, <3>6
  <2> QED
    BY <1>11, <2>2, <2>3 DEF HandleClose
<1> QED
  BY <1>8, <1>9, <1>10, <1>11, <1>a, NoneCached DEF RequestStep

\* ... when a job goes on
LEMMA KeepJob ==
    ASSUME FilesInv, OnceInv, KeepBody, restarts = 0, faults = 0, faults' = 0,
           NEW j \in jobs, JobStep(j)
    PROVE  KeepBody'
<1>a. FilesKept /\ CallsQuiet /\ VotersAreBackups /\ JobsLive
  BY DEF KeepBody, OnceInv
<1>b. /\ j \in JobRecord /\ j.client \in Client /\ j.srv \in Server /\ j.waited
      /\ j.srv \in listening /\ j.todo \in SUBSET Server
  BY <1>a, CallFieldTypes DEF FilesInv, CallsQuiet, JobsLive
<1>1. UNCHANGED <<role, listening, task>>
  BY DEF JobStep, roleVars, threadVars
<1>2. VotersAreBackups'
  BY <1>1, <1>a DEF VotersAreBackups
<1>3. ASSUME NEW k, jobs' = (jobs \ {j}) \cup {k}, k.waited = j.waited,
             UNCHANGED <<client, dedup, requests, late>>
      PROVE  CallsQuiet'
  BY <1>1, <1>3, <1>a, <1>b, CallsStay DEF CallsQuiet
<1>4. CASE JobWrite(j)
  <2>1. CallsQuiet'
    <3>1. \E k \in JobRecord : jobs' = (jobs \ {j}) \cup {k} /\ k.waited = j.waited
      BY <1>4, JobMoves DEF FilesInv
    <3>2. UNCHANGED <<client, dedup, requests, late>>
      BY <1>4 DEF JobWrite
    <3> QED
      BY <1>3, <3>1, <3>2
  <2> QED
    BY <1>1, <1>2, <1>4, <1>a, <1>b, <2>1, KeepWrite DEF KeepBody
<1>5. CASE JobVersion(j)
  <2>1. CallsQuiet'
    <3>1. \E k \in JobRecord : jobs' = (jobs \ {j}) \cup {k} /\ k.waited = j.waited
      BY <1>5, JobMoves DEF FilesInv
    <3>2. UNCHANGED <<client, dedup, requests, late>>
      BY <1>5 DEF JobVersion
    <3> QED
      BY <1>3, <3>1, <3>2
  <2> QED
    BY <1>1, <1>2, <1>5, <1>a, <1>b, <2>1, KeepVersion DEF KeepBody
<1>6. CASE JobReplicate(j)
  <2> DEFINE p == Lowest(j.todo)
  <2>1. PICK k \in JobRecord :
                /\ jobs' = (jobs \ {j}) \cup {k}
                /\ k.srv = j.srv /\ k.client = j.client /\ k.seq = j.seq /\ k.op = j.op
                /\ k.file = j.file /\ k.waited = j.waited
                /\ k.pc = "replicate" /\ k.version = j.version
                /\ k.todo = j.todo \ {p}
    BY <1>6, JobMoves DEF FilesInv
  <2>2. /\ j.pc = "replicate" /\ j.todo # {}
        /\ UNCHANGED <<dedup, requests, client, acked, overlapped, astray>>
    BY <1>6 DEF JobReplicate, history
  <2>3. p \in Server
    BY <1>b, <2>2, LowestIs, ServerAssumption
  <2>4. \/ Answered(j.srv, p) /\ Replicate(p, j) /\ UNCHANGED late
        \/ /\ Failed(j.srv, p) /\ UNCHANGED <<disk, versions>>
           /\ late' # late => Reach(j.srv, p)
    BY <1>6 DEF JobReplicate
  <2> HIDE DEF p
  <2>5. isolated = {} /\ RolesType
    BY QuietFacts DEF FilesInv, RolesInv
  <2>6. (Answered(j.srv, p) => p \in listening) /\ (Failed(j.srv, p) => p \notin listening)
    BY <2>5, CallOutcome
  <2>7. late' = late
    BY <2>4, <2>6 DEF Reach
  <2>8. /\ p \in listening => Replicate(p, j)
        /\ p \notin listening => UNCHANGED <<disk, versions>>
    BY <2>4, <2>6
  <2>9. FilesKept'
    BY <1>1, <1>a, <2>1, <2>2, <2>3, <2>8, KeepReplicate
  <2>10. CallsQuiet'
    BY <1>3, <2>1, <2>2, <2>7
  <2> QED
    BY <1>2, <2>9, <2>10 DEF KeepBody
<1>7. CASE JobStore(j)
  <2> DEFINE n == Returned(j.client, NoHandle)
  <2>1. client' = [client EXCEPT ![j.client] = n] /\ n.op = "none"
    BY <1>7, <1>b DEF JobStore, Answer, Returned, Resting
  <2> HIDE DEF n
  <2>2. jobs' = jobs \ {j} /\ UNCHANGED <<requests, late>>
    BY <1>7 DEF JobStore
  <2>3. \A i \in Server : \A d \in Client : d # j.client => dedup'[i][d] = dedup[i][d]
    BY <1>7, <1>b DEF JobStore, FilesInv, CallInv, CallTypes
  <2>4. listening \subseteq Server
    BY RoleTypes DEF FilesInv, RolesInv
  <2>5. /\ \A r \in requests' : r.waited /\ (r.op = "create" => r.mode = "w")
        /\ \A x \in jobs' : x.waited
    BY <1>a, <2>2 DEF CallsQuiet
  <2>6. CallsQuiet'
    BY <1>1, <1>a, <1>b, <2>1, <2>2, <2>3, <2>4, <2>5, CallsClient
  <2> QED
    BY <1>1, <1>2, <1>7, <1>a, <2>6, KeepStore DEF KeepBody
<1> QED
  BY <1>4, <1>5, <1>6, <1>7 DEF JobStep

\* KeepInv is inductive relative to FilesInv and OnceInv
LEMMA KeepNext ==
    FilesInv /\ FilesInv' /\ OnceInv /\ OnceInv' /\ KeepInv /\ [FilesNext]_vars => KeepInv'
<1> SUFFICES ASSUME FilesInv, FilesInv', OnceInv, OnceInv', KeepInv, [FilesNext]_vars,
                    restarts' = 0, faults' = 0
             PROVE  KeepBody'
  BY DEF KeepInv
<1>1. CASE UNCHANGED vars
  <2>1. UNCHANGED <<role, listening, task, restarts, faults, disk, versions, dedup, requests,
                    jobs, late, client, acked, overlapped, astray>>
    BY <1>1 DEF vars, fileVars, rpcVars, history, roleVars, threadVars, faultVars
  <2>2. FilesKept /\ CallsQuiet /\ VotersAreBackups /\ JobsLive
    BY <2>1 DEF KeepInv, KeepBody, OnceInv
  <2>3. \A j \in jobs' : j.srv \in listening' /\ client'[j.client] = client[j.client]
    BY <2>1, <2>2 DEF JobsLive
  <2>4. FilesKept'
    BY <2>1, <2>2, <2>3, KeepFrame
  <2>5. CallsQuiet' /\ VotersAreBackups'
    BY <2>1, <2>2, CallsStay DEF VotersAreBackups, CallsQuiet
  <2> QED
    BY <2>4, <2>5 DEF KeepBody
<1>2. CASE FilesNext
  <2>1. restarts = 0 /\ faults = 0
    BY <1>2, QuietPast
  <2>2. KeepBody
    BY <2>1 DEF KeepInv
  <2>3. CASE \E i \in Server : ServerStep(i)
    BY <2>1, <2>2, <2>3, KeepServer DEF OnceInv
  <2>4. CASE \E c \in Client : ClientStep(c)
    BY <2>1, <2>2, <2>4, KeepClient
  <2>5. CASE \E r \in requests : RequestStep(r)
    BY <2>2, <2>5, KeepRequest
  <2>6. CASE \E j \in jobs : JobStep(j)
    BY <2>1, <2>2, <2>6, KeepJob
  <2>7. CASE \E m \in late : ServeLate(m) /\ UNCHANGED <<roleVars, snapshot>>
    BY <2>2, <2>7 DEF KeepBody, CallsQuiet
  <2> QED
    BY <1>2, <2>3, <2>4, <2>5, <2>6, <2>7 DEF FilesNext
<1> QED
  BY <1>1, <1>2

\* ... and holds initially
LEMMA KeepInit == FilesInit => KeepInv
<1> SUFFICES ASSUME FilesInit PROVE KeepBody
  BY DEF KeepInv
<1>1. requests = {} /\ jobs = {} /\ late = {} /\ acked = {}
  BY DEF FilesInit
<1>2. \A c \in Client : client[c].op = "none"
  BY DEF FilesInit, Resting
<1>3. CallsQuiet
  BY <1>1, <1>2 DEF CallsQuiet
<1>4. \A i \in Server : task[i] = Idle
  BY DEF FilesInit, Init
<1>5. VotersAreBackups
  BY <1>4, IdleAndDown DEF VotersAreBackups, FilesInit, Init
<1>6. \A i \in Server : \A f \in File : versions[i][f] = 0
  BY DEF FilesInit, NoEntries
<1>7. Acks = {}
  BY <1>1 DEF Acks
<1>8. Existing
  BY <1>1, <1>6, <1>7 DEF Existing, FilesInit, Init
<1> QED
  BY <1>1, <1>3, <1>5, <1>7, <1>8
     DEF KeepBody, FilesKept, JobsLead, JobsAlone, JobsOfCalls, Spread, FreshFiles, AllKept

\* ... and says what AckedSurvives says
LEMMA KeepInvImplies == KeepInv => AckedSurvives
<1> SUFFICES ASSUME KeepInv, restarts = 0, faults = 0,
                    NEW a \in {b \in acked : b.file \notin overlapped /\ b.data \notin astray}
             PROVE  /\ a.version > 0
                    /\ \A i \in listening :
                       \/ versions[i][a.file] > a.version
                       \/ /\ versions[i][a.file] = a.version
                          /\ disk[i][a.file] \in {a.data} \cup
                               {Data(j) : j \in {k \in jobs : /\ k.srv = i /\ k.file = a.file
                                                              /\ k.pc = "version"}}
  BY DEF AckedSurvives
<1>1. a.version > 0
  BY DEF KeepInv, KeepBody, FilesKept, Existing, Acks
<1>2. \A i \in listening : Kept(a, i)
  BY DEF KeepInv, KeepBody, FilesKept, AllKept, Acks
<1> QED
  BY <1>1, <1>2 DEF Kept

\* While servers only crash, the write of every close that was answered with
\* success is on every server that is up until a newer one replaces it, whatever
\* the number of servers, clients and crashes, unless two jobs were changing its
\* file at one time or the close found a handle of another file or mode: jobs run
\* on one primary, and a backup becomes primary only when that one is down, and
\* its jobs with it; every server that is up has what a job that ends wrote, and
\* what it wrote is above all that was confirmed before.
THEOREM AckedWritesSurvive == FilesSpec => []AckedSurvives
<1>1. FilesInv /\ [FilesNext]_vars => FilesInv'
  BY FilesInvNext
<1>2. FilesInv /\ FilesInv' /\ OnceInv /\ [FilesNext]_vars => OnceInv'
  BY OnceNext
<1>3. FilesInv /\ FilesInv' /\ OnceInv /\ OnceInv' /\ KeepInv /\ [FilesNext]_vars => KeepInv'
  BY KeepNext
<1> QED
  BY <1>1, <1>2, <1>3, FilesInvInit, OnceInit, KeepInit, KeepInvImplies, PTL DEF FilesSpec

=============================================================================
