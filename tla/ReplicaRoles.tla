---------------------------- MODULE ReplicaRoles ----------------------------
(***************************************************************************)
(* Who is primary among the replicas of part2_3_replication/replication:   *)
(* how a server of server.py finds its role when it starts, how a backup   *)
(* that misses heartbeats holds an election, and how the winner announces  *)
(* itself.  Module PrimaryBackup adds the files and the clients.           *)
(*                                                                         *)
(* Servers are their addresses, ordered.  __init__ runs the whole startup  *)
(* before main starts the gRPC server, so a server that starts answers     *)
(* nobody; it is in `listening` once it does.  The thread that starts, and *)
(* later the failure detector, is task[i]: it calls one peer at a time, in *)
(* the order of peer_stubs, and other servers take steps in between.       *)
(***************************************************************************)
EXTENDS Naturals, Sequences, FiniteSets

CONSTANTS
    Server,        \* the addresses: all_addrs
    MaxCrashes,    \* bound on the crashes
    MaxRestarts,   \* bound on the restarts
    MaxFaults      \* bound on the calls between live servers that fail, and on isolations

ASSUME ServerAssumption == Server \subseteq Nat /\ IsFiniteSet(Server) /\ Server # {}
ASSUME RolesBoundAssumption ==
    MaxCrashes \in Nat /\ MaxRestarts \in Nat /\ MaxFaults \in Nat

VARIABLES
    role,         \* self.role
    primaryAddr,  \* self.primary_addr
    listening,    \* the servers whose gRPC server runs
    task,         \* what the startup or the failure detector thread is doing
    heard,        \* the peers with last_heartbeat > 0
    isolated,     \* servers cut off from their peers
    crashes, restarts, faults,
    calm          \* history: no server crashed while one started, and each that
                  \* started found the others agreeing on a live primary

threadVars == <<role, primaryAddr, listening, task>>
faultVars == <<isolated, crashes, restarts, faults>>
roleVars == <<threadVars, heard, faultVars, calm>>

Lowest(S) == CHOOSE s \in S : \A t \in S : s <= t
Peers(i) == Server \ {i}

\* A thread at pc, with peers still to call, and what the others answered
Task(pc, todo, alive, answers, boot) ==
    [pc |-> pc, todo |-> todo, alive |-> alive, answers |-> answers, boot |-> boot]
Idle == Task("idle", {}, {}, <<>>, FALSE)
Down == Task("down", {}, {}, <<>>, FALSE)
Poll(i, boot) == Task("elect", Peers(i), {i}, <<>>, boot)

\* The cluster of start_cluster.sh after its first heartbeats: the lowest
\* address is primary, the others synced from it
Init ==
    /\ role = [i \in Server |-> IF i = Lowest(Server) THEN "primary" ELSE "backup"]
    /\ primaryAddr = [i \in Server |-> Lowest(Server)]
    /\ listening = Server
    /\ task = [i \in Server |-> Idle]
    /\ heard = [i \in Server |-> Peers(i)]
    /\ isolated = {}
    /\ crashes = 0 /\ restarts = 0 /\ faults = 0 /\ calm = TRUE

\* A call of i reaches the handler of p
Reach(i, p) == p \in listening /\ {i, p} \cap isolated = {}

\* A call that reaches its peer returns in time or, within the bound, fails
Answered(i, p) == Reach(i, p) /\ UNCHANGED faultVars
Failed(i, p) ==
    \/ ~Reach(i, p) /\ UNCHANGED faultVars
    \/ /\ Reach(i, p) /\ faults < MaxFaults
       /\ faults' = faults + 1
       /\ UNCHANGED <<isolated, crashes, restarts>>

\* The primaries that answer clients
Primaries == {i \in listening : role[i] = "primary"}

\* The servers that answer agree on one of them as primary, and no thread of
\* theirs is about to change that
Agreed ==
    /\ listening # {}
    /\ \E p \in Primaries : \A i \in listening : primaryAddr[i] = p /\ task[i] = Idle

\* Some server is in its startup
Starting == {i \in Server : task[i].pc # "down" /\ i \notin listening}

\* Thread of i goes on as t
Goto(i, t) == task' = [task EXCEPT ![i] = t]

-----------------------------------------------------------------------------
(* Startup                                                                 *)

\* __init__ of a restarted process, up to _determine_startup_role
Start(i) ==
    /\ task[i].pc = "down"
    /\ restarts < MaxRestarts
    /\ restarts' = restarts + 1
    /\ role' = [role EXCEPT ![i] = "unknown"]
    /\ primaryAddr' = [primaryAddr EXCEPT ![i] = Lowest(Server)]
    /\ heard' = [heard EXCEPT ![i] = {}]
    /\ Goto(i, Task("query", Peers(i), {}, <<>>, TRUE))
    /\ calm' = (calm /\ Agreed /\ Starting = {})
    /\ UNCHANGED <<listening, isolated, crashes, faults>>

\* One call of the loop of _query_peers_for_primary
QueryPeer(i) ==
    /\ task[i].pc = "query" /\ task[i].todo # {}
    /\ LET p == Lowest(task[i].todo) IN
       \/ /\ Answered(i, p)
          /\ Goto(i, [task[i] EXCEPT !.todo = @ \ {p},
                                     !.answers = Append(@, primaryAddr[p])])
       \/ /\ Failed(i, p)
          /\ Goto(i, [task[i] EXCEPT !.todo = @ \ {p}])
    /\ UNCHANGED <<role, primaryAddr, listening, heard, calm>>

\* max(votes): the address most peers named, the first of them on a tie
MostNamed(answers) ==
    LET votes(a) == Cardinality({k \in DOMAIN answers : answers[k] = a})
        first == Lowest({k \in DOMAIN answers :
                           \A l \in DOMAIN answers : votes(answers[l]) <= votes(answers[k])})
    IN  answers[first]

\* Mutant: the lowest address reclaims its role without listening to its peers
ClaimedByAddress(answers) == Lowest(Server)

\* Mutant: None of _query_peers_for_primary is taken for an address
ClaimedOrNone(answers) == IF answers = <<>> THEN 0 ELSE MostNamed(answers)

\* The primary a starting server goes by: what its peers name, and without
\* an answer the lowest address
Claimed(answers) == IF answers = <<>> THEN Lowest(Server) ELSE MostNamed(answers)

\* The rest of _determine_startup_role as primary: ready, and main starts the
\* gRPC server
StartAsPrimary(i) ==
    /\ task[i].pc = "query" /\ task[i].todo = {}
    /\ Claimed(task[i].answers) = i
    /\ role' = [role EXCEPT ![i] = "primary"]
    /\ primaryAddr' = [primaryAddr EXCEPT ![i] = i]
    /\ listening' = listening \cup {i}
    /\ Goto(i, Idle)
    /\ UNCHANGED <<heard, faultVars, calm>>

\* ... and as backup, into _sync_or_elect
StartAsBackup(i) ==
    /\ task[i].pc = "query" /\ task[i].todo = {}
    /\ Claimed(task[i].answers) # i
    /\ role' = [role EXCEPT ![i] = "backup"]
    /\ primaryAddr' = [primaryAddr EXCEPT ![i] = Claimed(task[i].answers)]
    /\ Goto(i, Task("sync", {}, {}, <<>>, TRUE))
    /\ UNCHANGED <<listening, heard, faultVars, calm>>

\* SyncState is answered
SyncAnswered(i) ==
    /\ task[i].pc = "sync"
    /\ Reach(i, primaryAddr[i])
    /\ Goto(i, Task("install", {}, {}, <<>>, TRUE))
    /\ UNCHANGED <<role, primaryAddr, listening, heard, faultVars, calm>>

\* _try_sync_from writes the snapshot; the server is ready and listens
Install(i) ==
    /\ task[i].pc = "install"
    /\ role' = [role EXCEPT ![i] = "backup"]
    /\ listening' = listening \cup {i}
    /\ Goto(i, Idle)
    /\ UNCHANGED <<primaryAddr, heard, faultVars, calm>>

\* 15 seconds without an answer: an election, still before the server listens
SyncGaveUp(i) ==
    /\ task[i].pc = "sync"
    /\ Failed(i, primaryAddr[i])
    /\ Goto(i, Poll(i, TRUE))
    /\ UNCHANGED <<role, primaryAddr, listening, heard, calm>>

-----------------------------------------------------------------------------
(* Heartbeats and elections                                                *)

\* A round of _heartbeat_sender and the Heartbeat of its peer: each records
\* that it heard of the other
Heartbeat(i, p) ==
    /\ i \in listening /\ p # i /\ Reach(i, p)
    /\ heard' = [heard EXCEPT ![i] = @ \cup {p}, ![p] = @ \cup {i}]
    /\ heard' # heard
    /\ UNCHANGED <<threadVars, faultVars, calm>>

\* Mutant: last_heartbeat of the primary is not looked at
NeverSuspect(i) == FALSE /\ Failed(i, primaryAddr[i])

\* _failure_detector: the primary was heard of once, and then missed for
\* HEARTBEAT_TIMEOUT
Suspect(i) ==
    /\ primaryAddr[i] \in heard[i]
    /\ Failed(i, primaryAddr[i])

DetectFailure(i) ==
    /\ i \in listening /\ task[i] = Idle
    /\ role[i] = "backup" /\ primaryAddr[i] # i
    /\ Suspect(i)
    /\ Goto(i, Poll(i, FALSE))
    /\ UNCHANGED <<role, primaryAddr, listening, heard, calm>>

\* One call of the loop of _elect_new_primary
PollPeer(i) ==
    /\ task[i].pc = "elect" /\ task[i].todo # {}
    /\ LET p == Lowest(task[i].todo) IN
       \/ /\ Answered(i, p)
          /\ Goto(i, [task[i] EXCEPT !.todo = @ \ {p}, !.alive = @ \cup {p}])
       \/ /\ Failed(i, p)
          /\ Goto(i, [task[i] EXCEPT !.todo = @ \ {p}])
    /\ UNCHANGED <<role, primaryAddr, listening, heard, calm>>

\* Mutant: whoever holds the election wins it
ElectSelf(i) == i

\* sorted(alive)[0]
NewPrimary(i) == Lowest(task[i].alive)

\* The critical section of _elect_new_primary
Elect(i) ==
    /\ task[i].pc = "elect" /\ task[i].todo = {}
    /\ primaryAddr' = [primaryAddr EXCEPT ![i] = NewPrimary(i)]
    /\ role' = [role EXCEPT ![i] = IF NewPrimary(i) = i THEN "primary" ELSE "backup"]
    /\ Goto(i, Task("announce", IF NewPrimary(i) = i THEN Peers(i) ELSE {}, {}, <<>>,
                    task[i].boot))
    /\ UNCHANGED <<listening, heard, faultVars, calm>>

\* self.role is read again, without the lock, before _announce_leader
SkipAnnouncement(i) ==
    /\ task[i].pc = "announce" /\ task[i].todo = Peers(i)
    /\ role[i] # "primary"
    /\ Goto(i, [task[i] EXCEPT !.todo = {}])
    /\ UNCHANGED <<role, primaryAddr, listening, heard, faultVars, calm>>

\* One call of _announce_leader, and AnnounceLeader of the peer
AnnounceToPeer(i) ==
    /\ task[i].pc = "announce" /\ task[i].todo # {}
    /\ LET p == Lowest(task[i].todo) IN
       /\ \/ /\ Answered(i, p)
             /\ primaryAddr' = [primaryAddr EXCEPT ![p] = i]
             /\ role' = [role EXCEPT ![p] = "backup"]
          \/ /\ Failed(i, p)
             /\ UNCHANGED <<role, primaryAddr>>
       /\ Goto(i, [task[i] EXCEPT !.todo = @ \ {p}])
    /\ UNCHANGED <<listening, heard, calm>>

\* The election returns: to the detector's loop, or to _sync_or_elect, which
\* makes the server ready
EndElection(i) ==
    /\ task[i].pc = "announce" /\ task[i].todo = {}
    /\ listening' = listening \cup {i}
    /\ Goto(i, Idle)
    /\ UNCHANGED <<role, primaryAddr, heard, faultVars, calm>>

-----------------------------------------------------------------------------
(* Faults                                                                  *)

Crash(i) ==
    /\ task[i].pc # "down"
    /\ crashes < MaxCrashes
    /\ crashes' = crashes + 1
    /\ listening' = listening \ {i}
    /\ Goto(i, Down)
    /\ calm' = (calm /\ Starting = {})
    /\ UNCHANGED <<role, primaryAddr, heard, isolated, restarts, faults>>

Isolate(i) ==
    /\ i \notin isolated /\ faults < MaxFaults
    /\ isolated' = isolated \cup {i}
    /\ faults' = faults + 1
    /\ UNCHANGED <<threadVars, heard, crashes, restarts, calm>>

Heal(i) ==
    /\ i \in isolated
    /\ isolated' = isolated \ {i}
    /\ UNCHANGED <<threadVars, heard, crashes, restarts, faults, calm>>

-----------------------------------------------------------------------------
\* The steps of the threads of server i
ThreadStep(i) ==
    \/ QueryPeer(i) \/ StartAsPrimary(i) \/ StartAsBackup(i)
    \/ SyncAnswered(i) \/ Install(i) \/ SyncGaveUp(i)
    \/ DetectFailure(i) \/ PollPeer(i) \/ Elect(i) \/ SkipAnnouncement(i)
    \/ AnnounceToPeer(i) \/ EndElection(i)

Next ==
    \E i \in Server :
        \/ ThreadStep(i)
        \/ \E p \in Server : Heartbeat(i, p)
        \/ Start(i) \/ Crash(i) \/ Isolate(i) \/ Heal(i)

\* The threads run: daemon threads in endless loops, and calls with deadlines
Spec == Init /\ [][Next]_roleVars /\ \A i \in Server : WF_roleVars(ThreadStep(i))

-----------------------------------------------------------------------------
TypeOK ==
    /\ role \in [Server -> {"unknown", "primary", "backup"}]
    /\ primaryAddr \in [Server -> Server]
    /\ listening \subseteq Server
    /\ task \in [Server -> [pc : {"down", "query", "sync", "install", "elect",
                                  "announce", "idle"},
                            todo : SUBSET Server, alive : SUBSET Server,
                            answers : Seq(Server), boot : BOOLEAN]]
    /\ heard \in [Server -> SUBSET Server]
    /\ isolated \subseteq Server
    /\ crashes \in 0..MaxCrashes /\ restarts \in 0..MaxRestarts /\ faults \in 0..MaxFaults
    /\ calm \in BOOLEAN

\* Crashes, failovers and quiet rejoins never make two primaries: a server
\* that comes back while the others follow a live primary becomes its backup,
\* and the backups of a crashed primary elect one of them.
OnePrimary == calm /\ faults = 0 => Cardinality(Primaries) <= 1

\* What replication.md says of a primary that comes back, whenever it does:
\* once no election and no startup is under way there are not two primaries.
NoSplitBrain ==
    faults = 0 /\ (\A i \in Server : task[i] \in {Idle, Down})
        => Cardinality(Primaries) <= 1

\* As long as servers only crash, the ones that are left end up with a
\* primary all of them follow, without a restart.
FailoverCompletes ==
    [](restarts = 0 /\ faults = 0) => <>[](listening # {} => Agreed)

=============================================================================
