----------------------------- MODULE KVMachine -----------------------------
(***************************************************************************)
(* One KVStateMachine under every sequence of committed entries: new       *)
(* requests, retries in any order and at any distance, and the no-ops of   *)
(* linearizable reads.                                                     *)
(***************************************************************************)
EXTENDS KVStateMachine, FiniteSets

CONSTANTS
    Commands,     \* the commands clients send
    MaxSeq,       \* bound on seq_num
    MaxEntries    \* bound on the log

ASSUME CommandsAssumption == Commands \subseteq Command
ASSUME EntriesAssumption == MaxSeq \in Nat /\ MaxEntries \in Nat

VARIABLES
    machine,   \* the KVStateMachine
    length,    \* how many entries were applied
    recorded   \* history: the commands that were not recognised as retries, with
               \* their place in the log and their result

machineVars == <<machine, length, recorded>>

MachineInit ==
    /\ machine = Empty
    /\ length = 0
    /\ recorded = {}

\* apply.  seq = 0 is an untracked request.
ApplyEntry(client, seq, cmd) ==
    LET entry == [client |-> client, seq |-> seq, cmd |-> cmd] IN
    /\ length < MaxEntries
    /\ length' = length + 1
    /\ machine' = Apply(machine, entry)
    /\ recorded' = IF Duplicate(machine, entry) THEN recorded
                   ELSE recorded \cup {[index |-> length + 1, cmd |-> cmd,
                                        result |-> ApplyResult(machine, entry)]}

MachineNext ==
    \E client \in Client, seq \in 0..MaxSeq, cmd \in Commands : ApplyEntry(client, seq, cmd)

MachineSpec == MachineInit /\ [][MachineNext]_machineVars

-----------------------------------------------------------------------------
(* Properties                                                              *)

MachineTypeOK ==
    /\ machine \in State
    /\ length \in Nat
    /\ recorded \subseteq [index : Nat, cmd : Commands, result : Result]

Wrote(e) == e.cmd.op = "put" \/ (e.cmd.op = "cas" /\ e.result.flag)
Deleted(e) == e.cmd.op = "delete" /\ e.result.flag
\* e and f changed the same key, e first
Before(e, f) ==
    /\ e.cmd.op # "noop" /\ f.cmd.op # "noop"
    /\ e.cmd.key = f.cmd.key
    /\ e.index < f.index

\* The versions of a key never repeat, over deletion and creation again.
VersionsNeverRepeat ==
    \A e, f \in recorded :
        Wrote(e) /\ Wrote(f) /\ Before(e, f) => e.result.version < f.result.version

\* A swap at a version finds the key as the write that got this version left
\* it: nothing was written or deleted in between (cas_version cannot be fooled
\* by a value that changed and changed back).
NoABA ==
    \A f \in recorded :
        Wrote(f) /\ f.cmd.op = "cas" /\ ~f.cmd.expectAbsent /\ f.cmd.expectedVersion > 0 =>
            \E e \in recorded :
                /\ Wrote(e) /\ Before(e, f)
                /\ e.result.version = f.cmd.expectedVersion
                /\ \A g \in recorded : Before(e, g) /\ Before(g, f) => ~Wrote(g) /\ ~Deleted(g)

\* The session table stays within its bound and has one session per client, so
\* _session_result finds the latest request and nothing older.
SessionsSound ==
    /\ Len(machine.sessions) <= MaxSessions
    /\ \A i, j \in 1..Len(machine.sessions) :
         machine.sessions[i].client = machine.sessions[j].client => i = j

=============================================================================
