------------------------------ MODULE Trainer ------------------------------
(***************************************************************************)
(* Distributed training: the coordinator of ml_coordinator.py, which hands *)
(* out the data shards, collects one gradient per worker and epoch and     *)
(* checkpoints its weights into the key-value store, and the workers of    *)
(* ml_worker.py, which compute gradients and report them in heartbeats.    *)
(*                                                                         *)
(* Weights are the number of the step that made them, so that two steps    *)
(* never make the same ones; a gradient is the weights it was computed at  *)
(* and the shards it was computed over.  The key-value store is a variable *)
(* that a put sets or, failing, leaves alone.                              *)
(***************************************************************************)
EXTENDS Naturals, Sequences, FiniteSets

CONSTANTS
    Worker, Shard,
    shards,      \* the sorted sequence of the shards
    num_workers, max_epochs,
    Nil,         \* no gradient, no epoch known
    MaxFaults,   \* bound on heartbeats that time out, workers that restart,
                 \* loads, puts and gets that fail
    MaxCrashes   \* bound on restarts of the coordinator

ASSUME TrainerAssumption ==
    /\ shards \in Seq(Shard)
    /\ \A s \in Shard : \E i \in 1..Len(shards) : shards[i] = s
    /\ \A i, j \in 1..Len(shards) : shards[i] = shards[j] => i = j
    /\ num_workers \in Nat \ {0} /\ max_epochs \in Nat \ {0}
    /\ Nil \notin Nat
    /\ MaxFaults \in Nat /\ MaxCrashes \in Nat

VARIABLES
    epoch, weights,   \* the model
    slots,            \* worker -> slot, for the workers that registered
    epoch_contrib,    \* worker -> gradient of this epoch; waited, whether its worker still
                      \* waited for the answer, is history
    terminate,
    up,               \* whether the coordinator serves
    saved,            \* the checkpoint in the key-value store
    node,             \* the worker processes
    calls,            \* heartbeats on their way to the coordinator
    answers,          \* responses on their way to a worker that waits
    steps,            \* history: how many steps were taken
    last,             \* history: the gradients of the last step
    faults, crashes

coordinator == <<epoch, weights, slots, epoch_contrib, terminate, up, saved, steps, last>>
vars == <<coordinator, node, calls, answers, faults, crashes>>

\* A worker process as it starts
NewWorker == [shards |-> {}, loaded |-> {}, pending |-> Nil, known_epoch |-> Nil, at |-> "loop"]

EmptyModel == [epoch |-> 0, weights |-> 0]

Init ==
    /\ epoch = 0 /\ weights = 0
    /\ slots = <<>> /\ epoch_contrib = <<>>
    /\ terminate = FALSE /\ up = TRUE
    /\ saved = EmptyModel
    /\ node = [w \in Worker |-> NewWorker]
    /\ calls = {} /\ answers = {}
    /\ steps = 0 /\ last = {}
    /\ faults = 0 /\ crashes = 0

Fault == faults < MaxFaults /\ faults' = faults + 1

-----------------------------------------------------------------------------
(* The coordinator                                                         *)

\* shards[slot::num_workers]
Assigned(slot) ==
    {shards[i] : i \in {j \in 1..Len(shards) : j > slot /\ (j - 1 - slot) % num_workers = 0}}

\* A worker that is new gets the next slot, in the order of registration
Registered(w) ==
    IF w \in DOMAIN slots THEN slots
    ELSE [x \in DOMAIN slots \cup {w} |->
            IF x = w THEN Cardinality(DOMAIN slots) ELSE slots[x]]

\* Mutant: a gradient of any epoch is taken
AnyGradient(c, known) == c.pending # Nil /\ c.worker \notin known

\* The gradient of a heartbeat counts if it is of the current epoch, and only
\* the first one of a worker
Counts(c, known) ==
    c.pending # Nil /\ c.pending.epoch = epoch /\ c.worker \notin known

\* epoch_contrib with the gradient of a worker that had none in it
Contributed(c) ==
    LET g == c.pending
        new == [epoch |-> g.epoch, at |-> g.at, over |-> g.over, own |-> g.own,
                waited |-> c.waited]
    IN [w \in DOMAIN epoch_contrib \cup {c.worker} |->
          IF w = c.worker THEN new ELSE epoch_contrib[w]]

\* _contributors: the workers that own shards
Contributors(s) == {w \in DOMAIN s : Assigned(s[w]) # {}}

\* Mutant: a step does not wait for all workers to register
CompleteEarly(s, contrib) ==
    Contributors(s) # {} /\ Contributors(s) \subseteq DOMAIN contrib

\* _maybe_step: all workers are registered and all that own shards reported
Complete(s, contrib) ==
    /\ Cardinality(DOMAIN s) >= num_workers
    /\ Contributors(s) # {} /\ Contributors(s) \subseteq DOMAIN contrib

\* The step, the checkpoint that follows it and the end of training.  A step
\* over no samples leaves the weights alone.  _checkpoint only prints that
\* its put failed.
Step(s, contrib) ==
    LET used == {contrib[w] : w \in Contributors(s)}
        n == IF \E g \in used : g.over # {} THEN steps + 1 ELSE weights
    IN
    /\ weights' = n
    /\ steps' = steps + 1
    /\ epoch' = epoch + 1
    /\ epoch_contrib' = <<>>
    /\ last' = [at |-> weights, gradients |-> used]
    /\ terminate' = (epoch + 1 >= max_epochs)
    /\ \/ saved' = [epoch |-> epoch + 1, weights |-> n] /\ UNCHANGED faults
       \/ Fault /\ UNCHANGED saved

\* _response: what the coordinator knows once it has handled the heartbeat
Response(c) ==
    [to |-> c.worker, epoch |-> epoch', weights |-> weights', terminate |-> terminate',
     shards |-> IF c.worker \in DOMAIN slots' THEN Assigned(slots'[c.worker]) ELSE {}]

\* handle_heartbeat, under the lock; the response reaches a worker that still
\* waits for it
Heartbeat(c) ==
    LET s == Registered(c.worker)
        contrib == IF Counts(c, DOMAIN epoch_contrib) THEN Contributed(c) ELSE epoch_contrib
    IN
    /\ up
    /\ calls' = calls \ {c}
    /\ IF terminate THEN UNCHANGED <<coordinator, faults>>
       ELSE /\ slots' = s
            /\ \/ Complete(s, contrib) /\ Step(s, contrib)
               \/ /\ ~Complete(s, contrib)
                  /\ epoch_contrib' = contrib
                  /\ UNCHANGED <<epoch, weights, terminate, saved, steps, last, faults>>
            /\ UNCHANGED up
    /\ answers' = IF c.waited THEN answers \cup {Response(c)} ELSE answers
    /\ UNCHANGED <<node, crashes>>

\* The calls and answers of a connection that broke: the workers go on
Disconnected ==
    /\ calls' = {} /\ answers' = {}
    /\ node' = [w \in Worker |-> IF node[w].at = "call" THEN [node[w] EXCEPT !.at = "loop"]
                                 ELSE node[w]]

\* The server stops a while after the end of training
Stop ==
    /\ terminate /\ up
    /\ up' = FALSE
    /\ Disconnected
    /\ UNCHANGED <<epoch, weights, slots, epoch_contrib, terminate, saved, steps, last>>
    /\ UNCHANGED <<faults, crashes>>

\* The coordinator is killed and started again with --restore.  A get that
\* fails starts training anew, and restore sets nothing but the model.
Crash ==
    /\ crashes < MaxCrashes
    /\ crashes' = crashes + 1
    /\ \E model \in {saved, EmptyModel} :
         /\ epoch' = model.epoch /\ weights' = model.weights
         /\ IF model = saved THEN UNCHANGED faults ELSE Fault
    /\ slots' = <<>> /\ epoch_contrib' = <<>>
    /\ terminate' = FALSE /\ up' = TRUE
    /\ Disconnected
    /\ UNCHANGED <<saved, steps, last>>

-----------------------------------------------------------------------------
(* The workers                                                             *)

\* Mutant: a gradient is sent once
SentOnce(w) == [node[w] EXCEPT !.at = "call", !.pending = Nil]

\* pending stays until the next gradient replaces it
Calling(w) == [node[w] EXCEPT !.at = "call"]

\* run: the heartbeat, with the gradient that is pending
Send(w) ==
    /\ node[w].at = "loop" /\ up
    /\ calls' = calls \cup {[worker |-> w, pending |-> node[w].pending, waited |-> TRUE]}
    /\ node' = [node EXCEPT ![w] = Calling(w)]
    /\ UNCHANGED <<coordinator, answers, faults, crashes>>

\* The call fails for the worker, which goes on; the coordinator may still
\* handle it
TimeOut(w) ==
    /\ node[w].at = "call"
    /\ Fault
    /\ node' = [node EXCEPT ![w].at = "loop"]
    /\ answers' = {a \in answers : a.to # w}
    /\ calls' = {IF c.worker = w THEN [c EXCEPT !.waited = FALSE] ELSE c : c \in calls}
    /\ UNCHANGED <<coordinator, crashes>>

\* The rest of run: shards that are assigned for the first time are loaded,
\* never unloaded, and a shard that cannot be read is not tried again until
\* the assignment changes.  The gradient is computed once per epoch.
Receive(a) ==
    LET w == a.to
        n == node[w]
        anew == a.shards # {} /\ a.shards # n.shards
        own == IF anew THEN a.shards ELSE n.shards
    IN
    /\ answers' = answers \ {a}
    /\ IF a.terminate
       THEN node' = [node EXCEPT ![w].at = "done"] /\ UNCHANGED faults
       ELSE \E loaded \in IF anew THEN {n.loaded \cup S : S \in SUBSET own} ELSE {n.loaded} :
              /\ IF own \subseteq loaded \/ ~anew THEN UNCHANGED faults ELSE Fault
              /\ node' = [node EXCEPT ![w] =
                   LET m == [n EXCEPT !.at = "loop", !.shards = own, !.loaded = loaded]
                   IN IF own # {} /\ a.epoch # n.known_epoch
                      THEN [m EXCEPT !.known_epoch = a.epoch,
                              !.pending = [epoch |-> a.epoch, at |-> a.weights, over |-> loaded,
                                           own |-> own]]
                      ELSE m]
    /\ UNCHANGED <<coordinator, calls, crashes>>

\* A worker process is killed and started again under its id
Restart(w) ==
    /\ node[w].at # "done"
    /\ Fault
    /\ node' = [node EXCEPT ![w] = NewWorker]
    /\ answers' = {a \in answers : a.to # w}
    /\ calls' = {IF c.worker = w THEN [c EXCEPT !.waited = FALSE] ELSE c : c \in calls}
    /\ UNCHANGED <<coordinator, crashes>>

Next ==
    \/ \E c \in calls : Heartbeat(c)
    \/ \E a \in answers : Receive(a)
    \/ \E w \in Worker : Send(w) \/ TimeOut(w) \/ Restart(w)
    \/ Stop
    \/ Crash

Spec == Init /\ [][Next]_vars

\* Threads of the coordinator and the loops of the workers keep running
FairSpec ==
    /\ Spec
    /\ \A w \in Worker :
         /\ WF_vars(Send(w))
         /\ WF_vars(\E c \in calls : c.worker = w /\ Heartbeat(c))
         /\ WF_vars(\E a \in answers : a.to = w /\ Receive(a))

-----------------------------------------------------------------------------
(* Properties                                                              *)

\* Every gradient that a step aggregates was computed at the weights that the
\* step changes, although checkpoints fail and a coordinator that went back to
\* an older one meets workers that hold gradients of the same epoch of its
\* former life.  The epoch is all that a gradient is told by, so two things are
\* excepted: a heartbeat that is handled after its worker gave up on it, by a
\* coordinator that was restarted; and a coordinator restarted twice, which may
\* meet gradients of an epoch of both its former lives.
StepAtCurrentWeights ==
    steps > 0 => \A g \in last.gradients :
        crashes = 0 \/ (crashes = 1 /\ g.waited) => g.at = last.at

\* As long as the coordinator was not restarted, every shard is owned by
\* exactly one of the gradients that a step aggregates, and none of them is
\* computed over a shard of another worker, whatever is lost, repeated or
\* restarted among the workers.
StepCoversShards ==
    steps > 0 /\ crashes = 0 =>
        /\ \A s \in Shard : Cardinality({g \in last.gradients : s \in g.own}) = 1
        /\ \A g \in last.gradients : g.over \subseteq g.own

\* Training ends: no worker waits for ever for an epoch that the coordinator
\* has left, after lost heartbeats and restarts on both sides.
TrainingCompletes == <>terminate

=============================================================================
