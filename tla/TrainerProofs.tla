---------------------------- MODULE TrainerProofs ----------------------------
(***************************************************************************)
(* Proofs about distributed training, for every set of workers and shards, *)
(* and every number of epochs, faults and restarts.                        *)
(*                                                                         *)
(* The argument.  Slots are numbered in the order of registration, so when *)
(* num_workers workers have registered, each shard belongs to one of them  *)
(* (SlotsInv, ShareInv).  In the coordinator's first life every epoch has  *)
(* one set of weights, also in what workers remember (FirstLife).  In its  *)
(* second life a worker may hold a gradient of an epoch that is yet to     *)
(* come; it has to hand in one of an earlier epoch first, and has replaced *)
(* it by then (SecondLife); this needs that a worker that still waits for  *)
(* a call has sent the gradient it holds (TalkInv).                        *)
(***************************************************************************)
EXTENDS Trainer, Integers, TLAPS, FiniteSetTheorems

-----------------------------------------------------------------------------
(* Types                                                                   *)

Gradient == [epoch : Nat, at : Nat, over : SUBSET Shard, own : SUBSET Shard]
Contribution ==
    [epoch : Nat, at : Nat, over : SUBSET Shard, own : SUBSET Shard, waited : BOOLEAN]
WorkerState ==
    [shards : SUBSET Shard, loaded : SUBSET Shard, pending : Gradient \cup {Nil},
     known_epoch : Nat \cup {Nil}, at : {"loop", "call", "done"}]
CallType == [worker : Worker, pending : Gradient \cup {Nil}, waited : BOOLEAN]
AnswerType ==
    [to : Worker, epoch : Nat, weights : Nat, terminate : BOOLEAN, shards : SUBSET Shard]

TypeInv ==
    /\ epoch \in Nat /\ weights \in Nat /\ steps \in Nat /\ crashes \in Nat
    /\ saved \in [epoch : Nat, weights : Nat]
    /\ slots \in [DOMAIN slots -> Nat] /\ DOMAIN slots \subseteq Worker
    /\ epoch_contrib \in [DOMAIN epoch_contrib -> Contribution]
    /\ DOMAIN epoch_contrib \subseteq DOMAIN slots
    /\ terminate \in BOOLEAN
    /\ node \in [Worker -> WorkerState]
    /\ calls \subseteq CallType
    /\ answers \subseteq AnswerType

-----------------------------------------------------------------------------
(* The invariants                                                          *)

\* Slots are given out one after the other, each to one worker
Numbered(s) ==
    /\ s \in [DOMAIN s -> Nat] /\ DOMAIN s \subseteq Worker
    /\ \A w \in DOMAIN s : s[w] < Cardinality(DOMAIN s)
    /\ \A w, v \in DOMAIN s : s[w] = s[v] => w = v
    /\ \A i \in Nat : i < Cardinality(DOMAIN s) => \E w \in DOMAIN s : s[w] = i

SlotsInv == Numbered(slots)

\* A worker waits for one call, which carries the gradient it still has
TalkInv ==
    /\ \A c \in calls : c.waited =>
         /\ node[c.worker].at = "call" /\ c.pending = node[c.worker].pending
         /\ \A a \in answers : a.to # c.worker
    /\ \A a \in answers : node[a.to].at = "call"
    /\ \A a, b \in answers : a.to = b.to => a = b

\* Weights v are those the coordinator had, or will restore, at epoch e
Known(e, v) ==
    /\ e <= epoch
    /\ e = epoch => v = weights
    /\ e = saved.epoch => v = saved.weights
    /\ e = 0 => v = 0

\* In the first life of the coordinator every epoch has one set of weights
FirstLife ==
    crashes = 0 =>
        /\ Known(epoch, weights) /\ Known(saved.epoch, saved.weights)
        /\ \A w \in Worker : node[w].pending # Nil =>
             Known(node[w].pending.epoch, node[w].pending.at)
        /\ \A c \in calls : c.pending # Nil => Known(c.pending.epoch, c.pending.at)
        /\ \A a \in answers : Known(a.epoch, a.weights)

\* A worker that registered and owns no shards: no step uses its gradients
Unused(w) == w \in DOMAIN slots /\ Assigned(slots[w]) = {}

\* The gradient of a worker is of an epoch that is still to come, from a former
\* life of the coordinator
Ahead(w) == node[w].pending # Nil /\ node[w].pending.epoch > epoch

\* Answers on their way are of no epoch to come
AnswersCurrent ==
    \A a \in answers : a.epoch <= epoch /\ (a.epoch = epoch => a.weights = weights)

\* Worker w holds no gradient of this epoch at other weights, and is not ahead
\* once it contributed or may still contribute with a call on its way
Behaves(w) ==
    /\ node[w].pending # Nil /\ node[w].pending.epoch = epoch => node[w].pending.at = weights
    /\ w \in DOMAIN epoch_contrib => ~Ahead(w)
    /\ \A c \in calls :
         c.worker = w /\ c.pending # Nil /\ c.pending.epoch <= epoch => ~Ahead(w)
    /\ w \in DOMAIN epoch_contrib /\ (crashes = 0 \/ epoch_contrib[w].waited) =>
         epoch_contrib[w].at = weights

\* In the second life, all behave whose gradients count
SecondLife ==
    crashes <= 1 => AnswersCurrent /\ \A w \in Worker : ~Unused(w) => Behaves(w)

LifeInv == FirstLife /\ SecondLife /\ StepAtCurrentWeights

\* Shards S are those of worker w in slots s
Owns(s, w, S) == w \in DOMAIN s /\ S = Assigned(s[w])

\* A gradient of worker w is over its own shards
OwnGradient(s, w, g) == Owns(s, w, g.own) /\ g.over \subseteq g.own

\* As long as the coordinator lives, a worker knows no shards but its own
ShareInv ==
    crashes = 0 =>
        /\ \A w \in Worker :
             /\ node[w].shards = {} \/ Owns(slots, w, node[w].shards)
             /\ node[w].loaded \subseteq node[w].shards
             /\ node[w].pending # Nil => OwnGradient(slots, w, node[w].pending)
        /\ \A c \in calls : c.pending # Nil => OwnGradient(slots, c.worker, c.pending)
        /\ \A a \in answers : a.shards = {} \/ Owns(slots, a.to, a.shards)
        /\ \A w \in DOMAIN epoch_contrib : OwnGradient(slots, w, epoch_contrib[w])

CoverInv == ShareInv /\ StepCoversShards
-----------------------------------------------------------------------------
(* What a heartbeat does                                                   *)

\* epoch_contrib once the gradient of a heartbeat is taken
Taken(c) == IF Counts(c, DOMAIN epoch_contrib) THEN Contributed(c) ELSE epoch_contrib

\* Contribution x is the gradient of call c
From(c, x) ==
    /\ c.pending \in Gradient /\ c.pending # Nil
    /\ x.epoch = c.pending.epoch /\ x.at = c.pending.at /\ x.over = c.pending.over
    /\ x.own = c.pending.own /\ x.waited = c.waited

\* The coordinator answers without a step
Quiet(c) ==
    /\ UNCHANGED <<epoch, weights, terminate, saved, steps, last>>
    /\ \/ slots' = slots /\ epoch_contrib' = epoch_contrib
       \/ slots' = Registered(c.worker) /\ epoch_contrib' = Taken(c)

\* The coordinator takes a step
Stepped(c) ==
    /\ slots' = Registered(c.worker)
    /\ Complete(slots', Taken(c)) /\ Step(slots', Taken(c))

\* The answer to call c, if a worker waits for it
Answers(c, a) ==
    /\ c.waited /\ a.to = c.worker /\ a.epoch = epoch' /\ a.weights = weights'
    /\ a.terminate = terminate'
    /\ a.shards = IF c.worker \in DOMAIN slots' THEN Assigned(slots'[c.worker]) ELSE {}
    /\ a = [to |-> a.to, epoch |-> a.epoch, weights |-> a.weights, terminate |-> a.terminate,
            shards |-> a.shards]

\* A heartbeat is handled quietly or with a step.
LEMMA HeartbeatIs ==
    ASSUME TypeInv, NEW c \in calls, Heartbeat(c)
    PROVE  /\ calls' = calls \ {c} /\ node' = node /\ crashes' = crashes
           /\ c \in CallType
           /\ \A a \in answers' : a \in answers \/ Answers(c, a)
           /\ Quiet(c) \/ Stepped(c)
<1>1. /\ calls' = calls \ {c} /\ node' = node /\ crashes' = crashes
      /\ answers' = IF c.waited THEN answers \cup {Response(c)} ELSE answers
  BY DEF Heartbeat
<1>2. c \in CallType
  BY DEF TypeInv
<1>3. c.waited => Answers(c, Response(c))
  BY DEF Response, Answers
<1>4. Quiet(c) \/ Stepped(c)
  <2>1. CASE terminate
    BY <2>1 DEF Heartbeat, coordinator, Quiet
  <2>2. CASE ~terminate
    BY <2>2 DEF Heartbeat, Quiet, Stepped, Taken
  <2> QED
    BY <2>1, <2>2
<1> QED
  BY <1>1, <1>2, <1>3, <1>4

\* Registering keeps what was given out.
LEMMA RegisteredIs ==
    ASSUME TypeInv, NEW w \in Worker
    PROVE  /\ DOMAIN Registered(w) = DOMAIN slots \cup {w}
           /\ \A x \in DOMAIN slots : Registered(w)[x] = slots[x]
           /\ w \notin DOMAIN slots => Registered(w)[w] = Cardinality(DOMAIN slots)
BY DEF Registered

\* Registering numbers the workers on.
LEMMA RegisteredNumbered ==
    ASSUME TypeInv, SlotsInv, IsFiniteSet(Worker), NEW w \in Worker
    PROVE  Numbered(Registered(w))
<1>1. CASE w \in DOMAIN slots
  BY <1>1 DEF Registered, SlotsInv
<1>2. CASE w \notin DOMAIN slots
  <2> DEFINE s == Registered(w)
             n == Cardinality(DOMAIN slots)
  <2>1. IsFiniteSet(DOMAIN slots)
    BY FS_Subset DEF TypeInv
  <2>2. n \in Nat /\ Cardinality(DOMAIN slots \cup {w}) = n + 1
    BY <1>2, <2>1, FS_CardinalityType, FS_AddElement
  <2>3. s = [x \in DOMAIN slots \cup {w} |-> IF x = w THEN n ELSE slots[x]]
    BY <1>2 DEF Registered
  <2> HIDE DEF s, n
  <2>4. /\ DOMAIN s = DOMAIN slots \cup {w} /\ s[w] = n
        /\ \A x \in DOMAIN slots : s[x] = slots[x]
    BY <1>2, <2>3
  <2>5. \A x \in DOMAIN slots : slots[x] \in Nat /\ slots[x] < n
    BY DEF SlotsInv, Numbered, n
  <2>6. s \in [DOMAIN s -> Nat] /\ DOMAIN s \subseteq Worker
    <3>1. \A x \in DOMAIN slots \cup {w} : (IF x = w THEN n ELSE slots[x]) \in Nat
      BY <2>2, <2>5
    <3>2. s \in [DOMAIN slots \cup {w} -> Nat]
      BY <2>3, <3>1
    <3> QED
      BY <2>4, <3>2 DEF TypeInv
  <2>7. \A x \in DOMAIN s : s[x] < n + 1
    BY <2>2, <2>4, <2>5
  <2>8. \A x, y \in DOMAIN s : s[x] = s[y] => x = y
    BY <2>2, <2>4, <2>5 DEF SlotsInv, Numbered
  <2>9. ASSUME NEW i \in Nat, i < n + 1
        PROVE  \E x \in DOMAIN s : s[x] = i
    <3>1. CASE i = n
      BY <2>4, <3>1
    <3>2. CASE i # n
      <4>1. i < n
        BY <2>2, <2>9, <3>2
      <4>2. PICK x \in DOMAIN slots : slots[x] = i
        BY <4>1 DEF SlotsInv, Numbered, n
      <4> QED
        BY <2>4, <4>2
    <3> QED
      BY <3>1, <3>2
  <2>10. Cardinality(DOMAIN s) = n + 1
    BY <2>2, <2>4
  <2> QED
    BY <2>6, <2>7, <2>8, <2>9, <2>10 DEF Numbered, s
<1> QED
  BY <1>1, <1>2

\* Taking a gradient keeps the others, and takes only one of this epoch.
LEMMA TakenIs ==
    ASSUME TypeInv, NEW c \in calls
    PROVE  /\ Taken(c) \in [DOMAIN Taken(c) -> Contribution]
           /\ DOMAIN Taken(c) \subseteq DOMAIN epoch_contrib \cup {c.worker}
           /\ \A w \in DOMAIN Taken(c) :
                \/ w \in DOMAIN epoch_contrib /\ Taken(c)[w] = epoch_contrib[w]
                \/ w = c.worker /\ From(c, Taken(c)[w]) /\ c.pending.epoch = epoch
<1>1. c \in CallType
  BY DEF TypeInv
<1>2. CASE ~Counts(c, DOMAIN epoch_contrib)
  BY <1>2 DEF Taken, TypeInv
<1>3. CASE Counts(c, DOMAIN epoch_contrib)
  <2> DEFINE g == c.pending
             new == [epoch |-> g.epoch, at |-> g.at, over |-> g.over, own |-> g.own,
                     waited |-> c.waited]
  <2>1. g \in Gradient /\ g # Nil /\ g.epoch = epoch /\ c.worker \notin DOMAIN epoch_contrib
    BY <1>1, <1>3 DEF Counts, CallType
  <2>2. c.waited \in BOOLEAN
    BY <1>1 DEF CallType
  <2>3. new \in Contribution /\ From(c, new)
    BY <2>1, <2>2 DEF Gradient, Contribution, From
  <2>4. Taken(c) = [w \in DOMAIN epoch_contrib \cup {c.worker} |->
                      IF w = c.worker THEN new ELSE epoch_contrib[w]]
    BY <1>3 DEF Taken, Contributed
  <2> HIDE DEF g, new
  <2>5. \A w \in DOMAIN epoch_contrib : epoch_contrib[w] \in Contribution
    BY DEF TypeInv
  <2> QED
    BY <2>1, <2>3, <2>4, <2>5 DEF g
<1> QED
  BY <1>2, <1>3

\* Nobody is registered, or has contributed, at the start.
LEMMA EmptyFunction ==
    /\ DOMAIN <<>> = {}
    /\ \A S : <<>> \in [DOMAIN <<>> -> S]
<1>1. DOMAIN <<>> = {}
  OBVIOUS
<1>2. ASSUME NEW S PROVE <<>> \in [{} -> S]
  <2>1. <<>> = [x \in {} |-> x]
    <3>1. <<>> \in Seq({})
      OBVIOUS
    <3> QED
      BY <1>1, <3>1
  <2> QED
    BY <2>1
<1> QED
  BY <1>1, <1>2

\* A step: the next epoch, with weights that may be put into the store.
LEMMA SteppedIs ==
    ASSUME TypeInv, NEW c \in calls, Stepped(c)
    PROVE  /\ epoch' = epoch + 1 /\ steps' = steps + 1 /\ weights' \in Nat
           /\ epoch_contrib' = <<>> /\ terminate' \in BOOLEAN
           /\ slots' = Registered(c.worker) /\ Complete(slots', Taken(c))
           /\ saved' = saved \/ saved' = [epoch |-> epoch', weights |-> weights']
           /\ last' = [at |-> weights, gradients |-> {Taken(c)[w] : w \in Contributors(slots')}]
<1>1. Step(slots', Taken(c)) /\ slots' = Registered(c.worker) /\ Complete(slots', Taken(c))
  BY DEF Stepped
<1>2. /\ epoch' = epoch + 1 /\ steps' = steps + 1
      /\ epoch_contrib' = <<>> /\ terminate' \in BOOLEAN
      /\ last' = [at |-> weights, gradients |-> {Taken(c)[w] : w \in Contributors(slots')}]
  BY <1>1 DEF Step
<1>3. weights' \in Nat
  BY <1>1 DEF Step, TypeInv
<1>4. saved' = saved \/ saved' = [epoch |-> epoch', weights |-> weights']
  BY <1>1 DEF Step
<1> QED
  BY <1>1, <1>2, <1>3, <1>4

\* The forms of Receive: the worker stops, or goes on with its gradient or a new
\* one.
Goes(a, m) ==
    LET n == node[a.to] IN
    /\ m \in WorkerState
    /\ m.shards = n.shards \/ (m.shards = a.shards /\ a.shards # {} /\ a.shards # n.shards)
    /\ m.loaded = n.loaded \/
         (m.shards = a.shards /\ a.shards # n.shards /\ m.loaded \subseteq n.loaded \cup m.shards)
    /\ \/ m.pending = n.pending
       \/ /\ m.shards # {} /\ m.pending \in Gradient
          /\ m.pending.epoch = a.epoch /\ m.pending.at = a.weights
          /\ m.pending.over = m.loaded /\ m.pending.own = m.shards
    /\ m.at # "call"

\* A worker that goes on, one that learns of an epoch, and one in another state
Loop(n, own, loaded) == [n EXCEPT !.at = "loop", !.shards = own, !.loaded = loaded]
Learn(n, e, g) == [n EXCEPT !.known_epoch = e, !.pending = g]
At(n, at) == [n EXCEPT !.at = at]

\* A worker that goes on keeps its gradient.
LEMMA LoopIs ==
    ASSUME NEW n \in WorkerState, NEW own \in SUBSET Shard, NEW loaded \in SUBSET Shard
    PROVE  /\ Loop(n, own, loaded) \in WorkerState
           /\ Loop(n, own, loaded).at = "loop" /\ Loop(n, own, loaded).shards = own
           /\ Loop(n, own, loaded).loaded = loaded
           /\ Loop(n, own, loaded).pending = n.pending
BY Zenon DEF WorkerState, Loop

\* A worker that learns of an epoch has a new gradient.
LEMMA LearnIs ==
    ASSUME NEW n \in WorkerState, NEW e \in Nat, NEW g \in Gradient
    PROVE  /\ Learn(n, e, g) \in WorkerState
           /\ Learn(n, e, g).at = n.at /\ Learn(n, e, g).shards = n.shards
           /\ Learn(n, e, g).loaded = n.loaded /\ Learn(n, e, g).pending = g
<1>1. e \in Nat \cup {Nil} /\ g \in Gradient \cup {Nil}
  OBVIOUS
<1> QED
  BY <1>1, Zenon DEF WorkerState, Learn

\* A worker that is told to stop, or is in another state, keeps the rest.
LEMMA AtIs ==
    ASSUME NEW n \in WorkerState, NEW at \in {"loop", "call", "done"}
    PROVE  /\ At(n, at) \in WorkerState /\ At(n, at).at = at /\ At(n, at).shards = n.shards
           /\ At(n, at).loaded = n.loaded /\ At(n, at).pending = n.pending
BY Zenon DEF WorkerState, At

\* The gradient that a worker computes for answer a
NewGradient(a, own, loaded) ==
    [epoch |-> a.epoch, at |-> a.weights, over |-> loaded, own |-> own]

\* A worker that gets an answer goes on in one of these forms.
LEMMA ReceiveIs ==
    ASSUME TypeInv, NEW a \in answers, Receive(a)
    PROVE  /\ answers' = answers \ {a} /\ calls' = calls /\ crashes' = crashes
           /\ UNCHANGED coordinator
           /\ \E m : node' = [node EXCEPT ![a.to] = m] /\ Goes(a, m)
<1>1. a \in AnswerType
  BY DEF TypeInv
<1>2. a.to \in Worker /\ a.epoch \in Nat /\ a.weights \in Nat /\ a.shards \in SUBSET Shard
  BY <1>1 DEF AnswerType
<1>3. PICK n \in WorkerState : n = node[a.to]
  BY <1>2 DEF TypeInv
<1>4. n.shards \in SUBSET Shard /\ n.loaded \in SUBSET Shard
  BY DEF WorkerState
<1>5. answers' = answers \ {a} /\ calls' = calls /\ crashes' = crashes /\ UNCHANGED coordinator
  BY DEF Receive
<1>6. CASE a.terminate
  <2>1. node' = [node EXCEPT ![a.to].at = "done"]
    BY <1>6 DEF Receive
  <2>2. PICK done \in {"loop", "call", "done"} : done = "done"
    OBVIOUS
  <2> DEFINE m == At(n, done)
  <2>3. node' = [node EXCEPT ![a.to] = m]
    BY <1>3, <2>1, <2>2 DEF At
  <2>4. /\ m \in WorkerState /\ m.at = done /\ m.shards = n.shards /\ m.loaded = n.loaded
        /\ m.pending = n.pending
    BY AtIs
  <2> HIDE DEF m
  <2>5. Goes(a, m)
    BY <1>3, <2>2, <2>4 DEF Goes
  <2> QED
    BY <1>5, <2>3, <2>5
<1>7. CASE ~a.terminate
  <2> DEFINE anew == a.shards # {} /\ a.shards # node[a.to].shards
             own == IF anew THEN a.shards ELSE node[a.to].shards
  <2>1. PICK loaded \in IF anew THEN {node[a.to].loaded \cup S : S \in SUBSET own}
                        ELSE {node[a.to].loaded} :
           \/ node' = [node EXCEPT ![a.to] = Loop(node[a.to], own, loaded)]
           \/ own # {} /\ node' = [node EXCEPT ![a.to] =
                Learn(Loop(node[a.to], own, loaded), a.epoch, NewGradient(a, own, loaded))]
    <3>1. PICK loaded \in IF anew THEN {node[a.to].loaded \cup S : S \in SUBSET own}
                          ELSE {node[a.to].loaded} :
            node' = [node EXCEPT ![a.to] =
                IF own # {} /\ a.epoch # node[a.to].known_epoch
                THEN Learn(Loop(node[a.to], own, loaded), a.epoch, NewGradient(a, own, loaded))
                ELSE Loop(node[a.to], own, loaded)]
      BY <1>7, Zenon DEF Receive, Loop, Learn, NewGradient
    <3> HIDE DEF own, anew
    <3> QED
      BY <3>1, Zenon
  <2>2. PICK o \in SUBSET Shard, l \in SUBSET Shard : o = own /\ l = loaded
    BY <1>2, <1>3, <1>4, <2>1
  <2>3. o = n.shards \/ (o = a.shards /\ a.shards # {} /\ a.shards # n.shards)
    BY <1>3, <2>2
  <2>4. \/ l = n.loaded
        \/ o = a.shards /\ a.shards # n.shards /\ l \subseteq n.loaded \cup o
    <3>1. CASE anew
      BY <1>3, <2>1, <2>2, <3>1
    <3>2. CASE ~anew
      BY <1>3, <2>1, <2>2, <3>2
    <3> QED
      BY <3>1, <3>2
  <2>5. PICK e \in Nat, g \in Gradient :
          /\ e = a.epoch /\ g = NewGradient(a, o, l)
          /\ g.epoch = a.epoch /\ g.at = a.weights /\ g.over = l /\ g.own = o
    <3>1. NewGradient(a, o, l) \in Gradient
      BY <1>2 DEF Gradient, NewGradient
    <3>2. /\ NewGradient(a, o, l).epoch = a.epoch /\ NewGradient(a, o, l).at = a.weights
          /\ NewGradient(a, o, l).over = l /\ NewGradient(a, o, l).own = o
      BY DEF NewGradient
    <3> QED
      BY <1>2, <3>1, <3>2
  <2> DEFINE m0 == Loop(n, o, l)
             m1 == Learn(m0, e, g)
  <2>6. node' = [node EXCEPT ![a.to] = m0] \/ (o # {} /\ node' = [node EXCEPT ![a.to] = m1])
    BY <1>3, <2>1, <2>2, <2>5
  <2>7. /\ m0 \in WorkerState /\ m0.at = "loop" /\ m0.shards = o /\ m0.loaded = l
        /\ m0.pending = n.pending
    BY LoopIs
  <2> HIDE DEF m0
  <2>9. /\ m1 \in WorkerState /\ m1.at = m0.at /\ m1.shards = m0.shards
        /\ m1.loaded = m0.loaded /\ m1.pending = g
    BY <2>7, LearnIs
  <2> HIDE DEF m1
  <2>10. Goes(a, m0)
    BY <1>3, <2>3, <2>4, <2>7 DEF Goes
  <2>11. o # {} => Goes(a, m1)
    BY <1>3, <2>3, <2>4, <2>5, <2>7, <2>9 DEF Goes
  <2> QED
    BY <1>5, <2>6, <2>10, <2>11
<1> QED
  BY <1>6, <1>7

\* The remaining steps leave the coordinator alone, but for Crash and Stop; a
\* worker sends what it holds, stops waiting, or forgets everything.
Sends(w) ==
    /\ node[w].at = "loop" /\ answers' = answers
    /\ \E c \in CallType :
         /\ c.worker = w /\ c.pending = node[w].pending /\ c.waited
         /\ calls' = calls \cup {c}
    /\ \E m \in WorkerState :
         /\ node' = [node EXCEPT ![w] = m] /\ m.at = "call"
         /\ m.shards = node[w].shards /\ m.loaded = node[w].loaded
         /\ m.pending = node[w].pending

\* Nobody waits for the calls of w any more
Abandoned(w) ==
    /\ answers' = {a \in answers : a.to # w}
    /\ calls' \subseteq CallType
    /\ \A c \in calls' : c.worker = w => ~c.waited
    /\ \A c \in calls' : \/ c \in calls
                         \/ c.worker = w /\ \E d \in calls : d.worker = w /\ d.pending = c.pending

\* Worker w goes on without the answer, or starts again
GivesUp(w) ==
    /\ Abandoned(w)
    /\ \E m \in WorkerState :
         /\ node' = [node EXCEPT ![w] = m] /\ m.at # "call"
         /\ \/ /\ m.shards = node[w].shards /\ m.loaded = node[w].loaded
               /\ m.pending = node[w].pending
            \/ m.shards = {} /\ m.loaded = {} /\ m.pending = Nil

\* The connections are gone
Quits ==
    /\ calls' = {} /\ answers' = {}
    /\ node' \in [Worker -> WorkerState]
    /\ \A w \in Worker :
         /\ node'[w].at # "call" /\ node'[w].shards = node[w].shards
         /\ node'[w].loaded = node[w].loaded /\ node'[w].pending = node[w].pending

\* The coordinator starts again, with the checkpoint or from nothing
Restores ==
    /\ crashes' = crashes + 1
    /\ \E model \in {saved, EmptyModel} : epoch' = model.epoch /\ weights' = model.weights
    /\ slots' = <<>> /\ epoch_contrib' = <<>> /\ terminate' = FALSE
    /\ saved' = saved /\ steps' = steps /\ last' = last

\* A worker sends the gradient it holds.
LEMMA SendIs ==
    ASSUME TypeInv, NEW w \in Worker, Send(w)
    PROVE  Sends(w) /\ UNCHANGED coordinator /\ crashes' = crashes
<1>1. PICK n \in WorkerState, at \in {"loop", "call", "done"} : n = node[w] /\ at = "call"
  BY DEF TypeInv
<1>2. PICK p \in Gradient \cup {Nil} : p = n.pending
  BY DEF WorkerState
<1> DEFINE c == [worker |-> w, pending |-> p, waited |-> TRUE]
           m == At(n, at)
<1>3. /\ node[w].at = "loop" /\ answers' = answers /\ calls' = calls \cup {c}
      /\ UNCHANGED coordinator /\ crashes' = crashes
  BY <1>1, <1>2 DEF Send
<1>4. node' = [node EXCEPT ![w] = m]
  BY <1>1 DEF Send, Calling, At
<1>5. c \in CallType /\ c.worker = w /\ c.pending = n.pending /\ c.waited
  BY <1>2 DEF CallType
<1>6. /\ m \in WorkerState /\ m.at = at /\ m.shards = n.shards /\ m.loaded = n.loaded
      /\ m.pending = n.pending
  BY AtIs
<1> HIDE DEF c, m
<1> QED
  BY <1>1, <1>3, <1>4, <1>5, <1>6 DEF Sends

\* The calls of a worker that does not wait any more.
LEMMA AbandonedIs ==
    ASSUME TypeInv, NEW w \in Worker,
           answers' = {a \in answers : a.to # w},
           calls' = {IF c.worker = w THEN [c EXCEPT !.waited = FALSE] ELSE c : c \in calls}
    PROVE  Abandoned(w)
<1> DEFINE Late(c) == [c EXCEPT !.waited = FALSE]
<1>1. ASSUME NEW d \in calls
      PROVE  Late(d) \in CallType /\ Late(d).worker = d.worker /\ Late(d).pending = d.pending
             /\ ~Late(d).waited
  BY DEF TypeInv, CallType
<1>2. ASSUME NEW c \in calls'
      PROVE  \/ c \in calls /\ c.worker # w
             \/ \E d \in calls : d.worker = w /\ c = Late(d)
  OBVIOUS
<1> HIDE DEF Late
<1>3. calls \subseteq CallType
  BY DEF TypeInv
<1> QED
  BY <1>1, <1>2, <1>3 DEF Abandoned

\* A worker stops waiting.
LEMMA TimeOutIs ==
    ASSUME TypeInv, NEW w \in Worker, TimeOut(w)
    PROVE  GivesUp(w) /\ UNCHANGED coordinator /\ crashes' = crashes
<1>1. PICK n \in WorkerState, at \in {"loop", "call", "done"} : n = node[w] /\ at = "loop"
  BY DEF TypeInv
<1>2. node' = [node EXCEPT ![w] = At(n, at)]
  BY <1>1 DEF TimeOut, At
<1>3. Abandoned(w) /\ UNCHANGED coordinator /\ crashes' = crashes
  BY AbandonedIs DEF TimeOut
<1> QED
  BY <1>1, <1>2, <1>3, AtIs DEF GivesUp

\* A worker starts again.
LEMMA RestartIs ==
    ASSUME TypeInv, NEW w \in Worker, Restart(w)
    PROVE  GivesUp(w) /\ UNCHANGED coordinator /\ crashes' = crashes
<1>1. node' = [node EXCEPT ![w] = NewWorker]
  BY DEF Restart
<1>2. NewWorker \in WorkerState /\ NewWorker.at # "call" /\ NewWorker.shards = {}
      /\ NewWorker.loaded = {} /\ NewWorker.pending = Nil
  BY DEF NewWorker, WorkerState
<1>3. Abandoned(w) /\ UNCHANGED coordinator /\ crashes' = crashes
  BY AbandonedIs DEF Restart
<1> QED
  BY <1>1, <1>2, <1>3 DEF GivesUp

\* The workers go on when the coordinator is gone.
LEMMA DisconnectedIs ==
    ASSUME TypeInv, Disconnected
    PROVE  Quits
<1>1. calls' = {} /\ answers' = {}
      /\ node' = [w \in Worker |-> IF node[w].at = "call" THEN [node[w] EXCEPT !.at = "loop"]
                                   ELSE node[w]]
  BY DEF Disconnected
<1>2. ASSUME NEW w \in Worker
      PROVE  /\ node'[w] \in WorkerState
             /\ node'[w].at # "call" /\ node'[w].shards = node[w].shards
             /\ node'[w].loaded = node[w].loaded /\ node'[w].pending = node[w].pending
  <2>1. PICK n \in WorkerState, at \in {"loop", "call", "done"} : n = node[w] /\ at = "loop"
    BY DEF TypeInv
  <2>2. node'[w] = At(n, at) \/ (node'[w] = n /\ n.at # "call")
    BY <1>1, <2>1 DEF At
  <2> QED
    BY <2>1, <2>2, AtIs
<1>3. node' \in [Worker -> WorkerState]
  BY <1>1, <1>2
<1> QED
  BY <1>1, <1>2, <1>3 DEF Quits

\* The coordinator is down after training, or restarts.
LEMMA CrashIs ==
    ASSUME TypeInv, Crash
    PROVE  Quits /\ Restores
<1>1. Quits
  BY DisconnectedIs DEF Crash
<1> QED
  BY <1>1 DEF Crash, Restores

\* Every step is one of these.
LEMMA StepForms ==
    ASSUME TypeInv, [Next]_vars
    PROVE  \/ \E c \in calls : Heartbeat(c)
           \/ \E a \in answers : Receive(a)
           \/ \E w \in Worker : Sends(w) /\ UNCHANGED coordinator /\ crashes' = crashes
           \/ \E w \in Worker : GivesUp(w) /\ UNCHANGED coordinator /\ crashes' = crashes
           \/ /\ Quits /\ UNCHANGED <<epoch, weights, slots, epoch_contrib, terminate, saved,
                                      steps, last, crashes>>
           \/ Quits /\ Restores
           \/ UNCHANGED vars
<1>1. ASSUME Stop
      PROVE  /\ Quits /\ UNCHANGED <<epoch, weights, slots, epoch_contrib, terminate, saved,
                                      steps, last, crashes>>
  BY <1>1, DisconnectedIs DEF Stop
<1> QED
  BY <1>1, SendIs, TimeOutIs, RestartIs, CrashIs DEF Next

-----------------------------------------------------------------------------
(* Types and slots                                                         *)

\* No slots are given out at the start.
LEMMA EmptyNumbered == Numbered(<<>>)
<1>1. Cardinality({}) = 0 /\ ~ \E i \in Nat : i < 0
  BY FS_EmptySet
<1> QED
  BY <1>1, EmptyFunction DEF Numbered

\* A heartbeat keeps the types.
LEMMA HeartbeatType ==
    ASSUME TypeInv, SlotsInv, IsFiniteSet(Worker), NEW c \in calls, Heartbeat(c)
    PROVE  TypeInv' /\ SlotsInv'
<1>1. /\ calls' = calls \ {c} /\ node' = node /\ crashes' = crashes /\ c \in CallType
      /\ \A a \in answers' : a \in answers \/ Answers(c, a)
      /\ Quiet(c) \/ Stepped(c)
  BY HeartbeatIs
<1>2. c.worker \in Worker
  BY <1>1 DEF CallType
<1>3. Numbered(slots') /\ Numbered(Registered(c.worker))
  BY <1>1, <1>2, RegisteredNumbered DEF Quiet, Stepped, SlotsInv
<1>4. /\ epoch' \in Nat /\ weights' \in Nat /\ steps' \in Nat /\ terminate' \in BOOLEAN
      /\ saved' \in [epoch : Nat, weights : Nat]
      /\ epoch_contrib' \in [DOMAIN epoch_contrib' -> Contribution]
      /\ DOMAIN epoch_contrib' \subseteq DOMAIN slots'
  <2>1. CASE Quiet(c)
    <3>1. /\ epoch' \in Nat /\ weights' \in Nat /\ steps' \in Nat /\ terminate' \in BOOLEAN
          /\ saved' \in [epoch : Nat, weights : Nat]
      BY <2>1 DEF Quiet, TypeInv
    <3>2. /\ epoch_contrib \in [DOMAIN epoch_contrib -> Contribution]
          /\ DOMAIN epoch_contrib \subseteq DOMAIN slots
      BY DEF TypeInv
    <3>3. /\ Taken(c) \in [DOMAIN Taken(c) -> Contribution]
          /\ DOMAIN Taken(c) \subseteq DOMAIN epoch_contrib \cup {c.worker}
      BY TakenIs
    <3>4. DOMAIN Registered(c.worker) = DOMAIN slots \cup {c.worker}
      BY <1>2, RegisteredIs
    <3>5. CASE slots' = slots /\ epoch_contrib' = epoch_contrib
      BY <3>1, <3>2, <3>5
    <3>6. CASE slots' = Registered(c.worker) /\ epoch_contrib' = Taken(c)
      BY <3>1, <3>2, <3>3, <3>4, <3>6
    <3> QED
      BY <2>1, <3>5, <3>6 DEF Quiet
  <2>2. CASE Stepped(c)
    <3>1. epoch' = epoch + 1 /\ steps' = steps + 1 /\ weights' \in Nat
          /\ epoch_contrib' = <<>> /\ terminate' \in BOOLEAN
          /\ (saved' = saved \/ saved' = [epoch |-> epoch', weights |-> weights'])
      BY <2>2, SteppedIs
    <3>2. epoch' \in Nat /\ steps' \in Nat
      BY <3>1 DEF TypeInv
    <3> QED
      BY <3>1, <3>2, EmptyFunction DEF TypeInv
  <2> QED
    BY <1>1, <2>1, <2>2
<1>5. answers' \subseteq AnswerType
  <2> SUFFICES ASSUME NEW a \in answers', Answers(c, a) PROVE a \in AnswerType
    BY <1>1 DEF TypeInv
  <2>1. \A k : Assigned(k) \in SUBSET Shard
    <3>1. \A i \in 1..Len(shards) : shards[i] \in Shard
      BY TrainerAssumption
    <3> QED
      BY <3>1 DEF Assigned
  <2>2. a.shards \in SUBSET Shard
    BY <2>1 DEF Answers
  <2>3. a.to \in Worker /\ a.epoch \in Nat /\ a.weights \in Nat /\ a.terminate \in BOOLEAN
    BY <1>2, <1>4 DEF Answers
  <2>4. a = [to |-> a.to, epoch |-> a.epoch, weights |-> a.weights,
             terminate |-> a.terminate, shards |-> a.shards]
    BY DEF Answers
  <2>5. \A x \in Worker, e \in Nat, v \in Nat, t \in BOOLEAN, S \in SUBSET Shard :
          [to |-> x, epoch |-> e, weights |-> v, terminate |-> t, shards |-> S] \in AnswerType
    BY DEF AnswerType
  <2> QED
    BY <2>2, <2>3, <2>4, <2>5
<1>6. TypeInv'
  BY <1>1, <1>3, <1>4, <1>5 DEF TypeInv, Numbered
<1> QED
  BY <1>3, <1>6 DEF SlotsInv

\* Every step keeps the types and the slots.
LEMMA TypeStep ==
    ASSUME TypeInv, SlotsInv, IsFiniteSet(Worker), [Next]_vars
    PROVE  TypeInv' /\ SlotsInv'
<1>1. ASSUME NEW a \in answers, Receive(a)
      PROVE  TypeInv' /\ SlotsInv'
  <2>1. PICK m : node' = [node EXCEPT ![a.to] = m] /\ Goes(a, m)
    BY <1>1, ReceiveIs
  <2>2. answers' = answers \ {a} /\ calls' = calls /\ crashes' = crashes /\ UNCHANGED coordinator
    BY <1>1, ReceiveIs
  <2>3. m \in WorkerState
    BY <2>1 DEF Goes
  <2> QED
    BY <2>1, <2>2, <2>3 DEF TypeInv, SlotsInv, coordinator
<1>2. ASSUME NEW w \in Worker, Sends(w), UNCHANGED coordinator, crashes' = crashes
      PROVE  TypeInv' /\ SlotsInv'
  <2>1. node' \in [Worker -> WorkerState] /\ calls' \subseteq CallType /\ answers' = answers
    BY <1>2 DEF Sends, TypeInv
  <2> QED
    BY <1>2, <2>1 DEF TypeInv, SlotsInv, coordinator
<1>3. ASSUME NEW w \in Worker, GivesUp(w), UNCHANGED coordinator, crashes' = crashes
      PROVE  TypeInv' /\ SlotsInv'
  <2>1. node' \in [Worker -> WorkerState] /\ calls' \subseteq CallType
        /\ answers' \subseteq AnswerType
    BY <1>3 DEF GivesUp, Abandoned, TypeInv
  <2> QED
    BY <1>3, <2>1 DEF TypeInv, SlotsInv, coordinator
<1>4. ASSUME Quits, UNCHANGED <<epoch, weights, slots, epoch_contrib, terminate, saved,
                                steps, last, crashes>>
      PROVE  TypeInv' /\ SlotsInv'
  <2>1. node' \in [Worker -> WorkerState] /\ calls' = {} /\ answers' = {}
    BY <1>4 DEF Quits
  <2> QED
    BY <1>4, <2>1 DEF TypeInv, SlotsInv
<1>5. ASSUME Quits, Restores
      PROVE  TypeInv' /\ SlotsInv'
  <2>1. node' \in [Worker -> WorkerState] /\ calls' = {} /\ answers' = {}
    BY <1>5 DEF Quits
  <2>2. /\ epoch' \in Nat /\ weights' \in Nat /\ steps' = steps /\ crashes' \in Nat
        /\ slots' = <<>> /\ epoch_contrib' = <<>> /\ terminate' \in BOOLEAN /\ saved' = saved
    <3>1. saved.epoch \in Nat /\ saved.weights \in Nat
      BY DEF TypeInv
    <3>2. EmptyModel.epoch \in Nat /\ EmptyModel.weights \in Nat
      BY DEF EmptyModel
    <3>3. epoch' \in Nat /\ weights' \in Nat
      BY <1>5, <3>1, <3>2 DEF Restores
    <3>4. crashes' \in Nat
      BY <1>5 DEF Restores, TypeInv
    <3> QED
      BY <1>5, <3>3, <3>4 DEF Restores
  <2> QED
    BY <2>1, <2>2, EmptyFunction, EmptyNumbered DEF TypeInv, SlotsInv, Numbered
<1>6. ASSUME UNCHANGED vars
      PROVE  TypeInv' /\ SlotsInv'
  BY <1>6 DEF vars, coordinator, TypeInv, SlotsInv
<1> QED
  BY <1>1, <1>2, <1>3, <1>4, <1>5, <1>6, StepForms, HeartbeatType

-----------------------------------------------------------------------------
(* Calls and answers                                                       *)

\* A heartbeat answers one call of a worker, which waits for this one only.
LEMMA HeartbeatTalk ==
    ASSUME TypeInv, TalkInv, NEW c \in calls, Heartbeat(c)
    PROVE  TalkInv'
<1>1. /\ calls' = calls \ {c} /\ node' = node /\ c \in CallType
      /\ \A a \in answers' : a \in answers \/ Answers(c, a)
  BY HeartbeatIs
<1>2. ASSUME NEW d \in calls', d.waited
      PROVE  /\ node[d.worker].at = "call" /\ d.pending = node[d.worker].pending
             /\ \A a \in answers' : a.to # d.worker
  <2>1. /\ node[d.worker].at = "call" /\ d.pending = node[d.worker].pending
        /\ \A a \in answers : a.to # d.worker
    BY <1>1, <1>2 DEF TalkInv
  <2>2. ASSUME c.waited, c.worker = d.worker
        PROVE  FALSE
    <3>1. c.pending = node[d.worker].pending
      BY <2>2 DEF TalkInv
    <3>2. d \in CallType
      BY <1>1 DEF TypeInv
    <3>3. c = d
      BY <1>1, <1>2, <2>1, <2>2, <3>1, <3>2 DEF CallType
    <3> QED
      BY <1>1, <1>2, <3>3
  <2> QED
    BY <1>1, <2>1, <2>2 DEF Answers
<1>3. ASSUME NEW a \in answers'
      PROVE  node[a.to].at = "call"
  BY <1>1, <1>3 DEF TalkInv, Answers
<1>4. ASSUME NEW a \in answers', NEW b \in answers', a.to = b.to
      PROVE  a = b
  <2>1. CASE a \in answers /\ b \in answers
    BY <1>4, <2>1 DEF TalkInv
  <2>2. CASE a \notin answers /\ b \notin answers
    BY <1>1, <2>2 DEF Answers
  <2>3. CASE a \in answers /\ b \notin answers
    BY <1>1, <1>4, <2>3 DEF TalkInv, Answers
  <2>4. CASE a \notin answers /\ b \in answers
    BY <1>1, <1>4, <2>4 DEF TalkInv, Answers
  <2> QED
    BY <2>1, <2>2, <2>3, <2>4
<1> QED
  BY <1>1, <1>2, <1>3, <1>4 DEF TalkInv

\* Every step keeps the talk of the workers sound.
LEMMA TalkStep ==
    ASSUME TypeInv, TalkInv, [Next]_vars
    PROVE  TalkInv'
<1>1. ASSUME NEW a \in answers, Receive(a)
      PROVE  TalkInv'
  <2>1. PICK m : node' = [node EXCEPT ![a.to] = m] /\ Goes(a, m)
    BY <1>1, ReceiveIs
  <2>2. answers' = answers \ {a} /\ calls' = calls
    BY <1>1, ReceiveIs
  <2>3. \A w \in Worker : w # a.to => node'[w] = node[w]
    BY <2>1 DEF TypeInv
  <2>4. \A c \in calls : c.waited => c.worker # a.to
    BY DEF TalkInv
  <2>5. \A b \in answers' : b.to # a.to /\ b \in answers
    BY <2>2 DEF TalkInv
  <2>6. /\ \A c \in calls : c.worker \in Worker
        /\ \A b \in answers : b.to \in Worker
    BY DEF TypeInv, CallType, AnswerType
  <2> QED
    BY <2>2, <2>3, <2>4, <2>5, <2>6 DEF TalkInv
<1>2. ASSUME NEW w \in Worker, Sends(w)
      PROVE  TalkInv'
  <2>1. PICK c \in CallType :
          /\ c.worker = w /\ c.pending = node[w].pending /\ c.waited
          /\ calls' = calls \cup {c}
    BY <1>2 DEF Sends
  <2>2. PICK m \in WorkerState :
         /\ node' = [node EXCEPT ![w] = m] /\ m.at = "call" /\ m.pending = node[w].pending
    BY <1>2 DEF Sends
  <2>3. node[w].at = "loop" /\ answers' = answers
    BY <1>2 DEF Sends
  <2>4. node'[w] = m /\ \A v \in Worker : v # w => node'[v] = node[v]
    BY <2>2 DEF TypeInv
  <2>5. /\ \A d \in calls : d.worker \in Worker
        /\ \A b \in answers : b.to \in Worker
    BY DEF TypeInv, CallType, AnswerType
  <2>6. \A b \in answers : b.to # w
    BY <2>3 DEF TalkInv
  <2>7. \A d \in calls : d.waited => d.worker # w
    BY <2>3 DEF TalkInv
  <2>8. ASSUME NEW d \in calls', d.waited
        PROVE  /\ node'[d.worker].at = "call" /\ d.pending = node'[d.worker].pending
               /\ \A a \in answers' : a.to # d.worker
    <3>1. CASE d = c
      BY <2>1, <2>2, <2>3, <2>4, <2>6, <3>1
    <3>2. CASE d # c
      BY <2>1, <2>3, <2>4, <2>5, <2>7, <2>8, <3>2 DEF TalkInv
    <3> QED
      BY <3>1, <3>2
  <2> QED
    BY <2>3, <2>4, <2>5, <2>6, <2>8 DEF TalkInv
<1>3. ASSUME NEW w \in Worker, GivesUp(w)
      PROVE  TalkInv'
  <2>1. PICK m : node' = [node EXCEPT ![w] = m]
    BY <1>3 DEF GivesUp
  <2>2. /\ answers' = {a \in answers : a.to # w}
        /\ \A c \in calls' : c.worker = w => ~c.waited
        /\ \A c \in calls' : c.waited => c \in calls
    BY <1>3 DEF GivesUp, Abandoned
  <2>3. /\ \A d \in calls : d.worker \in Worker
        /\ \A b \in answers : b.to \in Worker
    BY DEF TypeInv, CallType, AnswerType
  <2>4. \A v \in Worker : v # w => node'[v] = node[v]
    BY <2>1 DEF TypeInv
  <2> QED
    BY <2>2, <2>3, <2>4 DEF TalkInv
<1>4. ASSUME Quits
      PROVE  TalkInv'
  BY <1>4 DEF Quits, TalkInv
<1>5. ASSUME UNCHANGED vars
      PROVE  TalkInv'
  BY <1>5 DEF vars, TalkInv
<1> QED
  BY <1>1, <1>2, <1>3, <1>4, <1>5, StepForms, HeartbeatTalk

-----------------------------------------------------------------------------
(* The weights                                                             *)

\* Once all workers have registered, those that contribute own shards and those
\* that own shards contribute.
LEMMA CompleteIs ==
    ASSUME NEW s, DOMAIN s \subseteq Worker, IsFiniteSet(Worker),
           Cardinality(Worker) <= num_workers, NEW contrib, Complete(s, contrib)
    PROVE  /\ DOMAIN s = Worker
           /\ Cardinality(Worker) = num_workers
           /\ \A w \in Worker : Assigned(s[w]) # {} => w \in DOMAIN contrib
<1>1. /\ Cardinality(DOMAIN s) \in Nat /\ Cardinality(Worker) \in Nat
      /\ IsFiniteSet(DOMAIN s) /\ Cardinality(DOMAIN s) <= Cardinality(Worker)
      /\ Cardinality(DOMAIN s) = Cardinality(Worker) => DOMAIN s = Worker
  BY FS_Subset, FS_CardinalityType
<1>2. Cardinality(DOMAIN s) >= num_workers /\ Contributors(s) \subseteq DOMAIN contrib
  BY DEF Complete
<1>3. Cardinality(DOMAIN s) = Cardinality(Worker) /\ Cardinality(Worker) = num_workers
  BY <1>1, <1>2, TrainerAssumption
<1> QED
  BY <1>1, <1>2, <1>3 DEF Contributors

\* The facts the invariant of the first life states of one epoch and its weights
\* outlast a step.
LEMMA KnownStep ==
    ASSUME TypeInv, NEW c \in calls, Stepped(c), NEW e \in Nat, NEW v \in Nat, Known(e, v)
    PROVE  Known(e, v)'
<1>1. /\ epoch' = epoch + 1 /\ epoch \in Nat
      /\ saved' = saved \/ saved' = [epoch |-> epoch', weights |-> weights']
  BY SteppedIs DEF TypeInv
<1>2. e < epoch' /\ e <= epoch'
  BY <1>1 DEF Known
<1>3. e = saved'.epoch => saved' = saved
  BY <1>1, <1>2
<1> QED
  BY <1>2, <1>3 DEF Known

\* The new epoch and its weights are known after a step, the checkpoint too.
LEMMA KnownAnew ==
    ASSUME TypeInv, FirstLife, crashes = 0, NEW c \in calls, Stepped(c)
    PROVE  Known(epoch, weights)' /\ Known(saved.epoch, saved.weights)'
<1>1. /\ epoch' = epoch + 1 /\ epoch \in Nat /\ weights' \in Nat
      /\ saved' = saved \/ (saved'.epoch = epoch' /\ saved'.weights = weights')
      /\ saved.epoch \in Nat /\ saved.weights \in Nat
  BY SteppedIs DEF TypeInv
<1>2. Known(saved.epoch, saved.weights)
  BY DEF FirstLife
<1>3. saved.epoch < epoch' /\ epoch' # 0
  BY <1>1, <1>2 DEF Known
<1>4. Known(epoch, weights)'
  BY <1>1, <1>3 DEF Known
<1>5. Known(saved.epoch, saved.weights)'
  BY <1>1, <1>2, <1>3, <1>4, KnownStep DEF Known
<1> QED
  BY <1>4, <1>5

\* A heartbeat keeps the weights of the first life.
LEMMA HeartbeatFirst ==
    ASSUME TypeInv, FirstLife, NEW c \in calls, Heartbeat(c)
    PROVE  FirstLife'
<1> SUFFICES ASSUME crashes' = 0
             PROVE  /\ Known(epoch, weights)' /\ Known(saved.epoch, saved.weights)'
                    /\ \A w \in Worker : node'[w].pending # Nil =>
                         Known(node[w].pending.epoch, node[w].pending.at)'
                    /\ \A d \in calls' : d.pending # Nil =>
                         Known(d.pending.epoch, d.pending.at)'
                    /\ \A a \in answers' : Known(a.epoch, a.weights)'
  BY DEF FirstLife
<1>1. /\ calls' = calls \ {c} /\ node' = node /\ crashes = 0
      /\ \A a \in answers' : a \in answers \/ Answers(c, a)
      /\ Quiet(c) \/ Stepped(c)
  BY HeartbeatIs
<1>2. ASSUME NEW e \in Nat, NEW v \in Nat, Known(e, v)
      PROVE  Known(e, v)'
  <2>1. CASE Quiet(c)
    BY <1>2, <2>1 DEF Quiet, Known
  <2>2. CASE Stepped(c)
    BY <1>2, <2>2, KnownStep
  <2> QED
    BY <1>1, <2>1, <2>2
<1>3. Known(epoch, weights)' /\ Known(saved.epoch, saved.weights)'
  <2>1. CASE Quiet(c)
    BY <1>1, <2>1 DEF Quiet, Known, FirstLife
  <2>2. CASE Stepped(c)
    BY <1>1, <2>2, KnownAnew
  <2> QED
    BY <1>1, <2>1, <2>2
<1>4. ASSUME NEW w \in Worker, node[w].pending # Nil
      PROVE  Known(node[w].pending.epoch, node[w].pending.at)'
  <2>1. node[w].pending \in Gradient
    BY <1>4 DEF TypeInv, WorkerState
  <2>2. PICK e \in Nat, v \in Nat : e = node[w].pending.epoch /\ v = node[w].pending.at
    BY <2>1 DEF Gradient
  <2>3. Known(e, v)
    BY <1>1, <1>4, <2>2 DEF FirstLife
  <2> QED
    BY <1>1, <1>2, <2>2, <2>3
<1>5. ASSUME NEW d \in calls, d.pending # Nil
      PROVE  Known(d.pending.epoch, d.pending.at)'
  <2>1. d.pending \in Gradient
    BY <1>5 DEF TypeInv, CallType
  <2>2. PICK e \in Nat, v \in Nat : e = d.pending.epoch /\ v = d.pending.at
    BY <2>1 DEF Gradient
  <2>3. Known(e, v)
    BY <1>1, <1>5, <2>2 DEF FirstLife
  <2> QED
    BY <1>2, <2>2, <2>3
<1>6. ASSUME NEW a \in answers'
      PROVE  Known(a.epoch, a.weights)'
  <2>1. CASE a \in answers
    <3>1. PICK e \in Nat, v \in Nat : e = a.epoch /\ v = a.weights
      BY <2>1 DEF TypeInv, AnswerType
    <3>2. Known(e, v)
      BY <1>1, <2>1, <3>1 DEF FirstLife
    <3> QED
      BY <1>2, <3>1, <3>2
  <2>2. CASE Answers(c, a)
    BY <1>3, <2>2 DEF Answers
  <2> QED
    BY <1>1, <2>1, <2>2
<1> QED
  BY <1>1, <1>3, <1>4, <1>5, <1>6

\* Every step keeps the weights of the first life.
LEMMA FirstStep ==
    ASSUME TypeInv, FirstLife, [Next]_vars
    PROVE  FirstLife'
<1> SUFFICES ASSUME crashes' = 0, ~ \E c \in calls : Heartbeat(c)
             PROVE  /\ Known(epoch, weights)' /\ Known(saved.epoch, saved.weights)'
                    /\ \A w \in Worker : node'[w].pending # Nil =>
                         Known(node[w].pending.epoch, node[w].pending.at)'
                    /\ \A d \in calls' : d.pending # Nil =>
                         Known(d.pending.epoch, d.pending.at)'
                    /\ \A a \in answers' : Known(a.epoch, a.weights)'
  BY HeartbeatFirst DEF FirstLife
<1>1. CASE \E a \in answers : Receive(a)
  <2>1. PICK a \in answers : Receive(a)
    BY <1>1
  <2>2. PICK m : node' = [node EXCEPT ![a.to] = m] /\ Goes(a, m)
    BY <2>1, ReceiveIs
  <2>3. /\ answers' = answers \ {a} /\ calls' = calls /\ crashes' = crashes
        /\ epoch' = epoch /\ weights' = weights /\ saved' = saved
    BY <2>1, ReceiveIs DEF coordinator
  <2>4. \A e, v : Known(e, v)' <=> Known(e, v)
    BY <2>3 DEF Known
  <2>5. /\ Known(epoch, weights) /\ Known(saved.epoch, saved.weights)
        /\ \A w \in Worker : node[w].pending # Nil =>
             Known(node[w].pending.epoch, node[w].pending.at)
        /\ \A d \in calls : d.pending # Nil => Known(d.pending.epoch, d.pending.at)
        /\ \A b \in answers : Known(b.epoch, b.weights)
    BY <2>3 DEF FirstLife
  <2>6. a.to \in Worker /\ node'[a.to] = m /\ \A w \in Worker : w # a.to => node'[w] = node[w]
    BY <2>2 DEF TypeInv, AnswerType
  <2>7. m.pending # Nil => Known(m.pending.epoch, m.pending.at)
    BY <2>2, <2>5, <2>6 DEF Goes
  <2>8. ASSUME NEW w \in Worker, node'[w].pending # Nil
        PROVE  Known(node'[w].pending.epoch, node'[w].pending.at)
    BY <2>5, <2>6, <2>7, <2>8
  <2> QED
    BY <2>3, <2>4, <2>5, <2>8
<1>2. CASE \E w \in Worker : Sends(w) /\ UNCHANGED coordinator /\ crashes' = crashes
  <2>1. PICK w \in Worker : Sends(w) /\ UNCHANGED coordinator /\ crashes' = crashes
    BY <1>2
  <2>2. /\ crashes' = crashes /\ epoch' = epoch /\ weights' = weights /\ saved' = saved
    BY <2>1 DEF coordinator
  <2>3. \A e, v : Known(e, v)' <=> Known(e, v)
    BY <2>2 DEF Known
  <2>4. PICK c \in CallType : c.pending = node[w].pending /\ calls' = calls \cup {c}
    BY <2>1 DEF Sends
  <2>5. PICK m \in WorkerState : node' = [node EXCEPT ![w] = m] /\ m.pending = node[w].pending
    BY <2>1 DEF Sends
  <2>6. answers' = answers
    BY <2>1 DEF Sends
  <2>7. \A v \in Worker : node'[v].pending = node[v].pending
    BY <2>5 DEF TypeInv
  <2>8. /\ Known(epoch, weights) /\ Known(saved.epoch, saved.weights)
        /\ \A v \in Worker : node[v].pending # Nil =>
             Known(node[v].pending.epoch, node[v].pending.at)
        /\ \A d \in calls : d.pending # Nil => Known(d.pending.epoch, d.pending.at)
        /\ \A b \in answers : Known(b.epoch, b.weights)
    BY <2>2 DEF FirstLife
  <2>9. ASSUME NEW d \in calls', d.pending # Nil
        PROVE  Known(d.pending.epoch, d.pending.at)
    BY <2>4, <2>8, <2>9
  <2> QED
    BY <2>2, <2>3, <2>6, <2>7, <2>8, <2>9
<1>3. CASE \E w \in Worker : GivesUp(w) /\ UNCHANGED coordinator /\ crashes' = crashes
  <2>1. PICK w \in Worker : GivesUp(w) /\ UNCHANGED coordinator /\ crashes' = crashes
    BY <1>3
  <2>2. /\ crashes' = crashes /\ epoch' = epoch /\ weights' = weights /\ saved' = saved
    BY <2>1 DEF coordinator
  <2>3. \A e, v : Known(e, v)' <=> Known(e, v)
    BY <2>2 DEF Known
  <2>4. /\ answers' \subseteq answers
        /\ \A c \in calls' : \E d \in calls : d.pending = c.pending
    BY <2>1 DEF GivesUp, Abandoned
  <2>5. PICK m \in WorkerState :
          node' = [node EXCEPT ![w] = m] /\ (m.pending = node[w].pending \/ m.pending = Nil)
    BY <2>1 DEF GivesUp
  <2>6. \A v \in Worker : node'[v].pending = node[v].pending \/ node'[v].pending = Nil
    BY <2>5 DEF TypeInv
  <2>7. /\ Known(epoch, weights) /\ Known(saved.epoch, saved.weights)
        /\ \A v \in Worker : node[v].pending # Nil =>
             Known(node[v].pending.epoch, node[v].pending.at)
        /\ \A d \in calls : d.pending # Nil => Known(d.pending.epoch, d.pending.at)
        /\ \A b \in answers : Known(b.epoch, b.weights)
    BY <2>2 DEF FirstLife
  <2>8. ASSUME NEW d \in calls', d.pending # Nil
        PROVE  Known(d.pending.epoch, d.pending.at)
    BY <2>4, <2>7, <2>8
  <2>9. ASSUME NEW v \in Worker, node'[v].pending # Nil
        PROVE  Known(node'[v].pending.epoch, node'[v].pending.at)
    BY <2>6, <2>7, <2>9
  <2> QED
    BY <2>2, <2>3, <2>4, <2>7, <2>8, <2>9
<1>4. CASE Quits /\ UNCHANGED <<epoch, weights, slots, epoch_contrib, terminate, saved,
                                steps, last, crashes>>
  <2>1. \A e, v : Known(e, v)' <=> Known(e, v)
    BY <1>4 DEF Known
  <2>2. calls' = {} /\ answers' = {} /\ \A w \in Worker : node'[w].pending = node[w].pending
    BY <1>4 DEF Quits
  <2> QED
    BY <1>4, <2>1, <2>2 DEF FirstLife
<1>5. CASE Quits /\ Restores
  <2>1. crashes' = crashes + 1 /\ crashes \in Nat
    BY <1>5 DEF Restores, TypeInv
  <2> QED
    BY <2>1
<1>6. CASE UNCHANGED vars
  <2>1. \A e, v : Known(e, v)' <=> Known(e, v)
    BY <1>6 DEF Known, vars, coordinator
  <2> QED
    BY <1>6, <2>1 DEF FirstLife, vars, coordinator
<1> QED
  BY <1>1, <1>2, <1>3, <1>4, <1>5, <1>6, StepForms

\* A contribution of this epoch that counts was computed at its weights, and its
\* worker is not ahead.
LEMMA TakenLife ==
    ASSUME TypeInv, TalkInv, FirstLife, SecondLife, crashes <= 1, NEW c \in calls,
           NEW w \in Worker, ~Unused(w), w \in DOMAIN Taken(c)
    PROVE  /\ ~Ahead(w)
           /\ crashes = 0 \/ Taken(c)[w].waited => Taken(c)[w].at = weights
<1>1. Behaves(w)
  BY DEF SecondLife
<1>2. \/ w \in DOMAIN epoch_contrib /\ Taken(c)[w] = epoch_contrib[w]
      \/ w = c.worker /\ From(c, Taken(c)[w]) /\ c.pending.epoch = epoch
  BY TakenIs
<1>3. CASE w \in DOMAIN epoch_contrib /\ Taken(c)[w] = epoch_contrib[w]
  BY <1>1, <1>3 DEF Behaves
<1>4. CASE w = c.worker /\ From(c, Taken(c)[w]) /\ c.pending.epoch = epoch
  <2>1. /\ c.pending \in Gradient /\ c.pending # Nil
        /\ Taken(c)[w].at = c.pending.at /\ Taken(c)[w].waited = c.waited
    BY <1>4 DEF From
  <2>2. c.pending.epoch <= epoch
    BY <1>4 DEF TypeInv
  <2>3. ~Ahead(w)
    BY <1>1, <1>4, <2>1, <2>2 DEF Behaves
  <2>4. c.waited => c.pending.at = weights
    <3>1. c.waited => c.pending = node[w].pending
      BY <1>4 DEF TalkInv
    <3> QED
      BY <1>1, <1>4, <2>1, <3>1 DEF Behaves
  <2>5. crashes = 0 => c.pending.at = weights
    BY <1>4, <2>1 DEF FirstLife, Known
  <2> QED
    BY <2>1, <2>3, <2>4, <2>5
<1> QED
  BY <1>2, <1>3, <1>4

\* Whoever is of use after a worker has registered was of use before.
LEMMA UnusedGrows ==
    ASSUME TypeInv, NEW v \in Worker, slots' = slots \/ slots' = Registered(v),
           NEW w \in Worker, Unused(w)
    PROVE  Unused(w)'
BY RegisteredIs DEF Unused

\* Once all registered, those who are of use contributed.
LEMMA SteppedTakes ==
    ASSUME TypeInv, SlotsInv, IsFiniteSet(Worker), Cardinality(Worker) <= num_workers,
           NEW c \in calls, Stepped(c), NEW w \in Worker
    PROVE  /\ w \in DOMAIN slots'
           /\ ~Unused(w)' => ~Unused(w) /\ w \in DOMAIN Taken(c)
           /\ w \in Contributors(slots') => ~Unused(w)'
<1>1. c.worker \in Worker
  BY DEF TypeInv, CallType
<1>2. slots' = Registered(c.worker) /\ Complete(slots', Taken(c))
  BY SteppedIs
<1>3. DOMAIN slots' \subseteq Worker
  <2>1. DOMAIN Registered(c.worker) = DOMAIN slots \cup {c.worker}
    BY <1>1, RegisteredIs
  <2> QED
    BY <1>1, <1>2, <2>1 DEF TypeInv
<1>4. /\ DOMAIN slots' = Worker
      /\ Assigned(slots'[w]) # {} => w \in DOMAIN Taken(c)
  BY <1>2, <1>3, CompleteIs
<1>5. Unused(w)' = (w \in DOMAIN slots' /\ Assigned(slots'[w]) = {})
  BY DEF Unused
<1>6. Unused(w) => Unused(w)'
  BY <1>1, <1>2, UnusedGrows
<1> QED
  BY <1>4, <1>5, <1>6 DEF Contributors

\* A heartbeat keeps the second life sound.
LEMMA HeartbeatSecond ==
    ASSUME TypeInv, SlotsInv, TalkInv, FirstLife, SecondLife,
           IsFiniteSet(Worker), Cardinality(Worker) <= num_workers,
           NEW c \in calls, Heartbeat(c)
    PROVE  SecondLife'
<1>1. /\ calls' = calls \ {c} /\ node' = node /\ crashes' = crashes /\ c \in CallType
      /\ \A a \in answers' : a \in answers \/ Answers(c, a)
      /\ Quiet(c) \/ Stepped(c)
  BY HeartbeatIs
<1> SUFFICES ASSUME crashes <= 1
             PROVE  AnswersCurrent' /\ \A w \in Worker : ~Unused(w)' => Behaves(w)'
  BY <1>1 DEF SecondLife
<1>2. AnswersCurrent /\ \A w \in Worker : ~Unused(w) => Behaves(w)
  BY DEF SecondLife
<1>3. c.worker \in Worker
  BY <1>1 DEF CallType
<1>4. epoch \in Nat /\ \A a \in answers : a.epoch \in Nat
  BY DEF TypeInv, AnswerType
<1>5. CASE Quiet(c)
  <2>1. epoch' = epoch /\ weights' = weights
        /\ (slots' = slots \/ slots' = Registered(c.worker))
        /\ (epoch_contrib' = epoch_contrib \/ epoch_contrib' = Taken(c))
    BY <1>5 DEF Quiet
  <2>2. AnswersCurrent'
    BY <1>1, <1>2, <1>4, <2>1 DEF AnswersCurrent, Answers
  <2>3. ASSUME NEW w \in Worker, ~Unused(w)'
        PROVE  Behaves(w)'
    <3>1. ~Unused(w)
      BY <1>3, <2>1, <2>3, UnusedGrows
    <3>2. Behaves(w)
      BY <1>2, <3>1
    <3>3. Ahead(w)' <=> Ahead(w)
      BY <1>1, <2>1 DEF Ahead
    <3>4. w \in DOMAIN epoch_contrib' =>
            /\ ~Ahead(w)
            /\ crashes = 0 \/ epoch_contrib'[w].waited => epoch_contrib'[w].at = weights
      BY <2>1, <3>1, <3>2, TakenLife DEF Behaves
    <3> QED
      BY <1>1, <2>1, <3>2, <3>3, <3>4 DEF Behaves
  <2> QED
    BY <2>2, <2>3
<1>6. CASE Stepped(c)
  <2>1. epoch' = epoch + 1 /\ epoch_contrib' = <<>>
    BY <1>6, SteppedIs
  <2>2. AnswersCurrent'
    <3> SUFFICES ASSUME NEW a \in answers'
                 PROVE  a.epoch <= epoch' /\ (a.epoch = epoch' => a.weights = weights')
      BY DEF AnswersCurrent
    <3>1. CASE a \in answers
      <4>1. a.epoch <= epoch /\ a.epoch \in Nat
        BY <1>2, <1>4, <3>1 DEF AnswersCurrent
      <4> QED
        BY <1>4, <2>1, <4>1
    <3>2. CASE Answers(c, a)
      BY <1>4, <2>1, <3>2 DEF Answers
    <3> QED
      BY <1>1, <3>1, <3>2
  <2>3. ASSUME NEW w \in Worker, ~Unused(w)'
        PROVE  Behaves(w)'
    <3>1. ~Unused(w) /\ w \in DOMAIN Taken(c)
      BY <1>6, <2>3, SteppedTakes
    <3>2. ~Ahead(w)
      BY <3>1, TakenLife
    <3>3. node[w].pending # Nil => node[w].pending.epoch \in Nat
      BY DEF TypeInv, WorkerState, Gradient
    <3>4. ~(node'[w].pending # Nil /\ node'[w].pending.epoch >= epoch')
      BY <1>1, <1>4, <2>1, <3>2, <3>3 DEF Ahead
    <3>5. ~Ahead(w)' /\ ~(node'[w].pending # Nil /\ node'[w].pending.epoch = epoch')
      BY <1>1, <1>4, <2>1, <3>3, <3>4 DEF Ahead
    <3>6. DOMAIN epoch_contrib' = {}
      BY <2>1, EmptyFunction
    <3> QED
      BY <3>5, <3>6 DEF Behaves
  <2> QED
    BY <2>2, <2>3
<1> QED
  BY <1>1, <1>5, <1>6

\* The coordinator leaves the second life alone; an answer is only taken away.
LEMMA AnswersFewer ==
    ASSUME AnswersCurrent, answers' \subseteq answers, epoch' = epoch, weights' = weights
    PROVE  AnswersCurrent'
BY DEF AnswersCurrent

\* A worker that takes an answer holds no gradient of an epoch to come, if it
\* takes the new one.
LEMMA ReceiveSecond ==
    ASSUME TypeInv, SecondLife, NEW a \in answers, Receive(a)
    PROVE  SecondLife'
<1>1. PICK m : node' = [node EXCEPT ![a.to] = m] /\ Goes(a, m)
  BY ReceiveIs
<1>2. /\ answers' = answers \ {a} /\ calls' = calls /\ crashes' = crashes
      /\ epoch' = epoch /\ weights' = weights /\ slots' = slots /\ epoch_contrib' = epoch_contrib
  BY ReceiveIs DEF coordinator
<1> SUFFICES ASSUME crashes <= 1
             PROVE  AnswersCurrent' /\ \A w \in Worker : ~Unused(w)' => Behaves(w)'
  BY <1>2 DEF SecondLife
<1>3. AnswersCurrent /\ \A w \in Worker : ~Unused(w) => Behaves(w)
  BY DEF SecondLife
<1>4. AnswersCurrent'
  BY <1>2, <1>3, AnswersFewer
<1>5. a.to \in Worker /\ node'[a.to] = m /\ \A w \in Worker : w # a.to => node'[w] = node[w]
  BY <1>1 DEF TypeInv, AnswerType
<1>6. a.epoch \in Nat /\ epoch \in Nat /\ a.epoch <= epoch
      /\ (a.epoch = epoch => a.weights = weights)
  BY <1>3 DEF AnswersCurrent, TypeInv, AnswerType
<1>7. ASSUME NEW w \in Worker, ~Unused(w)'
      PROVE  Behaves(w)'
  <2>1. Behaves(w)
    BY <1>2, <1>3, <1>7 DEF Unused
  <2>2. CASE node'[w].pending = node[w].pending
    <3>1. Ahead(w)' <=> Ahead(w)
      BY <1>2, <2>2 DEF Ahead
    <3> QED
      BY <1>2, <2>1, <2>2, <3>1 DEF Behaves
  <2>3. CASE w = a.to /\ m.pending.epoch = a.epoch /\ m.pending.at = a.weights
    <3>1. ~Ahead(w)'
      BY <1>2, <1>5, <1>6, <2>3 DEF Ahead
    <3> QED
      BY <1>2, <1>5, <1>6, <2>1, <2>3, <3>1 DEF Behaves
  <2> QED
    BY <1>1, <1>5, <2>2, <2>3 DEF Goes
<1> QED
  BY <1>4, <1>7

\* Sending, giving up and losing the connection keep what workers hold, or
\* forget it, and leave no call with another gradient than that of before.
LEMMA TalksSecond ==
    ASSUME TypeInv, SecondLife, crashes' = crashes, epoch' = epoch, weights' = weights,
           slots' = slots, epoch_contrib' = epoch_contrib, answers' \subseteq answers,
           \A w \in Worker : node'[w].pending = node[w].pending \/ node'[w].pending = Nil,
           \A c \in calls' :
              \/ \E d \in calls : d.worker = c.worker /\ d.pending = c.pending
              \/ c.pending = node'[c.worker].pending
    PROVE  SecondLife'
<1> SUFFICES ASSUME crashes <= 1
             PROVE  AnswersCurrent' /\ \A w \in Worker : ~Unused(w)' => Behaves(w)'
  BY DEF SecondLife
<1>1. AnswersCurrent /\ \A w \in Worker : ~Unused(w) => Behaves(w)
  BY DEF SecondLife
<1>2. AnswersCurrent'
  BY <1>1, AnswersFewer
<1>3. ASSUME NEW w \in Worker, ~Unused(w)'
      PROVE  Behaves(w)'
  <2>1. Behaves(w)
    BY <1>1, <1>3 DEF Unused
  <2>2. Ahead(w)' => Ahead(w)
    BY DEF Ahead
  <2>3. ASSUME NEW c \in calls', c.worker = w, c.pending # Nil, c.pending.epoch <= epoch
        PROVE  ~Ahead(w)'
    <3>1. CASE \E d \in calls : d.worker = c.worker /\ d.pending = c.pending
      BY <2>1, <2>2, <2>3, <3>1 DEF Behaves
    <3>2. CASE c.pending = node'[c.worker].pending
      <4>1. c.pending \in Gradient
        <5>1. c.pending = node[w].pending
          BY <2>3, <3>2
        <5> QED
          BY <2>3, <5>1 DEF TypeInv, WorkerState
      <4>2. c.pending.epoch \in Nat /\ epoch \in Nat
        BY <4>1 DEF Gradient, TypeInv
      <4> QED
        BY <2>3, <3>2, <4>2 DEF Ahead
    <3> QED
      BY <2>3, <3>1, <3>2
  <2>4. /\ node'[w].pending # Nil /\ node'[w].pending.epoch = epoch' =>
             node'[w].pending.at = weights'
        /\ w \in DOMAIN epoch_contrib' => ~Ahead(w)'
        /\ w \in DOMAIN epoch_contrib' /\ (crashes' = 0 \/ epoch_contrib'[w].waited) =>
             epoch_contrib'[w].at = weights'
    BY <2>1, <2>2 DEF Behaves
  <2> QED
    BY <2>3, <2>4 DEF Behaves
<1> QED
  BY <1>2, <1>3

\* The second life starts with what the first has left.
LEMMA RestoresSecond ==
    ASSUME TypeInv, FirstLife, Quits, Restores
    PROVE  SecondLife'
<1> SUFFICES ASSUME crashes' <= 1
             PROVE  AnswersCurrent' /\ \A w \in Worker : Behaves(w)'
  BY DEF SecondLife
<1>1. crashes = 0 /\ crashes' = 1
  BY DEF Restores, TypeInv
<1>2. /\ calls' = {} /\ answers' = {} /\ epoch_contrib' = <<>>
      /\ \A w \in Worker : node'[w].pending = node[w].pending
  BY DEF Quits, Restores
<1>3. AnswersCurrent'
  BY <1>2 DEF AnswersCurrent
<1>4. ASSUME NEW w \in Worker
      PROVE  Behaves(w)'
  <2>1. DOMAIN epoch_contrib' = {}
    BY <1>2, EmptyFunction
  <2>2. node[w].pending # Nil => Known(node[w].pending.epoch, node[w].pending.at)
    BY <1>1 DEF FirstLife
  <2>3. \/ epoch' = saved.epoch /\ weights' = saved.weights
        \/ epoch' = 0 /\ weights' = 0
    BY DEF Restores, EmptyModel
  <2>4. node[w].pending # Nil /\ node[w].pending.epoch = epoch' => node[w].pending.at = weights'
    BY <2>2, <2>3 DEF Known
  <2> QED
    BY <1>2, <2>1, <2>4 DEF Behaves
<1> QED
  BY <1>3, <1>4

\* Every step keeps the second life sound.
LEMMA SecondStep ==
    ASSUME TypeInv, SlotsInv, TalkInv, FirstLife, SecondLife,
           IsFiniteSet(Worker), Cardinality(Worker) <= num_workers, [Next]_vars
    PROVE  SecondLife'
<1>1. ASSUME NEW w \in Worker, Sends(w), UNCHANGED coordinator, crashes' = crashes
      PROVE  SecondLife'
  <2>1. PICK c \in CallType :
          c.worker = w /\ c.pending = node[w].pending /\ calls' = calls \cup {c}
    BY <1>1 DEF Sends
  <2>2. PICK m \in WorkerState : node' = [node EXCEPT ![w] = m] /\ m.pending = node[w].pending
    BY <1>1 DEF Sends
  <2>3. \A v \in Worker : node'[v].pending = node[v].pending
    BY <2>2 DEF TypeInv
  <2>4. \A d \in calls' : \/ \E e \in calls : e.worker = d.worker /\ e.pending = d.pending
                          \/ d.pending = node'[d.worker].pending
    BY <2>1, <2>3
  <2>5. answers' \subseteq answers /\ epoch' = epoch /\ weights' = weights /\ slots' = slots
        /\ epoch_contrib' = epoch_contrib
    BY <1>1 DEF Sends, coordinator
  <2> QED
    BY <1>1, <2>3, <2>4, <2>5, TalksSecond
<1>2. ASSUME NEW w \in Worker, GivesUp(w), UNCHANGED coordinator, crashes' = crashes
      PROVE  SecondLife'
  <2>1. PICK m \in WorkerState :
          node' = [node EXCEPT ![w] = m] /\ (m.pending = node[w].pending \/ m.pending = Nil)
    BY <1>2 DEF GivesUp
  <2>2. \A v \in Worker : node'[v].pending = node[v].pending \/ node'[v].pending = Nil
    BY <2>1 DEF TypeInv
  <2>3. /\ answers' \subseteq answers
        /\ \A c \in calls' : \E d \in calls : d.worker = c.worker /\ d.pending = c.pending
    BY <1>2 DEF GivesUp, Abandoned
  <2>4. epoch' = epoch /\ weights' = weights /\ slots' = slots /\ epoch_contrib' = epoch_contrib
    BY <1>2 DEF coordinator
  <2> QED
    BY <1>2, <2>2, <2>3, <2>4, TalksSecond
<1>3. ASSUME Quits, UNCHANGED <<epoch, weights, slots, epoch_contrib, terminate, saved,
                                steps, last, crashes>>
      PROVE  SecondLife'
  <2>1. /\ calls' = {} /\ answers' \subseteq answers
        /\ \A v \in Worker : node'[v].pending = node[v].pending
    BY <1>3 DEF Quits
  <2> QED
    BY <1>3, <2>1, TalksSecond
<1>4. ASSUME UNCHANGED vars
      PROVE  SecondLife'
  BY <1>4 DEF vars, coordinator, SecondLife, AnswersCurrent, Behaves, Ahead, Unused
<1> QED
  BY <1>1, <1>2, <1>3, <1>4, StepForms, HeartbeatSecond, ReceiveSecond, RestoresSecond

\* Every step keeps that gradients are of the weights that a step changes.
LEMMA CurrentStep ==
    ASSUME TypeInv, SlotsInv, TalkInv, FirstLife, SecondLife, StepAtCurrentWeights,
           IsFiniteSet(Worker), Cardinality(Worker) <= num_workers, [Next]_vars
    PROVE  StepAtCurrentWeights'
<1>1. ASSUME NEW c \in calls, Heartbeat(c), Stepped(c)
      PROVE  StepAtCurrentWeights'
  <2> SUFFICES ASSUME NEW g \in last'.gradients, crashes' = 0 \/ (crashes' = 1 /\ g.waited)
               PROVE  g.at = last'.at
    BY DEF StepAtCurrentWeights
  <2>1. last' = [at |-> weights, gradients |-> {Taken(c)[w] : w \in Contributors(slots')}]
    BY <1>1, SteppedIs
  <2>2. PICK w \in Contributors(slots') : g = Taken(c)[w]
    BY <2>1
  <2>3. c.worker \in Worker /\ crashes' = crashes
    BY <1>1, HeartbeatIs DEF CallType
  <2>4. w \in Worker
    <3>1. slots' = Registered(c.worker) /\ DOMAIN Registered(c.worker) = DOMAIN slots \cup {c.worker}
      BY <1>1, <2>3, SteppedIs, RegisteredIs
    <3> QED
      BY <2>3, <3>1 DEF Contributors, TypeInv
  <2>5. ~Unused(w) /\ w \in DOMAIN Taken(c)
    BY <1>1, <2>4, SteppedTakes
  <2>6. crashes <= 1
    BY <2>3
  <2>7. Taken(c)[w].at = weights
    BY <2>2, <2>3, <2>4, <2>5, <2>6, TakenLife
  <2> QED
    BY <2>1, <2>2, <2>7
<1>2. ASSUME steps' = steps, last' = last, crashes' = crashes \/ crashes' = crashes + 1
      PROVE  StepAtCurrentWeights'
  BY <1>2 DEF StepAtCurrentWeights, TypeInv
<1>3. ASSUME NEW c \in calls, Heartbeat(c)
      PROVE  StepAtCurrentWeights'
  BY <1>1, <1>2, <1>3, HeartbeatIs DEF Quiet
<1>4. ASSUME NEW a \in answers, Receive(a)
      PROVE  StepAtCurrentWeights'
  BY <1>2, <1>4, ReceiveIs DEF coordinator
<1> QED
  BY <1>2, <1>3, <1>4, StepForms DEF coordinator, vars, Restores

-----------------------------------------------------------------------------
(* The shards                                                              *)

\* A multiple of n that is smaller than n is 0.
LEMMA SmallMultiple ==
    ASSUME NEW n \in Nat, NEW d \in Int, n * d < n, n * d > -n
    PROVE  d = 0
<1>1. ~(d >= 1)
  <2> SUFFICES ASSUME d >= 1 PROVE FALSE
    OBVIOUS
  <2>1. n * d = n + n * (d - 1) /\ d - 1 \in Nat
    BY Z3
  <2>2. n * (d - 1) >= 0
    BY <2>1, Z3
  <2> QED
    BY <2>1, <2>2, Z3
<1>2. ~(d <= -1)
  <2> SUFFICES ASSUME d <= -1 PROVE FALSE
    OBVIOUS
  <2>1. n * d = -n - n * (-1 - d) /\ (-1 - d) \in Nat
    BY Z3
  <2>2. n * (-1 - d) >= 0
    BY <2>1, Z3
  <2> QED
    BY <2>1, <2>2, Z3
<1> QED
  BY <1>1, <1>2

\* Division has a remainder.
LEMMA Remainder ==
    ASSUME NEW n \in Nat \ {0}, NEW p \in Nat
    PROVE  /\ p % n \in 0..(n - 1) /\ p \div n \in Nat
           /\ p = (n * (p \div n)) + (p % n)
BY Z3

\* Each position is of one slot.
LEMMA SlotOf ==
    ASSUME NEW n \in Nat \ {0}, NEW p \in Nat
    PROVE  /\ p % n \in Nat /\ p % n < n /\ p % n <= p /\ (p - (p % n)) % n = 0
           /\ \A k \in Nat : k < n /\ k <= p /\ (p - k) % n = 0 => k = p % n
<1> DEFINE r == p % n
           q == p \div n
<1>1. r \in 0..(n - 1) /\ q \in Nat /\ p = n * q + r
  BY Remainder
<1> HIDE DEF r, q
<1>2. r \in Nat /\ r < n /\ n * q \in Nat
  BY <1>1
<1>3. r <= p /\ p - r = n * q
  BY <1>1, <1>2
<1>4. ASSUME NEW k \in Nat, k < n, k <= p, (p - k) % n = 0
      PROVE  k = r
  <2>1. PICK e \in Nat : p - k = n * e
    <3>1. p - k \in Nat
      BY <1>4
    <3>2. p - k = (n * ((p - k) \div n)) + ((p - k) % n) /\ (p - k) \div n \in Nat
      BY <3>1, Remainder
    <3>3. p - k = n * ((p - k) \div n)
      BY <1>4, <3>2
    <3> QED
      BY <3>2, <3>3
  <2>2. n * e \in Int /\ n * q \in Int /\ n * (e - q) = n * e - n * q /\ e - q \in Int
    BY <1>1, Z3
  <2>3. n * e - n * q = r - k
    BY <1>1, <1>2, <1>4, <2>1, <2>2
  <2>4. n * (e - q) < n /\ n * (e - q) > -n
    BY <1>2, <1>4, <2>2, <2>3
  <2>5. e - q = 0
    BY <2>2, <2>4, SmallMultiple
  <2>6. n * (e - q) = 0
    BY <2>5
  <2> QED
    BY <1>2, <1>4, <2>2, <2>3, <2>6
<1>5. (p - r) % n = 0
  <2> DEFINE x == n * q
             u == x % n
             v == x \div n
  <2>1. u \in 0..(n - 1) /\ v \in Nat /\ x = n * v + u
    BY <1>2, Remainder
  <2> HIDE DEF u, v
  <2>2. n * v \in Int /\ n * (q - v) = n * q - n * v /\ q - v \in Int
    BY <1>1, <2>1, Z3
  <2>3. n * (q - v) = u
    BY <1>2, <2>1, <2>2
  <2>4. n * (q - v) < n /\ n * (q - v) > -n
    BY <2>1, <2>3
  <2>5. q - v = 0
    BY <2>2, <2>4, SmallMultiple
  <2>6. n * (q - v) = 0
    BY <2>5
  <2>7. x % n = 0
    BY <2>3, <2>6 DEF u
  <2> QED
    BY <1>3, <2>7
<1> QED
  BY <1>2, <1>3, <1>4, <1>5 DEF r

\* What is owned stays owned while workers register.
LEMMA OwnsGrows ==
    ASSUME TypeInv, NEW v \in Worker, slots' = slots \/ slots' = Registered(v),
           NEW w, NEW S, Owns(slots, w, S)
    PROVE  Owns(slots', w, S)
BY RegisteredIs DEF Owns

\* A contribution is a gradient of the worker's own shards.
LEMMA TakenOwn ==
    ASSUME TypeInv, ShareInv, crashes = 0, NEW c \in calls, NEW w \in DOMAIN Taken(c)
    PROVE  OwnGradient(slots, w, Taken(c)[w])
<1>1. \/ w \in DOMAIN epoch_contrib /\ Taken(c)[w] = epoch_contrib[w]
      \/ w = c.worker /\ From(c, Taken(c)[w])
  BY TakenIs
<1>2. CASE w \in DOMAIN epoch_contrib /\ Taken(c)[w] = epoch_contrib[w]
  BY <1>2 DEF ShareInv
<1>3. CASE w = c.worker /\ From(c, Taken(c)[w])
  <2>1. OwnGradient(slots, c.worker, c.pending)
    BY <1>3 DEF ShareInv, From
  <2> QED
    BY <1>3, <2>1 DEF OwnGradient, From
<1> QED
  BY <1>1, <1>2, <1>3

\* A heartbeat leaves all shards with their owners.
LEMMA HeartbeatShare ==
    ASSUME TypeInv, ShareInv, NEW c \in calls, Heartbeat(c)
    PROVE  ShareInv'
<1>1. /\ calls' = calls \ {c} /\ node' = node /\ crashes' = crashes /\ c \in CallType
      /\ \A a \in answers' : a \in answers \/ Answers(c, a)
      /\ Quiet(c) \/ Stepped(c)
  BY HeartbeatIs
<1> SUFFICES ASSUME crashes = 0
             PROVE  /\ \A w \in Worker :
                         /\ node'[w].shards = {} \/ Owns(slots', w, node'[w].shards)
                         /\ node'[w].loaded \subseteq node'[w].shards
                         /\ node'[w].pending # Nil => OwnGradient(slots', w, node'[w].pending)
                    /\ \A d \in calls' : d.pending # Nil => OwnGradient(slots', d.worker, d.pending)
                    /\ \A a \in answers' : a.shards = {} \/ Owns(slots', a.to, a.shards)
                    /\ \A w \in DOMAIN epoch_contrib' : OwnGradient(slots', w, epoch_contrib'[w])
  BY <1>1 DEF ShareInv
<1>2. /\ \A w \in Worker :
           /\ node[w].shards = {} \/ Owns(slots, w, node[w].shards)
           /\ node[w].loaded \subseteq node[w].shards
           /\ node[w].pending # Nil => OwnGradient(slots, w, node[w].pending)
      /\ \A d \in calls : d.pending # Nil => OwnGradient(slots, d.worker, d.pending)
      /\ \A a \in answers : a.shards = {} \/ Owns(slots, a.to, a.shards)
      /\ \A w \in DOMAIN epoch_contrib : OwnGradient(slots, w, epoch_contrib[w])
  BY DEF ShareInv
<1>3. c.worker \in Worker
  BY <1>1 DEF CallType
<1>4. slots' = slots \/ slots' = Registered(c.worker)
  BY <1>1 DEF Quiet, Stepped
<1>5. \A w, S : Owns(slots, w, S) => Owns(slots', w, S)
  BY <1>3, <1>4, OwnsGrows
<1>6. \A w, g : OwnGradient(slots, w, g) => OwnGradient(slots', w, g)
  BY <1>5 DEF OwnGradient
<1>7. ASSUME NEW w \in Worker
      PROVE  /\ node'[w].shards = {} \/ Owns(slots', w, node'[w].shards)
             /\ node'[w].loaded \subseteq node'[w].shards
             /\ node'[w].pending # Nil => OwnGradient(slots', w, node'[w].pending)
  BY <1>1, <1>2, <1>5, <1>6
<1>8. ASSUME NEW a \in answers'
      PROVE  a.shards = {} \/ Owns(slots', a.to, a.shards)
  BY <1>1, <1>2, <1>5 DEF Answers, Owns
<1>9. ASSUME NEW w \in DOMAIN epoch_contrib'
      PROVE  OwnGradient(slots', w, epoch_contrib'[w])
  <2>1. epoch_contrib' = epoch_contrib \/ epoch_contrib' = Taken(c) \/ epoch_contrib' = <<>>
    BY <1>1, SteppedIs DEF Quiet
  <2>2. w \in DOMAIN Taken(c) => OwnGradient(slots, w, Taken(c)[w])
    BY TakenOwn
  <2>3. OwnGradient(slots, w, epoch_contrib'[w])
    BY <1>2, <2>1, <2>2, EmptyFunction
  <2> QED
    BY <1>6, <2>3
<1> QED
  BY <1>1, <1>2, <1>6, <1>7, <1>8, <1>9

\* A worker that gets an answer knows its own shards.
LEMMA ReceiveShare ==
    ASSUME TypeInv, ShareInv, NEW a \in answers, Receive(a)
    PROVE  ShareInv'
<1>1. PICK m : node' = [node EXCEPT ![a.to] = m] /\ Goes(a, m)
  BY ReceiveIs
<1>2. /\ answers' = answers \ {a} /\ calls' = calls /\ crashes' = crashes
      /\ slots' = slots /\ epoch_contrib' = epoch_contrib
  BY ReceiveIs DEF coordinator
<1> SUFFICES ASSUME crashes = 0
             PROVE  \A w \in Worker :
                         /\ node'[w].shards = {} \/ Owns(slots, w, node'[w].shards)
                         /\ node'[w].loaded \subseteq node'[w].shards
                         /\ node'[w].pending # Nil => OwnGradient(slots, w, node'[w].pending)
  BY <1>2 DEF ShareInv, OwnGradient, Owns
<1>3. a.to \in Worker /\ node'[a.to] = m /\ \A w \in Worker : w # a.to => node'[w] = node[w]
  BY <1>1 DEF TypeInv, AnswerType
<1>4. /\ \A w \in Worker :
           /\ node[w].shards = {} \/ Owns(slots, w, node[w].shards)
           /\ node[w].loaded \subseteq node[w].shards
           /\ node[w].pending # Nil => OwnGradient(slots, w, node[w].pending)
      /\ a.shards = {} \/ Owns(slots, a.to, a.shards)
  BY DEF ShareInv
<1> DEFINE n == node[a.to]
<1>5. /\ m.shards = n.shards \/ (m.shards = a.shards /\ a.shards # {} /\ a.shards # n.shards)
      /\ m.loaded = n.loaded \/
         (m.shards = a.shards /\ a.shards # n.shards /\ m.loaded \subseteq n.loaded \cup m.shards)
      /\ \/ m.pending = n.pending
         \/ m.shards # {} /\ m.pending.over = m.loaded /\ m.pending.own = m.shards
  BY <1>1 DEF Goes
<1>6. m.shards = {} \/ Owns(slots, a.to, m.shards)
  BY <1>3, <1>4, <1>5
<1>7. m.loaded \subseteq m.shards
  <2>1. CASE m.shards = n.shards
    BY <1>3, <1>4, <1>5, <2>1
  <2>2. CASE m.shards # n.shards
    <3>1. n.shards = {}
      BY <1>3, <1>4, <1>5, <2>2 DEF Owns
    <3>2. n.loaded = {}
      BY <1>3, <1>4, <3>1
    <3> QED
      BY <1>5, <3>2
  <2> QED
    BY <2>1, <2>2
<1>8. m.pending # Nil => OwnGradient(slots, a.to, m.pending)
  BY <1>3, <1>4, <1>5, <1>6, <1>7 DEF OwnGradient
<1> QED
  BY <1>3, <1>4, <1>6, <1>7, <1>8

\* Sending, giving up and losing the connection keep what workers know, or
\* forget it.
LEMMA TalksShare ==
    ASSUME ShareInv, crashes' = crashes, slots' = slots, epoch_contrib' = epoch_contrib,
           answers' \subseteq answers,
           \A w \in Worker :
              \/ /\ node'[w].shards = node[w].shards /\ node'[w].loaded = node[w].loaded
                 /\ node'[w].pending = node[w].pending
              \/ node'[w].shards = {} /\ node'[w].loaded = {} /\ node'[w].pending = Nil,
           \A c \in calls' : c.worker \in Worker /\
              (\/ \E d \in calls : d.worker = c.worker /\ d.pending = c.pending
               \/ c.pending = node[c.worker].pending)
    PROVE  ShareInv'
<1> SUFFICES ASSUME crashes = 0
             PROVE  /\ \A w \in Worker :
                         /\ node'[w].shards = {} \/ Owns(slots, w, node'[w].shards)
                         /\ node'[w].loaded \subseteq node'[w].shards
                         /\ node'[w].pending # Nil => OwnGradient(slots, w, node'[w].pending)
                    /\ \A c \in calls' : c.pending # Nil => OwnGradient(slots, c.worker, c.pending)
                    /\ \A a \in answers' : a.shards = {} \/ Owns(slots, a.to, a.shards)
                    /\ \A w \in DOMAIN epoch_contrib : OwnGradient(slots, w, epoch_contrib[w])
  BY DEF ShareInv, OwnGradient, Owns
<1>1. /\ \A w \in Worker :
           /\ node[w].shards = {} \/ Owns(slots, w, node[w].shards)
           /\ node[w].loaded \subseteq node[w].shards
           /\ node[w].pending # Nil => OwnGradient(slots, w, node[w].pending)
      /\ \A c \in calls : c.pending # Nil => OwnGradient(slots, c.worker, c.pending)
      /\ \A a \in answers : a.shards = {} \/ Owns(slots, a.to, a.shards)
      /\ \A w \in DOMAIN epoch_contrib : OwnGradient(slots, w, epoch_contrib[w])
  BY DEF ShareInv
<1>2. ASSUME NEW w \in Worker
      PROVE  /\ node'[w].shards = {} \/ Owns(slots, w, node'[w].shards)
             /\ node'[w].loaded \subseteq node'[w].shards
             /\ node'[w].pending # Nil => OwnGradient(slots, w, node'[w].pending)
  BY <1>1
<1>3. ASSUME NEW c \in calls', c.pending # Nil
      PROVE  OwnGradient(slots, c.worker, c.pending)
  <2>1. CASE \E d \in calls : d.worker = c.worker /\ d.pending = c.pending
    BY <1>1, <1>3, <2>1
  <2>2. CASE c.pending = node[c.worker].pending
    BY <1>1, <1>3, <2>2
  <2> QED
    BY <1>3, <2>1, <2>2
<1> QED
  BY <1>1, <1>2, <1>3

\* Every step leaves all shards with their owners.
LEMMA ShareStep ==
    ASSUME TypeInv, TypeInv', ShareInv, [Next]_vars
    PROVE  ShareInv'
<1>0. \A c \in calls' : c.worker \in Worker
  BY DEF TypeInv, CallType
<1>1. ASSUME NEW w \in Worker, Sends(w), UNCHANGED coordinator, crashes' = crashes
      PROVE  ShareInv'
  <2>1. PICK c \in CallType :
          c.worker = w /\ c.pending = node[w].pending /\ calls' = calls \cup {c}
    BY <1>1 DEF Sends
  <2>2. PICK m \in WorkerState :
          /\ node' = [node EXCEPT ![w] = m] /\ m.pending = node[w].pending
          /\ m.shards = node[w].shards /\ m.loaded = node[w].loaded
    BY <1>1 DEF Sends
  <2>3. \A v \in Worker : /\ node'[v].shards = node[v].shards /\ node'[v].loaded = node[v].loaded
                          /\ node'[v].pending = node[v].pending
    BY <2>2 DEF TypeInv
  <2>4. \A d \in calls' : \/ \E e \in calls : e.worker = d.worker /\ e.pending = d.pending
                          \/ d.pending = node[d.worker].pending
    BY <2>1
  <2>5. answers' \subseteq answers /\ slots' = slots /\ epoch_contrib' = epoch_contrib
    BY <1>1 DEF Sends, coordinator
  <2> QED
    BY <1>0, <1>1, <2>3, <2>4, <2>5, TalksShare
<1>2. ASSUME NEW w \in Worker, GivesUp(w), UNCHANGED coordinator, crashes' = crashes
      PROVE  ShareInv'
  <2>1. PICK m \in WorkerState :
          /\ node' = [node EXCEPT ![w] = m]
          /\ \/ /\ m.shards = node[w].shards /\ m.loaded = node[w].loaded
                /\ m.pending = node[w].pending
             \/ m.shards = {} /\ m.loaded = {} /\ m.pending = Nil
    BY <1>2 DEF GivesUp
  <2>2. \A v \in Worker :
           \/ /\ node'[v].shards = node[v].shards /\ node'[v].loaded = node[v].loaded
              /\ node'[v].pending = node[v].pending
           \/ node'[v].shards = {} /\ node'[v].loaded = {} /\ node'[v].pending = Nil
    BY <2>1 DEF TypeInv
  <2>3. /\ answers' \subseteq answers
        /\ \A c \in calls' : \E d \in calls : d.worker = c.worker /\ d.pending = c.pending
    BY <1>2 DEF GivesUp, Abandoned
  <2>4. slots' = slots /\ epoch_contrib' = epoch_contrib
    BY <1>2 DEF coordinator
  <2> QED
    BY <1>0, <1>2, <2>2, <2>3, <2>4, TalksShare
<1>3. ASSUME Quits, UNCHANGED <<epoch, weights, slots, epoch_contrib, terminate, saved,
                                steps, last, crashes>>
      PROVE  ShareInv'
  <2>1. /\ calls' = {} /\ answers' \subseteq answers
        /\ \A v \in Worker : /\ node'[v].shards = node[v].shards
                             /\ node'[v].loaded = node[v].loaded
                             /\ node'[v].pending = node[v].pending
    BY <1>3 DEF Quits
  <2> QED
    BY <1>3, <2>1, TalksShare
<1>4. ASSUME Restores
      PROVE  ShareInv'
  BY <1>4 DEF Restores, ShareInv, TypeInv
<1>5. ASSUME UNCHANGED vars
      PROVE  ShareInv'
  BY <1>5 DEF vars, coordinator, ShareInv, OwnGradient, Owns
<1> QED
  BY <1>1, <1>2, <1>3, <1>4, <1>5, StepForms, HeartbeatShare, ReceiveShare

\* A step in the first life: each shard is owned by one of its gradients.
LEMMA SteppedCovers ==
    ASSUME TypeInv, SlotsInv, SlotsInv', ShareInv, crashes = 0,
           IsFiniteSet(Worker), Cardinality(Worker) <= num_workers,
           NEW c \in calls, Stepped(c), NEW s \in Shard
    PROVE  Cardinality({g \in last'.gradients : s \in g.own}) = 1
<1>1. /\ last' = [at |-> weights, gradients |-> {Taken(c)[w] : w \in Contributors(slots')}]
      /\ slots' = Registered(c.worker) /\ Complete(slots', Taken(c))
  BY SteppedIs
<1>2. c.worker \in Worker
  BY DEF TypeInv, CallType
<1>3. Numbered(slots')
  BY DEF SlotsInv
<1>4. /\ DOMAIN slots' = Worker /\ Cardinality(Worker) = num_workers
      /\ \A w \in Worker : Assigned(slots'[w]) # {} => w \in DOMAIN Taken(c)
  BY <1>1, <1>3, CompleteIs DEF Numbered
<1>5. num_workers \in Nat \ {0} /\ Len(shards) \in Nat
  BY TrainerAssumption
<1>6. PICK i \in 1..Len(shards) : shards[i] = s
  BY TrainerAssumption
<1>7. PICK p \in Nat : p = i - 1
  BY <1>5, <1>6
<1> DEFINE k == p % num_workers
<1>8. /\ k \in Nat /\ k < num_workers /\ k <= p /\ (p - k) % num_workers = 0
      /\ \A j \in Nat : j < num_workers /\ j <= p /\ (p - j) % num_workers = 0 => j = k
  BY <1>5, SlotOf
<1> HIDE DEF k
<1>9. PICK w \in Worker : slots'[w] = k
  BY <1>3, <1>4, <1>8 DEF Numbered
<1>10. s \in Assigned(k)
  <2>1. i > k /\ i - 1 - k = p - k
    BY <1>5, <1>6, <1>7, <1>8
  <2> QED
    BY <1>6, <1>8, <2>1 DEF Assigned
<1>11. \A v \in Worker : v \in Contributors(slots') => OwnGradient(slots', v, Taken(c)[v])
  <2> SUFFICES ASSUME NEW v \in Worker, v \in Contributors(slots')
               PROVE  OwnGradient(slots', v, Taken(c)[v])
    OBVIOUS
  <2>1. v \in DOMAIN Taken(c)
    BY <1>4 DEF Contributors
  <2>2. OwnGradient(slots, v, Taken(c)[v])
    BY <2>1, TakenOwn
  <2>3. \A S : Owns(slots, v, S) => Owns(slots', v, S)
    BY <1>1, <1>2, OwnsGrows
  <2> QED
    BY <2>2, <2>3 DEF OwnGradient
<1>12. w \in Contributors(slots') /\ s \in Taken(c)[w].own
  <2>1. w \in Contributors(slots')
    BY <1>4, <1>9, <1>10 DEF Contributors
  <2> QED
    BY <1>9, <1>10, <1>11, <2>1 DEF OwnGradient, Owns
<1>13. ASSUME NEW v \in Contributors(slots'), s \in Taken(c)[v].own
       PROVE  v = w
  <2>1. v \in Worker /\ s \in Assigned(slots'[v])
    BY <1>4, <1>11, <1>13 DEF OwnGradient, Owns, Contributors
  <2>2. PICK j \in 1..Len(shards) :
          shards[j] = s /\ j > slots'[v] /\ (j - 1 - slots'[v]) % num_workers = 0
    BY <2>1 DEF Assigned
  <2>3. j = i
    BY <1>6, <2>2, TrainerAssumption
  <2>4. PICK l \in Nat : l = slots'[v] /\ l < num_workers
    BY <1>3, <1>4, <2>1 DEF Numbered
  <2>5. l <= p /\ j - 1 - l = p - l
    BY <1>5, <1>7, <2>2, <2>3, <2>4
  <2>6. l = k
    BY <1>8, <2>2, <2>4, <2>5
  <2> QED
    BY <1>3, <1>4, <1>9, <2>1, <2>4, <2>6 DEF Numbered
<1>14. {g \in last'.gradients : s \in g.own} = {Taken(c)[w]}
  <2>1. last'.gradients = {Taken(c)[v] : v \in Contributors(slots')}
    BY <1>1
  <2> QED
    BY <1>12, <1>13, <2>1
<1> QED
  BY <1>14, FS_Singleton

\* Every step keeps that steps cover the shards.
LEMMA CoverStep ==
    ASSUME TypeInv, SlotsInv, SlotsInv', ShareInv, StepCoversShards,
           IsFiniteSet(Worker), Cardinality(Worker) <= num_workers, [Next]_vars
    PROVE  StepCoversShards'
<1>1. ASSUME NEW c \in calls, Heartbeat(c), Stepped(c)
      PROVE  StepCoversShards'
  <2> SUFFICES ASSUME crashes' = 0
               PROVE  /\ \A s \in Shard : Cardinality({g \in last'.gradients : s \in g.own}) = 1
                      /\ \A g \in last'.gradients : g.over \subseteq g.own
    BY DEF StepCoversShards
  <2>1. crashes = 0
    BY <1>1, HeartbeatIs
  <2>2. \A s \in Shard : Cardinality({g \in last'.gradients : s \in g.own}) = 1
    BY <1>1, <2>1, SteppedCovers
  <2>3. ASSUME NEW g \in last'.gradients
        PROVE  g.over \subseteq g.own
    <3>1. last' = [at |-> weights, gradients |-> {Taken(c)[w] : w \in Contributors(slots')}]
          /\ Complete(slots', Taken(c))
      BY <1>1, SteppedIs
    <3>2. PICK w \in Contributors(slots') : g = Taken(c)[w]
      BY <3>1
    <3>3. w \in DOMAIN Taken(c)
      BY <3>1 DEF Complete
    <3>4. OwnGradient(slots, w, Taken(c)[w])
      BY <2>1, <3>3, TakenOwn
    <3> QED
      BY <3>2, <3>4 DEF OwnGradient
  <2> QED
    BY <2>2, <2>3
<1>2. ASSUME steps' = steps, last' = last, crashes' = crashes \/ crashes' = crashes + 1
      PROVE  StepCoversShards'
  BY <1>2 DEF StepCoversShards, TypeInv
<1>3. ASSUME NEW c \in calls, Heartbeat(c)
      PROVE  StepCoversShards'
  BY <1>1, <1>2, <1>3, HeartbeatIs DEF Quiet
<1>4. ASSUME NEW a \in answers, Receive(a)
      PROVE  StepCoversShards'
  BY <1>2, <1>4, ReceiveIs DEF coordinator
<1> QED
  BY <1>2, <1>3, <1>4, StepForms DEF coordinator, vars, Restores

-----------------------------------------------------------------------------
(* The theorems                                                            *)

\* The initial states satisfy all of it.
LEMMA InitHolds ==
    ASSUME Init
    PROVE  TypeInv /\ SlotsInv /\ TalkInv /\ LifeInv /\ CoverInv
<1>1. /\ epoch = 0 /\ weights = 0 /\ slots = <<>> /\ epoch_contrib = <<>> /\ terminate = FALSE
      /\ node = [w \in Worker |-> NewWorker] /\ calls = {} /\ answers = {} /\ steps = 0
      /\ crashes = 0 /\ saved = [epoch |-> 0, weights |-> 0]
  BY DEF Init, EmptyModel
<1>2. DOMAIN slots = {} /\ DOMAIN epoch_contrib = {}
  BY <1>1, EmptyFunction
<1>3. NewWorker \in WorkerState /\ NewWorker.pending = Nil /\ NewWorker.shards = {}
      /\ NewWorker.loaded = {}
  BY DEF NewWorker, WorkerState
<1>4. TypeInv
  BY <1>1, <1>2, <1>3, EmptyFunction DEF TypeInv
<1>5. SlotsInv
  BY <1>1, EmptyNumbered DEF SlotsInv
<1>6. TalkInv
  BY <1>1 DEF TalkInv
<1>7. \A w \in Worker : node[w].pending = Nil /\ node[w].shards = {} /\ node[w].loaded = {}
  BY <1>1, <1>3
<1>8. FirstLife
  <2>1. Known(epoch, weights) /\ Known(saved.epoch, saved.weights)
    BY <1>1 DEF Known
  <2> QED
    BY <1>1, <1>7, <2>1 DEF FirstLife
<1>9. SecondLife
  BY <1>1, <1>2, <1>7 DEF SecondLife, AnswersCurrent, Behaves
<1>10. StepAtCurrentWeights /\ StepCoversShards
  BY <1>1 DEF StepAtCurrentWeights, StepCoversShards
<1>11. ShareInv
  BY <1>1, <1>2, <1>7 DEF ShareInv
<1> QED
  BY <1>4, <1>5, <1>6, <1>8, <1>9, <1>10, <1>11 DEF LifeInv, CoverInv

\* There are no more workers than the coordinator was told to expect
EnoughSlots == IsFiniteSet(Worker) /\ Cardinality(Worker) <= num_workers

\* The invariant of training: slots are numbered, workers wait for one call, the
\* weights of an epoch are the same in all that is on its way during the first
\* life of the coordinator and in all that counts during its second, and shards
\* stay with their owners.
THEOREM TrainingInvariant ==
    ASSUME EnoughSlots
    PROVE  Spec => [](TypeInv /\ SlotsInv /\ TalkInv /\ LifeInv /\ CoverInv)
<1> DEFINE Inv == TypeInv /\ SlotsInv /\ TalkInv /\ LifeInv /\ CoverInv
<1>1. Init => Inv
  BY InitHolds
<1>2. Inv /\ [Next]_vars => Inv'
  <2> SUFFICES ASSUME TypeInv, SlotsInv, TalkInv, LifeInv, CoverInv, [Next]_vars
               PROVE  Inv'
    OBVIOUS
  <2>1. IsFiniteSet(Worker) /\ Cardinality(Worker) <= num_workers
    BY DEF EnoughSlots
  <2>2. FirstLife /\ SecondLife /\ StepAtCurrentWeights /\ ShareInv /\ StepCoversShards
    BY DEF LifeInv, CoverInv
  <2>3. TypeInv' /\ SlotsInv'
    BY <2>1, TypeStep
  <2>4. TalkInv'
    BY TalkStep
  <2>5. FirstLife' /\ SecondLife' /\ StepAtCurrentWeights'
    BY <2>1, <2>2, FirstStep, SecondStep, CurrentStep
  <2>6. ShareInv' /\ StepCoversShards'
    BY <2>1, <2>2, <2>3, ShareStep, CoverStep
  <2> QED
    BY <2>3, <2>4, <2>5, <2>6 DEF LifeInv, CoverInv
<1> QED
  BY <1>1, <1>2, PTL DEF Spec

\* The gradients a step aggregates are of the weights it changes: always in the
\* coordinator's first life, and in its second those its workers waited for.
THEOREM StepsAtCurrentWeights ==
    ASSUME EnoughSlots
    PROVE  Spec => []StepAtCurrentWeights
<1>1. TypeInv /\ SlotsInv /\ TalkInv /\ LifeInv /\ CoverInv => StepAtCurrentWeights
  BY DEF LifeInv
<1> QED
  BY <1>1, TrainingInvariant, PTL

\* In the coordinator's first life each shard is owned by exactly one of the
\* gradients that a step aggregates; a shard that its owner could not load is
\* missing from what that gradient was computed over.
THEOREM StepsCoverShards ==
    ASSUME EnoughSlots
    PROVE  Spec => []StepCoversShards
<1>1. TypeInv /\ SlotsInv /\ TalkInv /\ LifeInv /\ CoverInv => StepCoversShards
  BY DEF CoverInv
<1> QED
  BY <1>1, TrainingInvariant, PTL

=============================================================================
