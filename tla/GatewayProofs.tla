--------------------------- MODULE GatewayProofs ---------------------------
(***************************************************************************)
(* Proofs about the web gateway, for every number of nodes and requests    *)
(* and every bound.                                                        *)
(*                                                                         *)
(* The argument.  Every entry, committed or not, carries the identity of   *)
(* its HTTP request (KnownInv), and every session of the store comes from  *)
(* an effect (SessionInv): so an answer is that of an effect of the same   *)
(* identity, which is the same request.  An attempt that appended leaves a *)
(* mark on its call, maybe or orphan, until the call is answered           *)
(* (MarkInv).  On the way to a settled leader every attempt that misses it *)
(* brings the call closer round the ring, and a redirect leads straight to *)
(* it (RingInv).                                                           *)
(***************************************************************************)
EXTENDS Gateway, KVStateMachineProofs, WellFoundedInduction

-----------------------------------------------------------------------------
(* Types                                                                   *)

\* A call of _call, or one that was not made or is over
CallState ==
    [stage : {"new", "send", "wait", "done"}, ask : Asks \cup {Nil}, node : Node,
     unreachable : SUBSET Node, redirects : Nat, maybe : BOOLEAN, attempts : Nat,
     status : Nat, version : Nat, orphan : BOOLEAN, strays : Nat]

\* An entry that some attempt put into a log
SentEntry == [client : Identity, seq : {1}, cmd : Command, http : Http, attempt : Nat]

TypeInv ==
    /\ leaderHint \in Node
    /\ http \in [Http -> CallState]
    /\ \A h \in Http : http[h].stage # "new" => http[h].ask \in Asks
    /\ kv \in State
    /\ pending \subseteq SentEntry
    /\ leader \in Node \cup {Nil}
    /\ effects \subseteq [entry : SentEntry, result : Result]

\* How far a node is before another one on the ring
Distance(a, b) == IF a <= b THEN b - a ELSE b - a + NodeCount

\* Round the ring once, addition modulo the number of nodes wraps once.
LEMMA Wraps ==
    ASSUME NEW x \in Nat, x < NodeCount + NodeCount
    PROVE  x % NodeCount = IF x < NodeCount THEN x ELSE x - NodeCount
<1>1. NodeCount \in Nat /\ NodeCount > 0
  BY GatewayAssumption
<1> QED
  BY <1>1

\* A non-empty set of natural numbers has a least element.
LEMMA Least ==
    ASSUME NEW T \in SUBSET Nat, T # {}
    PROVE  \E x \in T : \A y \in T : x <= y
<1> DEFINE R == OpToRel(<, Nat)
<1>1. \E x \in T : \A y \in T : ~(<<y, x>> \in R)
  <2>1. IsWellFoundedOn(R, Nat)
    BY NatLessThanWellFounded
  <2> HIDE DEF R
  <2> QED
    BY <2>1, WFMin
<1>2. ASSUME NEW x \in T, NEW y \in T, ~(<<y, x>> \in R)
      PROVE  x <= y
  BY <1>2 DEF OpToRel
<1> HIDE DEF R
<1> QED
  BY <1>1, <1>2

\* _next_node stays on the ring, and never passes a node that did not fail.
LEMMA NextNodeIs ==
    ASSUME NEW node \in Node, NEW unreachable \in SUBSET Node
    PROVE  /\ NextNode(node, unreachable)[1] \in Node
           /\ NextNode(node, unreachable)[2] \in SUBSET Node
           /\ \A l \in Node : l \notin unreachable /\ l # node =>
                /\ NextNode(node, unreachable)[2] = unreachable
                /\ Distance(NextNode(node, unreachable)[1], l) < Distance(node, l)
<1>1. PICK n \in Nat : n = NodeCount /\ n > 0
  BY GatewayAssumption
<1>2. Node = 0..(n - 1)
  BY <1>1 DEF Node
<1> DEFINE steps == {s \in 1..n : (node + s) % n \notin unreachable}
<1>3. \A s \in 1..n : (node + s) % n = IF node + s < n THEN node + s ELSE node + s - n
  <2> SUFFICES ASSUME NEW s \in 1..n
               PROVE  (node + s) % n = IF node + s < n THEN node + s ELSE node + s - n
    OBVIOUS
  <2>1. PICK x \in Nat : x = node + s /\ x < n + n
    BY <1>2
  <2>2. x % NodeCount = IF x < NodeCount THEN x ELSE x - NodeCount
    BY <1>1, <2>1, Wraps
  <2>3. x % n = IF x < n THEN x ELSE x - n
    BY <1>1, <2>2
  <2>4. (node + s) % n = x % n
    BY <2>1
  <2> QED
    BY <1>2, <2>1, <2>3, <2>4
<1>4. \A s \in 1..n : (node + s) % n \in Node
  BY <1>1, <1>2, <1>3
<1>5. ASSUME steps = {}
      PROVE  /\ NextNode(node, unreachable) = <<(node + 1) % n, {}>>
             /\ \A l \in Node : l = node \/ l \in unreachable
  <2>1. NextNode(node, unreachable) = <<(node + 1) % n, {}>>
    BY <1>1, <1>5 DEF NextNode
  <2>2. ASSUME NEW l \in Node, l # node
        PROVE  l \in unreachable
    <3>1. PICK s \in Nat : s = Distance(node, l) /\ s \in 1..n /\ (node + s) % n = l
      <4>1. Distance(node, l) \in 1..n
        BY <1>1, <1>2, <2>2 DEF Distance
      <4>2. (node + Distance(node, l)) % n = l
        BY <1>1, <1>2, <1>3, <2>2, <4>1 DEF Distance
      <4> QED
        BY <4>1, <4>2
    <3> QED
      BY <1>5, <3>1
  <2> QED
    BY <2>1, <2>2
<1>6. ASSUME steps # {}
      PROVE  \E s \in steps : /\ \A t \in steps : s <= t
                              /\ NextNode(node, unreachable) = <<(node + s) % n, unreachable>>
  <2> DEFINE first == CHOOSE s \in steps : \A t \in steps : s <= t
  <2>1. steps \in SUBSET Nat
    OBVIOUS
  <2>2. NextNode(node, unreachable) = <<(node + first) % n, unreachable>>
    BY <1>1, <1>6 DEF NextNode
  <2> HIDE DEF steps
  <2>3. \E s \in steps : \A t \in steps : s <= t
    BY <1>6, <2>1, Least
  <2>4. first \in steps /\ \A t \in steps : first <= t
    BY <2>3
  <2> QED
    BY <2>2, <2>4
<1>7. CASE steps = {}
  <2>1. n >= 1 /\ 1 \in 1..n
    BY <1>1
  <2> QED
    BY <1>4, <1>5, <1>7, <2>1
<1>8. CASE steps # {}
  <2>1. PICK s \in steps : /\ \A t \in steps : s <= t
                           /\ NextNode(node, unreachable) = <<(node + s) % n, unreachable>>
    BY <1>6, <1>8
  <2>2. s \in 1..n
    OBVIOUS
  <2>3. ASSUME NEW l \in Node, l \notin unreachable, l # node
        PROVE  Distance((node + s) % n, l) < Distance(node, l)
    <3>1. PICK d \in Nat : d = Distance(node, l) /\ d \in 1..n /\ (node + d) % n = l
      <4>1. Distance(node, l) \in 1..n
        BY <1>1, <1>2, <2>3 DEF Distance
      <4>2. (node + Distance(node, l)) % n = l
        BY <1>1, <1>2, <1>3, <2>3, <4>1 DEF Distance
      <4> QED
        BY <4>1, <4>2
    <3>2. d \in steps
      BY <2>3, <3>1
    <3>3. s <= d
      BY <2>1, <3>2
    <3>4. PICK k \in Node : k = (node + s) % n
      BY <1>4, <2>2
    <3>5. k = IF node + s < n THEN node + s ELSE node + s - n
      BY <1>3, <2>2, <3>4
    <3>6. d = IF node <= l THEN l - node ELSE l - node + n
      BY <1>1, <3>1 DEF Distance
    <3>7. (IF k <= l THEN l - k ELSE l - k + n) < d
      BY <1>2, <2>2, <3>3, <3>5, <3>6
    <3> QED
      BY <1>1, <3>1, <3>4, <3>7 DEF Distance
  <2> QED
    BY <1>4, <2>1, <2>2, <2>3
<1> QED
  BY <1>7, <1>8


-----------------------------------------------------------------------------
(* What a step does to a call                                              *)

\* As long as nobody leads, no attempt misses a leader; once somebody does, the
\* attempts that missed it and the way that is left are less than a round
Ring(c) ==
    IF leader = Nil THEN c.strays = 0 ELSE c.strays + Distance(c.node, leader) < NodeCount

\* A call of which nothing tells that it may have appended
Bare(c) ==
    \/ c.stage = "new"
    \/ c.stage = "send" /\ ~c.maybe /\ ~c.orphan
    \/ c.stage = "done" /\ c.status = 503 /\ ~c.orphan

\* The nodes are less than a round apart.
LEMMA DistanceType ==
    ASSUME NEW a \in Node, NEW b \in Node
    PROVE  /\ Distance(a, b) \in Nat /\ Distance(a, b) < NodeCount
           /\ a # b => Distance(a, b) > 0
           /\ a = b => Distance(a, b) = 0
BY GatewayAssumption DEF Distance, Node

\* The call that goes on at another node, and the one that follows a redirect
Onward(c, node, unreachable, redirects, strays) ==
    [c EXCEPT !.stage = "send", !.node = node, !.unreachable = unreachable,
              !.redirects = redirects, !.strays = strays]

Straight(c, node, redirects, strays) ==
    [c EXCEPT !.stage = "send", !.node = node, !.redirects = redirects, !.strays = strays]

\* Call n is call c gone on to a node
GoneOn(c, n, node, strays) ==
    /\ n \in CallState /\ n.stage = "send" /\ n.ask = c.ask /\ n.maybe = c.maybe
    /\ n.orphan = c.orphan /\ n.status = c.status
    /\ n.node = node /\ n.strays = strays

\* Both keep what is known of the call.
LEMMA GoesOn ==
    ASSUME NEW c \in CallState, NEW node \in Node, NEW unreachable \in SUBSET Node,
           NEW redirects \in Nat, NEW strays \in Nat
    PROVE  /\ GoneOn(c, Onward(c, node, unreachable, redirects, strays), node, strays)
           /\ GoneOn(c, Straight(c, node, redirects, strays), node, strays)
BY Zenon DEF CallState, Onward, Straight, GoneOn

\* The call after an attempt that failed: Advance keeps what is known of it.
LEMMA AdvanceIs ==
    ASSUME leader \in Node \cup {Nil}, NEW c \in CallState, NEW unreachable \in SUBSET Node,
           c.unreachable \subseteq unreachable, unreachable \subseteq c.unreachable \cup {c.node}
    PROVE  LET n == Advance(c, unreachable) IN
           /\ n \in CallState /\ n.stage = "send" /\ n.ask = c.ask /\ n.maybe = c.maybe
           /\ n.orphan = c.orphan /\ n.status = c.status
           /\ Ring(c) => Ring(n)
<1> DEFINE next == NextNode(c.node, unreachable)
           n == Advance(c, unreachable)
<1>1. c.node \in Node /\ c.unreachable \in SUBSET Node /\ c.strays \in Nat
  BY DEF CallState
<1>2. /\ next[1] \in Node /\ next[2] \in SUBSET Node
      /\ \A l \in Node : l \notin unreachable /\ l # c.node =>
           Distance(next[1], l) < Distance(c.node, l)
  BY <1>1, NextNodeIs
<1>3. Strays(c) \in Nat
  BY <1>1 DEF Strays
<1> HIDE DEF next
<1>4. n = Onward(c, next[1], next[2], 0, Strays(c))
  BY DEF Advance, next, Onward
<1> HIDE DEF n
<1>5. /\ n \in CallState /\ n.stage = "send" /\ n.ask = c.ask /\ n.maybe = c.maybe
      /\ n.orphan = c.orphan /\ n.status = c.status
      /\ n.node = next[1] /\ n.strays = Strays(c)
  <2>1. PICK node \in Node, left \in SUBSET Node, redirects \in Nat, strays \in Nat :
            node = next[1] /\ left = next[2] /\ redirects = 0 /\ strays = Strays(c)
    BY <1>2, <1>3
  <2>2. GoneOn(c, n, node, strays)
    BY <1>4, <2>1, GoesOn
  <2> QED
    BY <2>1, <2>2 DEF GoneOn
<1>6. ASSUME Ring(c)
      PROVE  Ring(n)
  <2>1. CASE leader = Nil
    BY <1>5, <2>1 DEF Ring, Strays
  <2>2. CASE leader # Nil /\ leader \in c.unreachable \cup {c.node}
    <3>1. n.strays = 0 /\ leader \in Node
      BY <1>5, <2>2 DEF Strays
    <3>2. PICK d \in Nat : d = Distance(n.node, leader) /\ d < NodeCount
      BY <1>2, <1>5, <3>1, DistanceType
    <3> QED
      BY <2>2, <3>1, <3>2 DEF Ring
  <2>3. CASE leader # Nil /\ leader \notin c.unreachable \cup {c.node}
    <3>1. n.strays = c.strays + 1 /\ leader \in Node /\ leader \notin unreachable
      BY <1>5, <2>3 DEF Strays
    <3>2. PICK d \in Nat, e \in Nat : /\ d = Distance(n.node, leader)
                                      /\ e = Distance(c.node, leader) /\ d < e
      BY <1>1, <1>2, <1>5, <2>3, <3>1, DistanceType
    <3>3. c.strays + e < NodeCount
      BY <1>6, <2>3, <3>2 DEF Ring
    <3>4. (c.strays + 1) + d < NodeCount
      BY <1>1, <3>2, <3>3, GatewayAssumption
    <3> QED
      BY <2>3, <3>1, <3>2, <3>4 DEF Ring
  <2> QED
    BY <2>1, <2>2, <2>3
<1> QED
  BY <1>5, <1>6 DEF n

\* The call after a refusal: AfterRefusal keeps what is known of it.
LEMMA AfterRefusalIs ==
    ASSUME leader \in Node \cup {Nil}, NEW c \in CallState, NEW target \in Hints,
           c.node \in MayFollow
    PROVE  LET n == AfterRefusal(c, target) IN
           /\ n \in CallState /\ n.stage = "send" /\ n.ask = c.ask /\ n.maybe = c.maybe
           /\ n.orphan = c.orphan /\ n.status = c.status
           /\ Ring(c) => Ring(n)
<1>1. c.node \in Node /\ c.unreachable \in SUBSET Node /\ c.strays \in Nat
  BY DEF CallState
<1>2. CASE /\ target \notin c.unreachable \cup {Nil, c.node}
           /\ c.redirects < MaxRedirects
  <2>0. PICK redirects \in Nat : redirects = c.redirects + 1
    BY DEF CallState
  <2> DEFINE n == AfterRefusal(c, target)
  <2>1. n = Straight(c, target, redirects, Strays(c))
    BY <1>2, <2>0 DEF AfterRefusal, Straight
  <2> HIDE DEF n
  <2>2. target \in Node /\ (leader # Nil => target = leader)
    BY <1>2 DEF Hints
  <2>3. Strays(c) \in Nat
    BY <1>1 DEF Strays
  <2>4. /\ n \in CallState /\ n.stage = "send" /\ n.ask = c.ask /\ n.maybe = c.maybe
        /\ n.orphan = c.orphan /\ n.status = c.status
        /\ n.node = target /\ n.strays = Strays(c)
    <3>1. PICK node \in Node, strays \in Nat : node = target /\ strays = Strays(c)
      BY <2>2, <2>3
    <3>2. GoneOn(c, n, node, strays)
      BY <2>1, <3>1, GoesOn
    <3> QED
      BY <3>1, <3>2 DEF GoneOn
  <2>5. ASSUME Ring(c)
        PROVE  Ring(n)
    <3>1. CASE leader = Nil
      BY <2>4, <3>1 DEF Ring, Strays
    <3>2. CASE leader # Nil
      <4>1. target = leader /\ n.strays = c.strays + 1 /\ leader # c.node
        BY <1>2, <2>2, <2>4, <3>2 DEF Strays
      <4>2. Distance(n.node, leader) = 0
        BY <2>2, <2>4, <4>1, DistanceType
      <4>3. PICK e \in Nat : e = Distance(c.node, leader) /\ e > 0
        BY <1>1, <2>2, <4>1, DistanceType
      <4>4. c.strays + e < NodeCount
        BY <2>5, <3>2, <4>3 DEF Ring
      <4>5. (c.strays + 1) + 0 < NodeCount
        BY <1>1, <4>3, <4>4, GatewayAssumption
      <4> QED
        BY <3>2, <4>1, <4>2, <4>5 DEF Ring
    <3> QED
      BY <3>1, <3>2
  <2> QED
    BY <2>4, <2>5 DEF n
<1>3. CASE ~(/\ target \notin c.unreachable \cup {Nil, c.node}
             /\ c.redirects < MaxRedirects)
  <2>1. AfterRefusal(c, target) = Advance(c, c.unreachable)
    BY <1>3 DEF AfterRefusal
  <2> QED
    BY <1>1, <2>1, AdvanceIs
<1> QED
  BY <1>2, <1>3

\* An answer to a write is none of the errors of the transport.
LEMMA WriteStatusIs ==
    ASSUME NEW op \in Command, op # Noop, NEW result \in Result
    PROVE  WriteStatus(op, result) \in {200, 201, 204, 404, 412}
<1>1. result.flag \in BOOLEAN
  BY DEF Result
<1>2. CASE op.op = "put"
  BY <1>2 DEF WriteStatus
<1>3. CASE op.op = "delete"
  BY <1>1, <1>3 DEF WriteStatus
<1>4. CASE op.op = "cas"
  <2>1. WriteStatus(op, result) = IF result.flag THEN (IF op.expectAbsent THEN 201 ELSE 200)
                                                 ELSE 412
    BY <1>1, <1>4 DEF WriteStatus
  <2> QED
    BY <2>1
<1> QED
  BY <1>2, <1>3, <1>4, CommandForms

\* Every identity is one of the clients of the store.
LEMMA IdentityType ==
    ASSUME NEW h \in Http, NEW ask \in Asks
    PROVE  IdentityOf(h, ask) \in Identity
BY DEF IdentityOf, Identity, Fresh

\* Requests of one identity are one request: it was sent once without an
\* Idempotency-Key, or it asks for the same with the same key.
LEMMA SameIdentity ==
    ASSUME NEW h \in Http, NEW g \in Http, NEW a \in Asks, NEW b \in Asks,
           IdentityOf(h, a) = IdentityOf(g, b)
    PROVE  \/ h = g /\ a.key = NoKey /\ b.key = NoKey
           \/ a = b /\ a.key # NoKey
<1>1. a = [op |-> a.op, key |-> a.key] /\ b = [op |-> b.op, key |-> b.key]
  BY GatewayAssumption
<1>2. CASE a.key = NoKey /\ b.key = NoKey
  <2>1. Fresh(h) = Fresh(g)
    BY <1>2 DEF IdentityOf
  <2>2. Fresh(h).http = h /\ Fresh(g).http = g
    BY DEF Fresh
  <2> QED
    BY <1>2, <2>1, <2>2
<1>3. CASE a.key # NoKey /\ b.key # NoKey
  <2>1. [key |-> a.key, op |-> a.op] = [key |-> b.key, op |-> b.op]
    BY <1>3 DEF IdentityOf
  <2>2. a.key = b.key /\ a.op = b.op
    BY <2>1
  <2> QED
    BY <1>1, <1>3, <2>2
<1>4. ASSUME NEW x \in Http, NEW c \in Asks
      PROVE  Fresh(x) # [key |-> c.key, op |-> c.op]
  <2>1. DOMAIN Fresh(x) = {"http"} /\ DOMAIN [key |-> c.key, op |-> c.op] = {"key", "op"}
    BY DEF Fresh
  <2> QED
    BY <2>1
<1> QED
  BY <1>2, <1>3, <1>4 DEF IdentityOf


\* No attempt of request h is in any log
Unsent(h) ==
    /\ \A e \in pending : e.http # h
    /\ \A f \in effects : f.entry.http # h

\* An attempt that appended leaves a mark on its call until it is answered
MarkInv ==
    \A h \in Http :
        /\ Bare(http[h]) => Unsent(h)
        /\ http[h].stage = "wait" => IsWrite(http[h].ask)
        /\ http[h].status = 503 => http[h].stage = "done"

\* The store knows an answer that n gives to a write
Informed(h, n) ==
    n.stage = "done" /\ n.status \notin {502, 503, 504} /\ IsWrite(n.ask) =>
        \E result \in SessionResult(kv, IdentityOf(h, n.ask), 1) :
            n.status = WriteStatus(n.ask.op, result) /\ n.version = result.version

\* Entry e is the write of request h that asks for ask
Writes(h, ask, e) ==
    /\ e \in SentEntry /\ e.http = h
    /\ e.client = IdentityOf(h, ask) /\ e.cmd = ask.op /\ IsWrite(ask)

\* The call of request h becomes n, and may leave an entry with a node
Move(h, n) ==
    /\ n \in CallState /\ http' = [http EXCEPT ![h] = n]
    /\ kv' = kv /\ effects' = effects /\ leader' = leader /\ leaderHint' \in Node
    /\ n.stage # "new" /\ n.ask \in Asks
    /\ http[h].stage # "new" => n.ask = http[h].ask
    /\ n.stage = "wait" => IsWrite(n.ask)
    /\ n.status = 503 => n.stage = "done"
    /\ Ring(http[h]) => Ring(n)
    /\ Informed(h, n)
    /\ \/ pending' = pending /\ (Bare(n) => Bare(http[h]))
       \/ /\ http[h].stage # "new" /\ ~Bare(n)
          /\ \E e : Writes(h, n.ask, e) /\ pending' = pending \cup {e}

\* What a call appends is its write.
LEMMA EntryIs ==
    ASSUME TypeInv, NEW h \in Http, http[h].stage # "new", IsWrite(http[h].ask)
    PROVE  Writes(h, http[h].ask, EntryOf(h))
<1>1. http[h] \in CallState /\ http[h].ask \in Asks
  BY DEF TypeInv
<1>2. http[h].ask.op \in Command /\ http[h].attempts \in Nat
  BY <1>1, GatewayAssumption DEF CallState
<1>3. IdentityOf(h, http[h].ask) \in Identity
  BY <1>1, IdentityType
<1>4. EntryOf(h) \in SentEntry
  BY <1>2, <1>3 DEF EntryOf, SentEntry
<1> QED
  BY <1>4 DEF Writes, EntryOf

\* A request is received.
LEMMA ReceiveMoves ==
    ASSUME TypeInv, MarkInv, NEW h \in Http, NEW ask \in Asks, Receive(h, ask),
           \A g \in Http : http[g].stage = "new" => http[g].strays = 0
    PROVE  \E n : Move(h, n)
<1> DEFINE n == [http[h] EXCEPT !.stage = "send", !.ask = ask, !.node = leaderHint]
<1>1. PICK c \in CallState : c = http[h] /\ c.stage = "new"
  BY DEF TypeInv, Receive
<1>2. PICK node \in Node : node = leaderHint
  BY DEF TypeInv
<1>3. /\ http' = [http EXCEPT ![h] = n]
      /\ leaderHint' = leaderHint /\ kv' = kv /\ pending' = pending /\ effects' = effects
      /\ leader' = leader
  BY DEF Receive, cluster, TypeInv
<1>4. n = [c EXCEPT !.stage = "send", !.ask = ask, !.node = node]
  BY <1>1, <1>2
<1> HIDE DEF n
<1>5. /\ n \in CallState /\ n.stage = "send" /\ n.ask = ask /\ n.node = node
      /\ n.strays = c.strays /\ n.status = c.status
  BY <1>4, Zenon DEF CallState
<1>6. c.status # 503 /\ Bare(c)
  BY <1>1 DEF MarkInv, Bare
<1>7. Ring(n)
  <2>1. n.strays = 0
    BY <1>1, <1>5
  <2>2. leader # Nil => 0 + Distance(n.node, leader) < NodeCount
    <3> SUFFICES ASSUME leader # Nil PROVE 0 + Distance(n.node, leader) < NodeCount
      OBVIOUS
    <3>1. PICK d \in Nat : d = Distance(n.node, leader) /\ d < NodeCount
      BY <1>5, DistanceType DEF TypeInv
    <3> QED
      BY <3>1
  <2> QED
    BY <2>1, <2>2 DEF Ring
<1>8. Move(h, n)
  BY <1>1, <1>2, <1>3, <1>5, <1>6, <1>7 DEF Move, Informed
<1> QED
  BY <1>8

\* A write is appended to the log of a node.
LEMMA AppendMoves ==
    ASSUME TypeInv, MarkInv, NEW h \in Http, AppendAt(h)
    PROVE  \E n : Move(h, n)
<1> DEFINE n == [http[h] EXCEPT !.stage = "wait"]
<1>1. PICK c \in CallState : c = http[h] /\ c.stage = "send" /\ c.ask \in Asks /\ IsWrite(c.ask)
  BY DEF TypeInv, AppendAt
<1>2. /\ http' = [http EXCEPT ![h] = n] /\ pending' = pending \cup {EntryOf(h)}
      /\ leaderHint' = leaderHint /\ kv' = kv /\ effects' = effects /\ leader' = leader
  BY DEF AppendAt, cluster
<1>3. n = [c EXCEPT !.stage = "wait"]
  BY <1>1
<1> HIDE DEF n
<1>4. /\ n \in CallState /\ n.stage = "wait" /\ n.ask = c.ask /\ n.node = c.node
      /\ n.strays = c.strays /\ n.status = c.status
  BY <1>3, Zenon DEF CallState
<1>5. n.status # 503 /\ ~Bare(n)
  BY <1>1, <1>4 DEF MarkInv, Bare
<1>6. Writes(h, n.ask, EntryOf(h))
  BY <1>1, <1>4, EntryIs
<1>7. Ring(c) => Ring(n)
  BY <1>4 DEF Ring
<1>8. Move(h, n)
  BY <1>1, <1>2, <1>4, <1>5, <1>6, <1>7 DEF Move, Informed, TypeInv
<1> QED
  BY <1>8

\* A node refuses, before or after it appended.
LEMMA RefusalMoves ==
    ASSUME TypeInv, MarkInv, NEW h \in Http, NotLeader(h)
    PROVE  \E n : Move(h, n)
<1>1. PICK c \in CallState : /\ c = http[h] /\ c.stage \in {"send", "wait"} /\ c.ask \in Asks
                             /\ c.node \in MayFollow
  BY DEF TypeInv, NotLeader, Attempting
<1>2. PICK target \in Hints :
        http' = [http EXCEPT ![h] =
            AfterRefusal([c EXCEPT !.attempts = @ + 1,
                                   !.orphan = @ \/ c.stage = "wait"], target)]
  BY <1>1 DEF NotLeader, TypeInv
<1>3. /\ leaderHint' = leaderHint /\ kv' = kv /\ effects' = effects /\ leader' = leader
      /\ pending' = pending
  BY DEF NotLeader, cluster
<1>4. PICK more \in Nat, orphan \in BOOLEAN :
        more = c.attempts + 1 /\ orphan = (c.orphan \/ c.stage = "wait")
  <2>1. c.attempts + 1 \in Nat
    BY DEF CallState
  <2>2. (c.orphan \/ c.stage = "wait") \in BOOLEAN
    OBVIOUS
  <2> QED
    BY <2>1, <2>2, Zenon
<1> DEFINE d == [c EXCEPT !.attempts = more, !.orphan = orphan]
           n == AfterRefusal(d, target)
<1>5. http' = [http EXCEPT ![h] = n]
  BY <1>2, <1>4
<1>6. /\ d \in CallState /\ d.stage = c.stage /\ d.ask = c.ask /\ d.node = c.node
      /\ d.maybe = c.maybe /\ d.orphan = orphan /\ d.status = c.status /\ d.strays = c.strays
  BY Zenon DEF CallState
<1> HIDE DEF d
<1>7. /\ n \in CallState /\ n.stage = "send" /\ n.ask = d.ask /\ n.maybe = d.maybe
      /\ n.orphan = d.orphan /\ n.status = d.status
      /\ Ring(d) => Ring(n)
  <2>1. leader \in Node \cup {Nil} /\ d.node \in MayFollow
    BY <1>1, <1>6 DEF TypeInv
  <2> QED
    BY <1>6, <2>1, AfterRefusalIs
<1> HIDE DEF n
<1>8. Ring(c) => Ring(n)
  BY <1>6, <1>7 DEF Ring
<1>9. n.status # 503
  BY <1>1, <1>6, <1>7 DEF MarkInv
<1>10. Bare(n) => Bare(c)
  BY <1>1, <1>4, <1>6, <1>7 DEF Bare
<1>11. Move(h, n)
  BY <1>1, <1>3, <1>5, <1>6, <1>7, <1>8, <1>9, <1>10 DEF Move, Informed, TypeInv
<1> QED
  BY <1>11

\* A call fails on its way, and may have reached a node.
LEMMA FailureMoves ==
    ASSUME TypeInv, MarkInv, NEW h \in Http, FailInTransit(h)
    PROVE  \E n : Move(h, n)
<1>1. PICK c \in CallState : c = http[h] /\ c.stage \in {"send", "wait"} /\ c.ask \in Asks
  BY DEF TypeInv, FailInTransit, Attempting
<1>2. /\ leaderHint' = leaderHint /\ kv' = kv /\ effects' = effects /\ leader' = leader
      /\ \/ pending' = pending
         \/ IsWrite(c.ask) /\ pending' = pending \cup {EntryOf(h)}
  BY <1>1 DEF FailInTransit, cluster
<1>3. PICK more \in Nat, maybe \in BOOLEAN :
        more = c.attempts + 1 /\ maybe = (c.maybe \/ IsWrite(c.ask))
  <2>1. c.attempts + 1 \in Nat
    BY DEF CallState
  <2>2. (c.maybe \/ IsWrite(c.ask)) \in BOOLEAN
    OBVIOUS
  <2> QED
    BY <2>1, <2>2, Zenon
<1> DEFINE d == [c EXCEPT !.attempts = more, !.maybe = maybe]
           failed == c.unreachable \cup {c.node}
           n == Advance(d, failed)
<1>4. http' = [http EXCEPT ![h] = n]
  BY <1>1, <1>3 DEF FailInTransit
<1>5. /\ d \in CallState /\ d.stage = c.stage /\ d.ask = c.ask /\ d.node = c.node
      /\ d.maybe = maybe /\ d.orphan = c.orphan /\ d.status = c.status /\ d.strays = c.strays
      /\ d.unreachable = c.unreachable
  BY Zenon DEF CallState
<1> HIDE DEF d
<1>6. /\ n \in CallState /\ n.stage = "send" /\ n.ask = d.ask /\ n.maybe = d.maybe
      /\ n.orphan = d.orphan /\ n.status = d.status
      /\ Ring(d) => Ring(n)
  <2>1. leader \in Node \cup {Nil}
    BY DEF TypeInv
  <2>2. c.unreachable \in SUBSET Node /\ c.node \in Node
    BY DEF CallState
  <2>3. failed \in SUBSET Node /\ d.unreachable \subseteq failed
        /\ failed \subseteq d.unreachable \cup {d.node}
    BY <1>5, <2>2
  <2> HIDE DEF failed
  <2> QED
    BY <1>5, <2>1, <2>3, AdvanceIs
<1> HIDE DEF n
<1>7. Ring(c) => Ring(n)
  BY <1>5, <1>6 DEF Ring
<1>8. n.status # 503
  BY <1>1, <1>5, <1>6 DEF MarkInv
<1>9. Bare(n) => Bare(c) /\ ~IsWrite(c.ask)
  BY <1>1, <1>3, <1>5, <1>6 DEF Bare, MarkInv
<1>10. IsWrite(c.ask) => Writes(h, n.ask, EntryOf(h))
  BY <1>1, <1>5, <1>6, EntryIs
<1>11. \/ pending' = pending /\ (Bare(n) => Bare(c))
       \/ ~Bare(n) /\ \E e : Writes(h, n.ask, e) /\ pending' = pending \cup {e}
  BY <1>2, <1>9, <1>10
<1>12. Move(h, n)
  BY <1>1, <1>2, <1>4, <1>5, <1>6, <1>7, <1>8, <1>11 DEF Move, Informed, TypeInv
<1> QED
  BY <1>12


\* A request is answered: with what the store knows, with what was read, or
\* with an error.
LEMMA FinishMoves ==
    ASSUME TypeInv, MarkInv, NEW h \in Http, NEW status \in Nat, NEW version \in Nat,
           Finish(h, status, version), http[h].stage \in {"send", "wait"},
           kv' = kv, effects' = effects, leader' = leader, pending' = pending,
           leaderHint' \in Node,
           status = 503 => http[h].stage = "send" /\ ~http[h].maybe,
           status \notin {502, 503, 504} /\ IsWrite(http[h].ask) =>
             \E result \in SessionResult(kv, IdentityOf(h, http[h].ask), 1) :
                 status = WriteStatus(http[h].ask.op, result) /\ version = result.version
    PROVE  \E n : Move(h, n)
<1>1. PICK c \in CallState : c = http[h] /\ c.stage \in {"send", "wait"} /\ c.ask \in Asks
  BY DEF TypeInv
<1> DEFINE n == [NewCall EXCEPT !.stage = "done", !.ask = c.ask, !.attempts = c.attempts,
                                !.orphan = c.orphan, !.status = status, !.version = version]
<1>2. http' = [http EXCEPT ![h] = n]
  BY <1>1 DEF Finish
<1>3. PICK start \in Node : start = 0
  BY GatewayAssumption DEF Node
<1>4. NewCall \in CallState /\ NewCall.node = 0 /\ NewCall.strays = 0
  <2>1. PICK zero \in Nat, none \in SUBSET Node : zero = 0 /\ none = {}
    OBVIOUS
  <2>2. NewCall = [stage |-> "new", ask |-> Nil, node |-> start, unreachable |-> none,
                   redirects |-> zero, maybe |-> FALSE, attempts |-> zero, status |-> zero,
                   version |-> zero, orphan |-> FALSE, strays |-> zero]
    BY <1>3, <2>1 DEF NewCall
  <2> QED
    BY <1>3, <2>1, <2>2, Zenon DEF CallState
<1>5. c.attempts \in Nat /\ c.orphan \in BOOLEAN
  BY DEF CallState
<1>6. /\ n \in CallState /\ n.stage = "done" /\ n.ask = c.ask /\ n.orphan = c.orphan
      /\ n.status = status /\ n.version = version
      /\ n.node = NewCall.node /\ n.strays = NewCall.strays
  <2> HIDE DEF NewCall
  <2> QED
    BY <1>1, <1>4, <1>5, Zenon DEF CallState
<1> HIDE DEF n
<1>7. Ring(n)
  <2>1. leader # Nil => 0 + Distance(start, leader) < NodeCount
    <3> SUFFICES ASSUME leader # Nil PROVE 0 + Distance(start, leader) < NodeCount
      OBVIOUS
    <3>1. PICK d \in Nat : d = Distance(start, leader) /\ d < NodeCount
      BY DistanceType DEF TypeInv
    <3> QED
      BY <3>1
  <2> QED
    BY <1>3, <1>4, <1>6, <2>1 DEF Ring
<1>8. Bare(n) => Bare(c)
  BY <1>1, <1>6 DEF Bare
<1>9. Informed(h, n)
  BY <1>1, <1>6 DEF Informed
<1>10. Move(h, n)
  BY <1>1, <1>2, <1>6, <1>7, <1>8, <1>9 DEF Move
<1> QED
  BY <1>10

\* The store answers with a result.
LEMMA SuccessMoves ==
    ASSUME TypeInv, MarkInv, NEW h \in Http, WriteSucceeds(h)
    PROVE  \E n : Move(h, n)
<1>1. /\ http[h].stage \in {"send", "wait"} /\ http[h].node \in Node
      /\ http[h].ask \in Asks /\ http[h].ask.op # Noop /\ http[h].ask.op \in Command
  BY GatewayAssumption DEF TypeInv, WriteSucceeds, Attempting, IsWrite, CallState
<1>2. PICK result \in SessionResult(kv, IdentityOf(h, http[h].ask), 1) :
        Finish(h, WriteStatus(http[h].ask.op, result), result.version)
  BY DEF WriteSucceeds
<1>3. result \in Result
  BY <1>2, SessionResultHeld DEF TypeInv
<1>4. PICK status \in Nat, version \in Nat :
        /\ status = WriteStatus(http[h].ask.op, result) /\ version = result.version
        /\ status # 503
  <2>1. WriteStatus(http[h].ask.op, result) \in {200, 201, 204, 404, 412}
    BY <1>1, <1>3, WriteStatusIs
  <2>2. result.version \in Nat
    BY <1>3 DEF Result
  <2> QED
    BY <2>1, <2>2
<1>5. /\ leaderHint' = http[h].node /\ kv' = kv /\ effects' = effects /\ leader' = leader
      /\ pending' = pending
  BY DEF WriteSucceeds, cluster
<1> QED
  BY <1>1, <1>2, <1>4, <1>5, FinishMoves

\* Every step either moves one call, or commits an entry, or the cluster changes
\* its leader.
LEMMA StepForms ==
    ASSUME TypeInv, MarkInv, [Next]_vars,
           \A g \in Http : http[g].stage = "new" => http[g].strays = 0
    PROVE  \/ \E h \in Http : \E n : Move(h, n)
           \/ \E e \in pending : Commit(e)
           \/ Unsettle \/ \E n \in Node : Settle(n)
           \/ UNCHANGED vars
<1>1. ASSUME NEW h \in Http, ReadSucceeds(h)
      PROVE  \E n : Move(h, n)
  <2>1. /\ http[h].stage \in {"send", "wait"} /\ http[h].node \in Node
        /\ ~IsWrite(http[h].ask) /\ Finish(h, 200, 0)
        /\ leaderHint' = http[h].node /\ kv' = kv /\ effects' = effects
        /\ leader' = leader /\ pending' = pending
    BY <1>1 DEF ReadSucceeds, Attempting, TypeInv, CallState, cluster
  <2>2. PICK status \in Nat, version \in Nat : status = 200 /\ version = 0
    OBVIOUS
  <2> QED
    BY <2>1, <2>2, FinishMoves
<1>2. ASSUME NEW h \in Http, FailOtherwise(h)
      PROVE  \E n : Move(h, n)
  <2>1. /\ http[h].stage \in {"send", "wait"} /\ Finish(h, 502, 0)
        /\ leaderHint' = leaderHint /\ kv' = kv /\ effects' = effects
        /\ leader' = leader /\ pending' = pending
    BY <1>2 DEF FailOtherwise, cluster
  <2>2. PICK status \in Nat, version \in Nat : status = 502 /\ version = 0
    OBVIOUS
  <2>3. leaderHint' \in Node
    BY <2>1 DEF TypeInv
  <2> QED
    BY <2>1, <2>2, <2>3, FinishMoves
<1>3. ASSUME NEW h \in Http, TimeOut(h)
      PROVE  \E n : Move(h, n)
  <2>1. PICK status \in Nat, version \in Nat :
          status = (IF http[h].maybe THEN 504 ELSE 503) /\ version = 0
    OBVIOUS
  <2>2. /\ http[h].stage = "send" /\ Finish(h, status, version)
        /\ leaderHint' = leaderHint /\ kv' = kv /\ effects' = effects
        /\ leader' = leader /\ pending' = pending
    BY <1>3, <2>1 DEF TimeOut, cluster
  <2>3. leaderHint' \in Node
    BY <2>2 DEF TypeInv
  <2>4. status \in {502, 503, 504} /\ (status = 503 => ~http[h].maybe)
    BY <2>1
  <2> QED
    BY <2>2, <2>3, <2>4, FinishMoves
<1> QED
  BY <1>1, <1>2, <1>3, ReceiveMoves, AppendMoves, RefusalMoves, FailureMoves, SuccessMoves
     DEF Next


-----------------------------------------------------------------------------
(* The invariants                                                          *)

\* Calls stay on their way round the ring
RingInv ==
    \A h \in Http : /\ Ring(http[h])
                    /\ http[h].stage = "new" => http[h].strays = 0

\* An entry is the write of the request it names
KnownInv ==
    /\ \A e \in pending : http[e.http].stage # "new" /\ Writes(e.http, http[e.http].ask, e)
    /\ \A f \in effects :
         http[f.entry.http].stage # "new" /\ Writes(f.entry.http, http[f.entry.http].ask, f.entry)

\* Every session was made by an effect
SessionInv ==
    /\ OnePerClient(kv.sessions)
    /\ \A x : Holds(kv.sessions, x) =>
         x.seq = 1 /\ \E f \in effects : f.entry.client = x.client /\ f.result = x.result

GatewayInv ==
    TypeInv /\ MarkInv /\ RingInv /\ KnownInv /\ SessionInv /\ AnswerIsOwnEffect

\* An answer the store gives to a write is that of an effect of the same request.
LEMMA InformedIs ==
    ASSUME GatewayInv, NEW h \in Http, NEW ask \in Asks,
           http[h].stage # "new" => http[h].ask = ask,
           NEW result \in SessionResult(kv, IdentityOf(h, ask), 1)
    PROVE  \E f \in effects : /\ f.entry.cmd = ask.op /\ f.result = result
                              /\ f.entry.http = h \/ http[f.entry.http].ask = ask
<1>1. PICK x : /\ Holds(kv.sessions, x) /\ x.client = IdentityOf(h, ask)
               /\ result = IF 1 = x.seq THEN x.result ELSE StaleAnswer
  BY SessionResultHeld DEF GatewayInv, TypeInv
<1>2. PICK f \in effects : f.entry.client = x.client /\ f.result = x.result /\ x.seq = 1
  BY <1>1 DEF GatewayInv, SessionInv
<1>3. PICK g \in Http, b \in Asks : /\ g = f.entry.http /\ b = http[g].ask
                                    /\ http[g].stage # "new"
                                    /\ f.entry.client = IdentityOf(g, b)
                                    /\ f.entry.cmd = b.op
  BY <1>2 DEF GatewayInv, KnownInv, Writes, TypeInv, SentEntry
<1>4. IdentityOf(h, ask) = IdentityOf(g, b)
  BY <1>1, <1>2, <1>3
<1>5. h = g \/ ask = b
  BY <1>4, SameIdentity
<1>6. ask = b
  BY <1>3, <1>5
<1>7. f.result = result
  BY <1>1, <1>2
<1> QED
  BY <1>3, <1>6, <1>7

\* A call that moves keeps the types, and a request that was made keeps what it
\* asks for.
LEMMA MoveType ==
    ASSUME TypeInv, NEW h \in Http, NEW n, Move(h, n)
    PROVE  /\ TypeInv'
           /\ http'[h] = n /\ n \in CallState
           /\ \A g \in Http \ {h} : http'[g] = http[g]
           /\ \A g \in Http : http[g].stage # "new" =>
                http'[g].stage # "new" /\ http'[g].ask = http[g].ask
<1>1. /\ n \in CallState /\ http' = [http EXCEPT ![h] = n] /\ n.stage # "new" /\ n.ask \in Asks
      /\ http[h].stage # "new" => n.ask = http[h].ask
  BY DEF Move
<1>2. http \in [Http -> CallState]
  BY DEF TypeInv
<1>3. /\ http' \in [Http -> CallState] /\ http'[h] = n
      /\ \A g \in Http \ {h} : http'[g] = http[g]
  BY <1>1, <1>2
<1>4. pending' \subseteq SentEntry
  BY DEF Move, TypeInv, Writes
<1>5. leaderHint' \in Node /\ kv' = kv /\ leader' = leader /\ effects' = effects
  BY DEF Move
<1>6. \A g \in Http : http'[g].stage # "new" => http'[g].ask \in Asks
  <2> SUFFICES ASSUME NEW g \in Http, http'[g].stage # "new" PROVE http'[g].ask \in Asks
    OBVIOUS
  <2>1. CASE g = h
    BY <1>1, <1>3, <2>1
  <2>2. CASE g # h
    BY <1>3, <2>2 DEF TypeInv
  <2> QED
    BY <2>1, <2>2
<1>7. TypeInv'
  BY <1>3, <1>4, <1>5, <1>6 DEF TypeInv
<1>8. ASSUME NEW g \in Http, http[g].stage # "new"
      PROVE  http'[g].stage # "new" /\ http'[g].ask = http[g].ask
  <2>1. CASE g = h
    BY <1>1, <1>3, <1>8, <2>1
  <2>2. CASE g # h
    BY <1>3, <1>8, <2>2
  <2> QED
    BY <2>1, <2>2
<1> QED
  BY <1>1, <1>3, <1>7, <1>8

\* A call that moves leaves its mark before it leaves an entry.
LEMMA MoveMark ==
    ASSUME TypeInv, MarkInv, NEW h \in Http, NEW n, Move(h, n)
    PROVE  MarkInv'
<1>1. /\ http'[h] = n /\ \A g \in Http \ {h} : http'[g] = http[g]
  BY MoveType
<1>2. ASSUME NEW g \in Http
      PROVE  /\ Bare(http'[g]) => Unsent(g)'
             /\ http'[g].stage = "wait" => IsWrite(http'[g].ask)
             /\ http'[g].status = 503 => http'[g].stage = "done"
  <2>1. CASE g = h
    <3>1. /\ n.stage = "wait" => IsWrite(n.ask)
          /\ n.status = 503 => n.stage = "done"
      BY DEF Move
    <3>2. Bare(n) => Bare(http[h]) /\ pending' = pending /\ effects' = effects
      BY DEF Move
    <3>3. Bare(n) => Unsent(h)'
      BY <3>2 DEF MarkInv, Unsent
    <3> QED
      BY <1>1, <2>1, <3>1, <3>3
  <2>2. CASE g # h
    <3>1. Unsent(g) => Unsent(g)'
      BY <2>2 DEF Move, Unsent, Writes
    <3>2. http'[g] = http[g]
      BY <1>1, <2>2
    <3> QED
      BY <3>1, <3>2 DEF MarkInv
  <2> QED
    BY <2>1, <2>2
<1> QED
  BY <1>2 DEF MarkInv

\* A call that moves stays on its way round the ring.
LEMMA MoveRing ==
    ASSUME TypeInv, RingInv, NEW h \in Http, NEW n, Move(h, n)
    PROVE  RingInv'
<1>1. /\ http'[h] = n /\ \A g \in Http \ {h} : http'[g] = http[g]
  BY MoveType
<1>2. leader' = leader /\ n.stage # "new" /\ Ring(n)
  BY DEF Move, RingInv
<1>3. ASSUME NEW g \in Http
      PROVE  Ring(http[g])' /\ (http'[g].stage = "new" => http'[g].strays = 0)
  <2>1. CASE g = h
    BY <1>1, <1>2, <2>1 DEF Ring
  <2>2. CASE g # h
    BY <1>1, <1>2, <2>2 DEF Ring, RingInv
  <2> QED
    BY <2>1, <2>2
<1> QED
  BY <1>3 DEF RingInv

\* A call that moves leaves only entries that are its write.
LEMMA MoveKnown ==
    ASSUME TypeInv, KnownInv, NEW h \in Http, NEW n, Move(h, n)
    PROVE  KnownInv'
<1>1. /\ http'[h] = n
      /\ \A g \in Http : http[g].stage # "new" =>
           http'[g].stage # "new" /\ http'[g].ask = http[g].ask
  BY MoveType
<1>2. ASSUME NEW e \in pending'
      PROVE  http'[e.http].stage # "new" /\ Writes(e.http, http'[e.http].ask, e)
  <2>1. CASE e \in pending
    <3>1. http[e.http].stage # "new" /\ Writes(e.http, http[e.http].ask, e) /\ e.http \in Http
      BY <2>1 DEF KnownInv, TypeInv, SentEntry
    <3> QED
      BY <1>1, <3>1
  <2>2. CASE e \notin pending
    <3>1. n.stage # "new" /\ Writes(h, n.ask, e)
      BY <1>2, <2>2 DEF Move
    <3>2. e.http = h
      BY <3>1 DEF Writes
    <3> QED
      BY <1>1, <3>1, <3>2
  <2> QED
    BY <2>1, <2>2
<1>3. ASSUME NEW f \in effects'
      PROVE  /\ http'[f.entry.http].stage # "new"
             /\ Writes(f.entry.http, http'[f.entry.http].ask, f.entry)
  <2>1. f \in effects
    BY <1>3 DEF Move
  <2>2. /\ http[f.entry.http].stage # "new" /\ f.entry.http \in Http
        /\ Writes(f.entry.http, http[f.entry.http].ask, f.entry)
    BY <2>1 DEF KnownInv, TypeInv, SentEntry
  <2> QED
    BY <1>1, <2>2
<1> QED
  BY <1>2, <1>3 DEF KnownInv

\* A call that moves to a definite answer has it from an effect of its request.
LEMMA MoveAnswers ==
    ASSUME GatewayInv, NEW h \in Http, NEW n, Move(h, n)
    PROVE  AnswerIsOwnEffect'
<1>1. /\ http'[h] = n
      /\ \A g \in Http \ {h} : http'[g] = http[g]
      /\ \A g \in Http : http[g].stage # "new" =>
           http'[g].stage # "new" /\ http'[g].ask = http[g].ask
  BY MoveType DEF GatewayInv
<1>2. effects' = effects
  BY DEF Move
<1>3. \A f \in effects : http'[f.entry.http].ask = http[f.entry.http].ask
  BY <1>1 DEF GatewayInv, KnownInv, TypeInv, SentEntry
<1>4. ASSUME NEW g \in Http, Answered(g)', IsWrite(http'[g].ask)
      PROVE  \E f \in effects' :
                /\ f.entry.cmd = http'[g].ask.op
                /\ f.entry.http = g \/ http'[f.entry.http].ask = http'[g].ask
                /\ http'[g].status = WriteStatus(f.entry.cmd, f.result)
                /\ http'[g].version = f.result.version
  <2>1. CASE g # h
    <3>1. http'[g] = http[g]
      BY <1>1, <2>1
    <3>2. Answered(g) /\ IsWrite(http[g].ask)
      BY <1>4, <3>1 DEF Answered
    <3>3. PICK f \in effects :
                /\ f.entry.cmd = http[g].ask.op
                /\ f.entry.http = g \/ http[f.entry.http].ask = http[g].ask
                /\ http[g].status = WriteStatus(f.entry.cmd, f.result)
                /\ http[g].version = f.result.version
      BY <3>2 DEF GatewayInv, AnswerIsOwnEffect
    <3> QED
      BY <1>2, <1>3, <3>1, <3>3
  <2>2. CASE g = h
    <3>1. n.ask \in Asks /\ (http[h].stage # "new" => http[h].ask = n.ask) /\ Informed(h, n)
      BY DEF Move
    <3>2. n.stage = "done" /\ n.status \notin {502, 503, 504} /\ IsWrite(n.ask)
      BY <1>1, <1>4, <2>2 DEF Answered
    <3>3. PICK result \in SessionResult(kv, IdentityOf(h, n.ask), 1) :
            n.status = WriteStatus(n.ask.op, result) /\ n.version = result.version
      BY <3>1, <3>2 DEF Informed
    <3>4. PICK f \in effects : /\ f.entry.cmd = n.ask.op /\ f.result = result
                               /\ f.entry.http = h \/ http[f.entry.http].ask = n.ask
      BY <3>1, InformedIs
    <3> QED
      BY <1>1, <1>2, <1>3, <2>2, <3>3, <3>4
  <2> QED
    BY <2>1, <2>2
<1> QED
  BY <1>4 DEF AnswerIsOwnEffect, Answered

\* A call that moves keeps the invariant.
LEMMA MoveSafe ==
    ASSUME GatewayInv, NEW h \in Http, NEW n, Move(h, n)
    PROVE  GatewayInv'
<1>1. SessionInv'
  BY DEF Move, GatewayInv, SessionInv
<1> QED
  BY <1>1, MoveType, MoveMark, MoveRing, MoveKnown, MoveAnswers DEF GatewayInv

\* An entry is committed: what becomes of the log, the sessions and the effects.
LEMMA CommitIs ==
    ASSUME TypeInv, NEW e \in pending, Commit(e)
    PROVE  /\ e \in SentEntry /\ e.client \in Client /\ e.cmd \in Command /\ e.seq = 1
           /\ http' = http /\ leader' = leader /\ leaderHint' = leaderHint
           /\ pending' = pending \ {e} /\ kv' = Apply(kv, e) /\ kv' \in State
           /\ Duplicate(kv, e) => effects' = effects /\ kv' = kv
           /\ ~Duplicate(kv, e) =>
                effects' = effects \cup {[entry |-> e, result |-> Outcome(kv, e.cmd)]}
           /\ Outcome(kv, e.cmd) \in Result
           /\ effects \subseteq effects'
<1>1. /\ e \in SentEntry /\ e.client \in Client /\ e.cmd \in Command /\ e.seq = 1
  BY GatewayAssumption DEF TypeInv, SentEntry
<1>2. kv \in State
  BY DEF TypeInv
<1>3. /\ http' = http /\ leader' = leader /\ leaderHint' = leaderHint
      /\ pending' = pending \ {e} /\ kv' = Apply(kv, e)
      /\ effects' = IF Duplicate(kv, e) THEN effects
                    ELSE effects \cup {[entry |-> e, result |-> ApplyResult(kv, e)]}
  BY DEF Commit, cluster
<1>4. /\ Apply(kv, e) \in State
      /\ Duplicate(kv, e) => Apply(kv, e) = kv
      /\ ~Duplicate(kv, e) => ApplyResult(kv, e) = Outcome(kv, e.cmd)
  <2>1. e.seq \in Nat
    BY <1>1
  <2> QED
    BY <1>1, <1>2, <2>1, ApplyType
<1>5. Outcome(kv, e.cmd) \in Result
  BY <1>1, <1>2, EffectType
<1> QED
  BY <1>1, <1>3, <1>4, <1>5

\* The sessions of the log come from the effects.
LEMMA CommitSessions ==
    ASSUME TypeInv, SessionInv, NEW e \in pending, Commit(e)
    PROVE  SessionInv'
<1>1. /\ e.client \in Client /\ e.cmd \in Command /\ e.seq = 1
      /\ kv' = Apply(kv, e) /\ kv \in State
      /\ ~Duplicate(kv, e) =>
           effects' = effects \cup {[entry |-> e, result |-> Outcome(kv, e.cmd)]}
      /\ effects \subseteq effects'
  BY CommitIs DEF TypeInv
<1>2. e.seq \in Nat /\ e.seq > 0
  BY <1>1
<1>3. OnePerClient(Apply(kv, e).sessions)
  BY <1>1, <1>2, ApplySessions DEF SessionInv
<1>4. ASSUME NEW x, Holds(Apply(kv, e).sessions, x)
      PROVE  x.seq = 1 /\ \E f \in effects' : f.entry.client = x.client /\ f.result = x.result
  <2>1. CASE Holds(kv.sessions, x)
    BY <1>1, <2>1 DEF SessionInv
  <2>2. CASE ~Holds(kv.sessions, x)
    <3>1. /\ ~Duplicate(kv, e) /\ x.client = e.client /\ x.seq = e.seq
          /\ x.result = Outcome(kv, e.cmd)
      BY <1>1, <1>2, <1>4, <2>2, NewSession
    <3>2. [entry |-> e, result |-> Outcome(kv, e.cmd)] \in effects'
      BY <1>1, <3>1
    <3> QED
      BY <1>1, <3>1, <3>2
  <2> QED
    BY <2>1, <2>2
<1> QED
  BY <1>1, <1>3, <1>4 DEF SessionInv

\* A commit keeps the invariant.
LEMMA CommitSafe ==
    ASSUME GatewayInv, NEW e \in pending, Commit(e)
    PROVE  GatewayInv'
<1>0. TypeInv /\ MarkInv /\ RingInv /\ KnownInv /\ SessionInv /\ AnswerIsOwnEffect
  BY DEF GatewayInv
<1>1. /\ e \in SentEntry /\ http' = http /\ leader' = leader /\ leaderHint' = leaderHint
      /\ pending' = pending \ {e} /\ kv' \in State /\ effects \subseteq effects'
  BY <1>0, CommitIs
<1>2. PICK result \in Result : effects' \subseteq effects \cup {[entry |-> e, result |-> result]}
  BY <1>0, CommitIs
<1>3. \A f \in effects' : f \in effects \/ (f.entry = e /\ f.entry \in pending)
  BY <1>2
<1>4. TypeInv'
  BY <1>0, <1>1, <1>2 DEF TypeInv
<1>5. MarkInv'
  <2>1. \A h \in Http : Unsent(h) => Unsent(h)'
    BY <1>1, <1>3 DEF Unsent
  <2> QED
    BY <1>0, <1>1, <2>1 DEF MarkInv
<1>6. RingInv'
  BY <1>0, <1>1 DEF RingInv, Ring
<1>7. KnownInv'
  <2>1. pending' \subseteq pending /\ http' = http
    BY <1>1
  <2>2. ASSUME NEW f \in effects'
        PROVE  http[f.entry.http].stage # "new"
               /\ Writes(f.entry.http, http[f.entry.http].ask, f.entry)
    BY <1>0, <1>3 DEF KnownInv
  <2> QED
    BY <1>0, <2>1, <2>2 DEF KnownInv
<1>8. AnswerIsOwnEffect'
  BY <1>0, <1>1 DEF AnswerIsOwnEffect, Answered
<1>9. SessionInv'
  BY <1>0, CommitSessions
<1> QED
  BY <1>4, <1>5, <1>6, <1>7, <1>8, <1>9 DEF GatewayInv

\* The leader is lost: the way round the ring starts anew for every call.
LEMMA UnsettleSafe ==
    ASSUME GatewayInv, Unsettle
    PROVE  GatewayInv'
<1>0. TypeInv /\ MarkInv /\ RingInv /\ KnownInv /\ SessionInv /\ AnswerIsOwnEffect
  BY DEF GatewayInv
<1>1. /\ leader' = Nil /\ leaderHint' = leaderHint /\ kv' = kv /\ pending' = pending
      /\ effects' = effects /\ http' = [h \in Http |-> [http[h] EXCEPT !.strays = 0]]
  BY DEF Unsettle
<1>2. ASSUME NEW h \in Http
      PROVE  /\ http'[h] \in CallState
             /\ http'[h].stage = http[h].stage /\ http'[h].ask = http[h].ask
             /\ http'[h].maybe = http[h].maybe /\ http'[h].orphan = http[h].orphan
             /\ http'[h].status = http[h].status /\ http'[h].version = http[h].version
             /\ http'[h].strays = 0
  <2>1. PICK c \in CallState, zero \in Nat : c = http[h] /\ zero = 0
    BY <1>0 DEF TypeInv
  <2> DEFINE n == [c EXCEPT !.strays = zero]
  <2>2. http'[h] = n
    BY <1>1, <2>1
  <2>3. /\ n \in CallState /\ n.stage = c.stage /\ n.ask = c.ask /\ n.maybe = c.maybe
        /\ n.orphan = c.orphan /\ n.status = c.status /\ n.version = c.version
        /\ n.strays = zero
    BY Zenon DEF CallState
  <2> HIDE DEF n
  <2> QED
    BY <2>1, <2>2, <2>3
<1>3. TypeInv'
  <2>1. http' \in [Http -> CallState]
    BY <1>1, <1>2
  <2> QED
    BY <1>0, <1>1, <1>2, <2>1 DEF TypeInv
<1>4. MarkInv'
  <2>1. \A h \in Http : Bare(http'[h]) => Bare(http[h])
    BY <1>2 DEF Bare
  <2>2. \A h \in Http : Unsent(h) => Unsent(h)'
    BY <1>1 DEF Unsent
  <2> QED
    BY <1>0, <1>2, <2>1, <2>2 DEF MarkInv
<1>5. RingInv'
  BY <1>1, <1>2 DEF RingInv, Ring
<1>6. KnownInv'
  <2>1. \A e \in pending : e.http \in Http
    BY <1>0 DEF TypeInv, SentEntry
  <2>2. \A f \in effects : f.entry.http \in Http
    BY <1>0 DEF TypeInv, SentEntry
  <2> QED
    BY <1>0, <1>1, <1>2, <2>1, <2>2 DEF KnownInv
<1>7. AnswerIsOwnEffect'
  <2>1. \A f \in effects : f.entry.http \in Http
    BY <1>0 DEF TypeInv, SentEntry
  <2>2. ASSUME NEW h \in Http, Answered(h)', IsWrite(http'[h].ask)
        PROVE  \E f \in effects' :
                  /\ f.entry.cmd = http'[h].ask.op
                  /\ f.entry.http = h \/ http'[f.entry.http].ask = http'[h].ask
                  /\ http'[h].status = WriteStatus(f.entry.cmd, f.result)
                  /\ http'[h].version = f.result.version
    <3>1. Answered(h) /\ IsWrite(http[h].ask)
      BY <1>2, <2>2 DEF Answered
    <3>2. PICK f \in effects :
                  /\ f.entry.cmd = http[h].ask.op
                  /\ f.entry.http = h \/ http[f.entry.http].ask = http[h].ask
                  /\ http[h].status = WriteStatus(f.entry.cmd, f.result)
                  /\ http[h].version = f.result.version
      BY <1>0, <3>1 DEF AnswerIsOwnEffect
    <3>3. f \in effects' /\ http'[f.entry.http].ask = http[f.entry.http].ask
      BY <1>1, <1>2, <2>1
    <3> QED
      BY <1>2, <3>2, <3>3
  <2> QED
    BY <2>2 DEF AnswerIsOwnEffect, Answered
<1>8. SessionInv'
  BY <1>0, <1>1 DEF SessionInv
<1> QED
  BY <1>3, <1>4, <1>5, <1>6, <1>7, <1>8 DEF GatewayInv

\* The cluster settles on a leader, which no attempt has missed yet.
LEMMA SettleSafe ==
    ASSUME GatewayInv, NEW l \in Node, Settle(l)
    PROVE  GatewayInv'
<1>0. TypeInv /\ MarkInv /\ RingInv /\ KnownInv /\ SessionInv /\ AnswerIsOwnEffect
  BY DEF GatewayInv
<1>1. /\ leader = Nil /\ leader' = l /\ leaderHint' = leaderHint /\ http' = http /\ kv' = kv
      /\ pending' = pending /\ effects' = effects
  BY DEF Settle
<1>2. RingInv'
  <2>1. ASSUME NEW h \in Http
        PROVE  http[h].strays + Distance(http[h].node, l) < NodeCount
    <3>1. http[h].strays = 0 /\ http[h].node \in Node
      BY <1>0, <1>1 DEF RingInv, Ring, TypeInv, CallState
    <3>2. PICK d \in Nat : d = Distance(http[h].node, l) /\ d < NodeCount
      BY <3>1, DistanceType
    <3>3. 0 + d < NodeCount
      BY <3>2
    <3> QED
      BY <3>1, <3>2, <3>3
  <2>2. l # Nil
    BY GatewayAssumption
  <2> QED
    BY <1>0, <1>1, <2>1, <2>2 DEF RingInv, Ring
<1>3. TypeInv'
  BY <1>0, <1>1 DEF TypeInv
<1>4. MarkInv'
  BY <1>0, <1>1 DEF MarkInv, Unsent
<1>5. KnownInv' /\ SessionInv' /\ AnswerIsOwnEffect'
  BY <1>0, <1>1 DEF KnownInv, SessionInv, AnswerIsOwnEffect, Answered
<1> QED
  BY <1>2, <1>3, <1>4, <1>5 DEF GatewayInv

\* A stuttering step keeps the invariant.
LEMMA StutterSafe ==
    ASSUME GatewayInv, UNCHANGED vars
    PROVE  GatewayInv'
<1>0. TypeInv /\ MarkInv /\ RingInv /\ KnownInv /\ SessionInv /\ AnswerIsOwnEffect
  BY DEF GatewayInv
<1>1. /\ leader' = leader /\ leaderHint' = leaderHint /\ http' = http /\ kv' = kv
      /\ pending' = pending /\ effects' = effects
  BY DEF vars, cluster
<1>2. TypeInv' /\ MarkInv' /\ RingInv'
  BY <1>0, <1>1 DEF TypeInv, MarkInv, Unsent, RingInv, Ring
<1>3. KnownInv' /\ SessionInv' /\ AnswerIsOwnEffect'
  BY <1>0, <1>1 DEF KnownInv, SessionInv, AnswerIsOwnEffect, Answered
<1> QED
  BY <1>2, <1>3 DEF GatewayInv

\* Every step keeps the invariant.
LEMMA StepSafe ==
    ASSUME GatewayInv, [Next]_vars
    PROVE  GatewayInv'
<1>1. \A g \in Http : http[g].stage = "new" => http[g].strays = 0
  BY DEF GatewayInv, RingInv
<1>2. \/ \E h \in Http : \E n : Move(h, n)
      \/ \E e \in pending : Commit(e)
      \/ Unsettle \/ \E n \in Node : Settle(n)
      \/ UNCHANGED vars
  BY <1>1, StepForms DEF GatewayInv
<1> QED
  BY <1>2, MoveSafe, CommitSafe, UnsettleSafe, SettleSafe, StutterSafe

\* The invariant holds at the start.
LEMMA StartsSafe ==
    ASSUME Init
    PROVE  GatewayInv
<1>1. PICK start \in Node : start = 0
  BY GatewayAssumption DEF Node
<1>2. /\ NewCall \in CallState /\ NewCall.stage = "new" /\ NewCall.node = start
      /\ NewCall.strays = 0 /\ NewCall.status = 0
  <2>1. PICK zero \in Nat, none \in SUBSET Node : zero = 0 /\ none = {}
    OBVIOUS
  <2>2. NewCall = [stage |-> "new", ask |-> Nil, node |-> start, unreachable |-> none,
                   redirects |-> zero, maybe |-> FALSE, attempts |-> zero, status |-> zero,
                   version |-> zero, orphan |-> FALSE, strays |-> zero]
    BY <1>1, <2>1 DEF NewCall
  <2> QED
    BY <1>1, <2>1, <2>2, Zenon DEF CallState
<1>3. /\ leaderHint = start /\ http = [h \in Http |-> NewCall] /\ kv = Empty /\ pending = {}
      /\ leader \in Node /\ effects = {}
  BY <1>1 DEF Init
<1> HIDE DEF NewCall
<1>4. http \in [Http -> CallState] /\ \A h \in Http : http[h] = NewCall
  BY <1>2, <1>3
<1>5. TypeInv
  BY <1>2, <1>3, <1>4, EmptyType DEF TypeInv
<1>6. MarkInv
  BY <1>2, <1>3, <1>4 DEF MarkInv, Unsent
<1>7. RingInv
  <2>1. PICK d \in Nat : d = Distance(start, leader) /\ d < NodeCount
    BY <1>3, DistanceType
  <2>2. 0 + d < NodeCount
    BY <2>1
  <2> QED
    BY <1>2, <1>3, <1>4, <2>1, <2>2, GatewayAssumption DEF RingInv, Ring
<1>8. KnownInv
  BY <1>3 DEF KnownInv
<1>9. SessionInv
  <2>1. kv.sessions = <<>>
    BY <1>3 DEF Empty
  <2> QED
    BY <2>1 DEF SessionInv, OnePerClient, Holds
<1>10. AnswerIsOwnEffect
  BY <1>2, <1>4 DEF AnswerIsOwnEffect, Answered
<1> QED
  BY <1>5, <1>6, <1>7, <1>8, <1>9, <1>10 DEF GatewayInv

-----------------------------------------------------------------------------
(* The theorems                                                            *)

\* The invariant the properties rest on: types, entries and sessions that belong
\* to requests, the marks of attempts that appended, and the way round the ring.
THEOREM GatewayInvariant == Spec => []GatewayInv
<1>1. Init => GatewayInv
  BY StartsSafe
<1>2. GatewayInv /\ [Next]_vars => GatewayInv'
  BY StepSafe
<1> QED
  BY <1>1, <1>2, PTL DEF Spec

\* A definite answer of the gateway to a write is the outcome of the one time
\* this request took effect, whichever node and attempt it was.
THEOREM AnswersAreOwn == Spec => []AnswerIsOwnEffect
<1>1. GatewayInv => AnswerIsOwnEffect
  BY DEF GatewayInv
<1> QED
  BY <1>1, GatewayInvariant, PTL

\* 503 from the gateway means that no attempt of the request is in any log, unless
\* a node that had appended it answered NOT_LEADER.
THEOREM UnavailableMeansUnsent == Spec => []UnavailableUnlessDeposed
<1>1. GatewayInv => UnavailableUnlessDeposed
  BY DEF GatewayInv, MarkInv, Bare, Unsent, UnavailableUnlessDeposed
<1> QED
  BY <1>1, GatewayInvariant, PTL

\* On a ring of any size, redirects and failures lead a call to a settled leader
\* before it has missed it once for every other node.
THEOREM LeaderReached == Spec => []SettledLeaderReached
<1>1. ASSUME GatewayInv, NEW h \in Http
      PROVE  http[h].strays <= MissBound
  <2>1. PICK s \in Nat, n \in Nat : s = http[h].strays /\ n = NodeCount /\ n > 0
    BY <1>1, GatewayAssumption DEF GatewayInv, TypeInv, CallState
  <2>2. CASE leader = Nil
    BY <1>1, <2>1, <2>2 DEF GatewayInv, RingInv, Ring, MissBound
  <2>3. CASE leader # Nil
    <3>1. leader \in Node /\ http[h].node \in Node
      BY <1>1, <2>3 DEF GatewayInv, TypeInv, CallState
    <3>2. PICK d \in Nat : d = Distance(http[h].node, leader)
      BY <3>1, DistanceType
    <3>3. s + d < n
      BY <1>1, <2>1, <2>3, <3>2 DEF GatewayInv, RingInv, Ring
    <3>4. s <= n - 1
      BY <3>3
    <3> QED
      BY <2>1, <3>4 DEF MissBound
  <2> QED
    BY <2>2, <2>3
<1>2. GatewayInv => SettledLeaderReached
  BY <1>1 DEF SettledLeaderReached
<1> QED
  BY <1>2, GatewayInvariant, PTL

-----------------------------------------------------------------------------
(* Once                                                                    *)

\* The effects are of different clients, and the log still has a session of each
HeldInv ==
    /\ \A f \in effects : \E x : Holds(kv.sessions, x) /\ x.client = f.entry.client
    /\ \A f, g \in effects : f.entry.client = g.entry.client => f = g

\* There are no more sessions than requests.
LEMMA IssuedFit ==
    ASSUME NEW sessions \in Seq(Session), OnePerClient(sessions), IsFiniteSet(Http),
           \A k \in 1..Len(sessions) : \E h \in Http :
                sessions[k].client = IdentityOf(h, http[h].ask)
    PROVE  Len(sessions) <= Cardinality(Http)
<1> DEFINE n == Len(sessions)
           f == [k \in 1..n |-> CHOOSE h \in Http :
                                   sessions[k].client = IdentityOf(h, http[h].ask)]
<1>1. n \in Nat
  BY LenProperties
<1>2. \A k \in 1..n : f[k] \in Http /\ sessions[k].client = IdentityOf(f[k], http[f[k]].ask)
  OBVIOUS
<1>3. \A k, l \in 1..n : f[k] = f[l] => k = l
  <2> HIDE DEF f
  <2> QED
    BY <1>2 DEF OnePerClient
<1>4. f \in [1..n -> Http]
  BY <1>2
<1> HIDE DEF f
<1>5. f \in Injection(1..n, Http)
  BY <1>3, <1>4 DEF Injection, IsInjective
<1>6. Cardinality(1..n) <= Cardinality(Http)
  BY <1>5, FS_Injection
<1>7. Cardinality(1..n) = n
  <2>1. Cardinality(1..n) = IF 1 > n THEN 0 ELSE n - 1 + 1
    BY <1>1, FS_Interval
  <2> HIDE DEF n
  <2> QED
    BY <1>1, <2>1
<1> QED
  BY <1>6, <1>7

\* A write that takes effect gets a session, and no other client loses its own,
\* as long as there is room for all requests.
LEMMA CommitRemembers ==
    ASSUME GatewayInv, IsFiniteSet(Http), Cardinality(Http) <= MaxSessions,
           NEW e \in pending, ~Duplicate(kv, e)
    PROVE  /\ \E x : Holds(Apply(kv, e).sessions, x) /\ x.client = e.client
           /\ \A x : Holds(kv.sessions, x) /\ x.client # e.client =>
                Holds(Apply(kv, e).sessions, x)
<1>1. /\ e.client \in Client /\ e.cmd \in Command /\ e.seq = 1 /\ kv \in State
      /\ e.http \in Http /\ e.client = IdentityOf(e.http, http[e.http].ask)
  BY GatewayAssumption DEF GatewayInv, KnownInv, Writes, TypeInv, SentEntry
<1> DEFINE mid == Effect(kv, e.cmd)
           out == Outcome(kv, e.cmd)
           new == [client |-> e.client, seq |-> e.seq, result |-> out]
           all == Append(Without(mid.sessions, e.client), new)
           after == Remember(mid, e.client, e.seq, out).sessions
<1>2. mid \in State /\ mid.sessions = kv.sessions /\ out \in Result
  BY <1>1, EffectType
<1>3. Apply(kv, e) = Remember(mid, e.client, e.seq, out)
  BY <1>1 DEF Apply
<1>4. new.client = e.client /\ e.seq \in Nat \ {0}
  BY <1>1
<1> HIDE DEF mid, out
<1>5. /\ all \in Seq(Session)
      /\ Len(all) <= MaxSessions =>
           /\ Holds(after, new)
           /\ \A x : Holds(mid.sessions, x) /\ x.client # e.client => Holds(after, x)
      /\ OnePerClient(mid.sessions) => OnePerClient(all)
  BY <1>1, <1>2, <1>4, RememberHolds
<1>6. \A k \in 1..Len(all) : all[k] = new \/ Holds(kv.sessions, all[k])
  <2>1. kv.sessions \in Seq(Session)
    BY <1>1 DEF State
  <2> DEFINE rest == Without(kv.sessions, e.client)
  <2>2. rest \in Seq(Session) /\ \A x : Holds(rest, x) => Holds(kv.sessions, x)
    BY <1>1, <2>1, WithoutType, WithoutHolds
  <2>3. all = Append(rest, new)
    BY <1>2
  <2> HIDE DEF rest, new, all
  <2>4. Len(rest) \in Nat
    BY <2>2, LenProperties
  <2>5. Len(all) = Len(rest) + 1 /\ all[Len(rest) + 1] = new
        /\ \A k \in 1..Len(rest) : all[k] = rest[k]
    <3>1. rest \in Seq(Session \cup {new}) /\ new \in Session \cup {new}
      BY <2>2
    <3> QED
      BY <2>3, <3>1, AppendProperties
  <2>6. \A k \in 1..Len(all) : k \in 1..Len(rest) \/ k = Len(rest) + 1
    BY <2>4, <2>5
  <2>7. \A k \in 1..Len(rest) : Holds(kv.sessions, all[k])
    BY <2>2, <2>5 DEF Holds
  <2> QED
    BY <2>5, <2>6, <2>7
<1>7. ASSUME NEW x, Holds(kv.sessions, x)
      PROVE  \E h \in Http : x.client = IdentityOf(h, http[h].ask)
  <2>1. PICK f \in effects : f.entry.client = x.client
    BY <1>7 DEF GatewayInv, SessionInv
  <2> QED
    BY <2>1 DEF GatewayInv, KnownInv, Writes, TypeInv, SentEntry
<1>8. OnePerClient(all)
  BY <1>2, <1>5 DEF GatewayInv, SessionInv
<1> HIDE DEF new, all, after
<1>9. Len(all) <= Cardinality(Http)
  <2>1. \A k \in 1..Len(all) : \E h \in Http : all[k].client = IdentityOf(h, http[h].ask)
    BY <1>1, <1>4, <1>6, <1>7
  <2> QED
    BY <1>5, <1>8, <2>1, IssuedFit
<1>10. Len(all) <= MaxSessions
  <2>1. Len(all) \in Nat /\ Cardinality(Http) \in Nat
    BY <1>5, LenProperties, FS_CardinalityType
  <2> QED
    BY <1>9, <2>1, MaxSessionsAssumption
<1> QED
  BY <1>2, <1>3, <1>4, <1>5, <1>10 DEF after

\* A commit keeps one effect per client, and their sessions.
LEMMA CommitHolds ==
    ASSUME GatewayInv, HeldInv, IsFiniteSet(Http), Cardinality(Http) <= MaxSessions,
           NEW e \in pending, Commit(e)
    PROVE  HeldInv'
<1>1. /\ e.client \in Client /\ e.seq = 1 /\ kv \in State /\ kv' = Apply(kv, e)
      /\ Duplicate(kv, e) => effects' = effects /\ kv' = kv
      /\ ~Duplicate(kv, e) =>
           effects' = effects \cup {[entry |-> e, result |-> Outcome(kv, e.cmd)]}
  BY CommitIs DEF GatewayInv, TypeInv
<1>2. CASE Duplicate(kv, e)
  BY <1>1, <1>2 DEF HeldInv
<1>3. CASE ~Duplicate(kv, e)
  <2> DEFINE new == [entry |-> e, result |-> Outcome(kv, e.cmd)]
  <2>1. effects' = effects \cup {new} /\ new.entry = e
    BY <1>1, <1>3
  <2> HIDE DEF new
  <2>2. ASSUME NEW f \in effects
        PROVE  f.entry.client # e.client
    <3>1. PICK x : Holds(kv.sessions, x) /\ x.client = f.entry.client
      BY DEF HeldInv
    <3>2. x.seq = 1
      BY <3>1 DEF GatewayInv, SessionInv
    <3>3. e.seq <= x.seq /\ e.seq > 0
      BY <1>1, <3>2
    <3> QED
      BY <1>1, <1>3, <3>1, <3>3, DuplicateHeld
  <2>3. /\ \E x : Holds(kv'.sessions, x) /\ x.client = e.client
        /\ \A x : Holds(kv.sessions, x) /\ x.client # e.client => Holds(kv'.sessions, x)
    BY <1>1, <1>3, CommitRemembers
  <2>4. ASSUME NEW f \in effects'
        PROVE  \E x : Holds(kv'.sessions, x) /\ x.client = f.entry.client
    <3>1. CASE f \in effects
      BY <2>2, <2>3, <3>1 DEF HeldInv
    <3>2. CASE f \notin effects
      BY <2>1, <2>3, <2>4, <3>2
    <3> QED
      BY <3>1, <3>2
  <2>5. ASSUME NEW f \in effects', NEW g \in effects', f.entry.client = g.entry.client
        PROVE  f = g
    BY <2>1, <2>2, <2>5 DEF HeldInv
  <2> QED
    BY <2>4, <2>5 DEF HeldInv
<1> QED
  BY <1>2, <1>3

\* Two effects of one request, or of requests with one Idempotency-Key that ask
\* for the same, are of one client.
LEMMA HeldOnce ==
    ASSUME GatewayInv, HeldInv
    PROVE  KeyedOnce
<1> SUFFICES ASSUME NEW f \in effects, NEW g \in effects,
                    \/ f.entry.http = g.entry.http
                    \/ /\ http[f.entry.http].ask = http[g.entry.http].ask
                       /\ http[f.entry.http].ask.key # NoKey
             PROVE  f = g
  BY DEF KeyedOnce
<1>1. /\ f.entry.client = IdentityOf(f.entry.http, http[f.entry.http].ask)
      /\ g.entry.client = IdentityOf(g.entry.http, http[g.entry.http].ask)
  BY DEF GatewayInv, KnownInv, Writes
<1>2. f.entry.client = g.entry.client
  BY <1>1 DEF IdentityOf
<1> QED
  BY <1>2 DEF HeldInv

\* As long as the session table has room for every request, a write takes effect
\* once: all attempts of one request together, and all requests that are the same
\* with the same Idempotency-Key.
THEOREM KeyedWritesOnce ==
    ASSUME IsFiniteSet(Http), Cardinality(Http) <= MaxSessions
    PROVE  Spec => []KeyedOnce
<1>1. Init => HeldInv
  BY DEF Init, HeldInv
<1>2. GatewayInv /\ HeldInv /\ [Next]_vars => HeldInv'
  <2> SUFFICES ASSUME GatewayInv, HeldInv, [Next]_vars
               PROVE  HeldInv'
    OBVIOUS
  <2>1. \A g \in Http : http[g].stage = "new" => http[g].strays = 0
    BY DEF GatewayInv, RingInv
  <2>2. \/ kv' = kv /\ effects' = effects
        \/ \E e \in pending : Commit(e)
    BY <2>1, StepForms DEF GatewayInv, Move, Unsettle, Settle, vars
  <2>3. ASSUME kv' = kv, effects' = effects
        PROVE  HeldInv'
    BY <2>3 DEF HeldInv
  <2> QED
    BY <2>2, <2>3, CommitHolds
<1>3. GatewayInv /\ HeldInv => KeyedOnce
  BY HeldOnce
<1> QED
  BY <1>1, <1>2, <1>3, GatewayInvariant, PTL DEF Spec

=============================================================================
