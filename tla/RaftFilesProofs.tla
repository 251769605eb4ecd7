-------------------------- MODULE RaftFilesProofs --------------------------
(***************************************************************************)
(* Proofs about module RaftFiles, for every number of nodes, clients,      *)
(* files, retries and faults: a replica that applied a write has the data  *)
(* and the version the log gives it, a close that finds its own handle is  *)
(* written at most once, and a close that is reported done is in the       *)
(* committed log.                                                          *)
(***************************************************************************)
EXTENDS RaftFiles, TLAPS, FiniteSetTheorems, SequenceTheorems

-----------------------------------------------------------------------------
(* Types                                                                   *)

Mode == {"r", "w"}
Stage == {"dedup", "run", "wait", "applied"}

\* A request and the fields it has
ReqOK(r) ==
    /\ {"client", "seq", "attempt", "op", "file"} \subseteq DOMAIN r
    /\ r.client \in Client /\ r.seq \in Nat \ {0} /\ r.attempt \in Nat
    /\ r.op \in {"create", "close"} /\ r.file \in File
    /\ r.op = "close" =>
         /\ {"handle", "mode", "id", "data"} \subseteq DOMAIN r
         /\ r.mode \in Mode /\ r.id \in Nat /\ r.data \in Nat

HandlerOK(h) ==
    /\ DOMAIN h = {"req", "node", "stage"}
    /\ ReqOK(h.req) /\ h.node \in Node /\ h.stage \in Stage

OpenFile == [handle : Nat, file : File, mode : Mode, id : Nat]

LogEntry ==
    [op : {"create", "write"}, file : File, data : Nat \cup {Empty}, own : BOOLEAN,
     client : Client, seq : Nat \ {0}, attempt : Nat]

EntryOK(e) == e \in LogEntry /\ (e.op = "write" => e.data \in Nat)

ReplicaType ==
    /\ applied \in [Node -> Nat]
    /\ disk \in [Node -> [File -> Nat \cup {Absent, Empty}]]
    /\ versions \in [Node -> [File -> Nat]]
    /\ opened \in [Node -> SUBSET OpenFile]
    /\ nextHandle \in [Node -> Nat]
    /\ dedup \in [Node -> [Client -> [seq : Nat, ok : BOOLEAN]]]

LogType ==
    /\ leader \in Node \cup {Nil}
    /\ clog \in Seq(LogEntry) /\ \A i \in 1..Len(clog) : EntryOK(clog[i])
    /\ \A e \in pending : EntryOK(e)
    /\ \A n \in Node : applied[n] <= Len(clog)

ClientType ==
    /\ \A h \in handlers : HandlerOK(h)
    /\ DOMAIN request = Client
    /\ \A c \in Client : request[c] = NoRequest \/ (ReqOK(request[c]) /\ request[c].client = c)
    /\ seq \in [Client -> Nat]
    /\ conn \in [Client -> [idx : Nat, node : Node]]
    /\ active \in [Client -> SUBSET OpenFile]
    /\ ops \in Nat

TypeInv == ReplicaType /\ LogType /\ ClientType

\* The next node is a node
LEMMA NextNodeOK ==
    ASSUME ClientType, NEW c \in Client
    PROVE  NextNode(c) \in [idx : Nat, node : Node] /\ NextNode(c).node \in Node
<1> DEFINE i == (conn[c].idx + 1) % NodeCount
<1>1. conn[c].idx \in Nat
  BY DEF ClientType
<1>2. i \in 0..(NodeCount - 1)
  BY <1>1, RaftFilesAssumption
<1>3. NextNode(c) = [idx |-> i, node |-> i]
  BY DEF NextNode
<1> HIDE DEF i
<1> QED
  BY <1>2, <1>3, RaftFilesAssumption DEF Node

\* A request and its retry differ in nothing but attempt
Like(r, q) ==
    /\ r.client = q.client /\ r.seq = q.seq /\ r.op = q.op /\ r.file = q.file
    /\ r.op = "close" => r.mode = q.mode /\ r.id = q.id /\ r.data = q.data

\* A retry is a request like the one it repeats
LEMMA RetryOK ==
    ASSUME NEW q, ReqOK(q), NEW r, r = [q EXCEPT !.attempt = @ + 1]
    PROVE  ReqOK(r) /\ Like(r, q)
<1>1. DOMAIN r = DOMAIN q /\ r.attempt = q.attempt + 1
  BY DEF ReqOK
<1>2. \A x \in DOMAIN q : x # "attempt" => r[x] = q[x]
  OBVIOUS
<1> QED
  BY <1>1, <1>2 DEF ReqOK, Like

\* A handler with another stage
LEMMA StageOK ==
    ASSUME NEW h, HandlerOK(h), NEW s \in Stage, NEW g, g = [h EXCEPT !.stage = s]
    PROVE  HandlerOK(g) /\ g.req = h.req /\ g.node = h.node /\ g.stage = s
BY DEF HandlerOK

\* A request is in the hands of a handler or of its client
IsReq(r) ==
    \/ \E h \in handlers : h.req = r
    \/ \E c \in Client : request[c] = r /\ r # NoRequest

\* Every request there is afterwards was there before, or is a retry of one
OnlyRetries == \A r : IsReq(r)' => \E q : IsReq(q) /\ Like(r, q)

\* Requests, wherever they are, have the fields of one
LEMMA ReqsOK == ASSUME ClientType, NEW r, IsReq(r) PROVE ReqOK(r)
BY DEF ClientType, IsReq, HandlerOK

\* Like is reflexive
LEMMA LikeItself == \A r : Like(r, r)
BY DEF Like

\* The end of a handler: its request may be done for the client
LEMMA AnswerType ==
    ASSUME ClientType, NEW h \in handlers, NEW ok, Answer(h, ok)
    PROVE  /\ ClientType' /\ OnlyRetries
           /\ handlers' \subseteq handlers
           /\ UNCHANGED <<seq, conn, active, ops>>
           /\ \A c \in Client : request'[c] \in {request[c], NoRequest}
           /\ \A r \in told' : \/ r \in told
                               \/ /\ r = h.req /\ ok /\ request[r.client] = r
                                  /\ r.op = "close" /\ r.mode = "w"
<1>1. /\ handlers' = handlers \ {h}
      /\ UNCHANGED <<seq, conn, active, ops>>
      /\ request' = request \/ request' = [request EXCEPT ![h.req.client] = NoRequest]
  BY DEF Answer
<1>2. DOMAIN request' = Client /\ \A c \in Client : request'[c] \in {request[c], NoRequest}
  BY <1>1 DEF ClientType
<1>3. ClientType'
  BY <1>1, <1>2 DEF ClientType
<1>4. OnlyRetries
  <2> SUFFICES ASSUME NEW r, IsReq(r)' PROVE IsReq(r)
    BY LikeItself DEF OnlyRetries
  <2>1. CASE \E g \in handlers' : g.req = r
    BY <1>1, <2>1 DEF IsReq
  <2>2. CASE \E c \in Client : request'[c] = r /\ r # NoRequest
    BY <1>2, <2>2 DEF IsReq
  <2> QED
    BY <2>1, <2>2 DEF IsReq
<1>5. \A r \in told' : \/ r \in told
                       \/ /\ r = h.req /\ ok /\ request[r.client] = r
                          /\ r.op = "close" /\ r.mode = "w"
  BY DEF Answer, Waits
<1> QED
  BY <1>1, <1>2, <1>3, <1>4, <1>5

\* A handler that goes on
LEMMA MoveType ==
    ASSUME ClientType, NEW h \in handlers, NEW s \in Stage, Move(h, s)
    PROVE  /\ ClientType' /\ OnlyRetries
           /\ UNCHANGED <<request, seq, conn, active, ops, told>>
           /\ \A g \in handlers' : g \in handlers \/ (g.req = h.req /\ g.node = h.node /\ g.stage = s)
<1> DEFINE m == [h EXCEPT !.stage = s]
<1>1. handlers' = (handlers \ {h}) \cup {m} /\ UNCHANGED <<request, seq, conn, active, ops, told>>
  BY DEF Move, user
<1>2. HandlerOK(m) /\ m.req = h.req /\ m.node = h.node /\ m.stage = s
  BY StageOK DEF ClientType
<1> HIDE DEF m
<1>3. ClientType'
  BY <1>1, <1>2 DEF ClientType
<1>4. OnlyRetries
  <2> SUFFICES ASSUME NEW r, IsReq(r)' PROVE IsReq(r)
    BY LikeItself DEF OnlyRetries
  <2> QED
    BY <1>1, <1>2 DEF IsReq
<1> QED
  BY <1>1, <1>2, <1>3, <1>4

\* A handler or a client gives up an attempt: at most one retry of the request
LEMMA RedirectType ==
    ASSUME ClientType, leader \in Node \cup {Nil}, NEW h \in handlers, Redirect(h)
    PROVE  /\ ClientType' /\ OnlyRetries
           /\ UNCHANGED <<seq, active, ops, told>>
           /\ \A g \in handlers' : g \in handlers \/ g.stage = "dedup"
           /\ \A c \in Client : request'[c] \in {request[c], NoRequest} \/ Like(request'[c], request[c])
<1> DEFINE c == h.req.client
           known == {NextNode(c)} \cup {[conn[c] EXCEPT !.node = n] : n \in Node \ {h.node}}
           rest == handlers \ {h}
           r == [h.req EXCEPT !.attempt = @ + 1]
           new(to) == [req |-> r, node |-> to.node, stage |-> "dedup"]
<1>1. HandlerOK(h) /\ c \in Client /\ ReqOK(h.req)
  BY DEF ClientType, HandlerOK, ReqOK
<1>2. \A to \in known : to \in [idx : Nat, node : Node]
  BY <1>1, NextNodeOK DEF ClientType
<1>3. ReqOK(r) /\ Like(r, h.req) /\ r.client = c
  <2>1. ReqOK(r) /\ Like(r, h.req)
    BY <1>1, RetryOK
  <2> QED
    BY <2>1 DEF Like
<1>4. \A to \in known : HandlerOK(new(to)) /\ new(to).req = r /\ new(to).stage = "dedup"
  BY <1>2, <1>3 DEF HandlerOK, Stage
<1>5. UNCHANGED <<seq, active, ops, told>>
  BY DEF Redirect
<1>6. PICK to \in known :
        \/ handlers' = rest /\ UNCHANGED <<request, conn>>
        \/ /\ conn' = [conn EXCEPT ![c] = to] /\ request[c] = h.req
           /\ \/ request' = [request EXCEPT ![c] = NoRequest] /\ handlers' = rest
              \/ request' = [request EXCEPT ![c] = r] /\ handlers' = rest \cup {new(to)}
  BY DEF Redirect, Waits
<1> HIDE DEF known, r, new, c
<1>7. conn' \in [Client -> [idx : Nat, node : Node]]
  BY <1>1, <1>2, <1>6 DEF ClientType
<1>8. /\ DOMAIN request' = Client
      /\ \A d \in Client : request'[d] \in {request[d], NoRequest}
                           \/ (d = c /\ request'[d] = r /\ request[d] = h.req)
  BY <1>1, <1>6 DEF ClientType
<1>9. \A g \in handlers' : g \in handlers \/ g = new(to)
  BY <1>6
<1>10. ClientType'
  <2>1. \A d \in Client : request'[d] = NoRequest \/ (ReqOK(request'[d]) /\ request'[d].client = d)
    BY <1>3, <1>8 DEF ClientType
  <2> QED
    BY <1>4, <1>5, <1>7, <1>8, <1>9, <2>1 DEF ClientType
<1>11. OnlyRetries
  <2> SUFFICES ASSUME NEW x, IsReq(x)' PROVE IsReq(x) \/ (x = r /\ IsReq(h.req))
    BY <1>3, LikeItself DEF OnlyRetries
  <2>1. IsReq(h.req)
    BY DEF IsReq
  <2>2. CASE \E g \in handlers' : g.req = x
    BY <1>4, <1>9, <2>1, <2>2 DEF IsReq
  <2>3. CASE \E d \in Client : request'[d] = x /\ x # NoRequest
    BY <1>8, <2>1, <2>3 DEF IsReq
  <2> QED
    BY <2>2, <2>3 DEF IsReq
<1> QED
  BY <1>3, <1>4, <1>5, <1>8, <1>9, <1>10, <1>11

\* A client that times out sends at most one retry
LEMMA TimeOutType ==
    ASSUME ClientType, NEW c \in Client, TimeOut(c)
    PROVE  /\ ClientType' /\ OnlyRetries
           /\ UNCHANGED <<replica, raft, seq, active, ops, told, crossed>>
           /\ \A g \in handlers' : g \in handlers \/ g.stage = "dedup"
           /\ \A d \in Client : request'[d] \in {request[d], NoRequest} \/ Like(request'[d], request[d])
<1> DEFINE to == NextNode(c)
           r == [request[c] EXCEPT !.attempt = @ + 1]
           new == [req |-> r, node |-> to.node, stage |-> "dedup"]
<1>1. request[c] # NoRequest /\ ReqOK(request[c]) /\ request[c].client = c
  BY DEF ClientType, TimeOut
<1>2. to \in [idx : Nat, node : Node]
  BY NextNodeOK
<1>3. ReqOK(r) /\ Like(r, request[c]) /\ r.client = c
  <2>1. ReqOK(r) /\ Like(r, request[c])
    BY <1>1, RetryOK
  <2> QED
    BY <1>1, <2>1 DEF Like
<1>4. HandlerOK(new) /\ new.req = r /\ new.stage = "dedup"
  BY <1>2, <1>3 DEF HandlerOK, Stage
<1>5. UNCHANGED <<replica, raft, seq, active, ops, told, crossed>>
  BY DEF TimeOut
<1>6. /\ conn' = [conn EXCEPT ![c] = to]
      /\ \/ request' = [request EXCEPT ![c] = NoRequest] /\ handlers' = handlers
         \/ request' = [request EXCEPT ![c] = r] /\ handlers' = handlers \cup {new}
  BY DEF TimeOut, Again, Send
<1> HIDE DEF to, r, new
<1>7. conn' \in [Client -> [idx : Nat, node : Node]]
  BY <1>2, <1>6 DEF ClientType
<1>8. /\ DOMAIN request' = Client
      /\ \A d \in Client : request'[d] \in {request[d], NoRequest}
                           \/ (d = c /\ request'[d] = r)
  BY <1>6 DEF ClientType
<1>9. \A g \in handlers' : g \in handlers \/ g = new
  BY <1>6
<1>10. ClientType'
  <2>1. \A d \in Client : request'[d] = NoRequest \/ (ReqOK(request'[d]) /\ request'[d].client = d)
    BY <1>3, <1>8 DEF ClientType
  <2> QED
    BY <1>4, <1>5, <1>7, <1>8, <1>9, <2>1 DEF ClientType
<1>11. OnlyRetries
  <2> SUFFICES ASSUME NEW x, IsReq(x)' PROVE IsReq(x) \/ (x = r /\ IsReq(request[c]))
    BY <1>3, LikeItself DEF OnlyRetries
  <2>1. IsReq(request[c])
    BY <1>1 DEF IsReq
  <2>2. CASE \E g \in handlers' : g.req = x
    BY <1>4, <1>9, <2>1, <2>2 DEF IsReq
  <2>3. CASE \E d \in Client : request'[d] = x /\ x # NoRequest
    BY <1>8, <2>1, <2>3 DEF IsReq
  <2> QED
    BY <2>2, <2>3 DEF IsReq
<1> QED
  BY <1>3, <1>4, <1>5, <1>8, <1>9, <1>10, <1>11

\* A client's own new request, under the next seq_num
LEMMA CallType ==
    ASSUME ClientType, NEW c \in Client, NEW new, ReqOK(new), new.client = c,
           new.seq = seq[c] + 1, Call(c, new), active' \in [Client -> SUBSET OpenFile]
    PROVE  /\ ClientType'
           /\ UNCHANGED <<replica, raft, told, crossed>>
           /\ ops' = ops + 1
           /\ seq'[c] = seq[c] + 1 /\ \A d \in Client \ {c} : seq'[d] = seq[d]
           /\ \A g \in handlers' : g \in handlers \/ g.stage = "dedup"
           /\ request'[c] = new /\ \A d \in Client \ {c} : request'[d] = request[d]
           /\ \A r : IsReq(r)' => IsReq(r) \/ r = new
<1> DEFINE g == [req |-> new, node |-> conn[c].node, stage |-> "dedup"]
<1>1. /\ UNCHANGED <<replica, raft, conn, told, crossed>> /\ ops' = ops + 1
      /\ seq' = [seq EXCEPT ![c] = @ + 1]
      /\ request' = [request EXCEPT ![c] = new]
      /\ handlers' = handlers \cup {g}
  BY DEF Call, Begin, Send
<1>2. HandlerOK(g) /\ g.req = new /\ g.stage = "dedup"
  BY DEF HandlerOK, Stage, ClientType
<1> HIDE DEF g
<1>3. /\ seq' \in [Client -> Nat] /\ seq'[c] = seq[c] + 1
      /\ \A d \in Client \ {c} : seq'[d] = seq[d]
  BY <1>1 DEF ClientType
<1>4. /\ DOMAIN request' = Client /\ request'[c] = new
      /\ \A d \in Client \ {c} : request'[d] = request[d]
  BY <1>1 DEF ClientType
<1>5. ClientType'
  <2>1. \A d \in Client : request'[d] = NoRequest \/ (ReqOK(request'[d]) /\ request'[d].client = d)
    BY <1>4 DEF ClientType
  <2>2. \A h \in handlers' : HandlerOK(h)
    BY <1>1, <1>2 DEF ClientType
  <2> QED
    BY <1>1, <1>3, <1>4, <2>1, <2>2 DEF ClientType
<1>6. \A r : IsReq(r)' => IsReq(r) \/ r = new
  <2> SUFFICES ASSUME NEW r, IsReq(r)' PROVE IsReq(r) \/ r = new
    OBVIOUS
  <2>1. CASE \E h \in handlers' : h.req = r
    BY <1>1, <1>2, <2>1 DEF IsReq
  <2>2. CASE \E d \in Client : request'[d] = r /\ r # NoRequest
    BY <1>4, <2>2 DEF IsReq
  <2> QED
    BY <2>1, <2>2 DEF IsReq
<1> QED
  BY <1>1, <1>2, <1>3, <1>4, <1>5, <1>6

\* What create and close of the stub send
NewReq(c, new) == ReqOK(new) /\ new.client = c /\ new.seq = seq[c] + 1

\* What create of the stub sends
LEMMA CallCreateType ==
    ASSUME TypeInv, NEW c \in Client, NEW f \in File, CallCreate(c, f)
    PROVE  \E new : /\ NewReq(c, new) /\ new.op = "create" /\ Call(c, new)
                    /\ UNCHANGED active
<1> DEFINE new == [client |-> c, seq |-> seq[c] + 1, attempt |-> 0, op |-> "create", file |-> f]
<1>1. seq[c] \in Nat
  BY DEF TypeInv, ClientType
<1>2. NewReq(c, new) /\ new.op = "create"
  BY <1>1 DEF NewReq, ReqOK
<1>3. Call(c, new) /\ UNCHANGED active
  BY DEF CallCreate
<1> QED
  BY <1>2, <1>3

\* What close of the stub sends: the open of the handle it takes along
LEMMA CallCloseType ==
    ASSUME TypeInv, NEW c \in Client, NEW a \in active[c], CallClose(c, a)
    PROVE  \E new : /\ NewReq(c, new) /\ Call(c, new)
                    /\ new.op = "close" /\ new.file = a.file /\ new.mode = a.mode
                    /\ new.id = a.id
                    /\ active' = [active EXCEPT ![c] = @ \ {a}]
<1> DEFINE new == [client |-> c, seq |-> seq[c] + 1, attempt |-> 0, op |-> "close",
                   file |-> a.file, handle |-> a.handle, mode |-> a.mode, id |-> a.id,
                   data |-> ops + 1]
<1>1. seq[c] \in Nat /\ ops + 1 \in Nat /\ a \in OpenFile
  BY DEF TypeInv, ClientType
<1>2. /\ NewReq(c, new) /\ new.op = "close" /\ new.file = a.file /\ new.mode = a.mode
      /\ new.id = a.id
  BY <1>1 DEF NewReq, ReqOK, OpenFile
<1>3. Call(c, new) /\ active' = [active EXCEPT ![c] = @ \ {a}]
  BY DEF CallClose
<1> QED
  BY <1>2, <1>3

\* Open adds one handle, to the table of one node and to the client's own
LEMMA OpenType ==
    ASSUME TypeInv, NEW c \in Client, NEW f \in File, NEW mode \in Mode, Open(c, f, mode)
    PROVE  /\ TypeInv'
           /\ UNCHANGED <<raft, applied, disk, dedup, handlers, request, seq, told, crossed>>
           /\ ops' = ops + 1
           /\ conn[c].node \in Node
           /\ \E new \in OpenFile :
                /\ new.id = ops + 1
                /\ opened' = [opened EXCEPT ![conn[c].node] = @ \cup {new}]
                /\ \A d \in Client : \A a \in active'[d] : a \in active[d] \/ a = new
           /\ versions' = IF versions[conn[c].node][f] = 0 /\ disk[conn[c].node][f] # Absent
                          THEN [versions EXCEPT ![conn[c].node][f] = 1] ELSE versions
<1> DEFINE n == conn[c].node
           h == nextHandle[n]
           new == [handle |-> h, file |-> f, mode |-> mode, id |-> ops + 1]
<1>1. n \in Node /\ ops \in Nat
  BY DEF TypeInv, ClientType
<1>2. h \in Nat
  BY <1>1 DEF TypeInv, ReplicaType
<1>3. new \in OpenFile /\ new.id = ops + 1
  BY <1>1, <1>2 DEF OpenFile
<1>4. /\ UNCHANGED <<raft, applied, disk, dedup, handlers, request, seq, conn, told, crossed>>
      /\ ops' = ops + 1
      /\ nextHandle' = [nextHandle EXCEPT ![n] = h + 1]
      /\ opened' = [opened EXCEPT ![n] = @ \cup {new}]
      /\ versions' = IF versions[n][f] = 0 /\ disk[n][f] # Absent
                     THEN [versions EXCEPT ![n][f] = 1] ELSE versions
      /\ active' = [active EXCEPT ![c] = {a \in @ : a.handle # h} \cup {new}]
  BY DEF Open, Begin
<1> HIDE DEF n, h, new
<1>5. opened' \in [Node -> SUBSET OpenFile] /\ nextHandle' \in [Node -> Nat]
  BY <1>1, <1>2, <1>3, <1>4 DEF TypeInv, ReplicaType
<1>6. versions' \in [Node -> [File -> Nat]]
  BY <1>1, <1>4 DEF TypeInv, ReplicaType
<1>7. /\ active' \in [Client -> SUBSET OpenFile]
      /\ \A d \in Client : \A a \in active'[d] : a \in active[d] \/ a = new
  BY <1>3, <1>4 DEF TypeInv, ClientType
<1>8. ReplicaType'
  BY <1>4, <1>5, <1>6 DEF TypeInv, ReplicaType
<1>9. LogType'
  BY <1>4 DEF TypeInv, LogType, raft
<1>10. ClientType'
  BY <1>1, <1>4, <1>7 DEF TypeInv, ClientType
<1> QED
  BY <1>1, <1>3, <1>4, <1>7, <1>8, <1>9, <1>10 DEF TypeInv, n

\* An entry of a request
LEMMA EntryType ==
    ASSUME NEW h, HandlerOK(h), NEW op \in {"create", "write"}, NEW file \in File,
           NEW data \in Nat \cup {Empty}, NEW own \in BOOLEAN, op = "write" => data \in Nat,
           NEW e, e = Entry(h, op, file, data, own)
    PROVE  /\ EntryOK(e) /\ e.op = op /\ e.file = file /\ e.data = data /\ e.own = own
           /\ e.client = h.req.client /\ e.seq = h.req.seq
<1>1. h.req.client \in Client /\ h.req.seq \in Nat \ {0} /\ h.req.attempt \in Nat
  BY DEF HandlerOK, ReqOK
<1> QED
  BY <1>1 DEF Entry, EntryOK, LogEntry

\* _cache_response changes one entry of one node
LEMMA DedupType ==
    ASSUME ReplicaType, NEW h, HandlerOK(h), CacheResponse(h)
    PROVE  /\ dedup' \in [Node -> [Client -> [seq : Nat, ok : BOOLEAN]]]
           /\ \A n \in Node : \A c \in Client :
                \/ dedup'[n][c] = dedup[n][c]
                \/ /\ n = h.node /\ c = h.req.client /\ dedup'[n][c].seq = h.req.seq
<1> DEFINE new == [seq |-> h.req.seq, ok |-> TRUE]
<1>1. /\ h.node \in Node /\ h.req.client \in Client
      /\ new \in [seq : Nat, ok : BOOLEAN] /\ new.seq = h.req.seq
  BY DEF HandlerOK, ReqOK
<1>2. dedup' = [dedup EXCEPT ![h.node][h.req.client] = new]
  BY DEF CacheResponse
<1> HIDE DEF new
<1> QED
  BY <1>1, <1>2 DEF ReplicaType

\* What a handler appends: the entry, and the handler waits
LEMMA AppendType ==
    ASSUME ClientType, LogType, NEW h \in handlers, NEW e, EntryOK(e), AppendEntry(h, e),
           applied' = applied
    PROVE  /\ ClientType' /\ LogType' /\ OnlyRetries
           /\ pending' = pending \cup {e} /\ UNCHANGED <<leader, clog>>
           /\ UNCHANGED <<request, seq, conn, active, ops, told>>
           /\ \A g \in handlers' : g \in handlers \/ g.stage = "wait"
<1>1. Move(h, "wait") /\ pending' = pending \cup {e} /\ UNCHANGED <<leader, clog>>
  BY DEF AppendEntry, Appended
<1>2. /\ ClientType' /\ OnlyRetries
      /\ UNCHANGED <<request, seq, conn, active, ops, told>>
      /\ \A g \in handlers' : g \in handlers \/ (g.req = h.req /\ g.node = h.node /\ g.stage = "wait")
  <2>1. "wait" \in Stage
    BY DEF Stage
  <2> QED
    BY <1>1, <2>1, MoveType
<1>3. LogType'
  BY <1>1 DEF LogType
<1> QED
  BY <1>1, <1>2, <1>3

\* The part of the log's type that a step of a handler leaves alone
LEMMA LogSame == LogType /\ UNCHANGED <<raft, applied>> => LogType'
BY DEF LogType, raft

\* What each step of the servicer changes, and that it keeps the types: the
\* check for repeated requests
LEMMA CheckType ==
    ASSUME TypeInv, NEW h \in handlers, CheckIdempotent(h)
    PROVE  /\ TypeInv' /\ OnlyRetries
           /\ UNCHANGED <<replica, raft, crossed, seq, active, ops>>
           /\ \A g \in handlers' : g \in handlers \/ g.stage = "run"
           /\ \A c \in Client : request'[c] \in {request[c], NoRequest}
<1>1. UNCHANGED <<replica, raft, crossed>> /\ (Answer(h, dedup[h.node][h.req.client].ok) \/ Move(h, "run"))
  BY DEF CheckIdempotent
<1>2. ReplicaType' /\ LogType'
  BY <1>1, LogSame DEF TypeInv, ReplicaType, replica
<1>3. "run" \in Stage
  BY DEF Stage
<1>4. CASE Answer(h, dedup[h.node][h.req.client].ok)
  BY <1>1, <1>2, <1>4, AnswerType DEF TypeInv
<1>5. CASE Move(h, "run")
  BY <1>1, <1>2, <1>3, <1>5, MoveType DEF TypeInv
<1> QED
  BY <1>1, <1>4, <1>5

\* Create: an answer, a redirect, or an entry of this request
LEMMA CreateType ==
    ASSUME TypeInv, NEW h \in handlers, Create(h)
    PROVE  /\ TypeInv' /\ OnlyRetries
           /\ UNCHANGED <<replica, crossed, seq, active, ops, told, leader, clog>>
           /\ \A g \in handlers' : g \in handlers \/ g.stage \in {"dedup", "wait"}
           /\ \A c \in Client : request'[c] \in {request[c], NoRequest} \/ Like(request'[c], request[c])
           /\ h.req.op = "create"
           /\ \/ pending' = pending
              \/ \E e : /\ pending' = pending \cup {e} /\ EntryOK(e) /\ e.op = "create"
                        /\ e.client = h.req.client /\ e.seq = h.req.seq
<1>1. UNCHANGED <<replica, crossed>> /\ h.req.op = "create" /\ HandlerOK(h)
  BY DEF Create, TypeInv, ClientType
<1>2. ReplicaType' /\ applied' = applied
  BY <1>1 DEF TypeInv, ReplicaType, replica
<1>3. CASE Redirect(h) /\ UNCHANGED raft
  <2>1. LogType' /\ UNCHANGED <<leader, clog, pending>>
    BY <1>2, <1>3, LogSame DEF TypeInv, raft
  <2>2. leader \in Node \cup {Nil}
    BY DEF TypeInv, LogType
  <2> QED
    BY <1>1, <1>2, <1>3, <2>1, <2>2, RedirectType DEF TypeInv
<1>4. CASE Answer(h, FALSE) /\ UNCHANGED raft
  <2>1. LogType' /\ UNCHANGED <<leader, clog, pending>>
    BY <1>2, <1>4, LogSame DEF TypeInv, raft
  <2>2. ClientType' /\ OnlyRetries /\ handlers' \subseteq handlers /\ UNCHANGED <<seq, active, ops>>
        /\ \A c \in Client : request'[c] \in {request[c], NoRequest}
    BY <1>4, AnswerType DEF TypeInv
  <2>3. told' = told
    BY <1>1, <1>4 DEF Answer
  <2> QED
    BY <1>1, <1>2, <2>1, <2>2, <2>3 DEF TypeInv
<1>5. CASE AppendEntry(h, Entry(h, "create", h.req.file, Empty, TRUE))
  <2> DEFINE e == Entry(h, "create", h.req.file, Empty, TRUE)
  <2>1. EntryOK(e) /\ e.op = "create" /\ e.client = h.req.client /\ e.seq = h.req.seq
    <3>1. h.req.file \in File
      BY <1>1 DEF HandlerOK, ReqOK
    <3>2. h.req.client \in Client /\ h.req.seq \in Nat \ {0} /\ h.req.attempt \in Nat
      BY <1>1 DEF HandlerOK, ReqOK
    <3> QED
      BY <3>1, <3>2 DEF Entry, EntryOK, LogEntry
  <2>2. AppendEntry(h, e)
    BY <1>5
  <2> HIDE DEF e
  <2>3. /\ ClientType' /\ LogType' /\ OnlyRetries
        /\ pending' = pending \cup {e} /\ UNCHANGED <<leader, clog>>
        /\ UNCHANGED <<request, seq, conn, active, ops, told>>
        /\ \A g \in handlers' : g \in handlers \/ g.stage = "wait"
    BY <1>2, <2>1, <2>2, AppendType DEF TypeInv
  <2> QED
    BY <1>1, <1>2, <2>1, <2>3 DEF TypeInv
<1> QED
  BY <1>3, <1>4, <1>5 DEF Create

\* What Close finds: the handles of this number at this node
Found(h) == {o \in opened[h.node] : o.handle = h.req.handle}

\* Close: the handles of this number are gone, and an entry is of one of them
LEMMA CloseType ==
    ASSUME TypeInv, NEW h \in handlers, Close(h)
    PROVE  /\ TypeInv' /\ OnlyRetries
           /\ UNCHANGED <<seq, active, ops, leader, clog, applied, disk, versions>>
           /\ \A g \in handlers' : g \in handlers \/ g.stage \in {"dedup", "wait"}
           /\ \A c \in Client : request'[c] \in {request[c], NoRequest} \/ Like(request'[c], request[c])
           /\ h.req.op = "close" /\ h.node \in Node
           /\ opened' = [opened EXCEPT ![h.node] = @ \ Found(h)]
           /\ crossed \subseteq crossed'
           /\ \A o \in Found(h) : o.id # h.req.id => [client |-> h.req.client, seq |-> h.req.seq] \in crossed'
           /\ \/ dedup' = dedup /\ told' = told /\ pending' = pending
              \/ /\ \E o \in Found(h) : o.mode = "r"
                 /\ CacheResponse(h) /\ Answer(h, TRUE) /\ pending' = pending
              \/ /\ dedup' = dedup /\ told' = told
                 /\ \E o \in Found(h) : \E e :
                      /\ pending' = pending \cup {e} /\ EntryOK(e) /\ e.op = "write"
                      /\ e.client = h.req.client /\ e.seq = h.req.seq
                      /\ e.file = o.file /\ e.data = h.req.data /\ e.own = (o.id = h.req.id)
<1>1. /\ h.req.op = "close" /\ HandlerOK(h)
      /\ UNCHANGED <<applied, disk, versions, nextHandle>>
      /\ opened' = [opened EXCEPT ![h.node] = opened[h.node] \ Found(h)]
  BY DEF Close, TypeInv, ClientType, Popped, Found
<1>2. h.node \in Node /\ ReqOK(h.req) /\ h.req.data \in Nat
  BY <1>1 DEF HandlerOK, ReqOK
<1>3. /\ opened' = [opened EXCEPT ![h.node] = @ \ Found(h)]
      /\ opened' \in [Node -> SUBSET OpenFile]
  BY <1>1, <1>2 DEF TypeInv, ReplicaType
<1>4. /\ crossed \subseteq crossed'
      /\ \A o \in Found(h) : o.id # h.req.id => [client |-> h.req.client, seq |-> h.req.seq] \in crossed'
  BY DEF Close, Found
<1>5. /\ ReplicaType /\ LogType /\ ClientType /\ leader \in Node \cup {Nil}
  BY DEF TypeInv, LogType
<1>6. CASE Answer(h, FALSE) /\ UNCHANGED <<raft, dedup>>
  <2>1. ReplicaType' /\ LogType' /\ UNCHANGED <<leader, clog, pending>>
    BY <1>1, <1>3, <1>5, <1>6, LogSame DEF ReplicaType, raft
  <2>2. ClientType' /\ OnlyRetries /\ handlers' \subseteq handlers /\ UNCHANGED <<seq, active, ops>>
        /\ \A c \in Client : request'[c] \in {request[c], NoRequest}
    BY <1>5, <1>6, AnswerType
  <2>3. told' = told
    BY <1>6 DEF Answer
  <2> QED
    BY <1>1, <1>2, <1>3, <1>4, <1>6, <2>1, <2>2, <2>3 DEF TypeInv
<1>7. CASE /\ \E o \in Found(h) : o.mode = "r"
           /\ CacheResponse(h) /\ Answer(h, TRUE) /\ UNCHANGED raft
  <2>1. dedup' \in [Node -> [Client -> [seq : Nat, ok : BOOLEAN]]]
    BY <1>1, <1>5, <1>7, DedupType
  <2>2. ReplicaType' /\ LogType' /\ UNCHANGED <<leader, clog, pending>>
    BY <1>1, <1>3, <1>5, <1>7, <2>1, LogSame DEF ReplicaType, raft
  <2>3. ClientType' /\ OnlyRetries /\ handlers' \subseteq handlers /\ UNCHANGED <<seq, active, ops>>
        /\ \A c \in Client : request'[c] \in {request[c], NoRequest}
    BY <1>5, <1>7, AnswerType
  <2> QED
    BY <1>1, <1>2, <1>3, <1>4, <1>7, <2>2, <2>3 DEF TypeInv
<1>8. CASE Redirect(h) /\ UNCHANGED <<raft, dedup>>
  <2>1. ReplicaType' /\ LogType' /\ UNCHANGED <<leader, clog, pending>>
    BY <1>1, <1>3, <1>5, <1>8, LogSame DEF ReplicaType, raft
  <2>2. /\ ClientType' /\ OnlyRetries
        /\ UNCHANGED <<seq, active, ops, told>>
        /\ \A g \in handlers' : g \in handlers \/ g.stage = "dedup"
        /\ \A c \in Client : request'[c] \in {request[c], NoRequest} \/ Like(request'[c], request[c])
    BY <1>5, <1>8, RedirectType
  <2> QED
    BY <1>1, <1>2, <1>3, <1>4, <1>8, <2>1, <2>2 DEF TypeInv
<1>9. ASSUME NEW o \in Found(h), dedup' = dedup,
             AppendEntry(h, Entry(h, "write", o.file, h.req.data, o.id = h.req.id))
      PROVE  /\ TypeInv' /\ OnlyRetries
             /\ UNCHANGED <<seq, active, ops, leader, clog, told, request>>
             /\ \A g \in handlers' : g \in handlers \/ g.stage = "wait"
             /\ \E e : /\ pending' = pending \cup {e} /\ EntryOK(e) /\ e.op = "write"
                       /\ e.client = h.req.client /\ e.seq = h.req.seq
                       /\ e.file = o.file /\ e.data = h.req.data /\ e.own = (o.id = h.req.id)
  <2> DEFINE own == o.id = h.req.id
             e == Entry(h, "write", o.file, h.req.data, own)
  <2>1. o.file \in File /\ own \in BOOLEAN
    BY <1>2, <1>5 DEF Found, ReplicaType, OpenFile
  <2>2. AppendEntry(h, e)
    BY <1>9
  <2> HIDE DEF own
  <2>3. /\ EntryOK(e) /\ e.op = "write" /\ e.file = o.file /\ e.data = h.req.data /\ e.own = own
        /\ e.client = h.req.client /\ e.seq = h.req.seq
    BY <1>1, <1>2, <2>1, EntryType
  <2> HIDE DEF e
  <2>4. /\ ClientType' /\ LogType' /\ OnlyRetries
        /\ pending' = pending \cup {e} /\ UNCHANGED <<leader, clog>>
        /\ UNCHANGED <<request, seq, conn, active, ops, told>>
        /\ \A g \in handlers' : g \in handlers \/ g.stage = "wait"
    BY <1>1, <1>5, <2>2, <2>3, AppendType
  <2>5. ReplicaType'
    BY <1>1, <1>3, <1>5, <1>9 DEF ReplicaType
  <2> QED
    BY <2>3, <2>4, <2>5 DEF TypeInv, own
<1>10. CASE \E o \in Found(h) : /\ dedup' = dedup
                                /\ AppendEntry(h, Entry(h, "write", o.file, h.req.data, o.id = h.req.id))
  BY <1>1, <1>2, <1>3, <1>4, <1>9, <1>10
<1>11. \/ Answer(h, FALSE) /\ UNCHANGED <<raft, dedup>>
       \/ /\ \E o \in Found(h) : o.mode = "r"
          /\ CacheResponse(h) /\ Answer(h, TRUE) /\ UNCHANGED raft
       \/ Redirect(h) /\ UNCHANGED <<raft, dedup>>
       \/ \E o \in Found(h) : /\ dedup' = dedup
                              /\ AppendEntry(h, Entry(h, "write", o.file, h.req.data, o.id = h.req.id))
  BY Zenon DEF Close, Found
<1> QED
  BY <1>6, <1>7, <1>8, <1>10, <1>11

\* The end of a handler whose entry was applied
LEMMA FinishType ==
    ASSUME TypeInv, NEW h \in handlers, Finish(h)
    PROVE  /\ TypeInv' /\ OnlyRetries
           /\ UNCHANGED <<raft, applied, disk, versions, opened, crossed, seq, active, ops>>
           /\ handlers' \subseteq handlers
           /\ \A c \in Client : request'[c] \in {request[c], NoRequest}
           /\ h.stage = "applied" /\ CacheResponse(h) /\ Answer(h, TRUE)
<1>1. /\ h.stage = "applied" /\ CacheResponse(h) /\ Answer(h, TRUE)
      /\ UNCHANGED <<raft, applied, disk, versions, opened, nextHandle, crossed>>
  BY DEF Finish
<1>2. HandlerOK(h) /\ ReplicaType /\ LogType /\ ClientType
  BY DEF TypeInv, ClientType
<1>3. dedup' \in [Node -> [Client -> [seq : Nat, ok : BOOLEAN]]]
  BY <1>1, <1>2, DedupType
<1>4. ReplicaType' /\ LogType'
  BY <1>1, <1>2, <1>3, LogSame DEF ReplicaType
<1>5. /\ ClientType' /\ OnlyRetries /\ handlers' \subseteq handlers
      /\ UNCHANGED <<seq, conn, active, ops>>
      /\ \A c \in Client : request'[c] \in {request[c], NoRequest}
  BY <1>1, <1>2, AnswerType
<1> QED
  BY <1>1, <1>4, <1>5 DEF TypeInv

\* The end of a handler whose entry was not
LEMMA FailType ==
    ASSUME TypeInv, NEW h \in handlers, FailToCommit(h)
    PROVE  /\ TypeInv' /\ OnlyRetries
           /\ UNCHANGED <<replica, raft, crossed, seq, active, ops, told>>
           /\ \A g \in handlers' : g \in handlers \/ g.stage = "dedup"
           /\ \A c \in Client : request'[c] \in {request[c], NoRequest} \/ Like(request'[c], request[c])
<1>1. UNCHANGED <<replica, raft, crossed>> /\ (Answer(h, FALSE) \/ Redirect(h))
  BY DEF FailToCommit
<1>2. ReplicaType' /\ LogType'
  BY <1>1, LogSame DEF TypeInv, ReplicaType, replica
<1>3. CASE Answer(h, FALSE)
  <2>1. told' = told
    BY <1>3 DEF Answer
  <2> QED
    BY <1>1, <1>2, <1>3, <2>1, AnswerType DEF TypeInv
<1>4. CASE Redirect(h)
  <2>1. leader \in Node \cup {Nil}
    BY DEF TypeInv, LogType
  <2> QED
    BY <1>1, <1>2, <1>4, <2>1, RedirectType DEF TypeInv
<1> QED
  BY <1>1, <1>3, <1>4

\* The handlers that wait for an entry at the node that applies it
Mine(n, e) ==
    {h \in handlers : /\ h.node = n /\ h.stage = "wait"
                      /\ h.req.client = e.client /\ h.req.seq = e.seq
                      /\ h.req.attempt = e.attempt}

\* The applier: one file of one node, and the handlers of this entry
LEMMA ApplyType ==
    ASSUME TypeInv, NEW n \in Node, ApplyNext(n)
    PROVE  /\ TypeInv' /\ OnlyRetries
           /\ UNCHANGED <<opened, dedup, raft, user, crossed>>
           /\ applied[n] + 1 \in 1..Len(clog)
           /\ EntryOK(clog[applied[n] + 1])
           /\ applied' = [applied EXCEPT ![n] = @ + 1]
           /\ LET e == clog[applied[n] + 1] IN
              /\ disk' = [disk EXCEPT ![n][e.file] = IF e.op = "create" THEN Created(@) ELSE e.data]
              /\ versions' = [versions EXCEPT ![n][e.file] =
                                IF e.op = "create" THEN CreatedVersion(@) ELSE WrittenVersion(@)]
              /\ \A g \in handlers' :
                   g \in handlers \/ \E h \in Mine(n, e) : g.req = h.req /\ g.node = h.node
<1> DEFINE e == clog[applied[n] + 1]
<1>1. /\ applied[n] < Len(clog)
      /\ UNCHANGED <<opened, nextHandle, dedup, raft, user, crossed>>
      /\ applied' = [applied EXCEPT ![n] = @ + 1]
      /\ disk' = [disk EXCEPT ![n][e.file] = IF e.op = "create" THEN Created(@) ELSE e.data]
      /\ versions' = [versions EXCEPT ![n][e.file] =
                        IF e.op = "create" THEN CreatedVersion(@) ELSE WrittenVersion(@)]
      /\ handlers' = (handlers \ Mine(n, e)) \cup {[h EXCEPT !.stage = "applied"] : h \in Mine(n, e)}
  BY DEF ApplyNext, Mine
<1>2. applied[n] \in Nat /\ Len(clog) \in Nat
  BY DEF TypeInv, ReplicaType, LogType
<1>3. applied[n] + 1 \in 1..Len(clog)
  BY <1>1, <1>2
<1>4. EntryOK(e)
  BY <1>3 DEF TypeInv, LogType
<1>5. e.file \in File /\ (e.op # "create" => e.data \in Nat)
  BY <1>4 DEF EntryOK, LogEntry
<1>6. applied' \in [Node -> Nat] /\ \A m \in Node : applied'[m] <= Len(clog)
  BY <1>1, <1>2, <1>3 DEF TypeInv, ReplicaType, LogType
<1> HIDE DEF e
<1>7. disk' \in [Node -> [File -> Nat \cup {Absent, Empty}]]
  <2>1. disk[n][e.file] \in Nat \cup {Absent, Empty}
    BY <1>5 DEF TypeInv, ReplicaType
  <2>2. PICK v \in Nat \cup {Absent, Empty} : disk' = [disk EXCEPT ![n][e.file] = v]
    BY <1>1, <1>5, <2>1 DEF Created
  <2> QED
    BY <1>5, <2>2 DEF TypeInv, ReplicaType
<1>8. versions' \in [Node -> [File -> Nat]]
  <2>1. versions[n][e.file] \in Nat
    BY <1>5 DEF TypeInv, ReplicaType
  <2> DEFINE old == versions[n][e.file]
             v == IF e.op = "create" THEN CreatedVersion(old) ELSE WrittenVersion(old)
  <2>2. v \in Nat
    BY <2>1 DEF CreatedVersion, WrittenVersion
  <2>3. versions' = [versions EXCEPT ![n][e.file] = v]
    BY <1>1
  <2> HIDE DEF v
  <2> QED
    BY <1>5, <2>2, <2>3 DEF TypeInv, ReplicaType
<1>9. ReplicaType' /\ LogType'
  BY <1>1, <1>6, <1>7, <1>8 DEF TypeInv, ReplicaType, LogType, raft
<1>10. \A g \in handlers' :
         g \in handlers \/ \E h \in Mine(n, e) : HandlerOK(g) /\ g.req = h.req /\ g.node = h.node
  <2> SUFFICES ASSUME NEW g \in handlers', g \notin handlers
               PROVE  \E h \in Mine(n, e) : HandlerOK(g) /\ g.req = h.req /\ g.node = h.node
    OBVIOUS
  <2>1. PICK h \in Mine(n, e) : g = [h EXCEPT !.stage = "applied"]
    BY <1>1
  <2>2. HandlerOK(h) /\ "applied" \in Stage
    BY DEF Mine, TypeInv, ClientType, Stage
  <2> QED
    BY <2>1, <2>2, StageOK
<1>11. ClientType'
  BY <1>1, <1>10 DEF TypeInv, ClientType, user
<1>12. OnlyRetries
  <2> SUFFICES ASSUME NEW r, IsReq(r)' PROVE IsReq(r)
    BY LikeItself DEF OnlyRetries
  <2>1. CASE \E g \in handlers' : g.req = r
    BY <1>10, <2>1 DEF IsReq, Mine
  <2>2. CASE \E c \in Client : request'[c] = r /\ r # NoRequest
    BY <1>1, <2>2 DEF IsReq, user
  <2> QED
    BY <2>1, <2>2 DEF IsReq
<1> QED
  BY <1>1, <1>3, <1>4, <1>9, <1>10, <1>11, <1>12 DEF TypeInv, e

\* A commit moves an entry to the end of the log
LEMMA CommitType ==
    ASSUME TypeInv, NEW e \in pending, Commit(e)
    PROVE  /\ TypeInv' /\ OnlyRetries
           /\ UNCHANGED <<replica, leader, handlers, user, crossed>>
           /\ pending' = pending \ {e}
           /\ Len(clog') = Len(clog) + 1 /\ clog'[Len(clog) + 1] = e
           /\ \A i \in 1..Len(clog) : clog'[i] = clog[i]
<1>1. /\ UNCHANGED <<replica, leader, handlers, user, crossed>>
      /\ pending' = pending \ {e} /\ clog' = Append(clog, e)
  BY DEF Commit
<1>2. EntryOK(e) /\ e \in LogEntry /\ clog \in Seq(LogEntry)
  BY DEF TypeInv, LogType, EntryOK
<1>3. /\ clog' \in Seq(LogEntry) /\ Len(clog') = Len(clog) + 1 /\ clog'[Len(clog) + 1] = e
      /\ \A i \in 1..Len(clog) : clog'[i] = clog[i]
  BY <1>1, <1>2
<1>4. Len(clog) \in Nat
  BY <1>2
<1>5. \A i \in 1..Len(clog') : EntryOK(clog'[i])
  BY <1>2, <1>3, <1>4 DEF TypeInv, LogType
<1>6. \A n \in Node : applied'[n] <= Len(clog')
  BY <1>1, <1>3, <1>4 DEF TypeInv, LogType, ReplicaType, replica
<1>7. LogType'
  BY <1>1, <1>3, <1>5, <1>6 DEF TypeInv, LogType
<1>8. ReplicaType' /\ ClientType'
  BY <1>1 DEF TypeInv, ReplicaType, ClientType, replica, user
<1>9. OnlyRetries
  <2> SUFFICES ASSUME NEW r, IsReq(r)' PROVE IsReq(r)
    BY LikeItself DEF OnlyRetries
  <2> QED
    BY <1>1 DEF IsReq, user
<1> QED
  BY <1>1, <1>3, <1>7, <1>8, <1>9 DEF TypeInv

\* An election changes nothing but the leader
LEMMA ElectType ==
    ASSUME TypeInv, NEW n \in Node, Elect(n)
    PROVE  /\ TypeInv' /\ OnlyRetries
           /\ UNCHANGED <<replica, clog, pending, handlers, user, crossed>>
<1>1. UNCHANGED <<replica, clog, pending, handlers, user, crossed>> /\ leader' = n
  BY DEF Elect
<1>2. TypeInv'
  BY <1>1 DEF TypeInv, ReplicaType, LogType, ClientType, replica, user
<1>3. OnlyRetries
  <2> SUFFICES ASSUME NEW r, IsReq(r)' PROVE IsReq(r)
    BY LikeItself DEF OnlyRetries
  <2> QED
    BY <1>1 DEF IsReq, user
<1> QED
  BY <1>1, <1>2, <1>3

\* A restart keeps the files of the node and nothing else of it
LEMMA RestartType ==
    ASSUME TypeInv, NEW n \in Node, Restart(n)
    PROVE  /\ TypeInv' /\ OnlyRetries
           /\ UNCHANGED <<disk, clog, pending, user, crossed>>
           /\ handlers' \subseteq handlers
           /\ applied' = [applied EXCEPT ![n] = 0]
           /\ versions' = [versions EXCEPT ![n] = [f \in File |-> 0]]
           /\ opened' = [opened EXCEPT ![n] = {}]
           /\ dedup' = [dedup EXCEPT ![n] = [c \in Client |-> NoResponse]]
<1>1. /\ UNCHANGED <<disk, clog, pending, user, crossed>>
      /\ leader' \in {Nil, leader}
      /\ handlers' \subseteq handlers
      /\ applied' = [applied EXCEPT ![n] = 0]
      /\ versions' = [versions EXCEPT ![n] = [f \in File |-> 0]]
      /\ opened' = [opened EXCEPT ![n] = {}]
      /\ nextHandle' = [nextHandle EXCEPT ![n] = 1]
      /\ dedup' = [dedup EXCEPT ![n] = [c \in Client |-> NoResponse]]
  BY DEF Restart
<1>2. NoResponse \in [seq : Nat, ok : BOOLEAN]
  BY DEF NoResponse
<1>3. dedup' \in [Node -> [Client -> [seq : Nat, ok : BOOLEAN]]]
  BY <1>1, <1>2 DEF TypeInv, ReplicaType
<1>4. versions' \in [Node -> [File -> Nat]]
  BY <1>1 DEF TypeInv, ReplicaType
<1>5. ReplicaType'
  BY <1>1, <1>3, <1>4 DEF TypeInv, ReplicaType
<1>6. LogType'
  <2>1. \A m \in Node : applied'[m] <= Len(clog)
    <3>1. Len(clog) \in Nat /\ \A m \in Node : applied'[m] \in {0, applied[m]}
      BY <1>1 DEF TypeInv, LogType, ReplicaType
    <3> QED
      BY <3>1 DEF TypeInv, LogType
  <2> QED
    BY <1>1, <2>1 DEF TypeInv, LogType
<1>7. ClientType'
  BY <1>1 DEF TypeInv, ClientType, user
<1>8. OnlyRetries
  <2> SUFFICES ASSUME NEW r, IsReq(r)' PROVE IsReq(r)
    BY LikeItself DEF OnlyRetries
  <2> QED
    BY <1>1 DEF IsReq, user
<1> QED
  BY <1>1, <1>5, <1>6, <1>7, <1>8 DEF TypeInv

\* A new request keeps the types
LEMMA NewReqType ==
    ASSUME TypeInv, NEW c \in Client, NEW new, NewReq(c, new), Call(c, new),
           active' \in [Client -> SUBSET OpenFile]
    PROVE  TypeInv'
<1>1. ClientType' /\ UNCHANGED <<replica, raft>>
  BY CallType DEF TypeInv, NewReq
<1>2. ReplicaType' /\ LogType'
  BY <1>1 DEF TypeInv, ReplicaType, LogType, replica, raft
<1> QED
  BY <1>1, <1>2 DEF TypeInv

\* The types hold at the start
LEMMA TypeInit == Init => TypeInv
<1> SUFFICES ASSUME Init PROVE TypeInv
  OBVIOUS
<1>1. 0 \in Node
  BY RaftFilesAssumption DEF Node
<1>2. NoResponse \in [seq : Nat, ok : BOOLEAN]
  BY DEF NoResponse
<1>3. ReplicaType
  BY <1>2 DEF Init, ReplicaType
<1>4. LogType
  BY <1>1 DEF Init, LogType
<1>5. conn \in [Client -> [idx : Nat, node : Node]]
  BY <1>1 DEF Init
<1>6. ClientType
  BY <1>5 DEF Init, ClientType
<1> QED
  BY <1>3, <1>4, <1>6 DEF TypeInv

\* ... and every step keeps them
LEMMA TypeStep == TypeInv /\ [Next]_vars => TypeInv'
<1> SUFFICES ASSUME TypeInv, [Next]_vars PROVE TypeInv'
  OBVIOUS
<1>1. CASE UNCHANGED vars
  BY <1>1 DEF TypeInv, ReplicaType, LogType, ClientType, vars, replica, raft, user
<1>2. ASSUME NEW c \in Client, NEW f \in File, CallCreate(c, f) PROVE TypeInv'
  BY <1>2, CallCreateType, NewReqType DEF TypeInv, ClientType
<1>3. ASSUME NEW c \in Client, NEW f \in File, NEW mode \in Mode, Open(c, f, mode) PROVE TypeInv'
  BY <1>3, OpenType
<1>4. ASSUME NEW c \in Client, NEW a \in active[c], CallClose(c, a) PROVE TypeInv'
  BY <1>4, CallCloseType, NewReqType DEF TypeInv, ClientType
<1>5. ASSUME NEW c \in Client, TimeOut(c) PROVE TypeInv'
  BY <1>5, TimeOutType DEF TypeInv, ReplicaType, LogType, replica, raft
<1>6. ASSUME NEW h \in handlers,
             CheckIdempotent(h) \/ Create(h) \/ Close(h) \/ Finish(h) \/ FailToCommit(h)
      PROVE  TypeInv'
  BY <1>6, CheckType, CreateType, CloseType, FinishType, FailType
<1>7. ASSUME NEW e \in pending, Commit(e) PROVE TypeInv'
  BY <1>7, CommitType
<1>8. ASSUME NEW n \in Node, ApplyNext(n) \/ Elect(n) \/ Restart(n) PROVE TypeInv'
  BY <1>8, ApplyType, ElectType, RestartType
<1> QED
  BY <1>1, <1>2, <1>3, <1>4, <1>5, <1>6, <1>7, <1>8 DEF Next, Mode

-----------------------------------------------------------------------------
(* The replicas and the log                                                *)

\* Before the first write of a file a replica has given it at most version 1,
\* by a create or an open; afterwards it follows the last write it applied
FollowsLog(n, f) ==
    LET W == Writes(n, f) IN
    /\ W = {} => versions[n][f] \in {0, 1}
    /\ W # {} => /\ \E m \in W : (\A j \in W : j <= m) /\ disk[n][f] = clog[m].data
                 /\ versions[n][f] = Cardinality(W) + 1

FollowInv == \A n \in Node : \A f \in File : FollowsLog(n, f)

\* The last of the writes is the one CHOOSE finds
LEMMA LastOfMax ==
    ASSUME NEW S, S \subseteq Nat, NEW m \in S, \A j \in S : j <= m
    PROVE  LastOf(S) = m
<1>1. \A i \in S : (\A j \in S : j <= i) => i = m
  OBVIOUS
<1> QED
  BY <1>1 DEF LastOf

\* The writes that a replica applied can be counted
LEMMA WritesFinite ==
    ASSUME TypeInv, NEW n \in Node, NEW f \in File
    PROVE  /\ Writes(n, f) \subseteq 1..applied[n] /\ Writes(n, f) \subseteq Nat
           /\ IsFiniteSet(Writes(n, f)) /\ Cardinality(Writes(n, f)) \in Nat
           /\ Writes(n, f) # {} => Cardinality(Writes(n, f)) > 0
           /\ Writes(n, f) = {} => Cardinality(Writes(n, f)) = 0
<1>1. applied[n] \in Nat
  BY DEF TypeInv, ReplicaType
<1>2. Writes(n, f) \subseteq 1..applied[n]
  BY DEF Writes
<1>3. IsFiniteSet(1..applied[n])
  BY <1>1, FS_Interval
<1>4. IsFiniteSet(Writes(n, f))
  BY <1>2, <1>3, FS_Subset
<1>5. Cardinality(Writes(n, f)) \in Nat
  BY <1>4, FS_CardinalityType
<1>6. Writes(n, f) = {} <=> Cardinality(Writes(n, f)) = 0
  BY <1>4, FS_EmptySet
<1> QED
  BY <1>1, <1>2, <1>4, <1>5, <1>6

\* A replica that applied nothing more, and whose version only an open changed,
\* follows the log as before
LEMMA SameFollows ==
    ASSUME TypeInv, NEW n \in Node, NEW f \in File, FollowsLog(n, f),
           Writes(n, f)' = Writes(n, f), disk'[n][f] = disk[n][f],
           \A i \in 1..applied[n] : clog'[i] = clog[i],
           versions'[n][f] = versions[n][f] \/ (versions[n][f] = 0 /\ versions'[n][f] = 1)
    PROVE  FollowsLog(n, f)'
<1>1. PICK W : W = Writes(n, f)
  OBVIOUS
<1>2. /\ W \subseteq 1..applied[n] /\ Cardinality(W) \in Nat
      /\ W # {} => Cardinality(W) > 0
  BY <1>1, WritesFinite
<1>3. Writes(n, f)' = W
  BY <1>1
<1>4. /\ W = {} => versions[n][f] \in {0, 1}
      /\ W # {} => /\ \E m \in W : (\A j \in W : j <= m) /\ disk[n][f] = clog[m].data
                   /\ versions[n][f] = Cardinality(W) + 1
  BY <1>1 DEF FollowsLog
<1>5. W = {} => versions'[n][f] \in {0, 1}
  BY <1>4
<1>6. W # {} => versions'[n][f] = Cardinality(W) + 1
  BY <1>2, <1>4
<1>7. W # {} => \E m \in W : (\A j \in W : j <= m) /\ disk'[n][f] = clog'[m].data
  BY <1>2, <1>4
<1> QED
  BY <1>3, <1>5, <1>6, <1>7 DEF FollowsLog

\* The applier follows the log by one entry
LEMMA ApplyFollows ==
    ASSUME TypeInv, FollowInv, NEW n \in Node, ApplyNext(n)
    PROVE  FollowInv'
<1> SUFFICES ASSUME NEW m \in Node, NEW f \in File PROVE FollowsLog(m, f)'
  BY DEF FollowInv
<1>1. PICK e : e = clog[applied[n] + 1]
  OBVIOUS
<1>2. PICK k : k = applied[n] + 1
  OBVIOUS
<1>3. /\ UNCHANGED raft
      /\ k \in 1..Len(clog) /\ EntryOK(e) /\ e = clog[k]
      /\ applied' = [applied EXCEPT ![n] = @ + 1]
      /\ disk' = [disk EXCEPT ![n][e.file] = IF e.op = "create" THEN Created(@) ELSE e.data]
      /\ versions' = [versions EXCEPT ![n][e.file] =
                        IF e.op = "create" THEN CreatedVersion(@) ELSE WrittenVersion(@)]
  BY <1>1, <1>2, ApplyType
<1>4. /\ applied \in [Node -> Nat] /\ clog' = clog /\ applied'[n] = k
      /\ disk \in [Node -> [File -> Nat \cup {Absent, Empty}]]
      /\ versions \in [Node -> [File -> Nat]]
      /\ e.file \in File
  BY <1>2, <1>3 DEF TypeInv, ReplicaType, raft, EntryOK, LogEntry
<1>5. FollowsLog(m, f)
  BY DEF FollowInv
<1>6. CASE m # n
  <2>1. applied'[m] = applied[m] /\ disk'[m] = disk[m] /\ versions'[m] = versions[m]
    BY <1>3, <1>4, <1>6
  <2>2. Writes(m, f)' = Writes(m, f)
    BY <1>4, <2>1 DEF Writes
  <2> QED
    BY <1>4, <1>5, <2>1, <2>2, SameFollows
<1>7. CASE m = n /\ (f # e.file \/ e.op = "create")
  <2>1. Writes(n, f)' = Writes(n, f)
    <3>1. 1..applied'[n] = (1..applied[n]) \cup {k}
      <4>1. PICK a \in Nat : a = applied[n] /\ k = a + 1 /\ applied'[n] = a + 1
        BY <1>2, <1>4
      <4>2. 1..(a + 1) = (1..a) \cup {a + 1}
        OBVIOUS
      <4> QED
        BY <4>1, <4>2
    <3>2. ~(clog[k].op = "write" /\ clog[k].file = f)
      BY <1>3, <1>7
    <3> QED
      BY <1>4, <3>1, <3>2 DEF Writes
  <2>2. CASE f # e.file
    <3>1. disk'[n][f] = disk[n][f] /\ versions'[n][f] = versions[n][f]
      BY <1>3, <1>4, <2>2
    <3> QED
      BY <1>4, <1>5, <1>7, <2>1, <3>1, SameFollows
  <2>3. CASE f = e.file /\ e.op = "create"
    <3>1. disk'[n][f] = Created(disk[n][f]) /\ versions'[n][f] = CreatedVersion(versions[n][f])
      BY <1>3, <1>4, <2>3
    <3>2. PICK W : W = Writes(n, f)
      OBVIOUS
    <3>3. /\ W \subseteq 1..applied[n] /\ Cardinality(W) \in Nat
          /\ W # {} => Cardinality(W) > 0
      BY <3>2, WritesFinite
    <3>4. /\ W = {} => versions[n][f] \in {0, 1}
          /\ W # {} => /\ \E j \in W : (\A i \in W : i <= j) /\ disk[n][f] = clog[j].data
                       /\ versions[n][f] = Cardinality(W) + 1
      BY <1>5, <1>7, <3>2 DEF FollowsLog
    <3>5. \A j \in W : clog[j].data \in Nat
      <4>1. \A j \in W : j \in 1..Len(clog) /\ clog[j].op = "write"
        <5>1. applied[n] <= Len(clog) /\ applied[n] \in Nat /\ Len(clog) \in Nat
          BY DEF TypeInv, LogType, ReplicaType
        <5> QED
          BY <3>2, <3>3, <5>1 DEF Writes
      <4> QED
        BY <4>1 DEF TypeInv, LogType, EntryOK
    <3>6. W # {} => disk[n][f] \in Nat
      BY <3>4, <3>5
    <3>7. W # {} => disk'[n][f] = disk[n][f] /\ versions'[n][f] = versions[n][f]
      BY <3>1, <3>3, <3>4, <3>6, RaftFilesAssumption DEF Created, CreatedVersion
    <3>8. W = {} => versions'[n][f] \in {0, 1}
      BY <3>1, <3>4 DEF CreatedVersion
    <3>9. Writes(n, f)' = W
      BY <2>1, <3>2
    <3>10. W # {} => \E j \in W : (\A i \in W : i <= j) /\ disk'[n][f] = clog'[j].data
      BY <1>4, <3>4, <3>7
    <3> QED
      BY <1>7, <3>4, <3>7, <3>8, <3>9, <3>10 DEF FollowsLog
  <2> QED
    BY <1>7, <2>2, <2>3
<1>8. CASE m = n /\ f = e.file /\ e.op # "create"
  <2>1. /\ e.op = "write"
        /\ disk'[n][f] = e.data /\ versions'[n][f] = WrittenVersion(versions[n][f])
    BY <1>3, <1>4, <1>8 DEF EntryOK, LogEntry
  <2>2. PICK W : W = Writes(n, f)
    OBVIOUS
  <2>3. /\ W \subseteq 1..applied[n] /\ IsFiniteSet(W) /\ Cardinality(W) \in Nat
        /\ W # {} => Cardinality(W) > 0
        /\ W = {} => Cardinality(W) = 0
    BY <2>2, WritesFinite
  <2>4. Writes(n, f)' = W \cup {k}
    <3>1. 1..applied'[n] = (1..applied[n]) \cup {k}
      <4>1. PICK a \in Nat : a = applied[n] /\ k = a + 1 /\ applied'[n] = a + 1
        BY <1>2, <1>4
      <4>2. 1..(a + 1) = (1..a) \cup {a + 1}
        OBVIOUS
      <4> QED
        BY <4>1, <4>2
    <3>2. clog[k].op = "write" /\ clog[k].file = f
      BY <1>3, <1>8, <2>1
    <3> QED
      BY <1>4, <2>2, <3>1, <3>2 DEF Writes
  <2>5. k \notin W /\ k \in Nat /\ \A j \in W \cup {k} : j <= k
    BY <1>2, <1>4, <2>3
  <2>6. Cardinality(W \cup {k}) = Cardinality(W) + 1
    BY <2>3, <2>5, FS_AddElement
  <2>7. /\ W = {} => versions[n][f] \in {0, 1}
        /\ W # {} => versions[n][f] = Cardinality(W) + 1
    BY <1>5, <1>8, <2>2 DEF FollowsLog
  <2>8. versions'[n][f] = Cardinality(W) + 2
    BY <2>1, <2>3, <2>7 DEF WrittenVersion
  <2>9. disk'[n][f] = clog'[k].data
    BY <1>3, <1>4, <2>1
  <2>10. versions'[n][f] = Cardinality(W \cup {k}) + 1
    BY <2>3, <2>6, <2>8
  <2>11. PICK V : V = W \cup {k}
    OBVIOUS
  <2>12. /\ Writes(n, f)' = V /\ V # {} /\ versions'[n][f] = Cardinality(V) + 1
         /\ \E j \in V : (\A i \in V : i <= j) /\ disk'[n][f] = clog'[j].data
    BY <2>4, <2>5, <2>9, <2>10, <2>11
  <2> QED
    BY <1>8, <2>12 DEF FollowsLog
<1> QED
  BY <1>6, <1>7, <1>8

\* Nothing is applied at the start
LEMMA FollowInit == Init => FollowInv
BY DEF Init, FollowInv, FollowsLog, Writes

\* Every step keeps the replicas with the log
LEMMA FollowStep == TypeInv /\ FollowInv /\ [Next]_vars => FollowInv'
<1> SUFFICES ASSUME TypeInv, FollowInv, [Next]_vars PROVE FollowInv'
  OBVIOUS
<1>1. ASSUME UNCHANGED <<applied, disk, versions, clog>> PROVE FollowInv'
  <2> SUFFICES ASSUME NEW m \in Node, NEW g \in File PROVE FollowsLog(m, g)'
    BY DEF FollowInv
  <2>1. Writes(m, g)' = Writes(m, g)
    BY <1>1 DEF Writes
  <2> QED
    BY <1>1, <2>1, SameFollows DEF FollowInv
<1>2. CASE UNCHANGED vars
  BY <1>1, <1>2 DEF vars, replica, raft
<1>3. ASSUME NEW c \in Client, NEW f \in File, CallCreate(c, f) PROVE FollowInv'
  BY <1>1, <1>3 DEF CallCreate, Call, replica, raft
<1>4. ASSUME NEW c \in Client, NEW f \in File, NEW mode \in Mode, Open(c, f, mode) PROVE FollowInv'
  <2> DEFINE n == conn[c].node
  <2>1. /\ UNCHANGED <<raft, applied, disk>> /\ n \in Node
        /\ versions' = IF versions[n][f] = 0 /\ disk[n][f] # Absent
                       THEN [versions EXCEPT ![n][f] = 1] ELSE versions
    BY <1>4, OpenType
  <2> HIDE DEF n
  <2>2. versions \in [Node -> [File -> Nat]]
    BY DEF TypeInv, ReplicaType
  <2> SUFFICES ASSUME NEW m \in Node, NEW g \in File PROVE FollowsLog(m, g)'
    BY DEF FollowInv
  <2>3. versions'[m][g] = versions[m][g] \/ (versions[m][g] = 0 /\ versions'[m][g] = 1)
    BY <2>1, <2>2
  <2>4. Writes(m, g)' = Writes(m, g) /\ clog' = clog
    BY <2>1 DEF Writes, raft
  <2> QED
    BY <2>1, <2>3, <2>4, SameFollows DEF FollowInv
<1>5. ASSUME NEW c \in Client, NEW a \in active[c], CallClose(c, a) PROVE FollowInv'
  BY <1>1, <1>5 DEF CallClose, Call, replica, raft
<1>6. ASSUME NEW c \in Client, TimeOut(c) PROVE FollowInv'
  BY <1>1, <1>6 DEF TimeOut, replica, raft
<1>7. ASSUME NEW h \in handlers,
             CheckIdempotent(h) \/ Create(h) \/ Close(h) \/ Finish(h) \/ FailToCommit(h)
      PROVE  FollowInv'
  BY <1>1, <1>7, CheckType, CreateType, CloseType, FinishType, FailType DEF replica, raft
<1>8. ASSUME NEW e \in pending, Commit(e) PROVE FollowInv'
  <2>1. /\ UNCHANGED replica /\ \A i \in 1..Len(clog) : clog'[i] = clog[i]
    BY <1>8, CommitType
  <2> SUFFICES ASSUME NEW m \in Node, NEW g \in File PROVE FollowsLog(m, g)'
    BY DEF FollowInv
  <2>2. \A i \in 1..applied[m] : clog'[i] = clog[i]
    BY <2>1 DEF TypeInv, LogType, ReplicaType
  <2>3. Writes(m, g)' = Writes(m, g)
    BY <2>1, <2>2 DEF Writes, replica
  <2> QED
    BY <2>1, <2>2, <2>3, SameFollows DEF FollowInv, replica
<1>9. ASSUME NEW n \in Node, ApplyNext(n) PROVE FollowInv'
  BY <1>9, ApplyFollows
<1>10. ASSUME NEW n \in Node, Elect(n) PROVE FollowInv'
  BY <1>1, <1>10 DEF Elect, replica
<1>11. ASSUME NEW n \in Node, Restart(n) PROVE FollowInv'
  <2>1. /\ UNCHANGED <<disk, clog>>
        /\ applied' = [applied EXCEPT ![n] = 0]
        /\ versions' = [versions EXCEPT ![n] = [f \in File |-> 0]]
    BY <1>11, RestartType
  <2>2. applied \in [Node -> Nat] /\ versions \in [Node -> [File -> Nat]]
    BY DEF TypeInv, ReplicaType
  <2> SUFFICES ASSUME NEW m \in Node, NEW g \in File PROVE FollowsLog(m, g)'
    BY DEF FollowInv
  <2>3. CASE m = n
    <3>1. applied'[m] = 0 /\ versions'[m][g] = 0
      BY <2>1, <2>2, <2>3
    <3>2. Writes(m, g)' = {}
      BY <3>1 DEF Writes
    <3> QED
      BY <3>1, <3>2 DEF FollowsLog
  <2>4. CASE m # n
    <3>1. applied'[m] = applied[m] /\ versions'[m] = versions[m]
      BY <2>1, <2>2, <2>4
    <3>2. Writes(m, g)' = Writes(m, g)
      BY <2>1, <3>1 DEF Writes
    <3> QED
      BY <2>1, <3>1, <3>2, SameFollows DEF FollowInv
  <2> QED
    BY <2>3, <2>4
<1> QED
  BY <1>2, <1>3, <1>4, <1>5, <1>6, <1>7, <1>8, <1>9, <1>10, <1>11 DEF Next, Mode

\* In every execution each node that has applied a write of a file holds the
\* data of the last one and a version that counts the writes, through restarts
\* that replay the log over what is on the disk, opens during the replay, and
\* creates that are committed after a write.
THEOREM ReplicasAlwaysFollowLog == Spec => []ReplicasFollowLog
<1>1. TypeInv /\ FollowInv => ReplicasFollowLog
  <2> SUFFICES ASSUME TypeInv, FollowInv, NEW n \in Node, NEW f \in File, Writes(n, f) # {}
               PROVE  /\ disk[n][f] = clog[LastOf(Writes(n, f))].data
                      /\ versions[n][f] = Cardinality(Writes(n, f)) + 1
    BY DEF ReplicasFollowLog
  <2>1. PICK W : W = Writes(n, f)
    OBVIOUS
  <2>2. /\ \E m \in W : (\A j \in W : j <= m) /\ disk[n][f] = clog[m].data
        /\ versions[n][f] = Cardinality(W) + 1
    BY <2>1 DEF FollowInv, FollowsLog
  <2>3. W \subseteq Nat
    BY <2>1, WritesFinite
  <2> QED
    BY <2>1, <2>2, <2>3, LastOfMax
<1> QED
  BY <1>1, TypeInit, TypeStep, FollowInit, FollowStep, PTL DEF Spec

-----------------------------------------------------------------------------
(* Requests, handles and entries                                           *)

\* Requests are told apart by client and seq_num; a client waits for its last
ReqInv ==
    /\ \A r : IsReq(r) => r.seq <= seq[r.client] /\ (r.op = "close" => r.id <= ops)
    /\ \A c \in Client : request[c] # NoRequest => request[c].seq = seq[c]
    /\ \A r, q : IsReq(r) /\ IsReq(q) /\ r.client = q.client /\ r.seq = q.seq => Like(r, q)

\* Like is symmetric
LEMMA LikeFields ==
    ASSUME NEW r, NEW q, Like(r, q)
    PROVE  Like(q, r) /\ r.client = q.client /\ r.seq = q.seq
BY DEF Like

\* ... and transitive
LEMMA LikeChain == ASSUME NEW r, NEW q, NEW p, Like(r, q), Like(q, p) PROVE Like(r, p)
BY DEF Like

\* A step that starts no request
LEMMA RetriesReq ==
    ASSUME TypeInv, TypeInv', ReqInv, OnlyRetries, seq' = seq, ops' >= ops,
           \A c \in Client : request'[c] \in {request[c], NoRequest} \/ Like(request'[c], request[c])
    PROVE  ReqInv'
<1>1. ASSUME NEW r, IsReq(r)'
      PROVE  r.seq <= seq'[r.client] /\ (r.op = "close" => r.id <= ops')
  <2>1. PICK q : IsReq(q) /\ Like(r, q)
    BY <1>1 DEF OnlyRetries
  <2>2. ReqOK(q) /\ ops \in Nat /\ ops' \in Nat
    BY <2>1, ReqsOK DEF TypeInv, ClientType
  <2>3. q.seq <= seq[q.client] /\ (q.op = "close" => q.id <= ops)
    BY <2>1 DEF ReqInv
  <2> QED
    BY <2>1, <2>2, <2>3 DEF Like, ReqOK
<1>2. ASSUME NEW c \in Client, request'[c] # NoRequest PROVE request'[c].seq = seq'[c]
  <2>1. CASE request'[c] = request[c]
    BY <1>2, <2>1 DEF ReqInv
  <2>2. CASE Like(request'[c], request[c])
    <3>1. request'[c].op \in {"create", "close"}
      BY <1>2 DEF TypeInv, ClientType, ReqOK
    <3>2. request[c] # NoRequest
      BY <2>2, <3>1 DEF Like, NoRequest
    <3> QED
      BY <2>2, <3>2 DEF ReqInv, Like
  <2> QED
    BY <1>2, <2>1, <2>2
<1>3. ASSUME NEW r, NEW q, IsReq(r)', IsReq(q)', r.client = q.client, r.seq = q.seq
      PROVE  Like(r, q)
  <2>1. PICK r1 : IsReq(r1) /\ Like(r, r1)
    BY <1>3 DEF OnlyRetries
  <2>2. PICK q1 : IsReq(q1) /\ Like(q, q1)
    BY <1>3 DEF OnlyRetries
  <2>3. r1.client = q1.client /\ r1.seq = q1.seq
    BY <1>3, <2>1, <2>2 DEF Like
  <2>4. Like(r1, q1)
    BY <2>1, <2>2, <2>3 DEF ReqInv
  <2> QED
    BY <2>1, <2>2, <2>4 DEF Like
<1> QED
  BY <1>1, <1>2, <1>3 DEF ReqInv

\* A new request has a seq_num no other request of its client has
LEMMA NewReqInv ==
    ASSUME TypeInv, TypeInv', ReqInv, NEW c \in Client, NEW new, NewReq(c, new), Call(c, new),
           new.op = "close" => new.id <= ops,
           active' \in [Client -> SUBSET OpenFile]
    PROVE  ReqInv'
<1>1. /\ ops' = ops + 1
      /\ seq'[c] = seq[c] + 1 /\ \A d \in Client \ {c} : seq'[d] = seq[d]
      /\ request'[c] = new /\ \A d \in Client \ {c} : request'[d] = request[d]
      /\ \A r : IsReq(r)' => IsReq(r) \/ r = new
  BY CallType DEF TypeInv, NewReq
<1>2. /\ ops \in Nat /\ \A d \in Client : seq[d] \in Nat
  BY DEF TypeInv, ClientType
<1>3. ReqOK(new) /\ new.client = c /\ new.seq = seq[c] + 1
  BY DEF NewReq
<1>4. \A r : IsReq(r) => ReqOK(r) /\ r.seq <= seq[r.client] /\ (r.op = "close" => r.id <= ops)
  BY ReqsOK DEF TypeInv, ReqInv
<1>5. \A r : IsReq(r) /\ r.client = c => r.seq # new.seq
  <2> SUFFICES ASSUME NEW r, IsReq(r), r.client = c PROVE r.seq # new.seq
    OBVIOUS
  <2>1. r.seq \in Nat /\ r.seq <= seq[c]
    BY <1>4 DEF ReqOK
  <2> QED
    BY <1>2, <1>3, <2>1
<1>6. ASSUME NEW r, IsReq(r)'
      PROVE  r.seq <= seq'[r.client] /\ (r.op = "close" => r.id <= ops')
  <2>1. CASE r = new
    <3>1. new.op = "close" => new.id \in Nat
      BY <1>3 DEF ReqOK
    <3> QED
      BY <1>1, <1>2, <1>3, <2>1, <3>1
  <2>2. CASE IsReq(r)
    <3>1. /\ r.client \in Client /\ r.seq \in Nat /\ (r.op = "close" => r.id \in Nat)
          /\ r.seq <= seq[r.client] /\ (r.op = "close" => r.id <= ops)
      BY <1>4, <2>2 DEF ReqOK
    <3>2. seq'[r.client] \in {seq[r.client], seq[r.client] + 1}
      BY <1>1, <3>1
    <3> QED
      BY <1>1, <1>2, <3>1, <3>2
  <2> QED
    BY <1>1, <1>6, <2>1, <2>2
<1>7. ASSUME NEW d \in Client, request'[d] # NoRequest PROVE request'[d].seq = seq'[d]
  BY <1>1, <1>3, <1>7 DEF ReqInv
<1>8. ASSUME NEW r, NEW q, IsReq(r)', IsReq(q)', r.client = q.client, r.seq = q.seq
      PROVE  Like(r, q)
  <2>1. (IsReq(r) \/ r = new) /\ (IsReq(q) \/ q = new)
    BY <1>1, <1>8
  <2>2. CASE IsReq(r) /\ IsReq(q)
    BY <1>8, <2>2 DEF ReqInv
  <2>3. CASE r = new /\ q = new
    BY <2>3, LikeItself
  <2>4. CASE (r = new /\ IsReq(q)) \/ (q = new /\ IsReq(r))
    BY <1>3, <1>5, <1>8, <2>4
  <2> QED
    BY <2>1, <2>2, <2>3, <2>4
<1> QED
  BY <1>6, <1>7, <1>8 DEF ReqInv

\* The open that made a handle is told by id: at one node at most, and with the
\* same file and mode at the node, at the client and in the close it sends
HandleInv ==
    /\ \A n \in Node : \A o \in opened[n] : o.id <= ops
    /\ \A c \in Client : \A a \in active[c] : a.id <= ops
    /\ \A n, m \in Node : \A o \in opened[n] : \A p \in opened[m] : o.id = p.id => n = m /\ o = p
    /\ \A n \in Node : \A o \in opened[n] : \A c \in Client : \A a \in active[c] :
         a.id = o.id => a.file = o.file /\ a.mode = o.mode
    /\ \A n \in Node : \A o \in opened[n] : \A r :
         IsReq(r) /\ r.op = "close" /\ r.id = o.id => r.file = o.file /\ r.mode = o.mode

\* A step that opens no handle and starts no request
LEMMA RetriesHandle ==
    ASSUME TypeInv, TypeInv', HandleInv, OnlyRetries, ops' = ops,
           \A n \in Node : opened'[n] \subseteq opened[n],
           \A c \in Client : active'[c] \subseteq active[c]
    PROVE  HandleInv'
<1>1. ASSUME NEW n \in Node, NEW o \in opened'[n], NEW r, IsReq(r)', r.op = "close", r.id = o.id
      PROVE  r.file = o.file /\ r.mode = o.mode
  <2>1. PICK q : IsReq(q) /\ Like(r, q)
    BY <1>1 DEF OnlyRetries
  <2>2. q.op = "close" /\ q.id = o.id /\ r.file = q.file /\ r.mode = q.mode
    BY <1>1, <2>1 DEF Like
  <2>3. o \in opened[n]
    OBVIOUS
  <2> QED
    BY <2>1, <2>2, <2>3 DEF HandleInv
<1>2. /\ \A n \in Node : \A o \in opened'[n] : o.id <= ops'
      /\ \A c \in Client : \A a \in active'[c] : a.id <= ops'
      /\ \A n, m \in Node : \A o \in opened'[n] : \A p \in opened'[m] : o.id = p.id => n = m /\ o = p
      /\ \A n \in Node : \A o \in opened'[n] : \A c \in Client : \A a \in active'[c] :
           a.id = o.id => a.file = o.file /\ a.mode = o.mode
  BY DEF HandleInv
<1> QED
  BY <1>1, <1>2 DEF HandleInv

\* A close takes file and mode from its client's table
LEMMA NewReqHandle ==
    ASSUME TypeInv, TypeInv', HandleInv, NEW c \in Client, NEW new, NewReq(c, new), Call(c, new),
           active' \in [Client -> SUBSET OpenFile],
           \A d \in Client : active'[d] \subseteq active[d],
           \/ new.op = "create"
           \/ \E a \in active[c] : new.id = a.id /\ new.file = a.file /\ new.mode = a.mode
    PROVE  HandleInv'
<1>1. /\ ops' = ops + 1 /\ opened' = opened /\ ops \in Nat
      /\ \A r : IsReq(r)' => IsReq(r) \/ r = new
  BY CallType DEF TypeInv, NewReq, replica, ClientType
<1>2. ASSUME NEW n \in Node, NEW o \in opened[n], NEW r, IsReq(r)', r.op = "close", r.id = o.id
      PROVE  r.file = o.file /\ r.mode = o.mode
  <2>1. CASE IsReq(r)
    BY <1>2, <2>1 DEF HandleInv
  <2>2. CASE r = new
    <3>1. PICK a \in active[c] : new.id = a.id /\ new.file = a.file /\ new.mode = a.mode
      BY <1>2, <2>2
    <3> QED
      BY <1>2, <2>2, <3>1 DEF HandleInv
  <2> QED
    BY <1>1, <1>2, <2>1, <2>2
<1>3. \A n \in Node : \A o \in opened[n] : o.id \in Nat /\ o.id <= ops
  BY DEF HandleInv, TypeInv, ReplicaType, OpenFile
<1>4. \A d \in Client : \A a \in active[d] : a.id \in Nat /\ a.id <= ops
  BY DEF HandleInv, TypeInv, ClientType, OpenFile
<1>5. \A n \in Node : \A o \in opened[n] : o.id <= ops'
  BY <1>1, <1>3
<1>6. \A d \in Client : \A a \in active'[d] : a.id <= ops'
  BY <1>1, <1>4
<1>7. \A n \in Node : \A o \in opened[n] : \A d \in Client : \A a \in active'[d] :
        a.id = o.id => a.file = o.file /\ a.mode = o.mode
  BY DEF HandleInv
<1>8. \A n, m \in Node : \A o \in opened[n] : \A p \in opened[m] : o.id = p.id => n = m /\ o = p
  BY DEF HandleInv
<1> QED
  BY <1>1, <1>2, <1>5, <1>6, <1>7, <1>8 DEF HandleInv

\* Open makes a handle with an id nobody has
LEMMA OpenHandle ==
    ASSUME TypeInv, ReqInv, HandleInv, NEW c \in Client, NEW f \in File, NEW mode \in Mode,
           Open(c, f, mode)
    PROVE  HandleInv'
<1> DEFINE k == conn[c].node
<1>1. PICK new \in OpenFile :
        /\ new.id = ops + 1
        /\ opened' = [opened EXCEPT ![k] = @ \cup {new}]
        /\ \A d \in Client : \A a \in active'[d] : a \in active[d] \/ a = new
  BY OpenType
<1>2. k \in Node /\ ops' = ops + 1 /\ ops \in Nat /\ UNCHANGED <<handlers, request>>
  BY OpenType DEF TypeInv, ClientType
<1> HIDE DEF k
<1>3. \A n \in Node : \A o \in opened'[n] : o \in opened[n] \/ (o = new /\ n = k)
  BY <1>1, <1>2 DEF TypeInv, ReplicaType
<1>4. \A n \in Node : \A o \in opened[n] : o.id \in Nat /\ o.id <= ops
  BY DEF HandleInv, TypeInv, ReplicaType, OpenFile
<1>5. \A d \in Client : \A a \in active[d] : a.id \in Nat /\ a.id <= ops
  BY DEF HandleInv, TypeInv, ClientType, OpenFile
<1>6. \A r : IsReq(r) /\ r.op = "close" => r.id \in Nat /\ r.id <= ops
  BY ReqsOK DEF ReqInv, ReqOK, TypeInv
<1>7. \A r : IsReq(r)' => IsReq(r)
  BY <1>2 DEF IsReq
<1>8. \A n \in Node : \A o \in opened[n] : o.id # new.id
  BY <1>1, <1>2, <1>4
<1>9. \A d \in Client : \A a \in active[d] : a.id # new.id
  BY <1>1, <1>2, <1>5
<1>10. \A n \in Node : \A o \in opened'[n] : o.id <= ops'
  BY <1>1, <1>2, <1>3, <1>4
<1>11. \A d \in Client : \A a \in active'[d] : a.id <= ops'
  BY <1>1, <1>2, <1>5
<1>12. \A n, m \in Node : \A o \in opened'[n] : \A p \in opened'[m] : o.id = p.id => n = m /\ o = p
  BY <1>3, <1>8 DEF HandleInv
<1>13. \A n \in Node : \A o \in opened'[n] : \A d \in Client : \A a \in active'[d] :
         a.id = o.id => a.file = o.file /\ a.mode = o.mode
  BY <1>1, <1>3, <1>8, <1>9 DEF HandleInv
<1>14. \A n \in Node : \A o \in opened'[n] : \A r :
         IsReq(r)' /\ r.op = "close" /\ r.id = o.id => r.file = o.file /\ r.mode = o.mode
  <2> SUFFICES ASSUME NEW n \in Node, NEW o \in opened'[n], NEW r, IsReq(r)', r.op = "close",
                      r.id = o.id
               PROVE  r.file = o.file /\ r.mode = o.mode
    OBVIOUS
  <2>1. IsReq(r) /\ r.id \in Nat /\ r.id <= ops
    BY <1>6, <1>7
  <2>2. o \in opened[n]
    BY <1>1, <1>2, <1>3, <2>1
  <2> QED
    BY <2>1, <2>2 DEF HandleInv
<1> QED
  BY <1>10, <1>11, <1>12, <1>13, <1>14 DEF HandleInv

Crossed(r) == [client |-> r.client, seq |-> r.seq] \in crossed

OfReq(e, r) == e.client = r.client /\ e.seq = r.seq

\* The entry of a request has its operation; that of a close the file and data
\* of the request, unless the close found another's handle; and when it found
\* its own, that handle is at no node any more
EntryFits(e, r) ==
    /\ (e.op = "write") <=> (r.op = "close")
    /\ e.op = "write" => Crossed(r) \/ (e.file = r.file /\ e.data = r.data)
    /\ e.op = "write" /\ e.own => \A n \in Node : \A o \in opened[n] : o.id # r.id

EntryInv ==
    \A e \in Entries :
        /\ e.seq <= seq[e.client]
        /\ \A r : IsReq(r) /\ OfReq(e, r) => EntryFits(e, r)

\* Entries have the type of one
LEMMA EntriesOK == ASSUME TypeInv, NEW e \in Entries PROVE EntryOK(e)
BY DEF TypeInv, LogType, Entries

\* Entries are only added by AppendEntry; Commit moves one
LEMMA EntriesSame == UNCHANGED <<pending, clog>> => Entries' = Entries
BY DEF Entries

\* ... an append adds one
LEMMA EntriesAppend ==
    ASSUME NEW e, pending' = pending \cup {e}, clog' = clog PROVE Entries' = Entries \cup {e}
BY DEF Entries

\* ... and a commit moves one from pending to the log
LEMMA EntriesCommit ==
    ASSUME TypeInv, NEW e \in pending, Commit(e) PROVE Entries' = Entries
<1>1. /\ pending' = pending \ {e}
      /\ Len(clog') = Len(clog) + 1 /\ clog'[Len(clog) + 1] = e
      /\ \A i \in 1..Len(clog) : clog'[i] = clog[i]
  BY CommitType
<1>2. Len(clog) \in Nat
  BY DEF TypeInv, LogType
<1>3. \A i \in 1..Len(clog') : i \in 1..Len(clog) \/ i = Len(clog) + 1
  BY <1>1, <1>2
<1>4. Len(clog) + 1 \in 1..Len(clog') /\ 1..Len(clog) \subseteq 1..Len(clog')
  BY <1>1, <1>2
<1> QED
  BY <1>1, <1>3, <1>4 DEF Entries

\* What fits a request fits its retry
LEMMA FitsLike ==
    ASSUME NEW e, NEW r, NEW q, Like(r, q), EntryFits(e, q), OfReq(e, q), ReqOK(q),
           crossed \subseteq crossed',
           \A n \in Node : opened'[n] \subseteq opened[n]
    PROVE  EntryFits(e, r)'
<1>1. r.client = q.client /\ r.seq = q.seq /\ r.op = q.op /\ r.file = q.file
  BY DEF Like
<1>2. r.op = "close" => r.data = q.data /\ r.id = q.id
  BY DEF Like
<1>3. Crossed(q) => Crossed(r)'
  BY <1>1 DEF Crossed
<1>4. (e.op = "write") <=> (q.op = "close")
  BY DEF EntryFits
<1>5. e.op = "write" => Crossed(r)' \/ (e.file = r.file /\ e.data = r.data)
  BY <1>1, <1>2, <1>3, <1>4 DEF EntryFits
<1>6. e.op = "write" /\ e.own => \A n \in Node : \A o \in opened'[n] : o.id # r.id
  BY <1>1, <1>2, <1>4 DEF EntryFits
<1> QED
  BY <1>1, <1>4, <1>5, <1>6 DEF EntryFits, Crossed

\* An entry there was fits the requests there are
LEMMA RetriesEntry ==
    ASSUME TypeInv, EntryInv, OnlyRetries, seq' = seq, crossed \subseteq crossed',
           \A n \in Node : opened'[n] \subseteq opened[n],
           NEW e \in Entries
    PROVE  /\ e.seq <= seq'[e.client]
           /\ \A r : IsReq(r)' /\ OfReq(e, r) => EntryFits(e, r)'
<1>1. e.seq <= seq'[e.client]
  BY DEF EntryInv
<1>2. ASSUME NEW r, IsReq(r)', OfReq(e, r) PROVE EntryFits(e, r)'
  <2>1. PICK q : IsReq(q) /\ Like(r, q)
    BY <1>2 DEF OnlyRetries
  <2>2. OfReq(e, q) /\ ReqOK(q)
    BY <1>2, <2>1, ReqsOK DEF OfReq, Like, TypeInv
  <2>3. EntryFits(e, q)
    BY <2>1, <2>2 DEF EntryInv
  <2> QED
    BY <2>1, <2>2, <2>3, FitsLike
<1> QED
  BY <1>1, <1>2

\* An entry that a handler appends for its request
LEMMA AppendEntryInv ==
    ASSUME TypeInv, ReqInv, EntryInv, OnlyRetries, seq' = seq, crossed \subseteq crossed',
           \A n \in Node : opened'[n] \subseteq opened[n],
           NEW h \in handlers, NEW e, OfReq(e, h.req), Entries' = Entries \cup {e},
           (e.op = "write") <=> (h.req.op = "close"),
           e.op = "write" => Crossed(h.req)' \/ (e.file = h.req.file /\ e.data = h.req.data),
           e.op = "write" /\ e.own => \A n \in Node : \A o \in opened'[n] : o.id # h.req.id
    PROVE  EntryInv'
<1>1. IsReq(h.req) /\ ReqOK(h.req)
  BY ReqsOK DEF IsReq, TypeInv
<1>2. e.seq <= seq'[e.client]
  BY <1>1 DEF OfReq, ReqInv
<1>3. ASSUME NEW r, IsReq(r)', OfReq(e, r) PROVE EntryFits(e, r)'
  <2>1. PICK q : IsReq(q) /\ Like(r, q)
    BY <1>3 DEF OnlyRetries
  <2>2. q.client = h.req.client /\ q.seq = h.req.seq
    BY <1>3, <2>1 DEF OfReq, Like
  <2>3. Like(q, h.req)
    BY <1>1, <2>1, <2>2 DEF ReqInv
  <2>4. Like(r, h.req)
    BY <2>1, <2>3, LikeChain
  <2>5. r.client = h.req.client /\ r.seq = h.req.seq /\ r.op = h.req.op /\ r.file = h.req.file
    BY <2>4 DEF Like
  <2>6. r.op = "close" => r.data = h.req.data /\ r.id = h.req.id
    BY <2>4 DEF Like
  <2>7. Crossed(h.req)' => Crossed(r)'
    BY <2>5 DEF Crossed
  <2>8. e.op = "write" => Crossed(r)' \/ (e.file = r.file /\ e.data = r.data)
    BY <2>5, <2>6, <2>7
  <2>9. e.op = "write" /\ e.own => \A n \in Node : \A o \in opened'[n] : o.id # r.id
    BY <2>5, <2>6
  <2> QED
    BY <2>5, <2>8, <2>9 DEF EntryFits, Crossed
<1>4. \A d \in Entries : /\ d.seq <= seq'[d.client]
                         /\ \A r : IsReq(r)' /\ OfReq(d, r) => EntryFits(d, r)'
  BY RetriesEntry
<1>5. \A d \in Entries' : d \in Entries \/ d = e
  OBVIOUS
<1> QED
  BY <1>2, <1>3, <1>4, <1>5 DEF EntryInv, OfReq

\* A new request has no entry
LEMMA NewReqEntry ==
    ASSUME TypeInv, EntryInv, NEW c \in Client, NEW new, NewReq(c, new), Call(c, new),
           active' \in [Client -> SUBSET OpenFile]
    PROVE  EntryInv'
<1>1. /\ UNCHANGED <<replica, raft, crossed>>
      /\ seq'[c] = seq[c] + 1 /\ \A d \in Client \ {c} : seq'[d] = seq[d]
      /\ \A r : IsReq(r)' => IsReq(r) \/ r = new
  BY CallType DEF TypeInv, NewReq
<1>2. Entries' = Entries /\ opened' = opened
  BY <1>1, EntriesSame DEF raft, replica
<1> SUFFICES ASSUME NEW e \in Entries
             PROVE  /\ e.seq <= seq'[e.client]
                    /\ \A r : IsReq(r)' /\ OfReq(e, r) => EntryFits(e, r)'
  BY <1>2 DEF EntryInv, OfReq
<1>3. e.seq \in Nat /\ e.client \in Client /\ seq[e.client] \in Nat
  BY EntriesOK DEF EntryOK, LogEntry, TypeInv, ClientType
<1>4. e.seq <= seq[e.client] /\ seq'[e.client] \in {seq[e.client], seq[e.client] + 1}
  BY <1>1, <1>3 DEF EntryInv
<1>5. ~OfReq(e, new)
  BY <1>3, <1>4 DEF NewReq, OfReq
<1>6. ASSUME NEW r, IsReq(r)', OfReq(e, r) PROVE EntryFits(e, r)'
  <2>1. IsReq(r)
    BY <1>1, <1>5, <1>6
  <2>2. EntryFits(e, r)
    BY <1>6, <2>1 DEF EntryInv
  <2> QED
    BY <1>1, <1>2, <2>2 DEF EntryFits, Crossed
<1> QED
  BY <1>3, <1>4, <1>6

\* An open makes a handle with an id no request has
LEMMA OpenEntry ==
    ASSUME TypeInv, ReqInv, EntryInv, NEW c \in Client, NEW f \in File, NEW mode \in Mode,
           Open(c, f, mode)
    PROVE  EntryInv'
<1> DEFINE k == conn[c].node
<1>1. PICK new \in OpenFile :
        /\ new.id = ops + 1
        /\ opened' = [opened EXCEPT ![k] = @ \cup {new}]
  BY OpenType
<1>2. /\ k \in Node /\ ops \in Nat
      /\ UNCHANGED <<handlers, request, seq, raft, crossed>>
  BY OpenType DEF TypeInv, ClientType
<1> HIDE DEF k
<1>3. \A n \in Node : \A o \in opened'[n] : o \in opened[n] \/ o = new
  BY <1>1, <1>2 DEF TypeInv, ReplicaType
<1>4. Entries' = Entries
  BY <1>2, EntriesSame DEF raft
<1> SUFFICES ASSUME NEW e \in Entries, NEW r, IsReq(r), OfReq(e, r)
             PROVE  EntryFits(e, r)'
  BY <1>2, <1>4 DEF EntryInv, IsReq, OfReq
<1>5. EntryFits(e, r)
  BY DEF EntryInv
<1>6. r.op = "close" => r.id # new.id
  <2>1. r.op = "close" => r.id \in Nat /\ r.id <= ops
    BY ReqsOK DEF ReqInv, ReqOK, TypeInv
  <2> QED
    BY <1>1, <1>2, <2>1
<1>7. e.op = "write" /\ e.own => \A n \in Node : \A o \in opened'[n] : o.id # r.id
  BY <1>3, <1>5, <1>6 DEF EntryFits
<1> QED
  BY <1>2, <1>5, <1>7 DEF EntryFits, Crossed

\* A second entry for the same close would need the handle the first one took
LEMMA CloseOnce ==
    ASSUME TypeInv, EntryInv, ClosedOnce, NEW h \in handlers, NEW e, OfReq(e, h.req),
           Entries' = Entries \cup {e},
           e.op = "write" /\ e.own =>
               \E n \in Node : \E o \in opened[n] : o.id = h.req.id
    PROVE  ClosedOnce'
<1>1. IsReq(h.req)
  BY DEF IsReq
<1>2. \A d \in Entries : OfReq(d, h.req) /\ d.op = "write" /\ d.own =>
          \A n \in Node : \A o \in opened[n] : o.id # h.req.id
  BY <1>1 DEF EntryInv, EntryFits
<1>3. \A d \in Entries : ~(/\ d.op = "write" /\ d.own /\ e.op = "write" /\ e.own
                           /\ d.client = e.client /\ d.seq = e.seq)
  BY <1>2 DEF OfReq
<1> QED
  BY <1>3 DEF ClosedOnce

-----------------------------------------------------------------------------
(* A close is written once                                                 *)

CloseInv == ReqInv /\ HandleInv /\ EntryInv /\ ClosedOnce

\* A step that neither starts a request, opens a handle nor appends an entry
LEMMA RetriesClose ==
    ASSUME TypeInv, TypeInv', CloseInv, OnlyRetries, seq' = seq, ops' = ops,
           crossed \subseteq crossed', Entries' = Entries,
           \A n \in Node : opened'[n] \subseteq opened[n],
           \A c \in Client : active'[c] \subseteq active[c],
           \A c \in Client : request'[c] \in {request[c], NoRequest} \/ Like(request'[c], request[c])
    PROVE  CloseInv'
<1>1. ops \in Nat
  BY DEF TypeInv, ClientType
<1>2. ReqInv'
  BY <1>1, RetriesReq DEF CloseInv
<1>3. HandleInv'
  BY RetriesHandle DEF CloseInv
<1>4. EntryInv'
  <2>1. \A e \in Entries : /\ e.seq <= seq'[e.client]
                           /\ \A r : IsReq(r)' /\ OfReq(e, r) => EntryFits(e, r)'
    BY RetriesEntry DEF CloseInv
  <2> QED
    BY <2>1 DEF EntryInv, OfReq
<1>5. ClosedOnce'
  BY DEF CloseInv, ClosedOnce
<1> QED
  BY <1>2, <1>3, <1>4, <1>5 DEF CloseInv

\* A handler that appends an entry for its request
LEMMA AppendClose ==
    ASSUME TypeInv, TypeInv', CloseInv, OnlyRetries, seq' = seq, ops' = ops,
           crossed \subseteq crossed',
           \A n \in Node : opened'[n] \subseteq opened[n],
           \A c \in Client : active'[c] \subseteq active[c],
           \A c \in Client : request'[c] \in {request[c], NoRequest} \/ Like(request'[c], request[c]),
           NEW h \in handlers, NEW e, OfReq(e, h.req), Entries' = Entries \cup {e},
           (e.op = "write") <=> (h.req.op = "close"),
           e.op = "write" => Crossed(h.req)' \/ (e.file = h.req.file /\ e.data = h.req.data),
           e.op = "write" /\ e.own =>
               /\ \A n \in Node : \A o \in opened'[n] : o.id # h.req.id
               /\ \E n \in Node : \E o \in opened[n] : o.id = h.req.id
    PROVE  CloseInv'
<1>1. ops \in Nat
  BY DEF TypeInv, ClientType
<1>2. ReqInv'
  BY <1>1, RetriesReq DEF CloseInv
<1>3. HandleInv'
  BY RetriesHandle DEF CloseInv
<1>4. EntryInv'
  BY AppendEntryInv DEF CloseInv
<1>5. ClosedOnce'
  BY CloseOnce DEF CloseInv
<1> QED
  BY <1>2, <1>3, <1>4, <1>5 DEF CloseInv

\* A close that appends has taken a handle off the node; no other has its id
LEMMA CloseKeeps ==
    ASSUME TypeInv, CloseInv, NEW h \in handlers, Close(h)
    PROVE  CloseInv'
<1>1. /\ TypeInv' /\ OnlyRetries
      /\ UNCHANGED <<seq, active, ops, leader, clog, applied, disk, versions>>
      /\ \A c \in Client : request'[c] \in {request[c], NoRequest} \/ Like(request'[c], request[c])
      /\ h.req.op = "close" /\ h.node \in Node
      /\ opened' = [opened EXCEPT ![h.node] = @ \ Found(h)]
      /\ crossed \subseteq crossed'
      /\ \A o \in Found(h) : o.id # h.req.id => [client |-> h.req.client, seq |-> h.req.seq] \in crossed'
      /\ \/ pending' = pending
         \/ \E o \in Found(h) : \E e :
              /\ pending' = pending \cup {e} /\ EntryOK(e) /\ e.op = "write"
              /\ e.client = h.req.client /\ e.seq = h.req.seq
              /\ e.file = o.file /\ e.data = h.req.data /\ e.own = (o.id = h.req.id)
  BY CloseType
<1>2. \A n \in Node : opened'[n] \subseteq opened[n]
  BY <1>1 DEF TypeInv, ReplicaType
<1>3. opened'[h.node] = opened[h.node] \ Found(h)
  BY <1>1 DEF TypeInv, ReplicaType
<1>4. CASE pending' = pending
  <2>1. Entries' = Entries
    BY <1>1, <1>4, EntriesSame
  <2> QED
    BY <1>1, <1>2, <2>1, RetriesClose
<1>5. ASSUME NEW o \in Found(h), NEW e,
             pending' = pending \cup {e}, e.op = "write",
             e.client = h.req.client, e.seq = h.req.seq,
             e.file = o.file, e.data = h.req.data, e.own = (o.id = h.req.id)
      PROVE  CloseInv'
  <2>1. Entries' = Entries \cup {e}
    BY <1>1, <1>5, EntriesAppend
  <2>2. OfReq(e, h.req)
    BY <1>5 DEF OfReq
  <2>3. o \in opened[h.node]
    BY DEF Found
  <2>4. IsReq(h.req)
    BY DEF IsReq
  <2>5. Crossed(h.req)' \/ (e.file = h.req.file /\ e.data = h.req.data)
    <3>1. CASE o.id # h.req.id
      BY <1>1, <3>1 DEF Crossed
    <3>2. CASE o.id = h.req.id
      BY <1>1, <1>5, <2>3, <2>4, <3>2 DEF CloseInv, HandleInv
    <3> QED
      BY <3>1, <3>2
  <2>6. e.own => \A n \in Node : \A p \in opened'[n] : p.id # h.req.id
    <3> SUFFICES ASSUME e.own, NEW n \in Node, NEW p \in opened'[n], p.id = h.req.id PROVE FALSE
      OBVIOUS
    <3>1. p \in opened[n] /\ p.id = o.id
      BY <1>2, <1>5
    <3>2. n = h.node /\ p = o
      BY <1>1, <2>3, <3>1 DEF CloseInv, HandleInv
    <3> QED
      BY <1>3, <3>2
  <2>7. e.own => \E n \in Node : \E p \in opened[n] : p.id = h.req.id
    BY <1>1, <1>5, <2>3
  <2> QED
    BY <1>1, <1>2, <1>5, <2>1, <2>2, <2>5, <2>6, <2>7, AppendClose
<1> QED
  BY <1>1, <1>4, <1>5

\* There are no requests, handles and entries at the start
LEMMA CloseInit == Init => CloseInv
<1> SUFFICES ASSUME Init PROVE CloseInv
  OBVIOUS
<1>1. \A r : ~IsReq(r)
  BY DEF Init, IsReq
<1>2. ReqInv
  BY <1>1 DEF Init, ReqInv
<1>3. \A n \in Node : opened[n] = {}
  BY DEF Init
<1>4. \A c \in Client : active[c] = {}
  BY DEF Init
<1>5. HandleInv
  BY <1>3, <1>4 DEF HandleInv
<1>6. Entries = {}
  BY DEF Init, Entries
<1> QED
  BY <1>2, <1>5, <1>6 DEF CloseInv, EntryInv, ClosedOnce

\* Every step keeps requests, handles and entries in agreement
LEMMA CloseStep == TypeInv /\ CloseInv /\ [Next]_vars => CloseInv'
<1> SUFFICES ASSUME TypeInv, CloseInv, [Next]_vars PROVE CloseInv'
  OBVIOUS
<1> TypeInv'
  BY TypeStep
<1>1. ASSUME UNCHANGED <<handlers, request>> PROVE OnlyRetries
  BY <1>1, LikeItself DEF OnlyRetries, IsReq
<1>2. ASSUME OnlyRetries, UNCHANGED <<seq, ops, active, crossed, pending, clog>>,
             \A n \in Node : opened'[n] \subseteq opened[n],
             \A c \in Client : request'[c] \in {request[c], NoRequest} \/ Like(request'[c], request[c])
      PROVE  CloseInv'
  BY <1>2, EntriesSame, RetriesClose
<1>3. CASE UNCHANGED vars
  BY <1>1, <1>2, <1>3 DEF vars, replica, raft, user
<1>4. ASSUME NEW c \in Client, NEW f \in File, CallCreate(c, f) PROVE CloseInv'
  <2>1. PICK new : NewReq(c, new) /\ new.op = "create" /\ Call(c, new) /\ UNCHANGED active
    BY <1>4, CallCreateType
  <2>2. active' \in [Client -> SUBSET OpenFile]
    BY <2>1 DEF TypeInv, ClientType
  <2>3. ReqInv' /\ HandleInv' /\ EntryInv'
    BY <2>1, <2>2, NewReqInv, NewReqHandle, NewReqEntry DEF CloseInv
  <2>4. UNCHANGED <<pending, clog>>
    BY <2>1 DEF Call, raft
  <2> QED
    BY <2>3, <2>4, EntriesSame DEF CloseInv, ClosedOnce
<1>5. ASSUME NEW c \in Client, NEW a \in active[c], CallClose(c, a) PROVE CloseInv'
  <2>1. PICK new : /\ NewReq(c, new) /\ Call(c, new)
                   /\ new.op = "close" /\ new.file = a.file /\ new.mode = a.mode
                   /\ new.id = a.id
                   /\ active' = [active EXCEPT ![c] = @ \ {a}]
    BY <1>5, CallCloseType
  <2>2. active' \in [Client -> SUBSET OpenFile] /\ \A d \in Client : active'[d] \subseteq active[d]
    BY <2>1 DEF TypeInv, ClientType
  <2>3. new.id <= ops
    BY <2>1 DEF CloseInv, HandleInv
  <2>4. ReqInv' /\ HandleInv' /\ EntryInv'
    BY <2>1, <2>2, <2>3, NewReqInv, NewReqHandle, NewReqEntry DEF CloseInv
  <2>5. UNCHANGED <<pending, clog>>
    BY <2>1 DEF Call, raft
  <2> QED
    BY <2>4, <2>5, EntriesSame DEF CloseInv, ClosedOnce
<1>6. ASSUME NEW c \in Client, NEW f \in File, NEW mode \in Mode, Open(c, f, mode) PROVE CloseInv'
  <2>1. UNCHANGED <<raft, handlers, request, seq>> /\ ops' = ops + 1 /\ ops \in Nat
    BY <1>6, OpenType DEF TypeInv, ClientType
  <2>2. ReqInv'
    BY <1>1, <2>1, RetriesReq DEF CloseInv
  <2>3. HandleInv' /\ EntryInv'
    BY <1>6, OpenHandle, OpenEntry DEF CloseInv
  <2> QED
    BY <2>1, <2>2, <2>3, EntriesSame DEF CloseInv, ClosedOnce, raft
<1>7. ASSUME NEW c \in Client, TimeOut(c) PROVE CloseInv'
  BY <1>2, <1>7, TimeOutType DEF TypeInv, replica, raft
<1>8. ASSUME NEW h \in handlers, CheckIdempotent(h) PROVE CloseInv'
  BY <1>2, <1>8, CheckType DEF replica, raft
<1>9. ASSUME NEW h \in handlers, Create(h) PROVE CloseInv'
  <2>1. /\ OnlyRetries
        /\ UNCHANGED <<replica, crossed, seq, active, ops, leader, clog>>
        /\ \A c \in Client : request'[c] \in {request[c], NoRequest} \/ Like(request'[c], request[c])
        /\ h.req.op = "create"
        /\ \/ pending' = pending
           \/ \E e : /\ pending' = pending \cup {e} /\ EntryOK(e) /\ e.op = "create"
                     /\ e.client = h.req.client /\ e.seq = h.req.seq
    BY <1>9, CreateType
  <2>2. CASE pending' = pending
    BY <1>2, <2>1, <2>2 DEF replica
  <2>3. ASSUME NEW e, pending' = pending \cup {e}, e.op = "create",
               e.client = h.req.client, e.seq = h.req.seq
        PROVE  CloseInv'
    <3>1. Entries' = Entries \cup {e}
      BY <2>1, <2>3, EntriesAppend
    <3>2. OfReq(e, h.req) /\ e.op # "write" /\ h.req.op # "close"
      BY <2>1, <2>3 DEF OfReq
    <3>3. /\ crossed \subseteq crossed' /\ seq' = seq /\ ops' = ops
          /\ \A n \in Node : opened'[n] \subseteq opened[n]
          /\ \A c \in Client : active'[c] \subseteq active[c]
      BY <2>1 DEF replica
    <3> QED
      BY <2>1, <3>1, <3>2, <3>3, AppendClose
  <2> QED
    BY <2>1, <2>2, <2>3
<1>10. ASSUME NEW h \in handlers, Close(h) PROVE CloseInv'
  BY <1>10, CloseKeeps
<1>11. ASSUME NEW h \in handlers, Finish(h) PROVE CloseInv'
  BY <1>2, <1>11, FinishType DEF raft
<1>12. ASSUME NEW h \in handlers, FailToCommit(h) PROVE CloseInv'
  BY <1>2, <1>12, FailType DEF replica, raft
<1>13. ASSUME NEW e \in pending, Commit(e) PROVE CloseInv'
  <2>1. OnlyRetries /\ UNCHANGED <<replica, user, crossed>>
    BY <1>13, CommitType
  <2>2. Entries' = Entries
    BY <1>13, EntriesCommit
  <2> QED
    BY <2>1, <2>2, RetriesClose DEF replica, user
<1>14. ASSUME NEW n \in Node, ApplyNext(n) PROVE CloseInv'
  <2>1. OnlyRetries /\ UNCHANGED <<opened, raft, user, crossed>>
    BY <1>14, ApplyType
  <2> QED
    BY <1>2, <2>1 DEF raft, user
<1>15. ASSUME NEW n \in Node, Elect(n) PROVE CloseInv'
  BY <1>2, <1>15, ElectType DEF replica, user
<1>16. ASSUME NEW n \in Node, Restart(n) PROVE CloseInv'
  <2>1. /\ OnlyRetries /\ UNCHANGED <<clog, pending, user, crossed>>
        /\ opened' = [opened EXCEPT ![n] = {}]
    BY <1>16, RestartType
  <2>2. \A m \in Node : opened'[m] \subseteq opened[m]
    BY <2>1 DEF TypeInv, ReplicaType
  <2> QED
    BY <1>2, <2>1, <2>2 DEF user
<1> QED
  BY <1>3, <1>4, <1>5, <1>6, <1>7, <1>8, <1>9, <1>10, <1>11, <1>12, <1>13, <1>14, <1>15, <1>16
     DEF Next, Mode

\* In every execution a close that finds the handle it was made for is in the
\* log at most once, with any number of nodes, retries, elections and restarts.
THEOREM ClosesAreWrittenOnce == Spec => []ClosedOnce
<1>1. CloseInv => ClosedOnce
  BY DEF CloseInv
<1> QED
  BY <1>1, TypeInit, TypeStep, CloseInit, CloseStep, PTL DEF Spec

-----------------------------------------------------------------------------
(* A close that is reported done is in the log                             *)

Done(r) ==
    \/ Crossed(r)
    \/ \E i \in 1..Len(clog) :
         clog[i].op = "write" /\ clog[i].file = r.file /\ clog[i].data = r.data

WriteClose(r) == r.op = "close" /\ r.mode = "w"

\* The handler whose append_entry returned has a committed entry, and a kept
\* response, under the seq_num it has, belongs to a close that is done
AckInv ==
    /\ \A h \in handlers : h.stage = "applied" => \E i \in 1..Len(clog) : OfReq(clog[i], h.req)
    /\ \A n \in Node : \A c \in Client : dedup[n][c].seq <= seq[c]
    /\ \A n \in Node : \A r :
         IsReq(r) /\ WriteClose(r) /\ dedup[n][r.client].seq = r.seq => Done(r)
    /\ \A r \in told : Done(r)

\* The committed log only grows
LogGrows == Len(clog) <= Len(clog') /\ \A i \in 1..Len(clog) : clog'[i] = clog[i]

\* What is done stays done, for a retry too
LEMMA DoneLike ==
    ASSUME TypeInv, TypeInv', crossed \subseteq crossed', LogGrows,
           NEW r, NEW q, Like(r, q), r.op = "close", Done(q)
    PROVE  Done(r)'
<1>1. r.client = q.client /\ r.seq = q.seq /\ r.file = q.file /\ r.data = q.data
  BY DEF Like
<1>2. 1..Len(clog) \subseteq 1..Len(clog')
  BY DEF TypeInv, LogType, LogGrows
<1>3. CASE Crossed(q)
  BY <1>1, <1>3 DEF Done, Crossed
<1>4. CASE ~Crossed(q)
  <2>1. PICK i \in 1..Len(clog) :
          clog[i].op = "write" /\ clog[i].file = q.file /\ clog[i].data = q.data
    BY <1>4 DEF Done
  <2>2. i \in 1..Len(clog') /\ clog'[i] = clog[i]
    BY <1>2 DEF LogGrows
  <2> QED
    BY <1>1, <2>1, <2>2 DEF Done
<1> QED
  BY <1>3, <1>4

\* A close that is done stays done
LEMMA DoneStays ==
    ASSUME TypeInv, TypeInv', crossed \subseteq crossed', LogGrows, NEW r, Done(r)
    PROVE  Done(r)'
<1>1. 1..Len(clog) \subseteq 1..Len(clog')
  BY DEF TypeInv, LogType, LogGrows
<1>2. CASE Crossed(r)
  BY <1>2 DEF Done, Crossed
<1>3. CASE ~Crossed(r)
  <2>1. PICK i \in 1..Len(clog) :
          clog[i].op = "write" /\ clog[i].file = r.file /\ clog[i].data = r.data
    BY <1>3 DEF Done
  <2>2. i \in 1..Len(clog') /\ clog'[i] = clog[i]
    BY <1>1 DEF LogGrows
  <2> QED
    BY <2>1, <2>2 DEF Done
<1> QED
  BY <1>2, <1>3

\* A step that starts no request, and keeps or reports only what is done
LEMMA AckKeep ==
    ASSUME TypeInv, TypeInv', ReqInv, AckInv, OnlyRetries, seq' = seq,
           crossed \subseteq crossed', LogGrows,
           \A g \in handlers' : g.stage = "applied" =>
               \/ \E h \in handlers : h.stage = "applied" /\ g.req = h.req
               \/ \E i \in 1..Len(clog) : OfReq(clog[i], g.req),
           \A n \in Node : \A c \in Client :
               \/ dedup'[n][c].seq \in {0, dedup[n][c].seq}
               \/ \E h \in handlers : /\ h.req.client = c /\ dedup'[n][c].seq = h.req.seq
                                      /\ WriteClose(h.req) => Done(h.req)',
           \A r \in told' : r \in told \/ Done(r)'
    PROVE  AckInv'
<1>1. \A n \in Node : \A c \in Client : dedup[n][c].seq \in Nat /\ seq[c] \in Nat
  BY DEF TypeInv, ReplicaType, ClientType
<1>2. ASSUME NEW g \in handlers', g.stage = "applied"
      PROVE  \E i \in 1..Len(clog') : OfReq(clog'[i], g.req)
  <2>1. PICK i \in 1..Len(clog) : OfReq(clog[i], g.req)
    BY <1>2 DEF AckInv
  <2>2. i \in 1..Len(clog') /\ clog'[i] = clog[i]
    BY DEF LogGrows, TypeInv, LogType
  <2> QED
    BY <2>1, <2>2
<1>3. ASSUME NEW n \in Node, NEW c \in Client PROVE dedup'[n][c].seq <= seq'[c]
  <2>1. CASE dedup'[n][c].seq \in {0, dedup[n][c].seq}
    BY <1>1, <2>1 DEF AckInv
  <2>2. ASSUME NEW h \in handlers, h.req.client = c, dedup'[n][c].seq = h.req.seq
        PROVE  dedup'[n][c].seq <= seq'[c]
    BY <2>2 DEF ReqInv, IsReq
  <2> QED
    BY <2>1, <2>2
<1>4. ASSUME NEW n \in Node, NEW r, IsReq(r)', WriteClose(r), dedup'[n][r.client].seq = r.seq
      PROVE  Done(r)'
  <2>1. PICK q : IsReq(q) /\ Like(r, q)
    BY <1>4 DEF OnlyRetries
  <2>2. ReqOK(q)
    BY <2>1, ReqsOK DEF TypeInv
  <2>3. /\ q.client \in Client /\ q.seq \in Nat \ {0}
        /\ r.client = q.client /\ r.seq = q.seq /\ r.op = "close" /\ WriteClose(q)
    BY <1>4, <2>1, <2>2 DEF Like, ReqOK, WriteClose
  <2>4. CASE dedup'[n][q.client].seq \in {0, dedup[n][q.client].seq}
    <3>1. dedup[n][q.client].seq = q.seq
      BY <1>4, <2>3, <2>4
    <3>2. Done(q)
      BY <2>1, <2>3, <3>1 DEF AckInv
    <3> QED
      BY <2>1, <2>3, <3>2, DoneLike
  <2>5. ASSUME NEW h \in handlers, h.req.client = q.client, dedup'[n][q.client].seq = h.req.seq,
               WriteClose(h.req) => Done(h.req)'
        PROVE  Done(r)'
    <3>1. IsReq(h.req) /\ h.req.seq = q.seq
      BY <1>4, <2>3, <2>5 DEF IsReq
    <3>2. Like(q, h.req)
      BY <2>1, <2>5, <3>1 DEF ReqInv
    <3>3. Like(r, h.req)
      BY <2>1, <3>2, LikeChain
    <3>4. WriteClose(h.req) /\ r.client = h.req.client /\ r.seq = h.req.seq
             /\ r.file = h.req.file /\ r.data = h.req.data
      BY <1>4, <2>3, <3>3 DEF Like, WriteClose
    <3>5. Done(h.req)'
      BY <2>5, <3>4
    <3> QED
      BY <3>4, <3>5 DEF Done, Crossed
  <2> QED
    BY <2>3, <2>4, <2>5
<1>5. \A r \in told' : Done(r)'
  BY DoneStays DEF AckInv
<1> QED
  BY <1>2, <1>3, <1>4, <1>5 DEF AckInv, WriteClose, OfReq

\* A new request has a seq_num no node has answered
LEMMA NewReqAck ==
    ASSUME TypeInv, TypeInv', AckInv, NEW c \in Client, NEW new, NewReq(c, new), Call(c, new),
           active' \in [Client -> SUBSET OpenFile]
    PROVE  AckInv'
<1>1. /\ UNCHANGED <<replica, raft, told, crossed>>
      /\ seq'[c] = seq[c] + 1 /\ \A d \in Client \ {c} : seq'[d] = seq[d]
      /\ \A g \in handlers' : g \in handlers \/ g.stage = "dedup"
      /\ \A r : IsReq(r)' => IsReq(r) \/ r = new
  BY CallType DEF TypeInv, NewReq
<1>2. UNCHANGED <<clog, dedup>>
  BY <1>1 DEF raft, replica
<1>3. \A n \in Node : \A d \in Client : dedup[n][d].seq \in Nat /\ seq[d] \in Nat
  BY DEF TypeInv, ReplicaType, ClientType
<1>4. \A n \in Node : \A d \in Client : dedup[n][d].seq <= seq[d]
  BY DEF AckInv
<1>5. \A n \in Node : \A d \in Client : dedup'[n][d].seq <= seq'[d]
  BY <1>1, <1>2, <1>3, <1>4
<1>6. \A r : Done(r)' <=> Done(r)
  BY <1>1, <1>2 DEF Done, Crossed
<1>7. \A n \in Node : dedup[n][new.client].seq # new.seq
  BY <1>3, <1>4 DEF NewReq
<1>8. \A n \in Node : \A r :
        IsReq(r)' /\ WriteClose(r) /\ dedup'[n][r.client].seq = r.seq => Done(r)'
  BY <1>1, <1>2, <1>6, <1>7 DEF AckInv
<1>9. \A g \in handlers' : g.stage = "applied" => \E i \in 1..Len(clog') : OfReq(clog'[i], g.req)
  BY <1>1, <1>2 DEF AckInv
<1>10. \A r \in told' : Done(r)'
  BY <1>1, <1>6 DEF AckInv
<1> QED
  BY <1>5, <1>8, <1>9, <1>10 DEF AckInv, WriteClose, OfReq

\* The close of a handler whose entry is committed is done
LEMMA AppliedDone ==
    ASSUME TypeInv, CloseInv, AckInv, NEW h \in handlers, h.stage = "applied", h.req.op = "close"
    PROVE  Done(h.req)
<1>1. PICK i \in 1..Len(clog) : OfReq(clog[i], h.req)
  BY DEF AckInv
<1>2. clog[i] \in Entries /\ IsReq(h.req)
  BY DEF Entries, IsReq
<1>3. EntryFits(clog[i], h.req)
  BY <1>1, <1>2 DEF CloseInv, EntryInv
<1> QED
  BY <1>3 DEF EntryFits, Done

\* Nothing is answered at the start
LEMMA AckInit == Init => AckInv
BY DEF Init, AckInv, IsReq, NoResponse

\* Every step answers and remembers only closes that are done
LEMMA AckStep == TypeInv /\ CloseInv /\ AckInv /\ [Next]_vars => AckInv'
<1> SUFFICES ASSUME TypeInv, CloseInv, AckInv, [Next]_vars PROVE AckInv'
  OBVIOUS
<1> TypeInv' /\ ReqInv
  BY TypeStep DEF CloseInv
<1>1. ASSUME UNCHANGED <<handlers, request>> PROVE OnlyRetries
  BY <1>1, LikeItself DEF OnlyRetries, IsReq
<1>2. clog' = clog => LogGrows
  <2>1. Len(clog) \in Nat
    BY DEF TypeInv, LogType
  <2> QED
    BY <2>1 DEF LogGrows
<1>3. ASSUME OnlyRetries, UNCHANGED <<seq, crossed, clog, dedup, told>>,
             \A g \in handlers' : g \in handlers \/ g.stage \in {"dedup", "run", "wait"}
      PROVE  AckInv'
  BY <1>2, <1>3, AckKeep
<1>4. CASE UNCHANGED vars
  BY <1>1, <1>3, <1>4 DEF vars, replica, raft, user
<1>5. ASSUME NEW c \in Client, NEW f \in File, CallCreate(c, f) PROVE AckInv'
  BY <1>5, CallCreateType, NewReqAck DEF TypeInv, ClientType
<1>6. ASSUME NEW c \in Client, NEW a \in active[c], CallClose(c, a) PROVE AckInv'
  BY <1>6, CallCloseType, NewReqAck DEF TypeInv, ClientType
<1>7. ASSUME NEW c \in Client, NEW f \in File, NEW mode \in Mode, Open(c, f, mode) PROVE AckInv'
  <2>1. UNCHANGED <<raft, dedup, handlers, request, seq, told, crossed>>
    BY <1>7, OpenType
  <2> QED
    BY <1>1, <1>3, <2>1 DEF raft
<1>8. ASSUME NEW c \in Client, TimeOut(c) PROVE AckInv'
  BY <1>3, <1>8, TimeOutType DEF TypeInv, replica, raft
<1>9. ASSUME NEW h \in handlers, CheckIdempotent(h) PROVE AckInv'
  <2>1. /\ OnlyRetries /\ UNCHANGED <<replica, raft, crossed, seq>>
        /\ \A g \in handlers' : g \in handlers \/ g.stage = "run"
    BY <1>9, CheckType
  <2>2. /\ HandlerOK(h) /\ h.node \in Node /\ h.req.client \in Client /\ IsReq(h.req)
        /\ h.req.seq \in Nat
    BY DEF TypeInv, ClientType, HandlerOK, ReqOK, IsReq
  <2> DEFINE last == dedup[h.node][h.req.client]
  <2>3. last.seq \in Nat /\ last.seq <= seq[h.req.client] /\ seq[h.req.client] \in Nat
    <3>1. \A n \in Node : \A c \in Client : dedup[n][c].seq \in Nat /\ seq[c] \in Nat
      BY DEF TypeInv, ReplicaType, ClientType
    <3>2. \A n \in Node : \A c \in Client : dedup[n][c].seq <= seq[c]
      BY DEF AckInv
    <3> QED
      BY <2>2, <3>1, <3>2
  <2>4. told' = told \/ (h.req.seq <= last.seq /\ Answer(h, last.ok))
    BY <1>9 DEF CheckIdempotent, Move, user
  <2>5. \A r \in told' : r \in told \/ Done(r)'
    <3> SUFFICES ASSUME NEW r \in told', r \notin told PROVE Done(r)'
      OBVIOUS
    <3>1. h.req.seq <= last.seq /\ Answer(h, last.ok)
      BY <2>4
    <3>2. r = h.req /\ request[r.client] = r /\ r.op = "close" /\ r.mode = "w"
      BY <3>1, AnswerType DEF TypeInv
    <3>3. request[h.req.client] # NoRequest
      BY <3>2 DEF NoRequest
    <3>4. h.req.seq = seq[h.req.client]
      BY <2>2, <3>2, <3>3 DEF ReqInv
    <3>5. last.seq = h.req.seq
      BY <2>2, <2>3, <3>1, <3>4
    <3>6. Done(h.req)
      BY <2>2, <3>2, <3>5 DEF AckInv, WriteClose
    <3> QED
      BY <2>1, <3>2, <3>6 DEF Done, Crossed, raft
  <2> QED
    BY <1>2, <2>1, <2>5, AckKeep DEF replica, raft
<1>10. ASSUME NEW h \in handlers, Create(h) PROVE AckInv'
  BY <1>3, <1>10, CreateType DEF replica
<1>11. ASSUME NEW h \in handlers, Close(h) PROVE AckInv'
  <2>1. /\ OnlyRetries /\ UNCHANGED <<seq, clog>>
        /\ \A g \in handlers' : g \in handlers \/ g.stage \in {"dedup", "wait"}
        /\ h.req.op = "close" /\ h.node \in Node
        /\ crossed \subseteq crossed'
        /\ \A o \in Found(h) : o.id # h.req.id => [client |-> h.req.client, seq |-> h.req.seq] \in crossed'
        /\ \/ dedup' = dedup /\ told' = told
           \/ /\ \E o \in Found(h) : o.mode = "r"
              /\ CacheResponse(h) /\ Answer(h, TRUE)
    BY <1>11, CloseType
  <2>2. CASE dedup' = dedup /\ told' = told
    BY <1>2, <2>1, <2>2, AckKeep
  <2>3. ASSUME NEW o \in Found(h), o.mode = "r", CacheResponse(h), Answer(h, TRUE) PROVE AckInv'
    <3>1. WriteClose(h.req) => Done(h.req)'
      <4> SUFFICES ASSUME WriteClose(h.req) PROVE Done(h.req)'
        OBVIOUS
      <4>1. o \in opened[h.node] /\ IsReq(h.req)
        BY DEF Found, IsReq
      <4>2. o.id # h.req.id
        BY <2>1, <2>3, <4>1 DEF CloseInv, HandleInv, WriteClose
      <4> QED
        BY <2>1, <4>2 DEF Done, Crossed
    <3>2. \A r \in told' : r \in told \/ Done(r)'
      BY <2>3, <3>1, AnswerType DEF TypeInv, WriteClose
    <3>3. \A n \in Node : \A c \in Client :
            \/ dedup'[n][c].seq \in {0, dedup[n][c].seq}
            \/ h.req.client = c /\ dedup'[n][c].seq = h.req.seq
      BY <2>3, DedupType DEF TypeInv, ClientType
    <3> QED
      BY <1>2, <2>1, <3>1, <3>2, <3>3, AckKeep
  <2> QED
    BY <2>1, <2>2, <2>3
<1>12. ASSUME NEW h \in handlers, Finish(h) PROVE AckInv'
  <2>1. /\ OnlyRetries /\ UNCHANGED <<raft, crossed, seq>> /\ handlers' \subseteq handlers
        /\ h.stage = "applied" /\ CacheResponse(h) /\ Answer(h, TRUE)
    BY <1>12, FinishType
  <2>2. h.req.op = "close" => Done(h.req)'
    <3>1. h.req.op = "close" => Done(h.req)
      BY <2>1, AppliedDone
    <3> QED
      BY <2>1, <3>1 DEF Done, Crossed, raft
  <2>3. \A r \in told' : r \in told \/ Done(r)'
    BY <2>1, <2>2, AnswerType DEF TypeInv
  <2>4. \A n \in Node : \A c \in Client :
          \/ dedup'[n][c].seq \in {0, dedup[n][c].seq}
          \/ h.req.client = c /\ dedup'[n][c].seq = h.req.seq
    BY <2>1, DedupType DEF TypeInv, ClientType
  <2> QED
    BY <1>2, <2>1, <2>2, <2>3, <2>4, AckKeep DEF WriteClose, raft
<1>13. ASSUME NEW h \in handlers, FailToCommit(h) PROVE AckInv'
  BY <1>3, <1>13, FailType DEF replica, raft
<1>14. ASSUME NEW e \in pending, Commit(e) PROVE AckInv'
  <2>1. /\ OnlyRetries /\ UNCHANGED <<replica, handlers, user, crossed>>
        /\ Len(clog') = Len(clog) + 1 /\ \A i \in 1..Len(clog) : clog'[i] = clog[i]
    BY <1>14, CommitType
  <2>2. Len(clog) \in Nat
    BY DEF TypeInv, LogType
  <2>3. LogGrows
    BY <2>1, <2>2 DEF LogGrows
  <2> QED
    BY <2>1, <2>3, AckKeep DEF replica, user
<1>15. ASSUME NEW n \in Node, ApplyNext(n) PROVE AckInv'
  <2> DEFINE e == clog[applied[n] + 1]
  <2>1. /\ OnlyRetries /\ UNCHANGED <<opened, dedup, raft, user, crossed>>
        /\ applied[n] + 1 \in 1..Len(clog)
        /\ \A g \in handlers' :
             g \in handlers \/ \E h \in Mine(n, e) : g.req = h.req /\ g.node = h.node
    BY <1>15, ApplyType
  <2>2. \A h \in Mine(n, e) : OfReq(e, h.req)
    BY DEF Mine, OfReq
  <2>3. \A g \in handlers' : g.stage = "applied" =>
            \/ \E h \in handlers : h.stage = "applied" /\ g.req = h.req
            \/ \E i \in 1..Len(clog) : OfReq(clog[i], g.req)
    BY <2>1, <2>2
  <2> QED
    BY <1>2, <2>1, <2>3, AckKeep DEF raft, user
<1>16. ASSUME NEW n \in Node, Elect(n) PROVE AckInv'
  BY <1>3, <1>16, ElectType DEF replica, user
<1>17. ASSUME NEW n \in Node, Restart(n) PROVE AckInv'
  <2>1. /\ OnlyRetries /\ UNCHANGED <<clog, user, crossed>> /\ handlers' \subseteq handlers
        /\ dedup' = [dedup EXCEPT ![n] = [c \in Client |-> NoResponse]]
    BY <1>17, RestartType
  <2>2. \A m \in Node : \A c \in Client : dedup'[m][c].seq \in {0, dedup[m][c].seq}
    <3>1. DOMAIN dedup = Node
      BY DEF TypeInv, ReplicaType
    <3>2. \A m \in Node : \A c \in Client : dedup'[m][c] \in {NoResponse, dedup[m][c]}
      BY <2>1, <3>1
    <3> QED
      BY <3>2 DEF NoResponse
  <2> QED
    BY <1>2, <2>1, <2>2, AckKeep DEF user
<1> QED
  BY <1>4, <1>5, <1>6, <1>7, <1>8, <1>9, <1>10, <1>11, <1>12, <1>13, <1>14, <1>15, <1>16, <1>17
     DEF Next, Mode

\* In every execution the client that is told its close succeeded has its data
\* in the committed log, under the file it opened, unless the close found the
\* handle of another open: also when the answer is that of an earlier attempt,
\* kept in the dedup_cache of some node.
THEOREM AckedClosesAreWritten == Spec => []AckedCloseWritten
<1>1. AckInv => AckedCloseWritten
  BY DEF AckInv, AckedCloseWritten, Done, Crossed
<1> QED
  BY <1>1, TypeInit, TypeStep, CloseInit, CloseStep, AckInit, AckStep, PTL DEF Spec

=============================================================================
