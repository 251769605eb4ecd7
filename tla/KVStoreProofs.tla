--------------------------- MODULE KVStoreProofs ---------------------------
(***************************************************************************)
(* Proofs about the replicated key-value store, for every set of nodes,    *)
(* clients and commands and every number of requests, attempts and         *)
(* restarts: the replicas agree, an answer is the result of the one effect *)
(* of its request, and the effect lies between request and answer.         *)
(*                                                                         *)
(* The argument.  All calls of one client and seq_num are attempts of one  *)
(* request.  Every session in any state comes from an effect, every entry  *)
(* is a retry or has its effect recorded, and a client waits only for its  *)
(* latest request, which no session has overtaken.                         *)
(*                                                                         *)
(* The last part is about one state machine under every log (KVMachine,    *)
(* for MachineSpec).                                                       *)
(***************************************************************************)
EXTENDS KVStore, KVMachine, KVStateMachineProofs

-----------------------------------------------------------------------------
(* Types                                                                   *)

\* The request in hand is numbered, and a write has a seq_num
ClientsSound ==
    \A c \in Client :
        /\ client[c].busy => client[c].req > 0 /\ client[c].cmd \in Cmds
        /\ client[c].cmd # Noop => client[c].seq > 0

TypeInv == TypeOK /\ ClientsSound /\ Len(states) = Len(clog) + 1

\* The fields of a call
LEMMA CallFields ==
    ASSUME NEW a \in Call
    PROVE  /\ a.client \in Client /\ a.req \in Nat /\ a.req # 0 /\ a.seq \in Nat
           /\ a.cmd \in Cmds /\ a.cmd \in Command /\ a.attempt \in 1..MaxAttempts
BY CmdsAssumption DEF Call

\* The fields of a client
LEMMA ClientFields ==
    ASSUME TypeOK, NEW c \in Client
    PROVE  /\ client[c] \in ClientState
           /\ client[c].busy \in BOOLEAN /\ client[c].req \in Nat /\ client[c].seq \in Nat
           /\ client[c].cmd \in Command /\ client[c].start \in Nat
           /\ client[c].attempt \in 0..MaxAttempts
BY DEF TypeOK, ClientState

\* apply returns a result.
LEMMA ApplyResultType ==
    ASSUME NEW s \in State, NEW e \in Call
    PROVE  /\ Apply(s, e) \in State
           /\ ApplyResult(s, e) \in Result
           /\ ~Duplicate(s, e) => ApplyResult(s, e) = Outcome(s, e.cmd)
           /\ Duplicate(s, e) => ApplyResult(s, e) \in SessionResult(s, e.client, e.seq)
<1>1. Apply(s, e) \in State
  BY CallFields, ApplyType
<1>2. CASE Duplicate(s, e)
  <2>1. ApplyResult(s, e) \in SessionResult(s, e.client, e.seq)
    BY <1>2 DEF ApplyResult, Duplicate
  <2> QED
    BY <1>1, <1>2, <2>1, SessionResultHeld
<1>3. CASE ~Duplicate(s, e)
  BY <1>1, <1>3, CallFields, EffectType DEF ApplyResult
<1> QED
  BY <1>2, <1>3

\* What an answer changes: the handler is gone; the client that waits for it,
\* if the answer arrives, is no longer busy, and has the answer.
LEMMA RespondFacts ==
    ASSUME TypeOK, ClientsSound, NEW h \in handlers, NEW result \in Result, NEW seen \in Nat,
           Respond(h, result, seen)
    PROVE  /\ handlers' = handlers \ {h}
           /\ client' \in [Client -> ClientState]
           /\ done' \subseteq DoneRecord
           /\ ClientsSound'
           /\ \A c \in Client : /\ client'[c].req = client[c].req
                                /\ client'[c].seq = client[c].seq
                                /\ client'[c].cmd = client[c].cmd
                                /\ client'[c].start = client[c].start
           /\ \A d \in done' :
                \/ d \in done
                \/ /\ Waits(h.call) /\ d.client = h.call.client /\ d.seq = h.call.seq
                   /\ d.cmd = h.call.cmd /\ d.start = client[h.call.client].start
                   /\ d.result = result /\ d.seen = seen
<1> DEFINE a == h.call
           c0 == a.client
           d0 == [client |-> c0, seq |-> a.seq, cmd |-> a.cmd,
                  start |-> client[c0].start, result |-> result, seen |-> seen]
<1>1. a \in Call
  BY DEF TypeOK, Handler
<1>2. c0 \in Client /\ a.seq \in Nat /\ a.cmd \in Cmds
  BY <1>1, CallFields
<1>3. handlers' = handlers \ {h}
  BY DEF Respond
<1>4. CASE UNCHANGED <<client, done>>
  BY <1>3, <1>4 DEF TypeOK, ClientsSound
<1>5. CASE /\ Waits(a)
           /\ client' = [client EXCEPT ![c0].busy = FALSE]
           /\ done' = done \cup {d0}
  <2>1. client[c0] \in ClientState /\ client[c0].start \in Nat
    BY <1>2, ClientFields
  <2>2. d0 \in DoneRecord
    BY <1>2, <2>1 DEF DoneRecord
  <2>3. client'[c0] = [client[c0] EXCEPT !.busy = FALSE]
        /\ \A c \in Client : c # c0 => client'[c] = client[c]
    BY <1>2, <1>5 DEF TypeOK
  <2>4. /\ client'[c0] \in ClientState
        /\ client'[c0].busy = FALSE
        /\ client'[c0].req = client[c0].req /\ client'[c0].seq = client[c0].seq
        /\ client'[c0].cmd = client[c0].cmd /\ client'[c0].start = client[c0].start
    BY <2>1, <2>3 DEF ClientState
  <2>5. client' \in [Client -> ClientState]
    BY <1>2, <1>5, <2>3, <2>4 DEF TypeOK
  <2>6. \A c \in Client : /\ client'[c].req = client[c].req
                          /\ client'[c].seq = client[c].seq
                          /\ client'[c].cmd = client[c].cmd
                          /\ client'[c].start = client[c].start
                          /\ client'[c].busy => client[c].busy
    BY <2>3, <2>4
  <2>7. ClientsSound'
    BY <2>6 DEF ClientsSound
  <2>8. done' \subseteq DoneRecord
    BY <1>5, <2>2 DEF TypeOK
  <2>9. \A d \in done' : d \in done \/ d = d0
    BY <1>5
  <2> QED
    BY <1>3, <1>5, <2>5, <2>6, <2>7, <2>8, <2>9
<1> QED
  BY <1>4, <1>5 DEF Respond

\* A handler that moves on serves the same call on the same node.
LEMMA MoveFacts ==
    ASSUME TypeOK, NEW h \in handlers,
           NEW stage \in {"lookup", "append", "wait", "read"}, MoveTo(h, stage)
    PROVE  /\ handlers' \subseteq Handler
           /\ \A g \in handlers' :
                g \in handlers \/ (g.call = h.call /\ g.node = h.node /\ g.stage = stage)
<1> DEFINE g0 == [h EXCEPT !.stage = stage]
<1>1. h \in Handler
  BY DEF TypeOK
<1>2. g0 \in Handler /\ g0.call = h.call /\ g0.node = h.node /\ g0.stage = stage
  BY <1>1 DEF Handler
<1>3. handlers' = (handlers \ {h}) \cup {g0}
  BY DEF MoveTo
<1> HIDE DEF g0
<1> QED
  BY <1>2, <1>3 DEF TypeOK

\* The next entry to apply
LEMMA NextEntry ==
    ASSUME TypeInv, NEW n \in Node, applied[n] < Len(clog)
    PROVE  /\ applied[n] \in Nat /\ applied[n] + 1 \in 1..Len(clog)
           /\ clog[applied[n] + 1] \in Call
<1>1. Len(clog) \in Nat /\ applied[n] \in 0..Len(clog)
  BY LenProperties DEF TypeInv, TypeOK
<1>2. applied[n] + 1 \in 1..Len(clog)
  BY <1>1
<1> QED
  BY <1>1, <1>2, ElementOfSeq DEF TypeInv, TypeOK, Entry

\* What a step of the applier does: the state machine takes the entry, and the
\* handler that waits for it goes on or answers.
LEMMA ApplyNextFacts ==
    ASSUME TypeInv, NEW n \in Node, ApplyNext(n)
    PROVE  LET e == clog[applied[n] + 1] IN
           /\ applied' = [applied EXCEPT ![n] = @ + 1]
           /\ sm' = [sm EXCEPT ![n] = Apply(@, e)]
           /\ UNCHANGED <<clog, pending, restarts, states, effects>>
           /\ \/ UNCHANGED <<handlers, client, done>>
              \/ \E h \in handlers :
                    /\ h.node = n /\ h.stage = "wait" /\ h.call = e
                    /\ \/ /\ e.cmd = Noop /\ MoveTo(h, "read") /\ UNCHANGED <<client, done>>
                       \/ /\ e.cmd # Noop
                          /\ Respond(h, ApplyResult(sm[n], e), applied[n] + 1)
BY DEF ApplyNext

\* Every step keeps the types.
LEMMA TypeStep == TypeInv /\ [Next]_vars => TypeInv'
<1> SUFFICES ASSUME TypeInv, [Next]_vars PROVE TypeInv'
  OBVIOUS
<1> USE DEF Entry
<1>0. /\ TypeOK /\ ClientsSound /\ Len(states) = Len(clog) + 1 /\ Len(clog) \in Nat
      /\ \A n \in Node : applied[n] \in Nat
  BY LenProperties DEF TypeInv, TypeOK
<1>1. ASSUME NEW c \in Client, NEW cmd \in Cmds, Invoke(c, cmd)
      PROVE  TypeInv'
  <2> DEFINE new == [busy |-> TRUE, req |-> client[c].req + 1, seq |-> NextSeq(c, cmd),
                     attempt |-> 0, cmd |-> cmd, start |-> Len(clog)]
  <2>1. /\ client' = [client EXCEPT ![c] = new]
        /\ UNCHANGED <<clog, pending, sm, applied, handlers, restarts, history>>
    BY <1>1 DEF Invoke
  <2>2. client[c].req \in Nat /\ client[c].seq \in Nat /\ cmd \in Command
    BY <1>0, ClientFields, CmdsAssumption
  <2>3. /\ new \in ClientState /\ new.req > 0 /\ new.cmd \in Cmds
        /\ new.cmd # Noop => new.seq > 0
    BY <1>0, <2>2, StoreBoundAssumption DEF ClientState, NextSeq
  <2> HIDE DEF new
  <2>4. client' \in [Client -> ClientState]
    BY <1>0, <2>1, <2>3 DEF TypeOK
  <2>5. ClientsSound'
    BY <1>0, <2>1, <2>3 DEF TypeOK, ClientsSound
  <2> QED
    BY <1>0, <2>1, <2>4, <2>5 DEF TypeInv, TypeOK, history
<1>2. ASSUME NEW c \in Client, NEW n \in Node, Attempt(c, n)
      PROVE  TypeInv'
  <2> DEFINE cl == client[c]
             call == [client |-> c, req |-> cl.req, attempt |-> cl.attempt + 1,
                      seq |-> IF cl.cmd = Noop THEN 0 ELSE cl.seq, cmd |-> cl.cmd]
             new == [call |-> call, node |-> n, stage |-> FirstStage(cl.cmd)]
  <2>1. /\ cl.busy /\ cl.attempt < MaxAttempts
        /\ client' = [client EXCEPT ![c].attempt = @ + 1]
        /\ handlers' = handlers \cup {new}
        /\ UNCHANGED <<clog, pending, sm, applied, restarts, history>>
    BY <1>2 DEF Attempt
  <2>2. /\ cl \in ClientState /\ cl.attempt + 1 \in 1..MaxAttempts /\ cl.req \in Nat \ {0}
        /\ cl.seq \in Nat /\ cl.cmd \in Cmds
    BY <1>0, <2>1, ClientFields, StoreBoundAssumption DEF ClientsSound
  <2>3. call \in Call
    BY <2>2 DEF Call
  <2>4. new \in Handler
    <3> HIDE DEF call
    <3> QED
      BY <2>3 DEF Handler, FirstStage
  <2>5. client'[c] = [cl EXCEPT !.attempt = @ + 1]
        /\ \A d \in Client : d # c => client'[d] = client[d]
    BY <1>0, <2>1 DEF TypeOK
  <2>6. /\ client'[c] \in ClientState /\ client'[c].busy = cl.busy /\ client'[c].req = cl.req
        /\ client'[c].seq = cl.seq /\ client'[c].cmd = cl.cmd
    BY <2>2, <2>5, StoreBoundAssumption DEF ClientState
  <2>7. client' \in [Client -> ClientState] /\ ClientsSound'
    BY <1>0, <2>1, <2>5, <2>6 DEF TypeOK, ClientsSound
  <2>8. handlers' \subseteq Handler
    BY <1>0, <2>1, <2>4 DEF TypeOK
  <2> QED
    BY <1>0, <2>1, <2>7, <2>8 DEF TypeInv, TypeOK, history
<1>3. ASSUME NEW c \in Client, GiveUp(c)
      PROVE  TypeInv'
  <2>1. /\ client' = [client EXCEPT ![c].busy = FALSE]
        /\ UNCHANGED <<clog, pending, sm, applied, handlers, restarts, history>>
    BY <1>3 DEF GiveUp
  <2>2. client[c] \in ClientState
    BY <1>0, ClientFields
  <2>3. client'[c] = [client[c] EXCEPT !.busy = FALSE]
        /\ \A d \in Client : d # c => client'[d] = client[d]
    BY <1>0, <2>1 DEF TypeOK
  <2>4. /\ client'[c] \in ClientState /\ client'[c].busy = FALSE
        /\ client'[c].seq = client[c].seq /\ client'[c].cmd = client[c].cmd
    BY <2>2, <2>3 DEF ClientState
  <2>5. client' \in [Client -> ClientState] /\ ClientsSound'
    BY <1>0, <2>1, <2>3, <2>4 DEF TypeOK, ClientsSound
  <2> QED
    BY <1>0, <2>1, <2>5 DEF TypeInv, TypeOK, history
<1>4. ASSUME NEW h \in handlers, NEW result \in Result, NEW seen \in Nat,
             Respond(h, result, seen)
      PROVE  /\ handlers' \subseteq Handler /\ client' \in [Client -> ClientState]
             /\ done' \subseteq DoneRecord /\ ClientsSound'
  BY <1>0, <1>4, RespondFacts DEF TypeOK
<1>5. ASSUME NEW h \in handlers, NEW stage \in {"lookup", "append", "wait", "read"},
             MoveTo(h, stage), UNCHANGED <<client, done>>
      PROVE  /\ handlers' \subseteq Handler /\ client' \in [Client -> ClientState]
             /\ done' \subseteq DoneRecord /\ ClientsSound'
  BY <1>0, <1>5, MoveFacts DEF TypeOK, ClientsSound
<1>6. ASSUME NEW h \in handlers, Lookup(h)
      PROVE  TypeInv'
  <2>1. h.node \in Node
    BY <1>0 DEF TypeOK, Handler
  <2>2. sm[h.node] \in State /\ applied[h.node] \in Nat
    BY <1>0, <2>1 DEF TypeOK
  <2>3. /\ handlers' \subseteq Handler /\ client' \in [Client -> ClientState]
        /\ done' \subseteq DoneRecord /\ ClientsSound'
    BY <1>4, <1>5, <1>6, <2>2, SessionResultHeld DEF Lookup
  <2>4. UNCHANGED <<clog, pending, sm, applied, restarts, states, effects>>
    BY <1>6 DEF Lookup
  <2> QED
    BY <1>0, <2>3, <2>4 DEF TypeInv, TypeOK
<1>7. ASSUME NEW h \in handlers, AppendToLog(h)
      PROVE  TypeInv'
  <2>1. /\ MoveTo(h, "wait") /\ pending' = pending \cup {h.call}
        /\ UNCHANGED <<clog, sm, applied, client, restarts, states, effects, done>>
    BY <1>7 DEF AppendToLog, history
  <2>2. h.call \in Call
    BY <1>0 DEF TypeOK, Handler
  <2>3. /\ handlers' \subseteq Handler /\ client' \in [Client -> ClientState]
        /\ done' \subseteq DoneRecord /\ ClientsSound'
    BY <1>5, <2>1
  <2>4. pending' \subseteq Call
    BY <1>0, <2>1, <2>2 DEF TypeOK
  <2> QED
    BY <1>0, <2>1, <2>3, <2>4 DEF TypeInv, TypeOK
<1>8. ASSUME NEW h \in handlers, Refuse(h)
      PROVE  TypeInv'
  BY <1>0, <1>8 DEF Refuse, TypeInv, TypeOK, ClientsSound, history
<1>9. ASSUME NEW h \in handlers, ServeRead(h)
      PROVE  TypeInv'
  <2>1. h.node \in Node
    BY <1>0 DEF TypeOK, Handler
  <2>2. Answer(0, FALSE, NoValue) \in Result
    BY DEF Answer, Result
  <2>3. /\ handlers' \subseteq Handler /\ client' \in [Client -> ClientState]
        /\ done' \subseteq DoneRecord /\ ClientsSound'
    BY <1>0, <1>4, <1>9, <2>1, <2>2 DEF ServeRead
  <2>4. UNCHANGED <<clog, pending, sm, applied, restarts, states, effects>>
    BY <1>9 DEF ServeRead
  <2> QED
    BY <1>0, <2>3, <2>4 DEF TypeInv, TypeOK
<1>10. ASSUME NEW e \in pending, Commit(e)
       PROVE  TypeInv'
  <2> DEFINE before == states[Len(states)]
             after == Apply(before, e)
             new == [client |-> e.client, seq |-> e.seq, cmd |-> e.cmd,
                     index |-> Len(clog) + 1, result |-> ApplyResult(before, e)]
  <2>1. /\ pending' = pending \ {e}
        /\ clog' = Append(clog, e)
        /\ states' = Append(states, after)
        /\ effects' = IF e.seq = 0 \/ Duplicate(before, e) THEN effects
                      ELSE effects \cup {new}
        /\ UNCHANGED <<sm, applied, handlers, client, restarts, done>>
    BY <1>10 DEF Commit
  <2>2. e \in Call
    BY <1>0 DEF TypeOK
  <2>3. before \in State
    BY <1>0, ElementOfSeq DEF TypeOK
  <2>4. after \in State /\ ApplyResult(before, e) \in Result
    BY <2>2, <2>3, ApplyResultType
  <2>5. e.seq # 0 => new \in EffectRecord
    <3> HIDE DEF before
    <3> QED
      BY <1>0, <2>2, <2>4, CallFields DEF EffectRecord
  <2> HIDE DEF before, after, new
  <2>6. /\ clog' \in Seq(Call) /\ Len(clog') = Len(clog) + 1
        /\ states' \in Seq(State) /\ Len(states') = Len(states) + 1
    BY <1>0, <2>1, <2>2, <2>4, AppendProperties DEF TypeOK
  <2>7. effects' \subseteq EffectRecord
    BY <1>0, <2>1, <2>5 DEF TypeOK
  <2>8. applied' \in [Node -> 0..Len(clog')]
    <3>1. 0..Len(clog) \subseteq 0..Len(clog')
      BY <1>0, <2>6
    <3> QED
      BY <1>0, <2>1, <3>1 DEF TypeOK
  <2>9. ClientsSound'
    BY <1>0, <2>1 DEF ClientsSound
  <2> QED
    BY <1>0, <2>1, <2>6, <2>7, <2>8, <2>9 DEF TypeInv, TypeOK
<1>11. ASSUME NEW e \in pending, LoseEntry(e)
       PROVE  TypeInv'
  BY <1>0, <1>11 DEF LoseEntry, TypeInv, TypeOK, ClientsSound, history
<1>12. ASSUME NEW n \in Node, ApplyNext(n)
       PROVE  TypeInv'
  <2> DEFINE e == clog[applied[n] + 1]
  <2>1. e \in Call /\ applied[n] + 1 \in 1..Len(clog)
    BY <1>12, NextEntry DEF ApplyNext
  <2>2. sm[n] \in State
    BY <1>0 DEF TypeOK
  <2>3. Apply(sm[n], e) \in State /\ ApplyResult(sm[n], e) \in Result
    BY <2>1, <2>2, ApplyResultType
  <2> HIDE DEF e
  <2>4. /\ applied' = [applied EXCEPT ![n] = @ + 1]
        /\ sm' = [sm EXCEPT ![n] = Apply(@, e)]
        /\ UNCHANGED <<clog, pending, restarts, states, effects>>
        /\ \/ UNCHANGED <<handlers, client, done>>
           \/ \E h \in handlers :
                \/ MoveTo(h, "read") /\ UNCHANGED <<client, done>>
                \/ Respond(h, ApplyResult(sm[n], e), applied[n] + 1)
    BY <1>12, ApplyNextFacts DEF e
  <2>5. /\ handlers' \subseteq Handler /\ client' \in [Client -> ClientState]
        /\ done' \subseteq DoneRecord /\ ClientsSound'
    <3>1. CASE UNCHANGED <<handlers, client, done>>
      BY <1>0, <3>1 DEF TypeOK, ClientsSound
    <3>2. applied[n] + 1 \in Nat
      BY <1>0
    <3> QED
      BY <1>4, <1>5, <2>3, <2>4, <3>1, <3>2
  <2>6. applied' \in [Node -> 0..Len(clog)]
    BY <1>0, <2>1, <2>4 DEF TypeOK
  <2>7. sm' \in [Node -> State]
    BY <1>0, <2>3, <2>4 DEF TypeOK
  <2> QED
    BY <1>0, <2>4, <2>5, <2>6, <2>7 DEF TypeInv, TypeOK
<1>13. ASSUME NEW n \in Node, Restart(n)
       PROVE  TypeInv'
  <2>1. /\ sm' = [sm EXCEPT ![n] = Empty]
        /\ applied' = [applied EXCEPT ![n] = 0]
        /\ handlers' \subseteq handlers
        /\ restarts' = restarts + 1
        /\ UNCHANGED <<clog, pending, client, history>>
    BY <1>13 DEF Restart
  <2>2. applied' \in [Node -> 0..Len(clog)] /\ sm' \in [Node -> State]
    BY <1>0, <2>1, EmptyType DEF TypeOK
  <2> QED
    BY <1>0, <2>1, <2>2 DEF TypeInv, TypeOK, ClientsSound, history
<1>14. CASE UNCHANGED vars
  BY <1>0, <1>14 DEF vars, TypeInv, TypeOK, ClientsSound, history
<1> QED
  BY <1>1, <1>2, <1>3, <1>6, <1>7, <1>8, <1>9, <1>10, <1>11, <1>12, <1>13, <1>14
     DEF Next, ClientStep

\* The types hold at the start
LEMMA TypeInit == Init => TypeInv
<1> SUFFICES ASSUME Init PROVE TypeInv
  OBVIOUS
<1>1. Noop \in Command /\ Idle \in ClientState
  BY StoreBoundAssumption DEF Command, Noop, Idle, ClientState
<1>2. client \in [Client -> ClientState]
  BY <1>1 DEF Init
<1>3. ClientsSound
  BY DEF Init, ClientsSound, Idle
<1>4. Len(states) = Len(clog) + 1
  BY DEF Init
<1>5. TypeOK
  BY <1>2, EmptyType DEF Init, TypeOK
<1> QED
  BY <1>3, <1>4, <1>5 DEF TypeInv

\* The types, with what they rest on, hold in every reachable state.
THEOREM TypeInvariant == Spec => []TypeInv
BY TypeInit, TypeStep, PTL DEF Spec

\* For every store: requests, log entries, sessions and answers keep their
\* types; a node has applied no more than the log holds.
THEOREM TypeCorrect == Spec => []TypeOK
<1>1. TypeInv => TypeOK
  BY DEF TypeInv
<1> QED
  BY <1>1, TypeInvariant, PTL

-----------------------------------------------------------------------------
(* The state machines follow the log                                       *)

StatesFollowLog ==
    /\ states[1] = Empty
    /\ \A k \in 1..Len(clog) : states[k + 1] = Apply(states[k], clog[k])

LogSound == StatesFollowLog /\ ReplicasAgree

\* The committed entries and their states stay as they are when one is added.
LEMMA CommitFacts ==
    ASSUME TypeInv, NEW e \in pending, Commit(e)
    PROVE  LET n == Len(clog)
               before == states[n + 1]
           IN  /\ n \in Nat /\ e \in Call /\ before \in State
               /\ Len(clog') = n + 1 /\ clog'[n + 1] = e
               /\ \A k \in 1..n : clog'[k] = clog[k]
               /\ Len(states') = n + 2 /\ states'[n + 2] = Apply(before, e)
               /\ \A k \in 1..(n + 1) : states'[k] = states[k]
               /\ effects \subseteq effects'
               /\ e.seq = 0 \/ Duplicate(before, e) => effects' = effects
               /\ e.seq # 0 /\ ~Duplicate(before, e) =>
                    effects' = effects \cup
                      {[client |-> e.client, seq |-> e.seq, cmd |-> e.cmd,
                        index |-> n + 1, result |-> Outcome(before, e.cmd)]}
<1> DEFINE n == Len(clog)
           before == states[n + 1]
           after == Apply(before, e)
<1>1. /\ n \in Nat /\ Len(states) = n + 1 /\ clog \in Seq(Call) /\ states \in Seq(State)
      /\ e \in Call
  BY LenProperties DEF TypeInv, TypeOK, Entry
<1>2. before \in State
  BY <1>1, ElementOfSeq
<1>3. /\ clog' = Append(clog, e)
      /\ states' = Append(states, after)
      /\ effects' = IF e.seq = 0 \/ Duplicate(before, e) THEN effects
                    ELSE effects \cup
                      {[client |-> e.client, seq |-> e.seq, cmd |-> e.cmd,
                        index |-> n + 1, result |-> ApplyResult(before, e)]}
  BY <1>1 DEF Commit
<1>4. after \in State /\ (~Duplicate(before, e) => ApplyResult(before, e) = Outcome(before, e.cmd))
  BY <1>1, <1>2, ApplyResultType
<1> HIDE DEF before, after
<1>5. /\ Len(clog') = n + 1 /\ clog'[n + 1] = e
      /\ \A k \in 1..n : clog'[k] = clog[k]
  BY <1>1, <1>3, AppendProperties
<1>6. /\ Len(states') = n + 2 /\ states'[n + 2] = after
      /\ \A k \in 1..(n + 1) : states'[k] = states[k]
  BY <1>1, <1>3, <1>4, AppendProperties
<1> QED
  BY <1>1, <1>2, <1>3, <1>4, <1>5, <1>6 DEF before, after

\* The other steps leave the log and the history of states and effects alone.
LEMMA OnlyCommitAppends ==
    ASSUME [Next]_vars
    PROVE  (\E e \in pending : Commit(e)) \/ UNCHANGED <<clog, states, effects>>
BY DEF Next, ClientStep, Invoke, Attempt, GiveUp, Lookup, AppendToLog, Refuse, ServeRead,
       LoseEntry, ApplyNext, Restart, vars, history

\* Only the applier and a restart change a state machine.
LEMMA OnlyApplierApplies ==
    ASSUME [Next]_vars
    PROVE  (\E n \in Node : ApplyNext(n) \/ Restart(n)) \/ UNCHANGED <<sm, applied>>
BY DEF Next, ClientStep, Invoke, Attempt, GiveUp, Lookup, AppendToLog, Refuse, ServeRead,
       Commit, LoseEntry, vars, history

\* Every step keeps the log and the replicas sound
LEMMA LogStep ==
    ASSUME TypeInv, LogSound, [Next]_vars
    PROVE  LogSound'
<1>0. /\ Len(clog) \in Nat /\ Len(states) = Len(clog) + 1
      /\ \A n \in Node : applied[n] \in Nat /\ applied[n] <= Len(clog)
      /\ DOMAIN sm = Node /\ DOMAIN applied = Node
  BY LenProperties DEF TypeInv, TypeOK
<1>1. CASE \E e \in pending : Commit(e)
  <2>1. PICK e \in pending : Commit(e)
    BY <1>1
  <2> DEFINE n == Len(clog)
  <2>2. /\ Len(clog') = n + 1 /\ clog'[n + 1] = e
        /\ \A k \in 1..n : clog'[k] = clog[k]
        /\ states'[n + 2] = Apply(states[n + 1], e)
        /\ \A k \in 1..(n + 1) : states'[k] = states[k]
    BY <2>1, CommitFacts
  <2>3. UNCHANGED <<sm, applied>>
    BY <2>1 DEF Commit
  <2>4. states'[1] = Empty
    BY <1>0, <2>2 DEF LogSound, StatesFollowLog
  <2>5. ASSUME NEW k \in 1..(n + 1)
        PROVE  states'[k + 1] = Apply(states'[k], clog'[k])
    <3>1. CASE k = n + 1
      BY <1>0, <2>2, <3>1
    <3>2. CASE k # n + 1
      <4>1. k \in 1..n /\ k \in 1..(n + 1) /\ k + 1 \in 1..(n + 1)
        BY <1>0, <3>2
      <4> QED
        BY <2>2, <4>1 DEF LogSound, StatesFollowLog
    <3> QED
      BY <3>1, <3>2
  <2>6. ReplicasAgree'
    <3>1. \A m \in Node : applied[m] + 1 \in 1..(n + 1)
      BY <1>0
    <3> QED
      BY <2>2, <2>3, <3>1 DEF LogSound, ReplicasAgree
  <2> QED
    BY <2>2, <2>4, <2>5, <2>6 DEF LogSound, StatesFollowLog
<1>2. CASE UNCHANGED <<clog, states, effects>>
  <2>1. StatesFollowLog'
    BY <1>2 DEF LogSound, StatesFollowLog
  <2>2. ASSUME NEW n \in Node, ApplyNext(n)
        PROVE  ReplicasAgree'
    <3>1. /\ applied' = [applied EXCEPT ![n] = @ + 1]
          /\ sm' = [sm EXCEPT ![n] = Apply(@, clog[applied[n] + 1])]
          /\ applied[n] + 1 \in 1..Len(clog)
      BY <2>2, ApplyNextFacts, NextEntry DEF ApplyNext
    <3>2. /\ applied'[n] = applied[n] + 1 /\ sm'[n] = Apply(sm[n], clog[applied[n] + 1])
          /\ \A m \in Node : m # n => applied'[m] = applied[m] /\ sm'[m] = sm[m]
      BY <1>0, <3>1
    <3>3. sm'[n] = states[applied[n] + 1 + 1]
      BY <3>1, <3>2 DEF LogSound, StatesFollowLog, ReplicasAgree
    <3> QED
      BY <1>2, <3>2, <3>3 DEF LogSound, ReplicasAgree
  <2>3. ASSUME NEW n \in Node, Restart(n)
        PROVE  ReplicasAgree'
    <3>1. /\ sm' = [sm EXCEPT ![n] = Empty]
          /\ applied' = [applied EXCEPT ![n] = 0]
      BY <2>3 DEF Restart
    <3>2. /\ applied'[n] = 0 /\ sm'[n] = Empty
          /\ \A m \in Node : m # n => applied'[m] = applied[m] /\ sm'[m] = sm[m]
      BY <1>0, <3>1
    <3> QED
      BY <1>2, <3>2 DEF LogSound, StatesFollowLog, ReplicasAgree
  <2>4. CASE UNCHANGED <<sm, applied>>
    BY <1>2, <2>1, <2>4 DEF LogSound, ReplicasAgree
  <2> QED
    BY <2>1, <2>2, <2>3, <2>4, OnlyApplierApplies DEF LogSound
<1> QED
  BY <1>1, <1>2, OnlyCommitAppends

\* The state machines follow the log in every reachable state.
THEOREM LogInvariant == Spec => []LogSound
<1>1. Init => LogSound
  BY DEF Init, LogSound, StatesFollowLog, ReplicasAgree
<1>2. TypeInv /\ LogSound /\ [Next]_vars => LogSound'
  BY LogStep
<1> QED
  BY <1>1, <1>2, TypeInvariant, PTL DEF Spec

\* For every store: each node holds exactly the state that the entries it
\* applied lead to, sessions and tombstones included, also while it replays
\* the log after a restart (apply, raft_kv_server.py's start).
THEOREM ReplicasAlwaysAgree == Spec => []ReplicasAgree
<1>1. LogSound => ReplicasAgree
  BY DEF LogSound
<1> QED
  BY <1>1, LogInvariant, PTL

-----------------------------------------------------------------------------
(* The calls of a client                                                   *)

\* An attempt that a handler serves or that is in the log
Made(a) ==
    \/ \E h \in handlers : h.call = a
    \/ a \in pending
    \/ \E k \in 1..Len(clog) : clog[k] = a

\* The call belongs to the client's request in hand or to an earlier one
OfClient(a) ==
    /\ a.seq > 0 <=> a.cmd # Noop
    /\ a.req <= client[a.client].req
    /\ a.seq <= client[a.client].seq
    /\ a.req = client[a.client].req =>
         a.cmd = client[a.client].cmd /\ (a.cmd # Noop => a.seq = client[a.client].seq)
    /\ a.req # client[a.client].req /\ client[a.client].cmd # Noop =>
         a.seq < client[a.client].seq

\* Two attempts with one seq_num are attempts of one request
SameRequest(a, b) ==
    a.client = b.client /\ a.seq = b.seq /\ a.seq > 0 => a.cmd = b.cmd /\ a.req = b.req

CallsSound ==
    /\ \A a \in Call : Made(a) => OfClient(a)
    /\ \A a, b \in Call : Made(a) /\ Made(b) => SameRequest(a, b)

\* What was committed for the request in hand was committed after it was made
StartsSound ==
    /\ \A c \in Client : client[c].start <= Len(clog)
    /\ \A k \in 1..Len(clog) :
         clog[k].req = client[clog[k].client].req => k > client[clog[k].client].start

\* A write is looked up, a read has its barrier applied on its node
HandlersSound ==
    \A h \in handlers :
        /\ h.stage = "lookup" => h.call.cmd # Noop
        /\ h.stage = "read" =>
             h.call.cmd = Noop /\ \E k \in 1..applied[h.node] : clog[k] = h.call

ClientsKept ==
    \A c \in Client : /\ client'[c].req = client[c].req /\ client'[c].seq = client[c].seq
                      /\ client'[c].cmd = client[c].cmd
                      /\ client'[c].start = client[c].start

\* A new request
LEMMA InvokeFacts ==
    ASSUME TypeInv, NEW c \in Client, NEW cmd \in Cmds, Invoke(c, cmd)
    PROVE  /\ client'[c].req = client[c].req + 1
           /\ client'[c].seq = IF cmd = Noop THEN client[c].seq ELSE client[c].seq + 1
           /\ client'[c].cmd = cmd /\ client'[c].start = Len(clog)
           /\ \A d \in Client : d # c => client'[d] = client[d]
           /\ UNCHANGED <<clog, pending, handlers, applied>>
<1> DEFINE new == [busy |-> TRUE, req |-> client[c].req + 1, seq |-> NextSeq(c, cmd),
                   attempt |-> 0, cmd |-> cmd, start |-> Len(clog)]
<1>1. /\ client' = [client EXCEPT ![c] = new]
      /\ UNCHANGED <<clog, pending, handlers, applied>>
  BY DEF Invoke
<1>2. /\ new.req = client[c].req + 1 /\ new.seq = NextSeq(c, cmd)
      /\ new.cmd = cmd /\ new.start = Len(clog)
  OBVIOUS
<1> HIDE DEF new
<1>3. client'[c] = new /\ \A d \in Client : d # c => client'[d] = client[d]
  BY <1>1 DEF TypeInv, TypeOK
<1> QED
  BY <1>1, <1>2, <1>3 DEF NextSeq

\* One more attempt
LEMMA AttemptFacts ==
    ASSUME TypeInv, NEW c \in Client, NEW n \in Node, Attempt(c, n)
    PROVE  /\ ClientsKept
           /\ UNCHANGED <<clog, pending, applied>>
           /\ \E a \in Call :
                /\ a.client = c /\ a.req = client[c].req /\ a.cmd = client[c].cmd
                /\ a.seq = IF a.cmd = Noop THEN 0 ELSE client[c].seq
                /\ handlers' = handlers \cup
                     {[call |-> a, node |-> n, stage |-> FirstStage(a.cmd)]}
<1> DEFINE cl == client[c]
           call == [client |-> c, req |-> cl.req, attempt |-> cl.attempt + 1,
                    seq |-> IF cl.cmd = Noop THEN 0 ELSE cl.seq, cmd |-> cl.cmd]
<1>1. /\ cl.busy /\ cl.attempt < MaxAttempts
      /\ client' = [client EXCEPT ![c].attempt = @ + 1]
      /\ handlers' = handlers \cup {[call |-> call, node |-> n, stage |-> FirstStage(cl.cmd)]}
      /\ UNCHANGED <<clog, pending, applied>>
  BY DEF Attempt
<1>2. /\ cl \in ClientState /\ cl.attempt + 1 \in 1..MaxAttempts /\ cl.req \in Nat \ {0}
      /\ cl.seq \in Nat /\ cl.cmd \in Cmds
  BY <1>1, ClientFields, StoreBoundAssumption DEF ClientsSound, TypeInv
<1>3. call \in Call
  BY <1>2 DEF Call
<1>4. client'[c] = [cl EXCEPT !.attempt = @ + 1]
      /\ \A d \in Client : d # c => client'[d] = client[d]
  BY <1>1 DEF TypeInv, TypeOK
<1>5. ClientsKept
  BY <1>2, <1>4 DEF ClientsKept, ClientState
<1>6. /\ call.client = c /\ call.req = cl.req /\ call.cmd = cl.cmd
      /\ call.seq = IF call.cmd = Noop THEN 0 ELSE cl.seq
  OBVIOUS
<1> HIDE DEF call
<1> QED
  BY <1>1, <1>3, <1>5, <1>6

\* No other step makes a call or changes a request.
LEMMA NoNewCall ==
    ASSUME TypeInv, [Next]_vars,
           ~\E c \in Client : \E cmd \in Cmds : Invoke(c, cmd),
           ~\E c \in Client : \E n \in Node : Attempt(c, n)
    PROVE  ClientsKept /\ \A a \in Call : Made(a)' => Made(a)
<1>0. TypeOK /\ ClientsSound
  BY DEF TypeInv
<1>1. ASSUME NEW c \in Client, GiveUp(c)
      PROVE  ClientsKept /\ \A a \in Call : Made(a)' => Made(a)
  <2>1. /\ client' = [client EXCEPT ![c].busy = FALSE]
        /\ UNCHANGED <<clog, pending, handlers>>
    BY <1>1 DEF GiveUp
  <2>2. client[c] \in ClientState
    BY <1>0, ClientFields
  <2>3. client'[c] = [client[c] EXCEPT !.busy = FALSE]
        /\ \A d \in Client : d # c => client'[d] = client[d]
    BY <1>0, <2>1 DEF TypeOK
  <2>4. ClientsKept
    BY <2>2, <2>3 DEF ClientState, ClientsKept
  <2> QED
    BY <2>1, <2>4 DEF Made
<1>2. ASSUME UNCHANGED client \/ \E h \in handlers : \E r \in Result : \E seen \in Nat :
                                    Respond(h, r, seen)
      PROVE  ClientsKept
  BY <1>0, <1>2, RespondFacts DEF ClientsKept
<1>3. ASSUME NEW h \in handlers, NEW stage \in {"lookup", "append", "wait", "read"},
             MoveTo(h, stage)
      PROVE  \A g \in handlers' : \E f \in handlers : f.call = g.call
  BY <1>0, <1>3, MoveFacts
<1>4. ASSUME NEW h \in handlers, NEW r, NEW seen, Respond(h, r, seen)
      PROVE  handlers' \subseteq handlers
  BY <1>4 DEF Respond
<1>5. ASSUME NEW h \in handlers, Lookup(h)
      PROVE  ClientsKept /\ \A a \in Call : Made(a)' => Made(a)
  <2>1. sm[h.node] \in State /\ applied[h.node] \in Nat
    <3>1. h.node \in Node
      BY <1>0 DEF TypeOK, Handler
    <3> QED
      BY <1>0, <3>1, LenProperties DEF TypeOK
  <2>2. ClientsKept
    BY <1>2, <1>5, <2>1, SessionResultHeld DEF Lookup
  <2>3. \A g \in handlers' : \E f \in handlers : f.call = g.call
    BY <1>3, <1>4, <1>5 DEF Lookup
  <2>4. UNCHANGED <<clog, pending>>
    BY <1>5 DEF Lookup
  <2> QED
    BY <2>2, <2>3, <2>4 DEF Made
<1>6. ASSUME NEW h \in handlers, AppendToLog(h)
      PROVE  ClientsKept /\ \A a \in Call : Made(a)' => Made(a)
  <2>1. \A g \in handlers' : \E f \in handlers : f.call = g.call
    BY <1>3, <1>6 DEF AppendToLog
  <2>2. pending' = pending \cup {h.call} /\ UNCHANGED <<clog, client>>
    BY <1>6 DEF AppendToLog
  <2> QED
    BY <1>2, <2>1, <2>2 DEF Made
<1>7. ASSUME NEW h \in handlers, Refuse(h)
      PROVE  ClientsKept /\ \A a \in Call : Made(a)' => Made(a)
  BY <1>2, <1>7 DEF Refuse, Made
<1>8. ASSUME NEW h \in handlers, ServeRead(h)
      PROVE  ClientsKept /\ \A a \in Call : Made(a)' => Made(a)
  <2>1. Answer(0, FALSE, NoValue) \in Result
    BY DEF Answer, Result
  <2>2. applied[h.node] \in Nat
    <3>1. h.node \in Node
      BY <1>0 DEF TypeOK, Handler
    <3> QED
      BY <1>0, <3>1, LenProperties DEF TypeOK
  <2>3. ClientsKept /\ handlers' \subseteq handlers /\ UNCHANGED <<clog, pending>>
    BY <1>2, <1>4, <1>8, <2>1, <2>2 DEF ServeRead
  <2> QED
    BY <2>3 DEF Made
<1>9. ASSUME NEW e \in pending, Commit(e)
      PROVE  ClientsKept /\ \A a \in Call : Made(a)' => Made(a)
  <2>1. pending' \subseteq pending /\ UNCHANGED <<handlers, client>>
    BY <1>9 DEF Commit
  <2>2. \A k \in 1..Len(clog') : clog'[k] = e \/ \E l \in 1..Len(clog) : clog'[k] = clog[l]
    <3>1. /\ Len(clog) \in Nat /\ Len(clog') = Len(clog) + 1 /\ clog'[Len(clog) + 1] = e
          /\ \A k \in 1..Len(clog) : clog'[k] = clog[k]
      BY <1>9, CommitFacts
    <3> QED
      BY <3>1
  <2> QED
    BY <1>2, <2>1, <2>2 DEF Made
<1>10. ASSUME NEW e \in pending, LoseEntry(e)
       PROVE  ClientsKept /\ \A a \in Call : Made(a)' => Made(a)
  BY <1>2, <1>10 DEF LoseEntry, Made
<1>11. ASSUME NEW n \in Node, ApplyNext(n)
       PROVE  ClientsKept /\ \A a \in Call : Made(a)' => Made(a)
  <2> DEFINE e == clog[applied[n] + 1]
             r == ApplyResult(sm[n], e)
  <2>1. e \in Call /\ applied[n] + 1 \in Nat
    BY <1>11, NextEntry DEF ApplyNext
  <2>2. r \in Result
    BY <1>0, <2>1, ApplyResultType DEF TypeOK
  <2>3. \/ UNCHANGED <<handlers, client>>
        \/ \E h \in handlers : \/ MoveTo(h, "read") /\ UNCHANGED client
                               \/ Respond(h, r, applied[n] + 1)
    BY <1>11, ApplyNextFacts
  <2> HIDE DEF r, e
  <2>4. ClientsKept
    BY <1>2, <2>1, <2>2, <2>3
  <2>5. \A g \in handlers' : \E f \in handlers : f.call = g.call
    BY <1>3, <1>4, <2>3
  <2>6. UNCHANGED <<clog, pending>>
    BY <1>11 DEF ApplyNext
  <2> QED
    BY <2>4, <2>5, <2>6 DEF Made
<1>12. ASSUME NEW n \in Node, Restart(n)
       PROVE  ClientsKept /\ \A a \in Call : Made(a)' => Made(a)
  BY <1>2, <1>12 DEF Restart, Made
<1>13. CASE UNCHANGED vars
  BY <1>2, <1>13 DEF vars, Made
<1> QED
  BY <1>1, <1>5, <1>6, <1>7, <1>8, <1>9, <1>10, <1>11, <1>12, <1>13 DEF Next, ClientStep

\* The calls of the clients stay sound.
LEMMA CallsStep ==
    ASSUME TypeInv, CallsSound, [Next]_vars
    PROVE  CallsSound'
<1>1. ASSUME NEW c \in Client, NEW cmd \in Cmds, Invoke(c, cmd)
      PROVE  CallsSound'
  <2>1. \A a \in Call : Made(a)' => Made(a)
    BY <1>1, InvokeFacts DEF Made
  <2>2. ASSUME NEW a \in Call, Made(a)
        PROVE  OfClient(a)'
    <3>1. OfClient(a)
      BY <2>2 DEF CallsSound
    <3>2. a.client \in Client /\ a.req \in Nat /\ a.seq \in Nat
      BY CallFields
    <3>3. client[a.client].req \in Nat /\ client[a.client].seq \in Nat
      BY <3>2, ClientFields DEF TypeInv
    <3>4. CASE a.client # c
      BY <1>1, <3>1, <3>2, <3>4, InvokeFacts DEF OfClient
    <3>5. CASE a.client = c
      <4>1. /\ client'[c].req = client[c].req + 1
            /\ client'[c].seq = IF cmd = Noop THEN client[c].seq ELSE client[c].seq + 1
            /\ client'[c].cmd = cmd
        BY <1>1, InvokeFacts
      <4> QED
        BY <3>1, <3>2, <3>3, <3>5, <4>1 DEF OfClient
    <3> QED
      BY <3>4, <3>5
  <2> QED
    BY <2>1, <2>2 DEF CallsSound, SameRequest
<1>2. ASSUME ClientsKept, NEW a \in Call, OfClient(a)
      PROVE  OfClient(a)'
  BY <1>2, CallFields DEF ClientsKept, OfClient
<1>3. ASSUME NEW c \in Client, NEW n \in Node, Attempt(c, n)
      PROVE  CallsSound'
  <2>1. PICK new \in Call :
          /\ new.client = c /\ new.req = client[c].req /\ new.cmd = client[c].cmd
          /\ new.seq = IF new.cmd = Noop THEN 0 ELSE client[c].seq
          /\ handlers' = handlers \cup
                 {[call |-> new, node |-> n, stage |-> FirstStage(new.cmd)]}
    BY <1>3, AttemptFacts
  <2>2. ClientsKept /\ UNCHANGED <<clog, pending>>
    BY <1>3, AttemptFacts
  <2>3. \A a \in Call : Made(a)' => Made(a) \/ a = new
    BY <2>1, <2>2 DEF Made
  <2>4. client[c].req \in Nat /\ client[c].seq \in Nat
    BY ClientFields DEF TypeInv
  <2>5. OfClient(new)
    BY <2>1, <2>4 DEF OfClient, TypeInv, ClientsSound
  <2>6. ASSUME NEW a \in Call, Made(a)
        PROVE  SameRequest(a, new) /\ SameRequest(new, a)
    <3>1. OfClient(a)
      BY <2>6 DEF CallsSound
    <3>2. a.req \in Nat /\ a.seq \in Nat
      BY CallFields
    <3> QED
      BY <2>1, <2>4, <3>1, <3>2 DEF OfClient, SameRequest
  <2>7. SameRequest(new, new)
    BY DEF SameRequest
  <2>8. \A a \in Call : Made(a)' => OfClient(a)'
    BY <1>2, <2>2, <2>3, <2>5 DEF CallsSound
  <2>9. \A a, b \in Call : Made(a)' /\ Made(b)' => SameRequest(a, b)
    BY <2>3, <2>6, <2>7 DEF CallsSound
  <2> QED
    BY <2>8, <2>9 DEF CallsSound, SameRequest
<1>4. CASE ClientsKept /\ \A a \in Call : Made(a)' => Made(a)
  <2>1. \A a \in Call : Made(a)' => OfClient(a)'
    BY <1>2, <1>4 DEF CallsSound
  <2>2. \A a, b \in Call : Made(a)' /\ Made(b)' => SameRequest(a, b)
    BY <1>4 DEF CallsSound
  <2> QED
    BY <2>1, <2>2 DEF CallsSound, SameRequest
<1> QED
  BY <1>1, <1>3, <1>4, NoNewCall

\* So do the starts of the requests.
LEMMA StartsStep ==
    ASSUME TypeInv, TypeInv', CallsSound, StartsSound, [Next]_vars
    PROVE  StartsSound'
<1>0. Len(clog) \in Nat /\ clog \in Seq(Call)
  BY LenProperties DEF TypeInv, TypeOK, Entry
<1>1. \A k \in 1..Len(clog) : clog[k] \in Call /\ Made(clog[k])
  BY <1>0, ElementOfSeq DEF Made
<1>2. \A c \in Client : client[c].start \in Nat /\ client[c].req \in Nat
  BY ClientFields DEF TypeInv
<1>3. ASSUME NEW c \in Client, NEW cmd \in Cmds, Invoke(c, cmd)
      PROVE  StartsSound'
  <2>1. /\ client'[c].req = client[c].req + 1 /\ client'[c].start = Len(clog)
        /\ \A d \in Client : d # c => client'[d] = client[d]
        /\ UNCHANGED clog
    BY <1>3, InvokeFacts
  <2>2. \A d \in Client : client'[d].start <= Len(clog)
    BY <1>0, <2>1 DEF StartsSound
  <2>3. ASSUME NEW k \in 1..Len(clog), clog[k].req = client'[clog[k].client].req
        PROVE  k > client'[clog[k].client].start
    <3>1. clog[k].client \in Client /\ clog[k].req \in Nat /\ OfClient(clog[k])
      BY <1>1, CallFields DEF CallsSound
    <3>2. clog[k].client # c
      BY <1>2, <2>1, <2>3, <3>1 DEF OfClient
    <3> QED
      BY <2>1, <2>3, <3>1, <3>2 DEF StartsSound
  <2> QED
    BY <2>1, <2>2, <2>3 DEF StartsSound
<1>4. CASE ClientsKept
  <2>1. CASE UNCHANGED clog
    BY <1>1, <1>4, <2>1, CallFields DEF StartsSound, ClientsKept
  <2>2. ASSUME NEW e \in pending, Commit(e)
        PROVE  StartsSound'
    <3>1. /\ e \in Call /\ Len(clog') = Len(clog) + 1 /\ clog'[Len(clog) + 1] = e
          /\ \A k \in 1..Len(clog) : clog'[k] = clog[k]
      BY <2>2, CommitFacts
    <3>2. e.client \in Client
      BY <3>1, CallFields
    <3>3. \A c \in Client : client'[c].start <= Len(clog')
      BY <1>0, <1>2, <1>4, <3>1 DEF StartsSound, ClientsKept
    <3>4. ASSUME NEW k \in 1..Len(clog'), clog'[k].req = client'[clog'[k].client].req
          PROVE  k > client'[clog'[k].client].start
      <4>1. CASE k = Len(clog) + 1
        BY <1>0, <1>2, <1>4, <3>1, <3>2, <4>1 DEF StartsSound, ClientsKept
      <4>2. CASE k # Len(clog) + 1
        <5>1. k \in 1..Len(clog) /\ clog'[k] = clog[k]
          BY <1>0, <3>1, <4>2
        <5>2. clog[k].client \in Client
          BY <1>1, <5>1, CallFields
        <5> QED
          BY <1>4, <3>4, <5>1, <5>2 DEF StartsSound, ClientsKept
      <4> QED
        BY <4>1, <4>2
    <3> QED
      BY <3>3, <3>4 DEF StartsSound
  <2> QED
    BY <2>1, <2>2, OnlyCommitAppends
<1>5. ASSUME NEW c \in Client, NEW n \in Node, Attempt(c, n)
      PROVE  ClientsKept
  BY <1>5, AttemptFacts
<1> QED
  BY <1>3, <1>4, <1>5, NoNewCall

\* And the stages of the handlers.
LEMMA HandlersStep ==
    ASSUME TypeInv, TypeInv', HandlersSound, [Next]_vars
    PROVE  HandlersSound'
<1>0. /\ TypeOK /\ Len(clog) \in Nat
      /\ \A h \in handlers : h.node \in Node
      /\ \A n \in Node : applied[n] \in Nat /\ applied[n] <= Len(clog)
  BY LenProperties DEF TypeInv, TypeOK, Handler
<1> DEFINE Sound(h) == /\ h.stage = "lookup" => h.call.cmd # Noop
                       /\ h.stage = "read" => /\ h.call.cmd = Noop
                                              /\ \E k \in 1..applied[h.node] : clog[k] = h.call
<1>1. \A h \in handlers : Sound(h)
  BY DEF HandlersSound
<1>2. ASSUME UNCHANGED <<clog, applied>>,
             \A g \in handlers' : g \in handlers \/ Sound(g)
      PROVE  HandlersSound'
  BY <1>1, <1>2 DEF HandlersSound
<1> HIDE DEF Sound
<1>3. ASSUME NEW c \in Client, NEW n \in Node, Attempt(c, n)
      PROVE  HandlersSound'
  <2>1. PICK a \in Call :
          handlers' = handlers \cup {[call |-> a, node |-> n, stage |-> FirstStage(a.cmd)]}
    BY <1>3, AttemptFacts
  <2>2. Sound([call |-> a, node |-> n, stage |-> FirstStage(a.cmd)])
    BY DEF Sound, FirstStage
  <2> QED
    BY <1>2, <1>3, <2>1, <2>2, AttemptFacts
<1>4. ASSUME NEW c \in Client, (\E cmd \in Cmds : Invoke(c, cmd)) \/ GiveUp(c)
      PROVE  HandlersSound'
  BY <1>2, <1>4 DEF Invoke, GiveUp
<1>5. ASSUME NEW h \in handlers, NEW stage \in {"append", "wait"}, MoveTo(h, stage)
      PROVE  \A g \in handlers' : g \in handlers \/ Sound(g)
  BY <1>0, <1>5, MoveFacts DEF Sound
<1>6. ASSUME NEW h \in handlers, Lookup(h) \/ ServeRead(h) \/ Refuse(h) \/ AppendToLog(h)
      PROVE  HandlersSound'
  <2>1. CASE handlers' \subseteq handlers
    BY <1>2, <1>6, <2>1 DEF Lookup, ServeRead, Refuse, AppendToLog
  <2>2. CASE MoveTo(h, "append") \/ MoveTo(h, "wait")
    BY <1>2, <1>5, <1>6, <2>2 DEF Lookup, ServeRead, Refuse, AppendToLog
  <2> QED
    BY <1>6, <2>1, <2>2 DEF Lookup, ServeRead, Refuse, AppendToLog, Respond
<1>7. ASSUME NEW e \in pending, Commit(e)
      PROVE  HandlersSound'
  <2>1. UNCHANGED <<handlers, applied>>
    BY <1>7 DEF Commit
  <2>2. \A k \in 1..Len(clog) : clog'[k] = clog[k]
    BY <1>7, CommitFacts
  <2>3. \A h \in handlers : \A k \in 1..applied[h.node] : clog'[k] = clog[k]
    BY <1>0, <2>2
  <2> QED
    BY <1>1, <2>1, <2>3 DEF HandlersSound, Sound
<1>8. ASSUME NEW e \in pending, LoseEntry(e)
      PROVE  HandlersSound'
  BY <1>2, <1>8 DEF LoseEntry
<1>9. ASSUME NEW n \in Node, ApplyNext(n)
      PROVE  HandlersSound'
  <2> DEFINE e == clog[applied[n] + 1]
  <2>1. /\ applied' = [applied EXCEPT ![n] = @ + 1] /\ UNCHANGED clog
        /\ \/ UNCHANGED handlers
           \/ \E h \in handlers :
                 /\ h.node = n /\ h.call = e
                 /\ \/ e.cmd = Noop /\ MoveTo(h, "read")
                    \/ Respond(h, ApplyResult(sm[n], e), applied[n] + 1)
    BY <1>9, ApplyNextFacts
  <2>2. applied'[n] = applied[n] + 1 /\ \A m \in Node : applied'[m] \in Nat /\ applied[m] <= applied'[m]
    BY <1>0, <2>1 DEF TypeOK
  <2>3. ASSUME NEW g \in handlers
        PROVE  /\ g.stage = "lookup" => g.call.cmd # Noop
               /\ g.stage = "read" =>
                    g.call.cmd = Noop /\ \E k \in 1..applied'[g.node] : clog'[k] = g.call
    <3>1. g.node \in Node
      BY <1>0
    <3>2. \A k \in 1..applied[g.node] : k \in 1..applied'[g.node]
      BY <1>0, <2>2, <3>1
    <3> QED
      BY <1>1, <2>1, <3>2 DEF Sound
  <2>4. ASSUME NEW g \in handlers', g \notin handlers
        PROVE  /\ g.stage = "lookup" => g.call.cmd # Noop
               /\ g.stage = "read" =>
                    g.call.cmd = Noop /\ \E k \in 1..applied'[g.node] : clog'[k] = g.call
    <3>1. PICK h \in handlers : h.node = n /\ h.call = e /\ e.cmd = Noop /\ MoveTo(h, "read")
      BY <2>1, <2>4 DEF Respond
    <3>2. g.call = e /\ g.node = n /\ g.stage = "read"
      BY <1>0, <2>4, <3>1, MoveFacts
    <3>3. applied[n] + 1 \in 1..applied'[n] /\ clog'[applied[n] + 1] = e
      BY <1>0, <2>1, <2>2
    <3> QED
      BY <3>1, <3>2, <3>3
  <2> QED
    BY <2>3, <2>4 DEF HandlersSound
<1>10. ASSUME NEW n \in Node, Restart(n)
       PROVE  HandlersSound'
  <2>1. /\ applied' = [applied EXCEPT ![n] = 0] /\ UNCHANGED clog
        /\ handlers' = {h \in handlers : h.node # n}
    BY <1>10 DEF Restart
  <2>2. \A m \in Node : m # n => applied'[m] = applied[m]
    BY <2>1 DEF TypeInv, TypeOK
  <2> QED
    BY <1>0, <1>1, <2>1, <2>2 DEF HandlersSound, Sound
<1>11. CASE UNCHANGED vars
  BY <1>2, <1>11 DEF vars
<1> QED
  BY <1>3, <1>4, <1>6, <1>7, <1>8, <1>9, <1>10, <1>11 DEF Next, ClientStep

-----------------------------------------------------------------------------
(* Effects                                                                 *)

\* An effect is the one of an entry
EffectOf(e, k) ==
    /\ e.index = k /\ e.client = clog[k].client /\ e.seq = clog[k].seq
    /\ e.cmd = clog[k].cmd

\* Every session comes from an effect, every effect from an entry, and every
\* entry of a write that is not a retry has its effect
EffectsSound ==
    /\ \A k \in 1..Len(states) : \A x \in Session : Holds(states[k].sessions, x) =>
         \E e \in effects : /\ e.client = x.client /\ e.seq = x.seq
                            /\ e.result = x.result /\ e.index < k
    /\ \A e \in effects : e.index \in 1..Len(clog) /\ EffectOf(e, e.index)
    /\ \A k \in 1..Len(clog) : clog[k].seq > 0 /\ ~Duplicate(states[k], clog[k]) =>
         \E e \in effects : EffectOf(e, k) /\ e.result = Outcome(states[k], clog[k].cmd)

\* Every step keeps the effects and the sessions in agreement
LEMMA EffectsStep ==
    ASSUME TypeInv, EffectsSound, [Next]_vars
    PROVE  EffectsSound'
<1>1. CASE UNCHANGED <<clog, states, effects>>
  BY <1>1 DEF EffectsSound, EffectOf
<1>2. ASSUME NEW e \in pending, Commit(e)
      PROVE  EffectsSound'
  <2> DEFINE n == Len(clog)
             before == states[n + 1]
             out == Outcome(before, e.cmd)
             new == [client |-> e.client, seq |-> e.seq, cmd |-> e.cmd,
                     index |-> n + 1, result |-> out]
             effective == e.seq # 0 /\ ~Duplicate(before, e)
  <2>1. /\ n \in Nat /\ e \in Call /\ before \in State /\ Len(states) = n + 1
        /\ Len(clog') = n + 1 /\ clog'[n + 1] = e
        /\ \A k \in 1..n : clog'[k] = clog[k]
        /\ Len(states') = n + 2 /\ states'[n + 2] = Apply(before, e)
        /\ \A k \in 1..(n + 1) : states'[k] = states[k]
        /\ effects \subseteq effects'
        /\ ~effective => effects' = effects
        /\ effective => effects' = effects \cup {new}
    BY <1>2, CommitFacts DEF TypeInv
  <2>2. e.seq \in Nat /\ e.client \in Client /\ e.cmd \in Command
    BY <2>1, CallFields
  <2>3. \A x : Holds(Apply(before, e).sessions, x) /\ ~Holds(before.sessions, x) =>
          /\ effective
          /\ x.client = e.client /\ x.seq = e.seq /\ x.result = out
    <3> HIDE DEF before
    <3> QED
      BY <2>1, <2>2, NewSession
  <2>4. /\ new.client = e.client /\ new.seq = e.seq /\ new.cmd = e.cmd /\ new.result = out
        /\ new.index = n + 1
    OBVIOUS
  <2> HIDE DEF n, before, out, new, effective
  <2>5. ASSUME NEW k \in 1..Len(states'), NEW x \in Session, Holds(states'[k].sessions, x)
        PROVE  \E f \in effects' : /\ f.client = x.client /\ f.seq = x.seq
                                   /\ f.result = x.result /\ f.index < k
    <3>1. CASE k \in 1..(n + 1)
      <4>1. Holds(states[k].sessions, x)
        BY <2>1, <2>5, <3>1
      <4> QED
        BY <2>1, <3>1, <4>1 DEF EffectsSound
    <3>2. CASE k = n + 2 /\ Holds(before.sessions, x)
      <4>1. n + 1 \in 1..Len(states)
        BY <2>1
      <4>2. PICK f \in effects : /\ f.client = x.client /\ f.seq = x.seq
                                 /\ f.result = x.result /\ f.index < n + 1
        BY <3>2, <4>1 DEF EffectsSound, before
      <4>3. f.index \in Nat
        BY <4>2 DEF TypeInv, TypeOK, EffectRecord
      <4> QED
        BY <2>1, <3>2, <4>2, <4>3
    <3>3. CASE k = n + 2 /\ ~Holds(before.sessions, x)
      <4>1. effective /\ x.client = e.client /\ x.seq = e.seq /\ x.result = out
        BY <2>1, <2>3, <2>5, <3>3
      <4>2. new \in effects' /\ new.index < k
        BY <2>1, <2>4, <3>3, <4>1
      <4> QED
        BY <2>4, <4>1, <4>2
    <3> QED
      BY <2>1, <3>1, <3>2, <3>3
  <2>6. ASSUME NEW f \in effects'
        PROVE  f.index \in 1..Len(clog') /\ EffectOf(f, f.index)'
    <3>1. CASE f \in effects
      <4>1. f.index \in 1..n /\ EffectOf(f, f.index)
        BY <3>1 DEF EffectsSound, n
      <4> QED
        BY <2>1, <4>1 DEF EffectOf
    <3>2. CASE f = new
      BY <2>1, <2>4, <3>2 DEF EffectOf
    <3> QED
      BY <2>1, <2>6, <3>1, <3>2
  <2>7. ASSUME NEW k \in 1..Len(clog'), clog'[k].seq > 0, ~Duplicate(states'[k], clog'[k])
        PROVE  \E f \in effects' : /\ EffectOf(f, k)'
                                   /\ f.result = Outcome(states'[k], clog'[k].cmd)
    <3>1. CASE k \in 1..n
      <4>1. clog'[k] = clog[k] /\ states'[k] = states[k]
        BY <2>1, <3>1
      <4>2. PICK f \in effects : EffectOf(f, k) /\ f.result = Outcome(states[k], clog[k].cmd)
        BY <2>7, <3>1, <4>1 DEF EffectsSound, n
      <4> QED
        BY <2>1, <4>1, <4>2 DEF EffectOf
    <3>2. CASE k = n + 1
      <4>1. clog'[k] = e /\ states'[k] = before
        BY <2>1, <3>2 DEF before
      <4>2. effective
        BY <2>2, <2>7, <4>1 DEF effective
      <4>3. PICK f \in effects' : f = new
        BY <2>1, <4>2
      <4>4. EffectOf(f, k)'
        BY <2>4, <3>2, <4>1, <4>3 DEF EffectOf
      <4> QED
        BY <2>4, <4>1, <4>3, <4>4 DEF out
    <3> QED
      BY <2>1, <3>1, <3>2
  <2> QED
    BY <2>5, <2>6, <2>7 DEF EffectsSound
<1> QED
  BY <1>1, <1>2, OnlyCommitAppends

-----------------------------------------------------------------------------
(* Answers                                                                 *)

StoreInv ==
    /\ TypeInv /\ LogSound /\ CallsSound /\ StartsSound /\ HandlersSound /\ EffectsSound

\* The effect that an answer to a call reports
Reported(a, result, seen) ==
    \E e \in effects : /\ e.client = a.client /\ e.seq = a.seq /\ e.cmd = a.cmd
                       /\ e.result = result /\ e.index <= seen
                       /\ e.index > client[a.client].start

\* The client of a call that is waited for is at this very request.
LEMMA WaitsForLatest ==
    ASSUME StoreInv, NEW a \in Call, Made(a), Waits(a), a.seq > 0, NEW k \in 1..Len(clog),
           clog[k].client = a.client, clog[k].seq >= a.seq
    PROVE  clog[k].seq = a.seq /\ clog[k].cmd = a.cmd /\ k > client[a.client].start
<1>1. clog[k] \in Call /\ Made(clog[k])
  BY ElementOfSeq DEF StoreInv, TypeInv, TypeOK, Entry, Made
<1>2. a.seq \in Nat /\ clog[k].seq \in Nat /\ a.client \in Client
  BY <1>1, CallFields
<1>3. OfClient(a) /\ OfClient(clog[k]) /\ SameRequest(clog[k], a)
  BY <1>1 DEF StoreInv, CallsSound
<1>4. client[a.client].req = a.req /\ client[a.client].seq \in Nat
  BY <1>2, ClientFields DEF Waits, StoreInv, TypeInv
<1>5. client[a.client].seq = a.seq
  BY <1>3, <1>4 DEF OfClient
<1>6. clog[k].seq = a.seq
  BY <1>2, <1>3, <1>5 DEF OfClient
<1>7. clog[k].cmd = a.cmd /\ clog[k].req = a.req
  BY <1>2, <1>3, <1>6 DEF SameRequest
<1> QED
  BY <1>4, <1>6, <1>7 DEF StoreInv, StartsSound

\* A remembered result is reported (lookup_session, and apply for a retry).
LEMMA SessionReported ==
    ASSUME StoreInv, NEW a \in Call, Made(a), Waits(a), a.seq > 0, NEW n \in Node,
           NEW r \in SessionResult(sm[n], a.client, a.seq)
    PROVE  Reported(a, r, applied[n])
<1>1. sm[n] \in State /\ applied[n] \in 0..Len(clog) /\ Len(states) = Len(clog) + 1
      /\ Len(clog) \in Nat
  BY LenProperties DEF StoreInv, TypeInv, TypeOK
<1>2. PICK x \in Session : /\ Holds(sm[n].sessions, x) /\ x.client = a.client /\ a.seq <= x.seq
                           /\ r = IF a.seq = x.seq THEN x.result ELSE StaleAnswer
  BY <1>1, SessionResultHeld
<1>3. sm[n] = states[applied[n] + 1] /\ applied[n] + 1 \in 1..Len(states)
  BY <1>1 DEF StoreInv, LogSound, ReplicasAgree
<1>4. PICK e \in effects : /\ e.client = x.client /\ e.seq = x.seq
                           /\ e.result = x.result /\ e.index < applied[n] + 1
  BY <1>2, <1>3 DEF StoreInv, EffectsSound
<1>5. e.index \in 1..Len(clog) /\ EffectOf(e, e.index)
  BY <1>4 DEF StoreInv, EffectsSound
<1>6. x.seq \in Nat /\ a.seq \in Nat
  BY CallFields DEF Session
<1>7. /\ clog[e.index].seq = a.seq /\ clog[e.index].cmd = a.cmd
      /\ e.index > client[a.client].start
  BY <1>2, <1>4, <1>5, <1>6, WaitsForLatest, ZenonT(60) DEF EffectOf
<1>8. e.seq = a.seq /\ e.cmd = a.cmd /\ e.result = r
  BY <1>2, <1>4, <1>5, <1>7 DEF EffectOf
<1>9. e.index <= applied[n]
  BY <1>1, <1>4, <1>5
<1> QED
  BY <1>2, <1>4, <1>7, <1>8, <1>9 DEF Reported

\* The result of applying the call's entry is reported.
LEMMA AppliedReported ==
    ASSUME StoreInv, NEW n \in Node, applied[n] < Len(clog),
           NEW a \in Call, Made(a), Waits(a), a.seq > 0, a = clog[applied[n] + 1]
    PROVE  Reported(a, ApplyResult(sm[n], a), applied[n] + 1)
<1> DEFINE k == applied[n] + 1
<1>1. k \in 1..Len(clog) /\ applied[n] \in Nat /\ sm[n] \in State
  BY NextEntry DEF StoreInv, TypeInv, TypeOK
<1>2. CASE Duplicate(sm[n], a)
  <2>1. ApplyResult(sm[n], a) \in SessionResult(sm[n], a.client, a.seq)
    BY <1>1, <1>2, ApplyResultType
  <2>2. Reported(a, ApplyResult(sm[n], a), applied[n])
    BY <2>1, SessionReported
  <2>3. \A e \in effects : e.index \in Nat
    BY DEF StoreInv, TypeInv, TypeOK, EffectRecord
  <2> QED
    BY <1>1, <2>2, <2>3 DEF Reported
<1>3. CASE ~Duplicate(sm[n], a)
  <2>1. sm[n] = states[k]
    BY DEF StoreInv, LogSound, ReplicasAgree
  <2>2. PICK e \in effects : EffectOf(e, k) /\ e.result = Outcome(states[k], clog[k].cmd)
    BY <1>1, <1>3, <2>1 DEF StoreInv, EffectsSound
  <2>3. e.result = ApplyResult(sm[n], a)
    BY <1>1, <1>3, <2>1, <2>2, ApplyResultType
  <2>4. a.seq \in Nat
    BY CallFields
  <2>5. k > client[a.client].start
    BY <1>1, <2>4, WaitsForLatest
  <2> QED
    BY <1>1, <2>2, <2>3, <2>5 DEF Reported, EffectOf
<1> QED
  BY <1>2, <1>3

\* An answer given now is right.
AnswerRight(d) ==
    IF d.seq = 0 THEN d.seen >= d.start
    ELSE \E e \in effects :
           /\ e.client = d.client /\ e.seq = d.seq /\ e.cmd = d.cmd
           /\ e.result = d.result /\ e.index <= d.seen /\ e.index > d.start

AnswersRight == \A d \in done : AnswerRight(d)

\* A response carries a right answer.
LEMMA RespondRight ==
    ASSUME StoreInv, NEW h \in handlers, NEW r \in Result, NEW seen \in Nat,
           Respond(h, r, seen), AnswersRight,
           Waits(h.call) => IF h.call.seq = 0 THEN seen >= client[h.call.client].start
                                              ELSE Reported(h.call, r, seen)
    PROVE  \A d \in done' : AnswerRight(d)
<1>1. \A d \in done' :
         \/ d \in done
         \/ /\ Waits(h.call) /\ d.client = h.call.client /\ d.seq = h.call.seq
            /\ d.cmd = h.call.cmd /\ d.start = client[h.call.client].start
            /\ d.result = r /\ d.seen = seen
  BY RespondFacts DEF StoreInv, TypeInv
<1> QED
  BY <1>1 DEF AnswersRight, AnswerRight, Reported

\* Every step answers only what took effect, or a read of the log
LEMMA AnswersStep ==
    ASSUME StoreInv, AnswersRight, [Next]_vars
    PROVE  AnswersRight'
<1>0. /\ \A h \in handlers : h.node \in Node /\ h.call \in Call /\ Made(h.call)
      /\ \A h \in handlers : h.call.seq > 0 <=> h.call.cmd # Noop
      /\ \A h \in handlers : h.call.seq \in Nat
      /\ \A n \in Node : sm[n] \in State /\ applied[n] \in Nat
  <2>1. \A h \in handlers : h.node \in Node /\ h.call \in Call
    BY DEF StoreInv, TypeInv, TypeOK, Handler
  <2>2. \A h \in handlers : Made(h.call)
    BY DEF Made
  <2>3. \A h \in handlers : OfClient(h.call)
    BY <2>1, <2>2 DEF StoreInv, CallsSound
  <2>4. \A n \in Node : sm[n] \in State /\ applied[n] \in Nat
    BY LenProperties DEF StoreInv, TypeInv, TypeOK
  <2> QED
    BY <2>1, <2>2, <2>3, <2>4, CallFields DEF OfClient
<1>1. ASSUME effects \subseteq effects', \A d \in done' : AnswerRight(d)
      PROVE  AnswersRight'
  BY <1>1 DEF AnswersRight, AnswerRight
<1>2. CASE UNCHANGED done
  <2>1. effects \subseteq effects'
    BY OnlyCommitAppends, CommitFacts DEF StoreInv
  <2> QED
    BY <1>1, <1>2, <2>1 DEF AnswersRight
<1>3. ASSUME NEW h \in handlers, Lookup(h)
      PROVE  AnswersRight'
  <2>1. CASE UNCHANGED done
    BY <1>2, <2>1
  <2>2. ASSUME NEW r \in SessionResult(sm[h.node], h.call.client, h.call.seq),
               Respond(h, r, applied[h.node])
        PROVE  AnswersRight'
    <3>1. h.call.cmd # Noop
      BY <1>3 DEF Lookup, StoreInv, HandlersSound
    <3>2. Waits(h.call) => Reported(h.call, r, applied[h.node])
      BY <1>0, <3>1, SessionReported
    <3>3. r \in Result
      BY <1>0, SessionResultHeld
    <3>4. \A d \in done' : AnswerRight(d)
      BY <1>0, <2>2, <3>1, <3>2, <3>3, RespondRight
    <3> QED
      BY <1>1, <1>3, <3>4 DEF Lookup
  <2> QED
    BY <1>3, <2>1, <2>2 DEF Lookup
<1>4. ASSUME NEW h \in handlers, ServeRead(h)
      PROVE  AnswersRight'
  <2> DEFINE c == h.call.client
  <2>1. h.stage = "read" /\ Respond(h, Answer(0, FALSE, NoValue), applied[h.node])
    BY <1>4 DEF ServeRead
  <2>2. PICK k \in 1..applied[h.node] : clog[k] = h.call
    BY <2>1 DEF StoreInv, HandlersSound
  <2>3. h.call.seq = 0
    BY <1>0, <2>1 DEF StoreInv, HandlersSound
  <2>4. Answer(0, FALSE, NoValue) \in Result
    BY DEF Answer, Result
  <2>5. c \in Client
    BY <1>0, CallFields
  <2>6. client[c].start \in Nat
    BY <2>5, ClientFields DEF StoreInv, TypeInv
  <2>7. k \in 1..Len(clog)
    <3>1. applied[h.node] \in 0..Len(clog)
      BY <1>0 DEF StoreInv, TypeInv, TypeOK
    <3> QED
      BY <1>0, <2>2, <3>1
  <2>8. Waits(h.call) => applied[h.node] >= client[c].start
    <3>1. Waits(h.call) => k > client[c].start
      BY <2>2, <2>7 DEF Waits, StoreInv, StartsSound
    <3> QED
      BY <1>0, <2>2, <2>6, <3>1
  <2>9. \A d \in done' : AnswerRight(d)
    BY <1>0, <2>1, <2>3, <2>4, <2>8, RespondRight
  <2> QED
    BY <1>1, <1>4, <2>9 DEF ServeRead
<1>5. ASSUME NEW n \in Node, ApplyNext(n)
      PROVE  AnswersRight'
  <2> DEFINE e == clog[applied[n] + 1]
  <2>1. applied[n] < Len(clog) /\ UNCHANGED effects
    BY <1>5 DEF ApplyNext
  <2>2. e \in Call
    BY <2>1, NextEntry DEF StoreInv
  <2>3. CASE UNCHANGED done
    BY <1>2, <2>3
  <2>4. ASSUME NEW h \in handlers, h.call = e, e.cmd # Noop,
               Respond(h, ApplyResult(sm[n], e), applied[n] + 1)
        PROVE  AnswersRight'
    <3>1. ApplyResult(sm[n], e) \in Result
      BY <1>0, <2>2, ApplyResultType
    <3>2. Waits(h.call) => Reported(h.call, ApplyResult(sm[n], e), applied[n] + 1)
      BY <1>0, <2>1, <2>4, AppliedReported
    <3>3. applied[n] + 1 \in Nat /\ h.call.seq > 0
      BY <1>0, <2>4
    <3> HIDE DEF e
    <3>4. \A d \in done' : AnswerRight(d)
      BY <1>0, <2>4, <3>1, <3>2, <3>3, RespondRight
    <3> QED
      BY <1>1, <2>1, <3>4
  <2> QED
    BY <1>5, <2>3, <2>4, ApplyNextFacts DEF StoreInv
<1>6. \/ UNCHANGED done
      \/ \E h \in handlers : Lookup(h) \/ ServeRead(h)
      \/ \E n \in Node : ApplyNext(n)
  BY DEF Next, ClientStep, Invoke, Attempt, GiveUp, AppendToLog, Refuse,
         Commit, LoseEntry, Restart, vars, history
<1> QED
  BY <1>2, <1>3, <1>4, <1>5, <1>6

\* The invariant of the store holds at the start
LEMMA StoreInit == Init => StoreInv /\ AnswersRight
<1> SUFFICES ASSUME Init PROVE StoreInv /\ AnswersRight
  OBVIOUS
<1>1. /\ clog = <<>> /\ Len(clog) = 0 /\ pending = {} /\ handlers = {} /\ effects = {}
      /\ done = {} /\ states = <<Empty>> /\ Len(states) = 1 /\ states[1] = Empty
      /\ \A n \in Node : sm[n] = Empty /\ applied[n] = 0
      /\ \A c \in Client : client[c].start = 0
  BY DEF Init, Idle
<1>2. \A a \in Call : ~Made(a)
  BY <1>1 DEF Made
<1>3. \A x : ~Holds(Empty.sessions, x)
  BY DEF Empty, Holds
<1>4. LogSound
  BY <1>1 DEF LogSound, StatesFollowLog, ReplicasAgree
<1>5. CallsSound
  BY <1>2 DEF CallsSound
<1>6. StartsSound
  BY <1>1 DEF StartsSound
<1>7. HandlersSound
  BY <1>1 DEF HandlersSound
<1>8. EffectsSound
  <2>1. \A k \in 1..Len(states) : states[k] = Empty
    BY <1>1
  <2> QED
    BY <1>1, <1>3, <2>1 DEF EffectsSound
<1>9. AnswersRight
  BY <1>1 DEF AnswersRight
<1> QED
  BY <1>4, <1>5, <1>6, <1>7, <1>8, <1>9, TypeInit DEF StoreInv

\* What answers rest on holds in every reachable state.
THEOREM StoreInvariant == Spec => [](StoreInv /\ AnswersRight)
<1>1. StoreInv /\ AnswersRight /\ [Next]_vars => StoreInv' /\ AnswersRight'
  <2> SUFFICES ASSUME StoreInv, AnswersRight, [Next]_vars
               PROVE  StoreInv' /\ AnswersRight'
    OBVIOUS
  <2>1. /\ TypeInv /\ LogSound /\ CallsSound /\ StartsSound /\ HandlersSound /\ EffectsSound
    BY DEF StoreInv
  <2>2. TypeInv'
    BY <2>1, TypeStep
  <2>3. LogSound' /\ CallsSound' /\ EffectsSound'
    BY <2>1, LogStep, CallsStep, EffectsStep
  <2>4. StartsSound' /\ HandlersSound'
    BY <2>1, <2>2, StartsStep, HandlersStep
  <2> QED
    BY <2>2, <2>3, <2>4, AnswersStep DEF StoreInv
<1> QED
  BY <1>1, StoreInit, PTL DEF Spec

\* For every store, whatever the session table forgets: a client that is given
\* an answer to a write is given the result of an effect of this very write,
\* applied by the answering node, and never the answer "stale" (_commit,
\* lookup_session, apply).
THEOREM AnswersCorrect == Spec => []AnswersAreOutcomes
<1>1. StoreInv /\ AnswersRight => AnswersAreOutcomes
  <2> SUFFICES ASSUME AnswersRight
               PROVE  AnswersAreOutcomes
    OBVIOUS
  <2> QED
    BY DEF AnswersRight, AnswerRight, AnswersAreOutcomes
<1> QED
  BY <1>1, StoreInvariant, PTL

\* For every store: a write takes its effect at an entry committed after the
\* request was made, and a linearizable read sees everything that was committed
\* by then (Get's barrier).
THEOREM StoreLinearizable == Spec => []Linearizable
<1>1. StoreInv /\ AnswersRight => Linearizable
  BY DEF AnswersRight, AnswerRight, Linearizable
<1> QED
  BY <1>1, StoreInvariant, PTL

-----------------------------------------------------------------------------
(* Exactly once                                                            *)

\* There is room for a session of every client, so none is ever evicted
NoEviction == IsFiniteSet(Client) /\ Cardinality(Client) <= MaxSessions

\* The latest state remembers every effect, by this or a later request of the
\* same client
EffectsRemembered ==
    LET last == states[Len(clog) + 1].sessions IN
    /\ OnePerClient(last)
    /\ \A e \in effects :
         \E x \in Session : Holds(last, x) /\ x.client = e.client /\ e.seq <= x.seq

\* Without evictions a step gives no write a second effect
LEMMA ExactlyOnceStep ==
    ASSUME NoEviction, TypeInv, EffectsRemembered, ExactlyOnce, [Next]_vars
    PROVE  EffectsRemembered' /\ ExactlyOnce'
<1>1. CASE UNCHANGED <<clog, states, effects>>
  BY <1>1 DEF EffectsRemembered, ExactlyOnce
<1>2. ASSUME NEW e \in pending, Commit(e)
      PROVE  EffectsRemembered' /\ ExactlyOnce'
  <2> DEFINE n == Len(clog)
             before == states[n + 1]
             after == Apply(before, e)
             out == Outcome(before, e.cmd)
             new == [client |-> e.client, seq |-> e.seq, cmd |-> e.cmd,
                     index |-> n + 1, result |-> out]
             session == [client |-> e.client, seq |-> e.seq, result |-> out]
             effective == e.seq # 0 /\ ~Duplicate(before, e)
  <2>1. /\ n \in Nat /\ e \in Call /\ before \in State
        /\ Len(clog') = n + 1 /\ states'[n + 2] = after
        /\ ~effective => effects' = effects
        /\ effective => effects' = effects \cup {new}
    BY <1>2, CommitFacts
  <2>2. e.seq \in Nat /\ e.client \in Client /\ e.cmd \in Command
    BY <2>1, CallFields
  <2>3. OnePerClient(before.sessions)
    BY DEF EffectsRemembered
  <2>4. new.client = e.client /\ new.seq = e.seq
        /\ session.client = e.client /\ session.seq = e.seq
    OBVIOUS
  <2>5. out \in Result
    BY <2>1, <2>2, EffectType
  <2>6. effective => session \in Session
    BY <2>2, <2>5 DEF Session
  <2>7. states'[Len(clog') + 1] = after
    <3>1. Len(clog') + 1 = n + 2
      BY <2>1
    <3> QED
      BY <2>1, <3>1
  <2>8. /\ OnePerClient(after.sessions)
        /\ ~effective => after.sessions = before.sessions
        /\ effective =>
             /\ Holds(after.sessions, session)
             /\ \A x : Holds(before.sessions, x) /\ x.client # e.client =>
                  Holds(after.sessions, x)
    <3> HIDE DEF before, n
    <3>1. /\ OnePerClient(after.sessions)
          /\ ~(~Duplicate(before, e) /\ e.seq > 0) => after.sessions = before.sessions
          /\ ~Duplicate(before, e) /\ e.seq > 0 =>
               /\ Holds(after.sessions, session)
               /\ \A x : Holds(before.sessions, x) /\ x.client # e.client =>
                    Holds(after.sessions, x)
      BY <2>1, <2>2, <2>3, ApplySessions DEF NoEviction
    <3> QED
      BY <2>2, <3>1
  <2>9. ASSUME effective, NEW f \in effects, f.client = e.client
        PROVE  f.seq < e.seq
    <3>1. PICK x \in Session : Holds(before.sessions, x) /\ x.client = f.client /\ f.seq <= x.seq
      BY <2>9 DEF EffectsRemembered
    <3>2. ~(e.seq <= x.seq)
      BY <2>1, <2>2, <2>9, <3>1, DuplicateHeld
    <3>3. x.seq \in Nat /\ f.seq \in Nat
      BY DEF Session, TypeInv, TypeOK, EffectRecord
    <3> QED
      BY <2>2, <3>1, <3>2, <3>3
  <2> HIDE DEF n, before, after, out, new, session, effective
  <2>10. ExactlyOnce'
    <3>1. ASSUME NEW f \in effects', NEW g \in effects', f.client = g.client, f.seq = g.seq
          PROVE  f = g
      <4>1. \A d \in effects : d.seq \in Nat
        BY DEF TypeInv, TypeOK, EffectRecord
      <4> QED
        BY <2>1, <2>2, <2>4, <2>9, <3>1, <4>1 DEF ExactlyOnce
    <3> QED
      BY <3>1 DEF ExactlyOnce
  <2>11. ASSUME NEW f \in effects'
         PROVE  \E x \in Session : /\ Holds(after.sessions, x) /\ x.client = f.client
                                   /\ f.seq <= x.seq
    <3>1. CASE ~effective
      BY <2>1, <2>8, <3>1 DEF EffectsRemembered, before, n
    <3>2. CASE effective /\ f.client = e.client
      <4>1. f.seq <= e.seq
        <5>1. f \in effects => f.seq \in Nat
          BY DEF TypeInv, TypeOK, EffectRecord
        <5> QED
          BY <2>1, <2>2, <2>4, <2>9, <3>2, <5>1
      <4> QED
        BY <2>4, <2>6, <2>8, <3>2, <4>1
    <3>3. CASE effective /\ f.client # e.client
      <4>1. f \in effects
        BY <2>1, <2>4, <3>3
      <4>2. PICK x \in Session : Holds(before.sessions, x) /\ x.client = f.client /\ f.seq <= x.seq
        BY <4>1 DEF EffectsRemembered, before, n
      <4> QED
        BY <2>8, <3>3, <4>2
    <3> QED
      BY <3>1, <3>2, <3>3
  <2>12. EffectsRemembered'
    BY <2>7, <2>8, <2>11 DEF EffectsRemembered
  <2> QED
    BY <2>10, <2>12
<1> QED
  BY <1>1, <1>2, OnlyCommitAppends

\* For every store with room for a session of every client: a write takes
\* effect at most once, however often and wherever it is retried (the check of
\* apply; lookup_session alone would not do).
THEOREM AtMostOneEffect == NoEviction => (Spec => []ExactlyOnce)
<1> SUFFICES ASSUME NoEviction PROVE Spec => []ExactlyOnce
  OBVIOUS
<1>1. Init => EffectsRemembered /\ ExactlyOnce
  <2> SUFFICES ASSUME Init PROVE EffectsRemembered /\ ExactlyOnce
    OBVIOUS
  <2>1. effects = {} /\ states[Len(clog) + 1] = Empty
    BY DEF Init
  <2> QED
    BY <2>1 DEF EffectsRemembered, ExactlyOnce, OnePerClient, Empty
<1>2. TypeInv /\ EffectsRemembered /\ ExactlyOnce /\ [Next]_vars
        => EffectsRemembered' /\ ExactlyOnce'
  BY ExactlyOnceStep
<1> QED
  BY <1>1, <1>2, TypeInvariant, PTL DEF Spec

-----------------------------------------------------------------------------
(* One state machine under every log: KVMachine                            *)

\* What one entry does to the machine and to the history
LEMMA EntryFacts ==
    ASSUME MachineTypeOK, NEW who \in Client, NEW seq \in 0..MaxSeq, NEW cmd \in Commands,
           ApplyEntry(who, seq, cmd)
    PROVE  /\ cmd \in Command
           /\ machine' \in State
           /\ length' = length + 1
           /\ \/ machine' = machine /\ recorded' = recorded
              \/ /\ machine'.store = Effect(machine, cmd).store
                 /\ machine'.tombstones = Effect(machine, cmd).tombstones
                 /\ recorded' = recorded \cup {[index |-> length + 1, cmd |-> cmd,
                                              result |-> Outcome(machine, cmd)]}
<1> DEFINE entry == [client |-> who, seq |-> seq, cmd |-> cmd]
<1>1. cmd \in Command /\ seq \in Nat /\ machine \in State
  BY CommandsAssumption, EntriesAssumption DEF MachineTypeOK
<1>2. /\ length' = length + 1
      /\ machine' = Apply(machine, entry)
      /\ recorded' = IF Duplicate(machine, entry) THEN recorded
                    ELSE recorded \cup {[index |-> length + 1, cmd |-> cmd,
                                        result |-> ApplyResult(machine, entry)]}
  BY DEF ApplyEntry
<1> HIDE DEF entry
<1>3. /\ Apply(machine, entry) \in State
      /\ Duplicate(machine, entry) => Apply(machine, entry) = machine
      /\ ~Duplicate(machine, entry) =>
                /\ Apply(machine, entry).store = Effect(machine, cmd).store
                /\ Apply(machine, entry).tombstones = Effect(machine, cmd).tombstones
                /\ ApplyResult(machine, entry) = Outcome(machine, cmd)
  BY <1>1, ApplyType DEF entry
<1> QED
  BY <1>1, <1>2, <1>3

\* Every entry keeps the types
LEMMA MachineTypeStep ==
    MachineTypeOK /\ [MachineNext]_machineVars => MachineTypeOK'
<1> SUFFICES ASSUME MachineTypeOK, [MachineNext]_machineVars PROVE MachineTypeOK'
  OBVIOUS
<1>1. CASE UNCHANGED machineVars
  BY <1>1 DEF MachineTypeOK, machineVars
<1>2. ASSUME NEW who \in Client, NEW seq \in 0..MaxSeq, NEW cmd \in Commands,
             ApplyEntry(who, seq, cmd)
      PROVE  MachineTypeOK'
  <2>1. machine' \in State /\ length' = length + 1 /\ length \in Nat
    BY <1>2, EntryFacts DEF MachineTypeOK
  <2>2. Outcome(machine, cmd) \in Result
    BY <1>2, EntryFacts, EffectType DEF MachineTypeOK
  <2>3. recorded' \subseteq [index : Nat, cmd : Commands, result : Result]
    <3>1. [index |-> length + 1, cmd |-> cmd, result |-> Outcome(machine, cmd)]
            \in [index : Nat, cmd : Commands, result : Result]
      BY <2>1, <2>2
    <3> QED
      BY <1>2, <3>1, EntryFacts DEF MachineTypeOK
  <2> QED
    BY <2>1, <2>3 DEF MachineTypeOK
<1> QED
  BY <1>1, <1>2 DEF MachineNext

\* The machine keeps its types: a stored key has a value and a positive version,
\* and the remembered results are results (MachineTypeOK).
THEOREM MachineTypeCorrect == MachineSpec => []MachineTypeOK
<1>1. MachineInit => MachineTypeOK
  BY EmptyType DEF MachineInit, MachineTypeOK
<1> QED
  BY <1>1, MachineTypeStep, PTL DEF MachineSpec

-----------------------------------------------------------------------------
(* Versions                                                                *)

\* The history record of a command applied to a state
RecordOf(s, i, cmd) == [index |-> i, cmd |-> cmd, result |-> Outcome(s, cmd)]

\* Everything but the given key is as it was
OthersKept(s, t, key) ==
    \A other \in Key \ {key} :
        Latest(t, other) = Latest(s, other) /\ (Found(t, other) <=> Found(s, other))

\* A command writes its key with the next version, deletes it, or does nothing;
\* a swap at a version finds this version.
LEMMA ThreeCases ==
    ASSUME NEW s \in State, NEW cmd \in Command, NEW i \in Nat
    PROVE  \/ /\ Wrote(RecordOf(s, i, cmd)) /\ cmd.key \in Key /\ cmd # Noop
              /\ Outcome(s, cmd).version = Latest(s, cmd.key) + 1
              /\ Latest(Effect(s, cmd), cmd.key) = Latest(s, cmd.key) + 1
              /\ Found(Effect(s, cmd), cmd.key)
              /\ OthersKept(s, Effect(s, cmd), cmd.key)
              /\ cmd.op = "cas" /\ ~cmd.expectAbsent /\ cmd.expectedVersion > 0 =>
                   Found(s, cmd.key) /\ Latest(s, cmd.key) = cmd.expectedVersion
           \/ /\ ~Wrote(RecordOf(s, i, cmd)) /\ Deleted(RecordOf(s, i, cmd))
              /\ cmd.key \in Key /\ cmd # Noop
              /\ Latest(Effect(s, cmd), cmd.key) = Latest(s, cmd.key)
              /\ ~Found(Effect(s, cmd), cmd.key)
              /\ OthersKept(s, Effect(s, cmd), cmd.key)
           \/ /\ ~Wrote(RecordOf(s, i, cmd)) /\ ~Deleted(RecordOf(s, i, cmd))
              /\ Effect(s, cmd) = s
<1> DEFINE r == RecordOf(s, i, cmd)
<1>1. r.cmd = cmd /\ r.result = Outcome(s, cmd)
  BY DEF RecordOf
<1>3. CASE cmd = Noop
  <2>1. cmd.op = "noop"
    BY <1>3 DEF Noop
  <2>2. Effect(s, cmd) = s
    BY <2>1 DEF Effect
  <2> QED
    BY <1>1, <2>1, <2>2 DEF Wrote, Deleted
<1>4. CASE cmd.op \in {"put", "delete"} /\ cmd.key \in Key /\ cmd.value \in Value
  <2>0. cmd # Noop
    BY <1>4 DEF Noop
  <2>1. CASE cmd.op = "put"
    <3>1. Effect(s, cmd) = Write(s, cmd.key, cmd.value)
      BY <2>1 DEF Effect
    <3>2. Outcome(s, cmd).version = Latest(s, cmd.key) + 1
      <4>1. Outcome(s, cmd) = Answer(NextVersion(s, cmd.key), FALSE, NoValue)
        BY <2>1 DEF Outcome
      <4> QED
        BY <1>4, <4>1, NextVersionType DEF Answer
    <3>3. Wrote(r)
      BY <1>1, <2>1 DEF Wrote
    <3>4. /\ Latest(Effect(s, cmd), cmd.key) = Latest(s, cmd.key) + 1
          /\ Found(Effect(s, cmd), cmd.key)
          /\ OthersKept(s, Effect(s, cmd), cmd.key)
      BY <1>4, <3>1, WriteEffect DEF OthersKept
    <3> QED
      BY <1>4, <2>0, <2>1, <3>2, <3>3, <3>4
  <2>2. CASE cmd.op = "delete"
    <3>1. Effect(s, cmd) = Delete(s, cmd.key)
      BY <2>2 DEF Effect
    <3>2. Outcome(s, cmd).flag = Found(s, cmd.key)
      <4>1. Outcome(s, cmd) = Answer(0, Found(s, cmd.key), NoValue)
        BY <2>2 DEF Outcome
      <4> QED
        BY <4>1 DEF Answer
    <3>3. ~Wrote(r) /\ (Deleted(r) <=> Found(s, cmd.key))
      BY <1>1, <2>2, <3>2 DEF Wrote, Deleted
    <3>4. ~Found(s, cmd.key) => Effect(s, cmd) = s
      BY <3>1 DEF Delete
    <3>5. /\ Latest(Effect(s, cmd), cmd.key) = Latest(s, cmd.key)
          /\ ~Found(Effect(s, cmd), cmd.key)
          /\ OthersKept(s, Effect(s, cmd), cmd.key)
      BY <1>4, <3>1, DeleteEffect DEF OthersKept
    <3> QED
      BY <1>4, <2>0, <3>3, <3>4, <3>5
  <2> QED
    BY <1>4, <2>1, <2>2
<1>5. CASE /\ cmd.op = "cas" /\ cmd.key \in Key /\ cmd.value \in Value
           /\ cmd.expectAbsent \in BOOLEAN /\ cmd.expectedVersion \in Nat
  <2>0. cmd # Noop
    BY <1>5 DEF Noop
  <2>1. CASE Condition(s, cmd)
    <3>1. Effect(s, cmd) = Write(s, cmd.key, cmd.value)
      BY <1>5, <2>1 DEF Effect
    <3>2. Outcome(s, cmd) = Answer(NextVersion(s, cmd.key), TRUE, cmd.value)
      BY <1>5, <2>1 DEF Outcome
    <3>3. Outcome(s, cmd).version = Latest(s, cmd.key) + 1
      BY <1>5, <3>2, NextVersionType DEF Answer
    <3>4. Wrote(r)
      BY <1>1, <1>5, <3>2 DEF Wrote, Answer
    <3>5. ~cmd.expectAbsent /\ cmd.expectedVersion > 0 =>
            Found(s, cmd.key) /\ Latest(s, cmd.key) = cmd.expectedVersion
      BY <2>1 DEF Condition, Latest
    <3>6. /\ Latest(Effect(s, cmd), cmd.key) = Latest(s, cmd.key) + 1
          /\ Found(Effect(s, cmd), cmd.key)
          /\ OthersKept(s, Effect(s, cmd), cmd.key)
      BY <1>5, <3>1, WriteEffect DEF OthersKept
    <3> QED
      BY <1>5, <2>0, <3>3, <3>4, <3>5, <3>6
  <2>2. CASE ~Condition(s, cmd)
    <3>1. Effect(s, cmd) = s
      BY <1>5, <2>2 DEF Effect
    <3>2. Outcome(s, cmd).flag = FALSE
      <4>1. Outcome(s, cmd) = Answer(s.store[cmd.key].version, FALSE, s.store[cmd.key].value)
        BY <1>5, <2>2 DEF Outcome
      <4> QED
        BY <4>1 DEF Answer
    <3> QED
      BY <1>1, <1>5, <3>1, <3>2 DEF Wrote, Deleted
  <2> QED
    BY <2>1, <2>2
<1> QED
  BY <1>3, <1>4, <1>5, CommandForms

\* No recorded write has a version above the latest one of its key
VersionsBounded ==
    \A e \in recorded :
        /\ e.index <= length
        /\ Wrote(e) => e.cmd.key \in Key /\ e.result.version <= Latest(machine, e.cmd.key)

\* A stored key was last touched by the write that gave it its version
LastWriteKnown ==
    \A key \in Key : Found(machine, key) =>
        \E e \in recorded :
            /\ Wrote(e) /\ e.cmd.key = key
            /\ e.result.version = Latest(machine, key)
            /\ \A g \in recorded : Before(e, g) => ~Wrote(g) /\ ~Deleted(g)

VersionInv == MachineTypeOK /\ VersionsBounded /\ VersionsNeverRepeat /\ LastWriteKnown /\ NoABA

\* Latest and Found look only at the store and the tombstones
LEMMA LatestOf ==
    ASSUME NEW s, NEW t, s.store = t.store, s.tombstones = t.tombstones
    PROVE  \A key : Latest(s, key) = Latest(t, key) /\ (Found(s, key) <=> Found(t, key))
  BY DEF Latest, Found

\* Effects that are kept stay in their order: a new one comes last
LEMMA VersionStep ==
    ASSUME VersionInv, MachineTypeOK', NEW who \in Client, NEW seq \in 0..MaxSeq,
           NEW cmd \in Commands, ApplyEntry(who, seq, cmd)
    PROVE  VersionsBounded' /\ VersionsNeverRepeat' /\ LastWriteKnown' /\ NoABA'
<1> DEFINE r == RecordOf(machine, length + 1, cmd)
           t == Effect(machine, cmd)
<1>1. /\ cmd \in Command /\ machine \in State /\ machine' \in State
      /\ length \in Nat /\ length' = length + 1
      /\ recorded \subseteq [index : Nat, cmd : Commands, result : Result]
  BY EntryFacts DEF VersionInv, MachineTypeOK
<1>2. \A key \in Key : Latest(machine, key) \in Nat /\ Latest(machine', key) \in Nat
  BY <1>1, NextVersionType
<1>3. \A e \in recorded : e.index \in Nat /\ e.index <= length /\ e.result.version \in Nat
  BY <1>1 DEF VersionInv, VersionsBounded, Result
<1>4. CASE machine' = machine /\ recorded' = recorded
  <2>1. VersionsBounded'
    BY <1>1, <1>3, <1>4 DEF VersionInv, VersionsBounded
  <2> QED
    BY <1>4, <2>1 DEF VersionInv, VersionsNeverRepeat, LastWriteKnown, NoABA
<1>5. CASE /\ machine'.store = t.store
           /\ machine'.tombstones = t.tombstones
           /\ recorded' = recorded \cup {r}
  <2>1. \A key : Latest(machine', key) = Latest(t, key) /\ (Found(machine', key) <=> Found(t, key))
    BY <1>5, LatestOf
  <2>2. r.index = length + 1 /\ r.cmd = cmd /\ r.result = Outcome(machine, cmd)
    BY DEF RecordOf
  <2>3. \A e \in recorded : ~Before(r, e)
    BY <1>1, <1>3, <2>2 DEF Before
  <2>4. ~Before(r, r)
    BY <1>1, <2>2 DEF Before
  <2>5. \A e \in recorded : Wrote(e) =>
          e.cmd.key \in Key /\ e.result.version <= Latest(machine, e.cmd.key)
    BY DEF VersionInv, VersionsBounded
  <2>6. \/ /\ Wrote(r) /\ cmd.key \in Key /\ cmd # Noop
           /\ r.result.version = Latest(machine, cmd.key) + 1
           /\ Latest(t, cmd.key) = Latest(machine, cmd.key) + 1
           /\ Found(t, cmd.key)
           /\ OthersKept(machine, t, cmd.key)
           /\ cmd.op = "cas" /\ ~cmd.expectAbsent /\ cmd.expectedVersion > 0 =>
                Found(machine, cmd.key) /\ Latest(machine, cmd.key) = cmd.expectedVersion
        \/ /\ ~Wrote(r) /\ Deleted(r) /\ cmd.key \in Key /\ cmd # Noop
           /\ Latest(t, cmd.key) = Latest(machine, cmd.key)
           /\ ~Found(t, cmd.key)
           /\ OthersKept(machine, t, cmd.key)
        \/ ~Wrote(r) /\ ~Deleted(r) /\ t = machine
    BY <1>1, <2>2, ThreeCases
  <2> HIDE DEF r, t
  <2>7. \A key \in Key : Latest(machine', key) >= Latest(machine, key)
    BY <1>2, <2>1, <2>6 DEF OthersKept
  <2>8. \A e \in recorded' : e \in recorded \/ e = r
    BY <1>5
  <2>9. VersionsBounded'
    <3>1. \A e \in recorded : Wrote(e) => e.result.version <= Latest(machine', e.cmd.key)
      BY <1>2, <1>3, <2>5, <2>7
    <3>2. Wrote(r) => cmd.key \in Key /\ r.result.version <= Latest(machine', cmd.key)
      BY <1>2, <2>1, <2>6
    <3> QED
      BY <1>1, <1>3, <2>2, <2>5, <2>8, <3>1, <3>2 DEF VersionsBounded
  <2>10. VersionsNeverRepeat'
    <3>1. ASSUME NEW e \in recorded, Wrote(e), Wrote(r), Before(e, r)
          PROVE  e.result.version < r.result.version
      <4>1. e.cmd.key = cmd.key /\ e.result.version <= Latest(machine, cmd.key)
        BY <2>2, <2>5, <3>1 DEF Before
      <4> QED
        BY <1>2, <1>3, <2>6, <3>1, <4>1
    <3> QED
      BY <2>3, <2>4, <2>8, <3>1 DEF VersionInv, VersionsNeverRepeat
  <2>11. LastWriteKnown'
    <3> SUFFICES ASSUME NEW key \in Key, Found(machine', key)
                 PROVE  \E e \in recorded' :
                            /\ Wrote(e) /\ e.cmd.key = key
                            /\ e.result.version = Latest(machine', key)
                            /\ \A g \in recorded' : Before(e, g) => ~Wrote(g) /\ ~Deleted(g)
      BY DEF LastWriteKnown
    <3>1. CASE Wrote(r) /\ key = cmd.key
      BY <1>5, <2>1, <2>2, <2>3, <2>4, <2>6, <2>8, <3>1
    <3>2. CASE ~(Wrote(r) /\ key = cmd.key)
      <4>1. Found(machine, key) /\ Latest(machine', key) = Latest(machine, key)
        BY <2>1, <2>6, <3>2 DEF OthersKept
      <4>2. PICK e \in recorded :
                   /\ Wrote(e) /\ e.cmd.key = key
                   /\ e.result.version = Latest(machine, key)
                   /\ \A g \in recorded : Before(e, g) => ~Wrote(g) /\ ~Deleted(g)
        BY <4>1 DEF VersionInv, LastWriteKnown
      <4>3. Before(e, r) => ~Wrote(r) /\ ~Deleted(r)
        <5>1. Before(e, r) => key = cmd.key
          BY <2>2, <4>2 DEF Before
        <5>2. Deleted(r) /\ ~Wrote(r) => key # cmd.key
          BY <2>1, <2>6
        <5> QED
          BY <3>2, <5>1, <5>2
      <4> QED
        BY <1>5, <2>8, <4>1, <4>2, <4>3
    <3> QED
      BY <3>1, <3>2
  <2>12. NoABA'
    <3> SUFFICES ASSUME NEW f \in recorded',
                        Wrote(f) /\ f.cmd.op = "cas" /\ ~f.cmd.expectAbsent,
                        f.cmd.expectedVersion > 0
                 PROVE  \E e \in recorded' :
                            /\ Wrote(e) /\ Before(e, f)
                            /\ e.result.version = f.cmd.expectedVersion
                            /\ \A g \in recorded' :
                                 Before(e, g) /\ Before(g, f) => ~Wrote(g) /\ ~Deleted(g)
      BY DEF NoABA
    <3>1. CASE f \in recorded
      <4>1. PICK e \in recorded :
                   /\ Wrote(e) /\ Before(e, f)
                   /\ e.result.version = f.cmd.expectedVersion
                   /\ \A g \in recorded :
                        Before(e, g) /\ Before(g, f) => ~Wrote(g) /\ ~Deleted(g)
        BY <3>1 DEF VersionInv, NoABA
      <4> QED
        BY <1>5, <2>3, <2>8, <3>1, <4>1
    <3>2. CASE f = r
      <4>1. /\ cmd.key \in Key /\ Found(machine, cmd.key)
            /\ Latest(machine, cmd.key) = cmd.expectedVersion
        BY <2>2, <2>6, <3>2
      <4>2. PICK e \in recorded :
                   /\ Wrote(e) /\ e.cmd.key = cmd.key
                   /\ e.result.version = Latest(machine, cmd.key)
                   /\ \A g \in recorded : Before(e, g) => ~Wrote(g) /\ ~Deleted(g)
        BY <4>1 DEF VersionInv, LastWriteKnown
      <4>3. Before(e, r)
        BY <1>1, <1>3, <2>2, <3>2, <4>2 DEF Before, Wrote
      <4> QED
        BY <1>5, <2>2, <2>4, <2>8, <3>2, <4>1, <4>2, <4>3
    <3> QED
      BY <2>8, <3>1, <3>2
  <2> QED
    BY <2>9, <2>10, <2>11, <2>12
<1> QED
  BY <1>4, <1>5, EntryFacts DEF VersionInv, RecordOf

\* The invariant of the versions is inductive: VersionsNeverRepeat needs the
\* bound on what was given out, NoABA needs the last write of each stored key.
THEOREM VersionInvariant == MachineSpec => []VersionInv
<1>1. MachineInit => VersionInv
  <2> SUFFICES ASSUME MachineInit PROVE VersionInv
    OBVIOUS
  <2>1. recorded = {} /\ machine = Empty /\ length = 0
    BY DEF MachineInit
  <2>2. MachineTypeOK
    BY <2>1, EmptyType DEF MachineTypeOK
  <2>3. \A key \in Key : ~Found(Empty, key)
    BY DEF Found, Empty, Absent
  <2>4. VersionsBounded /\ VersionsNeverRepeat /\ NoABA
    BY <2>1 DEF VersionsBounded, VersionsNeverRepeat, NoABA
  <2>5. LastWriteKnown
    BY <2>1, <2>3 DEF LastWriteKnown
  <2> QED
    BY <2>2, <2>4, <2>5 DEF VersionInv
<1>2. VersionInv /\ [MachineNext]_machineVars => VersionInv'
  <2> SUFFICES ASSUME VersionInv, [MachineNext]_machineVars PROVE VersionInv'
    OBVIOUS
  <2>1. MachineTypeOK'
    BY MachineTypeStep DEF VersionInv
  <2>2. CASE UNCHANGED machineVars
    BY <2>2 DEF machineVars, VersionInv, MachineTypeOK, VersionsBounded, VersionsNeverRepeat,
                LastWriteKnown, NoABA
  <2>3. ASSUME NEW who \in Client, NEW seq \in 0..MaxSeq, NEW cmd \in Commands,
               ApplyEntry(who, seq, cmd)
        PROVE  VersionInv'
    BY <2>1, <2>3, VersionStep DEF VersionInv
  <2> QED
    BY <2>2, <2>3 DEF MachineNext
<1> QED
  BY <1>1, <1>2, PTL DEF MachineSpec

\* The versions of a key never repeat, for every log (VersionsNeverRepeat).
THEOREM VersionsUnique == MachineSpec => []VersionsNeverRepeat
<1>1. VersionInv => VersionsNeverRepeat
  BY DEF VersionInv
<1> QED
  BY <1>1, VersionInvariant, PTL

\* A swap at a version cannot be fooled, for every log (NoABA).
THEOREM SwapsSeeTheirWrite == MachineSpec => []NoABA
<1>1. VersionInv => NoABA
  BY DEF VersionInv
<1> QED
  BY <1>1, VersionInvariant, PTL

-----------------------------------------------------------------------------
(* Sessions                                                                *)

\* For every log: the session table never outgrows max_sessions and never has
\* two sessions of one client, so a retry is compared with the latest request
\* of its client (_remember, _session_result).
THEOREM SessionTableSound == MachineSpec => []SessionsSound
<1> DEFINE Sound == /\ Len(machine.sessions) <= MaxSessions
                    /\ OnePerClient(machine.sessions)
<1>1. MachineInit => Sound
  <2>1. Empty.sessions = <<>>
    BY DEF Empty
  <2> QED
    BY <2>1, MaxSessionsAssumption DEF MachineInit, OnePerClient
<1>2. MachineTypeOK /\ Sound /\ [MachineNext]_machineVars => Sound'
  <2> SUFFICES ASSUME MachineTypeOK, Sound, [MachineNext]_machineVars PROVE Sound'
    OBVIOUS
  <2>1. CASE UNCHANGED machineVars
    BY <2>1 DEF machineVars
  <2>2. ASSUME NEW who \in Client, NEW seq \in 0..MaxSeq, NEW cmd \in Commands,
               ApplyEntry(who, seq, cmd)
        PROVE  Sound'
    <3> DEFINE entry == [client |-> who, seq |-> seq, cmd |-> cmd]
    <3>1. cmd \in Command /\ seq \in Nat /\ machine \in State
      BY CommandsAssumption, EntriesAssumption DEF MachineTypeOK
    <3>2. machine' = Apply(machine, entry)
      BY <2>2 DEF ApplyEntry
    <3>3. entry.client = who /\ entry.seq = seq /\ entry.cmd = cmd
      OBVIOUS
    <3> HIDE DEF entry
    <3> QED
      BY <3>1, <3>2, <3>3, ApplySessions
  <2> QED
    BY <2>1, <2>2 DEF MachineNext
<1>3. Sound => SessionsSound
  BY DEF OnePerClient, SessionsSound
<1> QED
  BY <1>1, <1>2, <1>3, MachineTypeCorrect, PTL DEF MachineSpec

=============================================================================
