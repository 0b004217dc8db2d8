-------------------------- MODULE PluginLinkProofs --------------------------
(***************************************************************************)
(* Proofs about the link between node and plugin, for any number of        *)
(* machines, transactions, reads and timeouts.  The inductive invariant    *)
(* follows a request around: as long as nobody stopped waiting in it, it   *)
(* is at one place of the two processes at a time, that place is the one   *)
(* that the plugin's progress says, and its machine waits for it.          *)
(***************************************************************************)
EXTENDS PluginLink, TLAPS

\* What is on a socket, and the requests it is about.
Msgs(q) == {q[i] : i \in 1 .. Len(q)}
Ids(M) == {m.id : m \in M}
OnceIn(q, id) == \A i, j \in 1 .. Len(q) : q[i].id = id /\ q[j].id = id => i = j

ToPlugin == [op : {"request", "served"}, id : Id, ok : BOOLEAN]
ToNode == [op : {"answer", "read", "write"}, id : Id, ok : BOOLEAN]
Service == [op : {"read", "write"}, id : Id, fsm : Fsm]
Touch == [op : {"read", "write"}, id : Id, fsm : Fsm, txn : Txn \cup {NULL}]
Progress == {"none", "read", "write", "haveRead", "written", "failed", "answered"}

\* Every variable has its shape.
TypeOK ==
  /\ owner \in [Txn -> Fsm \cup {NULL}]
  /\ fate \in [Txn -> {"none", "open", "flushed", "dropped"}]
  /\ current \in [Fsm -> Txn \cup {NULL}]
  /\ call \in [Fsm -> Id \cup {NULL}]
  /\ stage \in [Fsm -> {"idle", "tracked", "waiting"}]
  /\ outcome \in [Id -> {"ok", "error", "timeout", NULL}]
  /\ pending \subseteq Id
  /\ channel \in [Id -> {"ok", "error", NULL}]
  /\ requestFSMs \in [Id -> Fsm \cup {NULL}]
  /\ toPlugin \in Seq(ToPlugin) /\ toNode \in Seq(ToNode)
  /\ spawned \subseteq ToNode /\ serving \subseteq Service /\ touched \subseteq Touch
  /\ outstanding \subseteq Id
  /\ work \in [Id -> Progress]
  /\ reads \in [Id -> Nat]
  /\ gaveUp \subseteq Id
  /\ nodeUp \in BOOLEAN /\ pluginUp \in BOOLEAN

-----------------------------------------------------------------------------
\* The requests in which somebody stopped waiting, and where requests are.
Late == {id \in Id : outcome[id] = "timeout"} \cup gaveUp
AtPlugin == Ids(Msgs(toPlugin))
AtNode == Ids(Msgs(toNode))
Spawned == Ids(spawned)
Serving == Ids(serving)

\* A machine with an open transaction owns it and has asked about it last.
Engaged ==
  /\ \A f \in Fsm : current[f] = NULL => stage[f] = "idle"
  /\ \A f \in Fsm : current[f] # NULL =>
        /\ owner[current[f]] = f
        /\ fate[current[f]] = "open"
        /\ call[f] \in {<<current[f], "check">>, <<current[f], "deliver">>}
  /\ \A t \in Txn : fate[t] = "open" => owner[t] \in Fsm /\ current[owner[t]] = t

\* The requests that have been made.
Begun == {id \in Id :
            /\ fate[id[1]] # "none"
            /\ id[2] = "deliver" /\ fate[id[1]] = "open" => call[owner[id[1]]] = id}

\* Only of those is there a trace.
TracesBegun ==
  /\ {id \in Id : work[id] # "none" \/ outcome[id] # NULL} \subseteq Begun
  /\ AtPlugin \subseteq Begun
  /\ \A f \in Fsm : stage[f] # "idle" => call[f] \in Begun

\* A request that the plugin has not seen is nowhere else.
Unseen ==
  /\ \A id \in Id : work[id] = "none" =>
        /\ id \notin AtNode \cup Spawned \cup Serving \cup Ids(touched) \cup gaveUp
        /\ OnceIn(toPlugin, id)
  /\ \A m \in Msgs(toPlugin) : m.op = "request" <=> work[m.id] = "none"

\* What a machine that is not idle has in the tables.
Tracked ==
  /\ \A f \in Fsm : stage[f] # "idle" =>
        /\ outcome[call[f]] = NULL
        /\ channel[call[f]] = NULL => call[f] \in pending /\ requestFSMs[call[f]] = f
  /\ \A f \in Fsm : stage[f] = "tracked" =>
        work[call[f]] = "none" /\ call[f] \notin AtPlugin
  /\ \A id \in Id : channel[id] # NULL => id \notin pending

\* Whatever is under way in time has a machine that waits for it.
Awaited ==
  \A id \in Id \ Late :
    \/ id \in AtPlugin \cup AtNode \cup Spawned \cup Serving
    \/ work[id] \notin {"none", "answered"}
    \/ channel[id] # NULL
    => \E f \in Fsm : call[f] = id /\ stage[f] = "waiting"

\* And it is at one place.
AtOnePlace ==
  \A id \in Id \ Late :
    /\ OnceIn(toPlugin, id) /\ OnceIn(toNode, id)
    /\ \A m, n \in spawned : m.id = id /\ n.id = id => m = n
    /\ \A s, r \in serving : s.id = id /\ r.id = id => s = r
    /\ id \in AtPlugin => id \notin AtNode \cup Spawned \cup Serving
    /\ id \in AtNode => id \notin Spawned \cup Serving
    /\ id \in Spawned => id \notin Serving

\* The place is the one the plugin's progress says.
InPhase ==
  /\ outstanding = {id \in Id : work[id] \in {"read", "write"}}
  /\ \A m \in Msgs(toPlugin) :
        m.op = "served" /\ m.id \notin Late => m.id \in outstanding
  /\ \A m \in Msgs(toNode) \cup spawned :
        /\ m.op = "answer" => work[m.id] = "answered"
        /\ m.op # "answer" /\ m.id \notin Late => work[m.id] = m.op
  /\ \A s \in serving : s.id \notin Late => work[s.id] = s.op
  /\ \A id \in Id : channel[id] # NULL \/ outcome[id] \in {"ok", "error"} =>
        /\ work[id] = "answered"
        /\ id \notin Late => id \notin AtPlugin \cup AtNode \cup Spawned \cup Serving

\* Where the plugin stopped waiting, it refuses.
GaveUpRefused ==
  /\ \A id \in gaveUp : /\ work[id] \in {"failed", "answered"}
                        /\ channel[id] # "ok" /\ outcome[id] # "ok"
  /\ \A m \in Msgs(toNode) \cup spawned : m.op = "answer" /\ m.ok => m.id \notin gaveUp

\* The requests whose write was executed in their transaction.
Wrote == {id \in Id :
            [op |-> "write", id |-> id, fsm |-> owner[id[1]], txn |-> id[1]] \in touched}

\* Nothing confirms a delivery in time but its write.
Confirmed ==
  /\ \A m \in Msgs(toPlugin) :
        m.op = "served" /\ m.ok /\ m.id \notin Late /\ work[m.id] = "write" => m.id \in Wrote
  /\ \A m \in Msgs(toNode) \cup spawned :
        m.op = "answer" /\ m.ok /\ m.id \notin Late /\ m.id[2] = "deliver" => m.id \in Wrote
  /\ \A id \in Id \ Late :
        id[2] = "deliver" =>
          (work[id] = "written" \/ channel[id] = "ok" \/ outcome[id] = "ok" => id \in Wrote)

\* A read or a write is for the machine of its request.
ServedForOwner == \A s \in serving : s.fsm = owner[s.id[1]]

IInv == /\ TypeOK /\ Engaged /\ TracesBegun /\ Unseen /\ Tracked /\ TablesHoldOpenCalls
        /\ Awaited /\ AtOnePlace /\ InPhase /\ GaveUpRefused /\ Confirmed
        /\ ServedForOwner /\ TouchesOwnTransaction /\ FlushedWithItsWrite
        /\ DeathNeedsTimeout
-----------------------------------------------------------------------------
\* What a message that joins a queue does to it.
LEMMA QueueAppend ==
  ASSUME NEW S, NEW q \in Seq(S), NEW m \in S
  PROVE  /\ Append(q, m) \in Seq(S)
         /\ Msgs(Append(q, m)) = Msgs(q) \cup {m}
         /\ \A id : OnceIn(q, id) /\ (id = m.id => id \notin Ids(Msgs(q)))
                    => OnceIn(Append(q, m), id)
<1> DEFINE a == Append(q, m)
<1>1. a \in Seq(S) /\ Len(a) = Len(q) + 1 /\ Len(q) \in Nat
  OBVIOUS
<1>2. \A i \in 1 .. Len(q) : a[i] = q[i]
  OBVIOUS
<1>3. a[Len(q) + 1] = m
  OBVIOUS
<1>4. \A i : i \in 1 .. Len(a) <=> i \in 1 .. Len(q) \/ i = Len(q) + 1
  BY <1>1
<1> HIDE DEF a
<1>5. Msgs(a) = Msgs(q) \cup {m}
  BY <1>2, <1>3, <1>4 DEF Msgs
<1>6. ASSUME NEW id, OnceIn(q, id), id = m.id => id \notin Ids(Msgs(q))
      PROVE  OnceIn(a, id)
  BY <1>2, <1>3, <1>4, <1>6 DEF Msgs, Ids, OnceIn
<1>7. QED
  BY <1>1, <1>5, <1>6 DEF a

\* What is left of a queue when its first message is taken.
LEMMA QueueTail ==
  ASSUME NEW S, NEW q \in Seq(S), q # <<>>
  PROVE  /\ Head(q) \in Msgs(q) /\ Head(q) \in S /\ Tail(q) \in Seq(S)
         /\ Msgs(q) = Msgs(Tail(q)) \cup {Head(q)}
         /\ \A id : OnceIn(q, id) =>
              /\ OnceIn(Tail(q), id)
              /\ id = Head(q).id => id \notin Ids(Msgs(Tail(q)))
<1> DEFINE r == Tail(q)
<1>1. r \in Seq(S) /\ Len(q) = Len(r) + 1 /\ Len(r) \in Nat /\ Head(q) = q[1] /\ Head(q) \in S
  OBVIOUS
<1>2. \A i \in 1 .. Len(r) : r[i] = q[i + 1] /\ i + 1 \in 1 .. Len(q)
  OBVIOUS
<1>3. \A j \in 1 .. Len(q) : j = 1 \/ (j - 1 \in 1 .. Len(r) /\ q[j] = r[j - 1])
  BY <1>1, <1>2
<1>4. 1 \in 1 .. Len(q)
  BY <1>1
<1> DEFINE h == Head(q)
<1> HIDE DEF r, h
<1>5. h = q[1]
  BY <1>1 DEF h
<1>6. Msgs(q) = Msgs(r) \cup {h} /\ h \in Msgs(q)
  BY <1>2, <1>3, <1>4, <1>5 DEF Msgs
<1>7. ASSUME NEW id, OnceIn(q, id)
      PROVE  OnceIn(r, id) /\ (id = h.id => id \notin Ids(Msgs(r)))
  <2>1. OnceIn(r, id)
    <3> SUFFICES ASSUME NEW i \in 1 .. Len(r), NEW j \in 1 .. Len(r), r[i].id = id, r[j].id = id
                 PROVE  i = j
      BY DEF OnceIn
    <3>1. i + 1 = j + 1
      BY <1>2, <1>7 DEF OnceIn
    <3>2. QED
      BY <3>1
  <2>2. ASSUME id = h.id, id \in Ids(Msgs(r)) PROVE FALSE
    <3>1. PICK i \in 1 .. Len(r) : r[i].id = id
      BY <2>2 DEF Ids, Msgs
    <3>2. 1 = i + 1
      BY <1>2, <1>4, <1>5, <1>7, <2>2, <3>1 DEF OnceIn
    <3>3. QED
      BY <3>2
  <2>3. QED
    BY <2>1, <2>2
<1>8. QED
  BY <1>1, <1>6, <1>7 DEF r, h

\* Requests are numbered by transactions, which NULL is not.
LEMMA IdShape ==
  /\ NULL \notin Txn /\ NULL \notin Fsm /\ NULL \notin {"ok", "error", "timeout"}
  /\ \A id \in Id : id[1] \in Txn /\ id[2] \in {"check", "deliver"} /\ id = <<id[1], id[2]>>
  /\ \A t \in Txn : \A op \in {"check", "deliver"} : <<t, op>> \in Id
BY LinkAssumption DEF Txn, Id

\* The two sockets, when a message is sent and when one is taken.
LEMMA SentToPlugin ==
  ASSUME TypeOK, NEW m \in ToPlugin, toPlugin' = Append(toPlugin, m)
  PROVE  /\ toPlugin' \in Seq(ToPlugin)
         /\ Msgs(toPlugin') = Msgs(toPlugin) \cup {m} /\ AtPlugin' = AtPlugin \cup {m.id}
         /\ \A k : OnceIn(toPlugin, k) /\ (k = m.id => k \notin AtPlugin) => OnceIn(toPlugin', k)
<1>1. toPlugin \in Seq(ToPlugin)
  BY DEF TypeOK
<1>2. /\ Append(toPlugin, m) \in Seq(ToPlugin)
      /\ Msgs(Append(toPlugin, m)) = Msgs(toPlugin) \cup {m}
      /\ \A k : OnceIn(toPlugin, k) /\ (k = m.id => k \notin Ids(Msgs(toPlugin)))
                => OnceIn(Append(toPlugin, m), k)
  BY <1>1, QueueAppend
<1>3. QED
  BY <1>2 DEF AtPlugin, Ids

\* The same of the socket to the node.
LEMMA SentToNode ==
  ASSUME TypeOK, NEW m \in ToNode, toNode' = Append(toNode, m)
  PROVE  /\ toNode' \in Seq(ToNode)
         /\ Msgs(toNode') = Msgs(toNode) \cup {m} /\ AtNode' = AtNode \cup {m.id}
         /\ \A k : OnceIn(toNode, k) /\ (k = m.id => k \notin AtNode) => OnceIn(toNode', k)
<1>1. toNode \in Seq(ToNode)
  BY DEF TypeOK
<1>2. /\ Append(toNode, m) \in Seq(ToNode)
      /\ Msgs(Append(toNode, m)) = Msgs(toNode) \cup {m}
      /\ \A k : OnceIn(toNode, k) /\ (k = m.id => k \notin Ids(Msgs(toNode)))
                => OnceIn(Append(toNode, m), k)
  BY <1>1, QueueAppend
<1>3. QED
  BY <1>2 DEF AtNode, Ids

\* What the plugin takes from its socket, and what is left there.
LEMMA TakenByPlugin ==
  ASSUME TypeOK, toPlugin # <<>>, toPlugin' = Tail(toPlugin), NEW m, m = Head(toPlugin)
  PROVE  /\ m \in ToPlugin /\ m.id \in Id /\ toPlugin' \in Seq(ToPlugin)
         /\ Msgs(toPlugin) = Msgs(toPlugin') \cup {m} /\ AtPlugin = AtPlugin' \cup {m.id}
         /\ \A k : OnceIn(toPlugin, k) => OnceIn(toPlugin', k) /\ (k = m.id => k \notin AtPlugin')
<1>1. toPlugin \in Seq(ToPlugin)
  BY DEF TypeOK
<1>2. /\ m \in ToPlugin /\ Tail(toPlugin) \in Seq(ToPlugin)
      /\ Msgs(toPlugin) = Msgs(Tail(toPlugin)) \cup {m}
      /\ \A k : OnceIn(toPlugin, k) => /\ OnceIn(Tail(toPlugin), k)
                                       /\ k = m.id => k \notin Ids(Msgs(Tail(toPlugin)))
  BY <1>1, QueueTail
<1>3. m.id \in Id
  BY <1>2 DEF ToPlugin
<1>4. QED
  BY <1>2, <1>3 DEF AtPlugin, Ids

\* What the node takes from its socket, and what is left there.
LEMMA TakenByNode ==
  ASSUME TypeOK, toNode # <<>>, toNode' = Tail(toNode), NEW m, m = Head(toNode)
  PROVE  /\ m \in ToNode /\ m.id \in Id /\ toNode' \in Seq(ToNode)
         /\ Msgs(toNode) = Msgs(toNode') \cup {m} /\ AtNode = AtNode' \cup {m.id}
         /\ \A k : OnceIn(toNode, k) => OnceIn(toNode', k) /\ (k = m.id => k \notin AtNode')
<1>1. toNode \in Seq(ToNode)
  BY DEF TypeOK
<1>2. /\ m \in ToNode /\ Tail(toNode) \in Seq(ToNode)
      /\ Msgs(toNode) = Msgs(Tail(toNode)) \cup {m}
      /\ \A k : OnceIn(toNode, k) => /\ OnceIn(Tail(toNode), k)
                                     /\ k = m.id => k \notin Ids(Msgs(Tail(toNode)))
  BY <1>1, QueueTail
<1>3. m.id \in Id
  BY <1>2 DEF ToNode
<1>4. QED
  BY <1>2, <1>3 DEF AtNode, Ids

\* No two machines are busy with one request.
LEMMA OneCaller ==
  ASSUME TypeOK, Engaged
  PROVE  \A f, g \in Fsm : stage[f] # "idle" /\ stage[g] # "idle" /\ call[f] = call[g] => f = g
<1>1. \A f \in Fsm : stage[f] # "idle" => owner[call[f][1]] = f
  BY DEF Engaged
<1>2. QED
  BY <1>1

-----------------------------------------------------------------------------
\* Each action keeps the invariant; first the actions of the machines.

\* A request that is sent is at one place only, the socket to the plugin.
LEMMA SendRequestKeeps ==
  ASSUME IInv, NEW f \in Fsm, SendRequest(f)
  PROVE  IInv'
<1> DEFINE id == call[f]
           m == [op |-> "request", id |-> id, ok |-> TRUE]
<1>1. id \in Begun /\ outcome[id] = NULL /\ work[id] = "none" /\ id \notin AtPlugin
  BY DEF IInv, TracesBegun, Tracked, SendRequest
<1>2. id \in Id
  BY <1>1 DEF Begun
<1>3. id \notin AtNode \cup Spawned \cup Serving \cup gaveUp /\ OnceIn(toPlugin, id)
  BY <1>1, <1>2 DEF IInv, Unseen
<1>4. toPlugin' = Append(toPlugin, m) /\ m \in ToPlugin
  BY <1>2 DEF SendRequest, ToPlugin
<1>5. /\ toPlugin' \in Seq(ToPlugin)
      /\ Msgs(toPlugin') = Msgs(toPlugin) \cup {m} /\ AtPlugin' = AtPlugin \cup {id}
      /\ \A k : OnceIn(toPlugin, k) /\ (k = id => k \notin AtPlugin) => OnceIn(toPlugin', k)
  BY <1>4, SentToPlugin DEF IInv
<1>6. AtNode' = AtNode /\ Spawned' = Spawned /\ Serving' = Serving
  BY DEF AtNode, Spawned, Serving, SendRequest, serviceVars
<1>7. Late' = Late /\ Begun' = Begun /\ Wrote' = Wrote /\ Ids(touched)' = Ids(touched)
  BY DEF Late, Begun, Wrote, SendRequest, txnVars, serviceVars, pluginVars
<1> USE DEF SendRequest, txnVars, tableVars, serviceVars, pluginVars
<1>11. TypeOK'
  BY <1>5 DEF IInv, TypeOK
<1>12. Engaged'
  BY DEF IInv, TypeOK, Engaged
<1>13. TracesBegun'
  BY <1>1, <1>5, <1>7 DEF IInv, TypeOK, TracesBegun
<1>14. Unseen'
  <2>1. /\ m.op = "request" /\ m.id = id
        /\ \A k \in Id : work[k] = "none" => OnceIn(toPlugin', k)
    BY <1>1, <1>5 DEF IInv, Unseen
  <2>2. QED
    BY <1>1, <1>3, <1>5, <1>6, <1>7, <2>1 DEF IInv, Unseen
<1>15. Tracked'
  <2>1. \A g \in Fsm : stage[g] = "tracked" /\ g # f => call[g] # id
    BY OneCaller DEF IInv
  <2>2. QED
    BY <1>5, <2>1 DEF IInv, TypeOK, Tracked
<1>16. TablesHoldOpenCalls'
  BY DEF IInv, TypeOK, TablesHoldOpenCalls
<1>17. Awaited'
  BY <1>5, <1>6, <1>7 DEF IInv, TypeOK, Awaited
<1>18. AtOnePlace'
  BY <1>1, <1>3, <1>5, <1>6, <1>7 DEF IInv, TypeOK, AtOnePlace
<1>19. InPhase'
  <2>1. m.op = "request" /\ channel[id] = NULL /\ outcome[id] \notin {"ok", "error"}
    BY <1>1, <1>2, IdShape DEF IInv, InPhase
  <2>2. QED
    BY <1>5, <1>6, <1>7, <2>1 DEF IInv, InPhase
<1>20. GaveUpRefused' /\ Confirmed'
  <2>1. m.op = "request"
    OBVIOUS
  <2>2. QED
    BY <1>5, <1>7, <2>1 DEF IInv, GaveUpRefused, Confirmed
<1>21. ServedForOwner' /\ TouchesOwnTransaction' /\ FlushedWithItsWrite' /\ DeathNeedsTimeout'
  BY DEF IInv, ServedForOwner, TouchesOwnTransaction, FlushedWithItsWrite, DeathNeedsTimeout, TimedOut
<1>22. QED
  BY <1>11, <1>12, <1>13, <1>14, <1>15, <1>16, <1>17, <1>18, <1>19, <1>20, <1>21 DEF IInv

\* A request that has not begun has left no trace.
LEMMA NoTrace ==
  ASSUME IInv, NEW id \in Id \ Begun
  PROVE  /\ work[id] = "none" /\ outcome[id] = NULL /\ channel[id] = NULL
         /\ requestFSMs[id] = NULL /\ id \notin pending
         /\ id \notin AtPlugin \cup AtNode \cup Spawned \cup Serving \cup gaveUp
         /\ \A f \in Fsm : stage[f] # "idle" => call[f] # id
<1>1. work[id] = "none" /\ outcome[id] = NULL /\ id \notin AtPlugin
  BY DEF IInv, TracesBegun
<1>2. \A f \in Fsm : stage[f] # "idle" => call[f] # id
  BY DEF IInv, TracesBegun
<1>3. requestFSMs[id] = NULL /\ id \notin pending
  BY <1>2 DEF IInv, TablesHoldOpenCalls
<1>4. channel[id] = NULL
  BY <1>1 DEF IInv, InPhase
<1>5. id \notin AtNode \cup Spawned \cup Serving \cup gaveUp
  BY <1>1 DEF IInv, Unseen
<1>6. QED
  BY <1>1, <1>2, <1>3, <1>4, <1>5

\* An idle machine makes a request: what the two ways to do so have in common.
LEMMA StartCallKeeps ==
  ASSUME IInv, NEW f \in Fsm, NEW id \in Id \ Begun, StartCall(f, id), stage[f] = "idle",
         owner' \in [Txn -> Fsm \cup {NULL}],
         fate' \in [Txn -> {"none", "open", "flushed", "dropped"}],
         current' \in [Fsm -> Txn \cup {NULL}],
         Engaged', Begun \cup {id} \subseteq Begun',
         \A k \in Begun : owner'[k[1]] = owner[k[1]],
         \A t \in Txn : fate'[t] = "flushed" => fate[t] = "flushed"
  PROVE  IInv'
<1>1. /\ work[id] = "none" /\ outcome[id] = NULL /\ channel[id] = NULL
      /\ requestFSMs[id] = NULL /\ id \notin pending
      /\ id \notin AtPlugin \cup AtNode \cup Spawned \cup Serving \cup gaveUp
      /\ \A g \in Fsm : stage[g] # "idle" => call[g] # id
  BY NoTrace
<1>2. /\ AtPlugin' = AtPlugin /\ AtNode' = AtNode /\ Spawned' = Spawned /\ Serving' = Serving
      /\ Late' = Late /\ Ids(touched)' = Ids(touched)
  BY DEF AtPlugin, AtNode, Spawned, Serving, Late, StartCall, serviceVars, pluginVars
<1>3. \A k \in Id : work[k] # "none" => k \in Begun
  BY DEF IInv, TracesBegun
<1>4. \A x \in touched : x.id \in Id /\ work[x.id] # "none"
  BY DEF IInv, TypeOK, Touch, Unseen, Ids
<1>5. \A s \in serving : s.id \in Id /\ work[s.id] # "none"
  BY DEF IInv, TypeOK, Service, Unseen, Ids, Serving
<1>6. Wrote \subseteq Wrote'
  BY <1>3, <1>4 DEF Wrote, StartCall, serviceVars
<1> USE DEF StartCall, Track, serviceVars, pluginVars
<1>11. TypeOK'
  BY DEF IInv, TypeOK
<1>12. TracesBegun'
  BY <1>2 DEF IInv, TypeOK, TracesBegun
<1>13. Unseen'
  BY <1>2 DEF IInv, Unseen
<1>14. Tracked'
  BY <1>1, <1>2 DEF IInv, TypeOK, Tracked
<1>15. TablesHoldOpenCalls'
  BY <1>1 DEF IInv, TypeOK, TablesHoldOpenCalls
<1>16. Awaited'
  BY <1>2 DEF IInv, TypeOK, Awaited
<1>17. AtOnePlace'
  BY <1>2 DEF IInv, AtOnePlace
<1>18. InPhase' /\ GaveUpRefused'
  BY <1>2 DEF IInv, InPhase, GaveUpRefused
<1>19. Confirmed'
  BY <1>2, <1>6 DEF IInv, Confirmed
<1>20. ServedForOwner'
  BY <1>3, <1>5 DEF IInv, ServedForOwner
<1>21. TouchesOwnTransaction'
  BY <1>3, <1>4 DEF IInv, TouchesOwnTransaction, TimedOut, TxnOf
<1>22. FlushedWithItsWrite' /\ DeathNeedsTimeout'
  <2>1. \A t \in Txn : fate[t] = "flushed" => <<t, "deliver">> \in Begun
    BY IdShape DEF Begun
  <2>2. \A t \in Txn : fate[t] = "flushed" => owner'[t] = owner[t]
    BY <2>1
  <2>3. QED
    BY <2>2 DEF IInv, FlushedWithItsWrite, DeathNeedsTimeout, TimedOut
<1>23. QED
  BY <1>11, <1>12, <1>13, <1>14, <1>15, <1>16, <1>17, <1>18, <1>19, <1>20, <1>21, <1>22 DEF IInv

\* A transaction begins with a machine of its own and a check that was not asked before.
LEMMA BeginTransactionKeeps ==
  ASSUME IInv, NEW f \in Fsm, NEW t \in Txn, BeginTransaction(f, t)
  PROVE  IInv'
<1> DEFINE id == <<t, "check">>
<1>1. id \in Id \ Begun /\ stage[f] = "idle"
  BY IdShape DEF IInv, Engaged, Begun, BeginTransaction
<1>2. \A u \in Txn : fate[u] = "open" => owner[u] # f /\ u # t
  BY IdShape DEF IInv, Engaged, BeginTransaction
<1>3. /\ owner' \in [Txn -> Fsm \cup {NULL}]
      /\ fate' \in [Txn -> {"none", "open", "flushed", "dropped"}]
      /\ current' \in [Fsm -> Txn \cup {NULL}]
  BY DEF IInv, TypeOK, BeginTransaction
<1>4. Engaged'
  BY <1>1, <1>2, IdShape DEF IInv, TypeOK, Engaged, BeginTransaction, StartCall
<1>5. Begun \cup {id} \subseteq Begun'
  <2>1. id \in Begun'
    BY IdShape DEF IInv, TypeOK, Begun, BeginTransaction
  <2>2. ASSUME NEW k \in Begun PROVE k \in Begun'
    <3>1. /\ k \in Id /\ k[1] \in Txn /\ fate[k[1]] # "none" /\ k[1] # t
          /\ k[2] = "deliver" /\ fate[k[1]] = "open" => call[owner[k[1]]] = k
      BY IdShape DEF Begun, BeginTransaction
    <3>2. fate'[k[1]] = fate[k[1]] /\ owner'[k[1]] = owner[k[1]]
      BY <3>1 DEF IInv, TypeOK, BeginTransaction
    <3>3. fate[k[1]] = "open" => call'[owner[k[1]]] = call[owner[k[1]]]
      BY <1>2, <3>1 DEF IInv, TypeOK, Engaged, BeginTransaction, StartCall
    <3>4. QED
      BY <3>1, <3>2, <3>3 DEF Begun
  <2>3. QED
    BY <2>1, <2>2
<1>6. \A k \in Begun : owner'[k[1]] = owner[k[1]]
  BY IdShape DEF IInv, TypeOK, Begun, BeginTransaction
<1>7. \A u \in Txn : fate'[u] = "flushed" => fate[u] = "flushed"
  BY DEF IInv, TypeOK, BeginTransaction
<1>8. QED
  BY <1>1, <1>3, <1>4, <1>5, <1>6, <1>7, StartCallKeeps DEF BeginTransaction

\* The delivery of a checked transaction is a call that has not begun.
LEMMA DeliverTransactionKeeps ==
  ASSUME IInv, NEW f \in Fsm, DeliverTransaction(f)
  PROVE  IInv'
<1> DEFINE t == current[f]
           id == <<t, "deliver">>
<1>1. t \in Txn /\ owner[t] = f /\ fate[t] = "open" /\ call[f] = <<t, "check">> /\ stage[f] = "idle"
  BY DEF IInv, TypeOK, Engaged, DeliverTransaction
<1>2. id \in Id \ Begun
  BY <1>1, IdShape DEF Begun
<1>3. UNCHANGED <<owner, fate, current>> /\ StartCall(f, id)
  BY DEF DeliverTransaction, txnVars
<1>4. Engaged'
  <2>1. /\ call' = [call EXCEPT ![f] = id] /\ stage' = [stage EXCEPT ![f] = "tracked"]
        /\ call \in [Fsm -> Id \cup {NULL}] /\ stage \in [Fsm -> {"idle", "tracked", "waiting"}]
    BY <1>3 DEF IInv, TypeOK, StartCall
  <2>2. \A g \in Fsm : current[g] = NULL => stage'[g] = "idle"
    BY <1>1, <2>1, IdShape DEF IInv, Engaged
  <2>3. \A g \in Fsm : current[g] # NULL =>
           call'[g] \in {<<current[g], "check">>, <<current[g], "deliver">>}
    BY <2>1 DEF IInv, Engaged
  <2>4. QED
    BY <1>3, <2>2, <2>3 DEF IInv, Engaged
<1>5. Begun \cup {id} \subseteq Begun'
  <2>1. \A u \in Txn : fate[u] = "open" /\ owner[u] = f => u = t
    BY DEF IInv, Engaged
  <2>2. QED
    BY <1>1, <1>2, <1>3, <2>1, IdShape DEF IInv, TypeOK, Begun, StartCall
<1>6. /\ owner' \in [Txn -> Fsm \cup {NULL}]
      /\ fate' \in [Txn -> {"none", "open", "flushed", "dropped"}]
      /\ current' \in [Fsm -> Txn \cup {NULL}]
  BY <1>3 DEF IInv, TypeOK
<1>7. QED
  BY <1>1, <1>2, <1>3, <1>4, <1>5, <1>6, StartCallKeeps

\* A transaction ends when its machine is idle, and a delivery that returned ok has written.
LEMMA EndTransactionKeeps ==
  ASSUME IInv, NEW f \in Fsm, EndTransaction(f)
  PROVE  IInv'
<1> DEFINE t == current[f]
           id == <<t, "deliver">>
<1>1. /\ t \in Txn /\ owner[t] = f /\ fate[t] = "open" /\ stage[f] = "idle"
      /\ fate \in [Txn -> {"none", "open", "flushed", "dropped"}]
  BY DEF IInv, TypeOK, Engaged, EndTransaction
<1>2. \A u \in Txn : u # t => fate'[u] = fate[u]
  BY <1>1 DEF EndTransaction
<1>3. fate'[t] = "flushed" => call[f] = id /\ outcome[id] = "ok"
  BY <1>1 DEF EndTransaction
<1>4. fate'[t] \in {"flushed", "dropped"}
  BY <1>1 DEF EndTransaction
<1>5. Begun \subseteq Begun'
  BY <1>1, <1>2, <1>4, IdShape DEF Begun, EndTransaction, callVars
<1>6. fate'[t] = "flushed" => id \in Wrote
  <2>1. SUFFICES ASSUME fate'[t] = "flushed" PROVE id \in Wrote
    OBVIOUS
  <2>2. id \in Id /\ outcome[id] = "ok"
    BY <1>1, <1>3, <2>1, IdShape
  <2>3. id \notin Late
    BY <2>2 DEF IInv, GaveUpRefused, Late
  <2>4. QED
    BY <2>2, <2>3 DEF IInv, Confirmed
<1> USE DEF EndTransaction, callVars, tableVars, serviceVars, pluginVars
<1>7. /\ AtPlugin' = AtPlugin /\ AtNode' = AtNode /\ Spawned' = Spawned /\ Serving' = Serving
      /\ Late' = Late /\ Wrote' = Wrote /\ Ids(touched)' = Ids(touched)
  BY DEF AtPlugin, AtNode, Spawned, Serving, Late, Wrote
<1>11. TypeOK'
  BY DEF IInv, TypeOK
<1>12. Engaged'
  <2>1. \A g \in Fsm : g # f => current'[g] = current[g] /\ current[g] # t
    BY <1>1 DEF IInv, TypeOK, Engaged
  <2>2. current'[f] = NULL
    BY DEF IInv, TypeOK
  <2>3. QED
    BY <1>1, <1>2, <1>4, <2>1, <2>2, IdShape DEF IInv, TypeOK, Engaged
<1>13. TracesBegun'
  BY <1>5, <1>7 DEF IInv, TracesBegun
<1>14. Unseen' /\ Tracked' /\ TablesHoldOpenCalls' /\ Awaited' /\ AtOnePlace'
  BY <1>7 DEF IInv, Unseen, Tracked, TablesHoldOpenCalls, Awaited, AtOnePlace
<1>15. InPhase' /\ GaveUpRefused' /\ Confirmed'
  BY <1>7 DEF IInv, InPhase, GaveUpRefused, Confirmed
<1>16. ServedForOwner' /\ TouchesOwnTransaction' /\ DeathNeedsTimeout'
  BY DEF IInv, ServedForOwner, TouchesOwnTransaction, DeathNeedsTimeout, TimedOut
<1>17. FlushedWithItsWrite'
  <2>1. fate'[t] = "flushed" =>
           [op |-> "write", id |-> id, fsm |-> owner[t], txn |-> t] \in touched
    BY <1>1, <1>6, IdShape DEF Wrote
  <2>2. QED
    BY <1>2, <2>1 DEF IInv, FlushedWithItsWrite
<1>18. QED
  BY <1>11, <1>12, <1>13, <1>14, <1>15, <1>16, <1>17 DEF IInv

\* The answer in the channel becomes the outcome of the call.
LEMMA ReceiveAnswerKeeps ==
  ASSUME IInv, NEW f \in Fsm, ReceiveAnswer(f)
  PROVE  IInv'
<1> DEFINE id == call[f]
<1>1. id \in Begun /\ outcome[id] = NULL /\ channel[id] # NULL /\ stage[f] = "waiting"
  BY DEF IInv, TracesBegun, Tracked, ReceiveAnswer
<1>2. id \in Id
  BY <1>1 DEF Begun
<1>3. /\ work[id] = "answered" /\ id \notin pending
      /\ id \notin Late => id \notin AtPlugin \cup AtNode \cup Spawned \cup Serving
  BY <1>1, <1>2 DEF IInv, InPhase, Tracked
<1>4. \A g \in Fsm : g # f /\ stage[g] # "idle" => call[g] # id
  BY <1>1, OneCaller DEF IInv
<1>5. outcome' = [outcome EXCEPT ![id] = channel[id]] /\ channel[id] \in {"ok", "error"}
  BY <1>1, <1>2 DEF IInv, TypeOK, ReceiveAnswer
<1> USE DEF ReceiveAnswer, txnVars, serviceVars, pluginVars
<1>6. Late' = Late
  BY <1>1, <1>2, <1>5, IdShape DEF IInv, TypeOK, Late
<1>7. /\ AtPlugin' = AtPlugin /\ AtNode' = AtNode /\ Spawned' = Spawned /\ Serving' = Serving
      /\ Begun' = Begun /\ Wrote' = Wrote /\ Ids(touched)' = Ids(touched)
  BY DEF AtPlugin, AtNode, Spawned, Serving, Begun, Wrote
<1>11. TypeOK'
  BY <1>2, <1>5 DEF IInv, TypeOK
<1>12. Engaged'
  BY DEF IInv, TypeOK, Engaged
<1>13. TracesBegun'
  BY <1>1, <1>5, <1>7 DEF IInv, TypeOK, TracesBegun
<1>14. Unseen'
  BY <1>7 DEF IInv, Unseen
<1>15. Tracked'
  BY <1>2, <1>4, <1>5 DEF IInv, TypeOK, Tracked, AtPlugin
<1>16. TablesHoldOpenCalls'
  BY <1>2, <1>3 DEF IInv, TypeOK, TablesHoldOpenCalls
<1>17. Awaited'
  BY <1>2, <1>3, <1>6, <1>7 DEF IInv, TypeOK, Awaited
<1>18. AtOnePlace'
  BY <1>6, <1>7 DEF IInv, AtOnePlace
<1>19. InPhase'
  BY <1>2, <1>3, <1>5, <1>6, <1>7 DEF IInv, TypeOK, InPhase
<1>20. GaveUpRefused' /\ Confirmed'
  <2>1. \A k \in Id : channel'[k] = "ok" => channel[k] = "ok"
    BY <1>2, IdShape DEF IInv, TypeOK
  <2>2. \A k \in Id : outcome'[k] = "ok" => outcome[k] = "ok" \/ channel[k] = "ok"
    BY <1>2, <1>5 DEF IInv, TypeOK
  <2>3. GaveUpRefused'
    BY <2>1, <2>2 DEF IInv, TypeOK, GaveUpRefused
  <2>4. Confirmed'
    BY <1>6, <1>7, <2>1, <2>2 DEF IInv, Confirmed
  <2>5. QED
    BY <2>3, <2>4
<1>21. ServedForOwner' /\ FlushedWithItsWrite'
  BY DEF IInv, ServedForOwner, FlushedWithItsWrite
<1>22. TouchesOwnTransaction' /\ DeathNeedsTimeout'
  BY <1>1, <1>2, <1>5, IdShape
     DEF IInv, TypeOK, TouchesOwnTransaction, DeathNeedsTimeout, TimedOut
<1>23. QED
  BY <1>11, <1>12, <1>13, <1>14, <1>15, <1>16, <1>17, <1>18, <1>19, <1>20, <1>21, <1>22 DEF IInv

\* A request that its machine leaves becomes late.
LEMMA NodeTimeoutKeeps ==
  ASSUME IInv, NEW f \in Fsm, NodeTimeout(f)
  PROVE  IInv'
<1> DEFINE id == call[f]
<1>1. id \in Begun /\ stage[f] = "waiting" /\ id \in Id
  BY DEF IInv, TracesBegun, NodeTimeout, Begun
<1>2. \A g \in Fsm : g # f /\ stage[g] # "idle" => call[g] # id
  BY <1>1, OneCaller DEF IInv
<1> USE DEF NodeTimeout, Forget, txnVars, serviceVars, pluginVars
<1>3. Late' = Late \cup {id}
  BY <1>1 DEF IInv, TypeOK, Late
<1>4. /\ AtPlugin' = AtPlugin /\ AtNode' = AtNode /\ Spawned' = Spawned /\ Serving' = Serving
      /\ Begun' = Begun /\ Wrote' = Wrote /\ Ids(touched)' = Ids(touched)
  BY DEF AtPlugin, AtNode, Spawned, Serving, Begun, Wrote
<1>11. TypeOK'
  BY <1>1 DEF IInv, TypeOK
<1>12. Engaged'
  BY DEF IInv, TypeOK, Engaged
<1>13. TracesBegun'
  BY <1>1, <1>4 DEF IInv, TypeOK, TracesBegun
<1>14. Unseen'
  BY <1>4 DEF IInv, Unseen
<1>15. Tracked'
  BY <1>1, <1>2, <1>4 DEF IInv, TypeOK, Tracked
<1>16. TablesHoldOpenCalls'
  BY <1>1 DEF IInv, TypeOK, TablesHoldOpenCalls
<1>17. Awaited'
  BY <1>1, <1>3, <1>4 DEF IInv, TypeOK, Awaited
<1>18. AtOnePlace'
  BY <1>3, <1>4 DEF IInv, AtOnePlace
<1>19. InPhase'
  BY <1>1, <1>3, <1>4 DEF IInv, TypeOK, InPhase
<1>20. GaveUpRefused' /\ Confirmed'
  BY <1>1, <1>3, <1>4 DEF IInv, TypeOK, GaveUpRefused, Confirmed
<1>21. ServedForOwner' /\ FlushedWithItsWrite'
  BY DEF IInv, ServedForOwner, FlushedWithItsWrite
<1>22. TouchesOwnTransaction' /\ DeathNeedsTimeout'
  BY <1>1 DEF IInv, TypeOK, TouchesOwnTransaction, DeathNeedsTimeout, TimedOut
<1>23. QED
  BY <1>11, <1>12, <1>13, <1>14, <1>15, <1>16, <1>17, <1>18, <1>19, <1>20, <1>21, <1>22 DEF IInv

-----------------------------------------------------------------------------
\* What the node does with the messages of the plugin.

\* A message moves from the socket to its goroutine.
LEMMA ListenKeeps ==
  ASSUME IInv, Listen
  PROVE  IInv'
<1> DEFINE m == Head(toNode)
           id == m.id
<1>1. /\ m \in ToNode /\ id \in Id /\ toNode' \in Seq(ToNode)
      /\ Msgs(toNode) = Msgs(toNode') \cup {m} /\ AtNode = AtNode' \cup {id}
      /\ \A k : OnceIn(toNode, k) => OnceIn(toNode', k) /\ (k = id => k \notin AtNode')
  BY TakenByNode DEF IInv, Listen
<1>2. spawned' = spawned \cup {m} /\ Spawned' = Spawned \cup {id}
  BY DEF Listen, Spawned, Ids
<1> HIDE DEF m
<1> USE DEF Listen, txnVars, callVars, tableVars, pluginVars
<1>3. /\ AtPlugin' = AtPlugin /\ Serving' = Serving /\ Ids(touched)' = Ids(touched)
      /\ Late' = Late /\ Begun' = Begun /\ Wrote' = Wrote
  BY DEF AtPlugin, Serving, Late, Begun, Wrote
<1>11. TypeOK'
  BY <1>1, <1>2 DEF IInv, TypeOK
<1>12. Engaged' /\ TracesBegun' /\ Tracked' /\ TablesHoldOpenCalls'
  BY <1>3 DEF IInv, Engaged, TracesBegun, Tracked, TablesHoldOpenCalls
<1>13. Unseen'
  BY <1>1, <1>2, <1>3 DEF IInv, Unseen
<1>14. Awaited'
  BY <1>1, <1>2, <1>3 DEF IInv, Awaited
<1>15. AtOnePlace'
  <2>1. \A k \in Id \ Late : \A n \in spawned : n.id = k => k \in Spawned
    BY DEF Spawned, Ids
  <2>2. QED
    BY <1>1, <1>2, <1>3, <2>1 DEF IInv, AtOnePlace
<1>16. InPhase'
  BY <1>1, <1>2, <1>3 DEF IInv, InPhase
<1>17. GaveUpRefused' /\ Confirmed'
  BY <1>1, <1>2, <1>3 DEF IInv, GaveUpRefused, Confirmed
<1>18. ServedForOwner' /\ TouchesOwnTransaction' /\ FlushedWithItsWrite' /\ DeathNeedsTimeout'
  BY DEF IInv, ServedForOwner, TouchesOwnTransaction, FlushedWithItsWrite, DeathNeedsTimeout, TimedOut
<1>19. QED
  BY <1>11, <1>12, <1>13, <1>14, <1>15, <1>16, <1>17, <1>18 DEF IInv

\* The answer to a pending request moves to its channel, and the request leaves the tables.
LEMMA HandleAnswerKeeps ==
  ASSUME IInv, NEW m \in spawned, HandleAnswer(m)
  PROVE  IInv'
<1> DEFINE id == m.id
<1>1. /\ m \in ToNode /\ id \in Id /\ id \in Spawned /\ m.op = "answer" /\ id \in pending
      /\ work[id] = "answered"
  BY DEF IInv, TypeOK, ToNode, Spawned, Ids, InPhase, HandleAnswer
<1>2. /\ spawned' = spawned \ {m} /\ Spawned' \subseteq Spawned
      /\ Spawned \ {id} \subseteq Spawned'
      /\ id \notin Late => id \notin Spawned'
  BY <1>1 DEF IInv, AtOnePlace, Spawned, Ids, HandleAnswer
<1>3. /\ channel' = [channel EXCEPT ![id] = IF m.ok THEN "ok" ELSE "error"]
      /\ pending' = pending \ {id} /\ requestFSMs' = [requestFSMs EXCEPT ![id] = NULL]
  BY DEF HandleAnswer, Forget
<1>4. id \notin Late => id \notin AtPlugin \cup AtNode \cup Serving
  BY <1>1 DEF IInv, AtOnePlace
<1>5. id \notin Late => \E f \in Fsm : call[f] = id /\ stage[f] = "waiting"
  BY <1>1 DEF IInv, Awaited
<1> USE DEF HandleAnswer, txnVars, callVars, pluginVars
<1>6. /\ AtPlugin' = AtPlugin /\ AtNode' = AtNode /\ Serving' = Serving /\ Ids(touched)' = Ids(touched)
      /\ Late' = Late /\ Begun' = Begun /\ Wrote' = Wrote
  BY DEF AtPlugin, AtNode, Serving, Late, Begun, Wrote
<1>7. channel'[id] # NULL /\ \A k \in Id : k # id => channel'[k] = channel[k]
  BY <1>1, <1>3, IdShape DEF IInv, TypeOK
<1>11. TypeOK'
  BY <1>1, <1>2, <1>3 DEF IInv, TypeOK
<1>12. Engaged' /\ TracesBegun'
  BY <1>6 DEF IInv, Engaged, TracesBegun
<1>13. Unseen'
  BY <1>2, <1>6 DEF IInv, Unseen
<1>14. Tracked'
  <2>1. \A f \in Fsm : stage[f] # "idle" => call[f] \in Id
    BY DEF IInv, TracesBegun, Begun
  <2>2. \A f \in Fsm : stage[f] # "idle" /\ channel'[call[f]] = NULL =>
           call[f] \in pending' /\ requestFSMs'[call[f]] = f
    BY <1>3, <1>7, <2>1 DEF IInv, TypeOK, Tracked
  <2>3. \A k \in Id : channel'[k] # NULL => k \notin pending'
    BY <1>3, <1>7 DEF IInv, Tracked
  <2>4. QED
    BY <1>6, <2>2, <2>3 DEF IInv, Tracked
<1>15. TablesHoldOpenCalls'
  BY <1>1, <1>3 DEF IInv, TypeOK, TablesHoldOpenCalls
<1>16. Awaited'
  BY <1>2, <1>5, <1>6, <1>7 DEF IInv, Awaited
<1>17. AtOnePlace'
  BY <1>2, <1>6 DEF IInv, AtOnePlace
<1>18. InPhase'
  BY <1>1, <1>2, <1>4, <1>6, <1>7 DEF IInv, InPhase
<1>19. GaveUpRefused'
  BY <1>1, <1>2, <1>3 DEF IInv, TypeOK, GaveUpRefused
<1>20. Confirmed'
  BY <1>1, <1>2, <1>3, <1>6 DEF IInv, TypeOK, Confirmed
<1>21. ServedForOwner' /\ TouchesOwnTransaction' /\ FlushedWithItsWrite' /\ DeathNeedsTimeout'
  BY DEF IInv, ServedForOwner, TouchesOwnTransaction, FlushedWithItsWrite, DeathNeedsTimeout, TimedOut
<1>22. QED
  BY <1>11, <1>12, <1>13, <1>14, <1>15, <1>16, <1>17, <1>18, <1>19, <1>20, <1>21 DEF IInv

\* A read or a write is for the machine that waits in its request.
LEMMA FindMachineKeeps ==
  ASSUME IInv, NEW m \in spawned, FindMachine(m)
  PROVE  IInv'
<1> DEFINE id == m.id
           s == [op |-> m.op, id |-> id, fsm |-> requestFSMs[id]]
<1>1. /\ m \in ToNode /\ id \in Id /\ id \in Spawned /\ m.op \in {"read", "write"}
      /\ requestFSMs[id] \in Fsm
  BY DEF IInv, TypeOK, ToNode, Spawned, Ids, FindMachine
<1>2. /\ spawned' = spawned \ {m} /\ Spawned' \subseteq Spawned
      /\ Spawned \ {id} \subseteq Spawned'
      /\ id \notin Late => id \notin Spawned'
  BY <1>1 DEF IInv, AtOnePlace, Spawned, Ids, FindMachine
<1>3. serving' = serving \cup {s} /\ s \in Service /\ Serving' = Serving \cup {id}
  <2>1. serving' = serving \cup {s}
    BY DEF FindMachine, MachineOf
  <2>2. s \in Service /\ s.id = id
    BY <1>1 DEF Service
  <2>3. Serving' = Serving \cup {id}
    BY <2>1, <2>2 DEF Serving, Ids
  <2>4. QED
    BY <2>1, <2>2, <2>3
<1>4. requestFSMs[id] = owner[id[1]]
  BY <1>1, IdShape DEF IInv, TablesHoldOpenCalls, Engaged
<1> USE DEF FindMachine, txnVars, callVars, tableVars, pluginVars
<1>5. /\ AtPlugin' = AtPlugin /\ AtNode' = AtNode /\ Ids(touched)' = Ids(touched)
      /\ Late' = Late /\ Begun' = Begun /\ Wrote' = Wrote
  BY DEF AtPlugin, AtNode, Late, Begun, Wrote
<1>6. \A r \in serving : r.id \in Serving
  BY DEF Serving, Ids
<1>11. TypeOK'
  BY <1>2, <1>3 DEF IInv, TypeOK
<1>12. Engaged' /\ TracesBegun' /\ Tracked' /\ TablesHoldOpenCalls'
  BY <1>5 DEF IInv, Engaged, TracesBegun, Tracked, TablesHoldOpenCalls
<1>13. Unseen'
  BY <1>1, <1>2, <1>3, <1>5 DEF IInv, Unseen
<1>14. Awaited'
  BY <1>1, <1>2, <1>3, <1>5 DEF IInv, Awaited
<1>15. AtOnePlace'
  BY <1>1, <1>2, <1>3, <1>5, <1>6 DEF IInv, AtOnePlace
<1>16. InPhase'
  BY <1>1, <1>2, <1>3, <1>5 DEF IInv, InPhase
<1>17. GaveUpRefused' /\ Confirmed'
  BY <1>2, <1>5 DEF IInv, GaveUpRefused, Confirmed
<1>18. ServedForOwner'
  BY <1>3, <1>4 DEF IInv, ServedForOwner
<1>19. TouchesOwnTransaction' /\ FlushedWithItsWrite' /\ DeathNeedsTimeout'
  BY DEF IInv, TouchesOwnTransaction, FlushedWithItsWrite, DeathNeedsTimeout, TimedOut
<1>20. QED
  BY <1>11, <1>12, <1>13, <1>14, <1>15, <1>16, <1>17, <1>18, <1>19 DEF IInv

\* A read or a write in time finds the transaction of its request open.
LEMMA ServeKeeps ==
  ASSUME IInv, NEW s \in serving, NEW ok \in BOOLEAN, Serve(s, ok)
  PROVE  IInv'
<1> DEFINE id == s.id
           m == [op |-> "served", id |-> id, ok |-> ok]
           x == [op |-> s.op, id |-> id, fsm |-> s.fsm, txn |-> current[s.fsm]]
<1>1. /\ s \in Service /\ id \in Id /\ id \in Serving /\ s.op \in {"read", "write"}
      /\ s.fsm = owner[id[1]] /\ s.fsm \in Fsm
  BY DEF IInv, TypeOK, Service, Serving, Ids, ServedForOwner
<1>2. /\ work[id] # "none"
      /\ id \notin Late => work[id] = s.op /\ id \notin AtPlugin \cup AtNode \cup Spawned
  BY <1>1 DEF IInv, Unseen, InPhase, AtOnePlace
<1>3. id \notin Late => /\ current[s.fsm] = id[1]
                       /\ \E f \in Fsm : call[f] = id /\ stage[f] = "waiting"
  <2>1. SUFFICES ASSUME id \notin Late PROVE current[s.fsm] = id[1]
                       /\ \E f \in Fsm : call[f] = id /\ stage[f] = "waiting"
    OBVIOUS
  <2>2. PICK f \in Fsm : call[f] = id /\ stage[f] = "waiting"
    BY <1>1, <2>1 DEF IInv, Awaited
  <2>3. current[f] # NULL /\ id[1] = current[f] /\ owner[id[1]] = f
    BY <2>2 DEF IInv, Engaged
  <2>4. QED
    BY <1>1, <2>2, <2>3
<1>4. m \in ToPlugin /\ m.id = id /\ m.op = "served" /\ m.ok = ok
  BY <1>1 DEF ToPlugin
<1>5. toPlugin' = Append(toPlugin, m)
  BY DEF Serve, Reply
<1> HIDE DEF m
<1>6. /\ toPlugin' \in Seq(ToPlugin)
      /\ Msgs(toPlugin') = Msgs(toPlugin) \cup {m} /\ AtPlugin' = AtPlugin \cup {id}
      /\ \A k : OnceIn(toPlugin, k) /\ (k = id => k \notin AtPlugin) => OnceIn(toPlugin', k)
  BY <1>4, <1>5, SentToPlugin DEF IInv
<1>7. /\ serving' = serving \ {s} /\ Serving' \subseteq Serving
      /\ Serving \ {id} \subseteq Serving'
      /\ id \notin Late => id \notin Serving'
  BY <1>1 DEF IInv, AtOnePlace, Serving, Ids, Serve
<1>8. x \in Touch /\ x.op = s.op /\ x.id = id /\ x.fsm = s.fsm /\ x.txn = current[s.fsm]
  BY <1>1 DEF IInv, TypeOK, Touch
<1>9. touched' = IF ok THEN touched \cup {x} ELSE touched
  BY DEF Serve
<1> HIDE DEF x
<1>10. /\ touched \subseteq touched' /\ touched' \subseteq touched \cup {x}
       /\ Ids(touched') \subseteq Ids(touched) \cup {id}
  BY <1>8, <1>9 DEF Ids
<1> USE DEF Serve, txnVars, callVars, tableVars, pluginVars
<1>11. /\ AtNode' = AtNode /\ Spawned' = Spawned /\ Late' = Late /\ Begun' = Begun
       /\ Wrote \subseteq Wrote'
  BY <1>10 DEF AtNode, Spawned, Late, Begun, Wrote
<1>12. ok /\ id \notin Late /\ s.op = "write" => id \in Wrote'
  <2>1. SUFFICES ASSUME ok, id \notin Late, s.op = "write" PROVE id \in Wrote'
    OBVIOUS
  <2>2. x = [op |-> "write", id |-> id, fsm |-> owner[id[1]], txn |-> id[1]]
    BY <1>1, <1>3, <2>1 DEF x
  <2>3. x \in touched'
    BY <1>9, <2>1
  <2>4. QED
    BY <1>1, <2>2, <2>3 DEF Wrote
<1>21. TypeOK'
  BY <1>6, <1>7, <1>8, <1>10 DEF IInv, TypeOK
<1>22. Engaged' /\ TablesHoldOpenCalls'
  BY DEF IInv, Engaged, TablesHoldOpenCalls
<1>23. TracesBegun'
  BY <1>1, <1>2, <1>6, <1>11 DEF IInv, TracesBegun
<1>24. Unseen'
  <2>1. \A k \in Id : work[k] = "none" => OnceIn(toPlugin', k) /\ k \notin Ids(touched')
    BY <1>2, <1>6, <1>10 DEF IInv, Unseen
  <2>2. \A n \in Msgs(toPlugin') : n.op = "request" <=> work[n.id] = "none"
    BY <1>2, <1>4, <1>6 DEF IInv, Unseen
  <2>3. QED
    BY <1>7, <1>11, <2>1, <2>2 DEF IInv, Unseen
<1>25. Tracked'
  <2>1. \A f \in Fsm : stage[f] = "tracked" => call[f] # id
    BY <1>2 DEF IInv, Tracked
  <2>2. QED
    BY <1>6, <2>1 DEF IInv, Tracked
<1>26. Awaited'
  BY <1>1, <1>6, <1>7, <1>11 DEF IInv, Awaited
<1>27. AtOnePlace'
  <2>1. \A k \in Id \ Late : OnceIn(toPlugin', k)
    BY <1>2, <1>6 DEF IInv, AtOnePlace
  <2>2. QED
    BY <1>2, <1>6, <1>7, <1>11, <2>1 DEF IInv, AtOnePlace
<1>28. InPhase'
  <2>1. \A n \in Msgs(toPlugin') : n.op = "served" /\ n.id \notin Late => n.id \in outstanding
    BY <1>1, <1>2, <1>4, <1>6 DEF IInv, InPhase
  <2>2. \A k \in Id : (channel[k] # NULL \/ outcome[k] \in {"ok", "error"}) /\ k \notin Late =>
           k \notin AtPlugin' \cup AtNode \cup Spawned \cup Serving'
    BY <1>1, <1>6, <1>7 DEF IInv, InPhase
  <2>3. QED
    BY <1>7, <1>11, <2>1, <2>2 DEF IInv, InPhase
<1>29. GaveUpRefused'
  BY DEF IInv, GaveUpRefused
<1>30. Confirmed'
  BY <1>1, <1>2, <1>4, <1>6, <1>11, <1>12 DEF IInv, Confirmed
<1>31. ServedForOwner'
  BY <1>7 DEF IInv, ServedForOwner
<1>32. TouchesOwnTransaction'
  <2>1. id \in Late => TimedOut(id)
    BY DEF Late, TimedOut
  <2>2. x.fsm = owner[TxnOf(x.id)] /\ (x.txn = TxnOf(x.id) \/ TimedOut(x.id))
    BY <1>1, <1>3, <1>8, <2>1 DEF TxnOf
  <2>3. \A k : TimedOut(k)' = TimedOut(k)
    BY DEF TimedOut
  <2>4. QED
    BY <1>10, <2>2, <2>3 DEF IInv, TouchesOwnTransaction
<1>33. FlushedWithItsWrite' /\ DeathNeedsTimeout'
  BY <1>10 DEF IInv, FlushedWithItsWrite, DeathNeedsTimeout, TimedOut
<1>34. QED
  BY <1>21, <1>22, <1>23, <1>24, <1>25, <1>26, <1>27, <1>28, <1>29, <1>30, <1>31, <1>32, <1>33
     DEF IInv

\* The node stops on an unknown id only when somebody stopped waiting in the request,
\* or after the plugin.
LEMMA NodeDiesKeeps ==
  ASSUME IInv, NodeDies
  PROVE  IInv'
<1>1. Late # {} => \E id \in Id : TimedOut(id)
  BY DEF IInv, TypeOK, Late, TimedOut
<1>2. \A m \in spawned : m \in ToNode /\ m.id \in Id /\ m.id \in Spawned
  BY DEF IInv, TypeOK, ToNode, Spawned, Ids
<1>3. ASSUME NEW m \in spawned, m.id \notin Late
      PROVE  /\ m.op = "answer" => m.id \in pending
             /\ requestFSMs[m.id] # NULL
  <2>1. PICK f \in Fsm : call[f] = m.id /\ stage[f] = "waiting"
    BY <1>2, <1>3 DEF IInv, Awaited
  <2>2. channel[m.id] = NULL
    BY <1>2, <1>3 DEF IInv, InPhase
  <2>3. QED
    BY <2>1, <2>2, IdShape DEF IInv, Tracked
<1>4. \E id \in Id : TimedOut(id)
  <2>1. CASE \E m \in spawned : m.id \in Late
    BY <1>1, <2>1
  <2>2. CASE ~pluginUp
    BY <2>2 DEF IInv, DeathNeedsTimeout
  <2>3. QED
    BY <1>3, <2>1, <2>2 DEF NodeDies
<1> USE DEF NodeDies, txnVars, callVars, tableVars, serviceVars, pluginVars
<1>5. /\ AtPlugin' = AtPlugin /\ AtNode' = AtNode /\ Spawned' = Spawned /\ Serving' = Serving
      /\ Late' = Late /\ Begun' = Begun /\ Wrote' = Wrote /\ Ids(touched)' = Ids(touched)
  BY DEF AtPlugin, AtNode, Spawned, Serving, Late, Begun, Wrote
<1>6. /\ TypeOK' /\ Engaged' /\ TracesBegun' /\ Unseen'
      /\ Tracked' /\ TablesHoldOpenCalls'
  <2>1. TypeOK'
    BY DEF IInv, TypeOK
  <2>2. Engaged' /\ TracesBegun' /\ Unseen'
    BY <1>5 DEF IInv, Engaged, TracesBegun, Unseen
  <2>3. Tracked' /\ TablesHoldOpenCalls'
    BY <1>5 DEF IInv, Tracked, TablesHoldOpenCalls
  <2>4. QED
    BY <2>1, <2>2, <2>3
<1>7. Awaited' /\ AtOnePlace' /\ InPhase' /\ GaveUpRefused' /\ Confirmed'
  BY <1>5 DEF IInv, Awaited, AtOnePlace, InPhase, GaveUpRefused, Confirmed
<1>8. ServedForOwner' /\ TouchesOwnTransaction' /\ FlushedWithItsWrite' /\ DeathNeedsTimeout'
  BY <1>4 DEF IInv, ServedForOwner, TouchesOwnTransaction, FlushedWithItsWrite,
              DeathNeedsTimeout, TimedOut
<1>9. QED
  BY <1>6, <1>7, <1>8 DEF IInv

-----------------------------------------------------------------------------
\* The plugin.

\* What Ask and Answer have in common: the plugin goes on with a request that is nowhere
\* else, unless it is late, and sends one message about it.
LEMMA TellKeeps ==
  ASSUME IInv, NEW id \in Begun, NEW op \in {"read", "write", "answer"}, NEW ok \in BOOLEAN,
         work[id] \notin {"read", "write", "answered"},
         Tell(op, id, ok),
         work' = [work EXCEPT ![id] = IF op = "answer" THEN "answered" ELSE op],
         outstanding' = IF op = "answer" THEN outstanding ELSE outstanding \cup {id},
         reads' \in [Id -> Nat],
         toPlugin' \in Seq(ToPlugin), Msgs(toPlugin') \subseteq Msgs(toPlugin),
         \A k : OnceIn(toPlugin, k) => OnceIn(toPlugin', k),
         \A n \in Msgs(toPlugin') : n.id = id => n.op # "request",
         id \notin Late => /\ id \notin AtPlugin' \cup AtNode \cup Spawned \cup Serving
                          /\ \E f \in Fsm : call[f] = id /\ stage[f] = "waiting",
         \A f \in Fsm : stage[f] = "tracked" => call[f] # id,
         id \in gaveUp => op = "answer" /\ ~ok,
         ok /\ op = "answer" /\ id \notin Late /\ id[2] = "deliver" => id \in Wrote,
         UNCHANGED <<txnVars, callVars, tableVars, serviceVars, gaveUp, nodeUp, pluginUp>>
  PROVE  IInv'
<1> DEFINE m == [op |-> op, id |-> id, ok |-> ok]
<1>1. id \in Id
  BY DEF Begun
<1>2. m \in ToNode /\ m.op = op /\ m.id = id /\ m.ok = ok
  BY <1>1 DEF ToNode
<1>3. toNode' = Append(toNode, m)
  BY DEF Tell
<1> HIDE DEF m
<1>4. /\ toNode' \in Seq(ToNode)
      /\ Msgs(toNode') = Msgs(toNode) \cup {m} /\ AtNode' = AtNode \cup {id}
      /\ \A k : OnceIn(toNode, k) /\ (k = id => k \notin AtNode) => OnceIn(toNode', k)
  BY <1>2, <1>3, SentToNode DEF IInv
<1>5. AtPlugin' \subseteq AtPlugin
  BY DEF AtPlugin, Ids
<1>6. channel[id] = NULL /\ outcome[id] \notin {"ok", "error"}
  BY <1>1 DEF IInv, InPhase
<1>7. /\ work'[id] = IF op = "answer" THEN "answered" ELSE op
      /\ \A k \in Id : k # id => work'[k] = work[k]
      /\ work' \in [Id -> Progress]
  BY <1>1 DEF IInv, TypeOK, Progress
<1>8. /\ \A n \in Msgs(toPlugin) : n.id \in Id /\ n.id \in AtPlugin
      /\ \A n \in Msgs(toPlugin') : n.id \in AtPlugin'
      /\ \A n \in Msgs(toNode) : n.id \in Id /\ n.id \in AtNode
      /\ \A n \in spawned : n.id \in Id /\ n.id \in Spawned
      /\ \A n \in serving : n.id \in Id /\ n.id \in Serving
  <2>1. Msgs(toPlugin) \subseteq ToPlugin /\ Msgs(toNode) \subseteq ToNode
    BY DEF IInv, TypeOK, Msgs
  <2>2. QED
    BY <2>1 DEF IInv, TypeOK, AtPlugin, AtNode, Spawned, Serving, Ids, ToPlugin, ToNode, Service
<1> USE DEF txnVars, callVars, tableVars, serviceVars
<1>9. /\ Spawned' = Spawned /\ Serving' = Serving /\ Late' = Late /\ Begun' = Begun
      /\ Wrote' = Wrote /\ Ids(touched)' = Ids(touched)
  BY DEF Spawned, Serving, Late, Begun, Wrote
<1>11. TypeOK'
  <2>1. outstanding' \subseteq Id
    BY <1>1 DEF IInv, TypeOK
  <2>2. QED
    BY <1>4, <1>7, <2>1 DEF IInv, TypeOK
<1>12. Engaged' /\ TablesHoldOpenCalls'
  BY DEF IInv, Engaged, TablesHoldOpenCalls
<1>13. TracesBegun'
  BY <1>5, <1>7, <1>9 DEF IInv, TracesBegun
<1>14. Unseen'
  <2>1. work'[id] # "none"
    BY <1>7
  <2>2. \A k \in Id : work'[k] = "none" => k # id /\ work[k] = "none"
    BY <1>7, <2>1
  <2>3. \A n \in Msgs(toPlugin') : n.op = "request" <=> work'[n.id] = "none"
    BY <1>7, <1>8, <2>1 DEF IInv, Unseen
  <2>4. QED
    BY <1>4, <1>9, <2>2, <2>3 DEF IInv, Unseen
<1>15. Tracked'
  <2>1. \A f \in Fsm : stage[f] = "tracked" => call[f] \in Id
    BY DEF IInv, TracesBegun, Begun
  <2>2. QED
    BY <1>5, <1>7, <2>1 DEF IInv, Tracked
<1>16. Awaited'
  BY <1>4, <1>5, <1>7, <1>9 DEF IInv, Awaited
<1>17. AtOnePlace'
  BY <1>4, <1>5, <1>9 DEF IInv, AtOnePlace
<1>18. InPhase'
  <2>1. outstanding' = {k \in Id : work'[k] \in {"read", "write"}}
    BY <1>1, <1>7 DEF IInv, InPhase
  <2>2. \A n \in Msgs(toPlugin') :
           n.op = "served" /\ n.id \notin Late => n.id \in outstanding'
    BY <1>8 DEF IInv, InPhase
  <2>3. \A n \in Msgs(toNode') \cup spawned :
          /\ n.op = "answer" => work'[n.id] = "answered"
          /\ n.op # "answer" /\ n.id \notin Late => work'[n.id] = n.op
    <3>1. \A n \in Msgs(toNode) \cup spawned :
            /\ n.op = "answer" => work'[n.id] = "answered"
            /\ n.op # "answer" /\ n.id \notin Late => work'[n.id] = n.op
      BY <1>7, <1>8 DEF IInv, InPhase
    <3>2. QED
      BY <1>2, <1>4, <1>7, <3>1
  <2>4. \A s \in serving : s.id \notin Late => work'[s.id] = s.op
    BY <1>7, <1>8 DEF IInv, InPhase
  <2>5. \A k \in Id : channel[k] # NULL \/ outcome[k] \in {"ok", "error"} =>
          /\ work'[k] = "answered"
          /\ k \notin Late => k \notin AtPlugin' \cup AtNode' \cup Spawned \cup Serving
    BY <1>4, <1>5, <1>6, <1>7 DEF IInv, InPhase
  <2>6. QED
    BY <1>9, <2>1, <2>2, <2>3, <2>4, <2>5 DEF InPhase
<1>19. GaveUpRefused'
  <2>1. \A k \in gaveUp : k \in Id
    BY DEF IInv, TypeOK
  <2>2. \A k \in gaveUp : work'[k] \in {"failed", "answered"}
    BY <1>7, <2>1 DEF IInv, GaveUpRefused
  <2>3. QED
    BY <1>2, <1>4, <2>2 DEF IInv, GaveUpRefused
<1>20. Confirmed'
  <2>1. \A n \in Msgs(toPlugin') :
           n.op = "served" /\ n.ok /\ n.id \notin Late /\ work'[n.id] = "write" => n.id \in Wrote
    BY <1>7, <1>8 DEF IInv, Confirmed
  <2>2. \A n \in Msgs(toNode') \cup spawned :
           n.op = "answer" /\ n.ok /\ n.id \notin Late /\ n.id[2] = "deliver" => n.id \in Wrote
    BY <1>2, <1>4 DEF IInv, Confirmed
  <2>3. \A k \in Id \ Late :
          k[2] = "deliver" =>
            (work'[k] = "written" \/ channel[k] = "ok" \/ outcome[k] = "ok" => k \in Wrote)
    BY <1>7 DEF IInv, Confirmed
  <2>4. QED
    BY <1>9, <2>1, <2>2, <2>3 DEF Confirmed
<1>21. ServedForOwner' /\ TouchesOwnTransaction' /\ FlushedWithItsWrite' /\ DeathNeedsTimeout'
  BY DEF IInv, ServedForOwner, TouchesOwnTransaction, FlushedWithItsWrite, DeathNeedsTimeout, TimedOut
<1>22. QED
  BY <1>11, <1>12, <1>13, <1>14, <1>15, <1>16, <1>17, <1>18, <1>19, <1>20, <1>21 DEF IInv

\* The two messages of a handler, as TellKeeps takes them.
LEMMA Told ==
  ASSUME IInv, NEW id \in Id
  PROVE  /\ \A op \in {"read", "write"} : Ask(op, id) =>
              /\ Tell(op, id, TRUE) /\ outstanding' = outstanding \cup {id}
              /\ work' = [work EXCEPT ![id] = op] /\ reads' \in [Id -> Nat]
         /\ \A ok \in BOOLEAN : Answer(id, ok) =>
              /\ Tell("answer", id, ok) /\ outstanding' = outstanding
              /\ work' = [work EXCEPT ![id] = "answered"] /\ reads' \in [Id -> Nat]
<1>1. reads \in [Id -> Nat]
  BY DEF IInv, TypeOK
<1>2. ASSUME NEW op \in {"read", "write"}, Ask(op, id)
      PROVE  /\ Tell(op, id, TRUE) /\ outstanding' = outstanding \cup {id}
             /\ work' = [work EXCEPT ![id] = op]
  BY <1>2 DEF Ask
<1>3. ASSUME NEW op \in {"read", "write"}, Ask(op, id)
      PROVE  reads' \in [Id -> Nat]
  <2>1. CASE op = "read"
    <3>1. reads' = [reads EXCEPT ![id] = @ + 1]
      BY <1>3, <2>1 DEF Ask
    <3>2. QED
      BY <1>1, <3>1
  <2>2. CASE op = "write"
    BY <1>1, <1>3, <2>2 DEF Ask
  <2>3. QED
    BY <2>1, <2>2
<1>4. ASSUME NEW ok \in BOOLEAN, Answer(id, ok)
      PROVE  /\ Tell("answer", id, ok) /\ outstanding' = outstanding
             /\ work' = [work EXCEPT ![id] = "answered"] /\ reads' \in [Id -> Nat]
  BY <1>1, <1>4 DEF Answer
<1>5. QED
  BY <1>2, <1>3, <1>4

\* A request that is taken from the socket is begun, and nowhere else.
LEMMA ReceiveRequestKeeps ==
  ASSUME IInv, ReceiveRequest
  PROVE  IInv'
<1> DEFINE m == Head(toPlugin)
           id == m.id
<1>1. /\ m \in ToPlugin /\ id \in Id /\ toPlugin' \in Seq(ToPlugin)
      /\ Msgs(toPlugin) = Msgs(toPlugin') \cup {m} /\ AtPlugin = AtPlugin' \cup {id}
      /\ \A k : OnceIn(toPlugin, k) => OnceIn(toPlugin', k) /\ (k = id => k \notin AtPlugin')
  BY TakenByPlugin DEF IInv, ReceiveRequest
<1>2. m.op = "request" /\ (Ask("read", id) \/ Answer(id, FALSE))
  BY DEF ReceiveRequest
<1>3. UNCHANGED <<txnVars, callVars, tableVars, serviceVars, gaveUp, nodeUp, pluginUp>>
  BY DEF ReceiveRequest
<1> HIDE DEF m
<1>4. work[id] = "none" /\ id \in Begun
  BY <1>1, <1>2 DEF IInv, Unseen, TracesBegun
<1>5. id \notin AtNode \cup Spawned \cup Serving \cup gaveUp \cup AtPlugin'
  BY <1>1, <1>4 DEF IInv, Unseen
<1>6. id \notin Late => \E f \in Fsm : call[f] = id /\ stage[f] = "waiting"
  BY <1>1 DEF IInv, Awaited
<1>7. \A n \in Msgs(toPlugin') : n.id # id
  BY <1>5 DEF AtPlugin, Ids
<1>8. \A f \in Fsm : stage[f] = "tracked" => call[f] # id
  BY <1>1 DEF IInv, Tracked
<1>9. PICK op \in {"read", "answer"}, ok \in BOOLEAN :
         /\ op = "answer" => ~ok
         /\ Tell(op, id, ok)
         /\ work' = [work EXCEPT ![id] = IF op = "answer" THEN "answered" ELSE op]
         /\ outstanding' = IF op = "answer" THEN outstanding ELSE outstanding \cup {id}
         /\ reads' \in [Id -> Nat]
  <2>1. CASE Ask("read", id)
    BY <1>1, <2>1, Told
  <2>2. CASE Answer(id, FALSE)
    BY <1>1, <2>2, Told
  <2>3. QED
    BY <1>2, <2>1, <2>2
<1>10. QED
  BY <1>1, <1>3, <1>4, <1>5, <1>6, <1>7, <1>8, <1>9, TellKeeps

\* A handler that goes on has nothing else under way, unless its request is late.
LEMMA ContinueKeeps ==
  ASSUME IInv, NEW id \in Id, Continue(id)
  PROVE  IInv'
<1>1. UNCHANGED <<txnVars, callVars, tableVars, toPlugin, serviceVars, gaveUp, nodeUp, pluginUp>>
  BY DEF Continue
<1>2. work[id] \in {"haveRead", "written", "failed"}
  BY DEF Continue, Done
<1>3. id \in Begun
  BY <1>2 DEF IInv, TracesBegun
<1>4. \A n \in Msgs(toPlugin) : n.id = id => n.op # "request"
  BY <1>2 DEF IInv, Unseen
<1>5. id \notin Late => id \notin AtPlugin \cup AtNode \cup Spawned \cup Serving
  <2>1. SUFFICES ASSUME id \notin Late PROVE id \notin AtPlugin \cup AtNode \cup Spawned \cup Serving
    OBVIOUS
  <2>2. Msgs(toPlugin) \subseteq ToPlugin
    BY DEF IInv, TypeOK, Msgs
  <2>3. \A n \in Msgs(toPlugin) : n.id # id
    BY <1>2, <1>4, <2>1, <2>2 DEF IInv, InPhase, ToPlugin
  <2>4. \A n \in Msgs(toNode) \cup spawned : n.id # id
    <3>1. Msgs(toNode) \cup spawned \subseteq ToNode
      BY DEF IInv, TypeOK, Msgs
    <3>2. QED
      BY <1>2, <2>1, <3>1 DEF IInv, InPhase, ToNode
  <2>5. \A s \in serving : s.id # id
    <3>1. serving \subseteq Service
      BY DEF IInv, TypeOK
    <3>2. QED
      BY <1>2, <2>1, <3>1 DEF IInv, InPhase, Service
  <2>6. QED
    BY <2>3, <2>4, <2>5 DEF AtPlugin, AtNode, Spawned, Serving, Ids
<1>6. id \notin Late => \E f \in Fsm : call[f] = id /\ stage[f] = "waiting"
  BY <1>2 DEF IInv, Awaited
<1>7. \A f \in Fsm : stage[f] = "tracked" => call[f] # id
  BY <1>2 DEF IInv, Tracked
<1>8. toPlugin' \in Seq(ToPlugin) /\ Msgs(toPlugin') = Msgs(toPlugin) /\ AtPlugin' = AtPlugin
  BY <1>1 DEF IInv, TypeOK, AtPlugin
<1>9. id \in gaveUp => work[id] = "failed"
  BY <1>2 DEF IInv, GaveUpRefused
<1>10. id \notin Late /\ id[2] = "deliver" /\ work[id] = "written" => id \in Wrote
  BY DEF IInv, Confirmed
<1>11. PICK op \in {"read", "write", "answer"}, ok \in BOOLEAN :
         /\ op # "answer" => work[id] = "haveRead"
         /\ op = "answer" /\ ok => Done(id)
         /\ Tell(op, id, ok)
         /\ work' = [work EXCEPT ![id] = IF op = "answer" THEN "answered" ELSE op]
         /\ outstanding' = IF op = "answer" THEN outstanding ELSE outstanding \cup {id}
         /\ reads' \in [Id -> Nat]
  <2>1. CASE work[id] = "haveRead" /\ Ask("read", id)
    BY <2>1, Told
  <2>2. CASE work[id] = "haveRead" /\ Ask("write", id)
    BY <2>2, Told
  <2>3. CASE Answer(id, FALSE)
    BY <2>3, Told
  <2>4. CASE Done(id) /\ Answer(id, TRUE)
    BY <2>4, Told
  <2>5. QED
    BY <2>1, <2>2, <2>3, <2>4 DEF Continue
<1>12. id \in gaveUp => op = "answer" /\ ~ok
  BY <1>9, <1>11 DEF Done
<1>13. ok /\ op = "answer" /\ id \notin Late /\ id[2] = "deliver" => id \in Wrote
  BY <1>10, <1>11 DEF Done
<1>14. QED
  BY <1>1, <1>2, <1>3, <1>4, <1>5, <1>6, <1>7, <1>8, <1>11, <1>12, <1>13, TellKeeps

\* The reply to a read or a write lets its handler go on, and only it.
LEMMA ReceiveServedKeeps ==
  ASSUME IInv, ReceiveServed
  PROVE  IInv'
<1> DEFINE m == Head(toPlugin)
           id == m.id
           next == IF ~m.ok THEN "failed" ELSE IF work[id] = "read" THEN "haveRead" ELSE "written"
<1>1. /\ m \in ToPlugin /\ id \in Id /\ toPlugin' \in Seq(ToPlugin)
      /\ Msgs(toPlugin) = Msgs(toPlugin') \cup {m} /\ AtPlugin = AtPlugin' \cup {id}
      /\ \A k : OnceIn(toPlugin, k) => OnceIn(toPlugin', k) /\ (k = id => k \notin AtPlugin')
  BY TakenByPlugin DEF IInv, ReceiveServed
<1>2. /\ m.op = "served" /\ id \in outstanding /\ outstanding' = outstanding \ {id}
      /\ work' = [work EXCEPT ![id] = next]
  BY DEF ReceiveServed
<1> HIDE DEF m
<1>3. work[id] \in {"read", "write"} /\ id \in Begun
  BY <1>1, <1>2 DEF IInv, InPhase, TracesBegun
<1>4. /\ work' \in [Id -> Progress] /\ work'[id] \in {"failed", "haveRead", "written"}
      /\ work'[id] = "written" => m.ok /\ work[id] = "write"
      /\ \A k \in Id : k # id => work'[k] = work[k]
  BY <1>1, <1>2, <1>3 DEF IInv, TypeOK, Progress
<1>5. id \notin Late => /\ id \notin AtPlugin' \cup AtNode \cup Spawned \cup Serving
                       /\ \E f \in Fsm : call[f] = id /\ stage[f] = "waiting"
  BY <1>1 DEF IInv, AtOnePlace, Awaited
<1>6. id \notin gaveUp
  BY <1>3 DEF IInv, GaveUpRefused
<1>7. /\ \A n \in Msgs(toPlugin) : n.id \in Id /\ n.id \in AtPlugin
      /\ \A n \in Msgs(toPlugin') : n.id \in AtPlugin'
      /\ \A n \in Msgs(toNode) : n.id \in Id /\ n.id \in AtNode
      /\ \A n \in spawned : n.id \in Id /\ n.id \in Spawned
      /\ \A n \in serving : n.id \in Id /\ n.id \in Serving
  <2>1. Msgs(toPlugin) \subseteq ToPlugin /\ Msgs(toNode) \subseteq ToNode
    BY DEF IInv, TypeOK, Msgs
  <2>2. QED
    BY <2>1 DEF IInv, TypeOK, AtPlugin, AtNode, Spawned, Serving, Ids, ToPlugin, ToNode, Service
<1>8. UNCHANGED <<txnVars, callVars, tableVars, toNode, serviceVars, reads, gaveUp,
                  nodeUp, pluginUp>>
  BY DEF ReceiveServed
<1> USE DEF txnVars, callVars, tableVars, serviceVars
<1>9. /\ AtNode' = AtNode /\ Spawned' = Spawned /\ Serving' = Serving /\ Late' = Late
      /\ Begun' = Begun /\ Wrote' = Wrote /\ Ids(touched)' = Ids(touched)
  BY <1>8 DEF AtNode, Spawned, Serving, Late, Begun, Wrote
<1>11. TypeOK'
  BY <1>1, <1>2, <1>4, <1>8 DEF IInv, TypeOK
<1>12. Engaged' /\ TablesHoldOpenCalls'
  BY <1>8 DEF IInv, Engaged, TablesHoldOpenCalls
<1>13. TracesBegun'
  BY <1>1, <1>3, <1>4, <1>8, <1>9 DEF IInv, TracesBegun
<1>14. Unseen'
  BY <1>1, <1>3, <1>4, <1>7, <1>8, <1>9 DEF IInv, Unseen
<1>15. Tracked'
  <2>1. \A f \in Fsm : stage[f] = "tracked" => call[f] \in Id /\ call[f] # id
    BY <1>3 DEF IInv, TracesBegun, Tracked, Begun
  <2>2. QED
    BY <1>1, <1>4, <1>8, <2>1 DEF IInv, Tracked
<1>16. Awaited'
  BY <1>1, <1>4, <1>5, <1>8, <1>9 DEF IInv, Awaited
<1>17. AtOnePlace'
  BY <1>1, <1>8, <1>9 DEF IInv, AtOnePlace
<1>18. InPhase'
  <2>1. outstanding' = {k \in Id : work'[k] \in {"read", "write"}}
    BY <1>1, <1>2, <1>4 DEF IInv, InPhase
  <2>2. \A n \in Msgs(toPlugin') :
           n.op = "served" /\ n.id \notin Late => n.id \in outstanding'
    BY <1>1, <1>2, <1>5, <1>7 DEF IInv, InPhase
  <2>3. \A n \in Msgs(toNode) \cup spawned :
          /\ n.op = "answer" => work'[n.id] = "answered"
          /\ n.op # "answer" /\ n.id \notin Late => work'[n.id] = n.op
    BY <1>3, <1>4, <1>5, <1>7 DEF IInv, InPhase
  <2>4. \A s \in serving : s.id \notin Late => work'[s.id] = s.op
    BY <1>4, <1>5, <1>7 DEF IInv, InPhase
  <2>5. \A k \in Id : channel[k] # NULL \/ outcome[k] \in {"ok", "error"} =>
          /\ work'[k] = "answered"
          /\ k \notin Late => k \notin AtPlugin' \cup AtNode \cup Spawned \cup Serving
    BY <1>1, <1>3, <1>4 DEF IInv, InPhase
  <2>6. QED
    BY <1>8, <1>9, <2>1, <2>2, <2>3, <2>4, <2>5 DEF InPhase
<1>19. GaveUpRefused'
  BY <1>4, <1>6, <1>8 DEF IInv, TypeOK, GaveUpRefused
<1>20. Confirmed'
  <2>1. \A n \in Msgs(toPlugin') :
           n.op = "served" /\ n.ok /\ n.id \notin Late /\ work'[n.id] = "write" => n.id \in Wrote
    BY <1>1, <1>4, <1>7 DEF IInv, Confirmed
  <2>2. \A k \in Id \ Late :
          k[2] = "deliver" =>
            (work'[k] = "written" \/ channel[k] = "ok" \/ outcome[k] = "ok" => k \in Wrote)
    BY <1>1, <1>2, <1>4 DEF IInv, Confirmed
  <2>3. QED
    BY <1>8, <1>9, <2>1, <2>2 DEF IInv, Confirmed
<1>21. ServedForOwner' /\ TouchesOwnTransaction' /\ FlushedWithItsWrite' /\ DeathNeedsTimeout'
  BY <1>8 DEF IInv, ServedForOwner, TouchesOwnTransaction, FlushedWithItsWrite,
              DeathNeedsTimeout, TimedOut
<1>22. QED
  BY <1>11, <1>12, <1>13, <1>14, <1>15, <1>16, <1>17, <1>18, <1>19, <1>20, <1>21 DEF IInv

\* A request in which the plugin stops waiting becomes late, and is refused.
LEMMA PluginTimeoutKeeps ==
  ASSUME IInv, NEW id \in Id, PluginTimeout(id)
  PROVE  IInv'
<1>1. /\ id \in outstanding /\ outstanding' = outstanding \ {id}
      /\ work' = [work EXCEPT ![id] = "failed"] /\ gaveUp' = gaveUp \cup {id}
  BY DEF PluginTimeout, StopWaiting
<1>2. work[id] \in {"read", "write"} /\ id \in Begun
  BY <1>1 DEF IInv, InPhase, TracesBegun
<1>3. /\ work' \in [Id -> Progress] /\ work'[id] = "failed"
      /\ \A k \in Id : k # id => work'[k] = work[k]
  BY <1>1 DEF IInv, TypeOK, Progress
<1>4. /\ \A n \in Msgs(toPlugin) : n.id \in Id
      /\ \A n \in Msgs(toNode) \cup spawned : n.id \in Id
      /\ \A n \in serving : n.id \in Id
  <2>1. Msgs(toPlugin) \subseteq ToPlugin /\ Msgs(toNode) \subseteq ToNode
    BY DEF IInv, TypeOK, Msgs
  <2>2. QED
    BY <2>1 DEF IInv, TypeOK, ToPlugin, ToNode, Service
<1>5. UNCHANGED <<txnVars, callVars, tableVars, toPlugin, toNode, serviceVars, reads,
                  nodeUp, pluginUp>>
  BY DEF PluginTimeout
<1> USE DEF txnVars, callVars, tableVars, serviceVars
<1>6. /\ AtPlugin' = AtPlugin /\ AtNode' = AtNode /\ Spawned' = Spawned /\ Serving' = Serving
      /\ Begun' = Begun /\ Wrote' = Wrote /\ Ids(touched)' = Ids(touched)
  BY <1>5 DEF AtPlugin, AtNode, Spawned, Serving, Begun, Wrote
<1>7. Late' = Late \cup {id}
  BY <1>1, <1>5 DEF Late
<1>11. TypeOK'
  BY <1>1, <1>3, <1>5 DEF IInv, TypeOK
<1>12. Engaged' /\ TablesHoldOpenCalls'
  BY <1>5 DEF IInv, Engaged, TablesHoldOpenCalls
<1>13. TracesBegun'
  BY <1>2, <1>3, <1>5, <1>6 DEF IInv, TracesBegun
<1>14. Unseen'
  BY <1>1, <1>2, <1>3, <1>4, <1>5, <1>6 DEF IInv, Unseen
<1>15. Tracked'
  <2>1. \A f \in Fsm : stage[f] = "tracked" => call[f] \in Id /\ call[f] # id
    BY <1>2 DEF IInv, TracesBegun, Tracked, Begun
  <2>2. QED
    BY <1>3, <1>5, <1>6, <2>1 DEF IInv, Tracked
<1>16. Awaited'
  BY <1>3, <1>5, <1>6, <1>7 DEF IInv, Awaited
<1>17. AtOnePlace'
  BY <1>5, <1>6, <1>7 DEF IInv, AtOnePlace
<1>18. InPhase'
  <2>1. outstanding' = {k \in Id : work'[k] \in {"read", "write"}}
    BY <1>1, <1>3 DEF IInv, InPhase
  <2>2. \A n \in Msgs(toPlugin) :
           n.op = "served" /\ n.id \notin Late' => n.id \in outstanding'
    BY <1>1, <1>7 DEF IInv, InPhase
  <2>3. \A n \in Msgs(toNode) \cup spawned :
          /\ n.op = "answer" => work'[n.id] = "answered"
          /\ n.op # "answer" /\ n.id \notin Late' => work'[n.id] = n.op
    BY <1>2, <1>3, <1>4, <1>7 DEF IInv, InPhase
  <2>4. \A s \in serving : s.id \notin Late' => work'[s.id] = s.op
    BY <1>3, <1>4, <1>7 DEF IInv, InPhase
  <2>5. \A k \in Id : channel[k] # NULL \/ outcome[k] \in {"ok", "error"} =>
          /\ work'[k] = "answered"
          /\ k \notin Late' => k \notin AtPlugin \cup AtNode \cup Spawned \cup Serving
    BY <1>2, <1>3, <1>7 DEF IInv, InPhase
  <2>6. QED
    BY <1>5, <1>6, <2>1, <2>2, <2>3, <2>4, <2>5 DEF InPhase
<1>19. GaveUpRefused'
  <2>1. channel[id] # "ok" /\ outcome[id] # "ok"
    BY <1>2, IdShape DEF IInv, InPhase
  <2>2. \A n \in Msgs(toNode) \cup spawned : n.op = "answer" => n.id # id
    BY <1>2 DEF IInv, InPhase
  <2>3. QED
    BY <1>1, <1>3, <1>5, <2>1, <2>2 DEF IInv, TypeOK, GaveUpRefused
<1>20. Confirmed'
  <2>1. \A n \in Msgs(toPlugin) :
           n.op = "served" /\ n.ok /\ n.id \notin Late' /\ work'[n.id] = "write" => n.id \in Wrote
    BY <1>3, <1>4, <1>7 DEF IInv, Confirmed
  <2>2. \A k \in Id \ Late' :
          k[2] = "deliver" =>
            (work'[k] = "written" \/ channel[k] = "ok" \/ outcome[k] = "ok" => k \in Wrote)
    BY <1>3, <1>7 DEF IInv, Confirmed
  <2>3. QED
    BY <1>5, <1>6, <1>7, <2>1, <2>2 DEF IInv, Confirmed
<1>21. ServedForOwner' /\ FlushedWithItsWrite'
  BY <1>5 DEF IInv, ServedForOwner, FlushedWithItsWrite
<1>22. TouchesOwnTransaction' /\ DeathNeedsTimeout'
  BY <1>1, <1>5 DEF IInv, TouchesOwnTransaction, DeathNeedsTimeout, TimedOut
<1>23. QED
  BY <1>11, <1>12, <1>13, <1>14, <1>15, <1>16, <1>17, <1>18, <1>19, <1>20, <1>21, <1>22 DEF IInv

\* The plugin stops on an unknown id only when somebody stopped waiting in the request.
LEMMA PluginDiesKeeps ==
  ASSUME IInv, PluginDies
  PROVE  IInv'
<1> DEFINE m == Head(toPlugin)
<1>1. m \in Msgs(toPlugin) /\ m.id \in Id
  <2>1. toPlugin \in Seq(ToPlugin) /\ toPlugin # <<>>
    BY DEF IInv, TypeOK, PluginDies
  <2>2. m \in Msgs(toPlugin) /\ m \in ToPlugin
    BY <2>1, QueueTail
  <2>3. QED
    BY <2>2 DEF ToPlugin
<1>2. m.id \in Late
  BY <1>1 DEF IInv, InPhase, PluginDies
<1>3. \E id \in Id : TimedOut(id)
  BY <1>1, <1>2 DEF Late, TimedOut
<1> USE DEF PluginDies, txnVars, callVars, tableVars, serviceVars, pluginVars
<1>4. /\ AtPlugin' = AtPlugin /\ AtNode' = AtNode /\ Spawned' = Spawned /\ Serving' = Serving
      /\ Late' = Late /\ Begun' = Begun /\ Wrote' = Wrote /\ Ids(touched)' = Ids(touched)
  BY DEF AtPlugin, AtNode, Spawned, Serving, Late, Begun, Wrote
<1>5. TypeOK'
  BY DEF IInv, TypeOK
<1>6. Engaged' /\ TracesBegun' /\ Unseen'
  BY <1>4 DEF IInv, Engaged, TracesBegun, Unseen
<1>7. Tracked' /\ TablesHoldOpenCalls'
  BY <1>4 DEF IInv, Tracked, TablesHoldOpenCalls
<1>8. Awaited' /\ AtOnePlace' /\ InPhase' /\ GaveUpRefused' /\ Confirmed'
  BY <1>4 DEF IInv, Awaited, AtOnePlace, InPhase, GaveUpRefused, Confirmed
<1>9. ServedForOwner' /\ TouchesOwnTransaction' /\ FlushedWithItsWrite' /\ DeathNeedsTimeout'
  BY <1>3 DEF IInv, ServedForOwner, TouchesOwnTransaction, FlushedWithItsWrite,
              DeathNeedsTimeout, TimedOut
<1>10. QED
  BY <1>5, <1>6, <1>7, <1>8, <1>9 DEF IInv

-----------------------------------------------------------------------------
\* A step that changes nothing keeps the invariant.
LEMMA StutterKeeps ==
  ASSUME IInv, UNCHANGED vars
  PROVE  IInv'
<1> USE DEF vars, txnVars, callVars, tableVars, serviceVars, pluginVars
<1>1. /\ AtPlugin' = AtPlugin /\ AtNode' = AtNode /\ Spawned' = Spawned /\ Serving' = Serving
      /\ Late' = Late /\ Begun' = Begun /\ Wrote' = Wrote /\ Ids(touched)' = Ids(touched)
  BY DEF AtPlugin, AtNode, Spawned, Serving, Late, Begun, Wrote
<1>2. TypeOK'
  BY DEF IInv, TypeOK
<1>3. Engaged' /\ TracesBegun' /\ Unseen'
  BY <1>1 DEF IInv, Engaged, TracesBegun, Unseen
<1>4. Tracked' /\ TablesHoldOpenCalls'
  BY <1>1 DEF IInv, Tracked, TablesHoldOpenCalls
<1>5. Awaited' /\ AtOnePlace' /\ InPhase' /\ GaveUpRefused' /\ Confirmed'
  BY <1>1 DEF IInv, Awaited, AtOnePlace, InPhase, GaveUpRefused, Confirmed
<1>6. ServedForOwner' /\ TouchesOwnTransaction' /\ FlushedWithItsWrite' /\ DeathNeedsTimeout'
  BY DEF IInv, ServedForOwner, TouchesOwnTransaction, FlushedWithItsWrite,
         DeathNeedsTimeout, TimedOut
<1>7. QED
  BY <1>2, <1>3, <1>4, <1>5, <1>6 DEF IInv

\* At the start nothing is under way.
LEMMA InitIInv == LinkInit => IInv
<1> SUFFICES ASSUME LinkInit PROVE IInv
  OBVIOUS
<1> USE DEF LinkInit
<1>1. /\ Msgs(toPlugin) = {} /\ Msgs(toNode) = {} /\ AtPlugin = {} /\ AtNode = {}
      /\ Spawned = {} /\ Serving = {} /\ Ids(touched) = {}
      /\ \A k : OnceIn(toPlugin, k) /\ OnceIn(toNode, k)
  BY DEF Msgs, AtPlugin, AtNode, Spawned, Serving, Ids, OnceIn
<1>2. TypeOK
  BY DEF TypeOK, Progress
<1>3. Engaged
  BY DEF Engaged
<1>4. TracesBegun /\ Unseen
  BY <1>1 DEF TracesBegun, Unseen
<1>5. Tracked /\ TablesHoldOpenCalls
  BY DEF Tracked, TablesHoldOpenCalls
<1>6. Awaited /\ AtOnePlace
  BY <1>1 DEF Awaited, AtOnePlace
<1>7. InPhase
  BY <1>1, IdShape DEF InPhase
<1>8. GaveUpRefused /\ Confirmed
  BY <1>1, IdShape DEF GaveUpRefused, Confirmed
<1>9. ServedForOwner /\ TouchesOwnTransaction /\ FlushedWithItsWrite /\ DeathNeedsTimeout
  BY DEF ServedForOwner, TouchesOwnTransaction, FlushedWithItsWrite, DeathNeedsTimeout
<1>10. QED
  BY <1>2, <1>3, <1>4, <1>5, <1>6, <1>7, <1>8, <1>9 DEF IInv

\* Every step of the two processes keeps the invariant.
LEMMA StepIInv == IInv /\ [LinkNext]_vars => IInv'
<1> SUFFICES ASSUME IInv, [LinkNext]_vars PROVE IInv'
  OBVIOUS
<1>1. CASE NodeStep
  <2>1. CASE \E f \in Fsm : DeliverTransaction(f)
    BY <2>1, DeliverTransactionKeeps
  <2>2. CASE \E f \in Fsm : EndTransaction(f)
    BY <2>2, EndTransactionKeeps
  <2>3. CASE \E f \in Fsm : SendRequest(f)
    BY <2>3, SendRequestKeeps
  <2>4. CASE \E f \in Fsm : ReceiveAnswer(f)
    BY <2>4, ReceiveAnswerKeeps
  <2>5. CASE Listen
    BY <2>5, ListenKeeps
  <2>6. CASE \E m \in spawned : HandleAnswer(m)
    BY <2>6, HandleAnswerKeeps
  <2>7. CASE \E m \in spawned : FindMachine(m)
    BY <2>7, FindMachineKeeps
  <2>8. CASE \E s \in serving, ok \in BOOLEAN : Serve(s, ok)
    BY <2>8, ServeKeeps
  <2>9. CASE NodeDies
    BY <2>9, NodeDiesKeeps
  <2>10. QED
    BY <1>1, <2>1, <2>2, <2>3, <2>4, <2>5, <2>6, <2>7, <2>8, <2>9 DEF NodeStep
<1>2. CASE PluginStep
  <2>1. CASE ReceiveRequest
    BY <2>1, ReceiveRequestKeeps
  <2>2. CASE ReceiveServed
    BY <2>2, ReceiveServedKeeps
  <2>3. CASE PluginDies
    BY <2>3, PluginDiesKeeps
  <2>4. CASE \E id \in Id : Continue(id)
    BY <2>4, ContinueKeeps
  <2>5. QED
    BY <1>2, <2>1, <2>2, <2>3, <2>4 DEF PluginStep
<1>3. CASE \E f \in Fsm, t \in Txn : BeginTransaction(f, t)
  BY <1>3, BeginTransactionKeeps
<1>4. CASE \E f \in Fsm : NodeTimeout(f)
  BY <1>4, NodeTimeoutKeeps
<1>5. CASE \E id \in Id : PluginTimeout(id)
  BY <1>5, PluginTimeoutKeeps
<1>6. CASE UNCHANGED vars
  BY <1>6, StutterKeeps
<1>7. QED
  BY <1>1, <1>2, <1>3, <1>4, <1>5, <1>6 DEF LinkNext

\* So the invariant holds in every behaviour.
LEMMA IInvAlways == LinkSpec => []IInv
BY InitIInv, StepIInv, PTL DEF LinkSpec

-----------------------------------------------------------------------------
\* Whatever the number of machines, transactions and timeouts: a request reads and writes
\* only for its own machine, and inside its own transaction unless somebody stopped waiting
\* (handleStateReadRequest and handleStateWriteRequest, lib/plugin.go).
THEOREM TouchesAlwaysOwn == LinkSpec => []TouchesOwnTransaction
<1>1. IInv => TouchesOwnTransaction
  BY DEF IInv
<1>2. QED
  BY <1>1, IInvAlways, PTL

\* A transaction that ApplyTransactions flushes has its write in its own store transaction.
THEOREM AlwaysFlushedWithWrite == LinkSpec => []FlushedWithItsWrite
<1>1. IInv => FlushedWithItsWrite
  BY DEF IInv
<1>2. QED
  BY <1>1, IInvAlways, PTL

\* The tables pending and requestFSMs never hold a request that its machine has left.
THEOREM TablesAlwaysOpenCalls == LinkSpec => []TablesHoldOpenCalls
<1>1. IInv => TablesHoldOpenCalls
  BY DEF IInv
<1>2. QED
  BY <1>1, IInvAlways, PTL

\* Without a timeout on one side, neither process ever meets an id it does not know.
THEOREM DeathAlwaysNeedsTimeout == LinkSpec => []DeathNeedsTimeout
<1>1. IInv => DeathNeedsTimeout
  BY DEF IInv
<1>2. QED
  BY <1>1, IInvAlways, PTL

=============================================================================
