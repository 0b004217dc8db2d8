------------------------------ MODULE PluginLink ------------------------------
(***************************************************************************)
(* The socket between the node and the contract.  The state machines of    *)
(* the node (one for blocks, one for the mempool) share one connection:    *)
(* each asks the plugin to check a transaction and then to deliver it, and *)
(* while the plugin works it reads and writes the store of the machine     *)
(* that asked, under the id of the request.  The node runs a goroutine for *)
(* every message it receives; the plugin is a single event loop.  Either   *)
(* side stops the whole process when a message has an id it does not know, *)
(* and either side may stop waiting.                                       *)
(* Left out: the handshake, the detached queries, and Genesis, Begin and   *)
(* End, which the plugin answers at once.                                  *)
(***************************************************************************)
EXTENDS Naturals, FiniteSets, Sequences

CONSTANTS
  Fsm,         \* the state machines that share the plugin
  MaxTxn,      \* bound on the transactions of a behaviour
  MaxReads,    \* bound on the reads of one request
  MaxTimeouts, \* bound on the requests in which somebody stops waiting
  NULL

ASSUME LinkAssumption ==
  /\ MaxTxn \in Nat
  /\ MaxReads \in Nat \ {0}
  /\ MaxTimeouts \in Nat
  /\ NULL \notin Fsm \cup Nat \cup {"ok", "error", "timeout"}

\* Transactions by number; a request's random id stands for what it is about.
Txn == 1 .. MaxTxn
Id == Txn \X {"check", "deliver"}
TxnOf(id) == id[1]

VARIABLES
  owner,       \* the machine that executes a transaction
  fate,        \* what became of a transaction
  current,     \* the store transaction a machine has open
  call,        \* the request a machine has made last
  stage,       \* how far a machine is with that request
  outcome,     \* what a request returned to its machine
  pending,     \* p.pending: the requests that wait for an answer
  channel,     \* the answer in the channel of a request
  requestFSMs, \* p.requestFSMs: the machine behind a request
  toPlugin, toNode,   \* the two directions of the socket
  spawned,     \* messages received whose goroutine has not looked at them yet
  serving,     \* reads and writes whose goroutine has found its machine
  touched,     \* history: the reads and writes that were executed, and where
  outstanding, \* the plugin's pending: requests that wait for a read or write
  work,        \* how far the plugin is with a request
  reads,       \* how many reads it made for it
  gaveUp,      \* history: the requests the plugin stopped waiting in
  nodeUp, pluginUp

txnVars == <<owner, fate, current>>
callVars == <<call, stage, outcome>>
tableVars == <<pending, channel, requestFSMs>>
serviceVars == <<spawned, serving, touched>>
pluginVars == <<outstanding, work, reads, gaveUp>>
vars == <<txnVars, callVars, tableVars, toPlugin, toNode, serviceVars, pluginVars,
          nodeUp, pluginUp>>

-----------------------------------------------------------------------------
\* One side stopped waiting in a request.
TimedOut(id) == outcome[id] = "timeout" \/ id \in gaveUp

MayTimeOut(id) ==
  TimedOut(id) \/ Cardinality({i \in Id : TimedOut(i)}) < MaxTimeouts

-----------------------------------------------------------------------------
\* The requests of the node to the plugin.

\* Mutants: the request is sent without its machine, or kept after a timeout.
TrackAnswerOnly(f, id) == pending' = pending \cup {id} /\ UNCHANGED requestFSMs
KeepTracking(id) == UNCHANGED <<pending, requestFSMs>>

\* What sendToPluginAsync enters under the lock, before it sends, and what
\* waitForResponse and handlePluginResponse take out again.
Track(f, id) ==
  /\ pending' = pending \cup {id}
  /\ requestFSMs' = [requestFSMs EXCEPT ![id] = f]
Forget(id) ==
  /\ pending' = pending \ {id}
  /\ requestFSMs' = [requestFSMs EXCEPT ![id] = NULL]

StartCall(f, id) ==
  /\ Track(f, id)
  /\ call' = [call EXCEPT ![f] = id]
  /\ stage' = [stage EXCEPT ![f] = "tracked"]
  /\ UNCHANGED <<outcome, channel, toPlugin, toNode, serviceVars, pluginVars,
                 nodeUp, pluginUp>>

\* ApplyTransactions wraps the store for the next transaction, in its first pass
\* and again in its second, and CheckTx asks the plugin about it.
BeginTransaction(f, t) ==
  /\ nodeUp
  /\ current[f] = NULL
  /\ fate[t] = "none"
  /\ \A u \in 1 .. t - 1 : fate[u] # "none"
  /\ owner' = [owner EXCEPT ![t] = f]
  /\ fate' = [fate EXCEPT ![t] = "open"]
  /\ current' = [current EXCEPT ![f] = t]
  /\ StartCall(f, <<t, "check">>)

\* ApplyTransaction delivers what passed the check.
DeliverTransaction(f) ==
  /\ nodeUp
  /\ stage[f] = "idle"
  /\ current[f] # NULL
  /\ call[f] = <<current[f], "check">>
  /\ outcome[call[f]] = "ok"
  /\ StartCall(f, <<current[f], "deliver">>)
  /\ UNCHANGED txnVars

\* ApplyTransactions flushes what was delivered and drops the rest, such as the
\* transactions of its first pass, which only checks; the store of the machine
\* is the one below again.
EndTransaction(f) ==
  /\ nodeUp
  /\ stage[f] = "idle"
  /\ current[f] # NULL
  /\ LET t == current[f]
     IN fate' = [fate EXCEPT ![t] = IF call[f] = <<t, "deliver">> /\ outcome[call[f]] = "ok"
                                    THEN "flushed" ELSE "dropped"]
  /\ current' = [current EXCEPT ![f] = NULL]
  /\ UNCHANGED <<owner, callVars, tableVars, toPlugin, toNode, serviceVars, pluginVars,
                 nodeUp, pluginUp>>

\* sendProtoMsg in sendToPluginAsync.
SendRequest(f) ==
  /\ nodeUp
  /\ stage[f] = "tracked"
  /\ stage' = [stage EXCEPT ![f] = "waiting"]
  /\ toPlugin' = Append(toPlugin, [op |-> "request", id |-> call[f], ok |-> TRUE])
  /\ UNCHANGED <<txnVars, call, outcome, tableVars, toNode, serviceVars, pluginVars,
                 nodeUp, pluginUp>>

\* waitForResponse receives from the channel.
ReceiveAnswer(f) ==
  /\ nodeUp
  /\ stage[f] = "waiting"
  /\ channel[call[f]] # NULL
  /\ outcome' = [outcome EXCEPT ![call[f]] = channel[call[f]]]
  /\ channel' = [channel EXCEPT ![call[f]] = NULL]
  /\ requestFSMs' = [requestFSMs EXCEPT ![call[f]] = NULL]
  /\ stage' = [stage EXCEPT ![f] = "idle"]
  /\ UNCHANGED <<txnVars, call, pending, toPlugin, toNode, serviceVars, pluginVars,
                 nodeUp, pluginUp>>

\* waitForResponse times out, even with an answer already in the channel.
NodeTimeout(f) ==
  /\ nodeUp
  /\ stage[f] = "waiting"
  /\ MayTimeOut(call[f])
  /\ outcome' = [outcome EXCEPT ![call[f]] = "timeout"]
  /\ Forget(call[f])
  /\ stage' = [stage EXCEPT ![f] = "idle"]
  /\ UNCHANGED <<txnVars, call, channel, toPlugin, toNode, serviceVars, pluginVars,
                 nodeUp, pluginUp>>

-----------------------------------------------------------------------------
\* What the node does with the messages of the plugin.

\* ListenForInbound: a goroutine of its own for every message.
Listen ==
  /\ nodeUp
  /\ toNode # <<>>
  /\ spawned' = spawned \cup {Head(toNode)}
  /\ toNode' = Tail(toNode)
  /\ UNCHANGED <<txnVars, callVars, tableVars, toPlugin, serving, touched, pluginVars,
                 nodeUp, pluginUp>>

\* handlePluginResponse, for an id that is pending.
HandleAnswer(m) ==
  /\ nodeUp
  /\ m \in spawned
  /\ m.op = "answer"
  /\ m.id \in pending
  /\ spawned' = spawned \ {m}
  /\ Forget(m.id)
  /\ channel' = [channel EXCEPT ![m.id] = IF m.ok THEN "ok" ELSE "error"]
  /\ UNCHANGED <<txnVars, callVars, toPlugin, toNode, serving, touched, pluginVars,
                 nodeUp, pluginUp>>

\* Mutant: one context for the connection, the last machine that asked.
LatestMachine(id) == CHOOSE f \in Fsm : stage[f] = "waiting"

\* The machine that handleStateReadRequest and handleStateWriteRequest find.
MachineOf(id) == requestFSMs[id]

\* The lookup of both, under the lock that is released before the store is used.
FindMachine(m) ==
  /\ nodeUp
  /\ m \in spawned
  /\ m.op \in {"read", "write"}
  /\ requestFSMs[m.id] # NULL
  /\ spawned' = spawned \ {m}
  /\ serving' = serving \cup {[op |-> m.op, id |-> m.id, fsm |-> MachineOf(m.id)]}
  /\ UNCHANGED <<txnVars, callVars, tableVars, toPlugin, toNode, touched, pluginVars,
                 nodeUp, pluginUp>>

\* Mutant: a read or write that failed is not answered.
ReplyToSuccess(s, ok) ==
  IF ok THEN Append(toPlugin, [op |-> "served", id |-> s.id, ok |-> ok]) ELSE toPlugin

\* The answer to a read or a write carries its error.
Reply(s, ok) == Append(toPlugin, [op |-> "served", id |-> s.id, ok |-> ok])

\* StateRead or StateWrite, on whatever store the machine has now.
Serve(s, ok) ==
  /\ nodeUp
  /\ s \in serving
  /\ serving' = serving \ {s}
  /\ touched' = IF ok THEN touched \cup {[op |-> s.op, id |-> s.id, fsm |-> s.fsm,
                                          txn |-> current[s.fsm]]}
                ELSE touched
  /\ toPlugin' = Reply(s, ok)
  /\ UNCHANGED <<txnVars, callVars, tableVars, toNode, spawned, pluginVars,
                 nodeUp, pluginUp>>

\* log.Fatal: an id that is not known any more, or a socket that was closed.  The
\* plugin exits with it: what it still does reaches nobody.
NodeDies ==
  /\ nodeUp
  /\ \/ \E m \in spawned : m.op = "answer" /\ m.id \notin pending
     \/ \E m \in spawned : m.op \in {"read", "write"} /\ requestFSMs[m.id] = NULL
     \/ ~pluginUp /\ toNode = <<>>
  /\ nodeUp' = FALSE
  /\ pluginUp' = FALSE
  /\ UNCHANGED <<txnVars, callVars, tableVars, toPlugin, toNode, serviceVars, pluginVars>>

-----------------------------------------------------------------------------
\* The plugin.

Tell(op, id, ok) == toNode' = Append(toNode, [op |-> op, id |-> id, ok |-> ok])

\* sendToPluginAsync of the plugin: the read or write of a request has its id.
Ask(op, id) ==
  /\ outstanding' = outstanding \cup {id}
  /\ work' = [work EXCEPT ![id] = op]
  /\ reads' = IF op = "read" THEN [reads EXCEPT ![id] = @ + 1] ELSE reads
  /\ Tell(op, id, TRUE)

Answer(id, ok) ==
  /\ work' = [work EXCEPT ![id] = "answered"]
  /\ Tell("answer", id, ok)
  /\ UNCHANGED <<outstanding, reads>>

\* handleMessageAsync: CheckTx and DeliverTx begin with a read, or refuse a
\* message they cannot decode.
ReceiveRequest ==
  /\ pluginUp
  /\ toPlugin # <<>>
  /\ Head(toPlugin).op = "request"
  /\ \/ Ask("read", Head(toPlugin).id)
     \/ Answer(Head(toPlugin).id, FALSE)
  /\ toPlugin' = Tail(toPlugin)
  /\ UNCHANGED <<txnVars, callVars, tableVars, serviceVars, gaveUp, nodeUp, pluginUp>>

\* handleFSMResponse, for an id that is outstanding: the handler goes on later.
ReceiveServed ==
  /\ pluginUp
  /\ toPlugin # <<>>
  /\ Head(toPlugin).op = "served"
  /\ Head(toPlugin).id \in outstanding
  /\ LET id == Head(toPlugin).id
     IN /\ outstanding' = outstanding \ {id}
        /\ work' = [work EXCEPT ![id] = IF ~Head(toPlugin).ok THEN "failed"
                                        ELSE IF @ = "read" THEN "haveRead" ELSE "written"]
  /\ toPlugin' = Tail(toPlugin)
  /\ UNCHANGED <<txnVars, callVars, tableVars, toNode, serviceVars, reads, gaveUp,
                 nodeUp, pluginUp>>

\* Mutant: a delivery is answered without waiting for its write.
DoneWhenSent(id) == work[id] \in {"haveRead", "written"}

\* A check is done after its read, a delivery when its write is confirmed.
Done(id) == work[id] = "written" \/ (work[id] = "haveRead" /\ id[2] = "check")

\* A handler goes on where it waited: it reads again, refuses, writes or answers.
Continue(id) ==
  /\ pluginUp
  /\ \/ work[id] = "haveRead" /\ reads[id] < MaxReads /\ Ask("read", id)
     \/ work[id] = "haveRead" /\ id[2] = "deliver" /\ Ask("write", id)
     \/ work[id] \in {"haveRead", "failed"} /\ Answer(id, FALSE)
     \/ Done(id) /\ Answer(id, TRUE)
  /\ UNCHANGED <<txnVars, callVars, tableVars, toPlugin, serviceVars, gaveUp,
                 nodeUp, pluginUp>>

StopWaiting(id) == outstanding' = outstanding \ {id}

\* waitForResponse of the plugin times out, and the handler answers the error.
PluginTimeout(id) ==
  /\ pluginUp
  /\ id \in outstanding
  /\ MayTimeOut(id)
  /\ StopWaiting(id)
  /\ work' = [work EXCEPT ![id] = "failed"]
  /\ gaveUp' = gaveUp \cup {id}
  /\ UNCHANGED <<txnVars, callVars, tableVars, toPlugin, toNode, serviceVars, reads,
                 nodeUp, pluginUp>>

\* process.exit: an id that is not known any more.
PluginDies ==
  /\ pluginUp
  /\ toPlugin # <<>>
  /\ Head(toPlugin).op = "served"
  /\ Head(toPlugin).id \notin outstanding
  /\ pluginUp' = FALSE
  /\ UNCHANGED <<txnVars, callVars, tableVars, toPlugin, toNode, serviceVars, pluginVars,
                 nodeUp>>

-----------------------------------------------------------------------------
LinkInit ==
  /\ owner = [t \in Txn |-> NULL]
  /\ fate = [t \in Txn |-> "none"]
  /\ current = [f \in Fsm |-> NULL]
  /\ call = [f \in Fsm |-> NULL]
  /\ stage = [f \in Fsm |-> "idle"]
  /\ outcome = [id \in Id |-> NULL]
  /\ pending = {}
  /\ channel = [id \in Id |-> NULL]
  /\ requestFSMs = [id \in Id |-> NULL]
  /\ toPlugin = <<>> /\ toNode = <<>>
  /\ spawned = {} /\ serving = {} /\ touched = {}
  /\ outstanding = {}
  /\ work = [id \in Id |-> "none"]
  /\ reads = [id \in Id |-> 0]
  /\ gaveUp = {}
  /\ nodeUp = TRUE /\ pluginUp = TRUE

\* What the node and the plugin do when they are scheduled.
NodeStep ==
  \/ \E f \in Fsm : \/ DeliverTransaction(f) \/ EndTransaction(f)
                    \/ SendRequest(f) \/ ReceiveAnswer(f)
  \/ Listen
  \/ \E m \in spawned : HandleAnswer(m) \/ FindMachine(m)
  \/ \E s \in serving, ok \in BOOLEAN : Serve(s, ok)
  \/ NodeDies
PluginStep ==
  \/ ReceiveRequest \/ ReceiveServed \/ PluginDies
  \/ \E id \in Id : Continue(id)

LinkNext ==
  \/ NodeStep
  \/ PluginStep
  \/ \E f \in Fsm, t \in Txn : BeginTransaction(f, t)
  \/ \E f \in Fsm : NodeTimeout(f)
  \/ \E id \in Id : PluginTimeout(id)

\* Both processes keep running what they can run; no timer has to expire and
\* no transaction has to come.
LinkSpec ==
  /\ LinkInit
  /\ [][LinkNext]_vars
  /\ WF_vars(NodeStep)
  /\ WF_vars(PluginStep)

-----------------------------------------------------------------------------
\* Although two machines use one connection and every message has a goroutine
\* of its own, a request reads and writes only for the machine that made it,
\* and, unless somebody stopped waiting in it, only inside its own transaction.
TouchesOwnTransaction ==
  \A x \in touched :
    /\ x.fsm = owner[TxnOf(x.id)]
    /\ x.txn = TxnOf(x.id) \/ TimedOut(x.id)

\* A transaction is flushed with its write in it: the write came back
\* confirmed before the answer that lets the node flush.
FlushedWithItsWrite ==
  \A t \in Txn :
    fate[t] = "flushed" =>
      [op |-> "write", id |-> <<t, "deliver">>, fsm |-> owner[t], txn |-> t] \in touched

\* No request stays in the node's tables once its machine has gone on,
\* whichever of answer and timeout came first.
TablesHoldOpenCalls ==
  \A id \in Id :
    id \in pending \/ requestFSMs[id] # NULL =>
      \E f \in Fsm : call[f] = id /\ stage[f] # "idle" /\ requestFSMs[id] = f

\* The processes stop on an unknown id only after a timeout on one side: no
\* order of goroutines and messages alone makes an id unknown.
DeathNeedsTimeout == ~nodeUp \/ ~pluginUp => \E id \in Id : TimedOut(id)

\* Without relying on any timer, every request a machine waits in returns, or
\* the node has stopped: no answer is lost and nobody waits for each other.
CallsReturn == \A f \in Fsm : stage[f] = "waiting" ~> (stage[f] # "waiting" \/ ~nodeUp)
=============================================================================
