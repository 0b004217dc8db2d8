---------------------------- MODULE NestBFTProofs ----------------------------
(***************************************************************************)
(* Proofs about the consensus of a height, for any validators, quorums,    *)
(* candidates, blocks, root heights and rounds.  The inductive invariant   *)
(* says what votes and certificates attest: a validator votes once in a    *)
(* view and keeps the lock of what it voted to commit, whoever is elected  *)
(* heeds the locks of the electors, and a vote against a lock is cast when *)
(* the locked block can no longer be committed.                            *)
(***************************************************************************)
EXTENDS BFTProperties, TLAPS

Locks == Certificate \cup {NULL}

\* Every variable and message has its shape.
TypeOK ==
    /\ view \in [Node -> View]
    /\ phase \in [Node -> Phase]
    /\ leader \in [Node -> Node \cup {NULL}]
    /\ block \in [Node -> Block \cup {NULL}]
    /\ highQC \in [Node -> Locks]
    /\ electionVotes \subseteq [from : Node, view : View, to : Node, high : Locks]
    /\ proposals \subseteq [from : Node, view : View, block : Block, high : Locks]
    /\ proposeVotes \subseteq [from : Node, view : View, to : Node, block : Block]
    /\ precommits \subseteq [from : Node, view : View, block : Block]
    /\ precommitVotes \subseteq [from : Node, view : View, to : Node, block : Block]
    /\ commits \subseteq [from : Node, view : View, block : Block]
    /\ heard \subseteq electionVotes
    /\ gossip \subseteq Block
    /\ committed \in [Node -> Block \cup {NULL}]

\* A validator has voted in a view that it is past, or in its view and phase.
HasVoted == {"PrecommitVote", "CommitProcess", "Wait"}

VotesBehind ==
    /\ \A m \in electionVotes : m.from \in Honest => ~Less(view[m.from], m.view)
    /\ \A m \in precommitVotes : m.from \in Honest => ~Less(view[m.from], m.view)
    /\ \A m \in proposeVotes : m.from \in Honest =>
          \/ Less(m.view, view[m.from])
          \/ m.view = view[m.from] /\ phase[m.from] \in HasVoted

\* One proposal gets the vote of a validator in a view.
OneVote ==
    \A k, m \in proposeVotes :
        k.from = m.from /\ k.from \in Honest /\ k.view = m.view => k.block = m.block

\* Every lock, and whatever follows from votes, has two thirds of them behind it.
Certified ==
    /\ highQC \in [Node -> ProposeQC \cup {NULL}]
    /\ \A m \in electionVotes \cup proposals : m.high \in ProposeQC \cup {NULL}
    /\ \A m \in precommits \cup precommitVotes : Subject(m) \in ProposeQC
    /\ \A m \in commits : Subject(m) \in CommitQC
    /\ \A b \in gossip : \E c \in CommitQC : c.block = b
    /\ \A n \in Node : committed[n] # NULL => \E c \in CommitQC : c.block = committed[n]

\* No lock and no heard vote is of a later root height than its holder.
RootsBehind ==
    /\ \A n \in Node : highQC[n] # NULL => highQC[n].view.root <= view[n].root
    /\ \A m \in electionVotes : m.high # NULL => m.high.view.root <= m.view.root
    /\ \A m \in heard : m.view.root <= view[m.to].root

\* An election vote reports the lock of what its sender voted to commit before.
PromiseReported ==
    \A m \in electionVotes, k \in precommitVotes :
        k.from = m.from /\ m.from \in Honest /\ Less(k.view, m.view)
        => m.high # NULL /\ ~Less(m.high.view, k.view)

\* A leader has a lock as late as those it heard of, or one of its root height.
HeardHeeded ==
    \A m \in heard :
        m.high # NULL /\ m.view.root = view[m.to].root =>
            /\ highQC[m.to] # NULL
            /\ \/ ~Less(highQC[m.to].view, m.high.view)
               \/ highQC[m.to].view.root = view[m.to].root

IInv == /\ TypeOK /\ VotesBehind /\ OneVote /\ Certified /\ RootsBehind
        /\ PromiseKept /\ PromiseReported /\ HeardHeeded /\ ElectorsHeeded
        /\ UnlockedWhenRefuted

-----------------------------------------------------------------------------
\* Views are totally ordered.
LEMMA LessIsOrder ==
  /\ \A u \in View : ~Less(u, u)
  /\ \A u, v, w \in View : Less(u, v) /\ Less(v, w) => Less(u, w)
  /\ \A u, v \in View : Less(u, v) => ~Less(v, u)
  /\ \A u, v \in View : Less(u, v) \/ Less(v, u) \/ u = v
<1>1. \A u \in View : u \in [root : Nat, round : Nat]
  BY BFTAssumption
<1>2. \A u, v \in View : u.root = v.root /\ u.round = v.round => u = v
  BY <1>1
<1>3. \A u \in View : u.root \in Nat /\ u.round \in Nat
  BY <1>1
<1>4. QED
  BY <1>2, <1>3 DEF Less

\* The initial states are of the right shape.
LEMMA InitTypeOK == Init => TypeOK
BY DEF Init, TypeOK, Phase, Locks

\* A lock that is taken in a vote is a certificate.
LEMMA StepTypeOK == TypeOK /\ [Next]_vars => TypeOK'
<1> SUFFICES ASSUME TypeOK, [Next]_vars PROVE TypeOK'
  OBVIOUS
<1>1. ASSUME NEW n \in Node, NEW p \in Candidate[view[n]], ElectionVote(n, p)
      PROVE  TypeOK'
  <2>1. p \in Node \cup {NULL}
    BY <1>1, BFTAssumption DEF TypeOK
  <2>2. electionVotes' \subseteq [from : Node, view : View, to : Node, high : Locks]
    BY <1>1, <2>1 DEF ElectionVote, TypeOK
  <2>3. QED
    BY <1>1, <2>2 DEF ElectionVote, TypeOK, Phase
<1>2. ASSUME NEW m \in electionVotes, HearElectionVote(m) PROVE TypeOK'
  BY <1>2 DEF HearElectionVote, TypeOK
<1>3. ASSUME NEW n \in Node, NEW b \in Block, Propose(n, b) PROVE TypeOK'
  BY <1>3 DEF Propose, TypeOK, Phase
<1>4. ASSUME NEW n \in Node, NEW m \in proposals, ProposeVote(n, m) PROVE TypeOK'
  BY <1>4 DEF ProposeVote, TypeOK, Phase
<1>5. ASSUME NEW n \in Node, Precommit(n) PROVE TypeOK'
  BY <1>5 DEF Precommit, TypeOK, replica
<1>6. ASSUME NEW n \in Node, NEW m \in precommits, PrecommitVote(n, m) PROVE TypeOK'
  BY <1>6 DEF PrecommitVote, TypeOK, Phase, Locks, Certificate
<1>7. ASSUME NEW n \in Node, Commit(n) PROVE TypeOK'
  BY <1>7 DEF Commit, TypeOK, replica
<1>8. ASSUME NEW n \in Node, NEW m \in commits, CommitProcess(n, m) PROVE TypeOK'
  BY <1>8 DEF CommitProcess, TypeOK, Phase
<1>9. ASSUME NEW n \in Node, NEW b \in gossip, HandleBlock(n, b) PROVE TypeOK'
  BY <1>9 DEF HandleBlock, TypeOK, replica, messages
<1>10. ASSUME NEW n \in Node, NEW v \in View, RoundInterrupt(n, v) PROVE TypeOK'
  BY <1>10 DEF RoundInterrupt, EnterRound, TypeOK, Phase
<1>11. ASSUME NEW n \in Node, NEW v \in View, RootReset(n, v) PROVE TypeOK'
  BY <1>11 DEF RootReset, EnterRound, TypeOK, Phase, messages
<1>12. ASSUME NEW n \in Node, NEW v \in View, Restart(n, v) PROVE TypeOK'
  BY <1>12 DEF Restart, EnterRound, TypeOK, Phase, Locks
<1>13. CASE UNCHANGED vars
  BY <1>13 DEF vars, replica, messages, TypeOK
<1>14. QED
  BY <1>1, <1>2, <1>3, <1>4, <1>5, <1>6, <1>7, <1>8, <1>9, <1>10, <1>11, <1>12, <1>13
     DEF Next, Lead, Follow, ChangeView

-----------------------------------------------------------------------------
\* Messages are never taken back.
LEMMA MessagesGrow ==
  ASSUME TypeOK, [Next]_vars
  PROVE  /\ electionVotes \subseteq electionVotes'
         /\ proposals \subseteq proposals'
         /\ proposeVotes \subseteq proposeVotes'
         /\ precommits \subseteq precommits'
         /\ precommitVotes \subseteq precommitVotes'
         /\ commits \subseteq commits'
         /\ gossip \subseteq gossip'
<1>1. CASE \E n \in Node : Lead(n)
  BY <1>1 DEF Lead, Propose, Precommit, Commit
<1>2. CASE \E n \in Node : Follow(n)
  BY <1>2 DEF Follow, ElectionVote, ProposeVote, PrecommitVote, CommitProcess, HandleBlock, messages
<1>3. CASE \E n \in Node : ChangeView(n)
  BY <1>3 DEF ChangeView, RoundInterrupt, RootReset, Restart, messages
<1>4. CASE \E m \in electionVotes : HearElectionVote(m)
  BY <1>4 DEF HearElectionVote
<1>5. CASE UNCHANGED vars
  BY <1>5 DEF vars, messages
<1>6. QED
  BY <1>1, <1>2, <1>3, <1>4, <1>5 DEF Next

\* So certificates last.
LEMMA CertificatesLast ==
  ASSUME TypeOK, [Next]_vars
  PROVE  ProposeQC \subseteq ProposeQC' /\ CommitQC \subseteq CommitQC'
BY MessagesGrow DEF ProposeQC, CommitQC, CertificatesOf

\* An honest validator moves on to later views only, and within a view it does
\* not come back to a phase before its vote.
LEMMA ViewsAdvance ==
  ASSUME TypeOK, [Next]_vars, NEW n \in Honest
  PROVE  \/ Less(view[n], view'[n])
         \/ view'[n] = view[n] /\ (phase[n] \in HasVoted => phase'[n] \in HasVoted)
<1> USE DEF Honest
<1>1. ASSUME NEW k \in Node, NEW v \in View, RoundInterrupt(k, v) \/ RootReset(k, v)
      PROVE  Less(view[k], view'[k]) /\ \A j \in Node \ {k} : view'[j] = view[j] /\ phase'[j] = phase[j]
  <2>1. view'[k] = v /\ \A j \in Node \ {k} : view'[j] = view[j] /\ phase'[j] = phase[j]
    BY <1>1 DEF RoundInterrupt, RootReset, EnterRound, TypeOK
  <2>2. v.root \in Nat /\ v.round \in Nat /\ view[k].root \in Nat /\ view[k].round \in Nat
    BY BFTAssumption DEF TypeOK
  <2>3. Less(view[k], v)
    BY <1>1, <2>2 DEF RoundInterrupt, RootReset, Less
  <2>4. QED
    BY <2>1, <2>3
<1>2. ASSUME NEW k \in Node, NEW v \in View, Restart(k, v)
      PROVE  k # n /\ view'[n] = view[n] /\ phase'[n] = phase[n]
  BY <1>2 DEF Restart, EnterRound, TypeOK
<1>3. ASSUME \/ \E k \in Node : Lead(k) \/ Follow(k)
             \/ \E m \in electionVotes : HearElectionVote(m)
             \/ UNCHANGED vars
      PROVE  view'[n] = view[n] /\ (phase[n] \in HasVoted => phase'[n] \in HasVoted)
  BY <1>3 DEF TypeOK, Lead, Follow, ElectionVote, HearElectionVote, Propose, ProposeVote, Precommit,
     PrecommitVote, Commit, CommitProcess, HandleBlock, HasVoted, vars, replica, messages
<1>4. QED
  BY <1>1, <1>2, <1>3 DEF Next, ChangeView

\* The root height of a validator does not fall.
LEMMA RootsAdvance ==
  ASSUME TypeOK, [Next]_vars, NEW n \in Node
  PROVE  view[n].root <= view'[n].root
<1>0. \A v \in View : v.root \in Nat
  BY BFTAssumption
<1>1. CASE \E v \in View : RoundInterrupt(n, v) \/ RootReset(n, v) \/ Restart(n, v)
  BY <1>0, <1>1 DEF RoundInterrupt, RootReset, Restart, EnterRound, TypeOK
<1>2. CASE view'[n] = view[n]
  BY <1>0, <1>2 DEF TypeOK
<1>3. CASE \E k \in Node \ {n} : ChangeView(k)
  BY <1>0, <1>3 DEF ChangeView, RoundInterrupt, RootReset, Restart, EnterRound, TypeOK
<1>4. QED
  BY <1>1, <1>2, <1>3 DEF Next, Lead, Follow, ChangeView, ElectionVote, HearElectionVote, Propose,
     ProposeVote, Precommit, PrecommitVote, Commit, CommitProcess, HandleBlock, vars, replica, messages

\* An election vote that is new to its receiver was just heard.
LEMMA NewHeard ==
  ASSUME [Next]_vars, NEW m \in heard', m \notin heard
  PROVE  m \in electionVotes /\ HearElectionVote(m)
<1>1. ASSUME NEW n \in Node, Lead(n) PROVE heard' = heard
  BY <1>1 DEF Lead, Propose, Precommit, Commit
<1>2. ASSUME NEW n \in Node, Follow(n) PROVE heard' = heard
  BY <1>2 DEF Follow, ElectionVote, ProposeVote, PrecommitVote, CommitProcess, HandleBlock,
     messages
<1>3. ASSUME NEW n \in Node, ChangeView(n) PROVE heard' \subseteq heard
  BY <1>3 DEF ChangeView, RoundInterrupt, RootReset, Restart, messages
<1>4. ASSUME NEW k \in electionVotes, HearElectionVote(k) PROVE heard' = heard \cup {k}
  BY <1>4 DEF HearElectionVote
<1>5. CASE UNCHANGED vars
  BY <1>5 DEF vars, messages
<1>6. CASE Next
  BY <1>1, <1>2, <1>3, <1>4, <1>6 DEF Next
<1>7. QED
  BY <1>5, <1>6

\* Nodes commit what certified blocks they are sent.
LEMMA NewCommitted ==
  ASSUME [Next]_vars, committed' # committed
  PROVE  \E n \in Node : \E b \in gossip : HandleBlock(n, b)
<1>1. ASSUME NEW n \in Node, Lead(n) PROVE committed' = committed
  BY <1>1 DEF Lead, Propose, Precommit, Commit
<1>2. ASSUME NEW n \in Node, Follow(n)
      PROVE  committed' = committed \/ \E b \in gossip : HandleBlock(n, b)
  BY <1>2 DEF Follow, ElectionVote, ProposeVote, PrecommitVote, CommitProcess
<1>3. ASSUME NEW n \in Node, ChangeView(n) PROVE committed' = committed
  BY <1>3 DEF ChangeView, RoundInterrupt, RootReset, Restart
<1>4. ASSUME NEW m \in electionVotes, HearElectionVote(m) PROVE committed' = committed
  BY <1>4 DEF HearElectionVote
<1>5. CASE UNCHANGED vars
  BY <1>5 DEF vars
<1>6. CASE Next
  BY <1>1, <1>2, <1>3, <1>4, <1>6 DEF Next
<1>7. QED
  BY <1>5, <1>6

\* What a new election vote says.
LEMMA NewElectionVote ==
  ASSUME TypeOK, [Next]_vars, NEW m \in electionVotes' \ electionVotes
  PROVE  /\ m.from \in Node /\ m.view = view[m.from] /\ m.high = highQC[m.from]
         /\ view' = view /\ UNCHANGED <<highQC, precommitVotes, proposals>>
<1>1. \E n \in Node : \E p \in Candidate[view[n]] : ElectionVote(n, p)
  BY DEF Next, Lead, Follow, ChangeView, HearElectionVote, Propose, ProposeVote,
     Precommit, PrecommitVote, Commit, CommitProcess, HandleBlock, RoundInterrupt, RootReset,
     Restart, EnterRound, vars, replica, messages
<1>2. QED
  BY <1>1 DEF ElectionVote

\* What a new vote for a proposal says.
LEMMA NewProposeVote ==
  ASSUME TypeOK, [Next]_vars, NEW m \in proposeVotes' \ proposeVotes
  PROVE  /\ m.from \in Node /\ m.view = view[m.from] /\ phase[m.from] \notin HasVoted
         /\ view' = view /\ phase'[m.from] \in HasVoted
         /\ \E p \in proposals :
               /\ p.view = m.view /\ p.block = m.block
               /\ highQC[m.from] # NULL => SafeNode(highQC[m.from], p.block, p.high)
         /\ \A k \in proposeVotes' \ proposeVotes : k = m
         /\ UNCHANGED <<precommitVotes, proposals, electionVotes>>
<1>1. \E n \in Node : \E p \in proposals : ProposeVote(n, p)
  BY DEF Next, Lead, Follow, ChangeView, ElectionVote, HearElectionVote, Propose,
     Precommit, PrecommitVote, Commit, CommitProcess, HandleBlock, RoundInterrupt, RootReset,
     Restart, EnterRound, vars, replica, messages
<1>2. QED
  BY <1>1 DEF ProposeVote, TypeOK, HasVoted

\* What a new vote to commit says: it comes with a lock.
LEMMA NewPrecommitVote ==
  ASSUME TypeOK, [Next]_vars, NEW m \in precommitVotes' \ precommitVotes
  PROVE  /\ m.from \in Node /\ m.view = view[m.from] /\ m.block \in Block
         /\ view' = view
         /\ highQC'[m.from] = [view |-> m.view, block |-> m.block]
         /\ \A n \in Node \ {m.from} : highQC'[n] = highQC[n]
         /\ \E p \in precommits : p.view = m.view /\ p.block = m.block
         /\ \A k \in precommitVotes' \ precommitVotes : k = m
         /\ UNCHANGED <<electionVotes, proposeVotes, proposals, heard, committed>>
<1>1. \E n \in Node : \E p \in precommits : PrecommitVote(n, p)
  BY DEF Next, Lead, Follow, ChangeView, ElectionVote, HearElectionVote, Propose, ProposeVote,
     Precommit, Commit, CommitProcess, HandleBlock, RoundInterrupt, RootReset,
     Restart, EnterRound, vars, replica, messages
<1>2. QED
  BY <1>1 DEF PrecommitVote, TypeOK

\* How the lock of a validator changes: by a vote to commit, by a later lock it
\* hears of, or by a restart that forgets it.
LEMMA LockMoves ==
  ASSUME TypeOK, [Next]_vars, NEW n \in Node, highQC'[n] # highQC[n]
  PROVE  \/ \E m \in precommits :
               /\ m.view = view[n] /\ view' = view
               /\ highQC'[n] = [view |-> m.view, block |-> m.block]
         \/ \E m \in electionVotes :
               /\ m.to = n /\ m.view.root = view[n].root /\ view' = view
               /\ m.high # NULL /\ highQC'[n] = m.high
               /\ highQC[n] # NULL => Less(highQC[n].view, m.high.view)
               /\ UNCHANGED precommitVotes
         \/ /\ n \in Forgetful /\ highQC'[n] = NULL /\ UNCHANGED precommitVotes
            /\ \A m \in heard' : m.to # n
<1>1. ASSUME NEW k \in Node, NEW p \in precommits, PrecommitVote(k, p)
      PROVE  /\ p.view = view[n] /\ view' = view
             /\ highQC'[n] = [view |-> p.view, block |-> p.block]
  BY <1>1 DEF PrecommitVote, TypeOK
<1>2. ASSUME NEW m \in electionVotes, HearElectionVote(m)
      PROVE  /\ m.to = n /\ m.view.root = view[n].root /\ view' = view
             /\ m.high # NULL /\ highQC'[n] = m.high
             /\ highQC[n] # NULL => Less(highQC[n].view, m.high.view)
             /\ UNCHANGED precommitVotes
  BY <1>2 DEF HearElectionVote, TypeOK
<1>3. ASSUME NEW k \in Node, NEW v \in View, Restart(k, v)
      PROVE  /\ n \in Forgetful /\ highQC'[n] = NULL /\ UNCHANGED precommitVotes
             /\ \A m \in heard' : m.to # n
  BY <1>3 DEF Restart, TypeOK
<1>4. \/ \E k \in Node : \E p \in precommits : PrecommitVote(k, p)
      \/ \E m \in electionVotes : HearElectionVote(m)
      \/ \E k \in Node : \E v \in View : Restart(k, v)
  BY DEF Next, Lead, Follow, ChangeView, ElectionVote, Propose, ProposeVote, Precommit,
     Commit, CommitProcess, HandleBlock, RoundInterrupt, RootReset, vars, replica
<1>5. QED
  BY <1>1, <1>2, <1>3, <1>4

-----------------------------------------------------------------------------
\* Votes are cast in the view of the voter, and views advance.
LEMMA StepVotesBehind ==
  ASSUME TypeOK, TypeOK', VotesBehind, [Next]_vars
  PROVE  VotesBehind'
<1>1. \A n \in Honest : \A v \in View : ~Less(view[n], v) => ~Less(view'[n], v)
  BY ViewsAdvance, LessIsOrder DEF TypeOK, Honest
<1>2. ASSUME NEW m \in electionVotes', m.from \in Honest
      PROVE  ~Less(view'[m.from], m.view)
  <2>1. CASE m \in electionVotes
    BY <1>1, <1>2, <2>1 DEF VotesBehind, TypeOK
  <2>2. CASE m \notin electionVotes
    BY <2>2, NewElectionVote, LessIsOrder DEF TypeOK
  <2>3. QED
    BY <2>1, <2>2
<1>3. ASSUME NEW m \in precommitVotes', m.from \in Honest
      PROVE  ~Less(view'[m.from], m.view)
  <2>1. CASE m \in precommitVotes
    BY <1>1, <1>3, <2>1 DEF VotesBehind, TypeOK
  <2>2. CASE m \notin precommitVotes
    BY <2>2, NewPrecommitVote, LessIsOrder DEF TypeOK
  <2>3. QED
    BY <2>1, <2>2
<1>4. ASSUME NEW m \in proposeVotes', m.from \in Honest
      PROVE  \/ Less(m.view, view'[m.from])
             \/ m.view = view'[m.from] /\ phase'[m.from] \in HasVoted
  <2>1. CASE m \in proposeVotes
    BY <1>4, <2>1, ViewsAdvance, LessIsOrder DEF VotesBehind, TypeOK, Honest
  <2>2. CASE m \notin proposeVotes
    BY <2>2, NewProposeVote
  <2>3. QED
    BY <2>1, <2>2
<1>5. QED
  BY <1>2, <1>3, <1>4 DEF VotesBehind

\* A vote for a proposal is cast in a phase that is not come back to.
LEMMA StepOneVote ==
  ASSUME TypeOK, VotesBehind, OneVote, [Next]_vars
  PROVE  OneVote'
<1> SUFFICES ASSUME NEW k \in proposeVotes', NEW m \in proposeVotes',
                    k.from = m.from, k.from \in Honest, k.view = m.view
             PROVE  k.block = m.block
  BY DEF OneVote
<1>1. ASSUME NEW x \in proposeVotes, NEW y \in proposeVotes' \ proposeVotes,
             x.from = y.from, x.from \in Honest, x.view = y.view
      PROVE  FALSE
  BY <1>1, NewProposeVote, LessIsOrder DEF VotesBehind, TypeOK
<1>2. CASE k \in proposeVotes /\ m \in proposeVotes
  BY <1>2 DEF OneVote
<1>3. CASE k \notin proposeVotes /\ m \notin proposeVotes
  BY <1>3, NewProposeVote
<1>4. QED
  BY <1>1, <1>2, <1>3

\* Locks, messages and blocks come with certificates, and certificates last.
LEMMA StepCertified ==
  ASSUME TypeOK, TypeOK', Certified, [Next]_vars
  PROVE  Certified'
<1>1. ProposeQC \subseteq ProposeQC' /\ CommitQC \subseteq CommitQC'
  BY CertificatesLast
<1>2. ASSUME NEW n \in Node
      PROVE  highQC'[n] \in ProposeQC \cup {NULL}
  <2>1. CASE highQC'[n] = highQC[n]
    BY <2>1 DEF Certified
  <2>2. CASE highQC'[n] # highQC[n]
    <3>1. \/ \E m \in precommits : highQC'[n] = Subject(m)
          \/ \E m \in electionVotes : highQC'[n] = m.high
          \/ highQC'[n] = NULL
      BY <2>2, LockMoves DEF Subject
    <3>2. QED
      BY <3>1 DEF Certified
  <2>3. QED
    BY <2>1, <2>2
<1>3. ASSUME NEW m \in electionVotes' PROVE m.high \in ProposeQC \cup {NULL}
  BY NewElectionVote DEF Certified
<1>4. ASSUME NEW m \in proposals' PROVE m.high \in ProposeQC \cup {NULL}
  <2>1. CASE m \in proposals
    BY <2>1 DEF Certified
  <2>2. CASE m \notin proposals
    <3>1. \E n \in Node, b \in Block : Propose(n, b)
      BY <2>2 DEF Next, Lead, Follow, ChangeView, ElectionVote, HearElectionVote,
         ProposeVote, Precommit, PrecommitVote, Commit, CommitProcess, HandleBlock,
         RoundInterrupt, RootReset, Restart, EnterRound, vars, replica, messages
    <3>2. \E n \in Node : m.high = highQC[n]
      BY <2>2, <3>1 DEF Propose
    <3>3. QED
      BY <3>2 DEF Certified
  <2>3. QED
    BY <2>1, <2>2
<1>5. ASSUME NEW m \in precommits' PROVE Subject(m) \in ProposeQC
  <2>1. CASE m \in precommits
    BY <2>1 DEF Certified
  <2>2. CASE m \notin precommits
    <3>1. \E n \in Node : Precommit(n)
      BY <2>2 DEF Next, Lead, Follow, ChangeView, ElectionVote, HearElectionVote,
         Propose, ProposeVote, PrecommitVote, Commit, CommitProcess, HandleBlock,
         RoundInterrupt, RootReset, Restart, EnterRound, vars, replica, messages
    <3>2. \E Q \in Quorum : \A q \in Q : \E k \in proposeVotes :
              k.from = q /\ k.view = m.view /\ k.block = m.block
      <4>1. PICK n \in Node : Precommit(n)
        BY <3>1
      <4>2. m = [from |-> n, view |-> view[n], block |-> block[n]]
        BY <2>2, <4>1 DEF Precommit
      <4>3. QED
        BY <4>1, <4>2 DEF Precommit, Voted
    <3>3. Subject(m) \in Certificate
      BY DEF TypeOK, Subject, Certificate
    <3>4. QED
      BY <3>2, <3>3 DEF ProposeQC, CertificatesOf, Subject
  <2>3. QED
    BY <2>1, <2>2
<1>6. ASSUME NEW m \in precommitVotes' PROVE Subject(m) \in ProposeQC
  BY NewPrecommitVote DEF Certified, Subject
<1>7. ASSUME NEW m \in commits' PROVE Subject(m) \in CommitQC
  <2>1. CASE m \in commits
    BY <2>1 DEF Certified
  <2>2. CASE m \notin commits
    <3>1. \E n \in Node : Commit(n)
      BY <2>2 DEF Next, Lead, Follow, ChangeView, ElectionVote, HearElectionVote,
         Propose, ProposeVote, Precommit, PrecommitVote, CommitProcess, HandleBlock,
         RoundInterrupt, RootReset, Restart, EnterRound, vars, replica, messages
    <3>2. \E Q \in Quorum : \A q \in Q : \E k \in precommitVotes :
              k.from = q /\ k.view = m.view /\ k.block = m.block
      <4>1. PICK n \in Node : Commit(n)
        BY <3>1
      <4>2. m = [from |-> n, view |-> view[n], block |-> block[n]]
        BY <2>2, <4>1 DEF Commit
      <4>3. QED
        BY <4>1, <4>2 DEF Commit, Voted
    <3>3. Subject(m) \in Certificate
      BY DEF TypeOK, Subject, Certificate
    <3>4. QED
      BY <3>2, <3>3 DEF CommitQC, CertificatesOf, Subject
  <2>3. QED
    BY <2>1, <2>2
<1>8. ASSUME NEW b \in gossip' PROVE \E c \in CommitQC : c.block = b
  <2>1. CASE b \in gossip
    BY <2>1 DEF Certified
  <2>2. CASE b \notin gossip
    <3>1. \E n \in Node : \E m \in commits : CommitProcess(n, m)
      BY <2>2 DEF Next, Lead, Follow, ChangeView, ElectionVote, HearElectionVote,
         Propose, ProposeVote, Precommit, PrecommitVote, Commit, HandleBlock,
         RoundInterrupt, RootReset, Restart, EnterRound, vars, replica, messages
    <3>2. \E m \in commits : m.block = b
      BY <2>2, <3>1 DEF CommitProcess
    <3>3. QED
      BY <3>2 DEF Certified, Subject
  <2>3. QED
    BY <2>1, <2>2
<1>9. ASSUME NEW n \in Node, committed'[n] # NULL
      PROVE  \E c \in CommitQC : c.block = committed'[n]
  <2>1. CASE committed'[n] = committed[n]
    BY <1>9, <2>1 DEF Certified
  <2>2. CASE committed'[n] # committed[n]
    <3>1. \E k \in Node : \E b \in gossip : HandleBlock(k, b)
      BY <2>2, NewCommitted
    <3>2. committed'[n] \in gossip
      BY <2>2, <3>1 DEF HandleBlock, TypeOK
    <3>3. QED
      BY <3>2 DEF Certified
  <2>3. QED
    BY <2>1, <2>2
<1>10. highQC' \in [Node -> ProposeQC' \cup {NULL}]
  BY <1>1, <1>2 DEF TypeOK
<1>11. QED
  BY <1>1, <1>3, <1>4, <1>5, <1>6, <1>7, <1>8, <1>9, <1>10 DEF Certified, Subject

\* A validator hears in its root height, and its root height does not fall.
LEMMA StepRootsBehind ==
  ASSUME TypeOK, TypeOK', RootsBehind, [Next]_vars
  PROVE  RootsBehind'
<1>1. \A v \in View : v.root \in Nat
  BY BFTAssumption
<1>2. \A c \in Locks : c # NULL => c.view \in View
  BY DEF Locks, Certificate
<1>3. \A n \in Node : view[n].root <= view'[n].root
  BY RootsAdvance
<1>4. ASSUME NEW n \in Node, highQC'[n] # NULL
      PROVE  highQC'[n].view.root <= view'[n].root
  <2>1. CASE highQC'[n] = highQC[n]
    <3>1. highQC[n].view \in View /\ view[n] \in View /\ view'[n] \in View
      BY <1>2, <1>4, <2>1 DEF TypeOK
    <3>2. QED
      BY <1>1, <1>3, <1>4, <2>1, <3>1 DEF RootsBehind
  <2>2. CASE highQC'[n] # highQC[n]
    <3>1. CASE \E m \in precommits : m.view = view[n] /\ view' = view
                                     /\ highQC'[n] = [view |-> m.view, block |-> m.block]
      BY <1>1, <3>1 DEF TypeOK
    <3>2. CASE \E m \in electionVotes : m.view.root = view[n].root /\ view' = view
                                        /\ m.high # NULL /\ highQC'[n] = m.high
      BY <3>2 DEF RootsBehind
    <3>3. QED
      BY <1>4, <2>2, <3>1, <3>2, LockMoves
  <2>3. QED
    BY <2>1, <2>2
<1>5. ASSUME NEW m \in electionVotes', m.high # NULL
      PROVE  m.high.view.root <= m.view.root
  BY <1>5, NewElectionVote DEF RootsBehind
<1>6. ASSUME NEW m \in heard' PROVE m.view.root <= view'[m.to].root
  <2>1. m.view.root <= view[m.to].root
    <3>1. CASE m \in heard
      BY <3>1 DEF RootsBehind
    <3>2. CASE m \notin heard
      <4>1. HearElectionVote(m) /\ m \in electionVotes
        BY <3>2, NewHeard
      <4>2. QED
        BY <1>1, <4>1 DEF HearElectionVote, TypeOK
    <3>3. QED
      BY <3>1, <3>2
  <2>2. m.to \in Node /\ m.view \in View
    BY DEF TypeOK
  <2>3. QED
    BY <1>1, <1>3, <2>1, <2>2 DEF TypeOK
<1>7. QED
  BY <1>4, <1>5, <1>6 DEF RootsBehind

\* A lock goes up, or is taken with a vote in the present view.
LEMMA StepPromiseKept ==
  ASSUME TypeOK, TypeOK', VotesBehind, PromiseKept, [Next]_vars
  PROVE  PromiseKept'
<1> SUFFICES ASSUME NEW m \in precommitVotes', m.from \in Honest
             PROVE  highQC'[m.from] # NULL /\ ~Less(highQC'[m.from].view, m.view)
  BY DEF PromiseKept
<1>1. m.from \in Node /\ m.view \in View
  BY DEF TypeOK
<1>2. \A c \in Locks : c # NULL => c.view \in View
  BY DEF Locks, Certificate
<1>3. [view |-> view[m.from], block |-> m.block] # NULL
  BY <1>1, BFTAssumption DEF TypeOK, Certificate
<1>4. CASE m \in precommitVotes /\ highQC'[m.from] = highQC[m.from]
  BY <1>4 DEF PromiseKept
<1>5. CASE m \in precommitVotes /\ highQC'[m.from] # highQC[m.from]
  <2>1. highQC[m.from] # NULL /\ ~Less(highQC[m.from].view, m.view)
    BY <1>5 DEF PromiseKept
  <2>2. CASE \E k \in precommits :
                 k.view = view[m.from] /\ highQC'[m.from] = [view |-> k.view, block |-> k.block]
    <3>1. PICK k \in precommits :
                 k.view = view[m.from] /\ highQC'[m.from] = [view |-> k.view, block |-> k.block]
      BY <2>2
    <3>2. highQC'[m.from] \in Certificate
      BY <3>1 DEF TypeOK, Certificate
    <3>3. highQC'[m.from] # NULL
      BY <3>2, BFTAssumption
    <3>4. ~Less(view[m.from], m.view)
      BY <1>5 DEF VotesBehind
    <3>5. QED
      BY <3>1, <3>3, <3>4
  <2>3. CASE \E k \in electionVotes :
                 /\ k.high # NULL /\ highQC'[m.from] = k.high
                 /\ highQC[m.from] # NULL => Less(highQC[m.from].view, k.high.view)
    <3>1. highQC'[m.from] # NULL /\ Less(highQC[m.from].view, highQC'[m.from].view)
      BY <2>1, <2>3
    <3>2. highQC[m.from].view \in View /\ highQC'[m.from].view \in View
      BY <1>1, <1>2, <2>1, <3>1 DEF TypeOK
    <3>3. QED
      BY <1>1, <2>1, <3>1, <3>2, LessIsOrder
  <2>4. m.from \notin Forgetful
    BY DEF Honest
  <2>5. QED
    BY <1>1, <1>5, <2>2, <2>3, <2>4, LockMoves
<1>6. CASE m \notin precommitVotes
  <2>1. highQC'[m.from] = [view |-> m.view, block |-> m.block] /\ m.block \in Block
    BY <1>6, NewPrecommitVote
  <2>2. highQC'[m.from] # NULL
    BY <1>1, <2>1, BFTAssumption DEF Certificate
  <2>3. QED
    BY <1>1, <2>1, <2>2, LessIsOrder
<1>7. QED
  BY <1>4, <1>5, <1>6

\* An election vote carries the lock; a vote to commit is in no earlier view.
LEMMA StepPromiseReported ==
  ASSUME TypeOK, VotesBehind, PromiseKept, PromiseReported, [Next]_vars
  PROVE  PromiseReported'
<1> SUFFICES ASSUME NEW m \in electionVotes', NEW k \in precommitVotes',
                    k.from = m.from, m.from \in Honest, Less(k.view, m.view)
             PROVE  m.high # NULL /\ ~Less(m.high.view, k.view)
  BY DEF PromiseReported
<1>1. CASE m \in electionVotes /\ k \in precommitVotes
  BY <1>1 DEF PromiseReported
<1>2. CASE m \notin electionVotes
  BY <1>2, NewElectionVote DEF PromiseKept
<1>3. CASE m \in electionVotes /\ k \notin precommitVotes
  BY <1>3, NewPrecommitVote DEF VotesBehind
<1>4. QED
  BY <1>1, <1>2, <1>3

\* A leader takes over the later lock when it hears of it; afterwards its lock
\* goes up, or to its present view.
LEMMA StepHeardHeeded ==
  ASSUME TypeOK, TypeOK', RootsBehind, HeardHeeded, [Next]_vars
  PROVE  HeardHeeded'
<1> SUFFICES ASSUME NEW m \in heard', m.high # NULL, m.view.root = view'[m.to].root
             PROVE  /\ highQC'[m.to] # NULL
                    /\ \/ ~Less(highQC'[m.to].view, m.high.view)
                       \/ highQC'[m.to].view.root = view'[m.to].root
  BY DEF HeardHeeded
<1>1. \A v \in View : v.root \in Nat
  BY BFTAssumption
<1>2. \A c \in Locks : c # NULL => c.view \in View
  BY DEF Locks, Certificate
<1>3. m.to \in Node /\ m.view \in View /\ m.high.view \in View
  BY <1>2 DEF TypeOK
<1>4. CASE m \notin heard
  <2>1. HearElectionVote(m)
    BY <1>4, NewHeard
  <2>2. CASE highQC[m.to] = NULL \/ Less(highQC[m.to].view, m.high.view)
    <3>1. highQC'[m.to] = m.high
      BY <1>3, <2>1, <2>2 DEF HearElectionVote, TypeOK
    <3>2. QED
      BY <1>3, <3>1, LessIsOrder
  <2>3. CASE ~(highQC[m.to] = NULL \/ Less(highQC[m.to].view, m.high.view))
    BY <2>1, <2>3 DEF HearElectionVote
  <2>4. QED
    BY <2>2, <2>3
<1>5. CASE m \in heard
  <2>1. view[m.to].root = m.view.root /\ view'[m.to].root = view[m.to].root
    <3>1. m.view.root <= view[m.to].root
      BY <1>5 DEF RootsBehind
    <3>2. view[m.to].root <= view'[m.to].root
      BY <1>3, RootsAdvance
    <3>3. view[m.to] \in View
      BY <1>3 DEF TypeOK
    <3>4. QED
      BY <1>1, <1>3, <3>1, <3>2, <3>3
  <2>2. /\ highQC[m.to] # NULL
        /\ \/ ~Less(highQC[m.to].view, m.high.view)
           \/ highQC[m.to].view.root = view[m.to].root
    BY <1>5, <2>1 DEF HeardHeeded
  <2>3. CASE highQC'[m.to] = highQC[m.to]
    BY <2>1, <2>2, <2>3
  <2>4. CASE \E k \in precommits : k.view = view[m.to]
                 /\ highQC'[m.to] = [view |-> k.view, block |-> k.block]
    <3>1. highQC'[m.to] \in Certificate /\ highQC'[m.to].view = view[m.to]
      BY <2>4 DEF TypeOK, Certificate
    <3>2. QED
      BY <2>1, <3>1, BFTAssumption
  <2>5. CASE \E k \in electionVotes :
                 /\ k.view.root = view[m.to].root /\ k.high # NULL /\ highQC'[m.to] = k.high
                 /\ highQC[m.to] # NULL => Less(highQC[m.to].view, k.high.view)
    <3>1. PICK k \in electionVotes :
                 /\ k.view.root = view[m.to].root /\ k.high # NULL /\ highQC'[m.to] = k.high
                 /\ highQC[m.to] # NULL => Less(highQC[m.to].view, k.high.view)
      BY <2>5
    <3>2. /\ k.high.view \in View /\ highQC[m.to].view \in View /\ view[m.to] \in View
          /\ k.high.view.root <= view[m.to].root /\ Less(highQC[m.to].view, k.high.view)
      BY <1>2, <1>3, <2>2, <3>1 DEF TypeOK, RootsBehind
    <3>3. CASE ~Less(highQC[m.to].view, m.high.view)
      BY <1>3, <3>1, <3>2, <3>3, LessIsOrder
    <3>4. CASE highQC[m.to].view.root = view[m.to].root
      <4>1. k.high.view.root = view[m.to].root
        BY <1>1, <3>2, <3>4 DEF Less
      <4>2. QED
        BY <2>1, <3>1, <4>1
    <3>5. QED
      BY <2>2, <3>3, <3>4
  <2>6. QED
    BY <1>3, <2>3, <2>4, <2>5, LockMoves
<1>6. QED
  BY <1>4, <1>5

\* Whoever proposes has heard its electors.
LEMMA StepElectorsHeeded ==
  ASSUME TypeOK, HeardHeeded, ElectorsHeeded, [Next]_vars
  PROVE  ElectorsHeeded'
<1>1. electionVotes \subseteq electionVotes'
  BY MessagesGrow
<1>2. ASSUME NEW p \in proposals' \ proposals
      PROVE  \E Q \in Quorum : \A q \in Q : \E m \in electionVotes :
               /\ m.from = q /\ m.view = p.view
               /\ m.high # NULL =>
                     /\ p.high # NULL
                     /\ ~Less(p.high.view, m.high.view) \/ p.high.view.root = p.view.root
  <2>1. \E n \in Node, b \in Block : Propose(n, b)
    BY DEF Next, Lead, Follow, ChangeView, ElectionVote, HearElectionVote, ProposeVote,
       Precommit, PrecommitVote, Commit, CommitProcess, HandleBlock, RoundInterrupt, RootReset,
       Restart, EnterRound, vars, replica, messages
  <2>2. PICK n \in Node, b \in Block : Propose(n, b)
    BY <2>1
  <2>3. p.view = view[n] /\ p.high = highQC[n]
    BY <2>2 DEF Propose
  <2>4. PICK Q \in Quorum : \A q \in Q : \E m \in heard : m.from = q /\ m.to = n /\ m.view = view[n]
    BY <2>2 DEF Propose, HeardFromQuorum
  <2>5. ASSUME NEW q \in Q
        PROVE  \E m \in electionVotes :
               /\ m.from = q /\ m.view = p.view
               /\ m.high # NULL =>
                     /\ p.high # NULL
                     /\ ~Less(p.high.view, m.high.view) \/ p.high.view.root = p.view.root
    <3>1. PICK m \in heard : m.from = q /\ m.to = n /\ m.view = view[n]
      BY <2>4
    <3>2. m \in electionVotes
      BY DEF TypeOK
    <3>3. QED
      BY <2>3, <3>1, <3>2 DEF HeardHeeded
  <2>6. QED
    BY <2>5
<1>3. QED
  BY <1>1, <1>2 DEF ElectorsHeeded

-----------------------------------------------------------------------------
\* Two quorums share an honest validator.
LEMMA HonestInBoth ==
  ASSUME NEW P \in Quorum, NEW Q \in Quorum
  PROVE  \E n \in P \cap Q : n \in Honest
BY BFTAssumption DEF Honest

\* One proposal of a view is certified: an honest validator is in both quorums.
LEMMA CertificateUnique ==
  ASSUME OneVote, NEW c \in ProposeQC, NEW d \in ProposeQC, c.view = d.view
  PROVE  c.block = d.block
<1>1. PICK P \in Quorum : \A q \in P : \E m \in proposeVotes : m.from = q /\ Subject(m) = c
  BY DEF ProposeQC, CertificatesOf
<1>2. PICK Q \in Quorum : \A q \in Q : \E m \in proposeVotes : m.from = q /\ Subject(m) = d
  BY DEF ProposeQC, CertificatesOf
<1>3. PICK n \in P \cap Q : n \in Honest
  BY HonestInBoth
<1>4. PICK k \in proposeVotes : k.from = n /\ Subject(k) = c
  BY <1>1
<1>5. PICK m \in proposeVotes : m.from = n /\ Subject(m) = d
  BY <1>2
<1>6. QED
  BY <1>3, <1>4, <1>5 DEF OneVote, Subject

\* What can no longer be committed never will be: views do not come back.
LEMMA RefutedLasts ==
  ASSUME TypeOK, TypeOK', [Next]_vars, NEW c \in Certificate, Refuted(c)
  PROVE  Refuted(c)'
<1> SUFFICES ASSUME NEW Q \in Quorum
             PROVE  \E q \in Q \ Forgetful : WontCommit(q, c)'
  BY DEF Refuted
<1>1. PICK q \in Q \ Forgetful : WontCommit(q, c)
  BY DEF Refuted
<1>2. q \in Honest
  BY BFTAssumption DEF Honest
<1>3. Less(c.view, view[q]) /\ c.view \in View /\ view[q] \in View /\ view'[q] \in View
  BY <1>1, <1>2 DEF WontCommit, Certificate, TypeOK, Honest
<1>4. Less(c.view, view'[q])
  BY <1>2, <1>3, ViewsAdvance, LessIsOrder
<1>5. ASSUME NEW m \in precommitVotes', m.from = q PROVE Subject(m) # c
  <2>1. CASE m \in precommitVotes
    BY <1>1, <1>5, <2>1 DEF WontCommit
  <2>2. CASE m \notin precommitVotes
    BY <1>3, <1>5, <2>2, NewPrecommitVote, LessIsOrder DEF Subject
  <2>3. QED
    BY <2>1, <2>2
<1>6. QED
  BY <1>4, <1>5 DEF WontCommit

\* A certificate of a later view for another block refutes an earlier one: of
\* any two thirds an honest member has voted for the later, and either it voted
\* to commit the earlier, which was refuted by then, or it is past that.
LEMMA LaterRefutes ==
  ASSUME TypeOK, VotesBehind, UnlockedWhenRefuted,
         NEW c \in ProposeQC, NEW d \in ProposeQC,
         Less(c.view, d.view), c.block # d.block
  PROVE  Refuted(c)
<1>1. PICK P \in Quorum : \A q \in P : \E m \in proposeVotes : m.from = q /\ Subject(m) = d
  BY DEF ProposeQC, CertificatesOf
<1>2. c.view \in View /\ d.view \in View
  BY DEF ProposeQC, CertificatesOf, Certificate
<1>3. CASE \E q \in P : \E k \in precommitVotes : q \in Honest /\ k.from = q /\ Subject(k) = c
  <2>1. PICK q \in P : \E k \in precommitVotes : q \in Honest /\ k.from = q /\ Subject(k) = c
    BY <1>3
  <2>2. PICK k \in precommitVotes : k.from = q /\ Subject(k) = c
    BY <2>1
  <2>3. PICK m \in proposeVotes : m.from = q /\ Subject(m) = d
    BY <1>1
  <2>4. k.view = c.view /\ k.block = c.block /\ m.view = d.view /\ m.block = d.block
    BY <2>2, <2>3 DEF Subject
  <2>5. QED
    BY <2>1, <2>2, <2>3, <2>4 DEF UnlockedWhenRefuted
<1>4. CASE \A q \in P : q \in Honest => \A k \in precommitVotes : k.from = q => Subject(k) # c
  <2> SUFFICES ASSUME NEW Q \in Quorum PROVE \E q \in Q \ Forgetful : WontCommit(q, c)
    BY DEF Refuted
  <2>1. PICK q \in P \cap Q : q \in Honest
    BY HonestInBoth
  <2>2. PICK m \in proposeVotes : m.from = q /\ Subject(m) = d
    BY <1>1
  <2>3. m.view = d.view /\ view[q] \in View
    BY <2>1, <2>2 DEF Subject, TypeOK, Honest
  <2>4. Less(c.view, view[q])
    BY <1>2, <2>1, <2>2, <2>3, LessIsOrder DEF VotesBehind
  <2>5. q \notin Forgetful
    BY <2>1 DEF Honest
  <2>6. QED
    BY <1>4, <2>1, <2>4, <2>5 DEF WontCommit
<1>5. QED
  BY <1>3, <1>4

\* The rule of SafeNode is safe.  A justification of a later view refutes the
\* committed one; one of an earlier view has a smaller root height, and then no
\* elector of the leader voted to commit, or the leader would have heeded it.
LEMMA SafeNodeIsSafe ==
  ASSUME IInv, NEW k \in precommitVotes, NEW p \in proposals,
         k.from \in Honest, p.view = view[k.from],
         Less(k.view, p.view), k.block # p.block,
         SafeNode(highQC[k.from], p.block, p.high)
  PROVE  Refuted(Subject(k))
<1> DEFINE n == k.from
           lock == highQC[n]
           c == Subject(k)
           u == p.high
<1>1. /\ n \in Node /\ k.view \in View /\ p.view \in View /\ c.view = k.view /\ c.block = k.block
  BY DEF IInv, TypeOK, Subject
<1>2. lock # NULL /\ ~Less(lock.view, k.view)
  BY DEF IInv, PromiseKept
<1>3. lock \in ProposeQC /\ c \in ProposeQC
  BY <1>1, <1>2 DEF IInv, Certified
<1>4. u # NULL /\ u \in ProposeQC /\ u.block = p.block
  BY DEF IInv, Certified, SafeNode
<1>5. lock.view \in View /\ u.view \in View /\ c \in Certificate
  BY <1>3, <1>4 DEF ProposeQC, CertificatesOf, Certificate
<1>6. lock.block = u.block \/ u.view.round > lock.view.round
  BY DEF SafeNode
<1>7. u.view # c.view
  BY <1>1, <1>3, <1>4, CertificateUnique DEF IInv
<1>8. CASE Less(c.view, u.view)
  BY <1>1, <1>3, <1>4, <1>8, LaterRefutes DEF IInv
<1>9. CASE Less(u.view, c.view) /\ lock.block = u.block
  <2>1. lock.view # c.view
    BY <1>1, <1>3, <1>4, <1>9, CertificateUnique DEF IInv
  <2>2. Less(c.view, lock.view)
    BY <1>1, <1>2, <1>5, <2>1, LessIsOrder
  <2>3. QED
    BY <1>1, <1>3, <1>4, <1>9, <2>2, LaterRefutes DEF IInv
<1>10. CASE Less(u.view, c.view) /\ u.view.round > lock.view.round
  <2>1. u.view.root # p.view.root
    <3>1. lock.view.root <= p.view.root
      BY <1>1, <1>2 DEF IInv, RootsBehind
    <3>2. \A v \in View : v.root \in Nat /\ v.round \in Nat
      BY BFTAssumption
    <3>3. QED
      BY <1>1, <1>2, <1>5, <1>10, <3>1, <3>2 DEF Less
  <2>2. PICK P \in Quorum : \A q \in P : \E m \in electionVotes :
             /\ m.from = q /\ m.view = p.view
             /\ m.high # NULL => ~Less(u.view, m.high.view)
    BY <1>4, <2>1 DEF IInv, ElectorsHeeded
  <2> SUFFICES ASSUME NEW Q \in Quorum PROVE \E q \in Q \ Forgetful : WontCommit(q, c)
    BY DEF Refuted
  <2>3. PICK q \in P \cap Q : q \in Honest
    BY HonestInBoth
  <2>4. PICK m \in electionVotes : /\ m.from = q /\ m.view = p.view
                                   /\ m.high # NULL => ~Less(u.view, m.high.view)
    BY <2>2, <2>3
  <2>5. ASSUME NEW j \in precommitVotes, j.from = q, Subject(j) = c
        PROVE  FALSE
    <3>1. m.high # NULL /\ ~Less(m.high.view, c.view)
      <4>1. j.view = c.view
        BY <2>5 DEF Subject
      <4>2. Less(j.view, m.view)
        BY <1>1, <2>4, <4>1
      <4>3. QED
        BY <2>3, <2>4, <2>5, <4>1, <4>2 DEF IInv, PromiseReported
    <3>2. m.high.view \in View
      BY <3>1 DEF IInv, TypeOK, Locks, Certificate
    <3>3. ~Less(u.view, m.high.view)
      BY <2>4, <3>1
    <3>4. QED
      BY <1>1, <1>5, <1>10, <3>1, <3>2, <3>3, LessIsOrder
  <2>6. Less(c.view, view[q])
    <3>1. ~Less(view[q], p.view) /\ view[q] \in View
      BY <2>3, <2>4 DEF IInv, VotesBehind, TypeOK, Honest
    <3>2. QED
      BY <1>1, <3>1, LessIsOrder
  <2>7. q \in Q \ Forgetful
    BY <2>3 DEF Honest
  <2>8. QED
    BY <2>5, <2>6, <2>7 DEF WontCommit
<1>11. QED
  BY <1>1, <1>5, <1>6, <1>7, <1>8, <1>9, <1>10, LessIsOrder

\* A vote against a lock passes SafeNode; a vote to commit is not in a view
\* before one that was voted in.
LEMMA StepUnlockedWhenRefuted ==
  ASSUME IInv, TypeOK', [Next]_vars
  PROVE  UnlockedWhenRefuted'
<1> SUFFICES ASSUME NEW k \in precommitVotes', NEW m \in proposeVotes',
                    k.from = m.from, m.from \in Honest,
                    Less(k.view, m.view), k.block # m.block
             PROVE  Refuted(Subject(k))'
  BY DEF UnlockedWhenRefuted
<1>1. TypeOK /\ k.from \in Node /\ k.view \in View /\ m.view \in View /\ Subject(k) \in Certificate
  BY DEF IInv, TypeOK, Subject, Certificate
<1>2. CASE k \in precommitVotes /\ m \in proposeVotes
  <2>1. Refuted(Subject(k))
    BY <1>2 DEF IInv, UnlockedWhenRefuted
  <2>2. QED
    BY <1>1, <2>1, RefutedLasts
<1>3. CASE k \notin precommitVotes
  <2>1. k.view = view[k.from] /\ m \in proposeVotes /\ view[k.from] \in View
    BY <1>1, <1>3, NewPrecommitVote DEF TypeOK
  <2>2. QED
    BY <1>1, <2>1, LessIsOrder DEF IInv, VotesBehind
<1>4. CASE k \in precommitVotes /\ m \notin proposeVotes
  <2>1. PICK p \in proposals : /\ p.view = m.view /\ p.block = m.block /\ m.view = view[m.from]
                               /\ highQC[m.from] # NULL => SafeNode(highQC[m.from], p.block, p.high)
    BY <1>1, <1>4, NewProposeVote
  <2>2. highQC[k.from] # NULL
    BY <1>4 DEF IInv, PromiseKept
  <2>3. Refuted(Subject(k))
    BY <1>4, <2>1, <2>2, SafeNodeIsSafe
  <2>4. QED
    BY <1>1, <2>3, RefutedLasts
<1>5. QED
  BY <1>2, <1>3, <1>4

-----------------------------------------------------------------------------
\* The initial states have no votes and no locks.
LEMMA InitIInv == Init => IInv
<1> SUFFICES ASSUME Init PROVE IInv
  OBVIOUS
<1>1. TypeOK
  BY InitTypeOK
<1>2. Certified
  BY DEF Init, Certified
<1>3. QED
  BY <1>1, <1>2 DEF Init, IInv, VotesBehind, OneVote, RootsBehind, PromiseKept, PromiseReported,
     HeardHeeded, ElectorsHeeded, UnlockedWhenRefuted

\* The invariant is inductive.
LEMMA StepIInv == IInv /\ [Next]_vars => IInv'
<1> SUFFICES ASSUME IInv, [Next]_vars PROVE IInv'
  OBVIOUS
<1>1. TypeOK /\ TypeOK'
  BY StepTypeOK DEF IInv
<1>2. VotesBehind' /\ OneVote' /\ Certified'
  BY <1>1, StepVotesBehind, StepOneVote, StepCertified DEF IInv
<1>3. RootsBehind' /\ PromiseKept' /\ PromiseReported'
  BY <1>1, StepRootsBehind, StepPromiseKept, StepPromiseReported DEF IInv
<1>4. HeardHeeded' /\ ElectorsHeeded' /\ UnlockedWhenRefuted'
  BY <1>1, StepHeardHeeded, StepElectorsHeeded, StepUnlockedWhenRefuted DEF IInv
<1>5. QED
  BY <1>1, <1>2, <1>3, <1>4 DEF IInv

\* What follows is true of every reachable state.
THEOREM VotesAttest == BFTSpec => []IInv
BY InitIInv, StepIInv, PTL DEF BFTSpec

\* A validator that does not restart keeps a lock as late as its votes to commit,
\* over any number of rounds and resets.
THEOREM PromisesAlwaysKept == BFTSpec => []PromiseKept
<1>1. IInv => PromiseKept
  BY DEF IInv
<1>2. QED
  BY <1>1, VotesAttest, PTL

\* Every proposal heeds the locks of two thirds of the validators.
THEOREM ElectorsAlwaysHeeded == BFTSpec => []ElectorsHeeded
<1>1. IInv => ElectorsHeeded
  BY DEF IInv
<1>2. QED
  BY <1>1, VotesAttest, PTL

\* A validator unlocks only when the block of its lock can no longer be committed.
THEOREM AlwaysUnlockedWhenRefuted == BFTSpec => []UnlockedWhenRefuted
<1>1. IInv => UnlockedWhenRefuted
  BY DEF IInv
<1>2. QED
  BY <1>1, VotesAttest, PTL

\* Certificates to commit are for one block: of two, the later would refute the
\* earlier, which has the votes.
LEMMA CommitUnique ==
  ASSUME IInv, NEW c \in CommitQC, NEW d \in CommitQC
  PROVE  c.block = d.block
<1>1. ASSUME NEW e \in CommitQC PROVE e \in ProposeQC /\ e.view \in View /\ ~Refuted(e)
  <2>1. PICK Q \in Quorum : \A q \in Q : \E m \in precommitVotes : m.from = q /\ Subject(m) = e
    BY DEF CommitQC, CertificatesOf
  <2>2. PICK n \in Q \cap Q : n \in Honest
    BY HonestInBoth
  <2>3. e \in ProposeQC
    BY <2>1, <2>2 DEF IInv, Certified
  <2>4. ~Refuted(e)
    BY <2>1 DEF Refuted, WontCommit
  <2>5. QED
    BY <2>3, <2>4 DEF ProposeQC, CertificatesOf, Certificate
<1>2. CASE c.view = d.view
  BY <1>1, <1>2, CertificateUnique DEF IInv
<1>3. CASE Less(c.view, d.view)
  BY <1>1, <1>3, LaterRefutes DEF IInv
<1>4. CASE Less(d.view, c.view)
  BY <1>1, <1>4, LaterRefutes DEF IInv
<1>5. QED
  BY <1>1, <1>2, <1>3, <1>4, LessIsOrder

\* So do two certificates to commit, whichever is of the earlier view.
LEMMA CommitsAgree == IInv => \A c, d \in CommitQC : c.block = d.block
BY CommitUnique

\* No two nodes commit different blocks at the height, whatever is lost, late or
\* reordered, as long as two quorums share a validator that does not restart.
THEOREM AlwaysAgreement == BFTSpec => []Agreement
<1>1. IInv => Agreement
  BY CommitUnique DEF IInv, Certified, Agreement
<1>2. QED
  BY <1>1, VotesAttest, PTL

-----------------------------------------------------------------------------
\* A step of consensus decides, teaches a node the decision, or does neither.
LEMMA StepDecision ==
  ASSUME IInv, IInv', [Next]_vars
  PROVE  [Decision!Next]_<<{c.block : c \in CommitQC}, committed>>
<1> DEFINE Decided == {c.block : c \in CommitQC}
<1>1. Decided \subseteq Decided'
  BY CertificatesLast DEF IInv
<1>2. Decided' \subseteq Block
  BY DEF CommitQC, CertificatesOf, Certificate
<1>3. \A a, b \in Decided' : a = b
  <2>1. (\A c, d \in CommitQC : c.block = d.block)'
    BY CommitsAgree, PTL
  <2>2. QED
    BY <2>1
<1>4. CASE \E n \in Node : \E b \in gossip : HandleBlock(n, b)
  <2>1. PICK n \in Node, b \in gossip : HandleBlock(n, b)
    BY <1>4
  <2>2. UNCHANGED Decided
    BY <2>1 DEF HandleBlock, messages, CommitQC, CertificatesOf
  <2>3. b \in Decided /\ b \in Block
    BY DEF IInv, Certified, TypeOK
  <2>4. Decision!Learn(n, b)
    BY <2>1, <2>2, <2>3 DEF Decision!Learn, HandleBlock, Active
  <2>5. QED
    BY <2>1, <2>3, <2>4 DEF Decision!Next
<1>5. CASE UNCHANGED committed
  <2>1. CASE Decided' = Decided
    BY <1>5, <2>1
  <2>2. CASE Decided' # Decided
    <3>1. PICK b \in Decided' : b \notin Decided
      BY <1>1, <2>2
    <3>2. Decided' = {b} /\ Decided = {} /\ b \in Block
      BY <1>1, <1>2, <1>3, <3>1
    <3>3. Decision!Choose(b)
      BY <1>5, <3>2 DEF Decision!Choose
    <3>4. QED
      BY <3>2, <3>3 DEF Decision!Next
  <2>3. QED
    BY <2>1, <2>2
<1>6. QED
  <2>1. CASE \E n \in Node : Lead(n)
    BY <1>5, <2>1 DEF Lead, Propose, Precommit, Commit
  <2>2. CASE \E n \in Node : Follow(n)
    BY <1>4, <1>5, <2>2 DEF Follow, ElectionVote, ProposeVote, PrecommitVote, CommitProcess
  <2>3. CASE \E n \in Node : ChangeView(n)
    BY <1>5, <2>3 DEF ChangeView, RoundInterrupt, RootReset, Restart
  <2>4. CASE \E m \in electionVotes : HearElectionVote(m)
    BY <1>5, <2>4 DEF HearElectionVote
  <2>5. CASE UNCHANGED vars
    BY <1>5, <2>5 DEF vars
  <2>6. QED
    BY <2>1, <2>2, <2>3, <2>4, <2>5 DEF Next

\* Consensus implements one decision that the nodes learn: once two thirds have
\* voted to commit a block, no other is ever decided, and nodes commit only that.
THEOREM DecisionImplemented == BFTSpec => DecisionSpec
<1>1. Init => Decision!Init
  <2> SUFFICES ASSUME Init PROVE Decision!Init
    OBVIOUS
  <2>1. CommitQC = {}
    <3>1. ASSUME NEW c \in CommitQC PROVE FALSE
      <4>1. PICK Q \in Quorum : \A q \in Q : \E m \in precommitVotes : m.from = q
        BY DEF CommitQC, CertificatesOf
      <4>2. \E n \in Q \cap Q : n \in Honest
        BY HonestInBoth
      <4>3. QED
        BY <4>1, <4>2 DEF Init
    <3>2. QED
      BY <3>1
  <2>2. QED
    BY <2>1 DEF Init, Decision!Init
<1>2. IInv /\ IInv' /\ [Next]_vars => [Decision!Next]_<<{c.block : c \in CommitQC}, committed>>
  BY StepDecision
<1>3. BFTSpec => Decision!Init /\ [][Decision!Next]_<<{c.block : c \in CommitQC}, committed>>
  BY <1>1, <1>2, VotesAttest, PTL DEF BFTSpec
<1>4. QED
  BY <1>3, PTL DEF DecisionSpec, Decision!Spec
=============================================================================
