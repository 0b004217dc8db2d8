------------------------------- MODULE NestBFT -------------------------------
(***************************************************************************)
(* Consensus on the block of one height, src/bft/bft.go: election of a     *)
(* leader, proposal, lock and commit, interrupted rounds and resets by the *)
(* root chain.                                                             *)
(*                                                                         *)
(* A message that was sent stays in a set and may be received late, out of *)
(* order, by some replicas only, or never; what a replica did not receive  *)
(* in time is an interrupted round.  Every replica follows the protocol,   *)
(* but those of Forgetful may restart, and then forget what they promised. *)
(* Root heights that a replica is told of increase.                        *)
(***************************************************************************)
EXTENDS Naturals, FiniteSets

CONSTANTS
    Node,       \* the validators of the committee
    Candidate,  \* who may be elected in a view; NULL is a validator that is down
    Forgetful,  \* those that may restart
    Block,      \* blocks that a leader may produce and replicas find valid
    Quorum,     \* sets of validators with two thirds of the power
    Third,      \* sets of validators with half of that
    View,       \* bound: the root heights and rounds that are reached
    NULL

\* A certificate of two thirds of the votes for a proposal.
Certificate == [view : View, block : Block]

ASSUME BFTAssumption ==
    /\ View \subseteq [root : Nat, round : Nat]
    /\ Candidate \in [View -> SUBSET (Node \cup {NULL})]
    /\ Quorum \subseteq SUBSET Node
    /\ \A Q1, Q2 \in Quorum : (Q1 \cap Q2) \ Forgetful # {}
    /\ NULL \notin Node /\ NULL \notin Block /\ NULL \notin Certificate

VARIABLES
    view,       \* root height and round of a replica
    phase,      \* the handler that runs next in its round
    leader,     \* ProposerKey: the leader whose proposal it follows
    block,      \* the proposal of this round
    highQC,     \* its lock: the certificate it would defend
    electionVotes, proposals, proposeVotes, precommits, precommitVotes,
    commits,    \* messages, by kind
    heard,      \* the election votes that reached their leader
    gossip,     \* committed blocks on the way to other nodes
    committed   \* the block of this height in the chain of a node

replica == <<view, phase, leader, block, highQC>>
messages == <<electionVotes, proposals, proposeVotes, precommits,
              precommitVotes, commits, heard, gossip>>
vars == <<replica, messages, committed>>

Phase == {"ElectionVote", "Propose", "ProposeVote", "PrecommitVote",
          "CommitProcess", "Wait"}

-----------------------------------------------------------------------------
\* Root height first, then round.
Less(v, w) == v.root < w.root \/ (v.root = w.root /\ v.round < w.round)

\* A replica that has committed is at the next height.
Active(n) == committed[n] = NULL

Voted(votes, Q, v, b, n) ==
    \A q \in Q : [from |-> q, view |-> v, to |-> n, block |-> b] \in votes

EnterRound(n, v) ==
    /\ view' = [view EXCEPT ![n] = v]
    /\ phase' = [phase EXCEPT ![n] = "ElectionVote"]
    /\ leader' = [leader EXCEPT ![n] = NULL]
    /\ block' = [block EXCEPT ![n] = NULL]

-----------------------------------------------------------------------------
\* A replica votes for a leader and tells it about its lock.  Whom it votes
\* for depends on the candidates it has heard of.
ElectionVote(n, p) ==
    /\ Active(n) /\ phase[n] = "ElectionVote"
    /\ electionVotes' = electionVotes \cup
           {[from |-> n, view |-> view[n], to |-> q, high |-> highQC[n]] :
                q \in {p} \ {NULL}}
    /\ phase' = [phase EXCEPT ![n] = "Propose"]
    /\ UNCHANGED <<view, leader, block, highQC, proposals, proposeVotes, precommits,
                   precommitVotes, commits, heard, gossip, committed>>

\* Mutant: a lock is taken over only by a replica that has none.
HearUnlockedOnly(m) ==
    LET n == m.to
        higher == m.high # NULL /\ highQC[n] = NULL
    IN /\ Active(n) /\ m \notin heard
       /\ m.view.root = view[n].root
       /\ heard' = heard \cup {m}
       /\ highQC' = [highQC EXCEPT ![n] = IF higher THEN m.high ELSE @]
       /\ UNCHANGED <<view, phase, leader, block, electionVotes, proposals, proposeVotes,
                      precommits, precommitVotes, commits, gossip, committed>>

\* The vote arrives, in any round of the same root height.  A later lock
\* replaces the lock of the receiver, and its proposal is gone.
HearElectionVote(m) ==
    LET n == m.to
        higher == m.high # NULL
                  /\ (highQC[n] = NULL \/ Less(highQC[n].view, m.high.view))
    IN /\ Active(n) /\ m \notin heard
       /\ m.view.root = view[n].root
       /\ heard' = heard \cup {m}
       /\ IF higher THEN /\ highQC' = [highQC EXCEPT ![n] = m.high]
                         /\ block' = [block EXCEPT ![n] = NULL]
                    ELSE UNCHANGED <<highQC, block>>
       /\ UNCHANGED <<view, phase, leader, electionVotes, proposals, proposeVotes,
                      precommits, precommitVotes, commits, gossip,
                      committed>>

HeardFromQuorum(n) ==
    \E Q \in Quorum : \A q \in Q :
        \E m \in heard : m.from = q /\ m.to = n /\ m.view = view[n]

\* The leader proposes the block of the lock it knows, or a block of its own.
Propose(n, b) ==
    /\ Active(n) /\ phase[n] = "Propose"
    /\ HeardFromQuorum(n)
    /\ highQC[n] # NULL => b = highQC[n].block
    /\ block' = [block EXCEPT ![n] = b]
    /\ proposals' = proposals \cup
           {[from |-> n, view |-> view[n], block |-> b, high |-> highQC[n]]}
    /\ phase' = [phase EXCEPT ![n] = "ProposeVote"]
    /\ UNCHANGED <<view, leader, highQC, electionVotes, proposeVotes, precommits,
                   precommitVotes, commits, heard, gossip, committed>>

\* May a replica with this lock follow a proposal justified by that certificate?
SafeNode(lock, b, high) ==
    /\ high # NULL
    /\ b = high.block
    /\ \/ high.block = lock.block
       \/ high.view.round > lock.view.round

\* A replica without votes to lead passes over the phase of the leader.
ProposeVote(n, m) ==
    /\ Active(n) /\ phase[n] \in {"Propose", "ProposeVote"}
    /\ m.view = view[n]
    /\ highQC[n] # NULL => SafeNode(highQC[n], m.block, m.high)
    /\ leader' = [leader EXCEPT ![n] = m.from]
    /\ block' = [block EXCEPT ![n] = m.block]
    /\ proposeVotes' = proposeVotes \cup
           {[from |-> n, view |-> view[n], to |-> m.from, block |-> m.block]}
    /\ phase' = [phase EXCEPT ![n] = "PrecommitVote"]
    /\ UNCHANGED <<view, highQC, electionVotes, proposals, precommits,
                   precommitVotes, commits, heard, gossip, committed>>

\* The leader has two thirds of the votes for its proposal.  Once an election
\* vote has taken its proposal away, nobody accepts what it would send.
Precommit(n) ==
    /\ Active(n) /\ phase[n] = "PrecommitVote" /\ leader[n] = n
    /\ block[n] # NULL
    /\ \E Q \in Quorum : Voted(proposeVotes, Q, view[n], block[n], n)
    /\ precommits' = precommits \cup {[from |-> n, view |-> view[n], block |-> block[n]]}
    /\ UNCHANGED <<replica, electionVotes, proposals, proposeVotes, precommitVotes,
                   commits, heard, gossip, committed>>

\* Mutant: the replica votes without a lock.
PrecommitVoteUnlocked(n, m) ==
    /\ Active(n) /\ phase[n] = "PrecommitVote"
    /\ m.view = view[n]
    /\ m.from = leader[n] /\ m.block = block[n]
    /\ precommitVotes' = precommitVotes \cup
           {[from |-> n, view |-> view[n], to |-> m.from, block |-> m.block]}
    /\ phase' = [phase EXCEPT ![n] = "CommitProcess"]
    /\ UNCHANGED <<view, leader, block, highQC, electionVotes, proposals, proposeVotes,
                   precommits, commits, heard, gossip, committed>>

\* A replica locks on the proposal and votes to commit it.
PrecommitVote(n, m) ==
    /\ Active(n) /\ phase[n] = "PrecommitVote"
    /\ m.view = view[n]
    /\ m.from = leader[n] /\ m.block = block[n]
    /\ highQC' = [highQC EXCEPT ![n] = [view |-> m.view, block |-> m.block]]
    /\ precommitVotes' = precommitVotes \cup
           {[from |-> n, view |-> view[n], to |-> m.from, block |-> m.block]}
    /\ phase' = [phase EXCEPT ![n] = "CommitProcess"]
    /\ UNCHANGED <<view, leader, block, electionVotes, proposals, proposeVotes,
                   precommits, commits, heard, gossip, committed>>

\* Mutant: the votes of the phase before are counted.
CommitOnProposeVotes(n) ==
    /\ Active(n) /\ phase[n] = "CommitProcess" /\ leader[n] = n
    /\ block[n] # NULL
    /\ \E Q \in Quorum : Voted(proposeVotes, Q, view[n], block[n], n)
    /\ commits' = commits \cup {[from |-> n, view |-> view[n], block |-> block[n]]}
    /\ UNCHANGED <<replica, electionVotes, proposals, proposeVotes, precommits,
                   precommitVotes, heard, gossip, committed>>

Commit(n) ==
    /\ Active(n) /\ phase[n] = "CommitProcess" /\ leader[n] = n
    /\ block[n] # NULL
    /\ \E Q \in Quorum : Voted(precommitVotes, Q, view[n], block[n], n)
    /\ commits' = commits \cup {[from |-> n, view |-> view[n], block |-> block[n]]}
    /\ UNCHANGED <<replica, electionVotes, proposals, proposeVotes, precommits,
                   precommitVotes, heard, gossip, committed>>

\* The replica passes the certified block to itself and to its peers; no timer
\* follows, only a block or a reset.
CommitProcess(n, m) ==
    /\ Active(n) /\ phase[n] = "CommitProcess"
    /\ m.view = view[n]
    /\ m.from = leader[n] /\ m.block = block[n]
    /\ gossip' = gossip \cup {m.block}
    /\ phase' = [phase EXCEPT ![n] = "Wait"]
    /\ UNCHANGED <<view, leader, block, highQC, electionVotes, proposals,
                   proposeVotes, precommits, precommitVotes, commits,
                   heard, committed>>

\* A certified block arrives, the node's own one too: the height is over.
HandleBlock(n, b) ==
    /\ Active(n)
    /\ committed' = [committed EXCEPT ![n] = b]
    /\ UNCHANGED <<replica, messages>>

-----------------------------------------------------------------------------
\* Mutant: a new round starts without a lock.
RoundInterruptUnlocked(n, v) ==
    /\ Active(n) /\ phase[n] \in Phase \ {"ElectionVote", "Wait"}
    /\ v.root >= view[n].root /\ v.round > view[n].round
    /\ EnterRound(n, v)
    /\ highQC' = [highQC EXCEPT ![n] = NULL]
    /\ UNCHANGED <<electionVotes, proposals, proposeVotes, precommits,
                   precommitVotes, commits, heard, gossip, committed>>

\* No message, one that is refused, or no majority at the leader: the replica
\* tells the others, waits, and enters the next round, or a round in which
\* enough others were interrupted; they are in a later one by now.  What it
\* receives while it waits it may as well have received before.  The root
\* height is read anew: after a reconnection it is higher without a reset.
RoundInterrupt(n, v) ==
    /\ Active(n) /\ phase[n] \in Phase \ {"ElectionVote", "Wait"}
    /\ v.root >= view[n].root /\ v.round > view[n].round
    /\ v.round > view[n].round + 1 =>
          \E S \in Third : \A s \in S :
              Less([root |-> view[n].root, round |-> v.round], view[s])
    /\ EnterRound(n, v)
    /\ UNCHANGED <<highQC, electionVotes, proposals, proposeVotes, precommits,
                   precommitVotes, commits, heard, gossip, committed>>

\* Mutant: the reset of a new height, which does not keep the lock.
RootResetUnlocked(n, v) ==
    /\ Active(n)
    /\ v.root > view[n].root /\ v.round = 0
    /\ EnterRound(n, v)
    /\ highQC' = [highQC EXCEPT ![n] = NULL]
    /\ UNCHANGED <<messages, committed>>

\* News of a root block: back to round zero, and the lock is kept.
RootReset(n, v) ==
    /\ Active(n)
    /\ v.root > view[n].root /\ v.round = 0
    /\ EnterRound(n, v)
    /\ UNCHANGED <<highQC, messages, committed>>

\* A restart, or a reset as for a new height while the height is the old one.
Restart(n, v) ==
    /\ Active(n) /\ n \in Forgetful
    /\ v.root >= view[n].root /\ v.round = 0
    /\ EnterRound(n, v)
    /\ highQC' = [highQC EXCEPT ![n] = NULL]
    /\ heard' = {m \in heard : m.to # n}
    /\ UNCHANGED <<electionVotes, proposals, proposeVotes, precommits,
                   precommitVotes, commits, gossip, committed>>

-----------------------------------------------------------------------------
\* The height starts in round zero of some root height.
Init ==
    /\ view \in [Node -> {v \in View : v.round = 0 /\ \A w \in View : v.root <= w.root}]
    /\ phase = [n \in Node |-> "ElectionVote"]
    /\ leader = [n \in Node |-> NULL]
    /\ block = [n \in Node |-> NULL]
    /\ highQC = [n \in Node |-> NULL]
    /\ electionVotes = {} /\ proposals = {} /\ proposeVotes = {}
    /\ precommits = {} /\ precommitVotes = {} /\ commits = {}
    /\ heard = {} /\ gossip = {}
    /\ committed = [n \in Node |-> NULL]

Lead(n) == (\E b \in Block : Propose(n, b)) \/ Precommit(n) \/ Commit(n)

Follow(n) ==
    \/ \E p \in Candidate[view[n]] : ElectionVote(n, p)
    \/ \E m \in proposals : ProposeVote(n, m)
    \/ \E m \in precommits : PrecommitVote(n, m)
    \/ \E m \in commits : CommitProcess(n, m)
    \/ \E b \in gossip : HandleBlock(n, b)

ChangeView(n) ==
    \E v \in View : RoundInterrupt(n, v) \/ RootReset(n, v) \/ Restart(n, v)

Next == \/ \E n \in Node : Lead(n) \/ Follow(n) \/ ChangeView(n)
        \/ \E m \in electionVotes : HearElectionVote(m)

BFTSpec == Init /\ [][Next]_vars
=============================================================================
