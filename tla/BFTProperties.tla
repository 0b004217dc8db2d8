---------------------------- MODULE BFTProperties ----------------------------
(* What makes the consensus of a height correct, and what it rests on. *)
EXTENDS NestBFT

Honest == Node \ Forgetful

\* What a vote or a message of the leader is about.
Subject(m) == [view |-> m.view, block |-> m.block]

\* The certificates that two thirds of these votes make.
CertificatesOf(votes) ==
    {c \in Certificate : \E Q \in Quorum : \A q \in Q :
        \E m \in votes : m.from = q /\ Subject(m) = c}

ProposeQC == CertificatesOf(proposeVotes)
CommitQC == CertificatesOf(precommitVotes)

\* n has not voted to commit by this certificate, and is past its view.
WontCommit(n, c) ==
    /\ \A m \in precommitVotes : m.from = n => Subject(m) # c
    /\ Less(c.view, view[n])

\* No two thirds of the votes can commit by this certificate any more.
Refuted(c) == \A Q \in Quorum : \E q \in Q \ Forgetful : WontCommit(q, c)

-----------------------------------------------------------------------------
\* Nodes never commit two blocks at one height (README.md of bft, "SAFETY").
Agreement ==
    \A m, n \in Node :
        committed[m] # NULL /\ committed[n] # NULL => committed[m] = committed[n]

\* A validator that voted to commit a block defends that block or one of a
\* later certificate, through round changes and resets by the root chain
\* (NewHeight(true) in bft.go keeps the lock).
PromiseKept ==
    \A m \in precommitVotes : m.from \in Honest =>
        highQC[m.from] # NULL /\ ~Less(highQC[m.from].view, m.view)

\* A proposal heeds the locks of those who elected its leader: it is justified
\* by a certificate as late as any of them, or by one of the same root height
\* (AddVote and StartProposePhase of bft).
ElectorsHeeded ==
    \A p \in proposals : \E Q \in Quorum : \A q \in Q :
        \E m \in electionVotes :
            /\ m.from = q /\ m.view = p.view
            /\ m.high # NULL =>
                  /\ p.high # NULL
                  /\ \/ ~Less(p.high.view, m.high.view)
                     \/ p.high.view.root = p.view.root

\* A validator that voted to commit one block votes for another only when the
\* first can no longer be committed: SafeNode compares rounds of whatever root
\* height, and is safe for what the leader has heard.
UnlockedWhenRefuted ==
    \A k \in precommitVotes, m \in proposeVotes :
        /\ k.from = m.from /\ m.from \in Honest
        /\ Less(k.view, m.view) /\ k.block # m.block
        => Refuted(Subject(k))

\* The height is decided once: consensus implements one decision that the
\* nodes learn.
Decision == INSTANCE HeightDecision WITH
    chosen <- {c.block : c \in CommitQC},
    learned <- committed
DecisionSpec == Decision!Spec
=============================================================================
