---------------------------- MODULE DriverProofs ----------------------------
(***************************************************************************)
(* Theorems about Driver, for any validators, powers, heights and rounds.   *)
(***************************************************************************)
EXTENDS FoldProofs, Driver

(* The blocks of Byzantine validators are chains of entries.                *)
LEMMA ByzantineChain ==
    ASSUME TypeOK, NEW b \in ByzantineBlocks
    PROVE  b \in Chain /\ Honest # Val
<1>0. Honest # Val
  BY DEF ByzantineBlocks
<1>1. PICK m \in Honest :
        b \in {Append(SubSeq(chain[m], 1, k), e) :
                k \in 0..Len(chain[m]), e \in [by : ByzNames, payload : Payload]}
  BY <1>0 DEF ByzantineBlocks
<1>2. PICK k \in 0..Len(chain[m]), e \in [by : ByzNames, payload : Payload] :
        b = Append(SubSeq(chain[m], 1, k), e)
  BY <1>1
<1>3. chain[m] \in Seq(Entry)
  BY DEF TypeOK, Chain
<1>4. SubSeq(chain[m], 1, k) \in Seq(Entry)
  <2>1. \A i \in 1..k : chain[m][i] \in Entry
    BY <1>3, LenProperties, ElementOfSeq
  <2> QED BY <2>1, SubSeqProperties
<1>5. e \in Entry
  BY DriverAssumption DEF Entry
<1> QED BY <1>0, <1>2, <1>4, <1>5, AppendProperties DEF Chain

(* Every block offered to a node is a chain.                                *)
LEMMA OfferedChain ==
    ASSUME TypeOK, NEW n \in Honest, NEW b \in ProposalsFor(n)
    PROVE  b \in Chain
<1>1. CASE b \in ByzantineBlocks
  BY <1>1, ByzantineChain
<1>2. CASE b \notin ByzantineBlocks
  <2>1. PICK q \in proposals : b = q.block
    BY <1>2 DEF ProposalsFor
  <2>2. q \in Proposal
    BY <2>1 DEF TypeOK
  <2> QED BY <2>1, <2>2 DEF Proposal
<1> QED BY <1>1, <1>2

(* Every block a peer may gossip is a chain.                                *)
LEMMA PeerChain ==
    ASSUME TypeOK, NEW n \in Honest, NEW b \in PeerBlocks(n)
    PROVE  b \in Chain
<1>1. CASE b \in ByzantineBlocks
  BY <1>1, ByzantineChain
<1>2. CASE b \notin ByzantineBlocks
  <2>1. PICK m \in Honest : /\ Len(chain[m]) > Len(chain[n])
                            /\ b = SubSeq(chain[m], 1, Len(chain[n]) + 1)
    BY <1>2 DEF PeerBlocks
  <2>2. chain[n] \in Seq(Entry) /\ chain[m] \in Seq(Entry)
    BY <2>1 DEF TypeOK, Chain
  <2>3. Len(chain[n]) \in Nat /\ Len(chain[m]) \in Nat
    BY <2>2, LenProperties
  <2>4. \A i \in 1..(Len(chain[n]) + 1) : chain[m][i] \in Entry
    BY <2>1, <2>2, <2>3, ElementOfSeq
  <2> QED BY <2>1, <2>3, <2>4, SubSeqProperties DEF Chain
<1> QED BY <1>1, <1>2

(* A hash with a quorum in a tally is a block some tallied vote names.      *)
LEMMA QuorumHash ==
    ASSUME NEW t, NEW S, NEW b \in QuorumHashes(t, S)
    PROVE  /\ b # Nil
           /\ has_quorum(Power, S, Voters(t, b))
           /\ \E v \in DOMAIN t : b = t[v]
BY DEF QuorumHashes

(* Tallying keeps earlier votes and adds at most one.                       *)
LEMMA TallyEffect ==
    ASSUME NEW t, NEW v, NEW h
    PROVE  /\ DOMAIN Tally(t, v, h) = DOMAIN t \cup {v}
           /\ \A u \in DOMAIN t : Tally(t, v, h)[u] = t[u]
           /\ v \notin DOMAIN t => Tally(t, v, h)[v] = h
           /\ \A H : t \in [DOMAIN t -> H] /\ h \in H =>
                 Tally(t, v, h) \in [DOMAIN t \cup {v} -> H]
BY DEF Tally

-----------------------------------------------------------------------------
(* The inductive step, one lemma per action; where several actions have the  *)
(* same effect on the invariant, one lemma about that effect.               *)

(* A tally that was just cleared has no votes.                              *)
LEMMA EmptyTally == /\ DOMAIN NoVotes = {}
                    /\ NoVotes \in [DOMAIN NoVotes -> Hash]
BY DEF NoVotes

(* The height of an honest ledger is a natural number.                      *)
LEMMA ChainLength ==
    ASSUME TypeOK
    PROVE  \A n \in Honest : Len(chain[n]) \in Nat
BY LenProperties DEF TypeOK, Chain

(* Votes are never withdrawn, so what they show stays shown.                *)
LEMMA MisledMonotone ==
    ASSUME votes \subseteq votes'
    PROVE  /\ \A n, h : Misled(n, h) => Misled(n, h)'
           /\ \A v : Misjudged(v) => Misjudged(v)'
BY DEF Misled, Misjudged, Below

(* And a quorum of prevotes stays one.                                      *)
LEMMA PolkaMonotone ==
    ASSUME votes \subseteq votes', NEW h, NEW b, Polka(h, b)
    PROVE  Polka(h, b)'
BY DEF Polka

(* Precommits sent before stay backed.                                      *)
LEMMA BackedBefore ==
    ASSUME IndInv, slashed \subseteq slashed', votes \subseteq votes',
           slashed' \cap Honest = {}
    PROVE  /\ \A v \in votes : v.type = "precommit" => Polka(v.height, v.hash)'
           /\ lastCommit' = lastCommit => CertificatesBacked'
<1>1. PrecommitsBacked /\ CertificatesBacked
  BY DEF IndInv, BackedInv
<1>2. ASSUME NEW v \in votes, v.type = "precommit" PROVE Polka(v.height, v.hash)'
  <2>1. Polka(v.height, v.hash)
    BY <1>1, <1>2 DEF PrecommitsBacked
  <2> QED BY <2>1, PolkaMonotone
<1>3. ASSUME lastCommit' = lastCommit PROVE CertificatesBacked'
  BY <1>1, <1>3, PolkaMonotone DEF CertificatesBacked
<1> QED BY <1>2, <1>3

(* The ledger of n grows, or stays, and n is about to prevote or goes on as  *)
(* it was.                                                                  *)
Grows(n) ==
    /\ \E b \in Chain : /\ chain' = [chain EXCEPT ![n] = b]
                        /\ Len(chain[n]) <= Len(b)
    /\ \/ UNCHANGED <<pc, pending>>
       \/ /\ pc[n] \in {"propose", "await"}
          /\ pc' = [pc EXCEPT ![n] = "prevote"]
          /\ \E b \in Chain :
               /\ pending' = [pending EXCEPT ![n] = b]
               /\ height[n] <= Len(chain'[n]) \/ Len(b) < height[n]
               /\ Honest = Val => height[n] <= Len(b)
    /\ \/ UNCHANGED proposals
       \/ \E p \in Proposal : /\ proposals' = proposals \cup {p}
                              /\ p.height <= Len(p.block)
    /\ UNCHANGED <<engine, tally, lastCommit, accused, history, votes, crashes>>

(* A ledger that grows, and the proposal that may go with it, keep the      *)
(* invariant.                                                               *)
LEMMA GrowsInv ==
    ASSUME IndInv, NEW n \in Honest, Grows(n)
    PROVE  IndInv'
<1> USE DEF engine, tally, history
<1>0. TypeOK
  BY DEF IndInv, VotingInv
<1>1. PICK b \in Chain : /\ chain' = [chain EXCEPT ![n] = b]
                         /\ Len(chain[n]) <= Len(b)
  BY DEF Grows
<1>2. /\ \A m \in Honest : Len(chain[m]) \in Nat /\ Len(chain'[m]) \in Nat
      /\ \A m \in Honest : Len(chain[m]) <= Len(chain'[m])
  <2>1. Len(b) \in Nat
    BY LenProperties DEF Chain
  <2> QED BY <1>0, <1>1, <2>1, ChainLength DEF TypeOK
<1>3. TypeOK'
  <2>1. chain' \in [Honest -> Chain]
    BY <1>0, <1>1 DEF TypeOK
  <2>2. pc' \in [Honest -> {"start", "propose", "await", "prevote", "votes"}]
    BY <1>0 DEF TypeOK, Grows
  <2>3. pending' \in [Honest -> Hash]
    BY <1>0 DEF TypeOK, Grows, Hash
  <2>4. proposals' \subseteq Proposal
    BY <1>0 DEF TypeOK, Grows
  <2> QED BY <1>0, <2>1, <2>2, <2>3, <2>4 DEF TypeOK, Grows
<1>4. votes' = votes /\ height' = height
  BY DEF Grows
<1>5. ASSUME NEW m \in Honest, pc'[m] = "prevote"
      PROVE  /\ pending'[m] \in Chain
             /\ height[m] <= Len(chain'[m]) \/ Len(pending'[m]) < height[m]
             /\ Honest = Val => height[m] <= Len(pending'[m])
  <2>1. height[m] \in Int
    BY <1>0 DEF TypeOK
  <2>2. CASE pc'[m] = pc[m] /\ pending'[m] = pending[m]
    BY <1>2, <1>5, <2>1, <2>2 DEF IndInv, VotingInv, LedgerAhead, HonestProposals
  <2>3. CASE ~ (pc'[m] = pc[m] /\ pending'[m] = pending[m])
    <3>1. PICK c \in Chain :
               /\ pending' = [pending EXCEPT ![n] = c]
               /\ height[n] <= Len(chain'[n]) \/ Len(c) < height[n]
               /\ Honest = Val => height[n] <= Len(c)
      BY <2>3 DEF Grows
    <3>2. m = n /\ pending'[m] = c
      BY <1>0, <2>3, <3>1 DEF Grows, TypeOK
    <3> QED BY <3>1, <3>2
  <2> QED BY <2>2, <2>3
<1>6. LedgerAhead' /\ HonestProposals'
  <2>1. \A v \in votes' : v.hash # Nil => v.height <= Len(chain'[v.val]) \/ Misjudged(v)'
    <3>1. SUFFICES ASSUME NEW v \in votes, v.hash # Nil
                   PROVE  v.height <= Len(chain'[v.val]) \/ Misjudged(v)'
      BY <1>4
    <3>2. v.val \in Honest /\ v.height \in Int
      BY <1>0 DEF TypeOK, Vote
    <3>3. v.height <= Len(chain[v.val]) \/ Misjudged(v)
      BY <3>1 DEF IndInv, VotingInv, LedgerAhead
    <3>4. Misjudged(v) => Misjudged(v)'
      BY <1>4, MisledMonotone
    <3> QED BY <1>2, <3>2, <3>3, <3>4
  <2>2. ASSUME NEW m \in Honest, pc'[m] = "votes"
        PROVE  height[m] <= Len(chain'[m]) \/ Misled(m, height[m])'
    <3>1. pc[m] = "votes" /\ height[m] \in Int
      BY <1>0, <2>2 DEF Grows, TypeOK
    <3>2. height[m] <= Len(chain[m]) \/ Misled(m, height[m])
      BY <3>1 DEF IndInv, VotingInv, LedgerAhead
    <3>3. Misled(m, height[m]) => Misled(m, height[m])'
      BY <1>4 DEF Misled, Below
    <3> QED BY <1>2, <3>1, <3>2, <3>3
  <2>3. \A m \in Honest : height'[m] <= Len(chain'[m]) + 1
    <3>1. SUFFICES ASSUME NEW m \in Honest PROVE height[m] <= Len(chain'[m]) + 1
      BY <1>4
    <3>2. height[m] \in Int /\ height[m] <= Len(chain[m]) + 1
      BY <1>0 DEF TypeOK, IndInv, VotingInv, LedgerAhead
    <3> QED BY <1>2, <3>2
  <2>4. \A p \in proposals' : p.height <= Len(p.block)
    BY DEF Grows, IndInv, VotingInv, LedgerAhead
  <2>5. LedgerAhead'
    BY <1>4, <1>5, <2>1, <2>2, <2>3, <2>4 DEF LedgerAhead
  <2>6. HonestProposals'
    BY <1>4, <1>5 DEF HonestProposals
  <2> QED BY <2>5, <2>6
<1>7. \A m \in Honest : /\ pc'[m] \in {"propose", "await", "prevote"}
                             => pc[m] \in {"propose", "await", "prevote"}
                        /\ pc'[m] = "votes" => pc[m] = "votes"
                        /\ pc'[m] # "start" => pc[m] # "start"
  BY <1>0 DEF Grows, TypeOK
<1>8. Fresh' /\ Started'
  BY <1>7 DEF IndInv, VotingInv, Fresh, Started, BlockVotesOf, Grows, Misjudged, Misled, Below
<1>9. /\ PrecommitsNameBlocks' /\ TalliesOK' /\ TalliesSound' /\ AccusedSlashed'
      /\ HonestNotSlashed'
  BY DEF IndInv, VotingInv, PrecommitsNameBlocks, TalliesOK, TalliesSound, AccusedSlashed,
         HonestNotSlashed, Grows
<1>10. OneBlockVotePerHeight'
  BY DEF IndInv, VotingInv, OneBlockVotePerHeight, Misjudged, Misled, Below, Grows
<1>11. ASSUME crashes' = 0 PROVE NoRestartInv'
  BY <1>7, <1>11 DEF IndInv, NoRestartInv, Forward, NoEquivocation, Grows
<1>12. ASSUME slashed' \cap Honest = {} PROVE BackedInv'
  <2>1. UNCHANGED <<votes, slashed, lastCommit, vset>>
    BY DEF Grows
  <2>2. AllHonestActive'
    BY <1>12, <2>1 DEF IndInv, BackedInv, AllHonestActive
  <2>3. PrecommitsBacked' /\ CertificatesBacked'
    BY <1>12, <2>1, BackedBefore DEF PrecommitsBacked
  <2> QED BY <2>2, <2>3 DEF BackedInv
<1> QED BY <1>3, <1>6, <1>8, <1>9, <1>10, <1>11, <1>12 DEF IndInv, VotingInv

(* The local proposer applies its block before it has a single vote.        *)
LEMMA ProposeInv ==
    ASSUME IndInv, NEW n \in Honest, NEW p \in Payload, ProposeAsLocal(n, p)
    PROVE  IndInv'
<1> DEFINE e == [by |-> n, payload |-> p]
           b == Append(chain[n], e)
           q == [height |-> height[n], round |-> round[n], block |-> b]
<1>0. TypeOK
  BY DEF IndInv, VotingInv
<1>1. e \in Entry
  BY DriverAssumption DEF Entry
<1>2. chain[n] \in Seq(Entry)
  BY <1>0 DEF TypeOK, Chain
<1>3. b \in Chain /\ Len(b) = Len(chain[n]) + 1 /\ Len(chain[n]) \in Nat
  BY <1>1, <1>2, AppendProperties, LenProperties DEF Chain
<1>4. /\ height[n] \in 1..MaxHeight
      /\ height[n] <= Len(b)
  <2>1. height[n] >= 1 /\ height[n] <= Len(chain[n]) + 1
    BY DEF IndInv, VotingInv, Started, LedgerAhead, ProposeAsLocal
  <2>2. height[n] \in 0..MaxHeight
    BY <1>0 DEF TypeOK
  <2> QED BY <1>3, <2>1, <2>2, DriverAssumption
<1>5. q \in Proposal /\ q.height <= Len(q.block)
  BY <1>0, <1>3, <1>4 DEF Proposal, TypeOK
<1>6. chain' = [chain EXCEPT ![n] = b] /\ chain'[n] = b
  BY <1>0 DEF ProposeAsLocal, TypeOK
<1>7. Grows(n)
  <2>1. proposals' = proposals \cup {q}
    BY DEF ProposeAsLocal
  <2>2. Len(chain[n]) <= Len(b)
    BY <1>3
  <2>3. \E bb \in Chain : /\ pending' = [pending EXCEPT ![n] = bb]
                          /\ height[n] <= Len(chain'[n]) \/ Len(bb) < height[n]
                          /\ Honest = Val => height[n] <= Len(bb)
    BY <1>3, <1>4, <1>6 DEF ProposeAsLocal
  <2>4. \E bb \in Chain : chain' = [chain EXCEPT ![n] = bb] /\ Len(chain[n]) <= Len(bb)
    BY <1>3, <1>6, <2>2
  <2>5. /\ pc[n] \in {"propose", "await"}
        /\ pc' = [pc EXCEPT ![n] = "prevote"]
        /\ UNCHANGED <<engine, tally, lastCommit, accused, history, votes, crashes>>
    BY DEF ProposeAsLocal
  <2>6. \E pp \in Proposal : proposals' = proposals \cup {pp} /\ pp.height <= Len(pp.block)
    BY <1>5, <2>1
  <2> HIDE DEF b, e, q
  <2> QED BY <2>3, <2>4, <2>5, <2>6 DEF Grows
<1> QED BY <1>7, GrowsInv

(* Where everybody is honest, a block that is offered to n reaches the       *)
(* height n is deciding.                                                    *)
LEMMA OfferedHeight ==
    ASSUME IndInv, Honest = Val, NEW n \in Honest, NEW b \in ProposalsFor(n)
    PROVE  height[n] <= Len(b)
<1>1. PICK q \in proposals : b = q.block /\ q.height = height[n]
  BY DEF ProposalsFor, ByzantineBlocks
<1> QED BY <1>1 DEF IndInv, VotingInv, LedgerAhead

(* A node that accepts a proposal has applied it, or had a block there.     *)
LEMMA AcceptInv ==
    ASSUME IndInv, NEW n \in Honest, NEW b \in ProposalsFor(n), AcceptProposal(n, b)
    PROVE  IndInv'
<1> DEFINE c == Applied(n, b)
<1>0. TypeOK
  BY DEF IndInv, VotingInv
<1>1. b \in Chain /\ Len(b) \in Nat
  BY <1>0, OfferedChain, LenProperties DEF Chain
<1>2. Len(chain[n]) \in Nat /\ chain[n] \in Chain /\ height[n] \in Int
  BY <1>0, ChainLength DEF TypeOK
<1>3. Honest = Val => height[n] <= Len(b)
  BY OfferedHeight
<1>4. /\ c \in Chain /\ Len(chain[n]) <= Len(c)
      /\ height[n] <= Len(c) \/ Len(b) < height[n]
  <2>1. CASE Extends(n, b)
    BY <1>1, <1>2, <2>1 DEF Applied, Extends
  <2>2. CASE ~ Extends(n, b)
    <3>1. Len(b) <= Len(chain[n]) /\ c = chain[n]
      BY <2>2 DEF AcceptProposal, Ignored, Applied
    <3> QED BY <1>1, <1>2, <3>1
  <2> QED BY <2>1, <2>2
<1>5. chain' = [chain EXCEPT ![n] = c] /\ chain'[n] = c
  BY <1>0 DEF AcceptProposal, TypeOK
<1> HIDE DEF c
<1>6. Grows(n)
  <2>1. \E bb \in Chain : chain' = [chain EXCEPT ![n] = bb] /\ Len(chain[n]) <= Len(bb)
    BY <1>4, <1>5
  <2>2. /\ pc[n] \in {"propose", "await"}
        /\ pc' = [pc EXCEPT ![n] = "prevote"]
        /\ UNCHANGED <<engine, tally, lastCommit, accused, history, votes, proposals, crashes>>
    BY DEF AcceptProposal, network
  <2>3. \E bb \in Chain : /\ pending' = [pending EXCEPT ![n] = bb]
                          /\ height[n] <= Len(chain'[n]) \/ Len(bb) < height[n]
                          /\ Honest = Val => height[n] <= Len(bb)
    BY <1>1, <1>3, <1>4, <1>5 DEF AcceptProposal
  <2> QED BY <2>1, <2>2, <2>3 DEF Grows
<1> QED BY <1>6, GrowsInv

(* A gossiped block extends the ledger with no vote at all.                 *)
LEMMA GossipInv ==
    ASSUME IndInv, NEW n \in Honest, NEW b \in PeerBlocks(n), GossipBlock(n, b)
    PROVE  IndInv'
<1>0. TypeOK
  BY DEF IndInv, VotingInv
<1>1. b \in Chain /\ Len(chain[n]) \in Nat
  BY <1>0, PeerChain, ChainLength
<1>2. Len(chain[n]) <= Len(b)
  BY <1>1 DEF GossipBlock, Extends
<1>3. Grows(n)
  BY <1>1, <1>2 DEF GossipBlock, Grows, network
<1> QED BY <1>3, GrowsInv

(* n sends prevotes P and precommits C of its attempt, at most one of each:   *)
(* a prevote while it has not prevoted, a precommit, of a block, while it    *)
(* has not precommitted.                                                    *)
Sends(n, P, C) ==
    /\ pc[n] \in {"propose", "await", "prevote", "votes"}
    /\ \E x \in {"start", "votes"} :
         /\ pc' = [pc EXCEPT ![n] = x]
         /\ pc[n] \in {"propose", "await"} => x = "start"
         /\ pc[n] = "prevote" => P # {}
    /\ votes' = votes \cup P \cup C
    /\ P \in SUBSET Vote /\ C \in SUBSET Vote
    /\ \A v \in P \cup C : v.val = n /\ v.height = height[n] /\ v.round = round[n]
    /\ \A v \in P : /\ v.type = "prevote"
                    /\ pc[n] # "votes"
                    /\ v.hash # Nil => pc[n] = "prevote"
                    /\ pc[n] = "prevote" => v.hash = pending[n]
    /\ \A v \in C : /\ v.type = "precommit"
                    /\ v.hash # Nil
                    /\ pc[n] \in {"prevote", "votes"}
                    /\ ~ precommitted[n] /\ precommitted'[n]
    /\ \A v, w \in P : v = w
    /\ \A v, w \in C : v = w
    /\ precommitted' \in [Honest -> BOOLEAN]
    /\ \A m \in Honest : precommitted[m] => precommitted'[m]
    /\ UNCHANGED <<chain, engine, pending, proposals, crashes>>

(* What a vote that n did not send yet can share with one it sent.          *)
LEMMA SentBefore ==
    ASSUME IndInv, NEW n \in Honest, NEW P, NEW C, Sends(n, P, C), NEW v \in votes,
           NEW w \in P \cup C, v.val = n, v.type = w.type
    PROVE  /\ v.hash # Nil /\ w.hash # Nil => v.height # w.height \/ Misjudged(v)
           /\ crashes = 0 /\ v.height = w.height => v.round # w.round
<1>1. v \in Vote /\ v.height \in Int /\ height[n] \in Int
  BY DEF IndInv, VotingInv, TypeOK, Vote
<1>2. w.val = n /\ w.height = height[n] /\ w.round = round[n]
  BY DEF Sends
<1>3. ASSUME v.hash # Nil, w.hash # Nil PROVE v.height < height[n] \/ Misjudged(v)
  <2>1. v \in BlockVotesOf(n)
    BY <1>3 DEF BlockVotesOf
  <2>2. CASE w \in P
    BY <1>3, <2>1, <2>2 DEF Sends, IndInv, VotingInv, Fresh
  <2>3. CASE w \in C
    BY <1>3, <2>1, <2>3 DEF Sends, IndInv, VotingInv, Fresh
  <2> QED BY <2>2, <2>3
<1>4. ASSUME crashes = 0, v.height = w.height, v.round = w.round PROVE FALSE
  <2>1. /\ pc[n] \notin {"propose", "await", "prevote"}
        /\ v.type = "precommit" /\ pc[n] = "votes" => precommitted[n]
    BY <1>2, <1>4 DEF IndInv, NoRestartInv, Forward
  <2>2. CASE w \in P
    BY <2>1, <2>2 DEF Sends
  <2>3. CASE w \in C
    BY <2>1, <2>3 DEF Sends
  <2> QED BY <2>2, <2>3
<1> QED BY <1>1, <1>2, <1>3, <1>4

(* Accusations are only added, and are of honest validators only after a      *)
(* restart or on evidence of a Byzantine one.                               *)
Accuses ==
    /\ accused' \in [Honest -> SUBSET Val]
    /\ slashed' \subseteq Val /\ framed' \subseteq Val
    /\ slashed \subseteq slashed'
    /\ AccusedSlashed'
    /\ HonestNotSlashed'

(* Nobody accused is the simplest case.                                     *)
LEMMA AccusesNobody ==
    ASSUME IndInv, UNCHANGED <<accused, history, crashes>>
    PROVE  Accuses
BY DEF IndInv, VotingInv, TypeOK, Accuses, AccusedSlashed, HonestNotSlashed, history

(* A node that only sends votes, tallies and accuses keeps the invariant.   *)
LEMMA SendsInv ==
    ASSUME IndInv, NEW n \in Honest, NEW P, NEW C, Sends(n, P, C),
           Accuses,
           lastCommit' \in [Honest -> [1..MaxHeight -> Hash]],
           TalliesOK', TalliesSound',
           Honest = Val => \A v \in P \cup C : ~ Below(v),
           slashed' \cap Honest = {} => PrecommitsBacked' /\ CertificatesBacked'
    PROVE  IndInv'
<1> USE DEF engine
<1>0. TypeOK
  BY DEF IndInv, VotingInv
<1>1. TypeOK'
  <2>1. votes' \subseteq Vote
    BY <1>0 DEF TypeOK, Sends
  <2>2. pc' \in [Honest -> {"start", "propose", "await", "prevote", "votes"}]
    BY <1>0 DEF TypeOK, Sends
  <2> QED BY <1>0, <2>1, <2>2 DEF TypeOK, Sends, Accuses
<1>2. /\ \A m \in Honest : m # n => pc'[m] = pc[m]
      /\ pc'[n] \in {"start", "votes"}
      /\ pc'[n] = "votes" => pc[n] \in {"prevote", "votes"}
      /\ pc'[n] = "votes" /\ pc[n] = "prevote" => P # {}
  BY <1>0 DEF Sends, TypeOK
<1>3. votes \subseteq votes' /\ P \subseteq votes' /\ height' = height /\ chain' = chain
  BY DEF Sends
<1>4. \A v : Misjudged(v) => Misjudged(v)'
  BY <1>3, MisledMonotone
<1>5. ASSUME pc[n] = "prevote", NEW w \in P
      PROVE  height[n] <= Len(chain[n]) \/ (Below(w) /\ Misled(n, height[n])')
  <2>1. /\ w.val = n /\ w.height = height[n] /\ w.type = "prevote" /\ w.hash = pending[n]
    BY <1>5 DEF Sends
  <2>2. /\ pending[n] \in Chain
        /\ height[n] <= Len(chain[n]) \/ Len(pending[n]) < height[n]
    BY <1>5 DEF IndInv, VotingInv, LedgerAhead
  <2>3. pending[n] # Nil
    BY <2>2, DriverAssumption
  <2>4. height[n] <= Len(chain[n]) \/ Below(w)
    BY <2>1, <2>2, <2>3 DEF Below
  <2>5. Below(w) => Misled(n, height[n])'
    BY <1>3, <2>1 DEF Misled, Below
  <2> QED BY <2>4, <2>5
<1>6. ASSUME pc[n] = "votes"
      PROVE  height[n] <= Len(chain[n]) \/ Misled(n, height[n])'
  <2>1. height[n] <= Len(chain[n]) \/ Misled(n, height[n])
    BY <1>6 DEF IndInv, VotingInv, LedgerAhead
  <2>2. Misled(n, height[n]) => Misled(n, height[n])'
    BY <1>3 DEF Misled, Below
  <2> QED BY <2>1, <2>2
<1>7. LedgerAhead'
  <2>1. ASSUME NEW v \in votes', v.hash # Nil
        PROVE  v.height <= Len(chain[v.val]) \/ Misjudged(v)'
    <3>1. CASE v \in votes
      BY <1>4, <2>1, <3>1 DEF IndInv, VotingInv, LedgerAhead
    <3>2. CASE v \in P
      <4>1. /\ pc[n] = "prevote" /\ v.val = n /\ v.height = height[n] /\ v.type = "prevote"
        BY <2>1, <3>2 DEF Sends
      <4>2. height[n] <= Len(chain[n]) \/ Below(v)
        BY <1>5, <3>2, <4>1
      <4> QED BY <4>1, <4>2 DEF Misjudged, Below
    <3>3. CASE v \in C
      <4>1. /\ v.val = n /\ v.height = height[n] /\ v.type = "precommit"
            /\ pc[n] \in {"prevote", "votes"}
            /\ pc[n] = "prevote" => P # {}
        BY <3>3 DEF Sends
      <4>2. height[n] <= Len(chain[n]) \/ Misled(n, height[n])'
        BY <1>5, <1>6, <4>1
      <4> QED BY <1>3, <4>1, <4>2 DEF Misjudged
    <3> QED BY <3>1, <3>2, <3>3 DEF Sends
  <2>2. ASSUME NEW m \in Honest, pc'[m] = "votes"
        PROVE  height[m] <= Len(chain[m]) \/ Misled(m, height[m])'
    <3>1. CASE m = n
      BY <1>2, <1>5, <1>6, <2>2, <3>1
    <3>2. CASE m # n
      <4>1. height[m] <= Len(chain[m]) \/ Misled(m, height[m])
        BY <1>2, <2>2, <3>2 DEF IndInv, VotingInv, LedgerAhead
      <4>2. Misled(m, height[m]) => Misled(m, height[m])'
        BY <1>3 DEF Misled, Below
      <4> QED BY <4>1, <4>2
    <3> QED BY <3>1, <3>2
  <2>3. ASSUME NEW m \in Honest, pc'[m] = "prevote"
        PROVE  /\ pending[m] \in Chain
               /\ height[m] <= Len(chain[m]) \/ Len(pending[m]) < height[m]
    <3>1. pc[m] = "prevote"
      BY <1>2, <2>3
    <3> QED BY <3>1 DEF IndInv, VotingInv, LedgerAhead
  <2>4. pending' = pending /\ proposals' = proposals
    BY DEF Sends
  <2>5. /\ \A m \in Honest : height[m] <= Len(chain[m]) + 1
        /\ \A p \in proposals : p.height <= Len(p.block)
    BY DEF IndInv, VotingInv, LedgerAhead
  <2>6. \A v \in votes' : v.hash # Nil => v.height <= Len(chain'[v.val]) \/ Misjudged(v)'
    BY <1>3, <2>1
  <2>7. \A m \in Honest : pc'[m] = "votes"
           => height'[m] <= Len(chain'[m]) \/ Misled(m, height[m])'
    BY <1>3, <2>2
  <2> QED BY <1>3, <2>3, <2>4, <2>5, <2>6, <2>7 DEF LedgerAhead
<1>8. HonestProposals'
  <2>1. \A m \in Honest : pc'[m] = "prevote" => pc[m] = "prevote"
    BY <1>2
  <2> QED BY <2>1 DEF IndInv, VotingInv, HonestProposals, Sends
<1>9. Fresh'
  <2>1. SUFFICES ASSUME NEW m \in Honest, NEW v \in votes', v.val = m, v.hash # Nil
                 PROVE  /\ pc'[m] \in {"propose", "await", "prevote"}
                             => v.height < height[m] \/ Misjudged(v)'
                        /\ pc'[m] = "votes" /\ v.type = "precommit" /\ ~ precommitted'[m]
                             => v.height < height[m] \/ Misjudged(v)'
    BY <1>3 DEF Fresh, BlockVotesOf
  <2>2. CASE v \in votes
    <3>1. v \in BlockVotesOf(m)
      BY <2>1, <2>2 DEF BlockVotesOf
    <3>2. CASE m = n
      <4>1. ~ precommitted'[m] => ~ precommitted[m]
        BY DEF Sends
      <4> QED BY <1>2, <1>4, <3>1, <3>2, <4>1 DEF IndInv, VotingInv, Fresh
    <3>3. CASE m # n
      <4>1. ~ precommitted'[m] => ~ precommitted[m]
        BY DEF Sends
      <4> QED BY <1>2, <1>4, <3>1, <3>3, <4>1 DEF IndInv, VotingInv, Fresh
    <3> QED BY <3>2, <3>3
  <2>3. CASE v \in P \cup C
    <3>1. m = n
      BY <2>1, <2>3 DEF Sends
    <3>2. v.type = "precommit" => precommitted'[n]
      BY <2>3 DEF Sends
    <3> QED BY <1>2, <3>1, <3>2
  <2> QED BY <2>2, <2>3 DEF Sends
<1>10. Started'
  BY <1>2 DEF IndInv, VotingInv, Started, Sends
<1>11. PrecommitsNameBlocks'
  BY DEF IndInv, VotingInv, PrecommitsNameBlocks, Sends
<1>12. \A v \in P \cup C, w \in P \cup C : v.type = w.type => v = w
  BY DEF Sends
<1>13. OneBlockVotePerHeight'
  <2>1. ASSUME NEW v \in votes', NEW w \in votes',
               v.type = w.type, v.val = w.val, v.height = w.height,
               v.hash # Nil, w.hash # Nil
        PROVE  v = w \/ Misjudged(v)' \/ Misjudged(w)'
    <3>1. CASE v \in votes /\ w \in votes
      BY <1>4, <2>1, <3>1 DEF IndInv, VotingInv, OneBlockVotePerHeight
    <3>2. CASE v \in votes /\ w \in P \cup C
      <4>1. v.val = n
        BY <2>1, <3>2 DEF Sends
      <4> QED BY <1>4, <2>1, <3>2, <4>1, SentBefore
    <3>3. CASE v \in P \cup C /\ w \in votes
      <4>1. w.val = n
        BY <2>1, <3>3 DEF Sends
      <4> QED BY <1>4, <2>1, <3>3, <4>1, SentBefore
    <3>4. CASE v \in P \cup C /\ w \in P \cup C
      BY <1>12, <2>1, <3>4
    <3> QED BY <3>1, <3>2, <3>3, <3>4 DEF Sends
  <2>2. Honest = Val => \A v \in votes' : ~ Below(v)
    BY DEF IndInv, VotingInv, OneBlockVotePerHeight, Sends
  <2>3. Honest = Val => \A v \in votes' : ~ Below(v)'
    BY <2>2 DEF Below
  <2> QED BY <2>1, <2>3 DEF OneBlockVotePerHeight
<1>14. ASSUME crashes' = 0 PROVE NoRestartInv'
  <2>0. NoRestartInv /\ crashes = 0
    BY <1>14 DEF IndInv, Sends
  <2>1. Forward'
    <3>1. \A v \in votes' : \/ v.height < height[v.val]
                            \/ v.height = height[v.val] /\ v.round <= round[v.val]
      <4>1. SUFFICES ASSUME NEW v \in votes'
                     PROVE  \/ v.height < height[v.val]
                            \/ v.height = height[v.val] /\ v.round <= round[v.val]
        OBVIOUS
      <4>2. CASE v \in votes
        BY <2>0, <4>2 DEF NoRestartInv, Forward
      <4>3. CASE v \in P \cup C
        <5>1. v.height = height[n] /\ v.round = round[n] /\ v.val = n /\ round[n] \in Int
          BY <1>0, <4>3 DEF Sends, TypeOK
        <5> QED BY <5>1
      <4> QED BY <4>2, <4>3 DEF Sends
    <3>2. ASSUME NEW m \in Honest, NEW v \in votes',
                 v.val = m, v.height = height[m], v.round = round[m]
          PROVE  /\ pc'[m] \notin {"propose", "await", "prevote"}
                 /\ v.type = "precommit" /\ pc'[m] = "votes" => precommitted'[m]
      <4>1. CASE v \in votes
        <5>1. /\ pc[m] \notin {"propose", "await", "prevote"}
              /\ v.type = "precommit" /\ pc[m] = "votes" => precommitted[m]
          BY <2>0, <3>2, <4>1 DEF NoRestartInv, Forward
        <5>2. precommitted[m] => precommitted'[m]
          BY DEF Sends
        <5> QED BY <1>2, <5>1, <5>2
      <4>2. CASE v \in P \cup C
        BY <1>2, <3>2, <4>2 DEF Sends
      <4> QED BY <4>1, <4>2 DEF Sends
    <3> QED BY <3>1, <3>2 DEF Forward, Sends
  <2>2. NoEquivocation'
    <3>1. SUFFICES ASSUME NEW v \in votes', NEW w \in votes',
                          v.type = w.type, v.val = w.val,
                          v.height = w.height, v.round = w.round
                   PROVE  v = w
      BY DEF NoEquivocation
    <3>2. CASE v \in votes /\ w \in votes
      BY <2>0, <3>1, <3>2 DEF NoRestartInv, NoEquivocation
    <3>3. CASE v \in votes /\ w \in P \cup C
      <4>1. v.val = n
        BY <3>1, <3>3 DEF Sends
      <4> QED BY <2>0, <3>1, <3>3, <4>1, SentBefore
    <3>4. CASE v \in P \cup C /\ w \in votes
      <4>1. w.val = n
        BY <3>1, <3>4 DEF Sends
      <4> QED BY <2>0, <3>1, <3>4, <4>1, SentBefore
    <3>5. CASE v \in P \cup C /\ w \in P \cup C
      BY <1>12, <3>1, <3>5
    <3> QED BY <3>2, <3>3, <3>4, <3>5 DEF Sends
  <2> QED BY <2>1, <2>2 DEF NoRestartInv
<1>15. ASSUME slashed' \cap Honest = {} PROVE BackedInv'
  <2>1. slashed \cap Honest = {}
    BY <1>15 DEF Accuses
  <2>2. AllHonestActive'
    BY <2>1 DEF IndInv, BackedInv, AllHonestActive, Sends
  <2> QED BY <1>15, <2>2 DEF BackedInv
<1> QED BY <1>1, <1>7, <1>8, <1>9, <1>10, <1>11, <1>13, <1>14, <1>15
        DEF IndInv, VotingInv, Accuses

(* What a quorum carries of the honest power: more than two thirds of it,   *)
(* less a third of the power of the others.                                *)
LEMMA QuorumHonestPower ==
    ASSUME NEW S \in SUBSET Val, NEW Q \in SUBSET S, Honest \subseteq S,
           has_quorum(Power, S, Q)
    PROVE  3 * Sum(Power, Q \cap Honest) + Sum(Power, Val \ Honest)
             > 2 * Sum(Power, Honest)
<1>1. /\ IsFiniteSet(Q \cap Honest) /\ IsFiniteSet(Q \ Honest)
      /\ IsFiniteSet(Honest) /\ IsFiniteSet(S \ Honest) /\ IsFiniteSet(Val \ Honest)
  BY DriverAssumption, FS_Subset
<1>2. \A x \in Val : Power[x] \in Nat
  BY DriverAssumption
<1>3. Sum(Power, Q) = Sum(Power, Q \cap Honest) + Sum(Power, Q \ Honest)
  <2>1. (Q \cap Honest) \cup (Q \ Honest) = Q /\ (Q \cap Honest) \cap (Q \ Honest) = {}
    OBVIOUS
  <2> QED BY <1>1, <1>2, <2>1, SumDisjoint
<1>4. Sum(Power, S) = Sum(Power, Honest) + Sum(Power, S \ Honest)
  <2>1. Honest \cup (S \ Honest) = S /\ Honest \cap (S \ Honest) = {}
    OBVIOUS
  <2> QED BY <1>1, <1>2, <2>1, SumDisjoint
<1>5. Sum(Power, Q \ Honest) <= Sum(Power, S \ Honest)
  BY <1>1, <1>2, SumMonotone
<1>6. Sum(Power, S \ Honest) <= Sum(Power, Val \ Honest)
  BY <1>1, <1>2, SumMonotone
<1>7. /\ Sum(Power, Q \cap Honest) \in Nat /\ Sum(Power, Q \ Honest) \in Nat
      /\ Sum(Power, Honest) \in Nat /\ Sum(Power, S \ Honest) \in Nat
      /\ Sum(Power, Val \ Honest) \in Nat
  BY <1>1, <1>2, DriverAssumption, SumNat
<1>8. Sum(Power, Q) >= ((Sum(Power, S) * 2) \div 3) + 1
  BY DEF has_quorum, quorum_threshold, TotalPower
<1>9. ASSUME NEW q \in Nat, NEW s \in Nat, q >= ((s * 2) \div 3) + 1
      PROVE  3 * q > 2 * s
  BY <1>9
<1>10. 3 * Sum(Power, Q) > 2 * Sum(Power, S)
  BY <1>3, <1>4, <1>7, <1>8, <1>9
<1> QED BY <1>3, <1>4, <1>5, <1>6, <1>7, <1>10

(* Any two quorums, each of a validator set that holds all honest           *)
(* validators, share an honest one, although slashing may have taken         *)
(* different validators out of the two sets.                                *)
LEMMA QuorumsOverlap ==
    ASSUME NEW S \in SUBSET Val, NEW Q \in SUBSET S,
           NEW T \in SUBSET Val, NEW R \in SUBSET T,
           Honest \subseteq S, has_quorum(Power, S, Q),
           Honest \subseteq T, has_quorum(Power, T, R)
    PROVE  Q \cap R \cap Honest # {}
<1>1. SUFFICES ASSUME Q \cap R \cap Honest = {} PROVE FALSE
  OBVIOUS
<1> DEFINE q == Q \cap Honest
           r == R \cap Honest
<1>2. IsFiniteSet(q) /\ IsFiniteSet(r) /\ IsFiniteSet(Honest) /\ IsFiniteSet(Val \ Honest)
  BY DriverAssumption, FS_Subset
<1>3. \A x \in Val : Power[x] \in Nat
  BY DriverAssumption
<1>4. q \cap r = {} /\ q \cup r \subseteq Honest /\ Honest \subseteq Val
  BY <1>1, DriverAssumption
<1>5. Sum(Power, q \cup r) = Sum(Power, q) + Sum(Power, r)
  <2> HIDE DEF q, r
  <2> QED BY <1>2, <1>3, <1>4, SumDisjoint
<1>6. Sum(Power, q \cup r) <= Sum(Power, Honest)
  <2> HIDE DEF q, r
  <2> QED BY <1>2, <1>3, <1>4, SumMonotone
<1>7. /\ 3 * Sum(Power, q) + Sum(Power, Val \ Honest) > 2 * Sum(Power, Honest)
      /\ 3 * Sum(Power, r) + Sum(Power, Val \ Honest) > 2 * Sum(Power, Honest)
  BY QuorumHonestPower
<1>8. 2 * Sum(Power, Val \ Honest) <= Sum(Power, Honest)
  BY DriverAssumption DEF ByzantineThird, TotalPower
<1>9. /\ Sum(Power, q) \in Nat /\ Sum(Power, r) \in Nat
      /\ Sum(Power, Honest) \in Nat /\ Sum(Power, Val \ Honest) \in Nat
  <2> HIDE DEF q, r
  <2> QED BY <1>2, <1>3, <1>4, SumNat
<1> HIDE DEF q, r
<1> QED BY <1>5, <1>6, <1>7, <1>8, <1>9

(* A tally of n that holds votes of members, those of honest ones among V.  *)
GoodTally(t, n) == DOMAIN t \subseteq vset[n] /\ t \in [DOMAIN t -> Hash]

SoundTally(t, type, n, V) ==
    \A v \in DOMAIN t \cap Honest :
        [type |-> type, height |-> height[n], round |-> round[n],
         hash |-> t[v], val |-> v] \in V

(* One vote more keeps a tally well formed.                                 *)
LEMMA TallyGood ==
    ASSUME NEW t, NEW n, GoodTally(t, n), NEW v \in vset[n], NEW h \in Hash
    PROVE  GoodTally(Tally(t, v, h), n)
BY DEF GoodTally, Tally

(* One vote more keeps a tally sound, if an honest vote was really cast.    *)
LEMMA TallySound ==
    ASSUME NEW t, NEW type, NEW n, NEW V, NEW W, SoundTally(t, type, n, V), V \subseteq W,
           NEW v, NEW h,
           v \in Honest => [type |-> type, height |-> height[n], round |-> round[n],
                            hash |-> h, val |-> v] \in W
    PROVE  SoundTally(Tally(t, v, h), type, n, W)
<1>1. CASE v \in DOMAIN t
  BY <1>1 DEF SoundTally, Tally
<1>2. CASE v \notin DOMAIN t
  <2> DEFINE T == Tally(t, v, h)
             Sent(u, c) == [type |-> type, height |-> height[n], round |-> round[n],
                            hash |-> c, val |-> u]
  <2>1. DOMAIN T = DOMAIN t \cup {v} /\ T[v] = h /\ \A u \in DOMAIN t : T[u] = t[u]
    BY <1>2, TallyEffect
  <2>2. \A u \in DOMAIN t \cap Honest : Sent(u, t[u]) \in W
    BY DEF SoundTally
  <2>3. ASSUME NEW u \in DOMAIN T \cap Honest PROVE Sent(u, T[u]) \in W
    <3>1. CASE u = v
      <4>1. Sent(v, h) \in W
        BY <3>1
      <4> QED BY <2>1, <3>1, <4>1
    <3>2. CASE u # v
      <4>1. u \in DOMAIN t \cap Honest /\ T[u] = t[u]
        BY <2>1, <2>3, <3>2
      <4> QED BY <2>2, <4>1
    <3> QED BY <3>1, <3>2
  <2> QED BY <2>3 DEF SoundTally
<1> QED BY <1>1, <1>2

(* What a node signs is a vote.                                             *)
LEMMA VoteOfType ==
    ASSUME IndInv, NEW n \in Honest, pc[n] # "start", NEW h \in Hash,
           NEW type \in {"prevote", "precommit"}
    PROVE  VoteOf(type, n, h) \in Vote
<1>1. height[n] \in 1..MaxHeight
  <2>1. height[n] \in 0..MaxHeight /\ height[n] >= 1
    BY DEF IndInv, VotingInv, TypeOK, Started
  <2> QED BY <2>1, DriverAssumption
<1>2. round[n] \in 0..MaxRound
  BY DEF IndInv, VotingInv, TypeOK
<1> QED BY <1>1, <1>2 DEF VoteOf, Vote

(* A quorum of precommits ends the attempt, and what it stores is backed by a *)
(* quorum of prevotes: one of the precommits is an honest one.              *)
LEMMA DecideEffect ==
    ASSUME IndInv, NEW n \in Honest, pc[n] # "start", NEW pm, GoodTally(pm, n),
           votes \subseteq votes', slashed \subseteq slashed',
           SoundTally(pm, "precommit", n, votes'),
           slashed' \cap Honest = {} => PrecommitsBacked',
           Decide(n, pm)
    PROVE  /\ \E x \in {"start", "votes"} : pc' = [pc EXCEPT ![n] = x]
           /\ lastCommit' \in [Honest -> [1..MaxHeight -> Hash]]
           /\ slashed' \cap Honest = {} => CertificatesBacked'
<1>0. TypeOK
  BY DEF IndInv, VotingInv
<1>1. \E x \in {"start", "votes"} : pc' = [pc EXCEPT ![n] = x]
  BY DEF Decide
<1>2. slashed' \cap Honest = {} => BackedInv
  BY DEF IndInv
<1>3. CASE lastCommit' = lastCommit
  <2>1. lastCommit' \in [Honest -> [1..MaxHeight -> Hash]]
    BY <1>0, <1>3 DEF TypeOK
  <2>2. ASSUME slashed' \cap Honest = {} PROVE CertificatesBacked'
    <3>1. CertificatesBacked
      BY <1>2, <2>2 DEF BackedInv
    <3> QED BY <1>3, <3>1, PolkaMonotone DEF CertificatesBacked
  <2> QED BY <1>1, <2>1, <2>2
<1>4. CASE lastCommit' # lastCommit
  <2>1. PICK b \in QuorumHashes(pm, vset[n]) :
             lastCommit' = [lastCommit EXCEPT ![n][height[n]] = b]
    BY <1>4 DEF Decide, Certify
  <2>2. b \in Hash /\ has_quorum(Power, vset[n], Voters(pm, b))
    BY QuorumHash DEF GoodTally
  <2>3. height[n] \in 1..MaxHeight
    BY <1>0 DEF IndInv, VotingInv, TypeOK, Started
  <2>4. lastCommit' \in [Honest -> [1..MaxHeight -> Hash]]
    BY <1>0, <2>1, <2>2, <2>3 DEF TypeOK
  <2>5. ASSUME slashed' \cap Honest = {} PROVE CertificatesBacked'
    <3>1. SUFFICES ASSUME NEW m \in Honest, NEW h \in 1..MaxHeight, NEW c,
                          c = lastCommit'[m][h], c # Nil
                   PROVE  Polka(h, c)'
      BY DEF CertificatesBacked
    <3>2. CASE m = n /\ h = height[n]
      <4>1. c = b
        BY <1>0, <2>1, <2>3, <3>1, <3>2 DEF TypeOK
      <4>2. vset[n] \in SUBSET Val /\ Voters(pm, b) \in SUBSET vset[n]
        BY <1>0 DEF TypeOK, Voters, GoodTally
      <4>3. Honest \subseteq vset[n]
        BY <1>2, <2>5 DEF BackedInv, AllHonestActive
      <4>4. PICK v \in Voters(pm, b) \cap Honest : TRUE
        BY <2>2, <4>2, <4>3, QuorumsOverlap
      <4>5. v \in DOMAIN pm \cap Honest /\ pm[v] = b
        BY <4>4 DEF Voters
      <4> DEFINE w == [type |-> "precommit", height |-> height[n], round |-> round[n],
                       hash |-> pm[v], val |-> v]
      <4>6. w \in votes'
        BY <4>5 DEF SoundTally
      <4>7. w.type = "precommit" /\ w.height = h /\ w.hash = b
        BY <3>2, <4>5
      <4> HIDE DEF w
      <4>8. PICK u : u = w
        OBVIOUS
      <4>9. Polka(h, b)'
        <5>1. \A x \in votes' : x.type = "precommit" => Polka(x.height, x.hash)'
          BY <2>5 DEF PrecommitsBacked
        <5>2. u \in votes' /\ u.type = "precommit" /\ u.height = h /\ u.hash = b
          BY <4>6, <4>7, <4>8
        <5>3. Polka(u.height, u.hash)'
          BY <5>1, <5>2
        <5> QED BY <5>2, <5>3
      <4> QED BY <4>1, <4>9
    <3>3. CASE ~ (m = n /\ h = height[n])
      <4>1. c = lastCommit[m][h]
        BY <1>0, <2>1, <2>3, <3>1, <3>3 DEF TypeOK
      <4>2. Polka(h, c)
        BY <1>2, <2>5, <3>1, <4>1 DEF BackedInv, CertificatesBacked
      <4> QED BY <4>2, PolkaMonotone
    <3> QED BY <3>2, <3>3
  <2> QED BY <1>1, <2>4, <2>5
<1> QED BY <1>3, <1>4

(* What the invariant says of the tallies of n.                             *)
LEMMA OwnTallies ==
    ASSUME IndInv, NEW n \in Honest
    PROVE  /\ GoodTally(prevotes[n], n) /\ GoodTally(precommits[n], n)
           /\ SoundTally(prevotes[n], "prevote", n, votes)
           /\ SoundTally(precommits[n], "precommit", n, votes)
<1>1. GoodTally(prevotes[n], n) /\ GoodTally(precommits[n], n)
  BY DEF IndInv, VotingInv, TalliesOK, GoodTally
<1>2. /\ SoundTally(prevotes[n], "prevote", n, votes)
      /\ SoundTally(precommits[n], "precommit", n, votes)
  BY DEF IndInv, VotingInv, TalliesSound, SoundTally
<1> QED BY <1>1, <1>2

(* The tallies of n become good and sound ones pv and pm.                   *)
LEMMA TalliesStep ==
    ASSUME IndInv, NEW n \in Honest, NEW pv, NEW pm,
           GoodTally(pv, n), GoodTally(pm, n),
           SoundTally(pv, "prevote", n, votes'), SoundTally(pm, "precommit", n, votes'),
           prevotes' = [prevotes EXCEPT ![n] = pv],
           precommits' = [precommits EXCEPT ![n] = pm],
           votes \subseteq votes', UNCHANGED engine
    PROVE  TalliesOK' /\ TalliesSound'
<1> USE DEF engine
<1>0. /\ prevotes = [m \in Honest |-> prevotes[m]]
      /\ precommits = [m \in Honest |-> precommits[m]]
  BY DEF IndInv, VotingInv, TalliesOK
<1>1. /\ prevotes'[n] = pv /\ precommits'[n] = pm
      /\ \A m \in Honest : m # n => prevotes'[m] = prevotes[m] /\ precommits'[m] = precommits[m]
      /\ prevotes' = [m \in Honest |-> prevotes'[m]]
      /\ precommits' = [m \in Honest |-> precommits'[m]]
  BY <1>0
<1>2. TalliesOK'
  <2>1. SUFFICES ASSUME NEW m \in Honest
                 PROVE  /\ DOMAIN prevotes'[m] \subseteq vset[m]
                        /\ DOMAIN precommits'[m] \subseteq vset[m]
                        /\ prevotes'[m] \in [DOMAIN prevotes'[m] -> Hash]
                        /\ precommits'[m] \in [DOMAIN precommits'[m] -> Hash]
    BY <1>1 DEF TalliesOK
  <2>2. CASE m = n
    BY <1>1, <2>2 DEF GoodTally
  <2>3. CASE m # n
    BY <1>1, <2>3 DEF IndInv, VotingInv, TalliesOK
  <2> QED BY <2>2, <2>3
<1>3. TalliesSound'
  <2>1. SUFFICES ASSUME NEW m \in Honest
                 PROVE  /\ SoundTally(prevotes'[m], "prevote", m, votes')
                        /\ SoundTally(precommits'[m], "precommit", m, votes')
    BY DEF TalliesSound, SoundTally
  <2>2. CASE m = n
    BY <1>1, <2>2
  <2>3. CASE m # n
    <3>1. SoundTally(prevotes[m], "prevote", m, votes)
          /\ SoundTally(precommits[m], "precommit", m, votes)
      BY OwnTallies
    <3>2. SoundTally(prevotes[m], "prevote", m, votes')
          /\ SoundTally(precommits[m], "precommit", m, votes')
      BY <3>1 DEF SoundTally
    <3> QED BY <1>1, <2>3, <3>2
  <2> QED BY <2>2, <2>3
<1> QED BY <1>2, <1>3

(* A prevote enters the tally of n, after the votes sent; n may precommit and *)
(* may complete the quorum of precommits.                                   *)
LEMMA ReactInv ==
    ASSUME IndInv, NEW n \in Honest, pc[n] \in {"prevote", "votes"},
           NEW pv, GoodTally(pv, n), NEW sent \in SUBSET Vote,
           SoundTally(pv, "prevote", n, votes \cup sent),
           \A v \in sent : /\ v.val = n /\ v.height = height[n] /\ v.round = round[n]
                           /\ v.type = "prevote" /\ pc[n] = "prevote"
                           /\ v.hash = pending[n],
           \A v, w \in sent : v = w,
           pc[n] = "prevote" => sent # {},
           Honest = Val => \A v \in sent : ~ Below(v),
           Accuses,
           React(n, pv, sent),
           UNCHANGED <<chain, engine, pending, proposals, crashes>>
    PROVE  IndInv'
<1>0. TypeOK /\ precommitted \in [Honest -> BOOLEAN] /\ slashed \subseteq slashed'
  BY DEF IndInv, VotingInv, TypeOK, Accuses
<1>1. CASE UNCHANGED <<precommits, precommitted, lastCommit>> /\ votes' = votes \cup sent
           /\ pc' = [pc EXCEPT ![n] = "votes"]
  <2>1. Sends(n, sent, {})
    BY <1>0, <1>1 DEF Sends
  <2>2. prevotes' = [prevotes EXCEPT ![n] = pv]
    BY DEF React
  <2>3. precommits' = [precommits EXCEPT ![n] = precommits[n]]
    BY <1>1 DEF IndInv, VotingInv, TalliesOK
  <2>4. SoundTally(precommits[n], "precommit", n, votes)
            => SoundTally(precommits[n], "precommit", n, votes')
    BY <1>1 DEF SoundTally
  <2>5. TalliesOK' /\ TalliesSound'
    <3>1. /\ SoundTally(pv, "prevote", n, votes')
          /\ SoundTally(precommits[n], "precommit", n, votes')
      BY <1>1, <2>4, OwnTallies
    <3>2. GoodTally(precommits[n], n) /\ votes \subseteq votes'
      BY <1>1, OwnTallies
    <3> QED BY <2>2, <2>3, <3>1, <3>2, TalliesStep
  <2>6. lastCommit' \in [Honest -> [1..MaxHeight -> Hash]]
    BY <1>0, <1>1 DEF TypeOK
  <2>7. ASSUME slashed' \cap Honest = {} PROVE PrecommitsBacked' /\ CertificatesBacked'
    <3>1. votes \subseteq votes' /\ \A v \in votes' : v.type = "precommit" => v \in votes
      BY <1>1
    <3>2. CertificatesBacked' /\ \A v \in votes : v.type = "precommit" => Polka(v.height, v.hash)'
      BY <1>0, <1>1, <2>7, <3>1, BackedBefore
    <3> QED BY <3>1, <3>2 DEF PrecommitsBacked
  <2>8. Honest = Val => \A v \in sent \cup {} : ~ Below(v)
    OBVIOUS
  <2> QED BY <2>1, <2>5, <2>6, <2>7, <2>8, SendsInv
<1>2. CASE \E b \in QuorumHashes(pv, vset[n]) :
             /\ ~ precommitted[n]
             /\ precommitted' = [precommitted EXCEPT ![n] = TRUE]
             /\ votes' = votes \cup sent \cup {VoteOf("precommit", n, b)}
             /\ Decide(n, Fed(n, precommits[n], b))
  <2>1. PICK b \in QuorumHashes(pv, vset[n]) :
             /\ ~ precommitted[n]
             /\ precommitted' = [precommitted EXCEPT ![n] = TRUE]
             /\ votes' = votes \cup sent \cup {VoteOf("precommit", n, b)}
             /\ Decide(n, Fed(n, precommits[n], b))
    BY <1>2
  <2> DEFINE own == VoteOf("precommit", n, b)
             pm  == Fed(n, precommits[n], b)
             Prevote(u, c) == [type |-> "prevote", height |-> height[n], round |-> round[n],
                               hash |-> c, val |-> u]
  <2>2. /\ b # Nil /\ b \in Hash
        /\ has_quorum(Power, vset[n], Voters(pv, b))
        /\ \E u \in DOMAIN pv : b = pv[u]
    BY QuorumHash DEF GoodTally
  <2>3. own \in Vote /\ own \in votes' /\ votes \subseteq votes' /\ pc[n] # "start"
    BY <2>1, <2>2, VoteOfType
  <2>4. GoodTally(pm, n)
    BY <2>2, OwnTallies, TallyGood DEF Fed
  <2>5. SoundTally(pm, "precommit", n, votes')
    <3>1. SoundTally(precommits[n], "precommit", n, votes)
      BY OwnTallies
    <3>2. SoundTally(precommits[n], "precommit", n, votes')
      BY <2>3, <3>1 DEF SoundTally
    <3>3. [type |-> "precommit", height |-> height[n], round |-> round[n],
           hash |-> b, val |-> n] \in votes'
      BY <2>3 DEF VoteOf
    <3>4. SoundTally(Tally(precommits[n], n, b), "precommit", n, votes')
      BY <2>3, <3>1, <3>3, TallySound
    <3> QED BY <3>2, <3>4 DEF Fed
  <2>6. SoundTally(pv, "prevote", n, votes')
    BY <2>1 DEF SoundTally
  <2>7. prevotes' = [prevotes EXCEPT ![n] = pv] /\ precommits' = [precommits EXCEPT ![n] = pm]
    BY <2>1 DEF React, Decide
  <2>8. /\ own.type = "precommit" /\ own.val = n /\ own.hash = b
        /\ own.height = height[n] /\ own.round = round[n]
    BY DEF VoteOf
  <2>9. Decide(n, pm) /\ votes' = votes \cup sent \cup {own}
    BY <2>1
  <2>10. \A u \in DOMAIN pv \cap Honest : Prevote(u, pv[u]) \in votes \cup sent
    BY DEF SoundTally
  <2> HIDE DEF own, pm
  <2>11. TalliesOK' /\ TalliesSound'
    BY <2>3, <2>4, <2>5, <2>6, <2>7, TalliesStep
  <2>12. Honest = Val => \A v \in sent \cup {own} : ~ Below(v)
    <3>1. SUFFICES ASSUME Honest = Val PROVE ~ Below(own)
      OBVIOUS
    <3>2. PICK u \in DOMAIN pv : b = pv[u]
      BY <2>2
    <3>3. u \in Honest
      BY <1>0, <3>1, <3>2 DEF GoodTally, TypeOK
    <3>4. Prevote(u, b) \in votes \cup sent
      BY <2>10, <3>2, <3>3
    <3>5. Prevote(u, b).hash = b /\ Prevote(u, b).height = height[n]
      OBVIOUS
    <3> HIDE DEF Prevote
    <3>6. ~ Below(Prevote(u, b))
      BY <3>1, <3>4 DEF IndInv, VotingInv, OneBlockVotePerHeight
    <3> QED BY <2>2, <2>8, <3>5, <3>6 DEF Below
  <2>13. ASSUME slashed' \cap Honest = {} PROVE PrecommitsBacked'
    <3>1. \A v \in votes : v.type = "precommit" => Polka(v.height, v.hash)'
      BY <1>0, <2>3, <2>13, BackedBefore
    <3>2. Polka(height[n], b)'
      <4>1. Honest \subseteq vset[n]
        BY <1>0, <2>13 DEF IndInv, BackedInv, AllHonestActive
      <4>2. vset[n] \in SUBSET Val /\ Voters(pv, b) \in SUBSET vset[n]
        BY <1>0 DEF TypeOK, Voters, GoodTally
      <4>3. ASSUME NEW v \in Voters(pv, b) \cap Honest
            PROVE  \E w \in votes' : /\ w.type = "prevote" /\ w.height = height[n]
                                     /\ w.hash = b /\ w.val = v
        <5>1. v \in DOMAIN pv \cap Honest /\ pv[v] = b
          BY DEF Voters
        <5>2. Prevote(v, b) \in votes'
          BY <2>9, <2>10, <5>1
        <5> QED BY <5>2
      <4>4. height' = height
        BY DEF engine
      <4> HIDE DEF Prevote
      <4> QED BY <2>2, <4>1, <4>2, <4>3, <4>4 DEF Polka
    <3>3. ASSUME NEW v \in votes', v.type = "precommit" PROVE Polka(v.height, v.hash)'
      <4>1. CASE v \in votes
        BY <3>1, <3>3, <4>1
      <4>2. CASE v = own
        <5>1. PICK k : k = height[n]
          OBVIOUS
        <5>2. Polka(k, b)'
          BY <3>2, <5>1 DEF engine
        <5> QED BY <2>8, <4>2, <5>1, <5>2
      <4> QED BY <2>9, <3>3, <4>1, <4>2
    <3> QED BY <3>3 DEF PrecommitsBacked
  <2>14. /\ \E x \in {"start", "votes"} : pc' = [pc EXCEPT ![n] = x]
         /\ lastCommit' \in [Honest -> [1..MaxHeight -> Hash]]
         /\ slashed' \cap Honest = {} => CertificatesBacked'
    BY <1>0, <2>3, <2>4, <2>5, <2>9, <2>13, DecideEffect
  <2>15. Sends(n, sent, {own})
    <3>1. precommitted' \in [Honest -> BOOLEAN] /\ precommitted'[n] = TRUE
          /\ \A m \in Honest : precommitted[m] => precommitted'[m]
      BY <1>0, <2>1
    <3> QED BY <2>1, <2>2, <2>3, <2>8, <2>9, <2>14, <3>1 DEF Sends
  <2> QED BY <2>11, <2>12, <2>13, <2>14, <2>15, SendsInv
<1> QED BY <1>1, <1>2 DEF React

(* A node's own prevote for the block it applied.                           *)
LEMMA CastPrevoteInv ==
    ASSUME IndInv, NEW n \in Honest, CastPrevote(n)
    PROVE  IndInv'
<1> DEFINE own == VoteOf("prevote", n, pending[n])
           pv  == Fed(n, prevotes[n], pending[n])
<1>1. pc[n] = "prevote" /\ pending[n] \in Hash
  BY DEF CastPrevote, IndInv, VotingInv, TypeOK
<1>2. own \in Vote
  BY <1>1, VoteOfType
<1>3. GoodTally(pv, n)
  BY <1>1, OwnTallies, TallyGood DEF Fed
<1>4. SoundTally(pv, "prevote", n, votes \cup {own})
  <2>1. SoundTally(prevotes[n], "prevote", n, votes)
    BY OwnTallies
  <2>2. SoundTally(prevotes[n], "prevote", n, votes \cup {own})
    BY <2>1 DEF SoundTally
  <2>3. [type |-> "prevote", height |-> height[n], round |-> round[n],
         hash |-> pending[n], val |-> n] \in votes \cup {own}
    BY DEF VoteOf
  <2>4. SoundTally(Tally(prevotes[n], n, pending[n]), "prevote", n, votes \cup {own})
    BY <2>1, <2>3, TallySound
  <2> QED BY <2>2, <2>4 DEF Fed
<1>5. /\ own.val = n /\ own.height = height[n] /\ own.round = round[n] /\ own.type = "prevote"
      /\ own.hash = pending[n]
  BY DEF VoteOf
<1>6. Accuses
  BY AccusesNobody DEF CastPrevote
<1>7. React(n, pv, {own}) /\ UNCHANGED <<chain, engine, pending, proposals, crashes>>
  BY DEF CastPrevote
<1>8. Honest = Val => ~ Below(own)
  <2>1. SUFFICES ASSUME Honest = Val PROVE ~ (Len(pending[n]) < height[n])
    BY <1>5 DEF Below
  <2>2. height[n] <= Len(pending[n]) /\ pending[n] \in Chain
    BY <1>1, <2>1 DEF IndInv, VotingInv, HonestProposals, LedgerAhead
  <2>3. Len(pending[n]) \in Nat /\ height[n] \in Int
    BY <2>2, LenProperties DEF Chain, IndInv, VotingInv, TypeOK
  <2> QED BY <2>2, <2>3
<1> HIDE DEF own, pv
<1> DEFINE sent == {own}
<1> HIDE DEF sent
<1>9. /\ sent \in SUBSET Vote
      /\ sent # {}
      /\ \A v, w \in sent : v = w
      /\ \A v \in sent : /\ v.val = n /\ v.height = height[n] /\ v.round = round[n]
                         /\ v.type = "prevote" /\ pc[n] = "prevote" /\ v.hash = pending[n]
      /\ SoundTally(pv, "prevote", n, votes \cup sent)
      /\ Honest = Val => \A v \in sent : ~ Below(v)
      /\ React(n, pv, sent)
  BY <1>1, <1>2, <1>4, <1>5, <1>7, <1>8 DEF sent
<1> QED BY <1>1, <1>3, <1>6, <1>7, <1>9, ReactInv

(* The votes n may receive: those of honest validators were sent.           *)
LEMMA Inbound ==
    ASSUME IndInv, NEW n \in Honest, NEW v \in InboundVotes(n)
    PROVE  /\ v.val \in Val /\ v.hash \in Hash
           /\ v.height = height[n] /\ v.round = round[n]
           /\ v.val \in Honest =>
                /\ v \in votes
                /\ v = [type |-> v.type, height |-> height[n], round |-> round[n],
                        hash |-> v.hash, val |-> v.val]
<1>1. votes \subseteq Vote
  BY DEF IndInv, VotingInv, TypeOK
<1>2. CASE v \in votes /\ v.height = height[n] /\ v.round = round[n]
  <2>1. v \in Vote
    BY <1>1, <1>2
  <2> QED BY <1>2, <2>1, DriverAssumption DEF Vote
<1>3. CASE v \in [type : {"prevote", "precommit"}, height : {height[n]}, round : {round[n]},
                  hash : {w.hash : w \in votes} \cup {Nil}, val : Val \ Honest]
  <2>1. {w.hash : w \in votes} \cup {Nil} \subseteq Hash
    BY <1>1 DEF Vote, Hash
  <2>2. /\ v.height = height[n] /\ v.round = round[n]
        /\ v.val \in Val \ Honest /\ v.hash \in {w.hash : w \in votes} \cup {Nil}
    BY <1>3
  <2> QED BY <2>1, <2>2
<1> QED BY <1>2, <1>3 DEF InboundVotes

(* Without restarts, a conflicting pair of votes is never an honest one's.   *)
LEMMA SlashInv ==
    ASSUME IndInv, NEW n \in Honest, NEW v \in InboundVotes(n),
           v.type \in {"prevote", "precommit"}, Slash(n, v), crashes' = crashes
    PROVE  Accuses
<1> DEFINE D == Detected(n, v)
<1>1. /\ accused \in [Honest -> SUBSET Val] /\ slashed \subseteq Val /\ framed \subseteq Val
      /\ D \subseteq {v.val} /\ v.val \in Val
  BY Inbound DEF IndInv, VotingInv, TypeOK, Detected
<1>2. /\ accused' = [accused EXCEPT ![n] = @ \cup D]
      /\ slashed' = slashed \cup D /\ framed' = framed
  BY DEF Slash
<1>3. crashes = 0 /\ v.val \in Honest => D = {}
  <2>1. SUFFICES ASSUME crashes = 0, v.val \in Honest, v.val \in DOMAIN TallyOf(n, v.type)
                 PROVE  TallyOf(n, v.type)[v.val] = v.hash
    BY DEF Conflicts, Detected
  <2> DEFINE w == [type |-> v.type, height |-> height[n], round |-> round[n],
                   hash |-> TallyOf(n, v.type)[v.val], val |-> v.val]
  <2>2. SoundTally(TallyOf(n, v.type), v.type, n, votes)
    BY OwnTallies DEF TallyOf
  <2>3. w \in votes
    BY <2>1, <2>2 DEF SoundTally
  <2>4. v \in votes /\ v.height = height[n] /\ v.round = round[n]
    BY <2>1, Inbound
  <2>5. NoEquivocation
    BY <2>1 DEF IndInv, NoRestartInv
  <2>6. w.type = v.type /\ w.val = v.val /\ w.height = v.height /\ w.round = v.round
    BY <2>4
  <2>7. w = v
    BY <2>3, <2>4, <2>5, <2>6 DEF NoEquivocation
  <2>8. w.hash = TallyOf(n, v.type)[v.val]
    OBVIOUS
  <2> QED BY <2>7, <2>8
<1> HIDE DEF D
<1>4. /\ accused' \in [Honest -> SUBSET Val] /\ slashed' \subseteq Val /\ framed' \subseteq Val
      /\ slashed \subseteq slashed'
  BY <1>1, <1>2
<1>5. AccusedSlashed'
  BY <1>1, <1>2 DEF IndInv, VotingInv, AccusedSlashed
<1>6. HonestNotSlashed'
  <2>1. SUFFICES ASSUME crashes = 0 PROVE slashed' \cap Honest \subseteq framed
    BY <1>2 DEF HonestNotSlashed
  <2>2. slashed \cap Honest \subseteq framed
    BY <2>1 DEF IndInv, HonestNotSlashed
  <2>3. D \cap Honest = {}
    BY <1>1, <1>3, <2>1
  <2> QED BY <1>2, <2>2, <2>3
<1> QED BY <1>4, <1>5, <1>6 DEF Accuses

(* A prevote arrives: it is tallied, and a quorum moves the node on.        *)
LEMMA HandlePrevoteInv ==
    ASSUME IndInv, NEW n \in Honest, NEW v \in InboundVotes(n), HandlePrevote(n, v)
    PROVE  IndInv'
<1> DEFINE pv == Tally(prevotes[n], v.val, v.hash)
<1>1. pc[n] = "votes" /\ v.type = "prevote" /\ v.val \in vset[n] /\ v.hash \in Hash
  BY Inbound DEF HandlePrevote
<1>2. GoodTally(pv, n)
  BY <1>1, OwnTallies, TallyGood
<1>3. SoundTally(pv, "prevote", n, votes \cup {})
  <2>1. SoundTally(prevotes[n], "prevote", n, votes)
    BY OwnTallies
  <2>2. v.val \in Honest => [type |-> "prevote", height |-> height[n], round |-> round[n],
                             hash |-> v.hash, val |-> v.val] \in votes \cup {}
    BY <1>1, Inbound
  <2> QED BY <2>1, <2>2, TallySound
<1>4. Accuses
  BY <1>1, SlashInv DEF HandlePrevote
<1>5. React(n, pv, {}) /\ UNCHANGED <<chain, engine, pending, proposals, crashes>>
  BY DEF HandlePrevote
<1> HIDE DEF pv
<1> QED BY <1>1, <1>2, <1>3, <1>4, <1>5, ReactInv

(* A precommit arrives: a quorum records the commit.                        *)
LEMMA HandlePrecommitInv ==
    ASSUME IndInv, NEW n \in Honest, NEW v \in InboundVotes(n), HandlePrecommit(n, v)
    PROVE  IndInv'
<1> DEFINE pm == Tally(precommits[n], v.val, v.hash)
<1>1. /\ pc[n] = "votes" /\ v.type = "precommit" /\ v.val \in vset[n] /\ v.hash \in Hash
      /\ votes' = votes
  BY Inbound DEF HandlePrecommit, network
<1>2. GoodTally(pm, n)
  BY <1>1, OwnTallies, TallyGood
<1>3. SoundTally(pm, "precommit", n, votes')
  <2>1. SoundTally(precommits[n], "precommit", n, votes)
    BY OwnTallies
  <2>2. v.val \in Honest => [type |-> "precommit", height |-> height[n], round |-> round[n],
                             hash |-> v.hash, val |-> v.val] \in votes'
    BY <1>1, Inbound
  <2> QED BY <1>1, <2>1, <2>2, TallySound
<1>4. Accuses /\ slashed \subseteq slashed'
  BY <1>1, SlashInv DEF HandlePrecommit, Accuses
<1>5. /\ Decide(n, pm)
      /\ UNCHANGED <<chain, engine, pending, prevotes, precommitted, votes, proposals, crashes>>
  BY DEF HandlePrecommit, network
<1>6. precommits' = [precommits EXCEPT ![n] = pm]
  BY <1>5 DEF Decide
<1> HIDE DEF pm
<1>7. slashed' \cap Honest = {} => PrecommitsBacked'
  BY <1>1, <1>4, BackedBefore DEF PrecommitsBacked
<1>8. /\ \E x \in {"start", "votes"} : pc' = [pc EXCEPT ![n] = x]
      /\ lastCommit' \in [Honest -> [1..MaxHeight -> Hash]]
      /\ slashed' \cap Honest = {} => CertificatesBacked'
  BY <1>1, <1>2, <1>3, <1>4, <1>5, <1>7, DecideEffect
<1>9. TalliesOK' /\ TalliesSound'
  <2>1. prevotes' = [prevotes EXCEPT ![n] = prevotes[n]]
    BY <1>5 DEF IndInv, VotingInv, TalliesOK
  <2>2. GoodTally(prevotes[n], n) /\ SoundTally(prevotes[n], "prevote", n, votes')
    BY <1>1, OwnTallies
  <2> QED BY <1>1, <1>2, <1>3, <1>5, <1>6, <2>1, <2>2, TalliesStep
<1>10. Sends(n, {}, {})
  <2>1. precommitted' \in [Honest -> BOOLEAN]
    BY <1>5 DEF IndInv, VotingInv, TypeOK
  <2> QED BY <1>1, <1>5, <1>8, <2>1 DEF Sends
<1> QED BY <1>4, <1>7, <1>8, <1>9, <1>10, SendsInv

(* A node that gives up its attempt, on the vote timeout or because it could *)
(* not mine a block, signs nothing.                                         *)
LEMMA GivesUpInv ==
    ASSUME IndInv, NEW n \in Honest, VoteTimeout(n) \/ ProposeFails(n)
    PROVE  IndInv'
<1>1. /\ UNCHANGED <<chain, engine, pending, tally, lastCommit, accused, history, network,
                     crashes>>
      /\ pc[n] \in {"propose", "votes"} /\ pc' = [pc EXCEPT ![n] = "start"]
  BY DEF VoteTimeout, ProposeFails
<1>2. Sends(n, {}, {})
  BY <1>1 DEF Sends, network, tally, IndInv, VotingInv, TypeOK
<1>3. Accuses
  BY <1>1, AccusesNobody
<1>4. lastCommit' \in [Honest -> [1..MaxHeight -> Hash]]
  BY <1>1 DEF IndInv, VotingInv, TypeOK
<1>5. TalliesOK' /\ TalliesSound'
  BY <1>1 DEF IndInv, VotingInv, TalliesOK, TalliesSound, tally, engine, network
<1>6. ASSUME slashed' \cap Honest = {} PROVE PrecommitsBacked' /\ CertificatesBacked'
  <2>1. votes' = votes /\ lastCommit' = lastCommit /\ slashed' = slashed
    BY <1>1 DEF network, history
  <2> QED BY <1>6, <2>1, BackedBefore DEF PrecommitsBacked
<1> QED BY <1>2, <1>3, <1>4, <1>5, <1>6, SendsInv

(* A proposal timeout makes the node prevote nil.                           *)
LEMMA NilPrevoteInv ==
    ASSUME IndInv, NEW n \in Honest, pc[n] = "await", NilPrevote(n)
    PROVE  IndInv'
<1> DEFINE own == VoteOf("prevote", n, Nil)
<1>1. own \in Vote
  <2>1. Nil \in Hash
    BY DEF Hash
  <2> QED BY <2>1, VoteOfType
<1>2. /\ own.val = n /\ own.height = height[n] /\ own.round = round[n]
      /\ own.type = "prevote" /\ own.hash = Nil
  BY DEF VoteOf
<1>3. votes' = votes \cup {own} /\ lastCommit' = lastCommit /\ slashed' = slashed
  BY DEF NilPrevote, history
<1> HIDE DEF own
<1>4. Sends(n, {own}, {})
  <2>1. precommitted' = precommitted /\ precommitted \in [Honest -> BOOLEAN]
    BY DEF NilPrevote, tally, IndInv, VotingInv, TypeOK
  <2> QED BY <1>1, <1>2, <1>3, <2>1 DEF Sends, NilPrevote
<1>5. Accuses
  BY AccusesNobody DEF NilPrevote
<1>6. lastCommit' \in [Honest -> [1..MaxHeight -> Hash]]
  BY <1>3 DEF IndInv, VotingInv, TypeOK
<1>7. TalliesOK' /\ TalliesSound'
  BY <1>3 DEF NilPrevote, IndInv, VotingInv, TalliesOK, TalliesSound, tally, engine
<1>8. ASSUME slashed' \cap Honest = {} PROVE PrecommitsBacked' /\ CertificatesBacked'
  <2>1. /\ CertificatesBacked'
        /\ \A v \in votes : v.type = "precommit" => Polka(v.height, v.hash)'
    BY <1>3, <1>8, BackedBefore
  <2>2. \A v \in votes' : v.type = "precommit" => v \in votes
    BY <1>2, <1>3
  <2> QED BY <2>1, <2>2 DEF PrecommitsBacked
<1>9. \A v \in {own} \cup {} : ~ Below(v)
  BY <1>2 DEF Below
<1> QED BY <1>4, <1>5, <1>6, <1>7, <1>8, <1>9, SendsInv

(* A new attempt of n is above all its block votes and, without restarts,    *)
(* above all its votes.                                                     *)
LEMMA StartHeightInv ==
    ASSUME IndInv, NEW n \in Honest, StartHeight(n)
    PROVE  IndInv'
<1> DEFINE S == Val \ accused[n]
           h == Len(chain[n]) + 1
           r == NextRound(n)
<1> USE DEF network
<1>0. TypeOK
  BY DEF IndInv, VotingInv
<1>1. /\ height' = [height EXCEPT ![n] = h]
      /\ round' = [round EXCEPT ![n] = r]
      /\ vset' = [vset EXCEPT ![n] = S]
      /\ prevotes' = [prevotes EXCEPT ![n] = NoVotes]
      /\ precommits' = [precommits EXCEPT ![n] = NoVotes]
      /\ precommitted' = [precommitted EXCEPT ![n] = FALSE]
      /\ \E x \in {"propose", "await"} : pc' = [pc EXCEPT ![n] = x]
      /\ UNCHANGED <<chain, pending, lastCommit, accused, slashed, framed, votes, proposals,
                     crashes>>
  BY DEF StartHeight, history
<1>2. /\ Len(chain[n]) \in Nat /\ h \in 1..MaxHeight /\ r \in 0..MaxRound
      /\ height[n] \in Nat /\ round[n] \in Nat /\ height[n] <= h
      /\ height[n] = h => r = round[n] + 1
  <2>1. Len(chain[n]) \in Nat /\ height[n] \in Nat /\ round[n] \in Nat
    BY <1>0, ChainLength DEF TypeOK
  <2>2. Len(chain[n]) < MaxHeight /\ r <= MaxRound
    BY DEF StartHeight
  <2>3. height[n] <= h
    BY DEF IndInv, VotingInv, LedgerAhead
  <2>4. r \in Nat /\ (height[n] = h => r = round[n] + 1)
    BY <2>1 DEF NextRound
  <2> QED BY <2>1, <2>2, <2>3, <2>4, DriverAssumption
<1> HIDE DEF S, h, r
<1>3. S \in SUBSET Val
  BY DEF S
<1>4. TypeOK'
  <2>1. height' \in [Honest -> 0..MaxHeight] /\ round' \in [Honest -> 0..MaxRound]
    BY <1>0, <1>1, <1>2 DEF TypeOK
  <2>2. pc' \in [Honest -> {"start", "propose", "await", "prevote", "votes"}]
    BY <1>0, <1>1 DEF TypeOK
  <2>3. vset' \in [Honest -> SUBSET Val] /\ precommitted' \in [Honest -> BOOLEAN]
    BY <1>0, <1>1, <1>3 DEF TypeOK
  <2> QED BY <1>0, <1>1, <2>1, <2>2, <2>3 DEF TypeOK
<1>5. /\ height'[n] = h /\ round'[n] = r /\ vset'[n] = S
      /\ pc'[n] \in {"propose", "await"}
      /\ \A m \in Honest : m # n =>
           /\ height'[m] = height[m] /\ round'[m] = round[m] /\ vset'[m] = vset[m]
           /\ pc'[m] = pc[m] /\ precommitted'[m] = precommitted[m]
  BY <1>0, <1>1 DEF TypeOK
<1>6. /\ prevotes'[n] = NoVotes /\ precommits'[n] = NoVotes
      /\ prevotes' = [m \in Honest |-> prevotes'[m]]
      /\ precommits' = [m \in Honest |-> precommits'[m]]
      /\ \A m \in Honest : m # n => prevotes'[m] = prevotes[m] /\ precommits'[m] = precommits[m]
  <2>1. /\ prevotes = [m \in Honest |-> prevotes[m]]
        /\ precommits = [m \in Honest |-> precommits[m]]
    BY DEF IndInv, VotingInv, TalliesOK
  <2> QED BY <1>1, <2>1
<1>7. LedgerAhead' /\ HonestProposals'
  <2>1. \A m \in Honest : pc'[m] \in {"prevote", "votes"} =>
           m # n /\ pc[m] = pc'[m] /\ height'[m] = height[m]
    BY <1>5
  <2>2. \A m \in Honest : height'[m] <= Len(chain'[m]) + 1
    BY <1>1, <1>2, <1>5 DEF IndInv, VotingInv, LedgerAhead, h
  <2>3. ASSUME NEW m \in Honest, pc'[m] = "votes"
        PROVE  height'[m] <= Len(chain[m]) \/ Misled(m, height[m])'
    <3>1. height[m] <= Len(chain[m]) \/ Misled(m, height[m])
      BY <2>1, <2>3 DEF IndInv, VotingInv, LedgerAhead
    <3>2. height'[m] = height[m]
      BY <2>1, <2>3
    <3>3. Misled(m, height[m]) => Misled(m, height[m])'
      BY <1>1, <3>2 DEF Misled, Below
    <3> QED BY <3>1, <3>2, <3>3
  <2>4. \A v \in votes : v.hash # Nil => v.height <= Len(chain[v.val]) \/ Misjudged(v)'
    BY <1>1, MisledMonotone DEF IndInv, VotingInv, LedgerAhead
  <2>5. LedgerAhead'
    BY <1>1, <2>1, <2>2, <2>3, <2>4 DEF IndInv, VotingInv, LedgerAhead
  <2>6. HonestProposals'
    BY <1>1, <2>1 DEF IndInv, VotingInv, HonestProposals
  <2> QED BY <2>5, <2>6
<1>8. Fresh'
  <2>1. SUFFICES ASSUME NEW m \in Honest, NEW v \in votes, v.val = m, v.hash # Nil
                 PROVE  /\ pc'[m] \in {"propose", "await", "prevote"}
                             => v.height < height'[m] \/ Misjudged(v)'
                        /\ pc'[m] = "votes" /\ v.type = "precommit" /\ ~ precommitted'[m]
                             => v.height < height'[m] \/ Misjudged(v)'
    BY <1>1 DEF Fresh, BlockVotesOf
  <2>2. Misjudged(v) => Misjudged(v)'
    BY <1>1, MisledMonotone
  <2>3. CASE m = n
    <3>1. v.height <= Len(chain[n]) \/ Misjudged(v)
      BY <2>1, <2>3 DEF IndInv, VotingInv, LedgerAhead
    <3>2. v.height \in Nat
      BY <1>0, <2>1 DEF TypeOK, Vote
    <3>3. v.height < h \/ Misjudged(v)
      BY <1>2, <3>1, <3>2 DEF h
    <3> QED BY <1>5, <2>2, <2>3, <3>3
  <2>4. CASE m # n
    <3>1. v \in BlockVotesOf(m)
      BY <2>1 DEF BlockVotesOf
    <3> QED BY <1>5, <2>2, <2>4, <3>1 DEF IndInv, VotingInv, Fresh
  <2> QED BY <2>3, <2>4
<1>9. Started'
  BY <1>2, <1>5 DEF IndInv, VotingInv, Started
<1>10. /\ PrecommitsNameBlocks' /\ OneBlockVotePerHeight'
       /\ AccusedSlashed' /\ HonestNotSlashed'
  BY <1>1 DEF IndInv, VotingInv, PrecommitsNameBlocks, OneBlockVotePerHeight, Misjudged, Misled,
              Below, AccusedSlashed, HonestNotSlashed
<1>11. TalliesOK'
  <2>1. SUFFICES ASSUME NEW m \in Honest
                 PROVE  /\ DOMAIN prevotes'[m] \subseteq vset'[m]
                        /\ DOMAIN precommits'[m] \subseteq vset'[m]
                        /\ prevotes'[m] \in [DOMAIN prevotes'[m] -> Hash]
                        /\ precommits'[m] \in [DOMAIN precommits'[m] -> Hash]
    BY <1>6 DEF TalliesOK
  <2>2. CASE m = n
    BY <1>6, <2>2, EmptyTally
  <2>3. CASE m # n
    BY <1>5, <1>6, <2>3 DEF IndInv, VotingInv, TalliesOK
  <2> QED BY <2>2, <2>3
<1>12. ASSUME crashes' = 0 PROVE NoRestartInv'
  <2>0. NoRestartInv
    BY <1>1, <1>12 DEF IndInv
  <2>1. \A v \in votes : v \in Vote /\ v.val \in Honest /\ v.height \in Nat /\ v.round \in Nat
    BY <1>0 DEF TypeOK, Vote
  <2>2. ASSUME NEW v \in votes, v.val = n
        PROVE  v.height < h \/ (v.height = h /\ v.round < r)
    <3>1. v.height < height[n] \/ (v.height = height[n] /\ v.round <= round[n])
      BY <2>0, <2>2 DEF NoRestartInv, Forward
    <3>2. v.height \in Nat /\ v.round \in Nat /\ h \in Nat /\ r \in Nat
      BY <1>2, <2>1
    <3> QED BY <1>2, <3>1, <3>2
  <2>3. Forward'
    <3>1. \A v \in votes : \/ v.height < height'[v.val]
                           \/ v.height = height'[v.val] /\ v.round <= round'[v.val]
      <4>1. TAKE v \in votes
      <4>2. CASE v.val = n
        <5>1. v.round \in Nat /\ r \in Nat
          BY <1>2, <2>1
        <5> QED BY <1>5, <2>2, <4>2, <5>1
      <4>3. CASE v.val # n
        BY <1>5, <2>0, <2>1, <4>3 DEF NoRestartInv, Forward
      <4> QED BY <4>2, <4>3
    <3>2. ASSUME NEW m \in Honest, NEW v \in votes,
                 v.val = m, v.height = height'[m], v.round = round'[m]
          PROVE  /\ pc'[m] \notin {"propose", "await", "prevote"}
                 /\ v.type = "precommit" /\ pc'[m] = "votes" => precommitted'[m]
      <4>1. CASE m = n
        <5>1. v.height \in Nat /\ v.round \in Nat
          BY <2>1
        <5> QED BY <1>5, <2>2, <3>2, <4>1, <5>1
      <4>2. CASE m # n
        BY <1>5, <2>0, <3>2, <4>2 DEF NoRestartInv, Forward
      <4> QED BY <4>1, <4>2
    <3> QED BY <1>1, <3>1, <3>2 DEF Forward
  <2>4. NoEquivocation'
    BY <1>1, <2>0 DEF NoRestartInv, NoEquivocation
  <2> QED BY <2>3, <2>4 DEF NoRestartInv
<1>13. TalliesSound'
  <2>1. SUFFICES ASSUME NEW m \in Honest
                 PROVE  /\ \A v \in DOMAIN prevotes'[m] \cap Honest :
                             [type |-> "prevote", height |-> height'[m], round |-> round'[m],
                              hash |-> prevotes'[m][v], val |-> v] \in votes
                        /\ \A v \in DOMAIN precommits'[m] \cap Honest :
                             [type |-> "precommit", height |-> height'[m], round |-> round'[m],
                              hash |-> precommits'[m][v], val |-> v] \in votes
    BY <1>1 DEF TalliesSound
  <2>2. CASE m = n
    BY <1>6, <2>2, EmptyTally
  <2>3. CASE m # n
    BY <1>5, <1>6, <2>3 DEF IndInv, VotingInv, TalliesSound
  <2> QED BY <2>2, <2>3
<1>14. ASSUME slashed' \cap Honest = {} PROVE BackedInv'
  <2>1. BackedInv
    BY <1>1, <1>14 DEF IndInv
  <2>2. Honest \subseteq S
    BY <1>1, <1>14, DriverAssumption DEF IndInv, VotingInv, AccusedSlashed, S
  <2>3. AllHonestActive'
    BY <1>5, <2>1, <2>2 DEF BackedInv, AllHonestActive
  <2>4. PrecommitsBacked' /\ CertificatesBacked'
    BY <1>1, <1>14, BackedBefore DEF PrecommitsBacked
  <2> QED BY <2>3, <2>4 DEF BackedInv
<1> QED BY <1>4, <1>7, <1>8, <1>9, <1>10, <1>11, <1>12, <1>13, <1>14 DEF IndInv, VotingInv

(* Evidence from a peer, of which only the honest ones are to be trusted.    *)
LEMMA EvidenceInv ==
    ASSUME IndInv, NEW n \in Honest, NEW v \in Evidence, ReceiveEvidence(n, v)
    PROVE  IndInv'
<1> USE DEF engine, tally, network
<1>0. TypeOK
  BY DEF IndInv, VotingInv
<1>1. /\ UNCHANGED <<chain, pc, engine, pending, tally, lastCommit, network, crashes>>
      /\ accused' = [accused EXCEPT ![n] = @ \cup {v}]
      /\ slashed' = slashed \cup {v}
      /\ framed' = framed \cup ({v} \ slashed)
  BY DEF ReceiveEvidence
<1>2. v \in Val
  BY <1>0, DriverAssumption DEF Evidence, TypeOK
<1>3. TypeOK'
  <2>1. accused' \in [Honest -> SUBSET Val] /\ slashed' \subseteq Val /\ framed' \subseteq Val
    BY <1>0, <1>1, <1>2 DEF TypeOK
  <2> QED BY <1>0, <1>1, <2>1 DEF TypeOK
<1>4. LedgerAhead' /\ HonestProposals' /\ Fresh' /\ Started'
  BY <1>1 DEF IndInv, VotingInv, LedgerAhead, HonestProposals, Fresh, BlockVotesOf, Started,
              Misjudged, Misled, Below
<1>5. /\ PrecommitsNameBlocks' /\ TalliesOK' /\ TalliesSound'
  BY <1>1 DEF IndInv, VotingInv, PrecommitsNameBlocks, TalliesOK, TalliesSound
<1>6. OneBlockVotePerHeight'
  BY <1>1 DEF IndInv, VotingInv, OneBlockVotePerHeight, Misjudged, Misled, Below
<1>7. AccusedSlashed'
  BY <1>0, <1>1 DEF IndInv, VotingInv, AccusedSlashed, TypeOK
<1>8. HonestNotSlashed'
  BY <1>1 DEF IndInv, HonestNotSlashed
<1>9. ASSUME crashes' = 0 PROVE NoRestartInv'
  BY <1>1, <1>9 DEF IndInv, NoRestartInv, Forward, NoEquivocation
<1>10. ASSUME slashed' \cap Honest = {} PROVE BackedInv'
  <2>1. BackedInv /\ votes \subseteq votes' /\ slashed \subseteq slashed'
    BY <1>1, <1>10 DEF IndInv
  <2>2. AllHonestActive'
    BY <1>1, <2>1 DEF BackedInv, AllHonestActive
  <2>3. PrecommitsBacked' /\ CertificatesBacked'
    BY <1>1, <1>10, <2>1, BackedBefore DEF PrecommitsBacked
  <2> QED BY <2>2, <2>3 DEF BackedInv
<1> QED BY <1>3, <1>4, <1>5, <1>6, <1>7, <1>8, <1>9, <1>10 DEF IndInv, VotingInv

(* A restart keeps the ledger and forgets the votes.                        *)
LEMMA RestartInv ==
    ASSUME IndInv, NEW n \in Honest, Restart(n)
    PROVE  IndInv'
<1> USE DEF network
<1>0. TypeOK
  BY DEF IndInv, VotingInv
<1>1. crashes \in Nat /\ crashes' = crashes + 1 /\ crashes' <= MaxCrashes
  BY <1>0, DriverAssumption DEF Restart, TypeOK
<1>2. TypeOK'
  <2>1. crashes' \in 0..MaxCrashes
    BY <1>1, DriverAssumption
  <2>2. /\ pc' \in [Honest -> {"start", "propose", "await", "prevote", "votes"}]
        /\ vset' \in [Honest -> SUBSET Val] /\ accused' \in [Honest -> SUBSET Val]
        /\ precommitted' \in [Honest -> BOOLEAN]
    BY <1>0 DEF Restart, TypeOK
  <2>3. height' \in [Honest -> 0..MaxHeight] /\ round' \in [Honest -> 0..MaxRound]
    BY <1>0, DriverAssumption DEF Restart, TypeOK
  <2>4. pending' \in [Honest -> Hash]
    BY <1>0 DEF Restart, TypeOK, Hash
  <2> QED BY <1>0, <2>1, <2>2, <2>3, <2>4 DEF Restart, TypeOK, history
<1>3. /\ pc'[n] = "start" /\ height'[n] = 0 /\ vset'[n] = Val
      /\ \A m \in Honest : m # n => /\ pc'[m] = pc[m] /\ height'[m] = height[m]
                                    /\ vset'[m] = vset[m] /\ precommitted'[m] = precommitted[m]
  BY <1>0 DEF Restart, TypeOK
<1>4. UNCHANGED <<chain, lastCommit, slashed, framed, votes, proposals>>
  BY DEF Restart, history
<1>5. LedgerAhead' /\ HonestProposals'
  <2>1. \A m \in Honest : height'[m] <= Len(chain'[m]) + 1
    BY <1>0, <1>3, <1>4, ChainLength DEF IndInv, VotingInv, LedgerAhead
  <2>2. \A m \in Honest : pc'[m] # "start" =>
           /\ pc'[m] = pc[m] /\ height'[m] = height[m] /\ pending'[m] = pending[m]
    BY <1>0, <1>3 DEF Restart, TypeOK
  <2>3. LedgerAhead'
    BY <1>4, <2>1, <2>2 DEF IndInv, VotingInv, LedgerAhead, Misjudged, Misled, Below
  <2>4. HonestProposals'
    BY <2>2 DEF IndInv, VotingInv, HonestProposals
  <2> QED BY <2>3, <2>4
<1>6. Fresh' /\ Started'
  BY <1>3, <1>4 DEF IndInv, VotingInv, Fresh, BlockVotesOf, Started, Misjudged, Misled, Below
<1>7. PrecommitsNameBlocks' /\ OneBlockVotePerHeight'
  BY <1>4 DEF IndInv, VotingInv, PrecommitsNameBlocks, OneBlockVotePerHeight, Misjudged, Misled,
              Below
<1>8. TalliesOK' /\ TalliesSound'
  <2>1. /\ prevotes = [m \in Honest |-> prevotes[m]]
        /\ precommits = [m \in Honest |-> precommits[m]]
    BY DEF IndInv, VotingInv, TalliesOK
  <2>2. /\ prevotes'[n] = NoVotes /\ precommits'[n] = NoVotes
        /\ prevotes' = [m \in Honest |-> prevotes'[m]]
        /\ precommits' = [m \in Honest |-> precommits'[m]]
        /\ \A m \in Honest : m # n => prevotes'[m] = prevotes[m] /\ precommits'[m] = precommits[m]
    BY <2>1 DEF Restart
  <2>3. TalliesOK'
    <3>1. SUFFICES ASSUME NEW m \in Honest
                   PROVE  /\ DOMAIN prevotes'[m] \subseteq vset'[m]
                          /\ DOMAIN precommits'[m] \subseteq vset'[m]
                          /\ prevotes'[m] \in [DOMAIN prevotes'[m] -> Hash]
                          /\ precommits'[m] \in [DOMAIN precommits'[m] -> Hash]
      BY <2>2 DEF TalliesOK
    <3>2. CASE m = n
      BY <2>2, <3>2, EmptyTally
    <3>3. CASE m # n
      BY <1>3, <2>2, <3>3 DEF IndInv, VotingInv, TalliesOK
    <3> QED BY <3>2, <3>3
  <2>4. TalliesSound'
    <3>1. SUFFICES ASSUME NEW m \in Honest
                   PROVE  /\ \A v \in DOMAIN prevotes'[m] \cap Honest :
                               [type |-> "prevote", height |-> height'[m], round |-> round'[m],
                                hash |-> prevotes'[m][v], val |-> v] \in votes
                          /\ \A v \in DOMAIN precommits'[m] \cap Honest :
                               [type |-> "precommit", height |-> height'[m], round |-> round'[m],
                                hash |-> precommits'[m][v], val |-> v] \in votes
      BY <1>4 DEF TalliesSound
    <3>2. CASE m = n
      BY <2>2, <3>2, EmptyTally
    <3>3. CASE m # n
      <4>1. round'[m] = round[m]
        BY <1>0, <3>3 DEF Restart, TypeOK
      <4> QED BY <1>3, <2>2, <3>3, <4>1 DEF IndInv, VotingInv, TalliesSound
    <3> QED BY <3>2, <3>3
  <2> QED BY <2>3, <2>4
<1>9. crashes' # 0
  BY <1>1
<1>10. AccusedSlashed' /\ HonestNotSlashed'
  <2>1. \A m \in Honest : accused'[m] = {} \/ accused'[m] = accused[m]
    BY <1>0 DEF Restart, TypeOK
  <2> QED BY <1>4, <1>9, <2>1 DEF IndInv, VotingInv, AccusedSlashed, HonestNotSlashed
<1>11. ASSUME slashed' \cap Honest = {} PROVE BackedInv'
  <2>1. BackedInv
    BY <1>4, <1>11 DEF IndInv
  <2>2. AllHonestActive'
    BY <1>3, <2>1, DriverAssumption DEF BackedInv, AllHonestActive
  <2>3. PrecommitsBacked' /\ CertificatesBacked'
    BY <1>4, <1>11, BackedBefore DEF PrecommitsBacked
  <2> QED BY <2>2, <2>3 DEF BackedInv
<1> QED BY <1>2, <1>5, <1>6, <1>7, <1>8, <1>9, <1>10, <1>11 DEF IndInv, VotingInv

(* The invariant holds when every node starts.                              *)
LEMMA InitInv == Init => IndInv
<1> SUFFICES ASSUME Init PROVE IndInv
  OBVIOUS
<1>1. Loaded \in Chain /\ Len(Loaded) \in Nat
  BY DriverAssumption, LenProperties DEF Chain
<1>2. TypeOK
  BY <1>1, DriverAssumption DEF Init, TypeOK, Hash
<1>3. LedgerAhead /\ HonestProposals /\ Fresh /\ Started
  BY <1>1 DEF Init, LedgerAhead, HonestProposals, Fresh, BlockVotesOf, Started
<1>4. TalliesOK /\ TalliesSound
  BY EmptyTally DEF Init, TalliesOK, TalliesSound
<1>5. /\ PrecommitsNameBlocks /\ OneBlockVotePerHeight /\ AccusedSlashed
      /\ HonestNotSlashed /\ NoRestartInv
  BY DEF Init, PrecommitsNameBlocks, OneBlockVotePerHeight, AccusedSlashed, HonestNotSlashed,
         NoRestartInv, Forward, NoEquivocation
<1>6. BackedInv
  BY DriverAssumption DEF Init, BackedInv, AllHonestActive, PrecommitsBacked, CertificatesBacked
<1> QED BY <1>2, <1>3, <1>4, <1>5, <1>6 DEF IndInv, VotingInv

(* A step of nobody keeps the invariant.                                    *)
LEMMA StutterInv ==
    ASSUME IndInv, UNCHANGED vars
    PROVE  IndInv'
<1> USE DEF vars, engine, tally, network, history
<1>1. TypeOK' /\ LedgerAhead' /\ HonestProposals' /\ Fresh' /\ Started'
  BY DEF IndInv, VotingInv, TypeOK, LedgerAhead, HonestProposals, Fresh, BlockVotesOf, Started,
         Misjudged, Misled, Below
<1>2. /\ PrecommitsNameBlocks' /\ TalliesOK' /\ TalliesSound' /\ OneBlockVotePerHeight'
  BY DEF IndInv, VotingInv, PrecommitsNameBlocks, TalliesOK, TalliesSound,
         OneBlockVotePerHeight, Misjudged, Misled, Below
<1>3. AccusedSlashed' /\ HonestNotSlashed'
  BY DEF IndInv, VotingInv, AccusedSlashed, HonestNotSlashed
<1>4. ASSUME crashes' = 0 PROVE NoRestartInv'
  BY <1>4 DEF IndInv, NoRestartInv, Forward, NoEquivocation
<1>5. ASSUME slashed' \cap Honest = {} PROVE BackedInv'
  BY <1>5 DEF IndInv, BackedInv, AllHonestActive, PrecommitsBacked, CertificatesBacked, Polka
<1> QED BY <1>1, <1>2, <1>3, <1>4, <1>5 DEF IndInv, VotingInv

(* Every step of every node keeps the invariant.                            *)
LEMMA NextInv ==
    ASSUME IndInv, [Next]_vars
    PROVE  IndInv'
<1>1. ASSUME NEW n \in Honest, StartHeight(n) PROVE IndInv'
  BY <1>1, StartHeightInv
<1>2. ASSUME NEW n \in Honest, NEW p \in Payload, ProposeAsLocal(n, p) PROVE IndInv'
  BY <1>2, ProposeInv
<1>3. ASSUME NEW n \in Honest, NEW b \in ProposalsFor(n), AcceptProposal(n, b) PROVE IndInv'
  BY <1>3, AcceptInv
<1>4. ASSUME NEW n \in Honest, NEW b \in ProposalsFor(n), RefuseProposal(n, b) PROVE IndInv'
  BY <1>4, NilPrevoteInv DEF RefuseProposal
<1>5. ASSUME NEW n \in Honest, ProposeTimeout(n) PROVE IndInv'
  BY <1>5, NilPrevoteInv DEF ProposeTimeout
<1>6. ASSUME NEW n \in Honest, CastPrevote(n) PROVE IndInv'
  BY <1>6, CastPrevoteInv
<1>7. ASSUME NEW n \in Honest, VoteTimeout(n) \/ ProposeFails(n) PROVE IndInv'
  BY <1>7, GivesUpInv
<1>8. ASSUME NEW n \in Honest, Restart(n) PROVE IndInv'
  BY <1>8, RestartInv
<1>9. ASSUME NEW n \in Honest, NEW v \in InboundVotes(n), HandlePrevote(n, v) PROVE IndInv'
  BY <1>9, HandlePrevoteInv
<1>10. ASSUME NEW n \in Honest, NEW v \in InboundVotes(n), HandlePrecommit(n, v) PROVE IndInv'
  BY <1>10, HandlePrecommitInv
<1>11. ASSUME NEW n \in Honest, NEW v \in Evidence, ReceiveEvidence(n, v) PROVE IndInv'
  BY <1>11, EvidenceInv
<1>12. ASSUME NEW n \in Honest, NEW b \in PeerBlocks(n), GossipBlock(n, b) PROVE IndInv'
  BY <1>12, GossipInv
<1>13. CASE UNCHANGED vars
  BY <1>13, StutterInv
<1> QED
  BY <1>1, <1>2, <1>3, <1>4, <1>5, <1>6, <1>7, <1>8, <1>9, <1>10, <1>11, <1>12, <1>13 DEF Next

-----------------------------------------------------------------------------
(* Theorems: Byzantine validators hold at most a third of the power and may  *)
(* propose any block, sign any vote and send any evidence.                  *)

(* The inductive invariant holds in every reachable state, restarts          *)
(* included.                                                                *)
THEOREM Invariance == Spec => []IndInv
<1>1. IndInv /\ [Next]_vars => IndInv'
  BY NextInv
<1> QED BY <1>1, InitInv, PTL DEF Spec

(* The state keeps its shape.                                               *)
THEOREM TypeCorrect == Spec => []TypeOK
<1>1. IndInv => TypeOK
  BY DEF IndInv, VotingInv
<1> QED BY <1>1, Invariance, PTL

(* A validator that runs the driver prevotes at most one block that reaches  *)
(* the height, and precommits at most one unless it prevoted a lower block   *)
(* there, over all rounds and restarts, although the code keeps neither a    *)
(* lock it consults nor a record of its votes; where everybody is honest,    *)
(* nobody ever votes on a lower block.                                      *)
THEOREM VotesOnce == Spec => []OneBlockVotePerHeight
<1>1. IndInv => OneBlockVotePerHeight
  BY DEF IndInv, VotingInv
<1> QED BY <1>1, Invariance, PTL

(* While no process has restarted, a validator that runs the driver is       *)
(* slashed only if a Byzantine validator sent evidence about it first.      *)
THEOREM NeverSlashed == Spec => []HonestNotSlashed
<1>1. IndInv => HonestNotSlashed
  BY DEF IndInv
<1> QED BY <1>1, Invariance, PTL

(* While no honest validator has been slashed, two nodes never store         *)
(* certificates for different blocks that reach the height, restarts         *)
(* included.                                                                *)
THEOREM Agreement == Spec => []CertificatesAgree
<1>1. IndInv => CertificatesAgree
  <2>1. SUFFICES ASSUME IndInv, slashed \cap Honest = {},
                        NEW n \in Honest, NEW m \in Honest, NEW h \in 1..MaxHeight,
                        NEW b, NEW c, b = lastCommit[n][h], c = lastCommit[m][h],
                        b # Nil, c # Nil, Len(b) >= h, Len(c) >= h
                 PROVE  b = c
    BY DEF CertificatesAgree
  <2>2. Polka(h, b) /\ Polka(h, c)
    BY <2>1 DEF IndInv, BackedInv, CertificatesBacked
  <2>3. PICK S \in SUBSET Val, Q \in SUBSET Val :
          /\ Q \subseteq S /\ Honest \subseteq S /\ has_quorum(Power, S, Q)
          /\ \A v \in Q \cap Honest : \E w \in votes :
               w.type = "prevote" /\ w.height = h /\ w.hash = b /\ w.val = v
    BY <2>2 DEF Polka
  <2>4. PICK T \in SUBSET Val, R \in SUBSET Val :
          /\ R \subseteq T /\ Honest \subseteq T /\ has_quorum(Power, T, R)
          /\ \A v \in R \cap Honest : \E w \in votes :
               w.type = "prevote" /\ w.height = h /\ w.hash = c /\ w.val = v
    BY <2>2 DEF Polka
  <2>5. PICK v \in Q \cap R \cap Honest : TRUE
    BY <2>3, <2>4, QuorumsOverlap
  <2>6. PICK w \in votes : w.type = "prevote" /\ w.height = h /\ w.hash = b /\ w.val = v
    BY <2>3, <2>5
  <2>7. PICK x \in votes : x.type = "prevote" /\ x.height = h /\ x.hash = c /\ x.val = v
    BY <2>4, <2>5
  <2>8. ~ Below(w) /\ ~ Below(x)
    <3>1. b \in Chain /\ c \in Chain
      <4>1. lastCommit \in [Honest -> [1..MaxHeight -> Hash]]
        BY <2>1 DEF IndInv, VotingInv, TypeOK
      <4>2. b \in Hash /\ c \in Hash
        BY <2>1, <4>1
      <4> QED BY <2>1, <4>2 DEF Hash
    <3>2. Len(b) \in Nat /\ Len(c) \in Nat /\ h \in Int
      BY <3>1, LenProperties DEF Chain
    <3> QED BY <2>1, <2>6, <2>7, <3>2 DEF Below
  <2>9. w = x
    BY <2>1, <2>6, <2>7, <2>8 DEF IndInv, VotingInv, OneBlockVotePerHeight, Misjudged
  <2> QED BY <2>6, <2>7, <2>9
<1> QED BY <1>1, Invariance, PTL

=============================================================================
