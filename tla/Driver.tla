------------------------------- MODULE Driver -------------------------------
(***************************************************************************)
(* The consensus of sprax-node: several ConsensusDrivers                    *)
(* (crates/sprax-node/src/consensus_driver.rs), each over a                 *)
(* BftConsensusEngine (crates/sprax-consensus/src/engine.rs), a ledger and  *)
(* a network that delays, reorders, repeats and loses messages.             *)
(*                                                                         *)
(* A node commits a block to its ledger when it proposes it, when it        *)
(* accepts the proposal and when block gossip or sync brings it, that is    *)
(* before any vote on it; the quorum of precommits only stores a            *)
(* certificate on the block at that height.                                 *)
(*                                                                         *)
(* A chain is a sequence of entries [by, payload]; a block is identified    *)
(* with the chain it ends, so its height is its length and its parent its   *)
(* front: the hash of a header covers exactly that.                         *)
(***************************************************************************)
EXTENDS Integers, Sequences, FiniteSets, ValidatorSet

CONSTANTS
    Val,        \* validator addresses
    Honest,     \* the validators that run this code; the others are arbitrary
    Power,      \* [Val -> Nat]: voting power
    Rank,       \* [Val -> Nat]: address order
    Payload,    \* what a block may contain (mempool contents)
    ByzNames,   \* bound: proposer names Byzantine validators put on a block
    Framable,   \* bound: validators Byzantine ones send evidence about
    Loaded,     \* the ledger every node loads when it first starts
    MaxHeight,  \* bound: heights attempted
    MaxRound,   \* bound: rounds attempted at one height
    MaxCrashes, \* bound: process restarts
    Nil         \* block_hash = None in a vote

Entry == [by : Val, payload : Payload]
Chain == Seq(Entry)
Hash  == {Nil} \cup Chain

Vote == [type : {"prevote", "precommit"}, height : 1..MaxHeight,
         round : 0..MaxRound, hash : Hash, val : Honest]

Proposal == [height : 1..MaxHeight, round : 0..MaxRound, block : Chain]

(* The validators that do not run this code have at most a third of all     *)
(* power.                                                                  *)
ByzantineThird ==
    2 * TotalPower(Power, Val \ Honest) <= TotalPower(Power, Honest)

ASSUME DriverAssumption ==
    /\ IsFiniteSet(Val)
    /\ Honest \subseteq Val
    /\ ByzNames \subseteq Val
    /\ Framable \subseteq Val
    /\ Loaded \in Chain
    /\ Nil \notin Chain
    /\ Power \in [Val -> Nat]
    /\ MaxHeight \in Nat \ {0}
    /\ MaxRound \in Nat
    /\ MaxCrashes \in Nat
    /\ ByzantineThird

VARIABLES
    chain,         \* [Honest -> Chain]: the ledger of each node (durable)
    pc,            \* where run_one_height of the node stands
    height, round, \* last_attempted_height and current_round
    vset, prio,    \* the engine's validator set and its priorities
    proposer,      \* the proposer the node expects in this attempt
    pending,       \* the block it is about to prevote
    prevotes,      \* the engine's tally: function from voters to hashes
    precommits,
    precommitted,  \* precommitted_this_round
    lastCommit,    \* [Honest -> [heights -> hash certified by the stored commit]]
    accused,       \* validators slashed by the node's StakingKeeper
    slashed,       \* history: validators some honest node ever slashed
    framed,        \* history: those first slashed on evidence of a Byzantine one
    votes,         \* votes broadcast by honest nodes
    proposals,     \* proposals broadcast by honest nodes
    crashes        \* restarts so far (only to bound the exploration)

engine  == <<height, round, vset, prio, proposer>>
tally   == <<prevotes, precommits, precommitted>>
network == <<votes, proposals>>
history == <<slashed, framed>>
vars    == <<chain, pc, engine, pending, tally, lastCommit, accused, history, network,
             crashes>>

NoVotes == << >>

Init ==
    /\ chain = [n \in Honest |-> Loaded]
    /\ pc = [n \in Honest |-> "start"]
    /\ height = [n \in Honest |-> 0]
    /\ round = [n \in Honest |-> 0]
    /\ vset = [n \in Honest |-> Val]
    /\ prio = [n \in Honest |-> [v \in Val |-> 0]]
    /\ proposer = [n \in Honest |-> n]
    /\ pending = [n \in Honest |-> Nil]
    /\ prevotes = [n \in Honest |-> NoVotes]
    /\ precommits = [n \in Honest |-> NoVotes]
    /\ precommitted = [n \in Honest |-> FALSE]
    /\ lastCommit = [n \in Honest |-> [h \in 1..MaxHeight |-> Nil]]
    /\ accused = [n \in Honest |-> {}]
    /\ slashed = {}
    /\ framed = {}
    /\ votes = {}
    /\ proposals = {}
    /\ crashes = 0

-----------------------------------------------------------------------------
(* The engine's tallies.                                                   *)

(* entry().or_insert(): the first vote of a validator in a round stays.     *)
Tally(t, v, hash) ==
    IF v \in DOMAIN t THEN t
    ELSE [u \in DOMAIN t \cup {v} |-> IF u = v THEN hash ELSE t[u]]

Voters(t, hash) == {v \in DOMAIN t : t[v] = hash}

(* Mutant: floor(2W/3) is enough.                                          *)
QuorumHashesTwoThirds(t, S) ==
    {b \in {t[v] : v \in DOMAIN t} \ {Nil} :
        TotalPower(Power, Voters(t, b)) >= quorum_threshold(Power, S) - 1}

(* get_prevoted_block_with_quorum, get_precommitted_block_with_quorum; the   *)
(* voters were members of the set S when they were tallied.                 *)
QuorumHashes(t, S) == {b \in {t[v] : v \in DOMAIN t} \ {Nil} :
                          has_quorum(Power, S, Voters(t, b))}

(* has_prevote_quorum also counts nil; only a quorum on a block leads to a   *)
(* precommit, so the driver's reaction is the same.                         *)

(* Mutant: votes carry the number of the next round.                        *)
VoteOfNextRound(type, n, hash) ==
    [type |-> type, height |-> height[n], round |-> round[n] + 1, hash |-> hash, val |-> n]

VoteOf(type, n, hash) ==
    [type |-> type, height |-> height[n], round |-> round[n], hash |-> hash, val |-> n]

(* A vote of n enters the tally t of its own engine if n is a member.       *)
Fed(n, t, hash) == IF n \in vset[n] THEN Tally(t, n, hash) ELSE t

(* finalize_height; set_last_commit fails when the ledger has no block at    *)
(* that height.                                                             *)
Certify(n, hash) ==
    IF height[n] <= Len(chain[n])
      THEN [lastCommit EXCEPT ![n][height[n]] = hash]
      ELSE lastCommit

(* receive_precommit left the tally pm: a quorum ends the attempt.          *)
Decide(n, pm) ==
    /\ precommits' = [precommits EXCEPT ![n] = pm]
    /\ \/ /\ QuorumHashes(pm, vset[n]) = {}
          /\ pc' = [pc EXCEPT ![n] = "votes"]
          /\ UNCHANGED lastCommit
       \/ \E b \in QuorumHashes(pm, vset[n]) :
            /\ pc' = [pc EXCEPT ![n] = "start"]
            /\ lastCommit' = Certify(n, b)

(* receive_prevote left the tally pv after the votes sent:                   *)
(* maybe_cast_reactive_precommit, once per attempt, and its own precommit    *)
(* may complete the quorum.                                                 *)
React(n, pv, sent) ==
    /\ prevotes' = [prevotes EXCEPT ![n] = pv]
    /\ \/ /\ precommitted[n] \/ QuorumHashes(pv, vset[n]) = {}
          /\ pc' = [pc EXCEPT ![n] = "votes"]
          /\ votes' = votes \cup sent
          /\ UNCHANGED <<precommits, precommitted, lastCommit>>
       \/ \E b \in QuorumHashes(pv, vset[n]) :
            /\ ~ precommitted[n]
            /\ precommitted' = [precommitted EXCEPT ![n] = TRUE]
            /\ votes' = votes \cup sent \cup {VoteOf("precommit", n, b)}
            /\ Decide(n, Fed(n, precommits[n], b))

-----------------------------------------------------------------------------
(* ChainLedger::apply_block as the driver and the gossip task see it.       *)
Ignored(n, b)    == Len(b) <= Len(chain[n])
Extends(n, b)    == Len(b) = Len(chain[n]) + 1 /\ SubSeq(b, 1, Len(b) - 1) = chain[n]
Applied(n, b)    == IF Extends(n, b) THEN b ELSE chain[n]

(* A block of a Byzantine peer may also fail its execution or its roots.    *)
MayFail(n, b) == \/ ~ Ignored(n, b) /\ ~ Extends(n, b)
                 \/ Extends(n, b) /\ Honest # Val

-----------------------------------------------------------------------------
(* Mutant: a retry reuses round 0.                                         *)
NextRoundZero(n) == 0

(* The same height as the last attempt is a new round of it.                *)
NextRound(n) == IF Len(chain[n]) + 1 = height[n] THEN round[n] + 1 ELSE 0

(* run_one_height up to the choice between proposing and waiting, at the     *)
(* next height of the ledger.  Without an active validator the driver only   *)
(* sleeps and retries, and nothing but a restart gives it one.              *)
StartHeight(n) ==
    LET S == Val \ accused[n]
        p == carry_priorities(prio[n], S)
        w == ProposerOf(Power, p, S, Rank)
    IN  /\ pc[n] = "start"
        /\ S # {}
        /\ Len(chain[n]) < MaxHeight
        /\ NextRound(n) <= MaxRound
        /\ height' = [height EXCEPT ![n] = Len(chain[n]) + 1]
        /\ round' = [round EXCEPT ![n] = NextRound(n)]
        /\ vset' = [vset EXCEPT ![n] = S]
        /\ prio' = [prio EXCEPT ![n] = select_proposer(Power, p, S, Rank)]
        /\ proposer' = [proposer EXCEPT ![n] = w]
        /\ prevotes' = [prevotes EXCEPT ![n] = NoVotes]
        /\ precommits' = [precommits EXCEPT ![n] = NoVotes]
        /\ precommitted' = [precommitted EXCEPT ![n] = FALSE]
        /\ pc' = [pc EXCEPT ![n] = IF w = n THEN "propose" ELSE "await"]
        /\ UNCHANGED <<chain, pending, lastCommit, accused, history, network, crashes>>

(* propose_as_local: mine_block appends to the ledger as it is now, which    *)
(* gossip may have extended since the height was read.                      *)
ProposeAsLocal(n, payload) ==
    LET b == Append(chain[n], [by |-> n, payload |-> payload]) IN
      /\ pc[n] = "propose"
      /\ chain' = [chain EXCEPT ![n] = b]
      /\ proposals' = proposals \cup
            {[height |-> height[n], round |-> round[n], block |-> b]}
      /\ pending' = [pending EXCEPT ![n] = b]
      /\ pc' = [pc EXCEPT ![n] = "prevote"]
      /\ UNCHANGED <<engine, tally, lastCommit, accused, history, votes, crashes>>

(* mine_block fails (a store or execution error): the attempt ends without a *)
(* vote.  The other two errors of propose_as_local cannot happen: the        *)
(* proposer is a member of the set it was chosen from, and hashing a header  *)
(* that mine_block has just hashed succeeds.                                *)
ProposeFails(n) ==
    /\ pc[n] = "propose"
    /\ pc' = [pc EXCEPT ![n] = "start"]
    /\ UNCHANGED <<chain, engine, pending, tally, lastCommit, accused, history, network,
                   crashes>>

(* cast_nil_prevote and return: the own tally is cleared by the next        *)
(* start_height before anything reads it.                                   *)
NilPrevote(n) ==
    /\ votes' = votes \cup {VoteOf("prevote", n, Nil)}
    /\ pc' = [pc EXCEPT ![n] = "start"]
    /\ UNCHANGED <<chain, engine, pending, tally, lastCommit, accused, history,
                   proposals, crashes>>

(* Blocks a Byzantine validator may show: any entry on a prefix of an honest *)
(* chain, under any proposer's name, since a header is not signed.          *)
ByzantineBlocks ==
    IF Honest = Val THEN {}
    ELSE UNION {{Append(SubSeq(chain[m], 1, k), e) :
                    k \in 0..Len(chain[m]), e \in [by : ByzNames, payload : Payload]} :
                 m \in Honest}

(* What await_proposal may find in its channel for this height and round.   *)
(* It compares the height of the message, not the height in the header of    *)
(* its block: an honest proposal never carries a lower block, a Byzantine    *)
(* one may.                                                                 *)
ProposalsFor(n) ==
    {p.block : p \in {q \in proposals : q.height = height[n] /\ q.round = round[n]}}
      \cup ByzantineBlocks

(* Mutant: the block is voted on before it is applied.                      *)
AcceptWithoutApply(n, b) ==
    /\ pc[n] = "await"
    /\ b[Len(b)].by = proposer[n]
    /\ Ignored(n, b) \/ Extends(n, b)
    /\ pending' = [pending EXCEPT ![n] = b]
    /\ pc' = [pc EXCEPT ![n] = "prevote"]
    /\ UNCHANGED <<chain, engine, tally, lastCommit, accused, history, network, crashes>>

AcceptProposal(n, b) ==
    /\ pc[n] = "await"
    /\ b[Len(b)].by = proposer[n]
    /\ Ignored(n, b) \/ Extends(n, b)
    /\ chain' = [chain EXCEPT ![n] = Applied(n, b)]
    /\ pending' = [pending EXCEPT ![n] = b]
    /\ pc' = [pc EXCEPT ![n] = "prevote"]
    /\ UNCHANGED <<engine, tally, lastCommit, accused, history, network, crashes>>

(* Unexpected proposer, or apply_block returns an error.                    *)
RefuseProposal(n, b) ==
    /\ pc[n] = "await"
    /\ b[Len(b)].by # proposer[n] \/ MayFail(n, b)
    /\ NilPrevote(n)

ProposeTimeout(n) ==
    /\ pc[n] = "await"
    /\ NilPrevote(n)

(* The own prevote, and what follows from it without another vote.          *)
CastPrevote(n) ==
    /\ pc[n] = "prevote"
    /\ React(n, Fed(n, prevotes[n], pending[n]),
             {VoteOf("prevote", n, pending[n])})
    /\ UNCHANGED <<chain, engine, pending, accused, history, proposals, crashes>>

-----------------------------------------------------------------------------
(* handle_inbound_vote                                                     *)

(* The votes n may receive in its round: those honest nodes sent, and any    *)
(* vote a Byzantine validator signs on a block some vote names.             *)
InboundVotes(n) ==
    {v \in votes : v.height = height[n] /\ v.round = round[n]}
      \cup [type : {"prevote", "precommit"}, height : {height[n]}, round : {round[n]},
            hash : {v.hash : v \in votes} \cup {Nil}, val : Val \ Honest]

TallyOf(n, type) == IF type = "prevote" THEN prevotes[n] ELSE precommits[n]

(* find_conflicting_vote, then slash_equivocation.                          *)
Conflicts(n, v) ==
    LET t == TallyOf(n, v.type) IN v.val \in DOMAIN t /\ t[v.val] # v.hash

Detected(n, v) == IF Conflicts(n, v) THEN {v.val} ELSE {}

Slash(n, v) ==
    /\ accused' = [accused EXCEPT ![n] = @ \cup Detected(n, v)]
    /\ slashed' = slashed \cup Detected(n, v)
    /\ UNCHANGED framed

HandlePrevote(n, v) ==
    /\ pc[n] = "votes"
    /\ v.type = "prevote"
    /\ v.val \in vset[n]
    /\ Slash(n, v)
    /\ React(n, Tally(prevotes[n], v.val, v.hash), {})
    /\ UNCHANGED <<chain, engine, pending, proposals, crashes>>

HandlePrecommit(n, v) ==
    /\ pc[n] = "votes"
    /\ v.type = "precommit"
    /\ v.val \in vset[n]
    /\ Slash(n, v)
    /\ Decide(n, Tally(precommits[n], v.val, v.hash))
    /\ UNCHANGED <<chain, engine, pending, prevotes, precommitted, network, crashes>>

VoteTimeout(n) ==
    /\ pc[n] = "votes"
    /\ pc' = [pc EXCEPT ![n] = "start"]
    /\ UNCHANGED <<chain, engine, pending, tally, lastCommit, accused, history, network,
                   crashes>>

(* run_evidence_listener: evidence an honest node broadcast, or evidence of a *)
(* Byzantine one about anybody.  is_valid_equivocation compares the two      *)
(* votes with each other and not with validator_address, whom                *)
(* slash_equivocation slashes, and nobody verifies their signatures.        *)
Evidence == slashed \cup (IF Honest = Val THEN {} ELSE Framable)

ReceiveEvidence(n, v) ==
    /\ v \notin accused[n]
    /\ accused' = [accused EXCEPT ![n] = @ \cup {v}]
    /\ slashed' = slashed \cup {v}
    /\ framed' = framed \cup ({v} \ slashed)
    /\ UNCHANGED <<chain, pc, engine, pending, tally, lastCommit, network, crashes>>

(* The gossip task of NodeService: BlockGossip or a sync answer brings the    *)
(* next block of a peer's chain; it is applied at any moment, without a      *)
(* certificate.                                                             *)
PeerBlocks(n) ==
    {SubSeq(chain[m], 1, Len(chain[n]) + 1) :
        m \in {k \in Honest : Len(chain[k]) > Len(chain[n])}}
      \cup ByzantineBlocks

GossipBlock(n, b) ==
    /\ Extends(n, b)
    /\ Len(b) <= MaxHeight
    /\ chain' = [chain EXCEPT ![n] = b]
    /\ UNCHANGED <<pc, engine, pending, tally, lastCommit, accused, history, network,
                   crashes>>

(* Mutant: the last block was not durable when the process stopped.         *)
RestartWithoutTip(n) ==
    /\ crashes < MaxCrashes
    /\ crashes' = crashes + 1
    /\ chain' = [chain EXCEPT ![n] = IF @ = << >> THEN @ ELSE SubSeq(@, 1, Len(@) - 1)]
    /\ pc' = [pc EXCEPT ![n] = "start"]
    /\ height' = [height EXCEPT ![n] = 0]
    /\ round' = [round EXCEPT ![n] = 0]
    /\ UNCHANGED <<vset, prio, proposer, pending, tally, lastCommit, accused, history, network>>

(* The process restarts: the ledger is durable, the driver and the engine    *)
(* start anew.                                                              *)
Restart(n) ==
    /\ crashes < MaxCrashes
    /\ crashes' = crashes + 1
    /\ pc' = [pc EXCEPT ![n] = "start"]
    /\ height' = [height EXCEPT ![n] = 0]
    /\ round' = [round EXCEPT ![n] = 0]
    /\ prio' = [prio EXCEPT ![n] = [v \in Val |-> 0]]
    /\ vset' = [vset EXCEPT ![n] = Val]
    /\ proposer' = [proposer EXCEPT ![n] = n]
    /\ pending' = [pending EXCEPT ![n] = Nil]
    /\ prevotes' = [prevotes EXCEPT ![n] = NoVotes]
    /\ precommits' = [precommits EXCEPT ![n] = NoVotes]
    /\ precommitted' = [precommitted EXCEPT ![n] = FALSE]
    /\ accused' = [accused EXCEPT ![n] = {}]
    /\ UNCHANGED <<chain, lastCommit, history, network>>

Next ==
    \/ \E n \in Honest :
         \/ StartHeight(n)
         \/ \E p \in Payload : ProposeAsLocal(n, p)
         \/ ProposeFails(n)
         \/ \E b \in ProposalsFor(n) : AcceptProposal(n, b)
         \/ \E b \in ProposalsFor(n) : RefuseProposal(n, b)
         \/ ProposeTimeout(n)
         \/ CastPrevote(n)
         \/ VoteTimeout(n)
         \/ Restart(n)
    \/ \E n \in Honest : \E v \in InboundVotes(n) : HandlePrevote(n, v)
    \/ \E n \in Honest : \E v \in InboundVotes(n) : HandlePrecommit(n, v)
    \/ \E n \in Honest : \E v \in Evidence : ReceiveEvidence(n, v)
    \/ \E n \in Honest : \E b \in PeerBlocks(n) : GossipBlock(n, b)

Spec == Init /\ [][Next]_vars

-----------------------------------------------------------------------------
(* Properties                                                              *)

(* Shape of the state.                                                     *)
TypeOK ==
    /\ chain \in [Honest -> Chain]
    /\ pc \in [Honest -> {"start", "propose", "await", "prevote", "votes"}]
    /\ height \in [Honest -> 0..MaxHeight]
    /\ round \in [Honest -> 0..MaxRound]
    /\ vset \in [Honest -> SUBSET Val]
    /\ pending \in [Honest -> Hash]
    /\ precommitted \in [Honest -> BOOLEAN]
    /\ lastCommit \in [Honest -> [1..MaxHeight -> Hash]]
    /\ accused \in [Honest -> SUBSET Val]
    /\ slashed \subseteq Val
    /\ framed \subseteq Val
    /\ votes \subseteq Vote
    /\ proposals \subseteq Proposal
    /\ crashes \in 0..MaxCrashes

(* A vote at a height for a block that is lower: await_proposal does not     *)
(* compare the two, and apply_block answers Ok to a block it already has.    *)
Below(v) == v.hash # Nil /\ Len(v.hash) < v.height

(* n prevoted a lower block at height h.                                    *)
Misled(n, h) == \E v \in votes :
    v.val = n /\ v.height = h /\ v.type = "prevote" /\ Below(v)

(* A vote after which the ledger of the voter need not have reached the      *)
(* height.                                                                  *)
Misjudged(v) == IF v.type = "prevote" THEN Below(v) ELSE Misled(v.val, v.height)

(* Over all rounds of a height, and across restarts, a validator that runs   *)
(* this code prevotes at most one block that reaches the height, and         *)
(* precommits at most one block unless it prevoted a lower one there, which  *)
(* only a Byzantine proposer offers.  The code keeps no lock that it         *)
(* consults and no memory of its votes: this rests on the ledger having      *)
(* moved past the height before the vote.                                   *)
OneBlockVotePerHeight ==
    /\ \A v, w \in votes :
        /\ v.type = w.type /\ v.val = w.val /\ v.height = w.height
        /\ v.hash # Nil /\ w.hash # Nil
        => v = w \/ Misjudged(v) \/ Misjudged(w)
    /\ Honest = Val => \A v \in votes : ~ Below(v)

(* While no honest validator was slashed, two nodes never store certificates *)
(* for different blocks of a height, restarts or not, although their ledgers *)
(* may hold different blocks there.  A certificate for a lower block, which  *)
(* a Byzantine proposer can obtain, is not about the height it is stored     *)
(* under.                                                                   *)
CertificatesAgree ==
    slashed \cap Honest = {} =>
      \A n, m \in Honest : \A h \in 1..MaxHeight :
        /\ lastCommit[n][h] # Nil /\ lastCommit[m][h] # Nil
        /\ Len(lastCommit[n][h]) >= h /\ Len(lastCommit[m][h]) >= h
        => lastCommit[n][h] = lastCommit[m][h]

(* handle_inbound_vote slashes on two different votes for one height and     *)
(* round.  While no process restarted, a validator that runs this code is    *)
(* slashed by another only after a Byzantine validator sent evidence about   *)
(* it, whatever proposals it was misled by.                                 *)
HonestNotSlashed == crashes = 0 => slashed \cap Honest \subseteq framed

(* docs/CONSENSUS_IMPLEMENTATION.md: no two honest validators commit         *)
(* different blocks at the same height.                                     *)
NoForking ==
    \A n, m \in Honest : \A h \in 1..MaxHeight :
        h <= Len(chain[n]) /\ h <= Len(chain[m])
        => SubSeq(chain[n], 1, h) = SubSeq(chain[m], 1, h)

(* docs/CONSENSUS_IMPLEMENTATION.md: the proposer is a function of height     *)
(* and round, for nodes that know the same validators.                      *)
ProposersAgree ==
    \A n, m \in Honest :
        /\ pc[n] # "start" /\ pc[m] # "start"
        /\ height[n] = height[m] /\ round[n] = round[m] /\ vset[n] = vset[m]
        => proposer[n] = proposer[m]

-----------------------------------------------------------------------------
(* The inductive invariant behind OneBlockVotePerHeight, CertificatesAgree   *)
(* and HonestNotSlashed (DriverProofs).                                     *)

BlockVotesOf(n) == {v \in votes : v.val = n /\ v.hash # Nil}

(* Before it votes on a block at a height, a node's ledger has reached it,   *)
(* unless the block is a lower one.                                         *)
LedgerAhead ==
    /\ \A v \in votes : v.hash # Nil => v.height <= Len(chain[v.val]) \/ Misjudged(v)
    /\ \A n \in Honest : pc[n] = "prevote" =>
         /\ pending[n] \in Chain
         /\ height[n] <= Len(chain[n]) \/ Len(pending[n]) < height[n]
    /\ \A n \in Honest : pc[n] = "votes" =>
         height[n] <= Len(chain[n]) \/ Misled(n, height[n])
    /\ \A n \in Honest : height[n] <= Len(chain[n]) + 1
    /\ \A p \in proposals : p.height <= Len(p.block)

(* Honest proposers alone lead nobody to a lower block.                     *)
HonestProposals ==
    Honest = Val => \A n \in Honest : pc[n] = "prevote" => height[n] <= Len(pending[n])

(* Until it prevotes, an attempt is above every block vote of the node that  *)
(* was about its height; until it precommits, above every precommit.        *)
Fresh ==
    \A n \in Honest : \A v \in BlockVotesOf(n) :
        /\ pc[n] \in {"propose", "await", "prevote"}
             => v.height < height[n] \/ Misjudged(v)
        /\ pc[n] = "votes" /\ v.type = "precommit" /\ ~ precommitted[n]
             => v.height < height[n] \/ Misjudged(v)

Started == \A n \in Honest : pc[n] # "start" => height[n] >= 1

PrecommitsNameBlocks == \A v \in votes : v.type = "precommit" => v.hash # Nil

TalliesOK ==
    /\ prevotes = [n \in Honest |-> prevotes[n]]
    /\ precommits = [n \in Honest |-> precommits[n]]
    /\ \A n \in Honest :
        /\ DOMAIN prevotes[n] \subseteq vset[n]
        /\ DOMAIN precommits[n] \subseteq vset[n]
        /\ prevotes[n] \in [DOMAIN prevotes[n] -> Hash]
        /\ precommits[n] \in [DOMAIN precommits[n] -> Hash]

(* What an engine tallied of an honest validator, that validator sent.      *)
TalliesSound ==
    \A n \in Honest :
        /\ \A v \in DOMAIN prevotes[n] \cap Honest :
             [type |-> "prevote", height |-> height[n], round |-> round[n],
              hash |-> prevotes[n][v], val |-> v] \in votes
        /\ \A v \in DOMAIN precommits[n] \cap Honest :
             [type |-> "precommit", height |-> height[n], round |-> round[n],
              hash |-> precommits[n][v], val |-> v] \in votes

AccusedSlashed == \A n \in Honest : accused[n] \subseteq slashed

VotingInv ==
    /\ TypeOK
    /\ LedgerAhead
    /\ HonestProposals
    /\ Fresh
    /\ Started
    /\ PrecommitsNameBlocks
    /\ TalliesOK
    /\ TalliesSound
    /\ AccusedSlashed
    /\ OneBlockVotePerHeight

(* While no process restarted, attempts only move forward and a node votes   *)
(* once of each type in a round.                                            *)
Forward ==
    /\ \A v \in votes : \/ v.height < height[v.val]
                        \/ v.height = height[v.val] /\ v.round <= round[v.val]
    /\ \A n \in Honest : \A v \in votes :
         v.val = n /\ v.height = height[n] /\ v.round = round[n]
         => /\ pc[n] \notin {"propose", "await", "prevote"}
            /\ v.type = "precommit" /\ pc[n] = "votes" => precommitted[n]

NoEquivocation ==
    \A v, w \in votes :
        /\ v.type = w.type /\ v.val = w.val
        /\ v.height = w.height /\ v.round = w.round
        => v = w

NoRestartInv == Forward /\ NoEquivocation

AllHonestActive == \A n \in Honest : Honest \subseteq vset[n]

(* A quorum of prevotes for b at h, as far as honest validators are in it.  *)
Polka(h, b) ==
    \E S \in SUBSET Val : \E Q \in SUBSET S :
        /\ Honest \subseteq S
        /\ has_quorum(Power, S, Q)
        /\ \A v \in Q \cap Honest : \E w \in votes :
             w.type = "prevote" /\ w.height = h /\ w.hash = b /\ w.val = v

(* Behind every precommit of an honest validator, and so behind every        *)
(* certificate, is a quorum of prevotes.                                    *)
PrecommitsBacked == \A v \in votes : v.type = "precommit" => Polka(v.height, v.hash)

CertificatesBacked ==
    \A n \in Honest : \A h \in 1..MaxHeight :
        lastCommit[n][h] # Nil => Polka(h, lastCommit[n][h])

BackedInv == AllHonestActive /\ PrecommitsBacked /\ CertificatesBacked

IndInv ==
    /\ VotingInv
    /\ HonestNotSlashed
    /\ crashes = 0 => NoRestartInv
    /\ slashed \cap Honest = {} => BackedInv

=============================================================================
