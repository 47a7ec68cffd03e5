------------------------------ MODULE MCDriver ------------------------------
(***************************************************************************)
(* Driver for TLC: two honest validators of power 2 and 1 beside a Byzantine  *)
(* one of power 1, on a chain with one block, below which a Byzantine         *)
(* proposer can reach.  A behaviour meets one kind of trouble, chosen at the  *)
(* start, so that the states explored are the sum of the kinds and not their  *)
(* product.                                                                *)
(***************************************************************************)
EXTENDS Driver

VARIABLE trouble

mcvars == <<vars, trouble>>

MCVal == {"a", "b", "z"}
MCHonest == {"a", "b"}
MCByz == MCVal \ MCHonest
MCPower == [v \in Val |-> IF v = "a" THEN 2 ELSE 1]
MCRank == [v \in Val |-> CASE v = "a" -> 1 [] v = "b" -> 2 [] v = "z" -> 3]

(* One content of a block is enough: its proposer tells it apart.             *)
MCPayload == {"t"}
MCLoaded == <<[by |-> "a", payload |-> "t"]>>

(* The Byzantine validator makes up evidence about one honest validator.      *)
MCFramable == {"b"}

(* blocks: Byzantine blocks and votes.  evidence: Byzantine votes and made-up  *)
(* evidence.  restarts: two restarts over two heights, and no sign of the      *)
(* Byzantine validator.  misled: Byzantine blocks, also below the height, and  *)
(* a restart.                                                              *)
Troubles == {"blocks", "evidence", "restarts", "misled"}

(* A block that extends the first one and names honest proposers.             *)
HonestBlock(b) == Len(b) > 1 /\ \A i \in 2..Len(b) : b[i].by \in Honest

OnlyHonestBlocks ==
    \A n \in Honest : /\ chain[n] # Loaded => HonestBlock(chain[n])
                      /\ pending[n] # Nil => HonestBlock(pending[n])

OnlyHonestVotes ==
    \A n \in Honest : DOMAIN prevotes[n] \cup DOMAIN precommits[n] \subseteq Honest

(* Only the height after the first block is attempted.                        *)
OneHeight ==
    \A n \in Honest : Len(chain[n]) <= Len(Loaded) + 1 /\ height[n] <= Len(Loaded) + 1

Within(t) ==
    /\ t # "evidence" => framed = {}
    /\ t \in {"blocks", "evidence"} => crashes = 0
    /\ t = "misled" => crashes <= 1
    /\ t \in {"evidence", "restarts"} => OnlyHonestBlocks
    /\ t \in {"misled", "restarts"} => OnlyHonestVotes
    /\ t # "restarts" => OneHeight

MCInit == Init /\ trouble \in Troubles

MCNext == Next /\ UNCHANGED trouble /\ Within(trouble)'

MCSpec == MCInit /\ [][MCNext]_mcvars

=============================================================================
