---------------------------- MODULE MCDriverFork ----------------------------
(***************************************************************************)
(* Driver for TLC: three honest validators of equal power, from genesis.      *)
(***************************************************************************)
EXTENDS Driver

MCVal == {"a", "b", "c"}
MCPower == [v \in Val |-> 1]
MCRank == [v \in Val |-> CASE v = "a" -> 1 [] v = "b" -> 2 [] v = "c" -> 3]
MCEmpty == << >>

=============================================================================
