----------------------------- MODULE MCRotation -----------------------------
(***************************************************************************)
(* Rotation for TLC: three validators of different power.                    *)
(***************************************************************************)
EXTENDS Rotation

MCVal == {"a", "b", "c"}
MCPower == [v \in MCVal |-> CASE v = "a" -> 4 [] v = "b" -> 2 [] v = "c" -> 1]
MCRank == [v \in MCVal |-> CASE v = "a" -> 1 [] v = "b" -> 2 [] v = "c" -> 3]

=============================================================================
