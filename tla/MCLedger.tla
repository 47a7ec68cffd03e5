------------------------------ MODULE MCLedger ------------------------------
(***************************************************************************)
(* Ledger for TLC: two accounts and transactions of which two share a       *)
(* sender and a nonce.                                                      *)
(***************************************************************************)
EXTENDS Ledger

MCAddr == {"alice", "bob"}

MCGenesis == [a \in MCAddr |-> IF a = "alice" THEN 4 ELSE 2]

Pay(to, amount) == [to |-> to, amount |-> amount]

Signed(sender, nonce, msgs, fee) ==
    [sender |-> sender, nonce |-> nonce, msgs |-> msgs, fee |-> fee, auth |-> TRUE]

T1 == Signed("alice", 0, <<Pay("bob", 2)>>, 1)
T2 == Signed("alice", 0, <<Pay("alice", 1), Pay("bob", 1)>>, 0)
T3 == Signed("alice", 1, <<Pay("bob", 3)>>, 0)

(* Presented by a faulty peer: bob did not sign it.                         *)
T4 == [Signed("bob", 0, <<Pay("alice", 2)>>, 0) EXCEPT !.auth = FALSE]

MCTxFaulty == {T1, T2, T3, T4}
MCTxCrash == {T1, T2, T3}

=============================================================================
