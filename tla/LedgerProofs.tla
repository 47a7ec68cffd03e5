---------------------------- MODULE LedgerProofs ----------------------------
(***************************************************************************)
(* Proofs about the ledger (Ledger), for every number of accounts,         *)
(* transactions, heights and crashes. Part one: the shape of the state and *)
(* of the operation under way, that the store can always be reopened, and  *)
(* that committed blocks never change. Part two: replay protection, from   *)
(* what the nonces say about applied transactions. Part three: money. Part *)
(* four: the account table against the chain.                               *)
(***************************************************************************)
EXTENDS Ledger, FoldProofs

(* Part one: the shape of the operation under way.                          *)
Operating ==
    /\ op = [kind |-> op.kind, pc |-> op.pc, todo |-> op.todo, done |-> op.done,
             credits |-> op.credits, header |-> op.header, commit |-> op.commit]
    /\ op.kind \in {"mine", "apply"}
    /\ op.pc \in {"next", "credit", "height"}
    /\ op.todo \in Seq(Tx) /\ op.done \in Seq(Tx) /\ op.credits \in Seq(Msg)
    /\ op.pc # "credit" => op.credits = << >>
    /\ op.pc = "credit" => op.todo # << >>
    /\ op.pc = "height" => op.todo = << >>

(* A stored block.                                                         *)
IsBlock(b) ==
    /\ b = [header |-> b.header, txs |-> b.txs, commit |-> b.commit]
    /\ b.txs \in Seq(Tx)

(* An operation runs only in a running process, below the height bound.    *)
OpInv == op = Idle \/ (Operating /\ up /\ Height < MaxHeight)

(* A stopped process holds nothing; a running one has a genesis; a store   *)
(* without genesis is empty.                                               *)
DownInv ==
    /\ ~ up => /\ blocks = << >> /\ op = Idle /\ mempool = << >>
               /\ txIndex = EmptyIndex
    /\ up => dHeight # NoHeight
    /\ dHeight = NoHeight => dBlocks = << >> /\ dTxIndex = EmptyIndex

(* What is stored are blocks, and put_height finds the new one written.    *)
StoreInv ==
    /\ \A h \in DOMAIN dBlocks : IsBlock(dBlocks[h])
    /\ op # Idle /\ op.pc = "height" =>
         Height + 1 \in DOMAIN dBlocks /\ dBlocks[Height + 1] = NewBlock

(* The inductive invariant of the first part.                              *)
Inv == TypeOK /\ OpInv /\ DownInv /\ StoreInv /\ Recoverable

(* A table over 1..n is a sequence of length n.                            *)
LEMMA SeqFromFunction ==
    ASSUME NEW n \in Nat, NEW f, f = [h \in 1..n |-> f[h]]
    PROVE  f \in Seq({f[h] : h \in 1..n}) /\ Len(f) = n /\ DOMAIN f = 1..n
<1> DEFINE S == {f[h] : h \in 1..n}
<1>1. f \in [1..n -> S]
  OBVIOUS
<1> HIDE DEF S
<1>2. f \in Seq(S)
  BY <1>1, SeqDef
<1>3. Len(f) \in Nat /\ DOMAIN f = 1..Len(f) /\ DOMAIN f = 1..n
  BY <1>1, <1>2, LenProperties
<1> QED BY <1>2, <1>3 DEF S

(* NoHeight is no height of the chain.                                     *)
LEMMA NoHeightApart == NoHeight \notin Heights /\ NoHeight \in Nat
BY LedgerAssumption DEF NoHeight, Heights

(* While the process runs, memory holds the chain of the store.            *)
LEMMA UpFacts ==
    ASSUME Inv, up
    PROVE  /\ dHeight \in Heights /\ dHeight \in Nat /\ Height = dHeight
           /\ DOMAIN blocks = 1..dHeight
           /\ blocks \in Seq({dBlocks[h] : h \in 1..dHeight})
           /\ \A h \in 1..dHeight : blocks[h] = dBlocks[h] /\ h \in DOMAIN dBlocks
           /\ LatestHeader(blocks) =
                IF dHeight = 0 THEN GenesisHeader ELSE dBlocks[dHeight].header
<1>1. dHeight # NoHeight
  BY DEF Inv, DownInv
<1>2. dHeight \in Heights /\ dHeight \in Nat
  BY <1>1, LedgerAssumption DEF Inv, TypeOK, Heights
<1>3. blocks = [h \in 1..dHeight |-> dBlocks[h]] /\ 1..dHeight \subseteq DOMAIN dBlocks
  BY <1>1 DEF Inv, Recoverable, CanRebuild
<1>4. \A h \in 1..dHeight : blocks[h] = dBlocks[h] /\ h \in DOMAIN dBlocks
  BY <1>3
<1>5. blocks = [h \in 1..dHeight |-> blocks[h]]
  BY <1>3
<1>6. /\ blocks \in Seq({blocks[h] : h \in 1..dHeight}) /\ Len(blocks) = dHeight
      /\ DOMAIN blocks = 1..dHeight
  BY <1>2, <1>5, SeqFromFunction
<1>7. {blocks[h] : h \in 1..dHeight} = {dBlocks[h] : h \in 1..dHeight}
  BY <1>4
<1>8. LatestHeader(blocks) =
        IF dHeight = 0 THEN GenesisHeader ELSE dBlocks[dHeight].header
  <2>1. CASE dHeight = 0
    <3>1. blocks = << >>
      BY <1>6, <2>1, EmptySeq
    <3> QED BY <2>1, <3>1 DEF LatestHeader
  <2>2. CASE dHeight # 0
    <3>1. blocks # << >>
      BY <1>6, <2>2, EmptySeq
    <3>2. blocks[Len(blocks)] = dBlocks[dHeight]
      BY <1>2, <1>4, <1>6, <2>2
    <3> QED BY <2>2, <3>1, <3>2 DEF LatestHeader, Last
  <2> QED BY <2>1, <2>2
<1> QED BY <1>2, <1>4, <1>6, <1>7, <1>8 DEF Height

(* The ledger starts in the invariant.                                     *)
LEMMA InitInv == Init => Inv
<1> SUFFICES ASSUME Init PROVE Inv
  OBVIOUS
<1> USE LedgerAssumption DEF Init
<1>1. EmptyIndex \in [Tx -> 1..NoHeight]
  BY DEF EmptyIndex, NoHeight
<1>2. TypeOK
  <2>1. acct \in [Addr -> Account]
    BY DEF Account
  <2>2. Height \in Heights /\ mempool \in Seq(Tx) /\ 0 \in 0..MaxCrashes
    BY EmptySeq DEF Height, Heights
  <2>3. DOMAIN dBlocks \subseteq 1..MaxHeight
    OBVIOUS
  <2> QED BY <1>1, <2>1, <2>2, <2>3 DEF TypeOK
<1>3. OpInv /\ DownInv /\ StoreInv /\ Recoverable
  BY DEF OpInv, DownInv, StoreInv, Recoverable
<1> QED BY <1>2, <1>3 DEF Inv

-----------------------------------------------------------------------------
(* The total of transfer messages is a natural.                            *)
LEMMA AmountOfNat ==
    ASSUME NEW msgs \in Seq(Msg)
    PROVE  AmountOf(msgs) \in Nat
<1> DEFINE f == [i \in DOMAIN msgs |-> msgs[i].amount]
<1>1. Len(msgs) \in Nat /\ DOMAIN msgs = 1..Len(msgs)
      /\ \A i \in 1..Len(msgs) : msgs[i] \in Msg
  BY LenProperties, ElementOfSeq
<1>2. IsFiniteSet(DOMAIN msgs) /\ \A i \in DOMAIN msgs : f[i] \in Nat
  BY <1>1, FS_Interval DEF Msg
<1>3. Sum(f, DOMAIN msgs) \in Nat
  <2> HIDE DEF f
  <2> QED BY <1>2, SumNat
<1> QED BY <1>3 DEF AmountOf

(* What the assumptions say of one transaction.                            *)
LEMMA TxFacts ==
    ASSUME NEW tx \in Tx
    PROVE  /\ tx.sender \in Addr /\ tx.nonce \in Nat /\ tx.fee \in Nat
           /\ tx.msgs \in Seq(Msg)
           /\ TransferTotal(tx) \in Nat
           /\ TotalRequired(tx) = TransferTotal(tx) + tx.fee
<1>1. /\ tx.sender \in Addr /\ tx.nonce \in Nat /\ tx.fee \in Nat
      /\ tx.msgs \in Seq(Msg)
  BY LedgerAssumption DEF TxRecord
<1> QED BY <1>1, AmountOfNat DEF TransferTotal, TotalRequired

(* saturating_add on a nonce: it never falls, and rises below the maximum. *)
LEMMA NextNonceNat ==
    ASSUME NEW n \in Nat
    PROVE  /\ NextNonce(n) \in Nat /\ NextNonce(n) >= n
           /\ n < NonceMax => NextNonce(n) > n
BY LedgerAssumption DEF NextNonce

(* The sender loses the transfers and the fee; nobody else changes.        *)
LEMMA DebitFacts ==
    ASSUME NEW st \in [Addr -> Account], NEW tx \in Tx, CanExecute(st, tx)
    PROVE  /\ Debit(st, tx) \in [Addr -> Account]
           /\ Debit(st, tx)[tx.sender].nonce = NextNonce(st[tx.sender].nonce)
           /\ st[tx.sender].balance =
                 Debit(st, tx)[tx.sender].balance + TransferTotal(tx) + tx.fee
           /\ \A a \in Addr : a # tx.sender => Debit(st, tx)[a] = st[a]
<1> DEFINE s == st[tx.sender]
           d == [nonce |-> NextNonce(s.nonce), balance |-> s.balance - TotalRequired(tx)]
<1>1. /\ tx.sender \in Addr /\ TransferTotal(tx) \in Nat /\ tx.fee \in Nat
      /\ TotalRequired(tx) = TransferTotal(tx) + tx.fee
  BY TxFacts
<1>2. s.nonce \in Nat /\ s.balance \in Nat /\ s.balance >= TotalRequired(tx)
  BY <1>1 DEF CanExecute, Account
<1>3. NextNonce(s.nonce) \in Nat
  BY <1>2, NextNonceNat
<1>4. d \in Account /\ s.balance = d.balance + TransferTotal(tx) + tx.fee
  BY <1>1, <1>2, <1>3 DEF Account
<1>5. Debit(st, tx) = [st EXCEPT ![tx.sender] = d]
  BY DEF Debit
<1> QED BY <1>1, <1>4, <1>5

(* The recipient gains the amount; no nonce changes.                       *)
LEMMA CreditFacts ==
    ASSUME NEW st \in [Addr -> Account], NEW m \in Msg
    PROVE  /\ Credit(st, m) \in [Addr -> Account]
           /\ \A a \in Addr : Credit(st, m)[a].nonce = st[a].nonce
           /\ Credit(st, m)[m.to].balance = st[m.to].balance + m.amount
           /\ \A a \in Addr : a # m.to => Credit(st, m)[a] = st[a]
<1>1. m.to \in Addr /\ m.amount \in Nat
  BY DEF Msg
<1>2. st[m.to] \in Account
  BY <1>1
<1>3. Credit(st, m) = [st EXCEPT ![m.to] = [st[m.to] EXCEPT !.balance = @ + m.amount]]
  BY DEF Credit
<1>4. [st[m.to] EXCEPT !.balance = @ + m.amount] \in Account
      /\ [st[m.to] EXCEPT !.balance = @ + m.amount].nonce = st[m.to].nonce
      /\ [st[m.to] EXCEPT !.balance = @ + m.amount].balance = st[m.to].balance + m.amount
  BY <1>1, <1>2 DEF Account
<1> QED BY <1>1, <1>2, <1>3, <1>4

-----------------------------------------------------------------------------
(* A step of a running ledger that touches neither the chain nor its store. *)
LEMMA MemoryStep ==
    ASSUME Inv, up, UNCHANGED <<dHeight, dBlocks, blocks, up, crashes>>,
           acct' \in [Addr -> Account],
           dTxIndex' \in [Tx -> 1..NoHeight], txIndex' \in [Tx -> 1..NoHeight],
           mempool' \in Seq(Tx), tainted' \in BOOLEAN,
           op' = Idle \/ (Operating' /\ op'.pc # "height" /\ Height < MaxHeight)
    PROVE  Inv'
<1>1. Height' = Height
  BY DEF Height
<1>2. TypeOK'
  BY <1>1 DEF Inv, TypeOK, Operating
<1>3. OpInv'
  BY <1>1 DEF OpInv
<1>4. DownInv'
  BY DEF Inv, DownInv
<1>5. StoreInv'
  BY DEF Inv, StoreInv
<1>6. Recoverable'
  BY DEF Inv, Recoverable, CanRebuild
<1> QED BY <1>2, <1>3, <1>4, <1>5, <1>6 DEF Inv

(* submit_transaction touches the mempool only.                            *)
LEMMA SubmitKeeps ==
    ASSUME Inv, NEW tx \in Tx, submit_transaction(tx)
    PROVE  Inv'
<1>1. /\ up /\ UNCHANGED <<dHeight, dBlocks, blocks, up, crashes, acct, dTxIndex, txIndex, tainted>>
      /\ op' = Idle /\ mempool' = Append(mempool, tx)
  BY DEF submit_transaction, durable, history
<1>2. TypeOK
  BY DEF Inv
<1>3. mempool' \in Seq(Tx)
  BY <1>1, <1>2, AppendProperties DEF TypeOK
<1> QED BY <1>1, <1>2, <1>3, MemoryStep DEF TypeOK

(* mine_block takes the mempool.                                           *)
LEMMA StartMineKeeps ==
    ASSUME Inv, StartMine
    PROVE  Inv'
<1>1. /\ up /\ UNCHANGED <<dHeight, dBlocks, blocks, up, crashes, acct, dTxIndex, txIndex, tainted>>
      /\ op' = Operation("mine", mempool, GenesisHeader, FALSE) /\ mempool' = << >>
      /\ Height < MaxHeight
  BY DEF StartMine, durable, history
<1>2. TypeOK
  BY DEF Inv
<1>3. mempool' \in Seq(Tx) /\ << >> \in Seq(Tx) /\ << >> \in Seq(Msg) /\ mempool \in Seq(Tx)
  BY <1>1, <1>2, EmptySeq DEF TypeOK
<1>4. Operating' /\ op'.pc # "height"
  BY <1>1, <1>3 DEF Operating, Operation
<1> QED BY <1>1, <1>2, <1>3, <1>4, MemoryStep DEF TypeOK

(* Blocks offered by peers carry sequences of transactions.                *)
LEMMA BodiesAreSeqs == BlockBodies \subseteq Seq(Tx)
<1>1. \A m \in 0..MaxBlockTxs : [1..m -> Tx] \subseteq Seq(Tx)
  <2>1. \A m \in 0..MaxBlockTxs : m \in Nat
    BY LedgerAssumption
  <2> QED BY <2>1, SeqDef
<1> QED BY <1>1 DEF BlockBodies, SeqOf

(* apply_block starts only on the next height.                             *)
LEMMA StartApplyKeeps ==
    ASSUME Inv, NEW txs \in BlockBodies, NEW hd, NEW c, StartApply(txs, hd, c)
    PROVE  Inv'
<1>1. /\ up /\ UNCHANGED <<dHeight, dBlocks, blocks, up, crashes, acct, dTxIndex, txIndex, tainted, mempool>>
      /\ op' = Operation("apply", txs, hd, c)
      /\ hd.height = Height + 1 /\ hd.height <= MaxHeight
  BY DEF StartApply, durable, history
<1>2. TypeOK
  BY DEF Inv
<1>3. txs \in Seq(Tx) /\ << >> \in Seq(Tx) /\ << >> \in Seq(Msg)
  BY BodiesAreSeqs, EmptySeq
<1>4. Operating' /\ op'.pc # "height"
  BY <1>1, <1>3 DEF Operating, Operation
<1>5. Height < MaxHeight
  BY <1>1, <1>2, LedgerAssumption DEF TypeOK, Heights
<1> QED BY <1>1, <1>2, <1>4, <1>5, MemoryStep DEF TypeOK

(* What is known of the operation under way. *)
LEMMA BusyFacts ==
    ASSUME Inv, Busy
    PROVE  /\ TypeOK /\ Operating /\ up /\ Height < MaxHeight
           /\ op.todo # << >> => /\ Head(op.todo) \in Tx /\ Tail(op.todo) \in Seq(Tx)
           /\ op.credits # << >> => /\ Head(op.credits) \in Msg /\ Tail(op.credits) \in Seq(Msg)
<1>1. TypeOK /\ Operating /\ up /\ Height < MaxHeight
  BY DEF Inv, OpInv, Busy
<1> QED BY <1>1, HeadTailProperties DEF Operating

(* execute_transaction, first write.                                       *)
LEMMA DebitKeeps ==
    ASSUME Inv, DebitSender
    PROVE  Inv'
<1> DEFINE tx == Head(op.todo)
<1>1. /\ Busy /\ op.pc = "next" /\ op.todo # << >> /\ CanExecute(acct, tx)
      /\ acct' = Debit(acct, tx)
      /\ op' = [op EXCEPT !.pc = "credit", !.credits = tx.msgs]
      /\ UNCHANGED <<dHeight, dBlocks, blocks, up, crashes, dTxIndex, txIndex, tainted, mempool>>
  BY DEF DebitSender, history
<1>2. TypeOK /\ Operating /\ up /\ Height < MaxHeight /\ tx \in Tx
  BY <1>1, BusyFacts
<1>3. tx.msgs \in Seq(Msg) /\ acct' \in [Addr -> Account]
  BY <1>1, <1>2, TxFacts, DebitFacts DEF TypeOK
<1>4. Operating' /\ op'.pc # "height"
  BY <1>1, <1>2, <1>3 DEF Operating
<1> QED BY <1>1, <1>2, <1>3, <1>4, MemoryStep DEF TypeOK

(* execute_transaction, one recipient.                                     *)
LEMMA CreditKeeps ==
    ASSUME Inv, CreditRecipient
    PROVE  Inv'
<1> DEFINE m == Head(op.credits)
<1>1. /\ Busy /\ op.pc = "credit" /\ op.credits # << >>
      /\ acct' = Credit(acct, m)
      /\ op' = [op EXCEPT !.credits = Tail(@)]
      /\ UNCHANGED <<dHeight, dBlocks, blocks, up, crashes, dTxIndex, txIndex, tainted, mempool>>
  BY DEF CreditRecipient, history
<1>2. TypeOK /\ Operating /\ up /\ Height < MaxHeight
      /\ m \in Msg /\ Tail(op.credits) \in Seq(Msg)
  BY <1>1, BusyFacts
<1>3. acct' \in [Addr -> Account]
  BY <1>1, <1>2, CreditFacts DEF TypeOK
<1>4. Operating' /\ op'.pc # "height"
  BY <1>1, <1>2 DEF Operating
<1> QED BY <1>1, <1>2, <1>3, <1>4, MemoryStep DEF TypeOK

(* After a failure mine_block goes on with the next transaction and        *)
(* apply_block is over.                                                    *)
LEMMA AfterFailureOK ==
    ASSUME Inv, Busy, op.todo # << >>, op.pc # "height", op' = AfterFailure
    PROVE  op' = Idle \/ (Operating' /\ op'.pc = "next" /\ op'.done = op.done
                          /\ op.kind = "mine")
<1>1. Operating /\ Tail(op.todo) \in Seq(Tx) /\ << >> \in Seq(Msg)
  BY BusyFacts, EmptySeq
<1>2. CASE op.kind = "mine"
  <2>1. op' = [op EXCEPT !.pc = "next", !.todo = Tail(@), !.credits = << >>]
    BY <1>2 DEF AfterFailure
  <2> QED BY <1>1, <1>2, <2>1 DEF Operating
<1>3. CASE op.kind # "mine"
  BY <1>3 DEF AfterFailure
<1> QED BY <1>2, <1>3

(* A transaction that fails leaves the shape alone.                        *)
LEMMA FailureKeeps ==
    ASSUME Inv, TxInvalid \/ CreditOverflows
    PROVE  Inv'
<1>1. /\ Busy /\ op.pc # "height" /\ op' = AfterFailure
      /\ op.pc = "credit" \/ op.todo # << >>
      /\ UNCHANGED <<acct, dHeight, dBlocks, blocks, up, crashes, dTxIndex, txIndex, mempool>>
      /\ tainted' \in BOOLEAN
  <2>1. Inv => tainted \in BOOLEAN
    BY DEF Inv, TypeOK
  <2> QED BY <2>1 DEF TxInvalid, CreditOverflows, durable
<1>2. TypeOK /\ Operating /\ up /\ Height < MaxHeight
  BY <1>1, BusyFacts
<1>3. op.todo # << >>
  BY <1>1, <1>2 DEF Operating
<1>4. op' = Idle \/ (Operating' /\ op'.pc # "height")
  BY <1>1, <1>3, AfterFailureOK
<1> QED BY <1>1, <1>2, <1>4, MemoryStep DEF TypeOK

(* put_tx_index names a height of the chain.                               *)
LEMMA IndexKeeps ==
    ASSUME Inv, IndexTx
    PROVE  Inv'
<1> DEFINE tx == Head(op.todo)
<1>1. /\ Busy /\ op.pc = "credit" /\ op.credits = << >>
      /\ txIndex' = [txIndex EXCEPT ![tx] = Height + 1]
      /\ dTxIndex' = [dTxIndex EXCEPT ![tx] = Height + 1]
      /\ op' = [op EXCEPT !.pc = "next", !.todo = Tail(@), !.done = Append(@, tx)]
      /\ UNCHANGED <<acct, dHeight, dBlocks, blocks, up, crashes, tainted, mempool>>
  BY DEF IndexTx, history
<1>2. TypeOK /\ Operating /\ up /\ Height < MaxHeight
  BY <1>1, BusyFacts
<1>3. tx \in Tx /\ Tail(op.todo) \in Seq(Tx) /\ Append(op.done, tx) \in Seq(Tx)
  BY <1>1, <1>2, BusyFacts, AppendProperties DEF Operating
<1>4. Height + 1 \in 1..NoHeight
  BY <1>2, LedgerAssumption DEF TypeOK, Heights, NoHeight
<1>5. dTxIndex' \in [Tx -> 1..NoHeight] /\ txIndex' \in [Tx -> 1..NoHeight]
  BY <1>1, <1>2, <1>4 DEF TypeOK
<1>6. Operating' /\ op'.pc # "height"
  BY <1>1, <1>2, <1>3 DEF Operating
<1> QED BY <1>1, <1>2, <1>5, <1>6, MemoryStep DEF TypeOK

(* apply_block gives up on a root that differs.                            *)
LEMMA RejectKeeps ==
    ASSUME Inv, RejectRoots
    PROVE  Inv'
<1>1. /\ Busy /\ op' = Idle
      /\ UNCHANGED <<acct, dHeight, dBlocks, blocks, up, crashes, dTxIndex, txIndex, mempool>>
      /\ tainted' = (tainted \/ Wrote)
  BY DEF RejectRoots, Executed, durable
<1>2. TypeOK /\ up
  BY <1>1, BusyFacts
<1>3. tainted' \in BOOLEAN
  BY <1>1, <1>2 DEF TypeOK, Wrote
<1> QED BY <1>1, <1>2, <1>3, MemoryStep DEF TypeOK

(* Genesis leaves the chain empty; the caches were empty already. *)
LEMMA GenesisKeeps ==
    ASSUME Inv, InitFromGenesis
    PROVE  Inv'
<1>1. /\ ~ up /\ up' /\ dHeight = NoHeight /\ dHeight' = 0 /\ acct' = GenesisState
      /\ UNCHANGED <<dBlocks, dTxIndex, blocks, txIndex, mempool, op, crashes, tainted>>
  BY DEF InitFromGenesis, memory, history
<1>2. TypeOK /\ blocks = << >> /\ op = Idle /\ dBlocks = << >>
  BY <1>1 DEF Inv, DownInv
<1>3. GenesisState \in [Addr -> Account]
  BY LedgerAssumption DEF GenesisState, Account
<1>4. Height' = Height /\ up' \in BOOLEAN /\ 0 \in Heights /\ 0 # NoHeight
  BY <1>1, LedgerAssumption DEF Height, InitFromGenesis, Heights, NoHeight
<1>5. TypeOK'
  BY <1>1, <1>2, <1>3, <1>4 DEF TypeOK
<1>6. OpInv' /\ DownInv' /\ StoreInv'
  BY <1>1, <1>2, <1>4 DEF OpInv, DownInv, StoreInv
<1>7. Recoverable'
  <2>1. 1..0 = {}
    OBVIOUS
  <2>2. blocks' = [h \in 1..dHeight' |-> dBlocks'[h]]
    <3>1. [h \in 1..dHeight' |-> dBlocks'[h]] = << >>
      BY <1>1, <2>1
    <3> QED BY <1>1, <1>2, <3>1
  <2> QED BY <1>1, <2>1, <2>2 DEF Recoverable, CanRebuild
<1> QED BY <1>5, <1>6, <1>7 DEF Inv

(* A restart reads back exactly the chain the store holds. *)
LEMMA RebuildKeeps ==
    ASSUME Inv, RebuildFromStore
    PROVE  Inv'
<1>1. /\ ~ up /\ up' = TRUE /\ dHeight # NoHeight /\ CanRebuild
      /\ blocks' = [h \in 1..dHeight |-> dBlocks[h]]
      /\ mempool' = << >> /\ op' = Idle
      /\ txIndex' = [tx \in Tx |-> IF tx \in TxsOf(blocks') THEN dTxIndex[tx]
                                                            ELSE NoHeight]
      /\ UNCHANGED <<acct, dHeight, dBlocks, dTxIndex, crashes, tainted>>
  BY DEF RebuildFromStore, durable, history
<1>2. TypeOK /\ dHeight \in Heights /\ dHeight \in Nat
  BY <1>1, LedgerAssumption DEF Inv, TypeOK, Heights
<1>3. Height' = dHeight
  <2>1. blocks' = [h \in 1..dHeight |-> blocks'[h]]
    BY <1>1
  <2>2. Len(blocks') = dHeight
    BY <1>2, <2>1, SeqFromFunction
  <2> QED BY <2>2 DEF Height
<1>4. txIndex' \in [Tx -> 1..NoHeight] /\ << >> \in Seq(Tx)
  BY <1>1, <1>2, LedgerAssumption, EmptySeq DEF TypeOK, NoHeight
<1>5. TypeOK'
  BY <1>1, <1>2, <1>3, <1>4 DEF TypeOK
<1>6. OpInv' /\ DownInv' /\ StoreInv'
  BY <1>1 DEF OpInv, DownInv, StoreInv, Inv
<1>7. Recoverable'
  BY <1>1 DEF Recoverable, CanRebuild, Inv
<1> QED BY <1>5, <1>6, <1>7 DEF Inv

(* A crash empties the memory and leaves the store. *)
LEMMA CrashKeeps ==
    ASSUME Inv, Crash
    PROVE  Inv'
<1>1. /\ up /\ up' = FALSE /\ crashes < MaxCrashes /\ crashes' = crashes + 1
      /\ tainted' = (tainted \/ Wrote)
      /\ blocks' = << >> /\ txIndex' = EmptyIndex /\ mempool' = << >> /\ op' = Idle
      /\ UNCHANGED <<acct, dHeight, dBlocks, dTxIndex>>
  BY DEF Crash, durable
<1>2. TypeOK
  BY DEF Inv
<1>3. EmptyIndex \in [Tx -> 1..NoHeight] /\ << >> \in Seq(Tx)
  BY LedgerAssumption, EmptySeq DEF EmptyIndex, NoHeight
<1>4. Height' \in Heights /\ crashes' \in 0..MaxCrashes /\ tainted' \in BOOLEAN
  BY <1>1, <1>2, LedgerAssumption, EmptySeq DEF Height, Heights, TypeOK, Wrote
<1>5. TypeOK'
  BY <1>1, <1>2, <1>3, <1>4 DEF TypeOK
<1>6. OpInv' /\ DownInv' /\ StoreInv'
  BY <1>1 DEF OpInv, DownInv, StoreInv, Inv
<1>7. Recoverable'
  BY <1>1 DEF Recoverable, CanRebuild, Inv
<1> QED BY <1>5, <1>6, <1>7 DEF Inv

(* The block is written one above the height: no committed block changes. *)
LEMMA PutBlockKeeps ==
    ASSUME Inv, PutBlock
    PROVE  Inv'
<1>1. /\ Executed /\ Busy
      /\ dBlocks' = [h \in DOMAIN dBlocks \cup {Height + 1} |->
                       IF h = Height + 1 THEN NewBlock ELSE dBlocks[h]]
      /\ op' = [op EXCEPT !.pc = "height"]
      /\ UNCHANGED <<acct, dHeight, dTxIndex, blocks, txIndex, mempool, up, crashes, tainted>>
  BY DEF PutBlock, Executed, history
<1>2. TypeOK /\ Operating /\ up /\ Height < MaxHeight
  BY <1>1, BusyFacts
<1>3. dHeight \in Nat /\ Height = dHeight
  BY <1>2, UpFacts
<1>4. Operating' /\ NewBlock' = NewBlock /\ Height' = Height
  BY <1>1, <1>2 DEF Operating, Executed, NewBlock, ComputedHeader, Height
<1>5. TypeOK'
  <2>1. DOMAIN dBlocks' \subseteq 1..MaxHeight
    BY <1>1, <1>2, <1>3, LedgerAssumption DEF TypeOK
  <2> QED BY <1>1, <1>2, <1>4, <2>1 DEF TypeOK, Operating
<1>6. OpInv' /\ DownInv'
  BY <1>1, <1>2, <1>4 DEF OpInv, DownInv, Inv
<1>7. IsBlock(NewBlock)
  BY <1>2 DEF IsBlock, NewBlock, Operating
<1>8. StoreInv'
  <2>1. \A h \in DOMAIN dBlocks' : IsBlock(dBlocks'[h])
    BY <1>1, <1>7 DEF StoreInv, Inv
  <2>2. Height + 1 \in DOMAIN dBlocks' /\ dBlocks'[Height + 1] = NewBlock
    BY <1>1
  <2> QED BY <1>4, <2>1, <2>2 DEF StoreInv
<1>9. Recoverable'
  <2>1. /\ \A h \in 1..dHeight : h # Height + 1
        /\ \A h \in 1..dHeight : h # 1 => h - 1 \in 1..dHeight
    BY <1>3
  <2>2. dHeight # NoHeight
    BY <1>2 DEF Inv, DownInv
  <2>3. \A h \in 1..dHeight : h \in DOMAIN dBlocks /\ dBlocks'[h] = dBlocks[h]
    BY <1>1, <2>1, <2>2 DEF Inv, Recoverable, CanRebuild
  <2>4. 1..dHeight \subseteq DOMAIN dBlocks'
    BY <1>1, <2>3
  <2>5. blocks' = [h \in 1..dHeight |-> dBlocks'[h]]
    BY <1>1, <1>2, <2>2, <2>3 DEF Inv, Recoverable
  <2>6. \A h \in 1..dHeight :
           dBlocks'[h].header.parent =
               block_hash(IF h = 1 THEN GenesisHeader ELSE dBlocks'[h - 1].header)
    BY <2>1, <2>2, <2>3 DEF Inv, Recoverable
  <2> QED BY <1>1, <2>4, <2>5, <2>6 DEF Recoverable, CanRebuild
<1> QED BY <1>5, <1>6, <1>8, <1>9 DEF Inv

(* Appending the next element to a table of n elements. *)
LEMMA AppendToTable ==
    ASSUME NEW n \in Nat, NEW f, NEW s, s = [h \in 1..n |-> f[h]]
    PROVE  Append(s, f[n + 1]) = [h \in 1..(n + 1) |-> f[h]]
<1> DEFINE t == [h \in 1..(n + 1) |-> f[h]]
           S == {f[h] : h \in 1..(n + 1)}
<1>1. s \in [1..n -> S] /\ t \in [1..(n + 1) -> S] /\ f[n + 1] \in S
  OBVIOUS
<1>2. s \in Seq(S) /\ t \in Seq(S)
  <2> HIDE DEF S, t
  <2> QED BY <1>1, SeqDef
<1>3. Len(s) = n /\ Len(t) = n + 1
  <2> HIDE DEF S, t
  <2>1. DOMAIN s = 1..n /\ DOMAIN t = 1..(n + 1)
    BY <1>1
  <2>2. Len(s) \in Nat /\ DOMAIN s = 1..Len(s) /\ Len(t) \in Nat /\ DOMAIN t = 1..Len(t)
    BY <1>2, LenProperties
  <2> QED BY <2>1, <2>2
<1>4. /\ Append(s, f[n + 1]) \in Seq(S) /\ Len(Append(s, f[n + 1])) = n + 1
      /\ \A i \in 1..n : Append(s, f[n + 1])[i] = s[i]
      /\ Append(s, f[n + 1])[n + 1] = f[n + 1]
  <2> HIDE DEF S, t
  <2> QED BY <1>1, <1>2, <1>3, AppendProperties
<1>5. \A i \in 1..(n + 1) : Append(s, f[n + 1])[i] = t[i]
  BY <1>4
<1> QED
  <2> HIDE DEF S, t
  <2>1. Append(s, f[n + 1]) = t
    BY <1>2, <1>3, <1>4, <1>5, SeqEqual
  <2> QED BY <2>1 DEF t

(* The fold of mempool.retain.                                             *)
PoolFold == INSTANCE FoldProofs WITH combine <- KeepUnindexed

(* mempool.retain leaves a sequence of transactions.                       *)
LEMMA PoolStays ==
    ASSUME Inv
    PROVE  FoldLeft(KeepUnindexed, << >>, mempool) \in Seq(Tx)
<1>1. mempool \in Seq(Tx)
  BY DEF Inv, TypeOK
<1>2. \A q \in Seq(Tx), tx \in Tx : KeepUnindexed(q, tx) \in Seq(Tx)
  BY AppendProperties DEF KeepUnindexed
<1>3. << >> \in Seq(Tx)
  BY EmptySeq
<1>4. PoolFold!Fold(<< >>, mempool) \in Seq(Tx)
  BY <1>1, <1>2, <1>3, PoolFold!FoldType
<1> QED BY <1>4 DEF PoolFold!Fold, PoolFold!FoldLeft, PoolFold!MapThenFoldSet, PoolFold!Max, Max, FoldLeft, MapThenFoldSet

(* The height is written once its block is there; memory then holds the    *)
(* chain of the store again.                                               *)
LEMMA PutHeightKeeps ==
    ASSUME Inv, PutHeight
    PROVE  Inv'
<1>1. /\ Busy /\ op.pc = "height" /\ dHeight' = Height + 1 /\ op' = Idle
      /\ blocks' = Append(blocks, NewBlock)
      /\ mempool' = (IF op.kind = "mine" THEN mempool
                     ELSE FoldLeft(KeepUnindexed, << >>, mempool))
      /\ UNCHANGED <<acct, dBlocks, dTxIndex, txIndex, up, crashes, tainted>>
  BY DEF PutHeight, history
<1>2. TypeOK /\ Operating /\ up /\ Height < MaxHeight
  BY <1>1, BusyFacts
<1>3. dHeight \in Nat /\ Height = dHeight
  BY <1>2, UpFacts
<1>4. Height + 1 \in DOMAIN dBlocks /\ dBlocks[Height + 1] = NewBlock
  BY <1>1 DEF Inv, StoreInv, Busy
<1>5. /\ dHeight # NoHeight /\ CanRebuild
      /\ blocks = [h \in 1..dHeight |-> dBlocks[h]]
  BY <1>2 DEF Inv, DownInv, Recoverable
<1>6. blocks' = [h \in 1..(dHeight + 1) |-> dBlocks[h]]
  BY <1>1, <1>3, <1>4, <1>5, AppendToTable
<1>7. Height' = dHeight + 1
  <2>1. blocks' = [h \in 1..(dHeight + 1) |-> blocks'[h]]
    BY <1>6
  <2>2. Len(blocks') = dHeight + 1
    BY <1>3, <2>1, SeqFromFunction
  <2> QED BY <2>2 DEF Height
<1>8. dHeight + 1 \in Heights /\ dHeight + 1 # NoHeight
  BY <1>2, <1>3, LedgerAssumption DEF Heights, NoHeight
<1>9. TypeOK'
  <2>1. mempool' \in Seq(Tx)
    BY <1>1, <1>2, PoolStays DEF TypeOK
  <2> QED BY <1>1, <1>2, <1>3, <1>7, <1>8, <2>1 DEF TypeOK
<1>10. OpInv' /\ StoreInv' /\ DownInv'
  BY <1>1, <1>2, <1>3, <1>8 DEF OpInv, StoreInv, DownInv, Inv
<1>11. Recoverable'
  <2>1. 1..(dHeight + 1) \subseteq DOMAIN dBlocks
    BY <1>3, <1>4, <1>5 DEF CanRebuild
  <2>2. dBlocks[dHeight + 1].header.parent =
          block_hash(IF dHeight + 1 = 1 THEN GenesisHeader ELSE dBlocks[dHeight].header)
    <3>1. dBlocks[dHeight + 1].header.parent = block_hash(LatestHeader(blocks))
      BY <1>3, <1>4 DEF NewBlock, ComputedHeader
    <3>2. LatestHeader(blocks) =
            IF dHeight = 0 THEN GenesisHeader ELSE dBlocks[dHeight].header
      BY <1>2, UpFacts
    <3>3. (dHeight + 1 = 1) <=> (dHeight = 0)
      BY <1>3
    <3> QED BY <3>1, <3>2, <3>3
  <2>3. \A h \in 1..dHeight :
           dBlocks[h].header.parent =
               block_hash(IF h = 1 THEN GenesisHeader ELSE dBlocks[h - 1].header)
    BY <1>5 DEF Inv, Recoverable
  <2>4. \A h \in 1..(dHeight + 1) :
           dBlocks[h].header.parent =
               block_hash(IF h = 1 THEN GenesisHeader ELSE dBlocks[h - 1].header)
    <3>1. \A h \in 1..(dHeight + 1) : h \in 1..dHeight \/ h = dHeight + 1
      BY <1>3
    <3>2. (dHeight + 1) - 1 = dHeight
      BY <1>3
    <3> QED BY <2>2, <2>3, <3>1, <3>2
  <2> QED BY <1>1, <1>3, <1>6, <2>1, <2>4 DEF Recoverable, CanRebuild
<1> QED BY <1>9, <1>10, <1>11 DEF Inv

(* A certificate is written: the block keeps its header and transactions.  *)
LEMMA CommitStep ==
    ASSUME Inv, NEW h, set_last_commit(h)
    PROVE  /\ h \in 1..dHeight
           /\ dBlocks' = [dBlocks EXCEPT ![h] = blocks'[h]]
           /\ blocks' = [blocks EXCEPT ![h] = [blocks[h] EXCEPT !.commit = TRUE]]
           /\ DOMAIN dBlocks' = DOMAIN dBlocks
           /\ \A g \in 1..dHeight : blocks'[g] = dBlocks'[g]
           /\ \A g \in DOMAIN dBlocks :
                 /\ IsBlock(dBlocks'[g])
                 /\ dBlocks'[g].header = dBlocks[g].header
                 /\ dBlocks'[g].txs = dBlocks[g].txs
<1>1. /\ up /\ h \in DOMAIN blocks
      /\ blocks' = [blocks EXCEPT ![h] = [blocks[h] EXCEPT !.commit = TRUE]]
      /\ dBlocks' = [dBlocks EXCEPT ![h] = blocks'[h]]
  BY DEF set_last_commit
<1>2. /\ DOMAIN blocks = 1..dHeight
      /\ \A g \in 1..dHeight : blocks[g] = dBlocks[g] /\ g \in DOMAIN dBlocks
  BY <1>1, UpFacts
<1>3. h \in 1..dHeight /\ h \in DOMAIN dBlocks /\ blocks[h] = dBlocks[h]
  BY <1>1, <1>2
<1>4. \A g \in DOMAIN dBlocks : IsBlock(dBlocks[g])
  BY DEF Inv, StoreInv
<1>5. blocks'[h] = [dBlocks[h] EXCEPT !.commit = TRUE]
  BY <1>1, <1>2, <1>3
<1>6. /\ IsBlock(blocks'[h]) /\ blocks'[h].header = dBlocks[h].header
      /\ blocks'[h].txs = dBlocks[h].txs
  <2> DEFINE b == dBlocks[h]
  <2>1. b = [header |-> b.header, txs |-> b.txs, commit |-> b.commit] /\ b.txs \in Seq(Tx)
    BY <1>3, <1>4 DEF IsBlock
  <2>2. blocks'[h] = [header |-> b.header, txs |-> b.txs, commit |-> TRUE]
    BY <1>5, <2>1
  <2> QED BY <2>1, <2>2 DEF IsBlock
<1>7. dBlocks'[h] = blocks'[h] /\ \A g \in DOMAIN dBlocks : g # h => dBlocks'[g] = dBlocks[g]
  BY <1>1, <1>3
<1>8. \A g \in 1..dHeight : g # h => blocks'[g] = blocks[g]
  BY <1>1, <1>2
<1> QED BY <1>1, <1>2, <1>3, <1>4, <1>6, <1>7, <1>8

(* set_last_commit preserves the invariant.                                *)
LEMMA CommitKeeps ==
    ASSUME Inv, NEW h, set_last_commit(h)
    PROVE  Inv'
<1>1. /\ up /\ op = Idle
      /\ UNCHANGED <<acct, dHeight, dTxIndex, txIndex, mempool, op, up, crashes, tainted>>
  BY DEF set_last_commit, history
<1>2. TypeOK /\ dHeight \in Nat /\ Height = dHeight /\ dHeight # NoHeight
      /\ blocks = [g \in 1..dHeight |-> dBlocks[g]]
  BY <1>1, UpFacts DEF Inv, DownInv, Recoverable
<1>3. blocks' = [g \in 1..dHeight |-> dBlocks'[g]]
  BY <1>2, CommitStep
<1>4. Height' = dHeight
  <2>1. blocks' = [g \in 1..dHeight |-> blocks'[g]]
    BY <1>3
  <2>2. Len(blocks') = dHeight
    BY <1>2, <2>1, SeqFromFunction
  <2> QED BY <2>2 DEF Height
<1>5. DOMAIN dBlocks' = DOMAIN dBlocks
  BY CommitStep
<1>6. TypeOK'
  BY <1>1, <1>2, <1>4, <1>5 DEF TypeOK
<1>7. OpInv' /\ DownInv'
  BY <1>1, <1>2 DEF OpInv, DownInv, Inv
<1>8. StoreInv'
  BY <1>1, <1>5, CommitStep DEF StoreInv
<1>9. Recoverable'
  <2>1. 1..dHeight \subseteq DOMAIN dBlocks
    BY <1>2 DEF Inv, Recoverable, CanRebuild
  <2>2. \A g \in 1..dHeight : g # 1 => g - 1 \in 1..dHeight
    BY <1>2
  <2>3. \A g \in 1..dHeight : dBlocks'[g].header = dBlocks[g].header
    BY <2>1, CommitStep
  <2>4. \A g \in 1..dHeight :
           dBlocks'[g].header.parent =
               block_hash(IF g = 1 THEN GenesisHeader ELSE dBlocks'[g - 1].header)
    BY <1>2, <2>2, <2>3 DEF Inv, Recoverable
  <2> QED BY <1>1, <1>3, <1>5, <2>1, <2>4 DEF Recoverable, CanRebuild
<1> QED BY <1>6, <1>7, <1>8, <1>9 DEF Inv

(* So does a step that changes nothing.                                    *)
LEMMA StutterKeeps ==
    ASSUME Inv, UNCHANGED vars
    PROVE  Inv'
<1>1. UNCHANGED <<acct, dHeight, dBlocks, dTxIndex, blocks, txIndex, mempool, op, up, crashes, tainted>>
  BY DEF vars, durable, memory, history
<1> USE <1>1 DEF Inv
<1>2. Height' = Height
  BY DEF Height
<1>3. TypeOK'
  BY <1>2 DEF TypeOK
<1>4. OpInv' /\ DownInv'
  BY <1>2 DEF OpInv, DownInv, Operating, EmptyIndex
<1>5. StoreInv'
  BY <1>2 DEF StoreInv, IsBlock, NewBlock, ComputedHeader
<1>6. Recoverable'
  BY DEF Recoverable, CanRebuild
<1> QED BY <1>3, <1>4, <1>5, <1>6

(* Every step of the ledger preserves the invariant.                       *)
LEMMA StepKeeps == Inv /\ [Next]_vars => Inv'
<1> SUFFICES ASSUME Inv, [Next]_vars PROVE Inv'
  OBVIOUS
<1> QED
  BY GenesisKeeps, RebuildKeeps, CrashKeeps, SubmitKeeps, StartMineKeeps, StartApplyKeeps,
     DebitKeeps, CreditKeeps, FailureKeeps, IndexKeeps, RejectKeeps, PutBlockKeeps,
     PutHeightKeeps, CommitKeeps, StutterKeeps DEF Next

(* The invariant holds in every reachable state of the ledger.             *)
THEOREM Invariance == Spec => []Inv
BY InitInv, StepKeeps, PTL DEF Spec

(* Ledger state is always well typed: tables, caches, mempool and the      *)
(* operation under way hold what the Rust types say.                       *)
THEOREM TypeCorrect == Spec => []TypeOK
<1>1. Inv => TypeOK
  BY DEF Inv
<1> QED BY <1>1, Invariance, PTL

(* rebuild_from_store never finds a hole: at every instant, whatever was   *)
(* crashed or refused half way, the store holds a linked chain up to its   *)
(* height, and a running ledger holds exactly that chain.                  *)
THEOREM AlwaysRecoverable == Spec => []Recoverable
<1>1. Inv => Recoverable
  BY DEF Inv
<1> QED BY <1>1, Invariance, PTL

(* What CommittedImmutable says of a step.                                 *)
Kept ==
    dHeight # NoHeight =>
        /\ dHeight' # NoHeight /\ dHeight' >= dHeight
        /\ \A h \in 1..dHeight :
             /\ dBlocks'[h].header = dBlocks[h].header
             /\ dBlocks'[h].txs = dBlocks[h].txs

(* No step lowers the height or replaces a block at or below it.           *)
LEMMA StepKeepsChain == Inv /\ [Next]_vars => Kept
<1> SUFFICES ASSUME Inv, [Next]_vars, dHeight # NoHeight PROVE Kept
  BY DEF Kept
<1>1. dHeight \in Nat /\ 1..dHeight \subseteq DOMAIN dBlocks
  BY LedgerAssumption DEF Inv, TypeOK, Heights, Recoverable, CanRebuild
<1>2. CASE UNCHANGED <<dHeight, dBlocks>>
  BY <1>1, <1>2 DEF Kept
<1>3. CASE PutBlock
  <2>1. UNCHANGED dHeight /\ Busy
        /\ dBlocks' = [h \in DOMAIN dBlocks \cup {Height + 1} |->
                       IF h = Height + 1 THEN NewBlock ELSE dBlocks[h]]
    BY <1>3 DEF PutBlock, Executed
  <2>2. Height = dHeight
    BY <2>1, BusyFacts, UpFacts
  <2>3. \A h \in 1..dHeight : h # Height + 1
    BY <1>1, <2>2
  <2>4. \A h \in 1..dHeight : dBlocks'[h] = dBlocks[h]
    BY <1>1, <2>1, <2>3
  <2> QED BY <1>1, <2>1, <2>4 DEF Kept
<1>4. CASE PutHeight
  <2>1. dHeight' = Height + 1 /\ UNCHANGED dBlocks /\ Busy
    BY <1>4 DEF PutHeight
  <2>2. Height = dHeight /\ Height < MaxHeight
    BY <2>1, BusyFacts, UpFacts
  <2>3. dHeight' # NoHeight /\ dHeight' >= dHeight
    BY <1>1, <2>1, <2>2, LedgerAssumption DEF NoHeight
  <2> QED BY <2>1, <2>3 DEF Kept
<1>5. ASSUME NEW h, set_last_commit(h) PROVE Kept
  <2>1. UNCHANGED dHeight
    BY <1>5 DEF set_last_commit
  <2> QED BY <1>1, <1>5, <2>1, CommitStep DEF Kept
<1>6. ~ InitFromGenesis
  BY DEF InitFromGenesis
<1> QED
  BY <1>2, <1>3, <1>4, <1>5, <1>6
     DEF Next, vars, durable, RebuildFromStore, Crash, submit_transaction,
         StartMine, StartApply, DebitSender, CreditRecipient, TxInvalid,
         CreditOverflows, IndexTx, RejectRoots

(* Committed blocks never change: the durable height never goes back, and  *)
(* persist_block, a failed block, a restart and set_last_commit all leave  *)
(* header and transactions of the blocks below it alone.                   *)
THEOREM ChainImmutable == Spec => CommittedImmutable
<1>1. Inv /\ [Next]_vars => [Kept]_vars
  BY StepKeepsChain
<1> QED BY <1>1, Invariance, PTL DEF Spec, CommittedImmutable, Kept

-----------------------------------------------------------------------------
(* Part two: replay protection.                                           *)

(* The effects of tx are in the account table: it is indexed, or being     *)
(* paid out. (A crash may lose an applied transaction before its entry:    *)
(* its nonce is spent all the same.)                                       *)
Applied(tx) ==
    \/ dTxIndex[tx] # NoHeight
    \/ Busy /\ op.pc = "credit" /\ tx = Head(op.todo)

(* An applied transaction is below the nonce of its sender.                *)
SpentInv ==
    \A tx \in Tx : tx.nonce < NonceMax /\ Applied(tx) =>
        tx.nonce < acct[tx.sender].nonce

(* A transaction that is being paid out has no entry yet.                  *)
FreshInv ==
    Busy /\ op.pc = "credit" /\ Head(op.todo).nonce < NonceMax =>
        dTxIndex[Head(op.todo)] = NoHeight

(* No transaction occurs twice.                                            *)
Distinct(txs) ==
    \A i, j \in DOMAIN txs :
        txs[i] = txs[j] /\ txs[i].nonce < NonceMax => i = j

(* All of txs have the entry h.                                            *)
IndexedAt(txs, h, index) ==
    \A i \in DOMAIN txs : txs[i].nonce < NonceMax => index[txs[i]] = h

(* The transactions executed so far are distinct and indexed at the height *)
(* of the block to be.                                                     *)
DoneInv ==
    Busy => /\ Distinct(op.done)
            /\ IndexedAt(op.done, Height + 1, dTxIndex)
            /\ IndexedAt(op.done, Height + 1, txIndex)

(* No block holds a transaction twice; a block above the height, left by a *)
(* crash, included.                                                        *)
BlockInv == \A h \in DOMAIN dBlocks : Distinct(dBlocks[h].txs)

(* The inductive invariant of the second part.                             *)
NonceInv == SpentInv /\ FreshInv /\ DoneInv /\ BlockInv /\ IndexAgrees

(* IndexAgrees, a block at a time.                                         *)
LEMMA IndexAgreesForm ==
    IndexAgrees <=> (dHeight # NoHeight =>
                       \A h \in 1..dHeight :
                           /\ IndexedAt(dBlocks[h].txs, h, dTxIndex)
                           /\ up => IndexedAt(dBlocks[h].txs, h, txIndex))
BY DEF IndexAgrees, IndexedAt

(* Nothing executed, nothing to check.                                     *)
LEMMA EmptyDone ==
    Distinct(<< >>) /\ \A h, index : IndexedAt(<< >>, h, index)
BY DEF Distinct, IndexedAt

(* Nothing is applied at first.                                            *)
LEMMA NonceInit == Init => NonceInv
<1> SUFFICES ASSUME Init PROVE NonceInv
  OBVIOUS
<1>1. \A tx \in Tx : dTxIndex[tx] = NoHeight
  BY DEF Init, EmptyIndex
<1> QED BY <1>1 DEF Init, NonceInv, SpentInv, Applied, FreshInv, DoneInv, BlockInv, IndexAgrees, Busy

(* A step that leaves the chain and the indexes alone and lowers no nonce. *)
LEMMA QuietStep ==
    ASSUME Inv, Inv', NonceInv,
           UNCHANGED <<dHeight, dBlocks, dTxIndex, txIndex, blocks, up>>,
           \A a \in Addr : acct'[a].nonce >= acct[a].nonce,
           op' = Idle \/ op'.done = << >> \/ (Busy /\ op'.done = op.done),
           \/ op' = Idle \/ op'.pc # "credit"
           \/ Busy /\ op.pc = "credit" /\ Head(op'.todo) = Head(op.todo)
    PROVE  NonceInv'
<1>1. \A tx \in Tx : Applied(tx)' => Applied(tx)
  BY DEF Applied, Busy, Idle
<1>2. SpentInv'
  <2> SUFFICES ASSUME NEW tx \in Tx, tx.nonce < NonceMax, Applied(tx)'
               PROVE  tx.nonce < acct'[tx.sender].nonce
    BY DEF SpentInv
  <2>1. tx.nonce < acct[tx.sender].nonce
    BY <1>1 DEF NonceInv, SpentInv
  <2>2. tx.sender \in Addr /\ tx.nonce \in Nat
    BY TxFacts
  <2>3. acct[tx.sender].nonce \in Nat /\ acct'[tx.sender].nonce \in Nat
    BY <2>2 DEF Inv, TypeOK, Account
  <2>4. acct'[tx.sender].nonce >= acct[tx.sender].nonce
    BY <2>2
  <2> QED BY <2>1, <2>2, <2>3, <2>4
<1>3. FreshInv'
  BY DEF NonceInv, FreshInv, Busy
<1>4. DoneInv'
  <2>1. Height' = Height
    BY DEF Height
  <2> QED BY <2>1, EmptyDone DEF NonceInv, DoneInv, Busy, IndexedAt
<1>5. BlockInv'
  BY DEF NonceInv, BlockInv
<1>6. IndexAgrees'
  BY DEF NonceInv, IndexAgrees
<1> QED BY <1>2, <1>3, <1>4, <1>5, <1>6 DEF NonceInv

(* The debit: the nonce check refuses an applied transaction, and the new  *)
(* nonce marks this one as applied.                                        *)
LEMMA NonceDebit ==
    ASSUME Inv, Inv', NonceInv, DebitSender
    PROVE  NonceInv'
<1> DEFINE t == Head(op.todo)
<1>1. /\ Busy /\ op.pc = "next" /\ op.todo # << >> /\ CanExecute(acct, t)
      /\ acct' = Debit(acct, t)
      /\ op' = [op EXCEPT !.pc = "credit", !.credits = t.msgs]
      /\ UNCHANGED <<dHeight, dBlocks, blocks, up, dTxIndex, txIndex>>
  BY DEF DebitSender
<1>2. TypeOK /\ TypeOK' /\ Operating /\ t \in Tx
  BY <1>1, BusyFacts DEF Inv
<1>3. /\ t.sender \in Addr /\ t.nonce \in Nat /\ t.nonce = acct[t.sender].nonce
      /\ acct'[t.sender].nonce = NextNonce(acct[t.sender].nonce)
      /\ \A a \in Addr : a # t.sender => acct'[a] = acct[a]
  <2>1. acct \in [Addr -> Account]
    BY <1>2 DEF TypeOK
  <2>2. PICK tx \in Tx : tx = t
    BY <1>2
  <2>3. CanExecute(acct, tx) /\ acct' = Debit(acct, tx)
    BY <1>1, <2>2
  <2>4. tx.sender \in Addr /\ tx.nonce \in Nat
    BY TxFacts
  <2>5. tx.nonce = acct[tx.sender].nonce
    BY <2>3 DEF CanExecute
  <2>6. /\ acct'[tx.sender].nonce = NextNonce(acct[tx.sender].nonce)
        /\ \A a \in Addr : a # tx.sender => acct'[a] = acct[a]
    BY <2>1, <2>3, DebitFacts
  <2> QED BY <2>2, <2>4, <2>5, <2>6
<1>4. op'.todo = op.todo /\ op'.done = op.done /\ op'.pc = "credit"
  BY <1>1, <1>2 DEF Operating
<1>5. t.nonce < NonceMax => dTxIndex[t] = NoHeight
  <2>1. SUFFICES ASSUME t.nonce < NonceMax, dTxIndex[t] # NoHeight PROVE FALSE
    OBVIOUS
  <2>2. t.nonce < acct[t.sender].nonce
    BY <1>2, <2>1 DEF NonceInv, SpentInv, Applied
  <2> QED BY <1>3, <2>2
<1>6. t.nonce < NonceMax => t.nonce < acct'[t.sender].nonce
  BY <1>3, NextNonceNat
<1>7. SpentInv'
  <2> SUFFICES ASSUME NEW tx \in Tx, tx.nonce < NonceMax, Applied(tx)'
               PROVE  tx.nonce < acct'[tx.sender].nonce
    BY DEF SpentInv
  <2>1. CASE tx = t
    BY <1>6, <2>1
  <2>2. CASE tx # t
    <3>1. dTxIndex[tx] # NoHeight
      BY <1>1, <1>4, <2>2 DEF Applied
    <3>2. tx.nonce < acct[tx.sender].nonce /\ tx.sender \in Addr /\ tx.nonce \in Nat
      BY <3>1, TxFacts DEF NonceInv, SpentInv, Applied
    <3>3. acct[tx.sender].nonce \in Nat /\ acct'[tx.sender].nonce \in Nat
      BY <1>2, <3>2 DEF TypeOK, Account
    <3>4. acct'[tx.sender].nonce >= acct[tx.sender].nonce
      <4>1. CASE tx.sender = t.sender
        BY <1>3, <3>3, <4>1, NextNonceNat
      <4>2. CASE tx.sender # t.sender
        BY <1>3, <3>2, <3>3, <4>2
      <4> QED BY <4>1, <4>2
    <3> QED BY <3>2, <3>3, <3>4
  <2> QED BY <2>1, <2>2
<1>8. FreshInv'
  BY <1>1, <1>4, <1>5 DEF FreshInv
<1>9. DoneInv'
  BY <1>1, <1>4 DEF NonceInv, DoneInv, IndexedAt, Height
<1>10. BlockInv' /\ IndexAgrees'
  BY <1>1 DEF NonceInv, BlockInv, IndexAgrees
<1> QED BY <1>7, <1>8, <1>9, <1>10 DEF NonceInv

(* Entering one more transaction leaves the other entries as they were. *)
LEMMA OtherEntries ==
    ASSUME NEW txs \in Seq(Tx), NEW h, NEW index \in [Tx -> 1..NoHeight],
           NEW t \in Tx, NEW k, IndexedAt(txs, h, index),
           \A i \in DOMAIN txs : txs[i].nonce < NonceMax => txs[i] # t
    PROVE  IndexedAt(txs, h, [index EXCEPT ![t] = k])
<1> SUFFICES ASSUME NEW i \in DOMAIN txs, txs[i].nonce < NonceMax
             PROVE  [index EXCEPT ![t] = k][txs[i]] = h
  BY DEF IndexedAt
<1>1. txs[i] \in Tx /\ txs[i] # t /\ index[txs[i]] = h
  BY LenProperties, ElementOfSeq DEF IndexedAt
<1> QED BY <1>1

(* One more executed transaction, not among the earlier ones. *)
LEMMA OneMore ==
    ASSUME NEW txs \in Seq(Tx), NEW h, NEW index \in [Tx -> 1..NoHeight],
           NEW t \in Tx, Distinct(txs), IndexedAt(txs, h, index),
           \A i \in DOMAIN txs : txs[i].nonce < NonceMax => txs[i] # t
    PROVE  /\ Distinct(Append(txs, t))
           /\ IndexedAt(Append(txs, t), h, [index EXCEPT ![t] = h])
<1> DEFINE e == Append(txs, t)
           n == Len(txs)
<1>1. e \in Seq(Tx) /\ Len(e) = n + 1 /\ n \in Nat /\ DOMAIN txs = 1..n
      /\ (\A i \in 1..n : e[i] = txs[i]) /\ e[n + 1] = t
  BY AppendProperties, LenProperties
<1>2. DOMAIN e = 1..(n + 1)
  BY <1>1, LenProperties
<1>3. IndexedAt(txs, h, [index EXCEPT ![t] = h]) /\ [index EXCEPT ![t] = h][t] = h
  BY OtherEntries
<1> HIDE DEF e, n
<1>4. \A i \in 1..(n + 1) : i \in 1..n \/ i = n + 1
  BY <1>1
<1>5. Distinct(e)
  <2> SUFFICES ASSUME NEW i \in 1..(n + 1), NEW j \in 1..(n + 1),
                      e[i] = e[j], e[i].nonce < NonceMax
               PROVE  i = j
    BY <1>2 DEF Distinct
  <2>1. CASE i \in 1..n /\ j \in 1..n
    BY <1>1, <2>1 DEF Distinct
  <2>2. CASE i = n + 1 /\ j \in 1..n
    BY <1>1, <2>2
  <2>3. CASE i \in 1..n /\ j = n + 1
    BY <1>1, <2>3
  <2> QED BY <1>4, <2>1, <2>2, <2>3
<1>6. IndexedAt(e, h, [index EXCEPT ![t] = h])
  BY <1>1, <1>2, <1>3, <1>4 DEF IndexedAt
<1> QED BY <1>5, <1>6 DEF e

(* Indexing: the transaction had no entry, so no entry of a committed or   *)
(* earlier executed transaction is overwritten.                            *)
LEMMA NonceIndex ==
    ASSUME Inv, Inv', NonceInv, IndexTx
    PROVE  NonceInv'
<1> DEFINE t == Head(op.todo)
           H == Height + 1
<1>1. /\ Busy /\ op.pc = "credit" /\ up
      /\ txIndex' = [txIndex EXCEPT ![t] = H]
      /\ dTxIndex' = [dTxIndex EXCEPT ![t] = H]
      /\ op' = [op EXCEPT !.pc = "next", !.todo = Tail(@), !.done = Append(@, t)]
      /\ UNCHANGED <<acct, dHeight, dBlocks, blocks, up>>
  BY BusyFacts DEF IndexTx
<1>2. TypeOK /\ Operating /\ Height < MaxHeight /\ t \in Tx
  BY <1>1, BusyFacts DEF Operating
<1>3. op'.done = Append(op.done, t) /\ op'.pc = "next" /\ Height' = Height
  BY <1>1, <1>2 DEF Operating, Height
<1>4. H # NoHeight /\ H \in Nat
  BY <1>2, LedgerAssumption DEF TypeOK, Heights, NoHeight
<1>5. t.nonce < NonceMax => dTxIndex[t] = NoHeight
  BY <1>1 DEF NonceInv, FreshInv
<1>6. /\ \A tx \in Tx : tx # t => dTxIndex'[tx] = dTxIndex[tx] /\ txIndex'[tx] = txIndex[tx]
      /\ dTxIndex'[t] = H /\ txIndex'[t] = H
  BY <1>1, <1>2 DEF TypeOK
<1>7. SpentInv'
  <2> SUFFICES ASSUME NEW tx \in Tx, tx.nonce < NonceMax, Applied(tx)'
               PROVE  tx.nonce < acct'[tx.sender].nonce
    BY DEF SpentInv
  <2>1. Applied(tx)
    BY <1>1, <1>3, <1>6 DEF Applied
  <2> QED BY <1>1, <2>1 DEF NonceInv, SpentInv
<1>8. FreshInv'
  BY <1>3 DEF FreshInv
<1>9. ASSUME NEW txs \in Seq(Tx), NEW h, h # NoHeight, IndexedAt(txs, h, dTxIndex)
      PROVE  \A i \in DOMAIN txs : txs[i].nonce < NonceMax => txs[i] # t
  BY <1>5, <1>9 DEF IndexedAt
<1>10. DoneInv'
  <2>1. /\ op.done \in Seq(Tx) /\ Distinct(op.done)
        /\ IndexedAt(op.done, H, dTxIndex) /\ IndexedAt(op.done, H, txIndex)
        /\ dTxIndex \in [Tx -> 1..NoHeight] /\ txIndex \in [Tx -> 1..NoHeight]
    BY <1>1, <1>2 DEF Operating, NonceInv, DoneInv, TypeOK
  <2>2. \A i \in DOMAIN op.done : op.done[i].nonce < NonceMax => op.done[i] # t
    BY <1>4, <1>9, <2>1
  <2> HIDE DEF H, t
  <2>3. /\ Distinct(Append(op.done, t))
        /\ IndexedAt(Append(op.done, t), H, [dTxIndex EXCEPT ![t] = H])
    BY <1>2, <2>1, <2>2, OneMore
  <2>4. IndexedAt(Append(op.done, t), H, [txIndex EXCEPT ![t] = H])
    BY <1>2, <2>1, <2>2, OneMore
  <2>5. Height' + 1 = H
    BY <1>3 DEF H
  <2> QED BY <1>1, <1>3, <2>3, <2>4, <2>5 DEF DoneInv
<1>11. BlockInv'
  BY <1>1 DEF NonceInv, BlockInv
<1>12. IndexAgrees'
  <2> SUFFICES ASSUME NEW h \in 1..dHeight, dHeight # NoHeight
                 PROVE  /\ IndexedAt(dBlocks[h].txs, h, dTxIndex')
                        /\ IndexedAt(dBlocks[h].txs, h, txIndex')
    <3>1. IndexAgrees' <=> (dHeight' # NoHeight =>
                       \A h \in 1..dHeight' :
                           /\ IndexedAt(dBlocks'[h].txs, h, dTxIndex')
                           /\ up' => IndexedAt(dBlocks'[h].txs, h, txIndex'))
      BY DEF IndexAgrees, IndexedAt
    <3> QED BY <1>1, <3>1
  <2>2. /\ IndexedAt(dBlocks[h].txs, h, dTxIndex) /\ IndexedAt(dBlocks[h].txs, h, txIndex)
    BY <1>1, IndexAgreesForm DEF NonceInv
  <2>3. dBlocks[h].txs \in Seq(Tx) /\ h # NoHeight
    <3>1. h \in DOMAIN dBlocks
      BY DEF Inv, Recoverable, CanRebuild
    <3>2. h \in 1..MaxHeight
      BY <1>2, <3>1 DEF TypeOK
    <3> QED BY <3>1, <3>2, LedgerAssumption DEF NoHeight, Inv, StoreInv, IsBlock
  <2>4. \A i \in DOMAIN dBlocks[h].txs : dBlocks[h].txs[i].nonce < NonceMax => dBlocks[h].txs[i] # t
    BY <1>9, <2>2, <2>3
  <2> QED BY <1>1, <1>2, <2>2, <2>3, <2>4, OtherEntries DEF TypeOK
<1> QED BY <1>7, <1>8, <1>10, <1>11, <1>12 DEF NonceInv

(* Genesis: nothing is applied.                                            *)
LEMMA NonceGenesis ==
    ASSUME Inv, NonceInv, InitFromGenesis
    PROVE  NonceInv'
<1>1. /\ ~ up /\ dHeight = NoHeight /\ dHeight' = 0
      /\ UNCHANGED <<dBlocks, dTxIndex, op>>
  BY DEF InitFromGenesis, memory
<1>2. op = Idle /\ dBlocks = << >> /\ dTxIndex = EmptyIndex
  BY <1>1 DEF Inv, DownInv
<1>3. \A tx \in Tx : ~ Applied(tx)'
  BY <1>1, <1>2 DEF Applied, Busy, EmptyIndex
<1>4. \A h \in 1..0 : FALSE
  OBVIOUS
<1> QED BY <1>1, <1>2, <1>3, <1>4
     DEF NonceInv, SpentInv, FreshInv, DoneInv, BlockInv, IndexAgrees, Busy

(* A restart reads back the entries of all committed transactions.         *)
LEMMA NonceRebuild ==
    ASSUME Inv, NonceInv, RebuildFromStore
    PROVE  NonceInv'
<1>1. /\ ~ up /\ up' = TRUE /\ dHeight # NoHeight /\ op' = Idle
      /\ blocks' = [h \in 1..dHeight |-> dBlocks[h]]
      /\ txIndex' = [tx \in Tx |-> IF tx \in TxsOf(blocks') THEN dTxIndex[tx]
                                                            ELSE NoHeight]
      /\ UNCHANGED <<acct, dHeight, dBlocks, dTxIndex>>
  BY DEF RebuildFromStore, durable
<1>2. \A tx \in Tx : Applied(tx)' => Applied(tx)
  BY <1>1 DEF Applied, Busy
<1>3. SpentInv'
  BY <1>1, <1>2 DEF NonceInv, SpentInv
<1>4. FreshInv' /\ DoneInv' /\ BlockInv'
  BY <1>1 DEF NonceInv, FreshInv, DoneInv, BlockInv, Busy
<1>5. IndexAgrees'
  <2> SUFFICES ASSUME NEW h \in 1..dHeight, NEW i \in DOMAIN dBlocks[h].txs,
                      dBlocks[h].txs[i].nonce < NonceMax
               PROVE  /\ dTxIndex[dBlocks[h].txs[i]] = h
                      /\ txIndex'[dBlocks[h].txs[i]] = h
    BY <1>1 DEF IndexAgrees
  <2> DEFINE tx == dBlocks[h].txs[i]
  <2>1. dTxIndex[tx] = h
    BY <1>1 DEF NonceInv, IndexAgrees
  <2>2. tx \in Tx
    <3>1. h \in DOMAIN dBlocks
      BY <1>1 DEF Inv, Recoverable, CanRebuild
    <3>2. dBlocks[h].txs \in Seq(Tx)
      BY <3>1 DEF Inv, StoreInv, IsBlock
    <3> QED BY <3>2, LenProperties, ElementOfSeq
  <2>3. tx \in TxsOf(blocks')
    <3>1. h \in DOMAIN blocks' /\ blocks'[h] = dBlocks[h]
      BY <1>1
    <3>2. tx \in Range(blocks'[h].txs)
      BY <3>1 DEF Range
    <3> QED BY <2>2, <3>1, <3>2 DEF TxsOf
  <2> QED BY <1>1, <2>1, <2>2, <2>3
<1> QED BY <1>3, <1>4, <1>5 DEF NonceInv

(* A crash forgets the operation; nonces written stay written.             *)
LEMMA NonceCrash ==
    ASSUME NonceInv, Crash
    PROVE  NonceInv'
<1>1. /\ up' = FALSE /\ op' = Idle
      /\ UNCHANGED <<acct, dHeight, dBlocks, dTxIndex>>
  BY DEF Crash, durable
<1>2. \A tx \in Tx : Applied(tx)' => Applied(tx)
  BY <1>1 DEF Applied, Busy
<1>3. SpentInv'
  BY <1>1, <1>2 DEF NonceInv, SpentInv
<1>4. FreshInv' /\ DoneInv' /\ BlockInv' /\ IndexAgrees'
  BY <1>1 DEF NonceInv, FreshInv, DoneInv, BlockInv, IndexAgrees, Busy
<1> QED BY <1>3, <1>4 DEF NonceInv

(* The new block holds the executed transactions, without repetition.      *)
LEMMA NoncePutBlock ==
    ASSUME Inv, Inv', NonceInv, PutBlock
    PROVE  NonceInv'
<1>1. /\ Busy /\ op.pc = "next"
      /\ dBlocks' = [h \in DOMAIN dBlocks \cup {Height + 1} |->
                       IF h = Height + 1 THEN NewBlock ELSE dBlocks[h]]
      /\ op' = [op EXCEPT !.pc = "height"]
      /\ UNCHANGED <<acct, dHeight, dTxIndex, blocks, txIndex, up>>
  BY DEF PutBlock, Executed
<1>2. Operating /\ up
  BY <1>1, BusyFacts
<1>3. op'.done = op.done /\ op'.pc = "height" /\ op' # Idle /\ Height' = Height
  BY <1>1, <1>2 DEF Operating, Idle, Height
<1>4. \A tx \in Tx : Applied(tx)' => Applied(tx)
  BY <1>1, <1>3 DEF Applied
<1>5. SpentInv' /\ FreshInv'
  BY <1>1, <1>3, <1>4 DEF NonceInv, SpentInv, FreshInv
<1>6. DoneInv'
  BY <1>1, <1>3 DEF NonceInv, DoneInv, Busy
<1>7. BlockInv'
  <2>1. NewBlock.txs = op.done /\ Distinct(op.done)
    BY <1>1 DEF NonceInv, DoneInv, NewBlock
  <2> QED BY <1>1, <2>1 DEF NonceInv, BlockInv
<1>8. IndexAgrees'
  <2>1. dHeight \in Nat /\ Height = dHeight /\ \A h \in 1..dHeight : h \in DOMAIN dBlocks
    BY <1>2, UpFacts
  <2>2. \A h \in 1..dHeight : dBlocks'[h] = dBlocks[h]
    <3>1. \A h \in 1..dHeight : h # Height + 1
      BY <2>1
    <3> QED BY <1>1, <2>1, <3>1
  <2>3. UNCHANGED <<dHeight, dTxIndex, txIndex, up>>
    BY <1>1
  <2>4. IndexAgrees
    BY DEF NonceInv
  <2> QED BY <2>2, <2>3, <2>4 DEF IndexAgrees
<1> QED BY <1>5, <1>6, <1>7, <1>8 DEF NonceInv

(* The new block becomes committed: its transactions are indexed at it.    *)
LEMMA NoncePutHeight ==
    ASSUME Inv, Inv', NonceInv, PutHeight
    PROVE  NonceInv'
<1>1. /\ Busy /\ op.pc = "height" /\ dHeight' = Height + 1 /\ op' = Idle
      /\ UNCHANGED <<acct, dBlocks, dTxIndex, txIndex, up>>
  BY DEF PutHeight
<1>2. up /\ dHeight # NoHeight
  BY <1>1, BusyFacts DEF Inv, DownInv
<1>3. \A tx \in Tx : Applied(tx)' => Applied(tx)
  BY <1>1 DEF Applied, Busy
<1>4. SpentInv' /\ FreshInv' /\ DoneInv' /\ BlockInv'
  BY <1>1, <1>3 DEF NonceInv, SpentInv, FreshInv, DoneInv, BlockInv, Busy
<1>5. IndexAgrees'
  <2>1. dHeight \in Nat /\ Height = dHeight
    BY <1>2, UpFacts
  <2>2. dBlocks[dHeight + 1].txs = op.done
    BY <1>1, <2>1 DEF Inv, StoreInv, NewBlock, Busy
  <2>3. /\ IndexedAt(op.done, dHeight + 1, dTxIndex)
        /\ IndexedAt(op.done, dHeight + 1, txIndex)
    BY <1>1, <2>1 DEF NonceInv, DoneInv
  <2>4. \A h \in 1..dHeight : /\ IndexedAt(dBlocks[h].txs, h, dTxIndex)
                              /\ IndexedAt(dBlocks[h].txs, h, txIndex)
    BY <1>2, IndexAgreesForm DEF NonceInv
  <2>5. \A h \in 1..(dHeight + 1) : h \in 1..dHeight \/ h = dHeight + 1
    BY <2>1
  <2>6. \A h \in 1..(dHeight + 1) : /\ IndexedAt(dBlocks[h].txs, h, dTxIndex)
                                    /\ IndexedAt(dBlocks[h].txs, h, txIndex)
    BY <2>2, <2>3, <2>4, <2>5
  <2> QED BY <1>1, <1>2, <2>1, <2>6 DEF IndexAgrees, IndexedAt
<1> QED BY <1>4, <1>5 DEF NonceInv

(* A certificate changes no transactions.                                  *)
LEMMA NonceCommit ==
    ASSUME Inv, Inv', NonceInv, NEW h, set_last_commit(h)
    PROVE  NonceInv'
<1>1. up /\ op' = Idle /\ UNCHANGED <<acct, dHeight, dTxIndex, txIndex, up, op>>
  BY DEF set_last_commit
<1>2. /\ DOMAIN dBlocks' = DOMAIN dBlocks
      /\ \A g \in DOMAIN dBlocks : dBlocks'[g].txs = dBlocks[g].txs
  BY CommitStep
<1>3. dHeight # NoHeight => \A g \in 1..dHeight : g \in DOMAIN dBlocks
  BY DEF Inv, Recoverable, CanRebuild
<1>4. SpentInv' /\ FreshInv' /\ DoneInv'
  BY <1>1 DEF NonceInv, SpentInv, FreshInv, DoneInv, Busy, Applied
<1>5. BlockInv'
  BY <1>2 DEF NonceInv, BlockInv
<1>6. IndexAgrees'
  BY <1>1, <1>2, <1>3 DEF NonceInv, IndexAgrees
<1> QED BY <1>4, <1>5, <1>6 DEF NonceInv

(* The steps that touch neither an index nor a nonce. *)
LEMMA NonceQuiet ==
    ASSUME Inv, Inv', NonceInv,
           \/ \E tx \in Tx : submit_transaction(tx)
           \/ StartMine
           \/ \E txs, hd, c : StartApply(txs, hd, c)
           \/ TxInvalid \/ CreditOverflows \/ RejectRoots
           \/ UNCHANGED vars
    PROVE  NonceInv'
<1>1. UNCHANGED <<acct, dHeight, dBlocks, dTxIndex, txIndex, blocks, up>>
  BY DEF submit_transaction, StartMine, StartApply, TxInvalid, CreditOverflows,
         RejectRoots, vars, durable, memory
<1>2. \A a \in Addr : acct'[a].nonce >= acct[a].nonce
  <2>1. \A a \in Addr : acct[a].nonce \in Nat
    BY DEF Inv, TypeOK, Account
  <2> QED BY <1>1, <2>1
<1>3. /\ op' = Idle \/ op'.done = << >> \/ (Busy /\ op'.done = op.done)
      /\ \/ op' = Idle \/ op'.pc # "credit"
         \/ Busy /\ op.pc = "credit" /\ Head(op'.todo) = Head(op.todo)
  <2>1. CASE \E tx \in Tx : submit_transaction(tx)
    BY <2>1 DEF submit_transaction
  <2>2. CASE StartMine \/ \E txs, hd, c : StartApply(txs, hd, c)
    BY <2>2 DEF StartMine, StartApply, Operation
  <2>3. CASE TxInvalid \/ CreditOverflows
    <3>1. Busy /\ op.pc # "height" /\ op' = AfterFailure
          /\ (op.pc = "credit" \/ op.todo # << >>)
      BY <2>3 DEF TxInvalid, CreditOverflows
    <3>2. op.todo # << >>
      BY <3>1, BusyFacts DEF Operating
    <3> QED BY <3>1, <3>2, AfterFailureOK
  <2>4. CASE RejectRoots
    BY <2>4 DEF RejectRoots
  <2>5. CASE UNCHANGED vars
    BY <2>5 DEF vars, memory, Busy
  <2> QED BY <2>1, <2>2, <2>3, <2>4, <2>5
<1> QED BY <1>1, <1>2, <1>3, QuietStep

(* Paying a recipient changes no nonce.                                    *)
LEMMA NonceCredit ==
    ASSUME Inv, Inv', NonceInv, CreditRecipient
    PROVE  NonceInv'
<1>1. /\ Busy /\ op.pc = "credit" /\ op.credits # << >>
      /\ acct' = Credit(acct, Head(op.credits))
      /\ op' = [op EXCEPT !.credits = Tail(@)]
      /\ UNCHANGED <<dHeight, dBlocks, blocks, up, dTxIndex, txIndex>>
  BY DEF CreditRecipient
<1>2. TypeOK /\ Operating /\ Head(op.credits) \in Msg
  BY <1>1, BusyFacts
<1>3. \A a \in Addr : acct'[a].nonce >= acct[a].nonce
  <2>1. \A a \in Addr : acct'[a].nonce = acct[a].nonce /\ acct[a].nonce \in Nat
    BY <1>1, <1>2, CreditFacts DEF TypeOK, Account
  <2> QED BY <2>1
<1>4. op'.done = op.done /\ op'.todo = op.todo
  BY <1>1, <1>2 DEF Operating
<1> QED BY <1>1, <1>3, <1>4, QuietStep

(* Every step preserves what nonces and indexes say.                       *)
LEMMA NonceStep == Inv /\ Inv' /\ NonceInv /\ [Next]_vars => NonceInv'
<1> SUFFICES ASSUME Inv, Inv', NonceInv, [Next]_vars PROVE NonceInv'
  OBVIOUS
<1> QED
  BY NonceGenesis, NonceRebuild, NonceCrash, NonceQuiet, NonceDebit, NonceCredit,
     NonceIndex, NoncePutBlock, NoncePutHeight, NonceCommit DEF Next

(* Nonces and indexes agree about applied transactions in every reachable  *)
(* state.                                                                  *)
THEOREM NoncesInvariance == Spec => []NonceInv
BY NonceInit, NonceStep, Invariance, PTL DEF Spec

(* tx_index and the store answer for every committed transaction with the  *)
(* height of its block: entries left by failed or crashed blocks never     *)
(* replace such an answer.                                                 *)
THEOREM IndexesAgree == Spec => []IndexAgrees
<1>1. NonceInv => IndexAgrees
  BY DEF NonceInv
<1> QED BY <1>1, NoncesInvariance, PTL

(* A transaction in two places would have two index entries, or one block  *)
(* would hold it twice.                                                    *)
LEMMA NoReplayFollows == Inv /\ NonceInv => NoReplay
<1> SUFFICES ASSUME Inv, NonceInv,
                    NEW g \in DOMAIN blocks, NEW h \in DOMAIN blocks,
                    NEW i \in DOMAIN blocks[g].txs, NEW j \in DOMAIN blocks[h].txs,
                    blocks[g].txs[i] = blocks[h].txs[j],
                    blocks[g].txs[i].nonce < NonceMax
             PROVE  g = h /\ i = j
  BY DEF NoReplay
<1>1. up
  BY DEF Inv, DownInv
<1>2. /\ dHeight # NoHeight /\ g \in 1..dHeight /\ h \in 1..dHeight
      /\ blocks[g] = dBlocks[g] /\ blocks[h] = dBlocks[h] /\ g \in DOMAIN dBlocks
  BY <1>1, UpFacts DEF Inv, DownInv
<1>3. dTxIndex[blocks[g].txs[i]] = g /\ dTxIndex[blocks[h].txs[j]] = h
  BY <1>2 DEF NonceInv, IndexAgrees
<1>4. g = h
  BY <1>3
<1>5. Distinct(blocks[g].txs)
  BY <1>2 DEF NonceInv, BlockInv
<1> QED BY <1>4, <1>5 DEF Distinct

(* No transaction is included twice in the chain, whatever was crashed,    *)
(* refused half way or mined again: the nonce check is enough.             *)
THEOREM ReplayProtection == Spec => []NoReplay
BY NoReplayFollows, Invariance, NoncesInvariance, PTL

-----------------------------------------------------------------------------
(* Part three: money.                                                     *)

(* No messages move nothing.                                               *)
LEMMA AmountOfEmpty == AmountOf(<< >>) = 0
<1>1. DOMAIN << >> = {}
  OBVIOUS
<1> QED BY <1>1, SumEmpty DEF AmountOf

(* Paying the first message leaves the rest.                               *)
LEMMA AmountOfHead ==
    ASSUME NEW msgs \in Seq(Msg), msgs # << >>
    PROVE  AmountOf(msgs) = Head(msgs).amount + AmountOf(Tail(msgs))
<1> DEFINE n == Len(msgs) - 1
           r == Tail(msgs)
           f == [i \in DOMAIN msgs |-> msgs[i].amount]
           g == [i \in DOMAIN r |-> r[i].amount]
<1>1. /\ Len(msgs) \in Nat /\ DOMAIN msgs = 1..Len(msgs) /\ Len(msgs) # 0
      /\ \A i \in 1..Len(msgs) : msgs[i] \in Msg
  BY LenProperties, ElementOfSeq, EmptySeq
<1>2. /\ r \in Seq(Msg) /\ Len(r) = Len(msgs) - 1 /\ Head(msgs) = msgs[1]
      /\ \A i \in 1..Len(r) : r[i] = msgs[i + 1]
  BY HeadTailProperties
<1>3. DOMAIN r = 1..Len(r)
  BY <1>2, LenProperties
<1> HIDE DEF r
<1>4. n \in Nat /\ DOMAIN msgs = 1..n + 1 /\ DOMAIN r = 1..n /\ 1 \in 1..n + 1
  BY <1>1, <1>2, <1>3
<1> HIDE DEF n
<1>5. \A i \in 1..n + 1 : f[i] \in Nat /\ f[i] = msgs[i].amount
  BY <1>1, <1>4 DEF Msg
<1>6. \A i \in 1..n : g[i] = f[i + 1]
  <2>1. \A i \in 1..n : i + 1 \in 1..n + 1
    BY <1>4
  <2> QED BY <1>2, <1>3, <1>4, <1>5, <2>1
<1> HIDE DEF f, g
<1>7. Sum(f, 1..n + 1) = f[1] + Sum(g, 1..n)
  BY <1>4, <1>5, <1>6, SumShift
<1> QED BY <1>2, <1>4, <1>5, <1>7 DEF AmountOf, f, g, r

(* The fee taken for each transaction.                                     *)
FeeOf == [tx \in Tx |-> IF Applied(tx) THEN tx.fee ELSE 0]

(* The fees taken, as a sum over the applied transactions.                 *)
LEMMA FeesForm ==
    ASSUME TRUE
    PROVE  /\ FeesTaken = Sum(FeeOf, Tx)
           /\ \A tx \in Tx : FeeOf[tx] \in Nat
BY TxFacts DEF FeesTaken, FeeOf, Applied

(* The balance of each account.                                            *)
BalanceOf == [a \in Addr |-> acct[a].balance]

(* The supply, as a sum of balances.                                       *)
LEMMA SupplyForm ==
    ASSUME TypeOK
    PROVE  Supply = Sum(BalanceOf, Addr) /\ \A a \in Addr : BalanceOf[a] \in Nat
BY DEF Supply, BalanceOf, TypeOK, Account

(* The three amounts are naturals.                                         *)
LEMMA TotalNat ==
    ASSUME Inv
    PROVE  Supply \in Nat /\ InFlight \in Nat /\ FeesTaken \in Nat
<1>1. Supply \in Nat
  BY SupplyForm, SumNat, LedgerAssumption DEF Inv
<1>2. FeesTaken \in Nat
  BY FeesForm, SumNat, LedgerAssumption
<1>3. InFlight \in Nat
  BY AmountOfNat, BusyFacts DEF InFlight, Operating
<1> QED BY <1>1, <1>2, <1>3

(* No transaction changes between applied and not applied. *)
LEMMA SameFees ==
    ASSUME \A tx \in Tx : Applied(tx)' <=> Applied(tx)
    PROVE  FeesTaken' = FeesTaken
<1>1. FeeOf' = FeeOf
  BY DEF FeeOf
<1>2. FeesTaken' = Sum(FeeOf', Tx) /\ FeesTaken = Sum(FeeOf, Tx)
  BY FeesForm DEF FeesTaken, FeeOf, Applied
<1> QED BY <1>1, <1>2

(* Only t may change: the fees differ by at most its fee. *)
LEMMA OneFee ==
    ASSUME NEW t \in Tx,
           \A tx \in Tx : tx # t => (Applied(tx)' <=> Applied(tx))
    PROVE  /\ FeesTaken' \in Nat /\ FeesTaken \in Nat
           /\ FeesTaken' + (IF Applied(t) THEN t.fee ELSE 0)
                = FeesTaken + (IF Applied(t)' THEN t.fee ELSE 0)
<1> DEFINE f == FeeOf
           g == [tx \in Tx |-> IF Applied(tx)' THEN tx.fee ELSE 0]
<1>1. FeesTaken' = Sum(g, Tx) /\ FeesTaken = Sum(f, Tx)
  BY FeesForm DEF FeesTaken, FeeOf, Applied
<1>2. /\ \A tx \in Tx : f[tx] \in Nat /\ g[tx] \in Nat
      /\ \A tx \in Tx \ {t} : f[tx] = g[tx]
      /\ f[t] = IF Applied(t) THEN t.fee ELSE 0
      /\ g[t] = IF Applied(t)' THEN t.fee ELSE 0
  BY TxFacts DEF FeeOf
<1> HIDE DEF f, g
<1>3. Sum(f, Tx) + g[t] = Sum(g, Tx) + f[t]
  BY <1>2, SumChange, LedgerAssumption
<1>4. Sum(f, Tx) \in Nat /\ Sum(g, Tx) \in Nat
  BY <1>2, SumNat, LedgerAssumption
<1> QED BY <1>1, <1>2, <1>3, <1>4

(* Only the balance of a changes. *)
LEMMA OneBalance ==
    ASSUME TypeOK, TypeOK', NEW a \in Addr,
           \A b \in Addr : b # a => acct'[b].balance = acct[b].balance
    PROVE  Supply + acct'[a].balance = Supply' + acct[a].balance
<1> DEFINE f == BalanceOf
           g == [b \in Addr |-> acct'[b].balance]
<1>1. Supply' = Sum(g, Addr) /\ Supply = Sum(f, Addr)
  BY SupplyForm DEF Supply
<1>2. /\ \A b \in Addr : f[b] \in Nat /\ g[b] \in Nat
      /\ \A b \in Addr \ {a} : f[b] = g[b]
      /\ f[a] = acct[a].balance /\ g[a] = acct'[a].balance
  BY DEF BalanceOf, TypeOK, Account
<1> HIDE DEF f, g
<1>3. Sum(f, Addr) + g[a] = Sum(g, Addr) + f[a]
  BY <1>2, SumChange, LedgerAssumption
<1> QED BY <1>1, <1>2, <1>3

(* Credits wait only while a transaction is being paid out. *)
LEMMA NothingInFlight ==
    ASSUME Inv, op = Idle \/ op.pc # "credit" \/ op.credits = << >>
    PROVE  InFlight = 0
BY BusyFacts, AmountOfEmpty DEF InFlight, Operating, Busy

(* The same facts in the next state. *)
AmountsAreNat == Supply \in Nat /\ InFlight \in Nat /\ FeesTaken \in Nat

(* They are in the next state too.                                         *)
LEMMA TotalNatNext == Inv' => AmountsAreNat'
<1>1. Inv => AmountsAreNat
  BY TotalNat DEF AmountsAreNat
<1> QED BY <1>1, PTL

(* Nothing is in flight unless a recipient is still to be paid.            *)
SettledMeansNone ==
    op = Idle \/ op.pc # "credit" \/ op.credits = << >> => InFlight = 0

(* Nor in the next state.                                                  *)
LEMMA NothingInFlightNext == Inv' => SettledMeansNone'
<1>1. Inv => SettledMeansNone
  BY NothingInFlight DEF SettledMeansNone
<1> QED BY <1>1, PTL

(* The debit moves money into flight and into fees. A transaction at the   *)
(* largest nonce may be applied again: its second fee is counted in no     *)
(* account.                                                                *)
LEMMA TotalDebit ==
    ASSUME Inv, Inv', NonceInv, DebitSender
    PROVE  /\ Total' <= Total
           /\ Head(op.todo).nonce < NonceMax => Total' = Total
<1>0. PICK t \in Tx : t = Head(op.todo)
  BY BusyFacts DEF DebitSender
<1>1. /\ Busy /\ op.pc = "next" /\ op.todo # << >> /\ CanExecute(acct, t)
      /\ acct' = Debit(acct, t)
      /\ op' = [op EXCEPT !.pc = "credit", !.credits = t.msgs]
      /\ UNCHANGED dTxIndex
  BY <1>0 DEF DebitSender
<1>2. TypeOK /\ TypeOK' /\ Operating
  BY <1>1, BusyFacts DEF Inv
<1>3. /\ t.sender \in Addr /\ t.nonce \in Nat /\ t.fee \in Nat /\ TransferTotal(t) \in Nat
      /\ t.nonce = acct[t.sender].nonce
      /\ acct[t.sender].balance = acct'[t.sender].balance + TransferTotal(t) + t.fee
      /\ \A a \in Addr : a # t.sender => acct'[a] = acct[a]
      /\ acct[t.sender].balance \in Nat /\ acct'[t.sender].balance \in Nat
  <2>1. /\ t.sender \in Addr /\ t.nonce \in Nat /\ t.fee \in Nat /\ TransferTotal(t) \in Nat
        /\ t.nonce = acct[t.sender].nonce
    BY <1>1, TxFacts DEF CanExecute
  <2>2. acct \in [Addr -> Account] /\ acct' \in [Addr -> Account]
    BY <1>2 DEF TypeOK
  <2>3. /\ acct[t.sender].balance = acct'[t.sender].balance + TransferTotal(t) + t.fee
        /\ \A a \in Addr : a # t.sender => acct'[a] = acct[a]
    BY <1>1, <2>2, DebitFacts
  <2> QED BY <2>1, <2>2, <2>3 DEF Account
<1>4. op'.todo = op.todo /\ op'.pc = "credit" /\ op'.credits = t.msgs /\ op' # Idle
  BY <1>1, <1>2 DEF Operating, Idle
<1>5. Supply + acct'[t.sender].balance = Supply' + acct[t.sender].balance
  BY <1>2, <1>3, OneBalance
<1>6. InFlight = 0 /\ InFlight' = TransferTotal(t)
  BY <1>0, <1>1, <1>4, NothingInFlight DEF InFlight, Busy, TransferTotal
<1>7. /\ FeesTaken' \in Nat /\ FeesTaken \in Nat
      /\ FeesTaken' + (IF Applied(t) THEN t.fee ELSE 0) = FeesTaken + t.fee
  <2>1. \A tx \in Tx : tx # t => (Applied(tx)' <=> Applied(tx))
    BY <1>0, <1>1, <1>4 DEF Applied, Busy
  <2>2. Applied(t)'
    BY <1>0, <1>1, <1>4 DEF Applied, Busy
  <2> QED BY <2>1, <2>2, OneFee
<1>8. t.nonce < NonceMax => ~ Applied(t)
  <2>1. Applied(t) /\ t.nonce < NonceMax => t.nonce < acct[t.sender].nonce
    BY DEF NonceInv, SpentInv
  <2> QED BY <1>3, <2>1
<1>9. Supply \in Nat /\ Supply' \in Nat
  BY TotalNat, TotalNatNext DEF AmountsAreNat
<1>10. CASE Applied(t)
  BY <1>0, <1>3, <1>5, <1>6, <1>7, <1>8, <1>9, <1>10 DEF Total
<1>11. CASE ~ Applied(t)
  BY <1>3, <1>5, <1>6, <1>7, <1>9, <1>11 DEF Total
<1> QED BY <1>10, <1>11

(* Paying a recipient moves money out of flight.                           *)
LEMMA TotalCredit ==
    ASSUME Inv, Inv', CreditRecipient
    PROVE  Total' = Total
<1> DEFINE m == Head(op.credits)
<1>1. /\ Busy /\ op.pc = "credit" /\ op.credits # << >>
      /\ acct' = Credit(acct, m)
      /\ op' = [op EXCEPT !.credits = Tail(@)]
      /\ UNCHANGED dTxIndex
  BY DEF CreditRecipient
<1>2. TypeOK /\ TypeOK' /\ Operating /\ m \in Msg
  BY <1>1, BusyFacts DEF Inv
<1>3. /\ m.to \in Addr /\ m.amount \in Nat
      /\ acct'[m.to].balance = acct[m.to].balance + m.amount
      /\ \A a \in Addr : a # m.to => acct'[a] = acct[a]
      /\ acct[m.to].balance \in Nat
  <2>1. m.to \in Addr /\ m.amount \in Nat
    BY <1>2 DEF Msg
  <2>2. acct \in [Addr -> Account]
    BY <1>2 DEF TypeOK
  <2>3. /\ acct'[m.to].balance = acct[m.to].balance + m.amount
        /\ \A a \in Addr : a # m.to => acct'[a] = acct[a]
    BY <1>1, <1>2, <2>2, CreditFacts
  <2> QED BY <2>1, <2>2, <2>3 DEF Account
<1>4. op'.todo = op.todo /\ op'.pc = op.pc /\ op'.credits = Tail(op.credits) /\ op' # Idle
  BY <1>1, <1>2 DEF Operating, Idle
<1>5. Supply + acct'[m.to].balance = Supply' + acct[m.to].balance
  BY <1>2, <1>3, OneBalance
<1>6. InFlight = m.amount + InFlight'
  BY <1>1, <1>2, <1>4, AmountOfHead DEF InFlight, Busy, Operating
<1>7. FeesTaken' = FeesTaken
  <2>1. \A tx \in Tx : Applied(tx)' <=> Applied(tx)
    BY <1>1, <1>4 DEF Applied, Busy
  <2> QED BY <2>1, SameFees
<1>8. Supply \in Nat /\ Supply' \in Nat /\ InFlight \in Nat /\ InFlight' \in Nat /\ FeesTaken \in Nat
  BY TotalNat, TotalNatNext DEF AmountsAreNat
<1> HIDE DEF m
<1> QED BY <1>3, <1>5, <1>6, <1>7, <1>8 DEF Total

(* Indexing moves nothing.                                                 *)
LEMMA TotalIndex ==
    ASSUME Inv, Inv', IndexTx
    PROVE  Total' = Total
<1> DEFINE t == Head(op.todo)
<1>1. /\ Busy /\ op.pc = "credit" /\ op.credits = << >>
      /\ dTxIndex' = [dTxIndex EXCEPT ![t] = Height + 1]
      /\ op' = [op EXCEPT !.pc = "next", !.todo = Tail(@), !.done = Append(@, t)]
      /\ UNCHANGED acct
  BY DEF IndexTx
<1>2. TypeOK /\ Operating /\ Height < MaxHeight /\ t \in Tx
  BY <1>1, BusyFacts DEF Operating
<1>3. op'.pc = "next" /\ op'.credits = << >>
  BY <1>1, <1>2 DEF Operating
<1>4. Height + 1 # NoHeight
  BY <1>2, LedgerAssumption DEF TypeOK, Heights, NoHeight
<1>5. /\ \A tx \in Tx : tx # t => dTxIndex'[tx] = dTxIndex[tx]
      /\ dTxIndex'[t] # NoHeight
  BY <1>1, <1>2, <1>4 DEF TypeOK
<1>6. FeesTaken' = FeesTaken
  <2>1. \A tx \in Tx : Applied(tx)' <=> Applied(tx)
    BY <1>1, <1>3, <1>5 DEF Applied
  <2> QED BY <2>1, SameFees
<1>7. InFlight = 0 /\ InFlight' = 0
  BY <1>1, <1>3, NothingInFlight, NothingInFlightNext DEF SettledMeansNone
<1>8. Supply' = Supply
  BY <1>1 DEF Supply
<1> QED BY <1>6, <1>7, <1>8 DEF Total

(* The operation is cut off: what was in flight, and the fee of the        *)
(* transaction under way, are in no account.                               *)
LEMMA TotalCut ==
    ASSUME Inv, Inv', Crash \/ CreditOverflows
    PROVE  Total' <= Total
<1>1. /\ UNCHANGED <<acct, dTxIndex>>
      /\ op' = Idle \/ op'.pc = "next"
  <2>1. CASE Crash
    BY <2>1 DEF Crash, durable
  <2>2. CASE CreditOverflows
    <3>1. Busy /\ op.pc = "credit" /\ op' = AfterFailure /\ UNCHANGED <<acct, dTxIndex>>
      BY <2>2 DEF CreditOverflows, durable
    <3>2. op.todo # << >>
      BY <3>1, BusyFacts DEF Operating
    <3> QED BY <3>1, <3>2, AfterFailureOK
  <2> QED BY <2>1, <2>2
<1>2. Supply' = Supply
  BY <1>1 DEF Supply
<1>3. InFlight' = 0
  BY <1>1, NothingInFlightNext DEF SettledMeansNone
<1>4. FeesTaken' <= FeesTaken
  <2>2. CASE Busy /\ op.pc = "credit"
    <3>1. PICK t \in Tx : t = Head(op.todo)
      BY <2>2, BusyFacts DEF Operating
    <3>2. \A tx \in Tx : tx # t => (Applied(tx)' <=> Applied(tx))
      BY <1>1, <2>2, <3>1 DEF Applied, Busy
    <3>3. /\ FeesTaken' \in Nat /\ FeesTaken \in Nat
          /\ FeesTaken' + (IF Applied(t) THEN t.fee ELSE 0)
               = FeesTaken + (IF Applied(t)' THEN t.fee ELSE 0)
      BY <3>2, OneFee
    <3>4. t.fee \in Nat
      BY TxFacts
    <3>5. CASE Applied(t) /\ Applied(t)'
      BY <3>3, <3>4, <3>5
    <3>6. CASE Applied(t) /\ ~ Applied(t)'
      BY <3>3, <3>4, <3>6
    <3>7. Applied(t)
      BY <2>2, <3>1 DEF Applied
    <3> QED BY <3>5, <3>6, <3>7
  <2>3. CASE ~ (Busy /\ op.pc = "credit")
    <3>1. \A tx \in Tx : Applied(tx)' <=> Applied(tx)
      BY <1>1, <2>3 DEF Applied, Busy
    <3>2. FeesTaken' = FeesTaken
      BY <3>1, SameFees
    <3> QED BY <3>2, TotalNat
  <2> QED BY <2>2, <2>3
<1>5. /\ Supply \in Nat /\ InFlight \in Nat /\ FeesTaken \in Nat /\ FeesTaken' \in Nat
  BY TotalNat, TotalNatNext DEF AmountsAreNat
<1>6. Total' = Supply + FeesTaken'
  BY <1>2, <1>3, <1>5 DEF Total
<1> QED BY <1>4, <1>5, <1>6 DEF Total

(* Every other step moves no money. *)
LEMMA TotalQuiet ==
    ASSUME Inv, Inv', UNCHANGED <<acct, dTxIndex>>,
           op = Idle \/ op.pc # "credit", op' = Idle \/ op'.pc # "credit"
    PROVE  Total' = Total
<1>1. Supply' = Supply
  BY DEF Supply
<1>2. InFlight = 0 /\ InFlight' = 0
  BY NothingInFlight, NothingInFlightNext DEF SettledMeansNone
<1>3. \A tx \in Tx : Applied(tx)' <=> Applied(tx)
  BY DEF Applied, Busy
<1>4. FeesTaken' = FeesTaken
  BY <1>3, SameFees
<1> QED BY <1>1, <1>2, <1>4 DEF Total

(* None of the other operations writes an account.                         *)
LEMMA TotalOther ==
    ASSUME Inv, Inv',
           \/ RebuildFromStore
           \/ \E tx \in Tx : submit_transaction(tx)
           \/ StartMine
           \/ \E txs, hd, c : StartApply(txs, hd, c)
           \/ TxInvalid \/ RejectRoots \/ PutBlock \/ PutHeight
           \/ \E h : set_last_commit(h)
    PROVE  Total' = Total
<1>1. UNCHANGED <<acct, dTxIndex>>
  BY DEF RebuildFromStore, submit_transaction, StartMine, StartApply, TxInvalid,
         RejectRoots, PutBlock, PutHeight, set_last_commit, durable
<1>2. /\ op = Idle \/ op.pc # "credit"
      /\ op' = Idle \/ op'.pc # "credit"
  <2>1. CASE RebuildFromStore
    BY <2>1 DEF RebuildFromStore, Inv, DownInv
  <2>2. CASE \/ \E tx \in Tx : submit_transaction(tx)
             \/ \E h : set_last_commit(h)
    BY <2>2 DEF submit_transaction, set_last_commit
  <2>3. CASE StartMine \/ \E txs, hd, c : StartApply(txs, hd, c)
    BY <2>3 DEF StartMine, StartApply, Operation
  <2>4. CASE TxInvalid
    <3>1. Busy /\ op.pc = "next" /\ op.todo # << >> /\ op' = AfterFailure
      BY <2>4 DEF TxInvalid
    <3> QED BY <3>1, AfterFailureOK
  <2>5. CASE RejectRoots \/ PutHeight
    BY <2>5 DEF RejectRoots, PutHeight, Executed
  <2>6. CASE PutBlock
    <3>1. Busy /\ op.pc = "next" /\ op' = [op EXCEPT !.pc = "height"]
      BY <2>6 DEF PutBlock, Executed
    <3> QED BY <3>1, BusyFacts DEF Operating
  <2> QED BY <2>1, <2>2, <2>3, <2>4, <2>5, <2>6
<1> QED BY <1>1, <1>2, TotalQuiet

(* Genesis hands out the genesis supply.                                   *)
LEMMA TotalGenesis ==
    ASSUME Inv, Inv', InitFromGenesis
    PROVE  Total' = GenesisSupply
<1>1. /\ ~ up /\ dHeight = NoHeight /\ acct' = GenesisState /\ UNCHANGED <<dTxIndex, op>>
  BY DEF InitFromGenesis, memory
<1>2. op' = Idle /\ dTxIndex' = EmptyIndex
  BY <1>1 DEF Inv, DownInv
<1>3. InFlight' = 0
  BY <1>2, NothingInFlightNext DEF SettledMeansNone
<1>4. FeesTaken' = 0
  <2> DEFINE f == [tx \in Tx |-> IF \/ dTxIndex'[tx] # NoHeight
                                    \/ Busy' /\ op'.pc = "credit" /\ tx = Head(op'.todo)
                                 THEN tx.fee ELSE 0]
  <2>1. \A tx \in Tx : f[tx] = 0
    BY <1>2 DEF EmptyIndex, Busy
  <2>2. FeesTaken' = Sum(f, Tx)
    BY DEF FeesTaken
  <2> HIDE DEF f
  <2>3. Sum(f, Tx) = 0
    BY <2>1, SumZero, LedgerAssumption
  <2> QED BY <2>2, <2>3
<1>5. Supply' = GenesisSupply
  <2> DEFINE g == [a \in Addr |-> acct'[a].balance]
  <2>1. \A a \in Addr : g[a] = Genesis[a]
    BY <1>1 DEF GenesisState
  <2>2. Supply' = Sum(g, Addr)
    BY DEF Supply
  <2> HIDE DEF g
  <2>3. Sum(g, Addr) = Sum(Genesis, Addr)
    BY <2>1, SumSame, LedgerAssumption
  <2> QED BY <2>2, <2>3 DEF GenesisSupply
<1>6. Supply' \in Nat
  BY TotalNatNext DEF AmountsAreNat
<1> QED BY <1>3, <1>4, <1>5, <1>6 DEF Total

(* The genesis supply is a natural.                                        *)
LEMMA GenesisSupplyNat == GenesisSupply \in Nat
BY SumNat, LedgerAssumption DEF GenesisSupply

(* A step that changes nothing moves nothing.                              *)
LEMMA StutterTotal ==
    ASSUME UNCHANGED vars
    PROVE  Total' = Total
BY DEF vars, durable, memory, Total, Supply, InFlight, FeesTaken, Busy

(* What a step does to the total: genesis sets it, nothing raises it, and  *)
(* only a crash, an overflowing credit or a transaction at the largest     *)
(* nonce lowers it.                                                        *)
LEMMA TotalStep ==
    ASSUME Inv, Inv', NonceInv, [Next]_vars
    PROVE  \/ InitFromGenesis /\ Total' = GenesisSupply
           \/ /\ dHeight # NoHeight <=> dHeight' # NoHeight
              /\ Total' <= Total
              /\ \/ Total' = Total
                 \/ Crash
                 \/ CreditOverflows
                 \/ \E tx \in Tx : ~ (tx.nonce < NonceMax)
<1>0. Total \in Nat /\ Total' \in Nat
  BY TotalNat, TotalNatNext DEF Total, AmountsAreNat
<1>1. CASE InitFromGenesis
  BY <1>1, TotalGenesis
<1>2. ASSUME ~ InitFromGenesis
      PROVE  dHeight # NoHeight <=> dHeight' # NoHeight
  <2>1. CASE PutHeight
    <3>1. Busy /\ dHeight' = Height + 1
      BY <2>1 DEF PutHeight
    <3>2. up /\ Height < MaxHeight /\ Height \in Nat /\ dHeight \in Heights
      BY <3>1, BusyFacts, UpFacts
    <3>3. dHeight # NoHeight
      BY <3>2 DEF Inv, DownInv
    <3> QED BY <3>1, <3>2, <3>3, LedgerAssumption DEF NoHeight
  <2>2. CASE ~ PutHeight
    <3>1. dHeight' = dHeight
      BY <1>2, <2>2 DEF Next, vars, durable, RebuildFromStore, Crash, submit_transaction,
         StartMine, StartApply, DebitSender, CreditRecipient, TxInvalid,
         CreditOverflows, IndexTx, RejectRoots, PutBlock, set_last_commit
    <3> QED BY <3>1
  <2> QED BY <2>1, <2>2
<1>3. CASE DebitSender
  <2>1. Head(op.todo) \in Tx
    BY <1>3, BusyFacts DEF DebitSender
  <2>2. ~ InitFromGenesis
    BY <1>3, BusyFacts DEF InitFromGenesis, DebitSender
  <2> QED BY <1>2, <1>3, <2>1, <2>2, TotalDebit
<1>4. CASE Crash \/ CreditOverflows
  <2>1. ~ InitFromGenesis
    BY <1>4, BusyFacts DEF InitFromGenesis, Crash, CreditOverflows
  <2> QED BY <1>2, <1>4, <2>1, TotalCut
<1>5. CASE ~ InitFromGenesis /\ Total' = Total
  BY <1>0, <1>2, <1>5
<1> QED BY <1>1, <1>3, <1>4, <1>5, TotalCredit, TotalIndex, TotalOther, StutterTotal DEF Next

(* No operation of the ledger creates money, for any genesis and any       *)
(* transactions: crashes, refused blocks, overflows and saturated nonces   *)
(* included, balances, transfers in flight and fees never exceed the       *)
(* genesis supply.                                                         *)
THEOREM NoMoneyCreated == Spec => []NeverMints
<1>1. Init => NeverMints
  BY DEF Init, NeverMints
<1>2. Inv /\ Inv' /\ NonceInv /\ NeverMints /\ [Next]_vars => NeverMints'
  <2> SUFFICES ASSUME Inv, Inv', NonceInv, NeverMints, [Next]_vars PROVE NeverMints'
    OBVIOUS
  <2>1. Total \in Nat /\ Total' \in Nat /\ GenesisSupply \in Nat
    BY TotalNat, TotalNatNext, GenesisSupplyNat DEF Total, AmountsAreNat
  <2>2. CASE Total' = GenesisSupply
    BY <2>1, <2>2 DEF NeverMints
  <2>3. CASE (dHeight # NoHeight <=> dHeight' # NoHeight) /\ Total' <= Total
    BY <2>1, <2>3 DEF NeverMints
  <2> QED BY <2>2, <2>3, TotalStep
<1> QED BY <1>1, <1>2, Invariance, NoncesInvariance, PTL DEF Spec

(* A recipient owns at most what the supply leaves.                        *)
LEMMA CreditAlwaysFits ==
    ASSUME GenesisSupply <= AmountMax, Inv, NeverMints
    PROVE  CreditNeverOverflows
<1> SUFFICES ASSUME Busy, op.pc = "credit", op.credits # << >>
             PROVE  CreditFits(acct, Head(op.credits))
  BY DEF CreditNeverOverflows
<1> DEFINE m == Head(op.credits)
<1>1. TypeOK /\ Operating /\ up /\ m \in Msg /\ Tail(op.credits) \in Seq(Msg)
  BY BusyFacts
<1>2. m.to \in Addr /\ m.amount \in Nat /\ acct[m.to].balance \in Nat
  BY <1>1 DEF Msg, TypeOK, Account
<1>3. acct[m.to].balance <= Supply
  <2>1. BalanceOf[m.to] <= Sum(BalanceOf, Addr)
    BY <1>1, <1>2, SupplyForm, SumAtLeast, LedgerAssumption
  <2>2. Supply = Sum(BalanceOf, Addr)
    BY <1>1, SupplyForm
  <2>3. BalanceOf[m.to] = acct[m.to].balance
    BY <1>2 DEF BalanceOf
  <2> QED BY <2>1, <2>2, <2>3
<1>4. InFlight = m.amount + AmountOf(Tail(op.credits)) /\ AmountOf(Tail(op.credits)) \in Nat
  BY <1>1, AmountOfHead, AmountOfNat DEF InFlight, Operating
<1>5. Total <= GenesisSupply
  BY <1>1 DEF NeverMints, Inv, DownInv
<1>6. Supply \in Nat /\ InFlight \in Nat /\ FeesTaken \in Nat /\ GenesisSupply \in Nat /\ AmountMax \in Nat
  BY TotalNat, GenesisSupplyNat, LedgerAssumption
<1>7. Supply + InFlight + FeesTaken <= AmountMax
  BY <1>5, <1>6 DEF Total
<1> HIDE DEF m
<1>8. acct[m.to].balance + m.amount <= AmountMax
  <2> DEFINE b == acct[m.to].balance
             x == m.amount
             r == AmountOf(Tail(op.credits))
  <2>1. /\ b \in Nat /\ x \in Nat /\ r \in Nat /\ Supply \in Nat /\ FeesTaken \in Nat
        /\ AmountMax \in Nat /\ b <= Supply /\ InFlight = x + r
        /\ Supply + InFlight + FeesTaken <= AmountMax
    BY <1>2, <1>3, <1>4, <1>6, <1>7
  <2> HIDE DEF b, x, r
  <2>2. b + x <= AmountMax
    BY <2>1
  <2> QED BY <2>2 DEF b, x
<1> QED BY <1>8 DEF CreditFits, m

(* When the genesis supply fits an Amount, the checked_add of a credit,    *)
(* which would fail after the sender was already written, never fails.     *)
THEOREM CreditsFit ==
    ASSUME GenesisSupply <= AmountMax
    PROVE  Spec => []CreditNeverOverflows
<1>1. Inv /\ NeverMints => CreditNeverOverflows
  BY CreditAlwaysFits
<1> QED BY <1>1, Invariance, NoMoneyCreated, PTL

(* When also no transaction carries the largest nonce, money is conserved  *)
(* exactly while no crash cut an operation off, whatever blocks were       *)
(* refused.                                                                *)
THEOREM MoneyConserved ==
    ASSUME GenesisSupply <= AmountMax, \A tx \in Tx : tx.nonce < NonceMax
    PROVE  Spec => []Conservation
<1>1. Init => Conservation
  BY DEF Init, Conservation
<1>2. /\ Inv /\ Inv' /\ NonceInv /\ NeverMints /\ NeverMints' /\ Conservation /\ [Next]_vars
      => Conservation'
  <2> SUFFICES ASSUME Inv, Inv', NonceInv, NeverMints, NeverMints', Conservation, [Next]_vars,
                      dHeight' # NoHeight
               PROVE  Total' <= GenesisSupply /\ (crashes' = 0 => Total' = GenesisSupply)
    BY DEF Conservation, Total
  <2>1. Total' <= GenesisSupply
    BY DEF NeverMints
  <2>2. ~ CreditOverflows
    BY CreditAlwaysFits DEF CreditNeverOverflows, CreditOverflows
  <2>3. CASE Crash
    <3>1. crashes' # 0
      BY <2>3, LedgerAssumption DEF Crash, Inv, TypeOK
    <3> QED BY <2>1, <3>1
  <2>4. CASE Total' = GenesisSupply
    BY <2>1, <2>4
  <2>5. CASE dHeight # NoHeight /\ Total' = Total /\ ~ Crash
    <3>1. crashes' = crashes
      BY <2>5 DEF Next, vars, history, InitFromGenesis, RebuildFromStore, submit_transaction,
         StartMine, StartApply, DebitSender, CreditRecipient, TxInvalid,
         CreditOverflows, IndexTx, RejectRoots, PutBlock, PutHeight, set_last_commit
    <3>2. crashes = 0 => Total = GenesisSupply
      BY <2>5 DEF Conservation, Total
    <3> QED BY <2>1, <2>5, <3>1, <3>2
  <2> QED BY <2>2, <2>3, <2>4, <2>5, TotalStep
<1> QED BY <1>1, <1>2, Invariance, NoncesInvariance, NoMoneyCreated, PTL DEF Spec

(***************************************************************************)
(* Part four: the account table against the chain. Unless an operation was  *)
(* cut off after an account write (tainted), the table is what executing    *)
(* the committed blocks from genesis gives, and so a block built by an      *)
(* honest peer is accepted. The inductive invariant ReplayInv says where     *)
(* the table stands in the middle of an operation: at the replay of the     *)
(* chain, extended by the transactions executed so far, short of the        *)
(* credits that are still to be paid.                                      *)
(***************************************************************************)
(* The folds of the ledger.                                                *)
CreditFold == INSTANCE FoldProofs WITH combine <- Credit
TxFold     == INSTANCE FoldProofs WITH combine <- Execute
BlockFold  == INSTANCE FoldProofs WITH combine <- RunBlock

(* The instance folds as the ledger does: credits,                         *)
LEMMA CreditFoldForm ==
    ASSUME NEW st, NEW s PROVE CreditFold!Fold(st, s) = FoldLeft(Credit, st, s)
BY DEF CreditFold!Fold, CreditFold!FoldLeft, CreditFold!MapThenFoldSet, CreditFold!Max,
       FoldLeft, MapThenFoldSet, Max

(* transactions,                                                           *)
LEMMA TxFoldForm ==
    ASSUME NEW st, NEW s PROVE TxFold!Fold(st, s) = FoldLeft(Execute, st, s)
BY DEF TxFold!Fold, TxFold!FoldLeft, TxFold!MapThenFoldSet, TxFold!Max,
       FoldLeft, MapThenFoldSet, Max

(* and blocks.                                                             *)
LEMMA BlockFoldForm ==
    ASSUME NEW s PROVE BlockFold!Fold(GenesisState, s) = Replay(s)
BY DEF BlockFold!Fold, BlockFold!FoldLeft, BlockFold!MapThenFoldSet, BlockFold!Max,
       FoldLeft, MapThenFoldSet, Max, Replay

(* Executing transactions, and paying the messages of one.                 *)
RunTxs(st, txs) == FoldLeft(Execute, st, txs)
Pay(st, msgs) == FoldLeft(Credit, st, msgs)

(* No messages pay nobody.                                                 *)
LEMMA PayNone == ASSUME NEW st PROVE Pay(st, << >>) = st
BY CreditFoldForm, CreditFold!FoldEmpty DEF Pay

(* Paying messages starts with the first.                                  *)
LEMMA PayHead ==
    ASSUME NEW st, NEW msgs \in Seq(Msg), msgs # << >>
    PROVE  Pay(st, msgs) = Pay(Credit(st, Head(msgs)), Tail(msgs))
<1>1. CreditFold!Fold(st, msgs) = CreditFold!Fold(Credit(st, Head(msgs)), Tail(msgs))
  BY CreditFold!FoldHead
<1> QED BY <1>1, CreditFoldForm DEF Pay

(* No transactions change nothing.                                         *)
LEMMA RunNone == ASSUME NEW st PROVE RunTxs(st, << >>) = st
BY TxFoldForm, TxFold!FoldEmpty DEF RunTxs

(* The last transaction runs last.                                         *)
LEMMA RunAppend ==
    ASSUME NEW st, NEW txs \in Seq(Tx), NEW t \in Tx
    PROVE  RunTxs(st, Append(txs, t)) = Execute(RunTxs(st, txs), t)
<1>1. TxFold!Fold(st, Append(txs, t)) = Execute(TxFold!Fold(st, txs), t)
  BY TxFold!FoldAppend
<1> QED BY <1>1, TxFoldForm DEF RunTxs

(* The empty chain is genesis.                                             *)
LEMMA ReplayNone == Replay(<< >>) = GenesisState
BY BlockFoldForm, BlockFold!FoldEmpty

(* A longer chain: the new block runs after the others.                    *)
LEMMA ReplayAppend ==
    ASSUME NEW A, NEW chain \in Seq(A), NEW b \in A
    PROVE  Replay(Append(chain, b)) = RunTxs(Replay(chain), b.txs)
<1>1. BlockFold!Fold(GenesisState, Append(chain, b))
        = RunBlock(BlockFold!Fold(GenesisState, chain), b)
  BY BlockFold!FoldAppend
<1> QED BY <1>1, BlockFoldForm DEF RunBlock, RunTxs

(* Certificates do not matter to the replay.                               *)
LEMMA ReplaySame ==
    ASSUME NEW A, NEW s \in Seq(A), NEW r \in Seq(A), Len(s) = Len(r),
           \A i \in 1..Len(s) : s[i].txs = r[i].txs
    PROVE  Replay(s) = Replay(r)
<1>1. \A i \in 1..Len(s) : \A st : RunBlock(st, s[i]) = RunBlock(st, r[i])
  BY DEF RunBlock
<1>2. BlockFold!Fold(GenesisState, s) = BlockFold!Fold(GenesisState, r)
  BY <1>1, BlockFold!FoldSame
<1> QED BY <1>2, BlockFoldForm

-----------------------------------------------------------------------------
(* The committed chain.                                                    *)
Committed == [h \in 1..dHeight |-> dBlocks[h]]

(* The state it gives.                                                     *)
Replayed == Replay(Committed)

(* The inductive invariant.                                                *)
ReplayInv ==
    ~ tainted /\ dHeight # NoHeight =>
        /\ LatestHeader(Committed).root = Replayed
        /\ op = Idle => acct = Replayed
        /\ Busy /\ op.pc # "credit" => acct = RunTxs(Replayed, op.done)
        /\ Busy /\ op.pc = "credit" =>
             Pay(acct, op.credits) = Execute(RunTxs(Replayed, op.done), Head(op.todo))

(* The committed chain, on disk and in memory.                             *)
LEMMA CommittedFacts ==
    ASSUME Inv, dHeight # NoHeight
    PROVE  /\ dHeight \in Nat /\ Len(Committed) = dHeight
           /\ Committed \in Seq({dBlocks[h] : h \in 1..dHeight})
           /\ \A h \in 1..dHeight : Committed[h] = dBlocks[h] /\ h \in DOMAIN dBlocks
           /\ LatestHeader(Committed) =
                IF dHeight = 0 THEN GenesisHeader ELSE dBlocks[dHeight].header
           /\ up => blocks = Committed
<1>1. dHeight \in Nat
  BY LedgerAssumption DEF Inv, TypeOK, Heights
<1>2. Committed = [h \in 1..dHeight |-> Committed[h]] /\ \A h \in 1..dHeight : Committed[h] = dBlocks[h]
  BY DEF Committed
<1>3. {Committed[h] : h \in 1..dHeight} = {dBlocks[h] : h \in 1..dHeight}
  BY <1>2
<1>4. Committed \in Seq({Committed[h] : h \in 1..dHeight}) /\ Len(Committed) = dHeight
  BY <1>1, <1>2, SeqFromFunction
<1>5. LatestHeader(Committed) =
        IF dHeight = 0 THEN GenesisHeader ELSE dBlocks[dHeight].header
  <2>1. CASE dHeight = 0
    <3>1. Committed = << >>
      BY <1>4, <2>1, EmptySeq
    <3> QED BY <2>1, <3>1 DEF LatestHeader
  <2>2. CASE dHeight # 0
    <3>1. Committed # << >>
      BY <1>4, <2>2, EmptySeq
    <3>2. dHeight \in 1..dHeight
      BY <1>1, <2>2
    <3>3. Committed[Len(Committed)] = dBlocks[dHeight]
      BY <1>2, <1>4, <3>2
    <3> QED BY <2>2, <3>1, <3>3 DEF LatestHeader, Last
  <2> QED BY <2>1, <2>2
<1>6. (\A h \in 1..dHeight : h \in DOMAIN dBlocks) /\ (up => blocks = Committed)
  BY DEF Inv, Recoverable, CanRebuild, Committed
<1> QED BY <1>1, <1>2, <1>3, <1>4, <1>5, <1>6

(* Nothing is claimed before genesis.                                      *)
LEMMA ReplayInit == Init => ReplayInv
BY DEF Init, ReplayInv

(* Genesis writes the state the empty chain gives.                         *)
LEMMA ReplayGenesis ==
    ASSUME Inv, InitFromGenesis
    PROVE  ReplayInv'
<1>1. /\ ~ up /\ dHeight' = 0 /\ acct' = GenesisState /\ UNCHANGED op
  BY DEF InitFromGenesis, memory
<1>2. op' = Idle
  BY <1>1 DEF Inv, DownInv
<1>3. Committed' = << >>
  <2>1. 1..0 = {}
    OBVIOUS
  <2> QED BY <1>1, <2>1 DEF Committed
<1>4. Replayed' = GenesisState
  BY <1>3, ReplayNone DEF Replayed
<1>5. LatestHeader(Committed)' = GenesisHeader /\ GenesisHeader.root = GenesisState
  BY <1>3 DEF LatestHeader, GenesisHeader
<1> QED BY <1>1, <1>2, <1>4, <1>5 DEF ReplayInv, Busy

(* The operation leaves, or starts from, the state the chain gives. *)
LEMMA ReplayQuiet ==
    ASSUME Inv, ReplayInv, UNCHANGED <<acct, dHeight, dBlocks>>,
           tainted' \/ ~ tainted,
           \/ tainted'
           \/ /\ ~ Wrote
              /\ \/ op' = Idle
                 \/ op' # Idle /\ op'.pc # "credit" /\ op'.done = << >>
           \/ /\ Busy /\ op.pc # "credit"
              /\ op' # Idle /\ op'.pc # "credit" /\ op'.done = op.done
    PROVE  ReplayInv'
<1> SUFFICES ASSUME ~ tainted', dHeight # NoHeight
             PROVE  /\ LatestHeader(Committed').root = Replayed'
                    /\ op' = Idle => acct' = Replayed'
                    /\ Busy' /\ op'.pc # "credit" => acct' = RunTxs(Replayed', op'.done)
                    /\ Busy' /\ op'.pc = "credit" =>
                          Pay(acct', op'.credits)
                            = Execute(RunTxs(Replayed', op'.done), Head(op'.todo))
  BY DEF ReplayInv
<1>1. Committed' = Committed /\ Replayed' = Replayed
  BY DEF Committed, Replayed
<1>2. ~ tainted /\ LatestHeader(Committed).root = Replayed
  BY DEF ReplayInv
<1>3. CASE /\ ~ Wrote
           /\ op' = Idle \/ (op' # Idle /\ op'.pc # "credit" /\ op'.done = << >>)
  <2>1. acct = Replayed
    <3>1. CASE op = Idle
      BY <1>2, <3>1 DEF ReplayInv
    <3>2. CASE op # Idle
      <4>1. op.done = << >> /\ op.pc = "next"
        BY <1>3, <3>2 DEF Wrote
      <4>2. acct = RunTxs(Replayed, << >>)
        BY <1>2, <3>2, <4>1 DEF ReplayInv, Busy
      <4> QED BY <4>2, RunNone
    <3> QED BY <3>1, <3>2
  <2>2. RunTxs(Replayed, << >>) = Replayed
    BY RunNone
  <2> QED BY <1>1, <1>2, <1>3, <2>1, <2>2 DEF Busy
<1>4. CASE /\ Busy /\ op.pc # "credit"
           /\ op' # Idle /\ op'.pc # "credit" /\ op'.done = op.done
  <2>1. acct = RunTxs(Replayed, op.done)
    BY <1>2, <1>4 DEF ReplayInv
  <2> QED BY <1>1, <1>2, <1>4, <2>1 DEF Busy
<1> QED BY <1>3, <1>4

(* The debit starts the transaction: the credits are outstanding.          *)
LEMMA ReplayDebit ==
    ASSUME Inv, ReplayInv, DebitSender
    PROVE  ReplayInv'
<1> DEFINE t == Head(op.todo)
<1>1. /\ Busy /\ op.pc = "next" /\ acct' = Debit(acct, t)
      /\ op' = [op EXCEPT !.pc = "credit", !.credits = t.msgs]
      /\ UNCHANGED <<dHeight, dBlocks, tainted>>
  BY DEF DebitSender, history
<1>2. Operating
  BY <1>1, BusyFacts
<1>3. /\ op'.pc = "credit" /\ op'.credits = t.msgs /\ op'.done = op.done
      /\ op'.todo = op.todo /\ op' # Idle
  BY <1>1, <1>2 DEF Operating, Idle
<1>4. Committed' = Committed /\ Replayed' = Replayed
  BY <1>1 DEF Committed, Replayed
<1>5. Pay(acct', op'.credits) = Execute(acct, t)
  BY <1>1, <1>3 DEF Pay, Execute
<1> QED BY <1>1, <1>3, <1>4, <1>5 DEF ReplayInv, Busy

(* One credit less is outstanding.                                         *)
LEMMA ReplayCredit ==
    ASSUME Inv, ReplayInv, CreditRecipient
    PROVE  ReplayInv'
<1>1. /\ Busy /\ op.pc = "credit" /\ op.credits # << >>
      /\ acct' = Credit(acct, Head(op.credits))
      /\ op' = [op EXCEPT !.credits = Tail(@)]
      /\ UNCHANGED <<dHeight, dBlocks, tainted>>
  BY DEF CreditRecipient, history
<1>2. Operating
  BY <1>1, BusyFacts
<1>3. /\ op'.pc = "credit" /\ op'.credits = Tail(op.credits) /\ op'.done = op.done
      /\ op'.todo = op.todo /\ op' # Idle
  BY <1>1, <1>2 DEF Operating, Idle
<1>4. Committed' = Committed /\ Replayed' = Replayed
  BY <1>1 DEF Committed, Replayed
<1>5. Pay(acct', op'.credits) = Pay(acct, op.credits)
  BY <1>1, <1>2, <1>3, PayHead DEF Operating
<1> QED BY <1>1, <1>3, <1>4, <1>5 DEF ReplayInv, Busy

(* All credits are paid: the transaction is executed.                      *)
LEMMA ReplayIndex ==
    ASSUME Inv, ReplayInv, IndexTx
    PROVE  ReplayInv'
<1> DEFINE t == Head(op.todo)
<1>1. /\ Busy /\ op.pc = "credit" /\ op.credits = << >>
      /\ op' = [op EXCEPT !.pc = "next", !.todo = Tail(@), !.done = Append(@, t)]
      /\ UNCHANGED <<acct, dHeight, dBlocks, tainted>>
  BY DEF IndexTx, history
<1>2. Operating /\ t \in Tx
  BY <1>1, BusyFacts DEF Operating
<1>3. op'.pc = "next" /\ op'.done = Append(op.done, t) /\ op' # Idle
  BY <1>1, <1>2 DEF Operating, Idle
<1>4. Committed' = Committed /\ Replayed' = Replayed
  BY <1>1 DEF Committed, Replayed
<1>5. RunTxs(Replayed, Append(op.done, t)) = Execute(RunTxs(Replayed, op.done), t)
  BY <1>2, RunAppend DEF Operating
<1>6. Pay(acct, op.credits) = acct
  BY <1>1, PayNone
<1> QED BY <1>1, <1>3, <1>4, <1>5, <1>6 DEF ReplayInv, Busy

(* persist_block writes above the height: the chain is the same.           *)
LEMMA ReplayPutBlock ==
    ASSUME Inv, ReplayInv, PutBlock
    PROVE  ReplayInv'
<1>1. /\ Busy /\ op.pc = "next"
      /\ dBlocks' = [h \in DOMAIN dBlocks \cup {Height + 1} |->
                       IF h = Height + 1 THEN NewBlock ELSE dBlocks[h]]
      /\ op' = [op EXCEPT !.pc = "height"]
      /\ UNCHANGED <<acct, dHeight, tainted>>
  BY DEF PutBlock, Executed, history
<1>2. Operating /\ up
  BY <1>1, BusyFacts
<1>3. op'.pc = "height" /\ op'.done = op.done /\ op' # Idle
  BY <1>1, <1>2 DEF Operating, Idle
<1>4. Committed' = Committed /\ Replayed' = Replayed
  <2>1. dHeight \in Nat /\ Height = dHeight /\ \A h \in 1..dHeight : h \in DOMAIN dBlocks
    BY <1>2, UpFacts
  <2>2. \A h \in 1..dHeight : h # Height + 1
    BY <2>1
  <2>3. \A h \in 1..dHeight : dBlocks'[h] = dBlocks[h]
    BY <1>1, <2>1, <2>2
  <2>4. dHeight' = dHeight
    BY <1>1
  <2> QED BY <2>3, <2>4 DEF Committed, Replayed
<1>5. UNCHANGED <<acct, dHeight, tainted>> /\ Busy /\ op.pc # "credit"
  BY <1>1
<1> QED BY <1>3, <1>4, <1>5 DEF ReplayInv, Busy

(* put_height: the chain grows by the block that was executed.             *)
LEMMA ReplayPutHeight ==
    ASSUME Inv, Inv', ReplayInv, PutHeight
    PROVE  ReplayInv'
<1>1. /\ Busy /\ op.pc = "height" /\ dHeight' = Height + 1 /\ op' = Idle
      /\ blocks' = Append(blocks, NewBlock)
      /\ UNCHANGED <<acct, dBlocks, up, tainted>>
  BY DEF PutHeight, history
<1>2. Operating /\ up /\ dHeight # NoHeight
  BY <1>1, BusyFacts DEF Inv, DownInv
<1>3. /\ dHeight \in Nat /\ Height = dHeight /\ blocks = Committed
  BY <1>2, UpFacts, CommittedFacts
<1>4. dHeight' # NoHeight /\ blocks' = Committed'
  BY <1>1, <1>2 DEF Inv, DownInv, Recoverable, Committed
<1>5. NewBlock = dBlocks[dHeight + 1]
  BY <1>1, <1>3 DEF Inv, StoreInv, Busy
<1>6. Replay(Append(blocks, NewBlock)) = RunTxs(Replay(blocks), NewBlock.txs)
  <2> DEFINE A == {dBlocks[h] : h \in 1..dHeight} \cup {NewBlock}
             B == {dBlocks[h] : h \in 1..dHeight}
  <2>1. blocks \in Seq(B) /\ B \subseteq A /\ NewBlock \in A
    BY <1>2, UpFacts
  <2> HIDE DEF A, B
  <2>2. blocks \in Seq(A)
    BY <2>1
  <2> QED BY <2>1, <2>2, ReplayAppend
<1>7. NewBlock.txs = op.done /\ NewBlock.header.root = acct
  BY DEF NewBlock, ComputedHeader
<1>8. Replayed' = RunTxs(Replayed, op.done)
  BY <1>1, <1>3, <1>4, <1>6, <1>7 DEF Replayed
<1>9. LatestHeader(Committed').root = acct
  <2>1. LatestHeader(Append(blocks, NewBlock)) = NewBlock.header
    <3> DEFINE B == {dBlocks[h] : h \in 1..dHeight}
               c == Append(blocks, NewBlock)
    <3>1. blocks \in Seq(B) /\ Len(blocks) = dHeight
      BY <1>2, <1>3, UpFacts DEF Height
    <3> HIDE DEF B
    <3>2. Len(c) = dHeight + 1 /\ c[dHeight + 1] = NewBlock
      <4>1. blocks \in Seq(B \cup {NewBlock}) /\ NewBlock \in B \cup {NewBlock}
        BY <3>1
      <4> QED BY <3>1, <4>1, AppendProperties
    <3> HIDE DEF c
    <3>3. c # << >> /\ c[Len(c)] = NewBlock
      BY <1>3, <3>2, EmptySeq
    <3>4. LatestHeader(c) = NewBlock.header
      BY <3>3 DEF LatestHeader, Last
    <3> QED BY <3>4 DEF c
  <2> QED BY <1>1, <1>4, <1>7, <2>1
<1> QED BY <1>1, <1>2, <1>8, <1>9 DEF ReplayInv, Busy

(* set_last_commit changes no transactions and no root.                    *)
LEMMA ReplayCommit ==
    ASSUME Inv, Inv', ReplayInv, NEW h, set_last_commit(h)
    PROVE  ReplayInv'
<1>1. up /\ op' = Idle /\ op = Idle /\ UNCHANGED <<acct, dHeight, tainted>>
  BY DEF set_last_commit, history
<1>2. dHeight # NoHeight
  BY <1>1 DEF Inv, DownInv
<1>3. \A g \in 1..dHeight : /\ dBlocks'[g].header = dBlocks[g].header
                            /\ dBlocks'[g].txs = dBlocks[g].txs
  BY <1>2, CommitStep, CommittedFacts
<1>4. dHeight \in Nat
  BY <1>2, CommittedFacts
<1>5. /\ Len(Committed) = dHeight /\ Len(Committed') = dHeight
      /\ \E A : Committed \in Seq(A) /\ Committed' \in Seq(A)
      /\ \A g \in 1..dHeight : Committed[g] = dBlocks[g] /\ Committed'[g] = dBlocks'[g]
  <2> DEFINE A == {dBlocks[g] : g \in 1..dHeight} \cup {dBlocks'[g] : g \in 1..dHeight}
  <2>1. Committed \in [1..dHeight -> A] /\ Committed' \in [1..dHeight -> A]
    BY <1>1 DEF Committed
  <2>2. \A g \in 1..dHeight : Committed[g] = dBlocks[g] /\ Committed'[g] = dBlocks'[g]
    BY <1>1 DEF Committed
  <2> HIDE DEF A
  <2>3. Committed \in Seq(A) /\ Committed' \in Seq(A)
    BY <1>4, <2>1, SeqDef
  <2>4. DOMAIN Committed = 1..dHeight /\ DOMAIN Committed' = 1..dHeight
    BY <2>1
  <2>5. /\ Len(Committed) \in Nat /\ DOMAIN Committed = 1..Len(Committed)
        /\ Len(Committed') \in Nat /\ DOMAIN Committed' = 1..Len(Committed')
    BY <2>3, LenProperties
  <2>6. Len(Committed) = dHeight /\ Len(Committed') = dHeight
    BY <1>4, <2>4, <2>5
  <2> QED BY <2>2, <2>3, <2>6
<1>6. Replayed' = Replayed
  <2>1. Replay(Committed) = Replay(Committed')
    BY <1>3, <1>5, ReplaySame
  <2> QED BY <2>1 DEF Replayed
<1>7. LatestHeader(Committed') = LatestHeader(Committed)
  <2>1. CASE dHeight = 0
    <3>1. Committed = << >> /\ Committed' = << >>
      BY <1>5, <2>1, EmptySeq
    <3> QED BY <3>1
  <2>2. CASE dHeight # 0
    <3>1. Committed # << >> /\ Committed' # << >>
      BY <1>5, <2>2, EmptySeq
    <3>2. dHeight \in 1..dHeight
      BY <1>4, <2>2
    <3>3. /\ Committed[Len(Committed)] = dBlocks[dHeight]
          /\ Committed'[Len(Committed')] = dBlocks'[dHeight]
      BY <1>5, <3>2
    <3> QED BY <1>3, <3>1, <3>2, <3>3 DEF LatestHeader, Last
  <2> QED BY <2>1, <2>2
<1> QED BY <1>1, <1>2, <1>6, <1>7 DEF ReplayInv, Busy

(* Starting an operation, or giving one up: with an account write the      *)
(* state is tainted, without one it is the replay.                         *)
LEMMA ReplayOther ==
    ASSUME Inv, ReplayInv,
           \/ RebuildFromStore
           \/ Crash
           \/ \E tx \in Tx : submit_transaction(tx)
           \/ StartMine
           \/ \E txs, hd, c : StartApply(txs, hd, c)
           \/ TxInvalid \/ CreditOverflows \/ RejectRoots
    PROVE  ReplayInv'
<1>1. UNCHANGED <<acct, dHeight, dBlocks>>
  BY DEF RebuildFromStore, Crash, submit_transaction, StartMine, StartApply, TxInvalid,
         CreditOverflows, RejectRoots, durable
<1>2. tainted \in BOOLEAN
  BY DEF Inv, TypeOK
<1>3. CASE RebuildFromStore
  <2>1. op = Idle /\ op' = Idle /\ tainted' = tainted
    BY <1>3 DEF RebuildFromStore, history, Inv, DownInv
  <2>2. ~ Wrote
    BY <2>1 DEF Wrote
  <2> QED BY <1>1, <1>2, <2>1, <2>2, ReplayQuiet
<1>4. CASE Crash \/ RejectRoots
  <2>1. op' = Idle /\ tainted' = (tainted \/ Wrote)
    BY <1>4 DEF Crash, RejectRoots
  <2> QED BY <1>1, <1>2, <2>1, ReplayQuiet
<1>5. CASE \E tx \in Tx : submit_transaction(tx)
  <2>1. op = Idle /\ op' = Idle /\ tainted' = tainted
    BY <1>5 DEF submit_transaction, history
  <2>2. ~ Wrote
    BY <2>1 DEF Wrote
  <2> QED BY <1>1, <1>2, <2>1, <2>2, ReplayQuiet
<1>6. CASE StartMine \/ \E txs, hd, c : StartApply(txs, hd, c)
  <2>1. op = Idle /\ tainted' = tainted /\ op'.pc # "credit" /\ op'.done = << >> /\ op' # Idle
    BY <1>6 DEF StartMine, StartApply, Operation, Idle, history
  <2>2. ~ Wrote
    BY <2>1 DEF Wrote
  <2> QED BY <1>1, <1>2, <2>1, <2>2, ReplayQuiet
<1>7. CASE CreditOverflows
  <2>1. tainted'
    BY <1>7 DEF CreditOverflows
  <2> QED BY <2>1 DEF ReplayInv
<1>8. CASE TxInvalid
  <2>1. /\ Busy /\ op.pc = "next" /\ op.todo # << >> /\ op' = AfterFailure
        /\ tainted' = (tainted \/ (op.kind = "apply" /\ Wrote))
    BY <1>8 DEF TxInvalid
  <2>2. Operating
    BY <2>1, BusyFacts
  <2>3. CASE op.kind = "mine"
    <3>1. op' = [op EXCEPT !.pc = "next", !.todo = Tail(@), !.credits = << >>]
      BY <2>1, <2>3 DEF AfterFailure
    <3>2. op' # Idle /\ op'.pc = "next" /\ op'.done = op.done
      BY <2>2, <3>1 DEF Operating, Idle
    <3>3. tainted' \/ ~ tainted
      BY <1>2, <2>1
    <3> QED BY <1>1, <2>1, <3>2, <3>3, ReplayQuiet
  <2>4. CASE op.kind = "apply"
    <3>1. op' = Idle
      BY <2>1, <2>4 DEF AfterFailure
    <3>2. tainted' \/ (~ tainted /\ ~ Wrote)
      BY <1>2, <2>1, <2>4
    <3> QED BY <1>1, <3>1, <3>2, ReplayQuiet
  <2> QED BY <2>2, <2>3, <2>4 DEF Operating
<1> QED BY <1>3, <1>4, <1>5, <1>6, <1>7, <1>8

(* A step that changes nothing.                                            *)
LEMMA ReplayStutter ==
    ASSUME ReplayInv, UNCHANGED vars
    PROVE  ReplayInv'
<1>1. UNCHANGED <<acct, dHeight, dBlocks, op, tainted>>
  BY DEF vars, durable, memory, history
<1>2. Committed' = Committed /\ Replayed' = Replayed
  BY <1>1 DEF Committed, Replayed
<1> QED BY <1>1, <1>2 DEF ReplayInv, Busy

(* Every step preserves the invariant.                                     *)
LEMMA ReplayStep == Inv /\ Inv' /\ ReplayInv /\ [Next]_vars => ReplayInv'
<1> SUFFICES ASSUME Inv, Inv', ReplayInv, [Next]_vars PROVE ReplayInv'
  OBVIOUS
<1> QED
  BY ReplayGenesis, ReplayOther, ReplayDebit, ReplayCredit, ReplayIndex, ReplayPutBlock,
     ReplayPutHeight, ReplayCommit, ReplayStutter DEF Next

(* The invariant holds in every reachable state of the ledger.             *)
THEOREM ReplayInvariance == Spec => []ReplayInv
BY ReplayInit, ReplayStep, Invariance, PTL DEF Spec

(* Between operations of a running ledger that is not tainted, the account *)
(* table is the replay of the chain and the root in the tip header:        *)
(* mempool order, transactions dropped by mine_block and blocks refused    *)
(* before a write do not matter.                                           *)
THEOREM AccountsAreReplay == Spec => []StateIsReplay
<1>1. Inv /\ ReplayInv => StateIsReplay
  <2> SUFFICES ASSUME Inv, ReplayInv, up, op = Idle, ~ tainted
               PROVE  acct = Replay(blocks) /\ acct = LatestHeader(blocks).root
    BY DEF StateIsReplay
  <2>1. dHeight # NoHeight
    BY DEF Inv, DownInv
  <2>2. blocks = Committed
    BY <2>1, CommittedFacts
  <2> QED BY <2>1, <2>2 DEF ReplayInv, Replayed
<1> QED BY <1>1, Invariance, ReplayInvariance, PTL

(* The executed prefix of the offered transactions, and the next one. *)
LEMMA OfferedPrefix ==
    ASSUME Inv, Busy
    PROVE  /\ op.todo = << >> => OfferedTxs = op.done
           /\ op.todo # << >> =>
                \E i \in DOMAIN OfferedTxs :
                    /\ SubSeq(OfferedTxs, 1, i - 1) = op.done
                    /\ OfferedTxs[i] = Head(op.todo)
<1> DEFINE d == op.done
           q == op.todo
           n == Len(d)
           s == d \o q
<1>1. d \in Seq(Tx) /\ q \in Seq(Tx) /\ n \in Nat /\ Len(q) \in Nat /\ DOMAIN d = 1..n
  BY BusyFacts, LenProperties DEF Operating
<1>2. /\ s \in Seq(Tx) /\ Len(s) = n + Len(q)
      /\ \A i \in 1..(n + Len(q)) : s[i] = IF i <= n THEN d[i] ELSE q[i - n]
  BY <1>1, ConcatProperties
<1>3. CASE q = << >>
  BY <1>1, <1>3, ConcatEmptySeq DEF OfferedTxs
<1>4. CASE q # << >>
  <2>1. Len(q) # 0 /\ Head(q) = q[1]
    BY <1>1, <1>4, EmptySeq, HeadTailProperties
  <2> HIDE DEF d, q, n, s
  <2>2. n + 1 \in 1..Len(s) /\ (n + 1) - n = 1 /\ ~ (n + 1 <= n) /\ (n + 1) - 1 = n
    BY <1>1, <1>2, <2>1
  <2>3. s[n + 1] = Head(q)
    BY <1>2, <2>1, <2>2
  <2>4. SubSeq(s, 1, n) = d
    <3>1. \A i \in 1..n : i \in 1..(n + Len(q)) /\ i <= n
      BY <1>1
    <3>2. \A i \in 1..n : s[i] = d[i]
      BY <1>2, <3>1
    <3>3. SubSeq(s, 1, n) \in Seq(Tx) /\ Len(SubSeq(s, 1, n)) = n
          /\ \A i \in 1..n : SubSeq(s, 1, n)[i] = s[i]
      BY <1>1, <1>2, SubSeqProperties
    <3> QED BY <1>1, <3>2, <3>3, SeqEqual DEF n
  <2>5. DOMAIN s = 1..Len(s)
    BY <1>2, LenProperties
  <2>6. n + 1 \in DOMAIN s /\ SubSeq(s, 1, (n + 1) - 1) = d /\ s[n + 1] = Head(q)
    BY <2>2, <2>3, <2>4, <2>5
  <2> QED BY <1>4, <2>6 DEF s, d, q, OfferedTxs
<1> QED BY <1>3, <1>4

(* What HonestBlockAccepted says of a step.                                *)
Accepted ==
    /\ Busy /\ op.kind = "apply" /\ ~ tainted
    /\ ExecutesCleanly(Replay(blocks), OfferedTxs)
    /\ op.header = HonestHeader(OfferedTxs)
    /\ op' = Idle /\ up'
    => Len(blocks') > Len(blocks)

(* Why apply_block cannot give up on an honest block: each check repeats   *)
(* what the replay of the block has established.                           *)
LEMMA AcceptedStep ==
    Inv /\ ReplayInv /\ CreditNeverOverflows /\ Next => Accepted
<1> SUFFICES ASSUME Inv, ReplayInv, CreditNeverOverflows, Next,
                    Busy, op.kind = "apply", ~ tainted,
                    ExecutesCleanly(Replay(blocks), OfferedTxs),
                    op.header = HonestHeader(OfferedTxs),
                    op' = Idle, up'
             PROVE  Len(blocks') > Len(blocks)
  BY DEF Accepted
<1>1. Operating /\ up /\ dHeight # NoHeight
  BY BusyFacts DEF Inv, DownInv
<1>2. blocks = Committed /\ Height = dHeight /\ dHeight \in Nat
  BY <1>1, CommittedFacts, UpFacts
<1>3. op.pc # "credit" => acct = RunTxs(Replay(blocks), op.done)
  BY <1>1, <1>2 DEF ReplayInv, Replayed
<1>4. ~ TxInvalid
  <2> SUFFICES ASSUME TxInvalid PROVE FALSE
    OBVIOUS
  <2>1. op.pc = "next" /\ op.todo # << >> /\ ~ CanExecute(acct, Head(op.todo))
    BY DEF TxInvalid
  <2>2. PICK i \in DOMAIN OfferedTxs : /\ SubSeq(OfferedTxs, 1, i - 1) = op.done
                                       /\ OfferedTxs[i] = Head(op.todo)
    BY <2>1, OfferedPrefix
  <2>3. CanExecute(RunTxs(Replay(blocks), op.done), Head(op.todo))
    BY <2>2 DEF ExecutesCleanly, RunTxs
  <2> QED BY <1>3, <2>1, <2>3
<1>5. ~ CreditOverflows
  BY DEF CreditOverflows, CreditNeverOverflows
<1>6. ~ RejectRoots
  <2> SUFFICES ASSUME RejectRoots PROVE FALSE
    OBVIOUS
  <2>1. op.pc = "next" /\ op.todo = << >> /\ ~ RootsMatch
    BY DEF RejectRoots, Executed
  <2>2. OfferedTxs = op.done
    BY <2>1, OfferedPrefix
  <2>3. acct = FoldLeft(Execute, Replay(blocks), op.done)
    BY <1>3, <2>1 DEF RunTxs
  <2>4. op.header = ComputedHeader
    BY <2>2, <2>3 DEF HonestHeader, ComputedHeader
  <2> QED BY <2>1, <2>4 DEF RootsMatch
<1>7. CASE PutHeight
  <2>1. blocks' = Append(blocks, NewBlock)
    BY <1>7 DEF PutHeight
  <2>2. blocks \in Seq({dBlocks[h] : h \in 1..dHeight} \cup {NewBlock})
        /\ Len(blocks) = dHeight
    <3> DEFINE B == {dBlocks[h] : h \in 1..dHeight}
    <3>1. blocks \in Seq(B) /\ Len(blocks) = dHeight
      BY <1>1, <1>2, UpFacts DEF Height
    <3> HIDE DEF B
    <3>2. blocks \in Seq(B \cup {NewBlock})
      BY <3>1
    <3> QED BY <3>1, <3>2 DEF B
  <2>3. Len(Append(blocks, NewBlock)) = dHeight + 1
    <3> DEFINE B == {dBlocks[h] : h \in 1..dHeight} \cup {NewBlock}
    <3>1. blocks \in Seq(B) /\ NewBlock \in B
      BY <2>2
    <3> HIDE DEF B
    <3> QED BY <2>2, <3>1, AppendProperties
  <2> QED BY <1>2, <2>1, <2>2, <2>3
<1>8. ~ PutBlock /\ ~ DebitSender /\ ~ CreditRecipient /\ ~ IndexTx
  BY <1>1 DEF PutBlock, DebitSender, CreditRecipient, IndexTx, Operating, Idle
<1>9. ~ InitFromGenesis /\ ~ RebuildFromStore /\ ~ Crash
  BY <1>1 DEF InitFromGenesis, RebuildFromStore, Crash
<1>10. /\ ~ StartMine /\ \A tx : ~ submit_transaction(tx)
       /\ \A txs, hd, c : ~ StartApply(txs, hd, c) /\ \A h : ~ set_last_commit(h)
  BY DEF StartMine, submit_transaction, StartApply, set_last_commit, Busy
<1> QED BY <1>4, <1>5, <1>6, <1>7, <1>8, <1>9, <1>10 DEF Next

(* A node that is not tainted accepts every block an honest peer built on  *)
(* its tip, provided the genesis supply fits an Amount: otherwise a credit *)
(* could overflow.                                                         *)
THEOREM HonestBlocksAccepted ==
    ASSUME GenesisSupply <= AmountMax
    PROVE  Spec => HonestBlockAccepted
<1>1. Inv /\ ReplayInv /\ CreditNeverOverflows /\ [Next]_vars => [Accepted]_vars
  BY AcceptedStep
<1> QED BY <1>1, Invariance, ReplayInvariance, CreditsFit, PTL DEF Spec, HonestBlockAccepted, Accepted

=============================================================================
