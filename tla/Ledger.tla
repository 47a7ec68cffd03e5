------------------------------- MODULE Ledger -------------------------------
(***************************************************************************)
(* ChainLedger (crates/sprax-core/src/ledger.rs) with the TxExecutor it    *)
(* drives (executor.rs) over the RedbStore (crates/sprax-storage).         *)
(*                                                                         *)
(* Every store call of the code (set_account, put_tx_index, put_block,     *)
(* put_height) commits a redb write transaction of its own, so one call of *)
(* mine_block or apply_block is modelled as the sequence of its durable    *)
(* writes: the process may crash between any two of them, and apply_block  *)
(* may give up half way.  The node holds the ledger behind one lock, so no *)
(* other ledger operation runs between two steps of an operation.          *)
(*                                                                         *)
(* A hash is an injective constructor applied to what the code hashes; the *)
(* state root is the account table itself.                                 *)
(***************************************************************************)
EXTENDS Naturals, Sequences, FiniteSets, SequencesExt, Sums

CONSTANTS
    Addr,         \* account addresses
    Tx,           \* the transactions clients and peers may present
    Genesis,      \* [Addr -> Nat]: genesis balances
    AmountMax,    \* largest Amount (u128::MAX in the code)
    NonceMax,     \* largest nonce (u64::MAX in the code)
    MaxHeight,    \* bound: heights explored
    MaxBlockTxs,  \* bound: transactions of a block offered by a peer
    MaxCrashes,   \* bound: process crashes
    FaultyPeers,  \* may a peer offer a block that fails validation?
    Bogus         \* a root that no execution computes

Msg == [to : Addr, amount : Nat]

(* What the ledger reads of a signed transaction.  auth stands for the     *)
(* chain id, public key and signature checks of                            *)
(* validate_transaction_static.                                            *)
TxRecord == [sender : Addr, nonce : Nat, msgs : Seq(Msg), fee : Nat,
             auth : BOOLEAN]

ASSUME LedgerAssumption ==
    /\ IsFiniteSet(Addr)
    /\ IsFiniteSet(Tx)
    /\ Tx \subseteq TxRecord
    /\ Genesis \in [Addr -> Nat]
    /\ AmountMax \in Nat
    /\ NonceMax \in Nat
    /\ MaxHeight \in Nat
    /\ MaxBlockTxs \in Nat
    /\ MaxCrashes \in Nat
    /\ FaultyPeers \in BOOLEAN

VARIABLES
    acct,      \* durable: STATE_TABLE, one AccountState per address
    dHeight,   \* durable: meta:height, NoHeight before genesis
    dBlocks,   \* durable: blk:<height>, a function over the stored heights
    dTxIndex,  \* durable: tx:<hash>, the height of the entry or NoHeight
    up,        \* is the process running?
    blocks,    \* memory: Vec<Block>, without the genesis block
    txIndex,   \* memory: HashMap tx -> height, NoHeight when absent
    mempool,   \* memory: Vec<Transaction>
    op,        \* memory: the operation that holds the ledger lock
    crashes,   \* crashes so far (only to bound the exploration)
    tainted    \* history: an operation was cut off after an account write

durable == <<acct, dHeight, dBlocks, dTxIndex>>
memory  == <<blocks, txIndex, mempool, op>>
history == <<crashes, tainted>>
vars    == <<durable, memory, up, history>>

NoHeight == MaxHeight + 1

block_hash(header) == [hashOf |-> header]

GenesisState == [a \in Addr |-> [nonce |-> 0, balance |-> Genesis[a]]]

(* The genesis header; the other headers chain back to it.                 *)
GenesisHeader == [height |-> 0, parent |-> Bogus, root |-> GenesisState,
                  txsRoot |-> << >>, receiptsRoot |-> << >>]

LatestHeader(chain) == IF chain = << >> THEN GenesisHeader ELSE Last(chain).header

-----------------------------------------------------------------------------
(* Transaction validation and execution: executor.rs                       *)

AmountOf(msgs) == Sum([i \in DOMAIN msgs |-> msgs[i].amount], DOMAIN msgs)

TransferTotal(tx) == AmountOf(tx.msgs)

TotalRequired(tx) == TransferTotal(tx) + tx.fee

ValidStatic(tx) ==
    /\ tx.auth
    /\ \A i \in DOMAIN tx.msgs : tx.msgs[i].amount # 0

(* Mutant: the balance check is missing.                                   *)
CanExecuteUnfunded(state, tx) ==
    /\ ValidStatic(tx)
    /\ tx.nonce = state[tx.sender].nonce

(* The checks execute_transaction makes before its first write; checked_add *)
(* fails exactly when the exact sum does not fit an Amount.                *)
CanExecute(state, tx) ==
    /\ ValidStatic(tx)
    /\ tx.nonce = state[tx.sender].nonce
    /\ TotalRequired(tx) <= AmountMax
    /\ state[tx.sender].balance >= TotalRequired(tx)

(* Mutant: the nonce is not advanced.                                      *)
SameNonce(n) == n

NextNonce(n) == IF n < NonceMax THEN n + 1 ELSE n

(* Mutants: the fee, or everything, stays with the sender.                  *)
DebitWithoutFee(state, tx) ==
    [state EXCEPT ![tx.sender] =
        [nonce   |-> NextNonce(@.nonce),
         balance |-> @.balance - TransferTotal(tx)]]

DebitNothing(state, tx) ==
    [state EXCEPT ![tx.sender].nonce = NextNonce(@)]

(* The first write of execute_transaction: debit and nonce together.       *)
Debit(state, tx) ==
    [state EXCEPT ![tx.sender] =
        [nonce   |-> NextNonce(@.nonce),
         balance |-> @.balance - TotalRequired(tx)]]

CreditFits(state, m) == state[m.to].balance + m.amount <= AmountMax

(* One write per Transfer message.                                         *)
Credit(state, m) == [state EXCEPT ![m.to].balance = @ + m.amount]

(* What the whole of execute_transaction does when nothing interrupts it.  *)
Execute(state, tx) == FoldLeft(Credit, Debit(state, tx), tx.msgs)

(* The transactions of one block, in order.                                *)
RunBlock(state, block) == FoldLeft(Execute, state, block.txs)

(* The state a node reaches that executes a chain from genesis without a   *)
(* crash and without a failed block: what an honest peer holds.            *)
Replay(chain) == FoldLeft(RunBlock, GenesisState, chain)

-----------------------------------------------------------------------------
Idle == [kind |-> "idle"]

(* The operation in progress: transactions still to execute, the ones      *)
(* executed, the transaction under way and its unpaid messages, and for    *)
(* apply_block the header received and whether it came with a certificate. *)
Operation(kind, txs, header, commit) ==
    [kind |-> kind, pc |-> "next", todo |-> txs, done |-> << >>,
     credits |-> << >>, header |-> header, commit |-> commit]

EmptyIndex == [tx \in Tx |-> NoHeight]

Init ==
    /\ acct = [a \in Addr |-> [nonce |-> 0, balance |-> 0]]
    /\ dHeight = NoHeight
    /\ dBlocks = << >>
    /\ dTxIndex = EmptyIndex
    /\ up = FALSE
    /\ blocks = << >>
    /\ txIndex = EmptyIndex
    /\ mempool = << >>
    /\ op = Idle
    /\ crashes = 0
    /\ tainted = FALSE

Height == Len(blocks)

TxsOf(chain) == {tx \in Tx : \E h \in DOMAIN chain : tx \in Range(chain[h].txs)}

(* open_or_init on a store without a height: genesis is written.  A crash   *)
(* in the middle is repaired by writing the same values again.             *)
InitFromGenesis ==
    /\ ~up
    /\ dHeight = NoHeight
    /\ up' = TRUE
    /\ acct' = GenesisState
    /\ dHeight' = 0
    /\ UNCHANGED <<dBlocks, dTxIndex, memory, history>>

(* rebuild_from_store refuses to start when a block is missing.            *)
CanRebuild == 1..dHeight \subseteq DOMAIN dBlocks

(* Mutant: the transaction index is not read back.                         *)
RebuildWithoutIndex ==
    /\ ~up
    /\ dHeight # NoHeight
    /\ CanRebuild
    /\ up' = TRUE
    /\ blocks' = [h \in 1..dHeight |-> dBlocks[h]]
    /\ txIndex' = EmptyIndex
    /\ mempool' = << >>
    /\ op' = Idle
    /\ UNCHANGED <<durable, history>>

(* open_or_init on a store with a height: blocks and the index entries of   *)
(* their transactions are read back, nothing is executed again.            *)
RebuildFromStore ==
    /\ ~up
    /\ dHeight # NoHeight
    /\ CanRebuild
    /\ up' = TRUE
    /\ blocks' = [h \in 1..dHeight |-> dBlocks[h]]
    /\ txIndex' = [tx \in Tx |-> IF tx \in TxsOf(blocks') THEN dTxIndex[tx]
                                                          ELSE NoHeight]
    /\ mempool' = << >>
    /\ op' = Idle
    /\ UNCHANGED <<durable, history>>

(* Has the operation under way written accounts?                            *)
Wrote == op # Idle /\ (op.done # << >> \/ op.pc # "next")

(* The process dies: memory is lost, every committed write survives.       *)
Crash ==
    /\ up
    /\ crashes < MaxCrashes
    /\ crashes' = crashes + 1
    /\ tainted' = (tainted \/ Wrote)
    /\ up' = FALSE
    /\ blocks' = << >>
    /\ txIndex' = EmptyIndex
    /\ mempool' = << >>
    /\ op' = Idle
    /\ UNCHANGED durable

submit_transaction(tx) ==
    /\ up
    /\ op = Idle
    /\ txIndex[tx] = NoHeight
    /\ ~ Contains(mempool, tx)
    /\ CanExecute(acct, tx)
    /\ mempool' = Append(mempool, tx)
    /\ UNCHANGED <<durable, blocks, txIndex, op, up, history>>

(* mine_block takes the whole mempool; what does not execute is dropped.   *)
StartMine ==
    /\ up
    /\ op = Idle
    /\ Height < MaxHeight
    /\ op' = Operation("mine", mempool, GenesisHeader, FALSE)
    /\ mempool' = << >>
    /\ UNCHANGED <<durable, blocks, txIndex, up, history>>

(* What peers offer: a block an honest node would build on this chain, and  *)
(* from a faulty peer any transactions with one root that does not match,   *)
(* or with the very roots this node will compute.                          *)
BlockBodies == SeqOf(Tx, MaxBlockTxs)

HonestHeader(txs) ==
    [height       |-> Height + 1,
     parent       |-> block_hash(LatestHeader(blocks)),
     root         |-> FoldLeft(Execute, Replay(blocks), txs),
     txsRoot      |-> txs,
     receiptsRoot |-> txs]

ExecutesCleanly(state, txs) ==
    \A i \in DOMAIN txs :
        CanExecute(FoldLeft(Execute, state, SubSeq(txs, 1, i - 1)), txs[i])

OfferedHeaders(txs) ==
    LET honest == IF ExecutesCleanly(Replay(blocks), txs)
                    THEN {HonestHeader(txs)} ELSE {}
        closed == [HonestHeader(txs) EXCEPT !.root = FoldLeft(Execute, acct, txs)]
        faulty == {closed, [closed EXCEPT !.root = Bogus],
                           [closed EXCEPT !.txsRoot = Bogus],
                           [closed EXCEPT !.receiptsRoot = Bogus]}
    IN  IF FaultyPeers /\ Len(txs) > 0 THEN honest \cup faulty ELSE honest

(* apply_block up to its first write.  A block at or below the local height *)
(* is ignored; any other height, or another parent, is refused: neither     *)
(* changes the ledger.                                                     *)
StartApply(txs, header, commit) ==
    /\ up
    /\ op = Idle
    /\ header.height = Height + 1
    /\ header.height <= MaxHeight
    /\ header.parent = block_hash(LatestHeader(blocks))
    /\ op' = Operation("apply", txs, header, commit)
    /\ UNCHANGED <<durable, blocks, txIndex, mempool, up, history>>

-----------------------------------------------------------------------------
Busy == op # Idle

(* Mutants: the sender is written without the fee, or without the nonce.    *)
DebitSenderWithoutFee ==
    /\ Busy
    /\ op.pc = "next"
    /\ op.todo # << >>
    /\ LET tx == Head(op.todo) IN
         /\ CanExecute(acct, tx)
         /\ acct' = DebitWithoutFee(acct, tx)
         /\ op' = [op EXCEPT !.pc = "credit", !.credits = tx.msgs]
    /\ UNCHANGED <<dHeight, dBlocks, dTxIndex, blocks, txIndex, mempool,
                   up, history>>

DebitSenderWithoutNonce ==
    /\ Busy
    /\ op.pc = "next"
    /\ op.todo # << >>
    /\ LET tx == Head(op.todo) IN
         /\ CanExecute(acct, tx)
         /\ acct' = [acct EXCEPT ![tx.sender].balance = @ - TotalRequired(tx)]
         /\ op' = [op EXCEPT !.pc = "credit", !.credits = tx.msgs]
    /\ UNCHANGED <<dHeight, dBlocks, dTxIndex, blocks, txIndex, mempool,
                   up, history>>

(* execute_transaction: the checks pass and the sender is written.         *)
DebitSender ==
    /\ Busy
    /\ op.pc = "next"
    /\ op.todo # << >>
    /\ LET tx == Head(op.todo) IN
         /\ CanExecute(acct, tx)
         /\ acct' = Debit(acct, tx)
         /\ op' = [op EXCEPT !.pc = "credit", !.credits = tx.msgs]
    /\ UNCHANGED <<dHeight, dBlocks, dTxIndex, blocks, txIndex, mempool,
                   up, history>>

(* execute_transaction: one recipient is written.                          *)
CreditRecipient ==
    /\ Busy
    /\ op.pc = "credit"
    /\ op.credits # << >>
    /\ CreditFits(acct, Head(op.credits))
    /\ acct' = Credit(acct, Head(op.credits))
    /\ op' = [op EXCEPT !.credits = Tail(@)]
    /\ UNCHANGED <<dHeight, dBlocks, dTxIndex, blocks, txIndex, mempool,
                   up, history>>

(* The transaction at hand fails: mine_block drops it and goes on with the  *)
(* next one, apply_block returns the error.  Nothing written is undone.    *)
AfterFailure ==
    IF op.kind = "mine"
      THEN [op EXCEPT !.pc = "next", !.todo = Tail(@), !.credits = << >>]
      ELSE Idle

TxInvalid ==
    /\ Busy
    /\ op.pc = "next"
    /\ op.todo # << >>
    /\ ~ CanExecute(acct, Head(op.todo))
    /\ op' = AfterFailure
    /\ tainted' = (tainted \/ (op.kind = "apply" /\ Wrote))
    /\ UNCHANGED <<durable, blocks, txIndex, mempool, up, crashes>>

CreditOverflows ==
    /\ Busy
    /\ op.pc = "credit"
    /\ op.credits # << >>
    /\ ~ CreditFits(acct, Head(op.credits))
    /\ op' = AfterFailure
    /\ tainted' = TRUE
    /\ UNCHANGED <<durable, blocks, txIndex, mempool, up, crashes>>

(* The receipt enters tx_index and the store's index.                      *)
IndexTx ==
    /\ Busy
    /\ op.pc = "credit"
    /\ op.credits = << >>
    /\ LET tx == Head(op.todo) IN
         /\ txIndex' = [txIndex EXCEPT ![tx] = Height + 1]
         /\ dTxIndex' = [dTxIndex EXCEPT ![tx] = Height + 1]
         /\ op' = [op EXCEPT !.pc = "next", !.todo = Tail(@),
                             !.done = Append(@, tx)]
    /\ UNCHANGED <<acct, dHeight, dBlocks, blocks, mempool, up, history>>

Executed == Busy /\ op.pc = "next" /\ op.todo = << >>

(* The roots the code computes once everything is executed.                *)
ComputedHeader ==
    [height       |-> Height + 1,
     parent       |-> block_hash(LatestHeader(blocks)),
     root         |-> acct,
     txsRoot      |-> op.done,
     receiptsRoot |-> op.done]

RootsMatch == op.kind = "mine" \/ op.header = ComputedHeader

NewBlock == [header |-> ComputedHeader, txs |-> op.done, commit |-> op.commit]

(* apply_block: state, transaction or receipt root differs.                *)
RejectRoots ==
    /\ Executed
    /\ ~ RootsMatch
    /\ op' = Idle
    /\ tainted' = (tainted \/ Wrote)
    /\ UNCHANGED <<durable, blocks, txIndex, mempool, up, crashes>>

(* Mutant: the height is written before the block.                         *)
PutHeightFirst ==
    /\ Executed
    /\ RootsMatch
    /\ dHeight' = Height + 1
    /\ op' = [op EXCEPT !.pc = "height"]
    /\ UNCHANGED <<acct, dBlocks, dTxIndex, blocks, txIndex, mempool, up, history>>

(* persist_block.                                                          *)
PutBlock ==
    /\ Executed
    /\ RootsMatch
    /\ dBlocks' = [h \in DOMAIN dBlocks \cup {Height + 1} |->
                     IF h = Height + 1 THEN NewBlock ELSE dBlocks[h]]
    /\ op' = [op EXCEPT !.pc = "height"]
    /\ UNCHANGED <<acct, dHeight, dTxIndex, blocks, txIndex, mempool, up, history>>

(* mempool.retain: a pooled transaction stays unless it was indexed.       *)
KeepUnindexed(pool, tx) ==
    IF txIndex[tx] = NoHeight THEN Append(pool, tx) ELSE pool

(* put_height, then the block enters memory; apply_block also removes the   *)
(* indexed transactions from the mempool.                                  *)
PutHeight ==
    /\ Busy
    /\ op.pc = "height"
    /\ dHeight' = Height + 1
    /\ blocks' = Append(blocks, NewBlock)
    /\ mempool' = IF op.kind = "mine" THEN mempool
                  ELSE FoldLeft(KeepUnindexed, << >>, mempool)
    /\ op' = Idle
    /\ UNCHANGED <<acct, dBlocks, dTxIndex, txIndex, up, history>>

(* Mutant: the block is written back under the latest height.               *)
set_last_commit_at_tip(h) ==
    /\ up
    /\ op = Idle
    /\ h \in DOMAIN blocks
    /\ blocks' = [blocks EXCEPT ![h].commit = TRUE]
    /\ dBlocks' = [dBlocks EXCEPT ![Height] = blocks'[h]]
    /\ UNCHANGED <<acct, dHeight, dTxIndex, txIndex, mempool, op, up, history>>

(* set_last_commit: the certificate of a committed block is stored; the     *)
(* block is written again as a whole.                                      *)
set_last_commit(h) ==
    /\ up
    /\ op = Idle
    /\ h \in DOMAIN blocks
    /\ blocks' = [blocks EXCEPT ![h].commit = TRUE]
    /\ dBlocks' = [dBlocks EXCEPT ![h] = blocks'[h]]
    /\ UNCHANGED <<acct, dHeight, dTxIndex, txIndex, mempool, op, up, history>>

Next ==
    \/ InitFromGenesis
    \/ RebuildFromStore
    \/ Crash
    \/ \E tx \in Tx : submit_transaction(tx)
    \/ StartMine
    \/ \E txs \in BlockBodies : \E hd \in OfferedHeaders(txs), c \in BOOLEAN :
          StartApply(txs, hd, c)
    \/ DebitSender
    \/ CreditRecipient
    \/ TxInvalid
    \/ CreditOverflows
    \/ IndexTx
    \/ RejectRoots
    \/ PutBlock
    \/ PutHeight
    \/ \E h \in 1..MaxHeight : set_last_commit(h)

Spec == Init /\ [][Next]_vars

-----------------------------------------------------------------------------
(* Properties                                                              *)

Account == [nonce : Nat, balance : Nat]
Heights == 0..MaxHeight

(* Shape of the state: what the tables, the caches and the operation under  *)
(* way may hold.                                                           *)
TypeOK ==
    /\ acct \in [Addr -> Account]
    /\ dHeight \in Heights \cup {NoHeight}
    /\ DOMAIN dBlocks \subseteq 1..MaxHeight
    /\ dTxIndex \in [Tx -> 1..NoHeight]
    /\ txIndex \in [Tx -> 1..NoHeight]
    /\ up \in BOOLEAN
    /\ Height \in Heights
    /\ mempool \in Seq(Tx)
    /\ op = Idle \/ /\ op.kind \in {"mine", "apply"}
                    /\ op.pc \in {"next", "credit", "height"}
                    /\ op.todo \in Seq(Tx)
                    /\ op.done \in Seq(Tx)
                    /\ op.credits \in Seq(Msg)
    /\ crashes \in 0..MaxCrashes
    /\ tainted \in BOOLEAN

(* Replay protection over the whole chain: no transaction is included       *)
(* twice, neither in two blocks nor twice in one, whatever was crashed,     *)
(* refused half way or mined again in between.  (At nonce u64::MAX the      *)
(* saturating increment would repeat; such a transaction is excluded.)     *)
NoReplay ==
    \A g, h \in DOMAIN blocks :
        \A i \in DOMAIN blocks[g].txs, j \in DOMAIN blocks[h].txs :
            /\ blocks[g].txs[i] = blocks[h].txs[j]
            /\ blocks[g].txs[i].nonce < NonceMax
            => g = h /\ i = j

(* The durable chain can always be reopened: every height up to the stored  *)
(* one has a block, linked to its predecessor, and a running ledger holds   *)
(* exactly that chain.  rebuild_from_store refuses to start otherwise.     *)
Recoverable ==
    dHeight # NoHeight =>
        /\ CanRebuild
        /\ \A h \in 1..dHeight :
             dBlocks[h].header.parent =
                 block_hash(IF h = 1 THEN GenesisHeader ELSE dBlocks[h - 1].header)
        /\ up => blocks = [h \in 1..dHeight |-> dBlocks[h]]

(* The index answers for every committed transaction with the height of     *)
(* its block, on disk and in memory: a block that fails after some of its    *)
(* transactions were indexed cannot overwrite such an entry.               *)
IndexAgrees ==
    dHeight # NoHeight =>
        \A h \in 1..dHeight : \A i \in DOMAIN dBlocks[h].txs :
            LET tx == dBlocks[h].txs[i] IN
              tx.nonce < NonceMax =>
                /\ dTxIndex[tx] = h
                /\ up => txIndex[tx] = h

Supply == Sum([a \in Addr |-> acct[a].balance], Addr)
GenesisSupply == Sum(Genesis, Addr)

(* Owed to recipients by the transaction under way, and the fees taken so   *)
(* far, which the executor credits to nobody.                              *)
InFlight == IF Busy THEN AmountOf(op.credits) ELSE 0

FeesTaken ==
    Sum([tx \in Tx |-> IF \/ dTxIndex[tx] # NoHeight
                          \/ Busy /\ op.pc = "credit" /\ tx = Head(op.todo)
                       THEN tx.fee ELSE 0], Tx)

(* All money there is.                                                     *)
Total == Supply + InFlight + FeesTaken

(* No operation creates money, also when a crash cuts a transfer off between *)
(* its two account writes or a credit overflows after the debit was written *)
(* (executor.rs:133-158): the amount may be lost, never doubled by what the *)
(* reopened ledger goes on to accept.                                      *)
NeverMints == dHeight # NoHeight => Total <= GenesisSupply

(* Balances, fees taken and transfers in flight never exceed the genesis     *)
(* supply, and add up to it exactly while the process has not crashed,       *)
(* whatever blocks were refused.                                           *)
Conservation ==
    dHeight # NoHeight =>
        /\ Total <= GenesisSupply
        /\ crashes = 0 => Total = GenesisSupply

(* The checked_add of a recipient's credit, which would fail after the      *)
(* sender was written, never fails when the genesis supply fits an Amount. *)
CreditNeverOverflows ==
    Busy /\ op.pc = "credit" /\ op.credits # << >> =>
        CreditFits(acct, Head(op.credits))

(* Unless an operation was cut off after an account write, the account        *)
(* table is between operations what executing the committed blocks from        *)
(* genesis gives, and the tip's header says so: mempool order, transactions   *)
(* dropped while mining and blocks refused before a write do not matter.     *)
StateIsReplay ==
    up /\ op = Idle /\ ~ tainted =>
        acct = Replay(blocks) /\ acct = LatestHeader(blocks).root

OfferedTxs == op.done \o op.todo

(* Under the same condition, a block an honest peer built on our tip passes    *)
(* every check after its transactions ran.                                  *)
HonestBlockAccepted ==
    [][/\ Busy /\ op.kind = "apply" /\ ~ tainted
       /\ ExecutesCleanly(Replay(blocks), OfferedTxs)
       /\ op.header = HonestHeader(OfferedTxs)
       /\ op' = Idle /\ up'
       => Len(blocks') > Len(blocks)]_vars

(* A failed block changes nothing: the account table is always what the        *)
(* committed blocks give.                                                   *)
FailedBlocksHarmless == up /\ op = Idle => acct = Replay(blocks)

(* Nothing lost: between operations of a running ledger, balances and fees  *)
(* taken add up to the genesis supply.                                     *)
TransfersAtomic ==
    up /\ op = Idle => Supply + FeesTaken = GenesisSupply

(* The durable height never goes back and a block at or below it keeps its   *)
(* header and its transactions for ever: only its certificate is rewritten. *)
CommittedImmutable ==
    [][dHeight # NoHeight =>
        /\ dHeight' # NoHeight /\ dHeight' >= dHeight
        /\ \A h \in 1..dHeight :
             /\ dBlocks'[h].header = dBlocks[h].header
             /\ dBlocks'[h].txs = dBlocks[h].txs]_vars

=============================================================================
