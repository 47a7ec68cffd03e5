# TLA+ models of the Sprax chain

These modules model the node of the Sprax blockchain (`crates/`) - how blocks
are executed and made durable, how validators agree on them, who may propose,
and who is staked, slashed and jailed - and its three browser applications: the
web wallet with its library, the admin panel and the explorer. TLC checks every
module on small instances; the safety properties of every component, and that the
wallet implements its abstract specification, are proved with TLAPS for every value
of the constants.

Paths below are relative to the repository; `PROJECT.json` maps each definition
to the lines it models.

## 1. The system

A node is one process (`crates/sprax-node/src/service.rs`) that shares a
`ChainLedger` and a `StakingKeeper`, each behind a lock, between these tasks:

* the **consensus driver** (`consensus_driver.rs`), a loop of
  `run_one_height`: refresh the validator set, choose the proposer, propose or
  wait for a proposal, prevote, precommit, store a certificate;
* the **gossip task**, which submits transactions and applies blocks as they
  arrive, at any moment;
* the **evidence listener**, which slashes on evidence from peers;
* the **JSON-RPC server**, which reads and submits transactions;
* one reader and one writer task per **peer connection**
  (`crates/sprax-network/src/service.rs`), which feed the channels the others
  read.

| Part | State | Operations | Hard because | Correct when |
|---|---|---|---|---|
| Ledger (`sprax-core/src/ledger.rs`, `executor.rs`) | accounts, height, blocks and transaction index on disk; blocks, index, mempool in memory | open, submit, mine, apply, set certificate | each store call is a transaction of its own: a crash or a failing block stops an operation between two writes | the chain reopens, nothing is included twice, nothing is minted, accounts are what the blocks say |
| Store (`sprax-storage/src/redb_store.rs`) | tables of redb | get and put, one durable transaction per call | no transaction spans two calls | what was committed stays |
| Engine (`sprax-consensus/src/engine.rs`, `vote.rs`, `evidence.rs`) | height, round, two tallies, validator set | receive votes, quorums, conflicts | votes lost, repeated, early or late; different validator sets | two quorums never certify different blocks; only equivocators are reported |
| Driver (`sprax-node/src/consensus_driver.rs`) | last attempted height, round, precommitted flag | attempts with two timeouts | the ledger moves under it; a restart forgets everything but the ledger | one vote per height for a block that reaches it; honest validators are slashed only on evidence somebody made up |
| Validator set (`sprax-consensus/src/validator.rs`) | members, powers, priorities | threshold, weighted round robin | the set is rebuilt at every attempt | proportional shares, no starvation, bounded priorities |
| Staking keeper (`sprax-consensus/src/staking.rs`) | validators, delegations, unbonding queue, a file | register, delegate, undelegate, slash, jail, unjail | calls fail after their first assignment; evidence repeats; the file is written once | stake is neither created nor lost, jail terms are served, tombstones hold |
| P2P (`sprax-network/src/service.rs`) | table of peers, channels | dial, accept, handshake, catch up, broadcast | two connections to one peer, heights read at start | a connected peer is reachable, a node that is behind catches up |
| Contracts (`sprax-wasm/src`) | key-value store per contract, call lock | token, escrow, governance messages | gas may run out between two writes and nothing is undone | supply covers balances, one ballot per voter, one payout |
| Faucet (`sprax-faucet/src`) | limiter, statistics | claim | several claims between two blocks share a nonce | a rate-limited claimant was paid |
| Indexers (`sprax-indexer/src`, `backend/app/modules/indexer`) | index tables | index a block, refresh validators | repeated and skipped blocks | the index describes the chain |
| Web wallet (`apps/web-wallet`, `packages/sprax-wallet-core`) | unlocked account, network, Send dialog, balance | onboard, lock, switch network, send, poll | handlers go on after their dialog, account or network has changed; answers are lost | what is paid is what was asked for, once; the shown balance settles |
| Admin panel (`apps/admin-panel`) | stored token, profile, tab, lists and drafts | log in and out, read, poll, confirm, save | late answers of ended sessions, other windows, stale lists, lost answers | no screen waits in vain, no flag changes unconfirmed, "saved" is true |
| Explorer (`apps/explorer-ui`) | network, lists, record shown, route, dialogs | load, poll, page, pick, search, navigate | refreshes and picks overlap and none is cancelled; timers outlive their page | the page shows what its route names; lists settle; every link leads somewhere |
| CLI, REST backend, mobile wallet | none of the protocol | requests and formatting | - | - |

Interactions: the driver and the gossip task call `mine_block` and
`apply_block` of the ledger; the driver reads `get_active_validator_set` at
every attempt and calls `slash_equivocation`; the evidence listener calls it
too; `set_last_commit` writes a certificate onto a block that was committed
before it was voted on. The wallet asks a node for nonce and balance and posts
signed transactions to `/txs/broadcast`, which parses the addresses and calls
`submit_transaction`; the explorer asks a REST API and, failing that, the node; the
admin panel talks to the REST backend only. Inside a page there is one thread: what
interleaves is what happens between the awaits of the handlers.

## 2. Modules

| Module | Models | Extends |
|---|---|---|
| `Sums` | the sum of a function over a set, as a fold | - |
| `BagImages` | what a bag of requests becomes when each is renamed | `Sums` |
| `Ledger` | `ChainLedger`, `TxExecutor`, the tables of `RedbStore` | `Sums` |
| `ValidatorSet` | threshold and DWRR selection as operators | `Sums` |
| `Driver` | drivers, engines, ledgers and network of several nodes | `ValidatorSet` |
| `Rotation` | one engine's proposer over many attempts | `ValidatorSet` |
| `Staking` | `StakingKeeper` and its file | `Sums` |
| `Payments` | abstract: what a wallet promises about payments | - |
| `WebWallet` | the wallet application, `wallet-core` and the nodes it talks to; implements `Payments` | `Sums`, `Payments` (INSTANCE) |
| `AdminSession` | token, login, tabs and page requests of the admin panel | `BagImages` |
| `FeatureFlags` | its feature flag page with the confirmation dialog | `BagImages` |
| `AdminEdits` | its pages that write without a confirmation | `BagImages` |
| `ExplorerApi` | network, fallback and offline flag of the data service | - |
| `ExplorerFeeds` | lists, polls, paging, network changes | `ExplorerApi` |
| `ExplorerPicks` | selected records and search | `ExplorerApi` |
| `ExplorerRouter` | routes, pages, tabs, menus | - |
| `ExplorerWidgets` | wallet dialog, buttons with timers, search dialog | - |
| `FoldProofs` | induction over naturals and subsets, lemmas about sums and about folds over sequences, for any operator | `Sums` |
| `LedgerProofs` | theorems about `Ledger` | `Ledger`, `FoldProofs` (also by INSTANCE) |
| `DriverProofs` | theorems about `Driver` | `Driver`, `FoldProofs` |
| `RotationProofs` | theorems about `Rotation` | `Rotation`, `FoldProofs` |
| `StakingProofs` | theorems about `Staking` | `Staking`, `FoldProofs` |
| `WalletProofs` | theorems about `WebWallet`, with the refinement | `WebWallet`, `FoldProofs` (also by INSTANCE) |
| `AdminProofs` | theorems about the admin panel | `MCAdmin`, `FoldProofs` |
| `ExplorerProofs` | theorems about the explorer | `MCExplorer`, `FoldProofs` |
| `MCLedger`, `MCRotation`, `MCStaking` | constants for TLC | the module named |
| `MCDriver` | two validators beside a Byzantine one, with one kind of `trouble` per behaviour | `Driver` |
| `MCDriverFork` | three validators that all run the code | `Driver` |
| `MCWebWallet` | constants, and one `matter` per behaviour: payments or balances | `WebWallet` |
| `MCAdmin`, `MCExplorer` | the modules of the admin panel, of the explorer, side by side | those modules |

Some definitions are deliberate faults (`PutHeightFirst`, `handleSendTwice`), each
just before the definition it stands in for and described in its comment. They
show that the properties can fail; no specification uses them.

### Ledger

`mine_block` and `apply_block` are sequences of steps, one per durable write,
because `RedbStore` commits each call by itself: `StartMine` or `StartApply`,
then per transaction `DebitSender`, `CreditRecipient` per message and
`IndexTx`, then `PutBlock` and `PutHeight`. `TxInvalid`, `CreditOverflows` and
`RejectRoots` are the ways to fail. A miner drops a failing transaction and goes
on; `apply_block` returns, and neither undoes what was written. `Crash` may come
between any two steps; `RebuildFromStore` is what `open_or_init` does next. The
lock of the ledger means that no second operation starts before the first ends
(`op`).

Abstractions: a hash is an injective constructor over what is hashed, the state
root is the account table, the transaction and receipt roots are the executed
transactions; signatures, chain id and sizes are the flag `auth`. Peers offer a
block an honest node would build on this chain and, when `FaultyPeers`, blocks
with a root that does not match or with the very root this node will compute.
`tainted` is a history variable: some operation was cut off after an account
write.

### Driver

Each validator in `Honest` runs the code; the others may send any vote, a proposal
with any block on a prefix of an honest chain and under any proposer's name
(`ByzantineBlocks`: a header is not signed), any such block by gossip, and evidence
about anybody in `Framable`. Neither missing check of the code is filled in:
`await_proposal` compares the height of the message and not that of the block in it,
and `run_evidence_listener` verifies no signature and does not compare the votes with
the validator they are said to accuse. Honest messages are kept in sets and may be received at any
time, repeatedly or never. A chain is a sequence of entries and a block is the
chain that it ends, so the hash of a header, which covers its parent, determines
the chain. Per node, `pc` is the position in `run_one_height`: `start`,
`propose`, `await`, `prevote`, `votes`. `StartHeight` reads the height, refreshes
the set and selects the proposer; `ProposeAsLocal` mines on the ledger as it is
*now*, or fails (`ProposeFails`) and the attempt ends; `AcceptProposal` applies the
block before the vote; `CastPrevote`,
`HandlePrevote` and `HandlePrecommit` are the whole handlers, with the reactive
precommit and the certificate that may follow in the same call. `GossipBlock` and
`ReceiveEvidence` are the other two tasks. `Restart` keeps the ledger and the
certificates and resets the rest, the slashes too, because the staking file is never
written again. `Loaded` is the ledger every node starts with: below its tip are the
blocks that a Byzantine proposer may offer once more.

Two history variables are there for the properties: `slashed`, whom some honest node
ever slashed, and `framed`, those among them whose first slash followed evidence of a
Byzantine node and not two conflicting votes that somebody saw.

Abstractions: the engine's locked and valid values are written and never read by
the driver, and are left out. When a node has accused every validator, the code
sleeps and retries for ever; `StartHeight` is then disabled. Block execution is
not repeated here: a block of an honest peer that extends the chain is accepted,
one of a Byzantine peer may also be refused (`MayFail`). Powers are constant while
a set lasts; the change of powers by delegation is left to `Staking`.

### Rotation

One action per attempt: `carry_priorities` is `set_validator_set`,
`select_proposer` the turn. The set may change `MaxChanges` times.

### Staking

One action per method of the keeper, each under its write lock. Where a method
fails after an assignment, the assignment stays. `Restart` is `load_from_file`;
`save_to_file` is called once, by the process that creates the node, so `file`
never changes. `get_active_validator_set` is the set of answers the code may give:
the order of a hash map decides between equal stakes at the cut. Slash fractions
are one over a constant; the rounding of `f64` above 2^53 is left out.

### The browser applications

An async handler is cut at its awaits. What it captured before an await is kept in
a record of the call (`sends`, `fetching`, `calls`, `requests`, `posts`,
`refreshes`, `waiting`), and it goes on with those values whatever the user has
done since. A component that React unmounts loses its state, and a late answer
changes nothing in it; App and its children that stay mounted keep theirs. What is
typed when a button is pressed is a parameter of the action. Styling, wording,
formatting, charts, filters and sorting are left out.

**WebWallet.** A phrase stands for the wallet derived from it, an address is the
hash function and key it was computed from, and a transaction carries the number of
the submission it comes from, as a mark for the properties only. `handleSend` is
`StartSend`, then `nonceAnswered` (0 when anything went wrong) with the signing,
then `broadcastReceived` at the node and `broadcastAnswered`, `broadcastRefused` or
`broadcastLost`. `sprxToAtto` works on the digits that were typed, as the code does
on text: padded, cut off, or thrown out; an exponent makes it throw only within the
18 places that are read, behind them it is cut off with the surplus digits and the
amount is signed without it (`CutOff`). The nodes run the routes of `rpc_server.rs`
that the wallet calls - `parse_address` first, whose refusal `getBalance` and
`getAccountNonce` turn into zero - and then `submit_transaction` and `mine_block` of
`Ledger` on the wallet's accounts. Three constants say which bech32 prefix a node
reads, how it derives an address and how it orders the bytes it verifies
(`NodePrefix`, `NodeHash`, `NodeOrder`): run `wallet` gives them the
conventions of the wallet, so that it says something of everything after the first
refusal, runs `wallet_node` and `wallet_balance` those of the node's code.

**Payments** has two variables, what was asked for and what was paid by number of
request, and two steps. `PaymentsImplemented` is the refinement, with the
submissions as requests and the transactions in blocks as payments.

**AdminSession** keeps bags of requests by kind, token and progress. A 401 of any
request, also one that carries an old token, removes the token stored *now*. Other
windows share the storage and not the event that announces a change. The pages are
records of the permission, the read on mount and the interval that the code gives
them, and of whether their endpoint is one of the explorer's, which ask for no token
(blocks and transactions). `Serve` is `get_current_user` and `require_admin` of the
backend: 401 for a token that is not accepted, and for a page of somebody whose role
is not let through (`Barred`) the 403 that the panel treats as a failure.
**FeatureFlags** keeps the list as fetched, the dialog, and the text in it,
which the code does not clear on cancel; `update_feature_flag` refuses to enable a
critical flag. **AdminEdits** is one of four pages per
behaviour, with requests that the server takes, or does not, in any order;
`update_app_versions` writes an audit record and nothing else, `create_admin` refuses
a name that exists.

**ExplorerFeeds** follows each value on the page to where it came from: a network
or the sample data. Each refresh reads statistics and blocks in two stages, the REST
API and then the node, and looks the network up at each. **ExplorerPicks** has one
record per handler that waits. The backend wraps what it answers as
`{success, data}` and the service takes the wrapper for the record: a transaction or
an account then has the name `"undefined"` in state and route, its page throws, and
the error boundary replaces the explorer (`hasError`) until it is loaded again; a
wrapped search result has no type and nothing happens (`searchUntyped`). Only a
request that failed falls back. The backend has no route for one block, nor the typed
search result that the service expects; both are what the repository's indexer, which
nothing starts yet, would answer, and are kept as further possible answers.
**ExplorerRouter** describes every page by the routes
it is shown at, the data it needs, its tabs, the links on it and the records it
opens; a route is the sequence of the words of a path. **ExplorerWidgets** counts
the timers that nobody cancels. The connected wallet is kept three times, in the
dialog, in the header and in the storage; other windows write the storage
(`otherWindowStores`) and only loading the page again reads it.

`MCAdmin` and `MCExplorer` put several modules into one run. They share no variable
that both write (the two explorer modules over `ExplorerApi` excepted, which are
not run together), so a behaviour is of one module, chosen by `part` in the initial
state; the states explored are the sum and not the product. For the same reason a
reload of the page resets the variables of its own part only. A behaviour of the
feature flag page opens the dialog for the flags of one member of `Switches`: with
`{Flags}` that restricts nothing, and TLC takes the critical flags in one behaviour and
the others in another.

## 3. Runs

Bounds are constants and every one is named in the module that uses it.
`CHECK_DEADLOCK FALSE` stands in the configurations whose exploration ends at a
bound; `Rotation` never stops and is checked for deadlock.

| Run | Instance | Shows |
|---|---|---|
| `ledger` | 2 accounts, 4 transactions (two of one sender and nonce, one unsigned), 2 heights, blocks of up to 2 transactions, faulty peers | `Conservation`, `CreditNeverOverflows`, `HonestBlockAccepted`, `TypeOK` |
| `ledger_crash` | 3 transactions, the largest amount below the supply so that credits may overflow, 1 crash anywhere, faulty peers | `Recoverable`, `NeverMints`, `IndexAgrees`, `NoReplay`, `StateIsReplay`, `CommittedImmutable` |
| `driver` | powers 2, 1 and a Byzantine 1, one block in the ledger, rounds 0 and 1, and per behaviour one `trouble`: `blocks` (Byzantine votes and any block, also below the height, at one height), `evidence` (Byzantine votes and evidence made up about the smaller honest validator), `restarts` (two restarts over two heights), `misled` (any block and a restart) | `OneBlockVotePerHeight`, `CertificatesAgree`, `HonestNotSlashed`, `TypeOK`, `IndInv` |
| `rotation` | powers 4, 2, 1, 6 changes of the set | `ProportionalShare`, `PriorityBounded`, `EveryoneProposes` |
| `staking` | 2 accounts, amounts 3 with maximum 6, 2 unbonding entries, 1 restart | `UnslashedBacked`, `SharesCoverDelegations`, `TombstonedOut`, `JailServed`, `SlashedOnce`, `TypeOK` |
| `wallet` | 2 networks, 2 decimal places. Payments: 1 phrase, amounts that are padded, cut and have an exponent, funds for exactly two payments of 0.5 with their fees, 2 submissions. Balances: 2 phrases, 3 requests at once | `PaymentsImplemented`, `SubmittedWasTaken`, `ButtonFollowsSend`, `BalanceSettles`, `BalanceShown` |
| `admin` | 2 admins, one barred by the server, 4 tabs (polling, reading, neither, public), 2 tokens, 2 requests at once; 3 flags, two critical; 2 configurations and announcements, 2 projects, 2 new admins, 1 retry, 3 requests | `WaitsForSomething`, `EndedSessionNoticed`, `OnlyConfirmed`, `EditsLand` |
| `explorer` | 2 networks, 2 refreshes at once, 1 change of network or page; 2 picks of 2 records; every page and link; 2 wallets, 2 methods, 3 queries of which 2 are kept, other windows and reloads | `FeedsSettle`, `RouteShowsItsRecord`, `PageRendered`, `MenuStaysUnderPointer`, `WalletViewsAgree`, `ButtonHasOneTimer`, `ExplorerTypeOK` |

Why the bounds are enough: two transactions per block are the least for which the
first is written when the second fails, and two blocks the least for which a
transaction may return; a sum above the supply needs one overflow; two rounds show
a retry, and with a restart a round is attempted a second time, so that a vote for a
lower block can be followed by two more; two restarts let one validator restart twice or
both once; power 2 of 4 beside a Byzantine 1 is a set where two quorums of power three
overlap in exactly one honest validator, and a threshold one lower breaks
`CertificatesAgree` there. Six set changes let each validator leave with a debt
and return.

`MCDriver`, `MCWebWallet`, `MCAdmin` and `MCExplorer` divide the behaviours by a
variable that is chosen at the start, so combinations across the division (made-up
evidence and a restart, say) are not explored. `MCDriver` and `MCWebWallet` do it by a
condition on the next state beside the unrestricted `Spec` of `Driver` and `WebWallet`,
and the theorems are about that `Spec`: for the safety properties the proofs of section
5 remove these limits together with the bounds. In the admin panel and the explorer the
parts touch none of each other's variables, and the theorems are about `Spec` of
`MCAdmin`, for every `Switches`, and of `MCExplorer`.

In the applications the hazards are pairs: an answer and the action that made it
outdated, two sends, two saves, two picks, two refreshes. Two submissions suffice
for a repeated nonce, a retry after a lost answer and a dialog closed by another's
success; two tokens for an answer of an old session; a third request in `AdminEdits`
lets a write fall between two reads. One change of network lets refreshes of both
networks be under way together, and the refreshes that follow go on without bound.
Two decimal places and an amount of three show padding, cutting and an exponent
behind the last place; three balance requests let two late ones of other
networks or accounts arrive around a poll; two recent
queries of three words show the oldest dropped (the code keeps five).

What the properties concede is part of the result.

* `OneBlockVotePerHeight` speaks of votes for a block that reaches the height. With a
  Byzantine proposer the code also votes, more than once, for lower blocks: they are
  not refused (`consensus_driver.rs:230`), `apply_block` answers Ok to a block it
  already has, and the ledger has then not moved. Where every validator runs the code
  no vote is for a lower block, and the property says that too; no run has such an
  instance, the theorem covers it.
* `CertificatesAgree` likewise is about certificates that reach their height, and
  holds while no honest validator was slashed: a node that slashed one drops it from
  its set, and quorums of different sets need not meet.
* `HonestNotSlashed` allows an honest validator to be slashed after evidence that a
  Byzantine node made up, which nothing in the code prevents
  (`consensus_driver.rs:458`, `evidence.rs:16`, `staking.rs:306`), and after a
  restart: a restarted validator attempts its height in round 0 again, may vote
  differently there, and is slashed by an honest peer.
* `PaymentsImplemented` pays the worth of what was typed except when an exponent is
  cut off (`transaction.ts:24`); the digits before it are then what is paid.
* `BalanceSettles` allows zero, because `getBalance` makes every failure a zero;
  `BalanceShown` says that the account's own balance comes back again and again when
  its node goes on answering.
* `EditsLand` promises "saved and audited" only the audit (see `SavedIsStored` below)
  and a list at rest only if no read overtook another, and allows an announcement to go out
  again for each failure its author was told of.
* `RouteShowsItsRecord` promises an address page its account and history only if no
  two handlers ever waited together, because a search sets the account before its
  history and route, and only outside the error page.
* `WalletViewsAgree` allows the header to name a wallet after a disconnect, and the
  storage to hold what another window wrote since.
* `FeedsSettle` says of which network a list is, not of which page: the poll writes
  the first page over the one shown.
* `PageRendered` excludes paths typed into the browser that no link leads to; they,
  and details routes of which nothing is loaded, show an empty page.

### Disagreements between the code and what is said of it

Each is a run that ends with a counterexample; the finding in `PROJECT.json`
quotes the sentence.

| Run | Property | What happens |
|---|---|---|
| `driver_fork` | `NoForking` | blocks are committed before the vote, so two honest proposers of different rounds commit different blocks at a height |
| `wallet_balance` | `BalanceShown` | `parse_address` reads bech32 only behind `sprx` and the wallet's addresses begin with `sprax1`: the node answers 400 and the wallet shows zero for ever, while the roadmap ticks off that balances are real data |
| `wallet_node` | `HonestPaymentTaken` | the same refusal meets every broadcast; and behind it the node derives a sender's address with BLAKE3 and verifies the fields as declared where the wallet uses SHA-256 and signs them by name, while the roadmap has a user see a payment confirmed |
| `explorer_banner` | `BannerTellsSampleData` | transactions and validators fall back on sample data without setting the flag behind the banner, and the last of several reads decides it for all, while the roadmap says a viewer can always tell |

Six more sentences are stated as properties and refuted by TLC when they are added
to the configuration named; they are kept beside the models and have no run.

| Property | Configuration | What happens |
|---|---|---|
| `FailedBlocksHarmless` (`Ledger`) | `MCLedger` | a block whose second transaction fails, or whose root differs, leaves the first one's effects in the account table, while `MAINNET_SECURITY_CHECKLIST.md` says failures change no balance |
| `TransfersAtomic` (`Ledger`) | `MCLedgerCrash` | a crash between the write of the sender and that of the recipient loses the amount, while the comment in `executor.rs` says "atomically" |
| `ProposersAgree` (`Driver`) | `MCDriver` | the expected proposer depends on how many attempts this process made |
| `UndelegatedIsQueued` (`Staking`) | `MCStaking` | after a slash, an undelegation may lower the delegation, fail and queue nothing |
| `SavedIsStored` (`AdminEdits`) | `MCAdmin` | `update_app_versions` (`admin.py:323`) writes only an audit record and the read answers constants, while its docstring says it updates the configuration and the page reports the settings updated |
| `RecordsCanBeSeen` (`ExplorerPicks`) | `MCExplorer` | a click on a transaction or an address that the backend answers shows the wrapper (`api.ts:295`, `blockchain.py:45`), the page throws and the error page replaces the explorer, while the roadmap has a payment seen confirmed there |

Further observations that have no run of their own:

* `finalize_height` stores a certificate on whatever block the ledger holds at the
  height; after a fork that may be another block than the one certified.
* A validator that a Byzantine peer framed is out of the sets of the nodes that
  believed it until they restart.
* The staking file is never written again, so a restart forgets slashes and
  tombstones, and nothing ever matures the unbonding queue.
* After a fork neither half accepts the other's blocks.
* `AppVersionsPage` lets its form be saved before it was loaded and then sends the
  defaults of the page; it does no harm only because the server stores nothing.
* `hasPermission` knows `*` and `domain.*` and not the `*.read` that
  `ADMIN_RBAC.md` grants to viewers, who see only the tabs without a permission.
* The explorer's service starts on `local` while the header may name another
  network, and validators are loaded once per change of network and never polled.
* `handleDisconnect` does not tell App; the header names the wallet until a reload. A
  disconnect that is pressed while a wallet is being connected is undone when the timer
  of that connection fires.
* The explorer asks for blocks, transactions and addresses under paths that the REST
  backend serves only in part; its answers come from the node or are wrapped.

## 4. Fairness

* `Rotation`: weak fairness of `Next`. The driver's loop makes another attempt after
  every attempt, because both waits of `run_one_height` are bounded by timeouts and
  every error path returns to the loop.
* `WebWallet`: a balance request ends (the browser reports a failure if nothing else
  does, and `getBalance` turns it into zero), and the interval of the dashboard fires
  again and again (strong, because in the model it waits for room below
  `MaxFetching`). That a node goes on answering is no fairness of the specification;
  it is the hypothesis of `BalanceShown`.
* `AdminSession`: requests end and are delivered, `setInterval` fires, and a page
  that keeps asking without a token reaches the server at some time, which answers
  401 (strong: single requests may fail).
* `ExplorerFeeds`: the poll fires, and the refresh that has waited longest goes on.

Nothing makes a user act, a block be mined or a server accept. The liveness
properties are `EveryoneProposes`, `BalanceSettles`, `BalanceShown`,
`EndedSessionNoticed` and `FeedsSettle`; all others are safety properties and need no fairness.

## 5. Proofs

The theorems hold for every value of the constants that satisfies the named
`ASSUME` of the component; the bounds of the runs are among these constants. The
assumptions type the constants, and say further only that accounts, transactions
and validators are finitely many and, of the applications, that a bound leaves room
for what the first screen does (`MaxTokens` and `MaxRefreshes` are not 0), that the
console has a method to offer (`Methods` is not empty) and that opening paths are
sequences of words. What else a theorem needs is its hypothesis and is
given in the table.

| Module | Theorem | Statement |
|---|---|---|
| `LedgerProofs` | `TypeCorrect` | `Spec => []TypeOK` |
| | `AlwaysRecoverable` | `Spec => []Recoverable` |
| | `ChainImmutable` | `Spec => CommittedImmutable` (action property) |
| | `IndexesAgree` | `Spec => []IndexAgrees` |
| | `ReplayProtection` | `Spec => []NoReplay` |
| | `NoMoneyCreated` | `Spec => []NeverMints` |
| | `CreditsFit` | `Spec => []CreditNeverOverflows`, if `GenesisSupply <= AmountMax` |
| | `MoneyConserved` | `Spec => []Conservation`, if also no nonce is `NonceMax` |
| | `AccountsAreReplay` | `Spec => []StateIsReplay` |
| | `HonestBlocksAccepted` | `Spec => HonestBlockAccepted` (action property), if `GenesisSupply <= AmountMax` |
| `DriverProofs` | `Invariance` | `Spec => []IndInv` |
| | `TypeCorrect` | `Spec => []TypeOK` |
| | `VotesOnce` | `Spec => []OneBlockVotePerHeight`, restarts included |
| | `NeverSlashed` | `Spec => []HonestNotSlashed` |
| | `Agreement` | `Spec => []CertificatesAgree` |
| `RotationProofs` | `TypeCorrect` | `Spec => []TypeOK` |
| | `Bounded` | `Spec => []PriorityBounded` |
| | `Proportional` | `Spec => []ProportionalShare` |
| `StakingProofs` | `TypeCorrect` | `Spec => []TypeOK` |
| | `Covered` | `Spec => []SharesCoverDelegations` |
| | `Backed` | `Spec => []UnslashedBacked` |
| | `StaysOut` | `Spec => []TombstonedOut` |
| | `TermServed` | `Spec => []JailServed` |
| | `PunishedOnce` | `Spec => SlashedOnce` (action property) |
| `WalletProofs` | `TypeCorrect` | `Spec => []TypeOK` |
| | `OneCallPerDialog` | `Spec => []ButtonFollowsSend` |
| | `SubmittedTaken` | `Spec => []SubmittedWasTaken` |
| | `Implements` | `Spec => PaymentsImplemented` |
| `AdminProofs` | `SessionTypeCorrect` | `Spec => []SessionTypeOK` |
| | `ScreensWaitForSomething` | `Spec => []WaitsForSomething` |
| | `EditsTellTheTruth` | `Spec => []EditsLand` |
| | `FlagsOnlyAsConfirmed` | `Spec => OnlyConfirmed` (action property) |
| `ExplorerProofs` | `ExplorerTypeCorrect` | `Spec => []ExplorerTypeOK` |
| | `RoutesShowTheirRecords` | `Spec => []RouteShowsItsRecord` |
| | `EveryLinkShowsOnePage` | `Spec => []PageRendered` |
| | `WalletViewsStayTogether` | `Spec => []WalletViewsAgree` |
| | `BusyButtonsAreFreed` | `Spec => []ButtonHasOneTimer` |
| | `MenusStayUnderPointer` | `Spec => MenuStaysUnderPointer` (action property) |

Every module also proves its inductive invariant (`Invariance`, `AdminInvariant`,
`ExplorerInvariant`); the properties follow from it.

### Sums and folds

The community modules define sums and folds by a recursive function over subsets.
`FoldProofs` proves that the recursion has exactly one solution, by induction: a
nonempty set of naturals has a least element, so a property that a finite set has
whenever its subsets with one element less have it, all its subsets have. Induction
is stated over a set and not over a predicate, which the provers could not
instantiate. From the resulting equation follow the lemmas the other modules cite:
terms may be added in any order, a sum changes by what one term changes, a part sums
to no more than the whole. Its second part does the same for `FoldLeft`, with the
folded operator as its constant; the ledger and the wallet instantiate it with `Credit`,
`Execute`, `RunBlock`, `ExecuteOrDrop` and the digits of an amount.

### Ledger

`Inv` is the type invariant, `Recoverable`, the shape of the operation under way
(`OpInv`), what a stopped process and an empty store hold (`DownInv`), and that what
is stored are blocks and that `put_height` finds the block it commits already
written (`StoreInv`). `Recoverable` alone is not inductive: only `StoreInv` says that
the height may be raised.

`NoReplay` cannot be proved from nonces of the chain alone, because the table, the
index and the block are written at different moments and any of them may be the last
write before a crash. `NonceInv` follows a transaction through them: once it is in the
index or being paid out, the nonce of its sender has passed it (`SpentInv`); while it
is being paid out it has no entry (`FreshInv`); the transactions of the operation are
distinct and indexed at the height to come (`DoneInv`), and so are those of a block that
a crash left above the height (`BlockInv`). With `IndexAgrees` a transaction in two
places would have two entries. The last nonce is excluded in the property itself:
`saturating_add` does not move past it and a transaction that carries it can be
repeated.

Money is the sum of balances, fees and what is in flight between the debit and the
credits. Each write moves money within that sum or loses it, so it never grows
(`NoMoneyCreated`, without hypotheses), and if the genesis supply fits an `Amount` no
credit overflows. The hypothesis is needed: `ledger_crash` has an instance where the
supply does not fit. Conservation needs that no nonce is the last, for the reason
given above, and is exact until the first crash.

`ReplayInv` says where the account table stands in the middle of an operation: at the
replay of the committed chain, extended by the transactions executed so far and short
of the credits still to be paid. Committing a block is then the definition of the
replay of the longer chain. An honest block is accepted because the node that built it
folded the same transactions over the same replay.

### Driver

`ByzantineThird`, the only assumption beyond types, says that at most a third of all
power is Byzantine; that two quorums, of sets that contain all honest validators, then
share an honest one is proved from the sums of powers. The theorems have no further
hypothesis: what restarts, lower blocks and made-up evidence take away is stated in the
properties themselves.

The code keeps no lock that it reads and no record of its votes, so
`OneBlockVotePerHeight` is not inductive. What protects it is that the ledger
has passed a height before the node votes on a block there, and that an attempt is
always made at the height after the ledger's. A lower block breaks the first half, so
`VotingInv` follows who was misled: `LedgerAhead` (every block vote is at or below the
voter's ledger height, or is for a lower block, or is a precommit of a node that
prevoted one there; and so is an attempt that has reached its vote), `Fresh` (until
the vote of a type is cast, the attempt is above all earlier block votes of the node,
with the same exception), `HonestProposals` (nobody is misled where all run the code).
It survives `Restart` because the ledger does, and `GossipBlock` because the chain
only grows. `TalliesSound` (what an engine counted for an honest validator, that
validator sent) and `AccusedSlashed` (whoever a node accuses is in the history) hold
over restarts as well.

Two parts hold under a condition of their own. While nobody restarted, `NoRestartInv`:
`Forward` (attempts increase in height and round), hence `NoEquivocation`, hence no two
conflicting votes of an honest validator can be seen and `HonestNotSlashed` follows.
While no honest validator was slashed, `BackedInv`: every engine's set contains all of
them, and behind each honest precommit (`PrecommitsBacked`) and each certificate
(`CertificatesBacked`) stands a quorum whose honest members prevoted that block
(`Polka`). Certificates agree because two such quorums share an honest validator and
it prevoted one block that reaches the height. The argument goes back to prevotes
because a node that was misled once may precommit two blocks, and not prevote two.

The invariant is `IndInv`; run `driver` checks it too.
There is one lemma per action, and `SendsInv`, `ReactInv` and `DecideEffect` carry what
the handlers share.

### Rotation

A bound on single priorities is not inductive: a turn takes the total from one
validator and gives power to all. The invariant bounds the sum of the priorities of
every subset of the members. With N validators of total power P, the sum over any m
of them stays within P m (2N - 1 - m) / 2 on either side. A group that holds the
proposer cannot fall lower, because the proposer had the largest priority: its own,
and that the others have no more, pull the sum up. A group without it cannot rise
higher, because each has at most the proposer's priority and the group with the
proposer was within the bound for m + 1.
A change of the set replaces priorities by zeros, and the bound grows with m.
For m = 1 this is `PriorityBounded`. A bound of one total power, which a single set that
never changes would suggest, is false: with powers 1, 4 and 1, leaving and returning
carry priorities past it.

`ProportionalShare` follows from `Epoch`: while the set has not changed, the
priority of a validator is turn * power - total * turns, is above minus the total
(the proposer's was positive, since the accrued priorities add up to the total), and all
priorities add up to zero. After as many turns as there is power each is a multiple
of the total, above minus the total and so not negative, and hence zero.

### Staking

`Inv` adds to the checked properties the entries of the unbonding queue (`Shape`), that
the file still holds genesis (without it nothing is known after `Restart`), that a
tombstoned validator is `Jailed` (all that keeps it out of the active set: `unjail`
checks the tombstone, the active set only the status), and the term that the last
downtime slash recorded (`TermKept`). `SharesCoverDelegations` is a statement about sums
of delegations and rests on the lemmas about a sum with one term changed.

### Web wallet

`Inv` says where the record of a call stands in relation to what was captured when the
button was pressed: phrases in use are known (`PhraseKnown`), the dialog names the
call it waits for (`DialogInv`), a call in each stage carries the values of that
stage (`SendsInv`), a transaction in a pool or block is the signed form of the
submission it names (`OriginInv`), pools hold what their node checked (`PoolInv`), and an
accepted transaction is in the pool, in a block, or overtaken (`TakenInv`). For the
refinement `PaidInv` adds that what is signed did not throw (`SignedInv`). That an
amount arrives to the atto is a lemma about `sprxToAtto` for any number of digits
(`DigitsExact`), and with `SignedInv` a signed amount is what was asked for
(`AmountAsAsked`): one with an exponent was signed only because the exponent was
cut off.
The refinement maps the press of the button (`handleSend`) to `Ask`, `mine_block` to
`Pay` of all transactions it includes, and every other step to a stutter. It holds for
any conventions of the nodes: a node that refuses everything pays nothing.

### Admin panel

Requests under way are bags, so the first part of `AdminProofs` says what adding,
removing, replacing and renaming requests does to a bag: which requests it then
holds, how many of each, and that it stays finite. The invariant has a part per page.

`SessionInv`: the token in use was issued, every request is of a known kind, token and
stage, one that was accepted carries an issued token (without this a late profile
could be nobody's), and a screen that waits has a request of its own kind. That a 401
of an old session removes the token of the new one breaks none of it: the wait is ended
by the answer and not by the token.

`FlagsInv`: every PATCH, also one whose page is gone, carries a change that its dialog
confirmed, with the phrase if the flag is critical. It survives that the phrase is
not cleared on cancel, because the dialog compares it with the flag it shows now.

`EditsInv`: `EditsLand` speaks of the moment at which a message is shown, and each of
its three parts needs what is under way before. `SaveInv`: while a save is sent there is
exactly one request that saves, with the configuration saved last, and if the server
has answered it that is still the last in its audit log. `BroadcastInv`: a draft that is in
a request the server has not taken, or in none, was sent at most as often as its author
was told of a failure; one more is possible only while an answer is on its way.
`ListInv`: unless a read overtook another or a request failed, at most one read is
under way, and something under way will still bring the list of the server, or it is
shown. The history variable `calm` is the hypothesis of the first and the third, not
of the second.

### Explorer

A behaviour is of one part and `ExplorerInv` is the conjunction of six invariants.

`FeedsInv` types the refreshes under way: what each has read is of a network that
exists or of the sample data. `PicksInv` contains `RecordAgrees`, which is inductive
because the handlers set a record and its route in one step. For an address they do
not: `AccountAgrees` says that, while no two handlers have waited together, one that
waits for a history already shows its account, and otherwise account, history and
route agree unless the error page stands there; that every step renders the page of
its route (`Rendered`) is what makes the exception enough.
`RouterInv` is `RouterTypeOK` with `Arrived` (a route other than the
opening one is that of a link, of a record that was loaded, or of the page for nothing
found) and `OneClosing` (at most one closing timer, none while the pointer is over a
menu).
`PageRendered` is then a statement about the table of the pages and their links, and the
proof goes through both: every link passes the test of one page and fails the tests of
all others. `WalletInv` adds to `WalletViewsAgree` that the last timer under way
connects the wallet picked last (`LastTimerAsked`): timers fire in the order they were
started, so whatever the earlier ones set, that wallet is what remains.
`ButtonsInv` has `ButtonHasOneTimer`, which survives leaving a page because React
ignores what a timer of an unmounted part sets, and adds for the console that as many
methods are remembered as calls are to be answered. `SearchInv` says that the lists
of recent queries are short and without repetition; the query is taken out of the list
before it is put in front.

### Only model-checked

Liveness under fairness, which is out of the prover's reach: `EveryoneProposes`,
`BalanceSettles`, `BalanceShown`, `EndedSessionNoticed` and `FeedsSettle`. Every
invariant and every action property of a passing run is a theorem. The four runs that
end with a counterexample show what is false and have none.

## 6. Not modelled, and the plan

Not modelled, and no plan to: key derivation, signatures and encodings inside;
the JSON-RPC server, except the routes the wallet calls, the CLI and the configuration
(parsing, formatting, file I/O);
the REST backend, which is database transactions behind handlers, except those handlers
that answer the admin panel and decide what it sees; the mobile wallet,
a second implementation of the flow of the web wallet; sample data, formatting,
charts, tables, filters, currency and theme of the applications, the vote buttons of
the explorer's governance page and the retry button of the indexer page, which
change only what one page displays; the virtual swarm and the in-memory store, which
only tests use; `prune_history`, which nothing calls.

Not modelled yet, with what is at stake:

* **Peer-to-peer network**: handshakes answer with the height at which the listener
  started, and of two connections to one peer the first to close removes the
  table's entry of the other. `Driver` assumes of the network only that messages may
  be lost, repeated, delayed and reordered.
* **Contracts**: a message is a sequence of metered writes that may stop after any
  one. `CastVote` raises the tally before it marks the voter
  (`contracts/governance.rs:223`), a transfer to oneself writes the raised balance
  last (`contracts/token.rs:344`), and a call that runs out of gas keeps the
  reentrancy lock (`vm.rs:180`). No transaction of the node reaches the contracts.
* **Faucet**: two claims between two blocks share a nonce and one is dropped.
* **Indexers**: `backend/app/modules/indexer/engine.py:58` advances over a block
  whose download failed.
