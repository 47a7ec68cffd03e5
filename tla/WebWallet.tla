----------------------------- MODULE WebWallet ------------------------------
(***************************************************************************)
(* The web wallet (apps/web-wallet) on top of wallet-core                    *)
(* (packages/sprax-wallet-core): onboarding, the unlocked account, the       *)
(* dashboard that polls a balance, the Send dialog, and the nodes of the      *)
(* networks it talks to.                                                    *)
(*                                                                         *)
(* An async handler is cut at its awaits: what it captured before one is in   *)
(* a record of `sends', `fetching' or `encrypting', and it goes on whatever   *)
(* the user has closed, locked or switched in the meantime.  A component      *)
(* that is unmounted loses its state, and an answer that reaches it later     *)
(* changes nothing in it.  What the user has typed when a button is pressed   *)
(* is a parameter of the action.                                            *)
(*                                                                         *)
(* A phrase stands for the wallet derived from it; an address is the hash     *)
(* function and the key it was computed from.  The status line, the copied    *)
(* mark, fiat estimates, the Receive dialog, and isLoading and the stored     *)
(* vault, which are written and never read, are left out.                   *)
(***************************************************************************)
EXTENDS Integers, Sequences, FiniteSets, SequencesExt, Sums

CONSTANTS
    Networks,       \* NETWORKS of client.ts; a network's chainId is itself
    Phrases,        \* valid mnemonics
    Recipients,     \* what may be typed as a recipient: [form, bytes]
    Typed,          \* what may be typed as an amount: whole.frac, times 10^exp
    Digits,         \* decimal places of one SPRX (18)
    Fee,            \* defaultFee, in atto
    Funds,          \* genesis balance of every wallet account, in atto
    NodePrefix,     \* the prefix the node knows a bech32 address by
    NodeHash,       \* the hash the node derives a sender's address with
    NodeOrder,      \* the order of the fields in the bytes the node verifies
    MaxSends,       \* bound: submissions of the Send form
    MaxEncrypting,  \* bound: vault encryptions under way at once
    MaxFetching     \* bound: balance requests under way at once

None == "none"

ASSUME WalletAssumption ==
    /\ {Digits, Fee, Funds} \subseteq Nat
    /\ {MaxSends, MaxEncrypting, MaxFetching} \subseteq Nat
    /\ "local" \in Networks /\ IsFiniteSet(Networks) /\ IsFiniteSet(Phrases)
    /\ None \notin Phrases
    /\ \A a \in Typed : a \in [exp : Nat, whole : Nat, frac : Seq(0..9)]

Zero == <<None, None>>
NoTx == [by |-> 0]

VARIABLES
    network,        \* App.network
    account,        \* App.account and privateKey: the phrase, or None if locked
    onboarding,     \* WalletOnboarding: [step, generated, imported, error]
    encrypting,     \* phrase -> handleVaultCreated calls that await encrypt
    sendOpen,       \* App.isSendOpen
    form,           \* SendModal: [submitting, error]
    sends,          \* sends[i]: the i-th handleSend that got past its guards
    shown,          \* WalletDashboard.balance: whose it is, or Zero
    fetching,       \* <<network, phrase>> -> getBalance calls under way
    node            \* node[n]: [nonce, balance, pool, paid] of network n

vars == <<network, account, onboarding, encrypting, sendOpen, form, sends,
          shown, fetching, node>>

(***************************************************************************)
(* wallet-core: amounts, addresses, signing.                                 *)
(***************************************************************************)
TimesTen(n, i) == 10 * n

Pow10 == [k \in 0..Digits |-> FoldLeft(TimesTen, 1, [i \in 1..k |-> i])]

ATTO_PER_SPRX == Pow10[Digits]

AppendDigit(n, d) == 10 * n + d

(* BigInt of a string of digits. *)
BigInt(s) == FoldLeft(AppendDigit, 0, s)

(* padEnd and slice: exactly Digits places, those beyond them cut off. *)
places(s) == [k \in 1..Digits |-> IF k <= Len(s) THEN s[k] ELSE 0]

(* padStart in its stead, as attoToSprx has it. *)
placesPaddedLeft(s) ==
    [k \in 1..Digits |-> IF k + Len(s) > Digits THEN s[k + Len(s) - Digits] ELSE 0]

sprxToAttoPaddedLeft(a) == a.whole * ATTO_PER_SPRX + BigInt(placesPaddedLeft(a.frac))

sprxToAtto(a) == a.whole * ATTO_PER_SPRX + BigInt(places(a.frac))

(* An exponent, which the number input and parseFloat accept, makes BigInt     *)
(* throw if it is within the places read; behind them it is cut off with the    *)
(* surplus digits.  getSignBytes throws for an amount below one atto.         *)
signThrows(a) == (a.exp > 0 /\ Len(a.frac) < Digits) \/ sprxToAtto(a) = 0

(* parseFloat of the amount is positive, its exponent included. *)
isPositive(a) == a.whole > 0 \/ \E k \in DOMAIN a.frac : a.frac[k] > 0

isValidAddress(r) == r.form \in {"bech32", "hex"}

(* Both forms of an address are the same 20 bytes. *)
parseToBytes(r) == r.bytes

(* toBech32, in which every request names an address. *)
SPRAX_HRP == "sprax"

(* HDWallet.deriveAccount: the address is the SHA-256 of the public key. *)
deriveAccount(p) == [hash |-> "sha256", key |-> p]

(* getSignBytes writes the fields by name and no priority fee; TxBody writes    *)
(* them as declared, with one.                                             *)
signBytesOrder == "by name"

(* TransactionBuilder.sign: the signed body; its signature verifies under the   *)
(* key it names, over these bytes of this body and no other.                 *)
signedTx(s, i, nonce) ==
    [chainId |-> s.net, sender |-> deriveAccount(s.from), nonce |-> nonce,
     to |-> parseToBytes(s.to), amount |-> sprxToAtto(s.amount), key |-> s.from,
     order |-> signBytesOrder, by |-> i]

(* The hash of a transaction: its content without our mark of its origin. *)
txHash(t) == <<t.chainId, t.sender, t.nonce, t.to, t.amount>>

(***************************************************************************)
(* The node of a network: the routes of rpc_server.rs the wallet calls, on    *)
(* Ledger::submit_transaction and Ledger::mine_block (module Ledger).         *)
(***************************************************************************)
(* parse_address: a bech32 address of another prefix is taken for hex and       *)
(* refused.                                                                *)
parse_address(prefix) == prefix = NodePrefix

TotalRequired(t) == t.amount + Fee

ValidStatic(n, t) ==
    /\ t.chainId = n
    /\ t.sender = [hash |-> NodeHash, key |-> t.key]
    /\ t.order = NodeOrder

CanExecute(d, t) ==
    /\ t.nonce = d.nonce[t.key]
    /\ d.balance[t.key] >= TotalRequired(t)

submit_transaction(n, t) ==
    /\ \A u \in Range(node[n].pool) \cup node[n].paid : txHash(u) # txHash(t)
    /\ ValidStatic(n, t)
    /\ CanExecute(node[n], t)

(* handle_rest_broadcast: parse_transaction, then submit_transaction. *)
handle_rest_broadcast(n, t) == parse_address(SPRAX_HRP) /\ submit_transaction(n, t)

(* One transaction of a block: executed, or dropped. *)
ExecuteOrDrop(d, t) ==
    IF CanExecute(d, t)
    THEN [d EXCEPT !.nonce[t.key] = @ + 1,
                   !.balance[t.key] = @ - TotalRequired(t),
                   !.paid = @ \cup {t}]
    ELSE d

mine_block(n) ==
    /\ node[n].pool # << >>
    /\ node' = [node EXCEPT ![n] =
                  FoldLeft(ExecuteOrDrop, [node[n] EXCEPT !.pool = << >>], node[n].pool)]
    /\ UNCHANGED <<network, account, onboarding, encrypting, sendOpen, form, sends,
                   shown, fetching>>

(***************************************************************************)
(* Mounting.  A component that React removes loses its state; one it shows    *)
(* again starts afresh.                                                     *)
(***************************************************************************)
FreshForm == [submitting |-> FALSE, error |-> FALSE]
FreshOnboarding == [step |-> "choose", generated |-> None, imported |-> None,
                    error |-> FALSE]
NoFetches == [k \in Networks \X Phrases |-> 0]

SendShown == sendOpen /\ account # None

Active(s) == s.pc \in {"nonce", "post", "answer"}

(* The Send dialog is removed: its handleSend calls go on without it. *)
DetachAll(ss) == [i \in DOMAIN ss |-> [ss[i] EXCEPT !.attached = FALSE]]

Total(f) == Sum(f, DOMAIN f)

(***************************************************************************)
(* Onboarding.                                                              *)
(***************************************************************************)
Onboarding(step) == account = None /\ onboarding.step = step

OnboardingStep(next) ==
    /\ onboarding' = next
    /\ UNCHANGED <<network, account, encrypting, sendOpen, form, sends, shown,
                   fetching, node>>

handleStartCreate ==
    /\ Onboarding("choose")
    /\ \E p \in Phrases :
         OnboardingStep([onboarding EXCEPT !.step = "create", !.generated = p])

handleVerifyStep ==
    /\ Onboarding("create")
    /\ OnboardingStep([onboarding EXCEPT !.step = "verify"])

(* One word of the phrase is asked for; a wrong one leaves the step. *)
handleCheckWord ==
    /\ Onboarding("verify")
    /\ \E correct \in BOOLEAN :
         OnboardingStep([onboarding EXCEPT !.error = ~correct,
                                           !.step = IF correct THEN "password" ELSE @])

chooseImport ==
    /\ Onboarding("choose")
    /\ OnboardingStep([onboarding EXCEPT !.step = "import"])

handleImportMnemonic ==
    /\ Onboarding("import")
    /\ \/ OnboardingStep([onboarding EXCEPT !.error = TRUE])
       \/ \E p \in Phrases :
            OnboardingStep([onboarding EXCEPT !.error = FALSE, !.imported = p,
                                              !.step = "password"])

passwordRefused ==
    /\ Onboarding("password")
    /\ OnboardingStep([onboarding EXCEPT !.error = TRUE])

mnemonicToSave ==
    IF onboarding.generated # None THEN onboarding.generated ELSE onboarding.imported

(* The form stays enabled: it may be submitted again before encrypt returns. *)
handleCompletePassword ==
    /\ Onboarding("password")
    /\ Total(encrypting) < MaxEncrypting
    /\ encrypting' = [encrypting EXCEPT ![mnemonicToSave] = @ + 1]
    /\ UNCHANGED <<network, account, onboarding, sendOpen, form, sends, shown,
                   fetching, node>>

(* The effect of the dashboard asks for the balance of its new account, and    *)
(* its interval starts over; a dashboard that was not there starts at zero.   *)
(* A Send dialog left open by handleLockWallet shows at once.                 *)
vaultEncrypted(p) ==
    /\ encrypting[p] > 0
    /\ encrypting' = [encrypting EXCEPT ![p] = @ - 1]
    /\ account' = p
    /\ onboarding' = FreshOnboarding
    /\ shown' = IF account = None THEN Zero ELSE shown
    /\ \/ /\ account = p
          /\ UNCHANGED fetching
       \/ /\ account # p
          /\ Total(fetching) < MaxFetching
          /\ fetching' = [fetching EXCEPT ![<<network, p>>] = @ + 1]
    /\ UNCHANGED <<network, sendOpen, form, sends, node>>

(* The encryption throws: an alert, nothing else. *)
vaultFailed(p) ==
    /\ encrypting[p] > 0
    /\ encrypting' = [encrypting EXCEPT ![p] = @ - 1]
    /\ UNCHANGED <<network, account, onboarding, sendOpen, form, sends, shown,
                   fetching, node>>

(***************************************************************************)
(* The unlocked wallet.                                                     *)
(***************************************************************************)
handleLockWallet ==
    /\ account # None
    /\ account' = None
    /\ onboarding' = FreshOnboarding
    /\ form' = FreshForm
    /\ sends' = DetachAll(sends)
    /\ shown' = Zero
    /\ fetching' = NoFetches
    /\ UNCHANGED <<network, encrypting, sendOpen, node>>

(* The selector of the header, there whether the wallet is locked or not. *)
setNetwork(n) ==
    /\ n # network
    /\ network' = n
    /\ \/ /\ account = None
          /\ UNCHANGED fetching
       \/ /\ account # None
          /\ Total(fetching) < MaxFetching
          /\ fetching' = [fetching EXCEPT ![<<n, account>>] = @ + 1]
    /\ UNCHANGED <<account, onboarding, encrypting, sendOpen, form, sends, shown, node>>


(* As if the effect did not clear its interval: those of other networks go on. *)
intervalsFire ==
    /\ account # None
    /\ Total(fetching) < MaxFetching
    /\ \E n \in Networks : fetching' = [fetching EXCEPT ![<<n, account>>] = @ + 1]
    /\ UNCHANGED <<network, account, onboarding, encrypting, sendOpen, form, sends, shown,
                   node>>

(* The interval of the effect last run, which captured these two. *)
intervalFires ==
    /\ account # None
    /\ Total(fetching) < MaxFetching
    /\ fetching' = [fetching EXCEPT ![<<network, account>>] = @ + 1]
    /\ UNCHANGED <<network, account, onboarding, encrypting, sendOpen, form, sends, shown,
                   node>>

(* Answers arrive in any order. *)
BalanceRead(k, balance) ==
    /\ fetching[k] > 0
    /\ fetching' = [fetching EXCEPT ![k] = @ - 1]
    /\ shown' = balance
    /\ UNCHANGED <<network, account, onboarding, encrypting, sendOpen, form, sends, node>>

(* The node answers: the balance, or a refusal, which getBalance turns into     *)
(* zero.                                                                   *)
balanceAnswered(k) == BalanceRead(k, IF parse_address(SPRAX_HRP) THEN k ELSE Zero)

(* No node answers: zero again. *)
balanceFailed(k) == BalanceRead(k, Zero)

openSend ==
    /\ account # None /\ ~sendOpen
    /\ sendOpen' = TRUE
    /\ form' = FreshForm
    /\ UNCHANGED <<network, account, onboarding, encrypting, sends, shown,
                   fetching, node>>

closeSend ==
    /\ SendShown
    /\ sendOpen' = FALSE
    /\ form' = FreshForm
    /\ sends' = DetachAll(sends)
    /\ UNCHANGED <<network, account, onboarding, encrypting, shown, fetching, node>>

(***************************************************************************)
(* handleSend: validate, await the nonce, sign, await the broadcast.          *)
(***************************************************************************)
Untouched == <<network, account, onboarding, encrypting, shown, fetching>>

handleSendRefused(r, a) ==
    /\ SendShown /\ ~form.submitting
    /\ ~(isValidAddress(r) /\ isPositive(a))
    /\ form' = [form EXCEPT !.error = TRUE]
    /\ UNCHANGED Untouched /\ UNCHANGED <<sendOpen, sends, node>>

NewSend(r, a) ==
    [pc |-> "nonce", net |-> network, from |-> account, to |-> r, amount |-> a,
     attached |-> TRUE, tx |-> NoTx, accepted |-> FALSE]

StartSend(r, a) ==
    /\ isValidAddress(r) /\ isPositive(a)
    /\ Len(sends) < MaxSends
    /\ form' = [submitting |-> TRUE, error |-> FALSE]
    /\ sends' = Append(sends, NewSend(r, a))
    /\ UNCHANGED Untouched /\ UNCHANGED <<sendOpen, node>>

handleSendTwice(r, a) == SendShown /\ StartSend(r, a)

handleSend(r, a) == SendShown /\ ~form.submitting /\ StartSend(r, a)

(* The catch and finally of the i-th call. *)
SendFails(i) ==
    /\ sends' = [sends EXCEPT ![i].pc = "failed"]
    /\ form' = IF sends[i].attached THEN [submitting |-> FALSE, error |-> TRUE] ELSE form
    /\ UNCHANGED Untouched /\ UNCHANGED sendOpen

(* Sign, which may throw, and the broadcast leaves. *)
signAndPost(i, nonce) ==
    \/ /\ signThrows(sends[i].amount)
       /\ SendFails(i)
    \/ /\ ~signThrows(sends[i].amount)
       /\ sends' = [sends EXCEPT ![i].pc = "post", ![i].tx = signedTx(sends[i], i, nonce)]
       /\ UNCHANGED Untouched /\ UNCHANGED <<sendOpen, form>>

(* getAccountNonce: 0 when the node refuses the address or does not answer. *)
Nonces(i) ==
    {0} \cup {k \in {node[sends[i].net].nonce[sends[i].from]} : parse_address(SPRAX_HRP)}

nonceAnswered(i) ==
    /\ sends[i].pc = "nonce"
    /\ \E nonce \in Nonces(i) : signAndPost(i, nonce)
    /\ UNCHANGED node

(* The node of the captured network takes the broadcast. *)
broadcastReceived(i) ==
    LET n == sends[i].net
        ok == handle_rest_broadcast(n, sends[i].tx)
    IN  /\ sends[i].pc = "post"
        /\ node' = IF ok THEN [node EXCEPT ![n].pool = Append(@, sends[i].tx)] ELSE node
        /\ sends' = [sends EXCEPT ![i].pc = "answer", ![i].accepted = ok]
        /\ UNCHANGED Untouched /\ UNCHANGED <<sendOpen, form>>

(* The request never arrives, or its answer, whatever it was, is lost. *)
broadcastLost(i) ==
    /\ sends[i].pc \in {"post", "answer"}
    /\ SendFails(i)
    /\ UNCHANGED node

broadcastRefused(i) ==
    /\ sends[i].pc = "answer" /\ ~sends[i].accepted
    /\ SendFails(i)
    /\ UNCHANGED node

(* onSuccess and onClose: whatever Send dialog is open now is closed. *)
SendSucceeds(i) ==
    /\ sendOpen' = FALSE
    /\ form' = FreshForm
    /\ sends' = DetachAll([sends EXCEPT ![i].pc = "sent"])
    /\ UNCHANGED Untouched /\ UNCHANGED node

broadcastAnsweredUnchecked(i) == sends[i].pc = "answer" /\ SendSucceeds(i)

broadcastAnswered(i) == sends[i].pc = "answer" /\ sends[i].accepted /\ SendSucceeds(i)

(***************************************************************************)
(* The specification.                                                       *)
(***************************************************************************)
Init ==
    /\ network = "local"
    /\ account = None
    /\ onboarding = FreshOnboarding
    /\ encrypting = [p \in Phrases |-> 0]
    /\ sendOpen = FALSE
    /\ form = FreshForm
    /\ sends = << >>
    /\ shown = Zero
    /\ fetching = NoFetches
    /\ node = [n \in Networks |-> [nonce |-> [p \in Phrases |-> 0],
                                   balance |-> [p \in Phrases |-> Funds],
                                   pool |-> << >>, paid |-> {}]]

OnboardingNext ==
    \/ handleStartCreate
    \/ handleVerifyStep
    \/ handleCheckWord
    \/ chooseImport
    \/ handleImportMnemonic
    \/ passwordRefused
    \/ handleCompletePassword
    \/ \E p \in Phrases : vaultEncrypted(p) \/ vaultFailed(p)

WalletNext ==
    \/ handleLockWallet
    \/ \E n \in Networks : setNetwork(n)
    \/ intervalFires
    \/ \E k \in Networks \X Phrases : balanceAnswered(k) \/ balanceFailed(k)
    \/ openSend
    \/ closeSend
    \/ \E r \in Recipients, a \in Typed : handleSend(r, a) \/ handleSendRefused(r, a)

SendAnswers(i) ==
    \/ nonceAnswered(i)
    \/ broadcastReceived(i)
    \/ broadcastLost(i)
    \/ broadcastRefused(i)
    \/ broadcastAnswered(i)

Next ==
    \/ OnboardingNext
    \/ WalletNext
    \/ \E i \in 1..MaxSends : i \in DOMAIN sends /\ SendAnswers(i)
    \/ \E n \in Networks : mine_block(n)

(* A fetch settles, by an answer or by the browser giving up; an interval     *)
(* fires.  Nothing makes the user act or a block be mined.                    *)
Fairness ==
    /\ \A k \in Networks \X Phrases : WF_vars(balanceAnswered(k) \/ balanceFailed(k))
    /\ SF_vars(intervalFires)

Spec == Init /\ [][Next]_vars /\ Fairness

(***************************************************************************)
(* Properties.                                                              *)
(***************************************************************************)
SignedTx ==
    [chainId : Networks, sender : [hash : {"sha256"}, key : Phrases], nonce : Nat,
     to : {r.bytes : r \in Recipients}, amount : Nat, key : Phrases,
     order : {signBytesOrder}, by : 1..MaxSends]

SendRecord ==
    [pc : {"nonce", "post", "answer", "sent", "failed"}, net : Networks, from : Phrases,
     to : Recipients, amount : Typed, attached : BOOLEAN, tx : SignedTx \cup {NoTx},
     accepted : BOOLEAN]

NodeRecord ==
    [nonce : [Phrases -> Nat], balance : [Phrases -> Nat], pool : Seq(SignedTx),
     paid : SUBSET SignedTx]

(* The variables hold what the code can put in them. *)
TypeOK ==
    /\ network \in Networks
    /\ account \in Phrases \cup {None}
    /\ onboarding \in [step : {"choose", "create", "verify", "import", "password"},
                       generated : Phrases \cup {None}, imported : Phrases \cup {None},
                       error : BOOLEAN]
    /\ encrypting \in [Phrases -> 0..MaxEncrypting]
    /\ sendOpen \in BOOLEAN
    /\ form \in [submitting : BOOLEAN, error : BOOLEAN]
    /\ sends \in Seq(SendRecord) /\ Len(sends) <= MaxSends
    /\ shown \in (Networks \X Phrases) \cup {Zero}
    /\ fetching \in [Networks \X Phrases -> 0..MaxFetching]
    /\ node \in [Networks -> NodeRecord]

(* The Send button is disabled exactly while a call that this dialog started  *)
(* is under way (SendModal.tsx:52, :77, :143): one dialog never pays twice     *)
(* at once, and it is never left disabled with nothing under way, whatever was *)
(* closed, locked or switched during the awaits.                              *)
ButtonFollowsSend ==
    LET mine == {i \in DOMAIN sends : sends[i].attached /\ Active(sends[i])}
    IN  /\ Cardinality(mine) <= 1
        /\ form.submitting <=> (mine # {})

(* "Transaction submitted" is only ever said of a transaction that the node of *)
(* the network it was signed for took into its pool (client.ts:117): it is     *)
(* there, has been paid, or was dropped by a block that paid another with its   *)
(* nonce or left too little.                                                 *)
SubmittedWasTaken ==
    \A i \in DOMAIN sends : sends[i].pc = "sent" =>
        LET d == node[sends[i].net]
            t == sends[i].tx
        IN  \/ t \in Range(d.pool) \cup d.paid
            \/ ~CanExecute(d, t)
                 /\ \E u \in d.paid : u.sender = t.sender /\ u.nonce >= t.nonce

(* What the digits of an amount are worth in atto: their sum by position,      *)
(* those beyond the last place dropped.                                     *)
DigitsWorth(a) ==
    a.whole * ATTO_PER_SPRX
      + Sum([k \in 1..Digits |-> a.frac[k] * Pow10[Digits - k]],
            {k \in DOMAIN a.frac : k <= Digits})

(* The amount without its exponent, the decimal point moved instead. *)
PointMoved(a) ==
    [exp |-> 0,
     whole |-> FoldLeft(AppendDigit, a.whole,
                 [k \in 1..a.exp |-> IF k <= Len(a.frac) THEN a.frac[k] ELSE 0]),
     frac |-> SubSeq(a.frac, a.exp + 1, Len(a.frac))]

Worth(a) == IF a.exp = 0 THEN DigitsWorth(a) ELSE DigitsWorth(PointMoved(a))

(* An exponent that sprxToAtto cuts off. *)
CutOff(a) == a.exp > 0 /\ Len(a.frac) >= Digits

(* What pressing Send with this amount asks for: its worth, unless the         *)
(* exponent is cut off.                                                     *)
AskedAtto(a) == IF CutOff(a) THEN DigitsWorth(a) ELSE Worth(a)

Asked(s) ==
    [net |-> s.net, from |-> s.from, to |-> s.to.bytes, atto |-> AskedAtto(s.amount)]

PaidTxs == UNION {{[net |-> n, tx |-> t] : t \in node[n].paid} : n \in Networks}

PaidFor(i) == CHOOSE q \in PaidTxs : q.tx.by = i

P == INSTANCE Payments WITH
       Number <- 1..MaxSends,
       Payment <- {[net |-> n, from |-> p, to |-> r.bytes, atto |-> AskedAtto(a)] :
                      n \in Networks, p \in Phrases, r \in Recipients, a \in Typed},
       asked <- [i \in DOMAIN sends |-> Asked(sends[i])],
       paid <- [i \in {q.tx.by : q \in PaidTxs} |->
                  [net |-> PaidFor(i).net, from |-> PaidFor(i).tx.key,
                   to |-> PaidFor(i).tx.to, atto |-> PaidFor(i).tx.amount]]

(* The wallet with its nodes implements Payments: through network switches,    *)
(* locks, lost answers, stale nonces and two dialogs in flight, what a chain    *)
(* pays is what one press of the button asked for, once, on that network, and   *)
(* is the worth of what was typed, except for an exponent behind the last place *)
(* of the fraction, which transaction.ts:24 cuts off: that payment is made as   *)
(* if none had been typed.                                                   *)
PaymentsImplemented == P!Spec

(* Once an account stays unlocked and a network selected, the balance of another *)
(* network or account is shown for the last time: its late answers run out, and  *)
(* a poll of this one overwrites the last of them (WalletDashboard.tsx:41-45).   *)
BalanceSettles ==
    \A n \in Networks, p \in Phrases :
        <>[](network = n /\ account = p) => <>[](shown \in {<<n, p>>, Zero})

(* If its node goes on answering, that account's balance is shown again and     *)
(* again: what "balance/account queries return real data end-to-end" asks for.  *)
BalanceShown ==
    \A n \in Networks, p \in Phrases :
        <>[](network = n /\ account = p) /\ SF_vars(balanceAnswered(<<n, p>>))
            => []<>(shown = <<n, p>>)

(* A payment for which the wallet holds the right nonce, the right chain and    *)
(* the funds is not refused by the node: what the phase "a user can open        *)
(* web-wallet, submit a signed transaction, and see it confirmed" asks for.     *)
HonestPaymentTaken ==
    \A i \in DOMAIN sends :
        LET d == node[sends[i].net] IN
        (sends[i].pc = "answer" /\ ~sends[i].accepted) =>
            \/ ~CanExecute(d, sends[i].tx)
            \/ \E u \in Range(d.pool) \cup d.paid : txHash(u) = txHash(sends[i].tx)

=============================================================================
