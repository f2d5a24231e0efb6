# OZark wallet: a verification project in TLA+

OZark is a self-custodial Bitcoin wallet (Rust under Tauri, React screens) and a
gateway, a separate service that lets many wallets share one Taproot Assets node.
The gateway keeps other people's money, concurrently, in front of a node whose
replies can be lost; the wallet's market desk does the same on a smaller scale.
These two carry the logic that is hard to test. The third hard part is the wallet's
session: an unlock spawns tasks and threads, a reset deletes the files under them, and
nothing waits for anything.

Paths below are relative to the repository: `gateway/src/...` and
`src-tauri/src/...`.

## 1. The system

### Gateway (`gateway/src`)

**Ledger** (`registry.rs`). One SQLite connection behind one mutex: every
method is atomic against every other, and durable. Tables: `balances`
(asset, pubkey -> amount), `ledger_events` (history), `in_flight` (a debited
payment whose outcome is not known), `pending_mints`, `pending_receives`,
`pending_ln_receives`, `pending_sats_deposits`, `sats_balances`, `mints`,
`settings`. Promise (`registry.rs:11-13`): balances never exceed what the node
holds, and credits happen only for confirmed receipts.

**Handlers** (`routes/mod.rs`). One task per request. Outgoing: `ln_pay`,
`send`, `burn` debit, await the node, and resolve; `transfer` moves units between
two users. Incoming: `receive`, `ln_receive`, `sats_deposit` ask the node for an
address or an invoice and write a pending row; `mint` queues and finalizes a
batch and writes a pending row. `assets` and `mint_status` run the reconcilers.
`admin_claim` makes the first caller the operator. A client that hangs up makes
the server drop its handler at the current await.

**Reconcilers** (`reconcile.rs`). `reconcile_all` credits confirmed mints,
transfers and invoices; `recover_in_flight` resolves payments whose handler is
gone; `audit_solvency` logs a drift. They run in the maintenance loop of
`main.rs` and (the first) inside requests: any number at once, none aware of the
others or of the live handlers.

**Around the ledger.** Authentication (`auth.rs`, `security.rs`): NIP-98 events, fresh
for some seconds, and a map of spent event ids in memory. The operator
(`routes/mod.rs`): claimed by the first caller, read before it is written. Backups
(`backup.rs`): a snapshot named after the second, written, and old ones pruned. Node
client (`tapd.rs`): gRPC to tapd, litd and lnd. Fees (`fees.rs`): a pure estimate.

### Wallet (`src-tauri/src`)

**Curve** (`market/curve.rs`): the price of a token as an integer integral,
rounded up for buyers and down for sellers. **Desk** (`market/desk.rs`,
`store.rs`): markets with supply, reserve, balances and withdrawn units, saved
as one file. **Listener** (`market/desk_listener.rs`, `settle.rs`): remote
buyers and sellers over Nostr messages: quote, invoice, proof, fill, saved in two
files. **Commands** (`market/commands.rs`): local trades, withdrawal, which
await a payment between a check and a debit.

**Session** (`commands.rs`): unlock, logout and reset, and the tasks each starts and
aborts. **Ark service** (`ark/service.rs`): a thread per unlock that owns the Ark
wallet and its database, behind a channel of requests. **On-chain wallet**
(`onchain/wallet.rs`): BDK's wallet behind a lock that is taken anew between the calls to
the Esplora servers, with a database it saves staged changes to. **Node connection**
(`taproot/client.rs`, `tor/`): one slot for a gRPC client that an unlock task, a
supervisor and two commands fill, over an embedded Tor client that all of them start.
**Vault** (`wallet/vault.rs`): a snapshot and its salt, replaced by renames. What is left
wraps libraries, derives keys, or draws screens.

The session owns the others: an unlock starts the Ark task, the supervisor and the desk
listener and opens the on-chain wallet; a reset aborts the tasks, deletes the vault,
waits for the lock on the node's client, and removes the databases. Commands in flight
keep the references they took.

### What is hard

| behaviour | where | what must hold |
|---|---|---|
| a reply is lost, the node acts anyway | `routes/mod.rs:559-570`, `898-903` | no unit is spent twice |
| recovery beside live handlers | `reconcile.rs:152-174` | each reservation ends once, the right way |
| crash between debit and resolution | `routes/mod.rs:540-571` | nothing is lost silently; Lightning rows are resolved |
| many reconcilers, one receipt | `registry.rs:530-647` | one credit for one request |
| an answer applied after it changed | `reconcile.rs:87-100`, `registry.rs:649-659` | no row goes before its credit |
| fee taken, operation fails | `registry.rs:825-884` | sats are conserved |
| mints share the pending batch | `tapd.rs:803-862`, `reconcile.rs:252-256` | each mint is credited its own asset |
| desk and orders saved in two writes | `desk_listener.rs:283-303` | a paid order is filled once |
| check, await, debit | `desk_listener.rs:131-177`, `market/commands.rs:344-366` | nothing is paid twice |
| rounding | `curve.rs` | the reserve covers every sale |
| several renames, each may fail | `vault.rs:115-186` | the seed stays on disk with its salt |
| tasks and threads of a former unlock | `commands.rs:89-112`, `327-340` | the service is the wallet's, nobody waits in vain |
| look at a slot, connect for a minute, write the slot | `client.rs:1375` | the right macaroon, and a connection that heals |
| two calls that both start Tor | `tor/service.rs` | Tor is not taken for running for ever |
| paid, but the wallet is not told | `wallet.rs:278-333` | an error means unpaid, known coins are not spent again |
| a spent event is forgotten | `security.rs`, `auth.rs:223` | a request is let in once |
| the operator is read, then written | `routes/mod.rs:1042` | one operator |
| pruning beside failing writes | `backup.rs:76` | the newest snapshot stays |

`PROJECT.json` lists each at its line, with the properties that cover it or why none
does.

## 2. What is modelled

| module | models | lines of state |
|---|---|---|
| `UnitSums` | sums over ledger columns (`SUM(amount)`), additions and subtractions at a key | none |
| `Escrow` | the abstract promise: a request's units are reserved once, then settled or refunded at most once | spendable funds, state of each request |
| `GatewayCustody` | the outgoing ledger: `ln_pay`, `send`, `burn`, `transfer`, fees, `recover_in_flight`, the node, crashes | below |
| `GatewayCredit` | the incoming ledger: `receive`, `ln_receive`, `sats_deposit`, `reconcile_all`, the purge | below |
| `GatewayMint` | `mint`, the node's shared batch, `reconcile_mints` | below |
| `Curve` | the integral, the two roundings, the largest purchase within a budget | none |
| `Desk` | one market: purchases, sales, withdrawals, pauses, migration | below |
| `DeskListener` | the desk as it runs: remote traders, local commands, two files, restarts | below |
| `GatewayHost` | the gateway around its ledger: replay, the operator, snapshots | below |
| `NodeLink` | the wallet's connection to a Taproot Assets node, its supervisor, Tor | below |
| `Vault` | the wallet's vault, one file operation at a time | below |
| `Session` | unlock, logout, reset, and the Ark service | below |
| `Onchain` | the on-chain wallet across unlocks, servers and resets | below |
| `App`, `AppSeed` | what the last four share: a reset under way, the counted faults, `blame`; the seed in the vault | |
| `MC...` | the instances TLC checks | |
| `UnitSums_proofs`, `GatewayCustody_proofs`, `GatewayCredit_proofs`, `Vault_proofs` | the theorems about the module of that name | |
| `Desk_proofs`, `DeskListener_proofs` | the theorems about `Curve` and `Desk`, and about `DeskListener` | |
| `GatewayParts_proofs` | the theorems about `GatewayMint` and `GatewayHost` | |
| `Wallet_proofs` | the theorems about `Session`, `Onchain` and `NodeLink` | |

`Escrow` is implemented by `GatewayCustody`, `Desk` by `DeskListener`. The four modules
of the session each model unlock, logout and reset as far as their own state is
concerned; they share no variable but the seed in the vault, so their product would
multiply states and relate nothing. Modules whose theorems are in one proof module name
their specification after themselves (`SessionSpec`, `LinkNext`).

Some modules have a history variable `blame`. It collects events after which a property
is known not to hold in the code as it is; the property names them as its exceptions. Such a
property says two things: what holds otherwise, and that nothing else breaks it. Each
exception was found by TLC, as a counterexample to the property without it.

### GatewayCustody

`balance`, `inFlight`, `events`, `sats` are the tables. `history` is
`ledger_events` summed per account, the number a user sees when adding up the
history. `pc` is where each handler stands, `charged` its local variable,
`attempt` and `holding` the node, `scan`, `cur`, `verdict` the local variables
of the recovery pass. A crash clears `pc`, `scan`, `cur` and `verdict` and
leaves the tables and the node.

One action is what happens between two awaits, or one registry transaction where
a crash can separate it from the next:

| action | code |
|---|---|
| `LnPayReserve`, `LnPaySucceeded`, `LnPayFailed` | `ln_pay` up to the payment call; its answer `Succeeded`; any other answer |
| `SendReserve`, `SendCall`, `SendFeeRefused` | `send`: reserve, then the fee and the call, or a refund if the fee cannot be paid |
| `SendSucceeded`, `SendFailed`, `SendRefundFee` | `send` after the call: settle, or refund the units and, in a second transaction, the fee |
| `BurnDebit`, `BurnSucceeded`, `BurnFailed` | `burn`, which has no `in_flight` row |
| `Transfer` | `transfer` with `Registry::transfer` |
| `ReadRows`, `NextRow`, `TrackAnswers`, `TrackErrs`, `ApplyVerdict` | `recover_in_flight`, the awaited `track_payment` split from the decision |
| `NodeAccepts`, `NodeRejects`, `NodeSucceeds`, `NodeFails` | tapd, litd and lnd; lnd keeps one payment per hash, refuses a second while the first is in flight or paid, and tries again after a failure |
| `Dropped`, `Crash` | a handler dropped at its await; the process stopping |

A handler that waits may get a failure whenever `LossyReplies` says so: a
connection closed, or a payment stream that ended early (`tapd.rs:568-584`,
which is an `Ok` with a status that is not final).

One asset is modelled, because no step relates two. What a request asks for is a
constant function of it. Database errors are left out: a statement that fails
leaves its row as a crash before it would.

### GatewayCredit

`rows` with `born` are the three pending tables, `balance` and `credits` what was
credited and how often, `invoice`, `issuedAt`, `arrived` the node, and `at`,
`todo`, `answer` the local variables of each task that runs `reconcile_all`:
which reconciler it is in, the rows it has read and not finished, the answers it
has not applied. `Lookup` and `Apply` are separate because an await is between
them. An address can be paid more than once, an invoice once and until it
expires. `reconcile_all` takes the rows in the order of their creation; the model
takes any order.

### GatewayMint

`mint` is two calls: `MintAsset` puts the asset into the node's one pending batch
(`staged`), `FinalizeBatch` broadcasts whatever is in it by then (`finalized`).
`claims` is `pending_mints`, keyed by the batch, `feesHeld` the fees the operator
has, `credits` with `creditedAs` what the owner of a claim was given, `matches` the
local variable of each `reconcile_mints`: the asset it found in the batch's
transaction and has not credited yet. `reconcile_mints` is three actions, since it
awaits `list_batches` and `list_assets`: `LearnTxid`, `ListAssets`, `Resolve`.
An asset stands for its request, and so for the amount the claim records.

### Curve and Desk

A price is linear in the supply, so a trade costs an area, a fraction with the
denominator `Unit`. `TokensForSats` is the binary search of the code, as a recursive
function over its two bounds. `market` is one `Market`: curve, fee, status, supply,
reserve, withdrawn units, creator fees, balances, and the trade log as a count. A
command is one action, because each holds the desk's mutex throughout; the
withdrawal is only the debit here. `Cost`, `Refund`, `Bought` and `Sold` are
functions of a market, so that `DeskListener` can apply them to its own.

Numbers are unbounded. The code computes in 128 bits and refuses what does not fit
64; every amount of bitcoin fits 51. A refusal changes nothing, so what is left out
is that a very expensive market may refuse trades.

### DeskListener

`market` and `orders` are what the process holds, `disk` the two files, `seen` the
set of handled messages, which every start of the listener begins empty, and `task`
where the handler stands: at the invoice it awaits, at the payment, before the debit,
or between the two writes of a filled order. `sent`, `good` and `invoicePaid` are the
relays and the Lightning network, `credits`, `debits` and `payouts` the history.

| action | code |
|---|---|
| `HandleQuote`, `InvoiceCreated`, `InvoiceRefused` | `handle_buy_quote` up to the invoice, and after it |
| `HandleProof`, `MarkFilled`, `RefuseProof` | `handle_payment_proof` up to the first write, and after it; a proof without effect |
| `HandleSale`, `PayoutSucceeds`, `PayoutFails`, `DebitSale` | `handle_sell`: quote, payment, debit |
| `LocalTrade`, `SetPaused`, `Withdraw...` | the commands; a withdrawal is check, awaited send, debit |
| `Relock` | a new unlock aborts the listener at an await and starts another |
| `Crash` | the process stops; the two files are read again |

A payment that is awaited when the listener goes may still be made, and an invoice
is paid at most once. The module implements `Desk` (`D`) with every budget up to the
largest, since an order is bought for the price it was quoted at.

The model lets the listener step, and lets it stop at any await. In the code as it stands it is
stopped as soon as it is started (as `session_unserved` shows); the properties of the
module hold however far it gets.

### GatewayHost

Three small machines under one wall clock that may step back, and with restarts.
`created`, `call` describe the signed events, of which copies may arrive at any time;
`request` is where each connection stands, `spent` the map of spent events, `accepted`
the history. `operator` is the row of `settings`, `told` the callers that were answered
as the operator. `files` and `temps` are the backup directory, `backup` the loop.

| action | code |
|---|---|
| `Deliver`, `RateLimited`, `CheckReplay` | `authenticate`: verify with the time of arrival, the bucket, `check_replay` with that time and the prune |
| `AdminClaims`, `AdminClaimed`, `Operates` | `admin_claim` up to its write, its write; `auth_admin` |
| `TakeSnapshot`, `OpenArtifact`, `FillArtifact`, `Prune`, `Reports` | `run_backup`, one file operation at a time |
| `PruneFails` | the errors of `prune`: any of the files it should remove stay (`backup.rs:87-100`) |
| `Tick`, `StepBack`, `WriteFails`, `Restart` | the clock; a failing write; the process |

The token bucket is a refusal that may happen. The claim is modelled as enabled by the
configuration, since otherwise nothing happens. A process that stops keeps what it wrote:
power loss with unsynced writes is not modelled.

### NodeLink

`link` is the slot for the client, `conns` the connections, of which the supervisor may
hold one beside the slot's (`snap`). `proc` says how far each of those who connect has
come: the task of an unlock, the supervisor, the form (`connect_tapd`), the automatic
command (`connect_default_tapd`), `start_tor` and `stop_tor`, and a task that an abort
found past its last await.
`tor` and `torClient` are the two locks of `TorService`, `file` and `secret` the saved
node and its macaroon in the vault, `torn` says that the file was cut short. `calling` is a command that holds the lock on the
slot while it waits for the node.

`Check`, `CheckDefault`, `LoadSecret`, `StartTor`, `SetUpFails`, `Bootstrapped`,
`BootFails`, `StoreClient`, `Dialled`, `DialFails` and `Install` are the steps to a
connection, `StopTor` and `StopEnds` the two of `stop_tor`, `SaveConfig`, `SaveFails` and
`StoreSecret` what the form does before it installs; `Wake`,
`ProbeAnswered`, `ProbeFails`, `Drop` the supervisor; `Form`, `AutoConnect` and `TorCommand` the
commands that connect or start Tor; `OpenWallet`, `Reset` with `Clear`, `ResetFails`, `Restart`,
`ChangePassword`, `Disconnect`, `Call` the user; `ConnectionDrops`, `Burst`,
`Refill` the network and the client's rate limit.

### Vault

`snap` and `salt` are the three names each file has, a snapshot being the generation it was
written in and the secrets in it; a generation is one call of `write_wallet_atomic`. Every
file operation is a step (`DropTmp`, `WriteTmp`, `BackUpSnap`, `BackUpSalt`, `Replace`,
`PurgeBak`, `RollBack`, `Remove`), each may fail or be the last
(`Crash`). A failure ends the command, after a rollback if it was in the replacement
(`OperationFails`), except where the code drops the error: in the rollback itself
(`RollBackFails`), and when a deletion removes what earlier writes left (`RemovalFails`). `main` is the thread of the commands, `form` the snapshot that `connect_tapd`
has loaded on another thread and is going to save. `seed`, `password`, `stored`,
`purged` are what the user was told. The cryptography is one fact: a snapshot opens with
the salt of its own generation.

### Session

`wallet` is the seed in the vault, `arkDb` the seed in the Ark database, `ark` and
`status` the state the screens see, `task` and `thread` what each unlock has started,
`call` which thread a command waits for. The thread's `queue` is the channel, `at`, `op`
and `saw` the request it serves and what the handler looked at first. `vtxo` is the part
of bark the handlers use. Logging out is not an action: it changes the screen and tells
the backend nothing. One reset runs at a time, since the screen awaits it (`App.tsx:125`);
`clearing` says that one waits for the lock on the node's client.

| action | code |
|---|---|
| `Create`, `Unlock` | `initialize_wallet_state`: the tasks, the aborts, `Pending`; also while a reset waits |
| `CreateFails` | the vault is written and the on-chain wallet does not open |
| `Delete`, `Purge` | `delete_wallet_command` up to the lock on the node's client, and from there |
| `DeleteFails`, `PurgeFails` | its early return when the vault, or only the salt, stays (`commands.rs:325`); a database that stays, of which nobody is told (`369`) |
| `Spawn`, `OpenDb`, `CreateArk`, `OpenArk`, `InitFails`, `SetArk`, `SetStatus` | `ArkService::start`, its thread, and the task that installs it |
| `Ask`, `Receive`, `Handle`, `Stop` | the channel and the handlers, one disjunct each |
| `Panic`, `Crash` | a handler that panics; the app |

### Onchain

`db` is the database with whose descriptors it was made, `mem` what the wallet of each
unlock knows and what it has staged, `send` each payment with the unlock, the coin and
the server it uses, `scan` and `reveal` the two other commands, `mempool` and `chain` the
network, `known` what scans have told the user's wallet. A payment is `Preflight`,
`Build`, one of `Accepted`, `Refuse`, `ReplyLost` per server, and `Save`; a scan is
`SyncStart`, `Scan` or `ScanFails` per server, and `Apply`. `PersistFails` is the write
that fails after the staged changes were taken. `path` is `state.onchain_db_path`, which the
last part of a reset clears and without which no command starts: an unlock that runs while a
reset waits may leave a wallet without it. `DeleteOnchainFails` and `PurgeOnchainFails` are the
same errors as in `Session`, of which the on-chain database is the other victim. Change, fees and heights are left out: a
payment spends one coin.

## 3. The runs

| run | instance | shows |
|---|---|---|
| `custody_lossy` | two payments of one invoice by two users, transfers, lost replies, 1 crash, fair | the event log explains every balance (`HistoryExplainsBalance`); the ledger owes more than the node holds by the wrong refunds at most (`ShortfallIsWrongRefunds`); `Escrow` is implemented (`RefinesEscrow`); a payment that ended at the node is resolved (`LnPaymentsResolved`) |
| `custody_faithful` | a payment, two sends of one user that can pay one fee, a burn, 1 crash; a failure reply means the node did not act | ledger and node agree (`LedgerMatchesNode`), answers and ledger agree (`AnswersMatchLedger`), sats and answers agree (`FeesMatchAnswers`) |
| `credit` | an address paid up to twice and an invoice, two reconcilers, the purge, 1 crash, fair | a request is credited once and only for what arrived (`CreditsBacked`); while it was credited less than arrived, it has its row (`ArrivalKept`) and the loop credits it in the end (`ArrivalCredited`), but for purged invoices and an address's later transfers |
| `mint` | two mints, one with a fee, two reconcilers, lost replies, 1 crash, fair | a batch credits one user once (`BatchCreditedOnce`), fees follow the answers (`FeesSettled`), a mint answered with success is credited after it confirms (`MintCredited`) |
| `market` | two traders; four curves: with fractions of a sat, from zero, flat, closing half way; no fee and the highest; 4 trades | `LedgerConserved`, `ReserveCoversSupply`, `ThresholdCloses`; a purchase is within its budget and the largest but for the budget's last sat, and a quote is honoured to a sat (`BudgetsHonoured`) |
| `desk` | an order with two proofs, a sale and a withdrawal of one buyer, local trades of another user, 2 restarts | `Desk` is implemented (`RefinesDesk`); credits are paid for, and given once per session (`CreditsArePaid`); a debited sale was paid (`DebitedIsPaid`), `WithdrawnLeft`; an order that was paid stands at its price until its buyer is credited (`PaidOrderStands`) |
| `link` | an embedded node behind Tor and one of the user's, three commands, one fault, fair | `MacaroonFits`, `WedgedForCause`, `OverriddenOnlyInARace`, `HealsUnlessHung` |
| `vault` | three generations, two crashes or failing operations | `SeedOnDisk`, `OpensWhenTold`, `NothingLeft` |
| `session` | two unlocks of up to two seeds, two commands, one panic, crash or failing removal | `ServesThisWallet`, `OpensItsOwn`, `NobodyForgotten`, `ExitsHaveFunds` |
| `onchain` | two payments, two coins, two servers, two unlocks of up to two seeds, one crash, lost reply, or failing write or removal | `OpensAgain`, `PaidStays`, `ErrorMeansUnpaid`, `SyncedCoinsLeft` |
| `host` | two events of two callers on two connections, three snapshots, two faults | `SpentOnce`, `OneOperator`, `NewestSnapshotKept` |
| `session_unserved` | one unlock | the finding of section 4 |

`CHECK_DEADLOCK FALSE` is set throughout: every system here may stop, once its requests
are served, its trades used up or its user gone.

**Bounds.** In the custody runs two accounts with 2 and 1 units and requests of one unit
make every contention possible: a debit that fits, one that does not fit beside another,
a fee that only one of two sends can pay. Two requests are what it takes to share an
invoice. One crash separates a handler from its recovery; a second finds only a recovery
pass to stop, which has nothing to lose but its variables. Two reconcilers are
enough to act on one answer twice; the third would act like the second. `credit` has
`Expiry` 0 and `TTL` 1 within `MaxClock` 2, so that an invoice is paid, expires, is looked
up in between, and is purged. In `market` four tokens and four trades let a market fill,
empty and fill again with every rounding a small denominator has. In `desk` two restarts
let a proof be redelivered after a crash and again after it was filled, and the price rises
by more than a sat between two tokens, so that a local trade can make a paid order
unaffordable.

In `link` three commands are an unlock and two more things the user does, which is what it
takes for two tasks to meet or for a reset to cut one off; one fault, since the supervisor
treats each alike. In `vault` three generations are a creation, a change and what follows it,
and two faults a failure and a crash during the rollback. `session` and `onchain` have two
unlocks, because a third meets the second as the second meets the first. In both the
constraint `Apart` leaves out the histories with two seeds and, beside them, a command in
flight or a second payment: only the wallet that owns the outputs or coins can pay. For time
it also leaves out what has a second unlock and a fault behind it and then two commands in
flight at once (`session`), or two payments while an address is asked for (`onchain`): each
two of the three are checked together. `host` has a window of
one second on a clock of four, so that an event is fresh, expires and is forgotten.
Its constraint `Apart` leaves out the histories with both requests and snapshots: these
share the clock and the restarts, which each half has, and neither reads the other's
variables. Symmetry is used where values are interchangeable in everything the run names:
the two sends (same owner, amount, fee and no invoice), the connections, the commands, the
coins and the payments; no run with symmetry checks a liveness property.

**Fairness.** `custody_lossy` assumes that the maintenance loop keeps stepping (its own
task on an interval, `main.rs:129-151`, never cancelled), that lnd ends every
payment it accepted (the payment call sets a timeout), and that it answers at
once when it has no record. `track_payment` may fail any number of times but not
for ever, hence strong fairness of the answer. `credit` assumes the same of the loop and
its calls; between its reconcilers and the purge the loop also awaits `recover_in_flight`,
which ends by the same assumption. `mint` assumes the loop only, and nothing of the chain:
`MintCredited` is about batches that did confirm. Nothing is assumed of handlers or
clients. `desk` assumes nothing: the listener is aborted by the unlock that starts it
(section 4), so that no fairness of it is justified, and what is checked of a paid order is
that it waits, not that it is filled. `link` assumes that the supervisor, a loop on an
interval, steps; that a dial ends, by its timeout; and that who writes files, or takes Tor's
locks after a bootstrap or in `stop_tor`, gets to the end of it. The
lock on the slot is tokio's fair mutex: the supervisor gets it however often others take
it, hence strong fairness of its steps. That a call, a probe or a bootstrap of Tor ends is
not assumed, since the code sets no timeout and no keepalive: `HealsUnlessHung` excepts
the histories in which one does not. Faults are bounded, so that the network is good
in the end; how soon is not modelled.

## 4. Findings

**The desk listener is stopped by the unlock that starts it** (`session_unserved`).
`initialize_wallet_state` spawns it, pushes its handle to `bg_tasks`
(`commands.rs:98-103`), and then aborts all of `bg_tasks` to stop what an earlier unlock
left (`107-112`). The comment at `commands.rs:89` says it "serves remote buyers while the
app is open".

Three more comments promise more than the code does. Each is an exception that a checked
property makes, and without the exception TLC finds the property of that run violated:

- *A second transfer to an address is credited to nobody* (`credit`).
  `resolve_receive` deletes the pending row with the first credit (`registry.rs:530-560`),
  and reconciliation looks only for addresses with a row. `routes/mod.rs:797-798` says that
  "on confirmation of an incoming transfer, reconciliation credits the caller's balance".
  The same holds of a second transfer that arrives before the first credit: one row, one
  credit. `ArrivalKept` and `ArrivalCredited` name it as an exception (`Reused`) and say
  that, the purge apart, it is the only one.
- *A budget that pays for more tokens exactly does not buy them* (`market`).
  `preview_buy` takes the fee out of the budget and rounds down, and puts the fee on the cost
  and rounds down (`desk.rs:169-171`, `189-197`), so that a budget of 12 sats at a fee of 10%
  leaves 10 for the curve and does not buy what costs 11 and 1 of fee.
  `desk.rs:183-184` says "as many tokens as `budget_sats` affords (fee included in the
  budget)". `BudgetsHonoured` says how far that is true: more tokens would cost the whole
  budget at least, and without a fee more than it.
- *An answer that never comes stops the supervisor* (`link`). A command keeps the lock on
  the client while it awaits the node (`commands.rs:724-726`), and the endpoint sets neither a
  request timeout nor a keepalive (`client.rs:307`, `353`). On a connection whose other
  side went away without a word the supervisor waits for that lock, or for its own probe
  (`client.rs:1452`), for ever. `client.rs:1433-1437` says that it "makes the wallet
  self-heal mid-session instead of appearing disconnected until the user reopens the screen".
  `HealsUnlessHung` shows that it does unless an answer stays out.

What follows are the other exceptions that properties make, each a behaviour of the code that TLC
found and that a reader of the code may want to weigh. No run lists them as violations.

Gateway:

- *A lost reply refunds a payment that goes out.* `send` refunds on any error of the
  call, `ln_pay` on any status but `Succeeded`; `reconcile.rs:137-139` states why that is
  wrong for a send. `ShortfallIsWrongRefunds` shows that it is the only way to a shortfall.
- *Recovery decides by hash.* With two requests for one invoice it settles the reservation
  of the request lnd turned down, whose handler then answers with an error and refunds
  nothing. `AnswersMatchLedger` is checked, and proved, for invoices paid by one request.
- *The purge goes by age alone.* An invoice that settled after the pass looked it up, or
  whose look-ups failed, loses its row (`registry.rs:649-651` expects only forgotten ones).
  `ArrivalKept` shows that the row of an unpaid credit goes in no other way.
- *Two mints share a batch.* The first to finalize broadcasts the other's asset too, and its
  claim is credited with whichever asset the node lists first. `BatchCreditedOnce` shows that
  no asset is credited twice even so.
- *A crash between the refund of the units and that of the fee* keeps the fee of a send
  that did not happen, and no row remembers it; `FeesMatchAnswers` shows that nothing else
  does, and that the sats are the operator's.
- *Spent events are forgotten* at a restart, although `security.rs:6` says once; when the clock
  steps back; and under a request that stalls between reading the clock and the check. Also, two
  equal requests a wallet signs within one second are one event, and the second is refused.
- *Two claims at once* may both be told that they are the operator.
- *Snapshots.* A temporary file that a crash left makes a snapshot of the same second fail; a
  second snapshot within the second overwrites the first.

Market:

- *A crash fills an order twice.* The desk is saved with the tokens before the orders are
  saved with the order filled. `CreditsArePaid` shows that it takes a restart each time.
- An order is bought with its quoted price, fee included, as the budget, and the fee is
  taken out of it again (`desk_listener.rs:284-289`). `QuoteWithinOneSat` shows that at an
  unmoved price a sat may be missing: the buyer gets fewer tokens than quoted, or is
  refused as dust after paying.
- A sale whose payment succeeded is not debited if the listener is aborted or the process
  stops before the debit, or if the tokens were withdrawn meanwhile
  (`desk_listener.rs:154-170`). The redelivered message finds its invoice paid.
- A command whose save fails answers with an error and keeps the trade in memory
  (`market/commands.rs:254-257`); the listener ignores a failed save
  (`desk_listener.rs:171`, `293`). A torn or unreadable file is read as an empty desk, as
  `store.rs:21-23` says. Writes succeed in the model.
- `desk.rs:19-20` says the balances add up to the supply; since withdrawals exist it takes
  the withdrawn units as well, as `desk.rs:154-157` says and `LedgerConserved` states.

Wallet:

- *Tor.* `start()` during a bootstrap returns `Ok` at once, without a client. A task that
  is aborted in a bootstrap, or an early error, leaves `Bootstrapping`, or `Ready` without a
  client (`cut`). A bootstrap that failed sets `Error` and then, under another lock, drops the
  client, which may by then be that of the next bootstrap, with `Ready` beside it
  (`overlap`). Either lasts until `stop_tor` or a restart; `WedgedForCause` shows that there
  is no third way.
- *The node.* `connect_tapd` writes the file before the vault; a wrong password leaves the new
  host with the old macaroon (`mixed`). Who looked at an empty slot overwrites a
  connection made meanwhile (`OverriddenOnlyInARace`). A burst of requests empties the
  bucket the probe shares, and the supervisor drops a live connection. It keeps the
  password of the unlock after a change. A reset aborts the tasks and not the commands; one
  that cannot remove the vault returns with the wallet open and no supervisor. A write of
  `tapd-config.json` that is cut short leaves a file no task can read (`torn`).
- *The vault.* A failing last rename restores the old salt beside the new snapshot, against
  `vault.rs:115-117`. A crash between the renames leaves a wallet that `has_wallet` does not
  see, and creating one then removes the `.bak`. A `store_secret` that overlaps a replacement
  writes the old snapshot back. A failure between the replacement and the storing of the secrets
  loses them. The rollback drops its own errors (`vault.rs:163`, `166`): a rename that fails
  there leaves the old file aside, under `.bak`, and the wallet closed. All of these are
  `torn`, `raced` or `recreated` in the model. A deletion answers with success although a `.bak` or
  `.tmp` could not be removed (`leftover`, `vault.rs:356-361`).
- *The session.* A second unlock leaves the first thread serving on the same database
  (`twin`). A task past its last await installs its service after a reset (`late`). A thread
  that opens its database while the reset removes it may leave it behind (`outlived`), as
  a crash within the reset does (`cut`). A reset whose vault is gone but for the salt returns
  with the service installed and the databases kept (`half`, `commands.rs:325`), and the next
  wallet is made beside them; one that cannot remove a database says nothing of it (`left`,
  `commands.rs:369`). A reset leaves `market-desk.json`,
  `market-orders.json`, `gateway-config.json` and the Nostr state. A panic leaves a dead
  service with the status Ready; `NobodyForgotten` shows that commands get an error.
- *On-chain.* A sent payment is not put into the wallet, so that a second one before a scan
  may replace it by using its coin (`reused`). A lost reply or a failing write answers with an error
  although the payment is out. Staged changes are taken before they are written (`unsaved`).
  A scan begun before a new unlock updates the former wallet. A command that outlives a reset
  may write the database anew (`outlived`); a reset cut short or failing leaves it (`cut`,
  `half`, `left`), and another seed's wallet then does not open. The history shows 0 as sent.

## 5. What is proved

`GatewayCustody_proofs` proves, for every set of accounts and requests, every
amount, any number of crashes, lossy replies or not:

| theorem | states |
|---|---|
| `TypeCorrect` | `Spec => []TypeOK`; in particular no balance and no sats balance is ever negative |
| `BookkeepingHolds` | `Spec => []Bookkeeping`, the inductive invariant |
| `HistoryExplained` | `Spec => []HistoryExplainsBalance` |
| `ShortfallBounded` | `Spec => []ShortfallIsWrongRefunds` |
| `FeesConserved`, `FeesAgree` | `Spec => []SatsConserved`: all sats together stay as many; `Spec => []FeesMatchAnswers` |
| `LedgerFaithful`, `AnswersFaithful` | `Spec => []LedgerMatchesNode`, `Spec => []AnswersMatchLedger`, both if `Faithful`: failures are reported of what did not happen, and no two requests pay one invoice |
| `ImplementsPromise` | `Spec => RefinesEscrow` |

Assumptions: `DataAssumption` (finitely many accounts and requests, constants of
the right types) and `StartAssumption` (the gateway starts solvent). TLC
evaluates both in every run.

The argument. `HistoryExplainsBalance` is not inductive: a settlement keeps it
only if the request is open and has no event yet. `Bookkeeping` says so: who has
a row has been debited and has no event, a request that has not started has
neither, and a burn has an event only when its handler is done. Every step of the
gateway then is one of few ledger steps (reserve, settle, refund, move, or none)
with a known effect on `balance`, `history` and the sets of open, paid and wrongly
refunded requests; this is proved action by action. What each ledger step does to
the sums is proved once. The refinement follows from the same case analysis,
since the ledger steps are `Escrow`'s actions. `SatsConserved` needs to know that the
operator still has what may be given back: `FeesHeld` says that its sats cover the fees
of all handlers that have been charged, and so the saturating debit never saturates.
`FeesMatchAnswers` adds `SendInv`: recovery tracks Lightning payments only, so a send's row is there
until its handler resolves it, unless a crash took the handler.
`Honesty` is the invariant of the last two: it adds what a handler that waits knows of
its row, and that what the recovery pass was told of a payment is what became of it.
`Faithful` is what the `custody_faithful` run has; without it both properties are false.

Sums are cardinalities of sets of units (`UnitSums`). To reason about a sum defined by
recursion takes an induction over the set that is summed, and the library's theorems for
that take an operator as a parameter, which the provers here cannot instantiate; a
cardinality needs none, and the library has the facts. `UnitSums_proofs` derives from them what adding, removing and splitting do to a total.

`GatewayCredit_proofs`, for all requests, reconcilers, payments and crashes: `CreditHolds`
(the inductive invariant), `CreditTypeCorrect`, `CreditsHold` (`CreditsBacked`) and, if rows
live at least as long as invoices can be paid (`TTL >= Expiry`), `ArrivalHolds`
(`ArrivalKept`). The invariant ties handler, row and invoice of a request together and says
that an answer in a reconciler's hands that decides anything is one the node does not
change any more. A row goes in the transaction that credits it, hence one credit. An
invoice is paid once, so that for invoices `ArrivalKept` says: credited, or the row is there, or purged.

`GatewayParts_proofs`, for all mints, fees, reconcilers and crashes, lost replies or not:
`MintHolds` (the inductive invariant), `MintTypeCorrect`, `BatchesCreditedOnce`
(`BatchCreditedOnce`), `FeesFollowAnswers` (`FeesSettled`). The invariant says which assets
each batch holds, that batches do not overlap, that a claim is on the batch its request broadcast, and that a
match found by a reconciler is an asset of a confirmed batch.

The same module, for any window, retention, connections and faults: `HostHolds`
(the inductive invariant), `HostTypeCorrect`, `EventsSpentOnce` (`SpentOnce`),
`OperatorUnique` (`OneOperator`), `SnapshotSurvives` (`NewestSnapshotKept`). Its three parts
are independent: an event that was let in is in the map until it has expired and no copy waits for the check;
who was told is the configured operator or the claimed one, and a claim is being written only
while there is neither; while the pruning runs, the file just written is whole and newer than
every other, so that the pruning, which goes by the time of writing, never reaches it.

`Vault_proofs`, for any number of generations, crashes and failing file operations:
`VaultHolds` (the inductive invariant), `VaultTypeCorrect`, `SeedStays` (`SeedOnDisk`),
`PasswordHolds` (`OpensWhenTold`), `DeletionComplete` (`NothingLeft`). No assumption but
that the bounds are naturals. None of the three properties is inductive: that a backup
may be dropped needs to know that the new pair is complete, and that a rename keeps a pair
needs to know where both pairs are. `NewFiles` and `OldFiles` say this for every step of
`write_wallet_atomic`, `Steady` adds the secrets and the password the user was told,
`Blank` that a snapshot another thread has loaded is older than the wallet being created,
`Emptied` how far a deletion is. What fails in a rollback loses no file: `Recoverable` does not
care under which name the pair is, so `SeedOnDisk` needs no exception for it. The proof has a lemma for each file operation.

`Desk_proofs` proves, for every set of users, all valid curves, fees up to the
code's limit, any budgets and any number of trades:

| theorem | states |
|---|---|
| `DeskTypeCorrect` | `Spec => []TypeOK`: no supply, reserve or balance goes below zero |
| `LedgerHolds` | `Spec => []LedgerConserved` |
| `ReserveHolds`, `RoundingHolds` | `Spec => []ReserveCoversSupply`, `Spec => []RoundingBounded` |
| `SalesCovered` | `Spec => []EverySaleCovered` |
| `ThresholdHolds` | `Spec => []ThresholdCloses` |
| `RoundTripsLose` | `Spec => []RoundTripLoses` |
| `QuoteWithinASat` | the arithmetic of `QuoteWithinOneSat`, for any number of tokens |
| `LargestPurchase` | `TokensForSats` returns the largest purchase that the cap admits and whose curve cost is within the sats it is given |
| `BudgetsAreHonoured` | `Spec => []BudgetsHonoured` |

The only assumption is `DeskAssumption`: finitely many users, valid curves, fees
within `MAX_FEE_BP`. The first part of the module has the facts about the curve: areas add up
(`AreaAdds`), a cost is the area or less than a sat more (`CostBounds`), a refund the
area or less than a sat less (`RefundBounds`); hence `RoundTrip` and `PartsCostMore`.
`Sound`, the inductive invariant, is a predicate on one market: its type, the ledger, a
supply within the cap, both bounds of the reserve, and that a market which is not migrated, paused ones
included, is below its threshold; without the last part a resumed market could be past
it. Each operation keeps `Sound`, the opening purchase among them.

`RoundingBounded`, `EverySaleCovered` and `RoundTripLoses` are proved for every instance, so
that no run repeats them.

`TokensForSats` is a recursive function on the two bounds of the search. That such a
function exists and is unique, and what it returns, is proved by descent instead of
induction: of the pairs of bounds at which something is wrong, one has the least width
(`WFMin` with the order of the naturals), and each half of it is narrower. What is kept is
that the lower bound is affordable and nothing above the upper one is; that a higher
purchase costs no less (`CostGrows`) makes the rest of the argument. So `Buy` needs no
guard of its own that keeps the supply below the cap: `LargestPurchase` shows it.

`DeskListener_proofs`, for any users, messages, budgets and withdrawals, and any number of
restarts:

| theorem | states |
|---|---|
| `ListenerTypeCorrect` | `Spec => []TypeOK` |
| `CreditsHold` | `Spec => []CreditsArePaid` |
| `DebitsHold` | `Spec => []DebitedIsPaid` |
| `WithdrawalsHold` | `Spec => []WithdrawnLeft` |
| `PaidOrdersStand` | `Spec => PaidOrderStands`, an action property |
| `ListenerRefinesDesk` | `Spec => RefinesDesk`: every step is one of `Desk` or none that it sees |

Assumptions: `ListenerAssumption` (finitely many users, messages and withdrawals, constants
of the right types) and `MarketAssumption` (what `Desk` assumes of its constants). The
invariant says, of an order, that it was credited at most once per session, that one which
awaits payment has not been credited in this session unless the listener is about to mark
it, and that a credited one was paid, which a right proof implies (`OrderInv`, `ProofInv`);
that the disk is the memory after each step (`DiskInv`), so that a restart loses nothing
but the task; that what the task is in the middle of is still as it was checked
(`TaskInv`); and that the market is sound. The trades are the local ones, the credits and the
debits (`MarketInv`), so the bound on the trades of `Desk` is never what stops a remote
one. The refinement takes what a trade does from an instance of `Desk_proofs`,
and so all its theorems hold of the market that is served remotely.

`Wallet_proofs` is about three modules, one by one, each for any values of its constants:

| theorem | states |
|---|---|
| `SessionTypeCorrect`, `OnchainTypeCorrect`, `LinkTypeCorrect` | the type invariants |
| `ServiceIsTheWallets` | `SessionSpec => []ServesThisWallet` |
| `DatabaseIsTheWallets` | `SessionSpec => []OpensItsOwn` |
| `CommandsAreAnswered` | `SessionSpec => []NobodyForgotten` |
| `ExitsAreFunded` | `SessionSpec => ExitsHaveFunds`, an action property |
| `DatabaseOpens` | `OnchainSpec => []OpensAgain` |
| `PaymentsStay` | `OnchainSpec => []PaidStays` |
| `ErrorsAreUnpaid` | `OnchainSpec => []ErrorMeansUnpaid` |
| `ReportedCoinsAreLeft` | `OnchainSpec => SyncedCoinsLeft`, an action property |
| `MacaroonsFit` | `LinkSpec => []MacaroonFits` |
| `TorIsWedgedForCause` | `LinkSpec => []WedgedForCause` |
| `OverriddenInRaces` | `LinkSpec => OverriddenOnlyInARace`, an action property |

They rest on `SessionAssumption`, `OnchainAssumption`, `LinkAssumption`, `SeedAssumption`
and `AppAssumption`: the placeholders are not members of the sets they stand beside, and the bounds are
naturals.

- *Session.* `ServesThisWallet` needs to know of whom each task works (`WalletInv`: one that
  an abort still reaches works for the wallet of the moment) and, of a task past its last await, that it
  does too unless `late` (`ServiceInv`). `OpensItsOwn` is about a database that exists; the
  invariant adds the threads that are about to open it (`SessionDbInv`). `ExitsHaveFunds` needs
  that one thread serves at a time unless `twin`, for another could take what a handler has looked at
  (`ExitInv`). `NobodyForgotten` is inductive with the types and with `StepsInv`: an unlock that
  has not happened has started nothing, and a thread that does not serve holds no request.
- *Onchain.* `HoldInv` says that a command holds on to a wallet that was opened and that what is
  staged is saved in the same step. `OnchainDbInv` adds to `OpensAgain` that, while a command
  is under way or may start and no reset was outlived, cut short or failed, the file is there and the wallet's: else a
  write could bring it back after a reset. `PaidInv` says that payments that are out or about to be spend different coins:
  then no server replaces one by another. `UnpaidInv` follows the payment through the
  servers. `KnownInv` says that one wallet is in use, that the database has what scans
  reported and that the wallet in use has it too, so that what is built next leaves those coins.
- *NodeLink.* `MacInv` carries the macaroon from the two files through each step to the
  slot: a task that has read the file finds this node's macaroon in the vault, or none,
  and the form's own two writes are not read in between unless `mixed`. `TorInv` says that, unless a
  bootstrap was cut off or undone, someone is on the way to make true what the state of Tor
  claims: a bootstrap while it says so, and while it is ready without a client the one
  that brings it, or `stop_tor`, which takes the claim back. `RaceInv` says that who is still on the way while there is a connection was overtaken by it.

**Only model-checked.** The liveness properties (`LnPaymentsResolved`, `ArrivalCredited`,
`MintCredited`, `HealsUnlessHung`) stay with TLC: liveness under fairness
and `ENABLED` are out of the prover's reach. Every invariant, action property and
refinement that a run checks is proved, and so is the type invariant of every module.

## 6. Not modelled

- `audit_solvency` only logs. It reads the liabilities before it awaits the holdings, so
  it may report a payment in between as a drift; what it looks for is
  `ShortfallIsWrongRefunds`.
- Fee quotes (`fees.rs`), the market's identity, the wallet's gateway client and the
  encryption of backup files are functions of their input and keep no state.
- The gRPC plumbing of `tapd.rs` and of the wallet's node client: what it lets happen
  (replies lost, late or failed) is in the actions of the node. The channel and address
  calls the operator's routes pass on change nothing in the gateway.
- SQLite errors: a statement that fails leaves its row as a crash before it would.
- The libraries bark, BDK, arti and Stronghold, modelled by what the code uses of them.
- Power loss with unsynced writes, and files that another program changes.
- The React screens, the protocol definitions and the build.

**Plan.** One abstract specification of a credit (announced, arrived, credited once, or
given up) that `GatewayCredit` and `GatewayMint` both implement, as `GatewayCustody`
implements `Escrow`, with the two refinements checked and proved.
