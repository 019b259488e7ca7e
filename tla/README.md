# Specifications of the atomic swap market maker bot

TLA+ modules, TLC runs and TLAPS proofs for the bot in `src/`.  The bot swaps
BCH for sBCH and back through hash time locked contracts (HTLCs): an output
on BCH, a swap in a contract on smartBCH.

## The system

| part | state | operations |
|---|---|---|
| bot loop (`bot/bot.go`) | prices, locals of the loop | one goroutine, `Loop` (429): updatePrices, refundLockedSbch, scanBchBlocks, refundLockedBCH, handleBchUserDeposits, unlockBchUserDeposits, scanSbchEvents, handleSbchUserDeposits, unlockSbchUserDeposits, sleep 2 s |
| database (`bot/db.go`) | `Bch2SbchRecord`, `Sbch2BchRecord`, `LastHeights` | add, update, query by status (limited, oldest update first), look up by hash lock or by transaction |
| BCH client (`bot/client_bch.go`) | – | block, confirmations, UTXOs, send; spent outputs recognised by the error text |
| sBCH client (`bot/client_sbch.go`) | – | logs, times, getSwapState; callHtlc: nonce, estimate, send, wait for the receipt |
| HTLC contract (not in the repository) | Invalid, Locked, Unlocked, Refunded | lock, unlock with the secret, refund after the time lock |
| covenant, builder, parser (`htlcbch/`) and ABI, logs (`htlcsbch/`) | – | scripts, transactions, their recognition in blocks and events |
| HTTP server, error log (`bot/server.go`, `bot/err_log_queue.go`) | bounded queue | ping, logs, info: goroutines beside the loop |
| tools (`cmd/`) | – | start the bot, print the database, make a user's HTLC transactions |

A **master** does everything.  A **slave** runs beside it with its own
database and no right to lock coins: it follows the master's locks on the chains and
unlocks or refunds when the master has not done so for a while
(`slaveDelaySeconds`, `slaveDelayBchBlocks`).  `lazyMaster` is a debug flag
that gives the slave the first turn.  Bots talk to each other only through the chains; the
two directions of one bot share the loop, the wallet and the nonce.

What is hard here: every handler changes a chain first and the database
afterwards, so a crash, a lost answer or a failed save leaves the two apart;
two bots act on the same swap; each scan reads its own height, so events of
one chain may be seen before the causes on the other; the time locks on two
chains with separate clocks must leave the bot enough time; handlers are
repeated after a restart, and what a handler drops is never seen again.
`PROJECT.json` lists these hazards at their lines.

What makes each part correct:

- bot, either direction: a record tells the truth about the chains; the user's
  coins are taken only for the bot's; the user does not get both; locked
  coins come back or are taken; a revealed secret is used; a slave keeps out of a
  prompt master's way; one lock for a swap.
- scans: every block and every event is handled at least once, and handling
  it twice does no harm.
- time locks: lateness limit, half-length lock and delays leave a margin that the
  clocks' drift does not eat up.
- queries: no record is starved by others in front of it.
- error log: bounded, newest entries kept; info: no active swap is missing.
- wallet: outputs are found if there are enough; what leaves comes back or is locked for a user.

## The modules

| module | what it is |
|---|---|
| `AtomicSwap` | the promise of a swap: a user's leg and a bot's leg, and who may move which, when |
| `AtomicSwap_proofs` | the promise implies that the bot gets the user's coins only if the user has the bot's |
| `Bch2Sbch` | BCH=>sBCH: users, both chains, any number of masters and slaves |
| `Bch2Sbch_proofs` | its types, two of its safety properties and the refinement of `AtomicSwap` |
| `Bch2Sbch_times` | what its time locks are good for: a prompt master acts before the slaves and does not lose its sBCH |
| `Sbch2Bch` | sBCH=>BCH, built the same way |
| `Sbch2Bch_proofs` | its types and the same two safety properties |
| `Sbch2Bch_times` | what its time locks are good for: the refinement of `AtomicSwap`, and a prompt master acts before the slaves and does not lose its BCH |
| `OrderedFeed` | the promise of a scan: every height is delivered at least once and in order |
| `BlockScan` | start of the database, both scans and their saved heights, reorganisations; refines `OrderedFeed` twice |
| `ErrLogQueue` | the bounded queue of errors |
| `BotProcess` | composes the scans with the queue and the HTTP server beside the loop |
| `BotProcess_proofs` | both refinements, final blocks, the queue |
| `MarketMaker` | a master with swaps in both directions: what they share |
| `MarketMaker_proofs` | its types, the choice of outputs, the balance of the wallet, the answer of `/info` |
| `MCMarketMaker` | the instance of it that is checked |
| `Timelocks` | time lock arithmetic with the widths of the code, and theorems about it |

`Bch2Sbch` and `Sbch2Bch` follow one swap step by step, through every point where a
crash or another bot may come in.  `MarketMaker` follows several swaps in larger steps.
`BlockScan` has what these two take for granted: that scans hand over each block.

### How state and actions correspond to the code

`pc[b]` is the call of the loop body bot `b` is in, `todo[b]` the records that call
has read and not handled yet, `mark[b]` the height or time it read once, `pos[b]`
how far a scan has got.  `status`, `lockTime` (SbchLockTxTime), `lockTx`
(BchLockTxHash), `revealedAt` (UpdatedAt of a record with a secret), `lastBch`
and `lastSbch` are the database.  `calls` holds a bot's transaction
between sending it and saving its outcome: `LockSbch`, `RefundSbch`, `UnlockBch`
and their twins send, the chain mines, `SaveResult` is the rest of the handler,
`CallFails` its error path.  Each loop call is thus cut where the
other actors can get between its steps, and nowhere else; a step does all
that the handler does up to there.  `EndStage` goes from one call to the next in the order of `Loop`,
reading the next call's query; `EnterInVain` is a call whose first query or RPC
fails.  The calls of the other direction change nothing in a module
and are left out of its cycle.

The chains are modelled from how the code uses them: `swap` is the
contract's state, `utxo` (or `locks`) the HTLC outputs, `sbchPool` what is sent and
not mined, `sbchLog` the events of which each scan takes a batch.  A second
transaction of a bot with one still pending fails, because `getNonce` counts mined
transactions only.  A BCH transaction is in the next block, and in the mempool
before.  In `Sbch2Bch` nothing but the database keeps a bot from locking twice,
so `locks` is a sequence.

Two places look odd and are as in the code.  `handleBchReceiptTx` has its status
check commented out, so `Received` has none.  `handleBchDepositTxS2B` goes on
when it finds no record and saves one without a hash lock; the unique columns
admit one of these, it can never be refunded (no covenant can be made from
it), and it hides the swap's own record from the lookup by transaction:
that is `strayTx`.

In the modules of one direction: one BCH block is 600 s, one unit of sBCH time 300 s.  A unit is half a
block because the code halves time locks.  The check of lateness and the send
that follows are one step, and prompt time waits until what was sent is mined: the delay between check and inclusion is not
in `BotNotCheated`.  `SbchMargin` and `BchMargin` of `Timelocks` say what is left for it.  The local clock of a bot is sBCH time.
A database that fails in `HandleBchBlock` of `Sbch2Bch` fails for all the records of that block.  Deposits that fail the checks of the handlers other than that of the price change
nothing and are left out.  The initial heights are saved heights at the tip of both chains;
how they come about is in `BlockScan`.

`BlockScan`: `pc` is the line a scan is at, `from` and `upTo` its locals, which a fault
discards; a block or batch is handled in one step and its height saved in the next.
`SafeHeight`, `FirstBch`, `FirstSbch` and `BatchEnd` are computed as `int64` and `uint64` with
wrap-around at `WordRange`.  `table` is the table LastHeights: not there, without its row, or ready.
A crash between making the table and adding the row leaves the second, and
from there the bot never starts again (`NoHeights`).  A block is a height and a branch, so that a handled block may be
replaced.  The handled blocks are history variables: the refinement maps `seen` to them
and `next` to the height after the saved one.

`BotProcess`: an error of the loop is logged in the same step; `/logs` takes from the queue
at any moment, under the mutex; the end of the process loses the queue and keeps the heights.

`MarketMaker`: `table[t]` is the order of `updated_at`, `Query` the first `QueryLimit` records with a
status, `Save` moves a record to the end.  `pending` is the bot's one sBCH account: with a transaction
pending every further one fails.  `wallet` are the amounts of its outputs on BCH, unconfirmed change
included, as `GetUTXOs` asks for 0 confirmations.  `EndStage` goes to the next call that finds something to do;
calls that find nothing change nothing.  A transaction is sent in one step (`LockBch`, `RefundBch`, `UnlockBch`,
`SendSbchTx`) and the record saved in the next (`SaveResult`); in between the process may stop (`Crash`), or the node's
answer or the save fail (`LoseResult`), and the record stays as it was.  On BCH the next pass then locks
again: the swap's leg is the last of its locks, and `orphans` counts those before it, which no record refers to.
`UserRefunds` of a BCH deposit pays its penalty to the bot's wallet (`Penalty`).
`TimePasses` brings a swap past all its deadlines; what is in between is in the other modules.  `InfoQuery` is a query of `/info`; it
watches one record that is active when the request begins (`due`).

`Timelocks` are operators only: conversions, deadlines and lateness checks as in the code.

## Faults, time and fairness

`FaultKinds` and `MaxFaults` choose what goes wrong, at any step:
`crash` (the process loses everything but the database; also what `log.Fatal`
does when a height cannot be saved), `rpc` (a request fails and nothing was sent), `timeout`
(a transaction was sent, its answer or receipt is lost or late) and `db` (a save
fails and is only logged).

`Prompt` is for the properties that depend on time.  When it is FALSE the
clocks advance at any moment within `Drift` of each other, so bots may be
arbitrarily slow.  When it is TRUE time waits until every bot that is up has gone
round its loop three times since the last tick and the sBCH pool is empty: a round takes
seconds, a unit of time five minutes.  A bot in `DownAtFirst` is down, untouched
by `Prompt`, until it starts at any moment.

Fairness is weak fairness of each bot, of mining and of both clocks; in `BotProcess` and
`MarketMaker` of the loop, with the start of the process part of it, and of mining.  The
code justifies the first: `Loop` never returns, and what failed is tried again 2 s later.  A call to sBCH has a
time-out of 5 s; the BCH client sets none (`client_bch.go:28-54`), so there the fairness also assumes that the node answers or
closes the connection.  The other three say that the chains go on.
Nothing obliges a user to act, and no fairness is assumed of faults.

## The runs

All but `process` and `market` use one swap.  Swaps do not touch each other's records, outputs or
contract entries; what they share (nonce, query limit, wallet) is in `market`.  Heights and times stop at `MaxHeight`; the deposits come early enough
(`LastDeposit`) for every later deadline to pass below it.

| run | what it shows |
|---|---|
| `b2s_faults` | one master, two prices, one fault of kind crash, rpc or timeout anywhere: types; `RecordsBacked`; `UserNotCheated`; refinement of `AtomicSwap`; and under fairness `LockedSbchSettles`, `RevealedDepositSpent` |
| `s2b_faults` | the same for the other direction: `LockedBchSettles`, `RevealedSecretUsed` |
| `b2s_prompt`, `s2b_prompt` | `BotNotCheated` for a prompt master that was down for any while at first |
| `b2s_pair`, `s2b_pair` | master and slave, a failed save: `RecordsBacked` in both databases; while nothing has failed the slave only watches (`MasterActsFirst`).  The slave may start late |
| `process` | both scans from an empty database on, two faults, one reorganisation of one block with two confirmations, batches of two blocks: both are ordered feeds (`BchBlocksInOrder`, `SbchEventsInOrder`) and catch up (`ScansCatchUp`); `HandledBlocksAreFinal`; `NewestLogsKept` |
| `market` | two swaps that need the wallet, a large and a small one, and one that pays into it; queries of one record; penalties; one fault anywhere, a crash, a lost answer or a failed request or save: `FindsOutputs`, `WalletBalanced`, `SecondLocksAreFaults`, `NothingActiveMissed`, and under fairness `NoneStarves` |
| `b2s_orphan` | violated: `NothingLockedTooLate` |
| `b2s_slave_order` | violated: `SlaveFollowsLock` |
| `s2b_double_lock` | violated: `OneLockPerSwap` |
| `s2b_receipt` | violated: `RevealedFromBchLocked` |

The bounds: one fault suffices to separate chain and database at every point of a
handler, and each kind hits every step; time locks of three blocks (four
units) let every deadline of the code pass before and after every step within
three or four blocks.  In `process` chains start with any height up to three: empty, shorter than the
confirmations, and longer than a batch; with two faults a start can fail twice.  In `market` the large swap takes both outputs, the small one either, so
the fee may be more than the reserve, change may be dust, there may be no
output left, and a record that cannot be handled may fill the query; the one fault may be a second lock.  `CHECK_DEADLOCK` is left on: bots never stop.

`NoneStarves` says that records that can be handled are handled in the end unless as many
records as a query returns are stuck before them.  `Stuck` names the ones that fail at
every pass without a save, and they are the code's: a New record whose sBCH is locked already (the
finding below), a New record the wallet has no outputs for (asked before the time,
so it is never too late), one whose fee is more than the reserve, and a SecretRevealed record whose user has taken the sBCH back.

`WalletBalanced` accounts for every lock transaction, orphans included: what they cost, less what the bot took back, what
users' deposits and what penalties brought, up to fees and dust.  `SecondLocksAreFaults` bounds the orphans: nothing but a
fault between a `SendTx` and its save makes the bot lock again, and each such fault does so once.  (That it does is the finding
`s2b_double_lock`.)

`NothingActiveMissed` holds because `/info` asks for New, Locked and Revealed in the order in which
records move; a record may be counted twice.

`LockedSbchSettles` counts only records whose refund becomes due before the clock
ends, `LockedBchSettles` also only what happens after the last fault and only if the
block that makes the refund due is still to be scanned, because `refundLockedBCH`
acts in passes that see a new block.  Database faults are left out of
the two fault runs: a failed save of SecretRevealed loses the secret
for good (`bot.go:868`), and no liveness property could hold.

`BotNotCheated` depends on the margins.  Runs with a master that is down at first and other
time locks and drifts fail exactly where the `Margin` of the theorems below does not hold:

| | confirmations, drift of the clocks | fails with a time lock of | holds with |
|---|---|---|---|
| BCH=>sBCH, in blocks | 1 or 2, 2 units | 9, 10, 12 | 11, 13, 14, 15 |
| sBCH=>BCH, in units | 2, 2 units | 40, 44, 48 | 52, 56, 59, 60 |

The README of the repository registers its example with a lock of 6 blocks; for
such short locks the margins hold only if the clocks agree.

Every property of a passing run has a mutant: a variant of one mapped definition, kept next to it
under the comment "Mutant", with which the property is violated.

### What the violations show

- `b2s_orphan`: the process stops, or the receipt does not come in time, after the sBCH lock was sent.  The
  record stays New, later sends fail, and the record ends as
  TooLateToLockSbch while the sBCH is locked.  No later step of the bot looks at it.
- `s2b_double_lock`: the same on BCH, where nothing stops the second lock.
- `b2s_slave_order`: a slave's scan of BCH is older than its scan of sBCH, the Lock event
  finds no record and is lost; the slave is no help for this swap any more.
- `s2b_receipt`: the comment says BchLocked to SecretRevealed, the code also goes from
  BchRefunded, when the user's spend was in the mempool as the refund was
  tried.  The code is right: with the check `RevealedSecretUsed` fails.

## What is proved

For all values of the constants (any bots, slaves and masters, swaps, prices, time locks, bounds,
faults), from the assumptions named in the modules: bots and flags are of their types, times and
bounds natural numbers; in `BlockScan` also that a reorganisation is shorter than the
confirmations the bot waits for (or there is none), and that heights are less than half of the word's range; in
`MarketMaker` that the swaps are finitely many, of one direction each, and worth more than a fee.  A theorem that
needs more says so in its row.

| theorem | says |
|---|---|
| `Bch2Sbch_proofs`, `Sbch2Bch_proofs`: `TypeCorrect` | `Spec => []TypeOK` |
| the same: `RecordsAlwaysBacked` | `Spec => []RecordsBacked` |
| the same: `UserNeverCheated` | `Spec => []UserNotCheated` |
| `Bch2Sbch_proofs`: `ImplementsAtomicSwap` | `Spec => IsAtomicSwap` |
| `Sbch2Bch_times`: `ImplementsAtomicSwap` | `Spec => IsAtomicSwap`, if `SmallDrift` |
| the same: `TimesInvariant` | clocks, deposits, lock transactions and refunds are where the time locks put them |
| `Bch2Sbch_times`, `Sbch2Bch_times`: `BotNeverCheated` | `Spec => []BotNotCheated` for one `Prompt` master without faults, with any slaves, if `Margin` |
| the same: `MasterIsFirst` | `Spec => MasterActsFirst` for one `Prompt` master with any slaves, up to the first fault; for sBCH=>BCH if `Shallow` |
| `AtomicSwap_proofs`: `SwapIsAtomic` | the abstract swap is atomic |
| `MarketMaker_proofs`: `TypeCorrect` | `Spec => []TypeOK` |
| the same: `WalletFindsOutputs` | `Spec => []FindsOutputs` |
| the same: `WalletAlwaysBalanced` | `Spec => []WalletBalanced` |
| the same: `SecondLocksHaveFaults` | `Spec => []SecondLocksAreFaults` |
| the same: `NothingMissed` | `Spec /\ []FewActive => []NothingActiveMissed`: at most 500 records of one active status in a table |
| `BotProcess_proofs`: `BchScanImplementsFeed`, `SbchScanImplementsFeed` | each scan implements `OrderedFeed`; `NothingIsSkipped` follows |
| the same: `ScanTypeCorrect`, `HandledStay`, `NewestLogsStay` | types; handled blocks are final; the queue |
| `Timelocks`: `SbchLockExact`, `BchLockExact`, `BchLockWraps` | the conversions are exact for 16 bit locks in blocks and for locks below 39321600 s, and no further |
| the same: `NotTooLate` | what passes the unsigned lateness check is not in the future and at most a third of its time old |
| the same: `SbchMargin`, `BchMargin` | a sixth of the user's time is left when the bot's own lock ends |

`RecordsBacked` is not inductive: a record is saved from what a bot
carries through its loop, and that may be old.  `IInv` adds that each carrier is true
of the chains as well: events (`LogBacked`), pending transactions
(`PoolBacked`), calls in progress and their results (`CallsBacked`), the
records a call has read (`TodoBacked`), and that no scan reads past the log (`LogRead`).  In
`Sbch2Bch` a bot also knows a secret through its reference to a lock transaction, so a
reference must be to a lock of that swap (`LockTxBacked`), the stray record included.  It
works because each fact that is carried is stable: a deposit was made, a swap was locked, a
swap is unlocked or refunded for ever, a spent output stays spent.  The proof of `IInvStep` has a lemma for each group of
actions: scanning and moving on (`LoopStepSafe`), handling a record (`RecordStepSafe`),
ending a call (`CallStepSafe`), mining (`MineSafe`) and users (`UserStepSafe`).
The refinement maps mining to BotLocks and BotRefunds, `UnlockBch` to BotClaims,
the users' steps to theirs, and everything else to stuttering.

`ScanInv` says where a scan is: at the block after the saved one and not beyond what was safe when it began
(`BchScanOK`), at a batch that begins after the saved height or at the tip (`SbchScanOK`), and that all handled blocks are
safe (`HandledSafe`).  `HandledSafe` is inductive because a reorganisation makes the chain one block longer
and replaces only unsafe blocks.  The conversions between signed and unsigned
heights are dealt with once, in `FirstIsSafe` and `BatchEndRange`.  `QueueInv` is `NewestLogsKept` and the types.

### The time locks

`IsAtomicSwap` of `Sbch2Bch` is a matter of time: two masters, or a slave that refunds before a master with a
lost answer locks again, would take the bot's leg from refunded back to locked.  Only the lateness
check stands against that.  `TimesInvariant` says, for any bots and any faults, that the clocks are
within `Drift`, that each lock transaction was sent within a third of the user's time lock after the deposit, and
that a refund came no earlier than the lock's own time lock.  From

    SmallDrift:  TimeLock \div 3 + 2 * Drift < 2 * BchTimeLock + 2

follows that whoever could still lock is earlier than any refund (`NoLockAfterRefund`).  As `BchTimeLock` is a
quarter of `TimeLock` in blocks of two units, this leaves the clocks a twelfth of the user's time lock.  A second lock before a refund is
possible, and no step of the bot's leg.

`BotNeverCheated` is about the order of things in the loop.  Time waits for the bots (`Prompt`), there is one
master `m`, nothing fails, and slaves and users do what they like; `lazyMaster` is off, as in production.  Without these the
property is false: the findings above lose coins.  The bounds on the time lock are

    BCH=>sBCH, in blocks:  2 * (TimeLock \div 3) + 2 * Drift < TimeLock
    sBCH=>BCH, in units:   TimeLock \div 3 + 2 * BchTimeLock + 2 * Depth + 2 * Drift < TimeLock

the latest lock, the bot's own time lock, the blocks until a secret on BCH is
scanned (`Depth`), and the drift twice: once for the check of lateness, once for the deadline.
`PromptInv(m)` follows `m` round its loop.  It says of each call of the lap what `m` has done by then: it has a record of every lock (or is about to
save it), every event up to its cursor is in its database (`SecretsSeen`), what was due when the lap
began has been refunded before the scan, what users took before that is seen by the scan, and
the secret is used in the next lap, so that by the third lap after a tick, when time may go on,
nothing that was due is open.  `Deadlines` turns this into a bound on the clocks while
somebody still has to act, and the margin makes that bound earlier than the user's refund.
For the bot's coins a slave's steps matter only in what they do to the chains; they must not lock (`SlavesDoNotLock`).

`MasterIsFirst` needs no margin, and faults may come: it is about the steps before the first.  What `Deadlines` says
of time, the slaves' delays turn into who acts.  A slave refunds a block or two units later than the master, and by
the deadline nothing that is due is locked.  It uses a secret two units of sBCH time after it has found
it.  On BCH a secret that has its confirmations is used by the master before time goes on,
so none that a slave knows is still of use after a tick; on sBCH, where the event may be found at any time of a lap,
none after two ticks (`KnowsOK`).  What a slave has read of its table and of the clock is still right when it acts on it (`ReadsOK`).
`Shallow` is the one condition: `Depth <= BchTimeLock + 1`.  With more confirmations than that the first scan of a new
chain finds a lock transaction when even a slave may refund it, and TLC finds the slave first (`TimeLock` 4, `Confirmations` 3).  The deployed
values, 10 or fewer confirmations and locks of many blocks, are far from it.

### The market maker

`IInv` of `MarketMaker_proofs` says that the list of the loop stays true while the loop works on it (`ListOK`): each record on it still has
the status that was asked for, also while its transaction is sent and not saved, and each event is still to be handled.
This needs that a list holds no record twice and a save touches one record only.  `EventsOK` adds that a deposit is handled once,
that BCH is locked only for a swap with a record, and that none is taken back while the record is New, lost results or not.
No fault is excluded.

A second lock leaves the wallet with an orphan more and the same leg, so `Cost` changes by one term whichever lock it is.  `FaultsOK`, behind
`SecondLocksHaveFaults`, is stronger than the property: orphans and the locks that no record knows of yet and nobody waits for
(`Unsaved`) are together no more than the faults.  A fault adds at most one unsaved lock, and a second lock turns an unsaved one into an orphan.

Sums over the wallet are folds, and what an induction would show is shown by looking at a smallest
set for which it fails (`MinimalSet`, from the library's theorem that strict subsets of a finite set are well founded): a sum takes an element in or out
(`SumAdd`, `SumRemove`), does not depend on the order (`SumImage`), grows with its elements (`SumLess`).
With these `ReceivedWallet`, `SpentWallet` and `LockSpends` give the effect of every wallet operation, and `WalletBalanced`
is inductive.  `FindsOutputs` rests on `LargestAreMost`: among all choices of n outputs the first n are worth most,
because the wallet is in descending order (`LargeInFront`).
The operator `At` takes the elements at some places of a sequence in their order; the queries, saves and spends are
written with it because the library's recursive operators on sequences are out of the prover's reach.

`InfoOK`, behind `NothingMissed`, says that a record that is due has a status that is still to be queried: records move
only forward (`Moves`; a Refunded record with a secret is not active in between).  The limit of 500 is `/info`'s own (`server.go:163`), and with more records than
that of one status records are indeed missing from the answer.

### Only model-checked

The liveness properties (no prover here handles
fairness): `LockedSbchSettles`, `RevealedDepositSpent`, `LockedBchSettles`, `RevealedSecretUsed`, `ScansCatchUp` and `NoneStarves`.
All other properties of the passing runs are stated by a theorem above.

## Not modelled

- Scripts, signatures and byte formats of transactions, ABI and events: pure functions of bytes.
- Gas and its price, key handling and the enclave, flags, logging, the tools that print or encrypt, `/ping`: no
  state of the swaps depends on them.
- `/logs` with a negative number panics in `removeErrLogs`; `net/http` recovers and the deferred unlock leaves the queue as it
  was.  A number too large to allocate ends the process, which is `ProcessCrash`.
- The HTLC contract and the nodes are not in the repository and modelled from how the code uses them.
- The connection of several slaves and masters with a shared wallet: `MarketMaker` has one master;
  several bots are in the modules of one direction.
- The change of the market maker's time locks while records exist: the bot reads them once, at start.
