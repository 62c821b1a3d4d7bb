# Verification of linera_end_to_end_tests

TLA+ models of the programs in this repository, small instances of them for TLC,
and theorems about them checked by TLAPS. Paths below are relative to `src/`.

## Inventory

The repository drives Linera networks from end to end. Its own logic is in the
smart contracts it deploys, in the drivers that deploy and use them, and in a few
tools that watch a running network.

| Component | State | Operations | What is hard | What makes it correct |
|---|---|---|---|---|
| Fungible token (`benchmark_repeated_fungible_operations/.../fungible`), and its copy without GraphQL | on each chain: accounts, allowances | Approve, Transfer, TransferFrom, Claim; messages Credit, Withdraw | chains run concurrently; a Credit may be rejected and bounce; a Withdraw may fail late and is not tracked; saturating addition | no token lost or made; nobody spends more than the owner signed for; every transfer ends |
| Social app (`test_migration_database_schema/.../social`) | on each chain: own posts, received posts; the platform keeps streams, subscriptions, messages | Subscribe, Unsubscribe, Post, Like, Comment; message handler; process_streams | posts, reactions and subscriptions in any order; a panic in process_streams blocks a stream | received posts are what the stream says; posts reach subscribers |
| Migration driver (`test_migration_database_schema/src/main.rs`) | expected posts, client handles | stop and start validators on the other schema, post, poll, count | polling ends at the first empty inbox or after five tries; validators restart while clients run | a storage changes schema with nobody on it; posts are made to a committee that serves |
| SpecifiedLocalNet (`.../src/specified_local_net.rs`) | running validators with their processes, initialised storages, ports | start, restart, stop, terminate, remove a validator; start and stop one server | processes crash, linger or fail to bind; a health check answered by an older process; errors halfway | a running validator is served by its own processes; a stopped one by none |
| Morpho Blue (`test_evm_smart_contracts/morpho_test_code/src/Morpho.sol`) | markets, positions, authorizations, nonces | supply, withdraw, borrow, repay, collateral, liquidate, flashLoan, setAuthorization, accrueInterest | rounding, bad debt, callbacks that call again | totals match positions; borrows never exceed supply; a price of a share falls only by bad debt; a seizure is paid for |
| Native fungible (`.../native-fungible`) | none: the platform's balances | Transfer, Claim; message Notify | tokens and Notify take different ways when a claim involves three chains, or bounces | the app exists where its tokens arrive |
| Counter, counter-no-state, memory counter, state-triviality | one register; one application id | Increment, CreateAndCall, TestTrivialState | a contract call sees the instance in memory, a service query the stored state; u64 wraps | what CreateAndCall and TestTrivialState assert |
| EVM driver (`test_evm_smart_contracts/src/main.rs`, `solidity.rs`) | one of ten scenarios, six node services on one chain | deploy, process inboxes, operate, query, assert | a service answers from the blocks it has seen; time passes between blocks; callbacks spend approvals | a scenario fails only for a reason |
| Chain monitor and chain investigation (`testnet_conway_investigate_chain_id`) | counts of one pass | query every validator of every chain, compare | queries at different moments, validators that do not answer | no healthy verdict for a chain that lags, no issue without a reason, no agreement that was not there |
| Storage benchmark (`benchmark_multi_operations_storage`) | key-value stores of three databases | write and read by one batch, a loop, concurrent futures | concurrent writes of equal keys, failing requests | the three ways agree |
| `Linera.sol`, benchmark driver, HTTP, memory, reported-solutions and validator tools | none between calls | sequential calls with expected results | - | not modelled, see below |

Components interact in three ways: a driver calls contracts through a node service,
contracts on different chains exchange messages (and, in the social app, events on
streams), and the migration driver restarts the validators on which all of this runs.
The drivers of the lower rows are programs of their own that share nothing.

## Modules

| Module | What it is |
|---|---|
| `Fungible` | the fungible token on all chains, with the messages in flight |
| `TokenLedger` | what the token promises: one ledger, and transfers that complete or are refunded once |
| `MCFungible` | instances of `Fungible` for TLC |
| `SumTheorems` | theorems about `SumFunctionOnSet` and `FoldLeft` of the community modules |
| `FungibleProofs` | types of `Fungible`, conservation of every owner's tokens and of the supply, authorised spending; `Fungible` implements `TokenLedger` |
| `Social` | the social application on all chains, with streams, subscriptions and messages |
| `MCSocial` | instances of `Social` for TLC |
| `SocialProofs` | indices count posts, reactions follow posts, received posts are what the streams say, only a reaction ahead of its post stops news |
| `LocalNet` | the validators' processes: ports, health checks, and the operations of `SpecifiedLocalNet` |
| `MCLocalNet` | instances of `LocalNet` for TLC |
| `Migration` | the migration test as a client of `LocalNet`, which it EXTENDS, with its posts |
| `LocalNetProofs` | types of `LocalNet`, every process is held in one place, the ports of the network are distinct |
| `MigrationProofs` | the migration hands storages over with nobody on them, meets no port conflict, posts to a committee that serves |
| `Morpho` | one market of `Morpho.sol`, with its tokens and callbacks |
| `MCMorpho` | instances of `Morpho` for TLC |
| `MorphoProofs` | types of `Morpho`, loans within the supply, totals, backing, claims of suppliers, debts, price of a share, health and seizures |
| `MorphoAdmin` | the rest of `Morpho.sol`, which it EXTENDS: authorizations by signature, what the owner enables, creation of markets |
| `MorphoDriver` | the EVM driver and its test contract as clients of `Morpho`, which it EXTENDS |
| `MorphoDriverProofs` | assertions of the tests see every block, a passed test leaves no approval and no debt that it does not mean to |
| `ChainMonitor` | `monitor_chains` and the consistency check, on chains that grow |
| `StorageBenchmark` | the two kernels of the storage benchmark |
| `Counters` | the counter applications and `state-triviality` |
| `NativeFungible` | the native fungible application on all chains, with the system's messages |
| `MCTools` | an instance of the last six for TLC, with a variable that says which one runs |
| `ToolProofs` | theorems about the monitor of chains, the consistency check, the native application, the counters, signatures, and the storage benchmark |

### Fungible

`accounts[c][o]` and `allowances[c][<<o, s>>]` are the two maps of
`FungibleTokenState` on chain `c`; 0 stands for a missing entry, because the code
removes entries that reach 0 and writes none that is 0. `inflight` holds the
messages. `authorised` and `settled` are history variables: what each owner signed
for, and each owner's tokens as completed transfers leave them.

`Approve`, `Transfer`, `TransferFrom` and `Claim` are the branches of
`execute_operation` with everything they call; `ExecuteCredit` and
`ExecuteWithdraw` those of `execute_message`. Each is one step because a block is
one transaction: a panic discards it, so `expect` and `panic!` are guards.
`FinishTransfer` is `finish_transfer_to_account`, which credits locally or sends a
tracked Credit; `SaturatingAdd` keeps the cap of `Amount`.

External, taken from how the code and `tests/cross_chain.rs` use it: the receiving
chain may reject a message; a rejected Credit (sent with tracking) bounces to the
chain it came from, and a message that bounces cannot be rejected again; a rejected
Withdraw (sent without tracking) is dropped; messages between chains arrive in any
order (the model allows more orders than the platform). A chain's signer is any
owner.

Assumption: the supply fits in an `Amount`. `instantiate` only refuses a zero
supply (its sum saturates), and without the assumption credits could saturate and
lose tokens.

### Social

`own_posts` and `received_posts` are the maps of `SocialState` on each chain, the
second indexed by `Key`. `stream`, `next_index` and `inbox` belong to the platform.
`ProcessStreams` is one call of `process_streams`: the updates in any order, each
from the subscriber's next index to some event, as nested folds over
`ExecuteEvent`; if one event panics with "Post not found", the block does not
happen. The text of a post is left out, and the text of a comment is the chain
whose user wrote it, so that a property can compare it with the recorded
`chain_id`.

External: blocks of a chain have timestamps that do not go back; events are read in
order; unsubscribing forgets the next index, so subscribing again reads the stream
from its start; messages between two chains arrive in order and the receiver may
reject one, which drops it because it is not tracked. Users react to posts they
see; `TypedKeys` adds keys that no post has (only the run `social_missing_key` does).

### LocalNet and Migration

`running[v]` is the entry of `running_validators`: the children's names, proxies
first, `<<>>` for no entry. `storages` is `initialized_validator_storages`,
`directory` the public field that the test changes, and `op` what the one running
`async` operation holds in its local variables: the children built so far, or those
still to be killed. An operation is an action up to its first wait (`StartValidator`,
`RestartValidator`, `StartServer`, `StopValidator`, `TerminateServer`, `Terminate`),
then one `Spawn` and one `HasStarted` or `HasNotStarted` per child (`run_proxy`,
`run_server` and their health checks), `CannotSpawn`, or one `Kill` per child.
`RemoveValidator` and `EnsureIsRunning` do not wait. Every `?` is a disjunct that
leaves through `Idle("Err")` and drops what the operation holds. A call that
panics is a guard.

External: `process` is the system's table. A process binds its ports or exits
(`Bind`), fails by itself (`Fail`), or dies some time after its handle was dropped
(`Reap`). `DropHandles` is the drop of `Child` values, which are spawned with
`kill_on_drop`; `Child::kill` fails on a child that was already waited for. A health
check asks a port, not a process. Ten checks in a row fail only if nothing answers
at the last one; how long that takes is left open, so a slow start is a failure that
can always happen.

`Migration` adds `next_step` in `Script`, the sequence of calls in `main.rs`,
including the four starts by `instantiate`. `NextStep` calls the next one when the
last returned `Ok`; `DropNet` is the end of the function, reached after the last
step, at the first `?` that fails, or at a panic. `SocialMakePosts` is one call of
`social_make_posts`, in three phases that `op` remembers: check the posts, make one,
check them again. `WaitProcessInbox` is one poll: it processes the inbox, finds it
empty, or fails; the fifth that does not find it empty gives up. `CheckPosts` then
compares the number of posts that chain2 has `received` with the number `expected`,
and a difference is the panic of `assert_eq!`. `Post` counts the post before it makes
it, as the code does.

External: `known` is what `node_service2` has heard of from some validator
(`HearOfPosts`), at any time after the post; it processes its inbox by itself too
(`ProcessAutomatically`). Blocks need a `Quorum` of validators that serve, and an
operation on the network may fail with one. A storage that is initialised again
keeps what it holds: that it does is decided by the `linera` binaries, so that posts survive
a replacement is an assumption, and `StorageHandedOver` is what the network owes it. The
social application is reduced to counts here: a post that is processed is received, which
is what `Social` shows (`ReceivedMatchesStream`).

### Morpho

`position`, `market`, `fee`, `feeRecipient` and `isAuthorized` are the contract's
storage for one market that exists; `position` has an entry for `address(0)`, which
receives the fees until a recipient is set. Each external function is an action. A
`require` and an overflow that the compiler checks revert the call, so they are
guards (`Fits` for the `uint128` totals). `AccruedMarket` and `AccruedPosition` are
`_accrueInterest`, which most operations call first. Rounding is exact: the operators
of `MathLib` and `SharesMathLib` are translated with their direction.

`balance` holds the two tokens, the contract's included. `calls` is the stack of open
callbacks. An operation whose data is not empty pushes what it will collect
(`Collect`); its sender may then call the contract again, and `EndCallback` collects
and pops. A transaction that reverts inside callbacks leaves the state it started
from, so it has no action.

External: the oracle (`SetPrice`, any listed price at any time, also between two calls
of a transaction); time and the interest rate model, which `growth` stands for: what
one asset has earned since `lastUpdate`, the result of `wTaylorCompounded`
(`TimePasses`). `Transferred` is the token, `ERC20Mock`, with allowances that suffice.
`OtherMarkets` is what the same contract holds for other markets, which a call on
this one could spend by mistake. A payment goes to any user or to the contract itself
(`Receivers` bounds which ones a run tries), which then holds tokens that nobody can claim: `Backed` says that it holds no less than
it owes.

### MorphoAdmin

`nonce` is the contract's, `timestamp` the block's, `owner`, `isIrmEnabled`,
`isLltvEnabled` and `markets` what only the administration writes; `isAuthorized` is
the variable of `Morpho`. `SetAuthorizationWithSig` takes an authorization that was
signed, from anybody, at most until its deadline and only for the next nonce of its
authorizer; it uses up the nonce also when it changes nothing. `used` and `granted` are
history variables. `SetOwner`, `EnableIrm`, `EnableLltv` and `CreateMarket` are the
owner's functions and the one that anybody may call; no property of their own is stated
about them, since each is a guard and one assignment.

External: `Sign`, a user who signs any authorization at any time, also two for the same
nonce; recovering the signer from a signature is exact.

### MorphoDriver

A scenario is a sequence of steps, built by the operators that carry the names of the
driver's functions (`SimpleSupplyWithdraw`, ... `LiquidateWithCallback`); `pc` walks
through set-up, approvals and the chosen scenario. `RunOperation` executes a
transaction on the actions of `Morpho` with the allowances of `ERC20Mock`
(`Charge`); `Revert` is an operation that no action of the contracts allows, which
ends the test as `?` does. A call with data opens a callback of the test contract,
which `CallbackAndCollect` answers. `view[c]` is what the node service of client `c`
has seen: `ProcessInboxStep` refreshes it, `Answer` reads it, and an operation leaves
its proposer up to date. `RunRefusedOperation` is the excess borrow of choice 5.
Amounts are in ether and rates in percent, `LLTV` 80 and prices 100 or 80 of 100, as
in the tests.

`PreparationFails` is everything before the contracts are published, which sets up clients
and moves native tokens; `Terminate` checks services and network, which may be gone.

External: `ClockAdvances` lets time pass between any two steps (interest of one or two
percent); a proposal on an old block may be refused (`RefuseProposal`).

### ChainMonitor, StorageBenchmark, Counters, NativeFungible

`ChainMonitor`: `blocks`, `held` and `sound` are the network (external): chains grow,
validators receive blocks in order and may be late, and one may get a wrong state while
the consistency check runs, before or after it is asked (`Diverge`).
`Monitor` or `CheckConsistency` starts one program; `Answered` and `NotAnswered` are
one query each; `Assess` is the evaluation of one chain, `Report` that of the pass,
`Compare` the consistency check. `first` is a history variable: what was held at the
start. Both properties of the monitor bound its verdict by what was true at the start
and what is true at the end, since nothing more can be said of heights that are asked
for one after the other.

`StorageBenchmark`: `pairs` are the random keys and values, the same in every kernel
because the generator has one seed. `WriteOne` of the way `"futures"` takes any pending
pair, of the way `"loop"` the first. `RequestFails` is any `?`.

`Counters`: `storage[a]` is what is saved of a counter, `instance` what the
transaction of `CreateAndCall` holds in memory. The steps of `CreateAndCall` are
actions in order, each with the `assert!` of the code (`Claim`), and a failed one undoes
the transaction. `expected` is what the test will pass to `TestTrivialState` next: `!do_save`
of the call it just made.

`NativeFungible`: `funds` are the platform's balances; a `Bundle` holds what one block
sends to one chain, the system's Credit or Withdraw and perhaps the Notify of the
application; it is accepted or rejected whole, and a rejected Credit is returned.

## Not modelled

* `Morpho`: `extSloads`, which reads, and several markets that hold positions at once
  (`OtherMarkets` is what they hold together). `onlyOwner` is in `MorphoAdmin`; for
  `SetFee` and `SetFeeRecipient` the owner calls when it likes. The rate model and
  `wTaylorCompounded` are the parameter `growth`.
* `Linera.sol` and the generated `LineraTypes.sol`: an interface and conversions, called
  by no test of the repository.
* The fungible benchmark's driver: one block of transfers, timed; nothing it does depends
  on an earlier answer. The HTTP test is one request and one comparison, the memory test a
  measurement, the validator investigation one question per validator, and the reported
  solutions are registers that are set and read back.
* The byte order of the keys of `received_posts` (`lib.rs:99-119`), decided by a library.
* Block exporters of `SpecifiedLocalNet`: nothing calls `run_exporter`.
* Formatting of answers, command-line parsing, measuring of time, and configuration files.

## Runs

| Run | Configuration | Question |
|---|---|---|
| `fungible` | `MCFungible.cfg` | types, conservation, authorised spending, refinement of `TokenLedger` |
| `fungible_live` | `MCFungibleLive.cfg` | every message is done with eventually |
| `social` | `MCSocial.cfg` | received posts match the streams, reactions follow their posts, no news is refused |
| `social_live` | `MCSocialLive.cfg` | posts reach every chain that stays subscribed |
| `social_commenter` | `MCSocialCommenter.cfg` | violated: who wrote a comment |
| `social_missing_key` | `MCSocialMissing.cfg` | violated: delivery after a reaction to a post that does not exist |
| `localnet` | `MCLocalNet.cfg` | any sequence of operations keeps track of every process |
| `migration` | `MCMigration.cfg` | the migration meets no port conflict, hands storages over with nobody on them, posts to a committee that serves, panics only on a post that has not arrived, leaves nothing behind |
| `migration_race` | `MCMigrationRace.cfg` | violated: posts have arrived when polling is done |
| `morpho` | `MCMorpho.cfg` | accounting, claims of suppliers, rounding, health and seizures under any calls, with interest and a fee |
| `morpho_callbacks` | `MCMorphoCallbacks.cfg` | the same contract called again from its callbacks, with prices that fall, seizures and bad debt |
| `tools` | `MCTools.cfg` | six programs that share nothing: scenarios fail only for known reasons, a signature takes effect once, verdicts on chains are true, three ways of storing agree, counters are saved only on request, the native application follows its tokens |

Bounds. `fungible`: two chains, two owners, two messages in flight, a supply and
`MaxAmount` of 2 (so any wrong addition saturates or leaves the type), signatures
for 3 in total per owner. Two chains suffice for every path of a message (local,
remote, a claim that pays a third account, a bounce), two messages for a Withdraw
racing a Credit. The messages' slots are symmetric. The signing budget ends every
behaviour, so deadlock is not checked; the live run has a budget of 2.
`social`: two users (each is author, subscriber, commenter of the other),
two posts each, three events, two timestamps, one waiting message per pair of
chains; enough for a post, a reaction and a second post or reaction, read in any
portions, with unsubscribing in between. Chains are symmetric, except in the live
runs, which use no symmetry.

`localnet`: two validators of one proxy and one server, four process names, one
fault: enough for a validator that is started again while its old processes live,
hold its ports and answer its health checks. The names are symmetric; a behaviour in
which they are all in use stops, so deadlock is not checked. `migration`: the four
validators of the test with one proxy and one server each, as the test has them, two
processes that fail by themselves at any time, and nine names: eight that run, and one
more, since names of dead processes are used again only after they are buried. `Quorum`
is three of four. All four rounds of posts are made. The test ends, so deadlock is not
checked.

`morpho`: a user with three loan tokens and one with two collateral tokens, calls for up
to two assets or one share, one price, one rate and one fee. A debt grows to nine times
itself at once, and the fee is a quarter, the largest allowed: with numbers this small,
less would round the shares of the fee to nothing. `WAD` is 20 and `LLTV` 16, which
leaves an incentive above one. `MAX_UINT128` is 19: it bounds the totals, and
operations that would pass it revert as in the code; the types are checked against it.
Interest makes the unhealthy positions of this run. Payments go to either user or to the
contract (`Receivers`). `morpho_callbacks`: payments to the users only, two loan
tokens, one more of another market, two prices (half of the scale and twice it), so
that a position can be healthy, unhealthy, and too poor for its debt; one level of
callbacks, calls for one asset or share, authorizations of one user by the other, no
interest, totals up to 3. In both `VIRTUAL_SHARES` is 1, so a share and an asset start
equal and their ratio moves with interest or bad debt. Bad debt after interest is beyond
both bounds; the proofs cover it. Deadlock is checked: prices can always be set.

`tools`: the first state chooses the program, so that the run explores each of the six
on its own, and the variables of the others stand still. `MorphoDriver`: all ten scenarios
with the amounts and the two prices of the tests. `MorphoAdmin`: two users sign up to two authorizations for
nonces 0 and 1, deadline 1, time up to 2, so that a signature can be handed in twice, late,
too early, or after another one took its nonce; an owner, another user and the zero address
as owners; two rate models and thresholds 0, 80 and 100 of 100. `ChainMonitor`: three validators, files that name two
chains, none, or a line that is no chain; two blocks and two moments, a threshold of two
blocks and any age is stale. With two blocks a validator can be one behind (lagging) or
two (a discrepancy), with two chains lag on one is half and on both more than half. One
validator may diverge (`MaxDiverged`); the theorem allows any number.
`StorageBenchmark`: three pairs over two keys and two values, so that keys repeat with
equal or different values, and three databases. `Counters`: two counters and values 0, 3
and 5 modulo 8, so that sums wrap, one to 0 again (3 + 5). `NativeFungible`: three chains, one
owner with one token, three bundles: a claim from a second to a third chain, with the
Credit it causes and its return. Programs end, so deadlock is not checked.

Fairness. `fungible_live` assumes that each chain's owner keeps processing its
inbox (the node service does so with `ProcessInbox::Automatic`; the benchmark's
`ProcessInbox::Skip` is used where no message is sent). `social_live` assumes that
a chain keeps processing the streams it subscribes to, again the node service's
automatic inbox processing in the migration driver. Nothing is assumed of users.
`migration` assumes that the test's only task runs on while it can, that a started
process binds or exits, and that a killed one dies. No fault is assumed to happen or
not to happen.

## Findings

* `social_commenter`: `process_streams` files a comment under `update.chain_id`,
  the chain of the stream, which is the author of the post. `lib.rs:83` documents
  the field as "The ChainId of the commenter"; no message or event carries the
  commenter.
* `social_missing_key`: no chain looks up the key of a like or comment. One that
  names no post is published on the author's stream, every subscriber panics on it
  ("Post not found"), and no later post of that author is delivered, while
  `README.md:17` of the application says that all subscribers receive a post.
* `migration_race`: `wait_process_inbox` returns at the first inbox that is empty
  (`main.rs:177-178`), also when the node service has not heard of the new post yet, and
  `check_posts` then asserts the number of posts (`main.rs:220`). Its five polls with
  growing pauses and its error "Failed to get the message" (`main.rs:181`) say that it
  waits for the message. `PanicMeansUnseen` shows that this is the only way in which the
  assertion can fail.

Not findings, but worth knowing:

* `test_evm_smart_contracts/src/main.rs:66-73` reads an answer that is too short as zero,
  so two scenarios that expect zero would also accept an empty answer.
* Choice 5 takes any error for the refusal of the excess borrow (`main.rs:1114`).
* Two scenarios repay what was borrowed and expect no debt to be left. They pass because no
  time passes between their blocks; `FailuresExplained` names them (`RepaysExactly`).
* The comment at `test_migration_database_schema/src/main.rs:344` speaks of the "two
  remaining old validators", which run the new schema since lines 333-338.
* Ports of block exporters share the base of the proxies' metrics
  (`specified_local_net.rs:349`); nothing starts an exporter.
* A claim of native tokens from a second to a third chain notifies the second one only: the
  third may get the tokens without the application (`elsewhere` in `NativeFungible`).

## Proofs

* `SumTheorems` first solves the recursion behind `SumFunctionOnSet`: on a finite
  set there is exactly one solution (`SumSolvable`, `SumSolutionsAgree`). The
  provers cannot instantiate the library's induction theorems, so the two
  inductions are replaced by a least counterexample (`LeastNatural`, `LeastSet`).
  From it follow the lemmas that other modules cite: `SumRemove` (any element may be taken
  out), `SumSame`, `SumUpdate`,
  `SumShift`, bounds, sums of zeros and the comparison of sums (`SumScaled`). `FoldSolvable` does the same for the recursion
  behind `FoldLeft`, whose steps have to stay in one set; `UpTo` is induction up to a bound.
* `FungibleProofs!TypeCorrect`: `Spec => []TypeOK`. `TypeOK` is inductive; there
  is one step per action.
* `FungibleProofs!OwnersKeepTheirTokens` and `SupplyIsConserved`:
  `Spec => []OwnerAccounting`, `Spec => []SupplyConserved`. `OwnerAccounting` alone
  is not inductive: a credit keeps it only if it does not saturate. The invariant
  `Accounting` adds the types, that `settled` sums to the supply, and the balance of
  every owner. From it no `settled` is negative and no balance can exceed the supply
  (`NoSaturation`), hence no credit saturates. Each operation is a debit that owes
  its amount (`DebitOwes`) followed by one of the two ways to settle it
  (`CreditLands`, `CreditSent`).

* `FungibleProofs!SpendingIsAuthorised`: `Spec => []SpendingAuthorised`. The invariant
  `Spending` adds to `Accounting` that no owner's `Margin` is negative: what the owner holds,
  has coming back and has signed for, less what the owner started with, has allowed and has
  claims pending for. Every step changes both sides by amounts that match (`MarginKept`);
  `Accounting` is needed where a bounced credit is refunded, which must not saturate, while
  saturation elsewhere (a sum of allowances) only widens the margin.
* `FungibleProofs!LedgerIsImplemented`: `Spec => ImplementsLedger`, the refinement of
  `TokenLedger` for any number of chains. An operation is a transfer of the ledger or nothing
  it can see, a Credit that arrives or comes home completes its transfer; `Accounting`
  excludes the saturation with which an arrival would credit less than was sent.

The theorems hold for all finite sets of chains, owners and slots and any supply
that fits in an `Amount` (`FungibleAssumption`, which TLC evaluates on each run).

* `LocalNetProofs!TypeCorrect` and `EveryHandleTracked`: `Spec => []TypeOK`,
  `Spec => []HandlesTracked`. `NetInv` is both, with what `op` holds while it waits: children
  of its own that no validator has, each once. The handles of all validators form one
  sequence, and most of the work is in what replacing one validator's part of it does to
  what is held (the lemmas about `FlattenSeq` and `HandlesOf`).
* `LocalNetProofs!PortsDistinct`: no two processes of a network need the same port if and
  only if it has at most 1000 proxies. `instantiate` checks this bound for the servers
  (`LocalNetAssumption`), not for the proxies. Offsets lie in 1..1000 (`OffsetBounded`), the
  bases are at least 1000 apart, and numbering by validator and position is injective
  (`NumberingInjective`); beyond the bound some proxy has offset 1001 (`NumberingReaches`),
  and its metrics port is the public port of the first one.
* `MigrationProofs`: the specification of the test, as a client of that network, for any
  number of proxies and servers per validator and any number of faults
  (`MigrationAssumption`: the four validators of the test, and enough ports).
  `EveryPanicExplained` needs `PostsInv`: what is received is known, what is known was
  posted, and without an error as many were posted as were counted, and received except
  while a post is being made. `PortsNeverTaken` and `CommitteeAlwaysServes` need `CommitteeInv`,
  which says of every place in the script which validators should be running (`UpBefore`),
  what roles the children of each have, and in which status a child may be: none is still
  starting, except the one that the operation waits for, because a start waits for its
  child to answer. Two children that exist at once then have different roles, hence different
  ports. A validator that does not serve has a child that failed
  by itself; choosing one for each is an injection into the failed processes, hence at most
  `faults` of them. `StorageIsHandedOver` needs `SchemasApart`: a validator that the script
  starts has been stopped, which waited for every one of its processes to die (`StartAlone`),
  so that only what the start itself spawns, from one directory, is on its storage.

* `MorphoProofs!TypeCorrect` and `LentWithinSupply`: `Spec => []TypeOK`,
  `Spec => []BorrowWithinSupply`. Neither is inductive alone: a withdrawal may compare
  totals only if they are numbers, and bad debt is written off by equal amounts only
  from totals that are already in order. `MorphoInv` is both. Interest adds the same
  amount to both totals (`AccruedTypes`, with the fee bounded by the interest,
  `FractionBounded`); a liquidation first repays, which lessens what is lent
  (`ZeroFloorSubNat`), then takes the bad debt from both (`WrittenOffTypes`), and never
  divides by zero (`IncentivePositive`). There is one lemma per action. The theorems hold
  for any users, prices, rates, fees up to a quarter, thresholds below one, widths and
  depths of callbacks (`MorphoAssumption`).

* `MorphoProofs`: `TotalsKept`, `TokensBacked`, `DebtsCovered`, `PriceOfSharesKept` and
  `HealthOfOthersKept`. `AccountsInv` adds to
  `MorphoInv` that totals are the sums of positions (with `SumTheorems`), that the contract
  holds what it owes less what open callbacks will collect, and that debts have collateral.
  Each operation has an `Effect`: what it adds to totals, positions and balances; what
  follows from an effect is shown once for all operations. Rounding enters through
  `PricesKept`, as inequalities about products that the lemmas on division give, and the
  price of a supply share falls only where bad debt is written off. `Steps` puts the
  operations together.
* `MorphoProofs!SuppliersAreCovered`: `Spec => []SuppliersCovered`, from `AccountsInv`. The
  claims of all suppliers, each rounded down, add up to no more than the assets supplied
  (`SharesWorth`): each claim is at most its share of them, the shares add up to the total,
  and sums compare as their terms do (`SumTheorems!SumScaled`).
* `MorphoProofs!SeizuresArePaid`: `Spec => SeizedIsPaid`. Whichever of the two amounts a
  liquidator names, the other is what a chain of roundings leaves, all in one direction
  (`SeizureValue`, `RoundingChain`, `BackAndForth`). That an unhealthy user loses collateral in
  no other way is in the kinds of steps: `Examines` refuses a withdrawal of collateral unless
  the user is healthy afterwards, hence was before.

* `ToolProofs!AlwaysDeployedWhereCredited`: `NativeSpec => []DeployedWhereCredited`, for
  all chains, owners, amounts and numbers of bundles. `NativeInv` says of what is under way
  where it will lead: a Credit brings `Notify` or goes where the application is, and the
  chain it would return to is served; a Withdraw brings `Notify`, and pays only a chain that
  is served. There is one lemma per action.
* `ToolProofs!AgreementIsReal`: `MonitorSpec => []AgreeMeansSame`, for any number of
  validators and chains and any growth (`MonitorAssumption`). `MonitorInv` keeps every
  answer of the pass between what its validator held at the start and what it holds now
  (`TrueAnswer`); heights only grow (`NetworkGrows`). The state of a validator that has
  diverged differs from all others, so equal hashes of two answers mean that both had the
  state of their blocks when they were asked.
* `ToolProofs!HealthIsReal` and `IssuesHaveReasons`: `MonitorSpec => []HealthyMeansClose`,
  `MonitorSpec => []IssuesAreReal`, for any validators, chains, files and thresholds.
  Neither is inductive: both speak of a pass that is over. `VerdictInv` says of a pass under
  way what its variables stand for: an answer is a height between what its validator held at
  the start and what it holds now, with the time of that block (`TrueHeight`); without
  issues, the chains assessed so far are close and fresh, and `lagging` counts at least the
  chains a validator has been behind on all the time (`BehindIn`) and at most those of which
  it lacked blocks at the start (`ReceivesIn`); issues have a reason already. Blocks are made
  in the order of their times (`Timely`), so that what was said of a chain stays true while
  it grows (`StillTrue`). `ReadType` solves the fold that reads the file of chains.
* `ToolProofs!SavesAsAsked`: `CountersSpec => []SavesDecide`. `CountersInv` follows the
  transaction of `CreateAndCall` step by step (`Called`): what the instance in memory holds,
  what is saved, and what has been asked, and what the test expects next (`Expects`).
* `ToolProofs!EverySignatureOnce`: `AdminSpec => []SignaturesUsedOnce`, for any users,
  nonces and deadlines; a signature is accepted only for the next nonce, so that the nonces
  spent are an interval that grows at its end.
* `ToolProofs!EveryWayAgrees`: `StorageSpec => []WaysAgree`, for any number of pairs.
  `StorageInv` compares each store with the pairs written so far: the loop keeps the value
  of the last (`HoldsLast`), the futures that of some (`HoldsSome`). That every key written
  has a last write, which would take an induction, is what the store of the loop is a
  witness of (`LastWriteOf`).

* `MorphoDriverProofs!ChecksFresh`: `DriverSpec => []ChecksSeeLatestBlock`. It is a property
  of the scripts (`Prepared`: an assertion follows a step after which the service it asks
  has seen every block), put together from their parts (`JoinPrepared`), and of the states
  in between (`DriverInv`: that step has been done, and a service falls behind only when
  another one proposes).
* `MorphoDriverProofs!PassesClean`: `DriverSpec => []PassedClean`. A callback approves what
  is then collected, of either token (`CallbackUses`), and except in choice 8, where the
  driver itself has the test contract approve collateral, it otherwise approves nothing
  (`Gentle`, `NothingApproved`). A script that repays exactly has
  one loan and one repayment of the same amount (`Cycles`) and ends with an assertion that
  no assets are owed. `LoanInv` follows them: all other operations keep every borrow share
  (`ExecuteKeepsLoan`); the loan, the first of the market, is worth `600 * VIRTUAL_SHARES`
  shares whatever time has passed (`LoanTaken`); its repayment leaves shares only if interest
  has accrued, and then assets too (`LoanPaid`), which the assertion sees because its service
  is up to date (`ViewsTrue`). Every other script takes one loan at most, before anything else
  touches a debt (`LendsOnce`): it makes its first shares (`FirstLoan`), and nothing after it
  gives anybody more (`OwedInv`). The theorems hold for any users, virtual shares, rates, fees
  and clock, with a threshold at which the collateral of the tests is worth a loan
  (`DriverAssumption`).

* `SocialProofs!PostsAreCounted`: `Spec => []IndexCountsPosts`, whatever keys users name.
  `CountsInv` adds the types and that an author keeps as many posts as its stream has.
* `SocialProofs!NewsProcessable` and `ReceivedMatches`, whatever keys users name:
  `Spec => [](ReactionsFollowPosts => NewsNeverPanics)`,
  `Spec => [](ReactionsFollowPosts => ReceivedMatchesStream)`. So a reaction that does not
  follow its post is the only thing that stops a reader; `social_missing_key` shows that it
  does. `ReadersInv` carries the condition backwards: streams only grow, so while reactions
  follow posts they always did (`ReactionsFollowed`). The two nested folds of
  `process_streams` become runs of states of the map (`UpdateRun`, `NewsRun`, with
  `FoldSolvable`). One event brings the map from what `n` events say to what `n + 1` say
  (`EventMatches`): it does not panic, because its post was posted before, hence received; a
  post starts from nothing, because its key is new (`NewKey`) and nobody reacted to it yet
  (`NoReactionYet`). `UpdateMatches` and `BlockMatches` carry this through an update and a
  block, in which updates of different authors change different keys.
* `SocialProofs!ReactionsFollow` and `SocialTypes`: `Spec => []ReactionsFollowPosts` and
  `Spec => []TypeOK`, for users who name only posts that they see (`TypedKeys = {}`, the
  assumption of the run `social`, under which the two theorems above hold without a
  condition). `PostsInv` adds that every key an author keeps, a subscriber has received or a
  message carries was posted on its author's stream.

Only model-checked: all liveness, since fairness is beyond the prover, and
`FailuresExplained` of `MorphoDriver`: that a test fails only for the reasons it names means
that each operation of its script is `ENABLED`, which the prover cannot reason about.

## What could follow

1. `Morpho` with positions in several markets, with more virtual shares than one, and with
   bad debt after interest.
2. A theorem that the tests of `MorphoDriver` fail only as `FailuresExplained` says, after its
   judgement of a refused call has been stated without `ENABLED`.
