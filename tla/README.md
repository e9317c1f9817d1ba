# TLA+ models of codex.relay

codex.relay is an EOSIO-derived blockchain node, with a contract (force.relay)
that relays the blocks of other chains. This directory holds TLA+ models of the
node, its plugins and its contracts, TLC runs that check them on small
instances, and theorems that TLAPS proves for every instance. Paths below are
relative to `src/`; chain/ is libraries/chain/, contracts/ is
unittests/test-contracts/.

`PROJECT.json` lists every part of the system with its status, for every
definition the lines it models, the hazards of the code with the properties
that would catch them, the runs, the findings and the theorems.

## The system

A node is a main thread that executes handlers one after another, and a few
threads beside it. The **controller** owns the chain: it applies blocks and
transactions to a state database with undo sessions, keeps competing branches in
the **fork database**, stores the applied reversible blocks, and moves blocks
that became irreversible to the **block log**. Which block is irreversible
follows from the confirmations in headers (**block header state**). Inside a
block, a **transaction context** runs actions, notifications and inline actions
(**apply context**), which change contract tables, permissions (**authorization
manager**), generated transactions, **resource limits** and **protocol
features**. Around the controller are plugins: **producer** (the production
loop, incoming transactions, snapshots), **net** (peers and synchronisation),
**notify**, **mongo_db** and **state_history** (followers of the chain) and the
**wallet** manager. The contracts run inside transactions: **force.relay**,
**relay.token**, **sys.bridge**, **sys.match** and **force.system**.

What makes this code hard: a method of the controller makes many small changes
and may throw, or the process die, between any two; five records of the chain
have to agree; branches compete and producers work on different ones; timers
and answers come late; followers see blocks that are undone later; and
contracts keep sums and debts through integer divisions and partial payments.

## The modules

A module has the state of its part as variables, one action per operation, and
its properties at the end. The constants are what the part is parameterised
by; every bound is a constant named `Max...` or explained where it is declared.

| Module | Models | Source |
|---|---|---|
| `Relay` | force.relay for one mapped chain | contracts/force.relay |
| `ForkDatabase` | fork_database, as operators on records | chain/fork_database.cpp |
| `Controller` | controller_impl with the fork database, the reversible blocks and the block log; extends `ForkDatabase` | chain/controller.cpp |
| `FinalLog` | abstract: a log of final blocks that grows child by child | what chain/controller.cpp promises of the block log |
| `BlockHeaderState` | block_header_state: next, confirmations, LIB, schedules | chain/block_header_state.cpp |
| `HeaderChain` | one chain of headers and the schedules the system contract proposes; extends `BlockHeaderState` | the same, and controller.cpp (start_block, set_proposed_producers) |
| `Dpos` | producers with watermarks on forks; extends `BlockHeaderState` | the same, and producer_plugin.cpp 1309-1347 |
| `BlockLog` | the files blocks.log and blocks.index | chain/block_log.cpp |
| `ProducerPlugin` | the production loop, its timers, incoming blocks, snapshots | plugins/producer_plugin |
| `IncomingTransactions` | the way of submitted, persisted and exhausted transactions | plugins/producer_plugin |
| `Deferred` | generated transactions | controller.cpp, apply_context.cpp, transaction_context.cpp, producer_plugin.cpp |
| `ActionExecution` | actions, notifications, inline actions, receipts, undo, fees | transaction_context.cpp, apply_context.cpp, controller.cpp |
| `TransactionLimits` | CPU and NET limits, deadlines and billing of one transaction | transaction_context.cpp |
| `ContractTables` | tables, rows, iterators and payers | apply_context.cpp, apply_context.hpp |
| `Authorization` | permissions, links, delays and the check | authorization_manager.cpp, authority_checker.hpp, eosio_contract.cpp |
| `ProtocolFeatures` | preactivation, activation, popped blocks, restarts | protocol_feature_manager.cpp, controller.cpp |
| `Merkle` | merkle() and incremental_merkle | merkle.cpp, incremental_merkle.hpp |
| `ResourceLimits` | accounts' limits and usage, elastic block limits | resource_limits.cpp |
| `NetPlugin` | connections, handshakes, sync_manager, dispatcher of blocks | plugins/net_plugin |
| `NotifyPlugin` | the two queues of actions | plugins/notify_plugin |
| `StateHistory` | the log with its index, and the stream to a client | plugins/state_history_plugin |
| `MongoDb`, `MongoOrders`, `MongoAccounts` | queues and threads, blocks and transactions; orders and deals; accounts, keys and ABIs | plugins/mongo_db_plugin |
| `WalletManager` | wallets, their files, the timeout | plugins/wallet_plugin |
| `RelayToken`, `SysBridge`, `SysMatch` | a token with rewards; the pools; the order book | contracts/relay.token, sys.bridge, sys.match |
| `ForceVoting`, `ForceProducers`, `ForcePunish` | stakes and voteage; block counting, elections, rewards; motions to punish | contracts/force.system |
| `MCContracts`, `MCLive`, `MCController`, `MCConsensus`, `MCServices`, `MCExecution`, `MCFindings` | the instances TLC checks | |
| `RelayProofs`, `ControllerProofs`, `BlockHeaderStateProofs`, `DposProofs`, `BlockLogProofs`, `WalletProofs`, `MongoProofs` | theorems and their lemmas | |

How state and steps correspond to the code:

- **Relay.** The tables are variables. A transaction's inline actions are
  separate steps: `pending` holds those still to run, depth first, and `saved`
  is what a throwing one restores (`Undo`). `commit` appends or confirms, sorts
  (blocks of one number come in any order, as `std::sort` leaves them) and hands
  over the confirmed head of the list. Blocks are compared by `Id` where the
  code compares identifiers; `NilBlocks` are those with producer 0, which
  `is_nil` takes for no block.
- **Controller.** What a block is never changes, so parents, numbers, LIBs and
  identifiers are constants. `job` says which method is in progress and how far
  it has got; each loop turn of a method is a step. `fault` is the first
  consistency assertion that failed, and the model stops there. The state
  database is the sequence of blocks whose effects it holds. `Bad` blocks have
  a good header and content that apply_block rejects. `Crash` is the death of
  the process at any step, followed by a start that replays the log and the
  reversible blocks; `Reopen` is a clean stop and start, in any read mode.
- **BlockHeaderState, HeaderChain, Dpos.** A header state is a record; `CanNext`
  is what next() asserts, with the unsigned wrap-around of the double-confirm
  check. In `Dpos` a node's head is any branch it could have at that time
  (`MayBeHead`), which stands for any delay of blocks; a restart loses the
  watermark, which only lives in memory.
- **NetPlugin.** Each pair of nodes has a queue of messages per direction, a node
  its connections with what they have requested and what their peers are believed
  to have. A handler of the event loop is a step. `trouble` is the budget of
  broken connections and late timers; `odd` records that a timer's handler ran
  late or that a new block moved a LIB.
- **Followers and services.** A handler is one step, except where another thread
  or a crash can come in between. `BlockLog` and `StateHistory` write their files
  in the pieces the code writes, and the process may die between two of them; in
  `BlockLog` a write or a flush may also throw, after which the streams refuse
  everything until the log is opened again, and the destructor flushes what is
  left. A save of `WalletManager` is written, cut short without a word, or
  refused with an exception. `NotifyPlugin` counts the actions of a transaction,
  as a failing one is signalled with a part of them. `MongoDb` has two threads, a
  mutex and a condition variable; in `MongoOrders` and `MongoAccounts` `drop`
  takes back what a fork switch undoes, of which the plugin learns nothing.
- **IncomingTransactions.** start_block is a step per transaction: the unapplied
  ones, then the scheduled ones with the queued ones between them by their weight
  (`Ratio`), then what is left of the queue.
- **Execution.** `ActionExecution` runs one action or notification per step and
  keeps the undo session; the content of an action (what it sends, requires or
  throws) is any choice. `paid` is what the fee action was given to pay, while
  `fee` goes on counting. `TransactionLimits` has the limits that come with a fee
  (`add_limit_by_fee`) beside those of the accounts and the block.
  `ContractTables` keeps the iterator caches for all receivers of an action and
  starts new ones with the next action. `Authorization` has the recursive check as a function
  of the permissions, and a reference definition it is compared with.
- **Contracts.** An action is one step with the inline transfers it sends, as
  the chain undoes all of it or nothing. The schedule that `ForceProducers`
  proposes becomes pending and active as in the controller. Amounts are small integers; divisions
  and the widths of unsigned numbers are those of the code.

## What the runs check

Parts that share no state are put side by side in one state space: a behaviour
of an MC module chooses a part (`which`) and runs it. A property of such a
module then says of each part what its heading says, by the part's own property
of the name given here.

| Run | Property | What it says |
|---|---|---|
| `contracts` | `DeliveredInOrder`, `NoneStranded` | force.relay: handlers see a number once and numbers in order; no block at or below the last relayed one stays in the list, until a block with producer 0 is relayed |
| | `SumsExact` | kept sums are the sums of their rows: deposits (`DepositSumExact`), supply and mineage of a token (`SupplyExact`, `MineageExact`), votes (`VotesCounted`), block age (`BlockAgeExact`, `CycleBounded`), total weights (`TotalsExact`) |
| | `OwedIsHeld` | what a contract owes it holds: `RewardsCovered` (relay.token), `BooksExact` (sys.bridge), `EscrowExact`, `OrdersBacked`, `StakeHeld` (sys.match), `StakeBacked`, `VoteageCovered`, `DepositsHeld`, `MotionPays`, `ApprovalsOfMotion` (force.system); `StakeHeld` leaves out what an exchange has withdrawn of its stake, `DepositsHeld` what was shared out when a motion was carried |
| | `NotCrossed`, `ElectedTop`, `LimitsHold` | the book is not crossed, but by frozen exchanges and bids whose price exceeds 32 bits; the elected producers have the most votes; a transaction within its limits can be billed, and elastic limits stay in their bounds |
| `live` | `AllRelayed`, `ConfirmExact` | relayers get every number through; a block's confirmation is the sum of the deposits behind it, each counted once |
| | `NodesConverge`, `NeverStalls`, `PeersTracked` | nodes end on heads they prefer equally, if no timer's handler comes late and no new block moves the LIB; a node that lacks irreversible blocks has a timer running; what a peer is believed to have it has |
| `controller` | `ChainRecordsAgree` | while no append throws: no consistency assertion fails (`InSync`), the state database is the head's (`StateOfHead`), the head in irreversible mode is the log's (`IrreversibleHead`) |
| | `ReversibleIsBranch`, `BestHead`, `RecoversHead` | between methods the reversible blocks are the head's branch and no known block is preferred; a replay ends at the last stored block |
| | `UnappliedIsNew`, `NothingBadIsFinal` | what waits to be applied again is in no block of the chain; no rejected block is logged |
| | `FinalLogSpec`, `Settles` | the controller implements `FinalLog`; every method comes to its end |
| `consensus` | `ConfirmsOnce`, `OneProposed`, `NeverRefused` | until a restart: no producer confirms a height twice, one block of a height is proposed as irreversible, no confirmation of an honest producer is refused |
| | `HeadersGoOn`, `KeepsUp` | no schedule wedges the chain (`NeverWedged`), and the LIB of a block is not below its parent's unless the parent made a smaller schedule active (`LibHolds`); the LIB keeps up when no slot is missed |
| `services` | `KeepsGoing` | `LoopAlive`, `ProduceReady`, `WakesInTime` (producer), `ClientUpToDate` (state history), `NoLostWakeup` (mongo_db) |
| | `DoneOnce` | `AnsweredOnce` and `SignsUpwards` (producer), `AcceptedOnce` (notify), `AnsweredOnce` and `NotTwice` (incoming transactions) |
| | `NothingLost` | `ImportsSurvive` (wallet), `FindsByNumber`, `AppendedIsKept` (block log), `AwaitsFinality` (notify), `LogWhole`, `LogFollowsChain`, `ClientCoherent`, `SendsFinal` (state history), `PersistedIsKept`, `WaitsOnlyUnapplied` (incoming transactions), `AllStored`, `OnlyFinalMarked`, `EndsDrained`, `MatchedIsDeals`, `OpenAgrees`, `CompleteIsMatched`, `KeysMirror`, `CacheFresh` (mongo_db) |
| | `IdleLocks` | nothing is signed after the wallet's timeout |
| `execution` | `TablesHold` | `TablesCounted`, `IteratorsLive`, `StaysInTable` |
| | `ChargesExact` | RAM for rows, permissions, links, code and generated transactions (`TablesRamExact`, `AuthRamExact`, `DeferredRamExact`), CPU for the time run (`BilledIsRun`), the fee for the actions run (`FeeIsSum`) |
| | `AuthorityHolds` | the check agrees with its reference definition (`CheckExact`), required keys pass it (`RequiredKeysPass`), owner is above all permissions and links (`OwnerReaches`; checked with only_link_to_existing_permission activated, before which protocol_feature_tests.cpp:244 shows a link to a permission the account has not) |
| | `RecordsAgree` | the features' manager agrees with the chain, activations are in order, a restart takes the chain up (`ManagerAgrees`, `ActivationsInOrder`, `CanStart`, `DropsOnlyActivated`); the incremental Merkle tree has the root of the Merkle tree (`RootIsMerkle`, `NodesBounded`) |
| | `RunsExact` | every action once, in order, with sequence numbers without gaps (`SequencesExact`, `RunsInOrder`, `AncestorsRight`); generated transactions once and in time (`RetiredOnce`, `RetiredInTime`, `PassServesAll`) |
| | `LimitsAgree` | what a producer executes a validating node accepts, and a transaction is failed for good only by a limit all nodes share (`ProducedIsValid`, `BlameIsObjective`) |

Each run also checks the types (`ContractsTypeOK`, `TypeOK`, ...). Six more
runs each end in a violation, see *Findings*.

**Bounds.** The instances are in the MC modules and cfgs, one value per
constant. They are chosen so that what is hard happens:

- The tree of `MCController` has two forks, equal and unequal preference, and
  LIBs that move by one and by two, so that switches succeed, fail at the first
  and at a later block, and several blocks become final at once.
- Three relayers and one fork of a number suffice for two thirds to be reached
  by different pairs. A commit hands over 8 blocks in the code and 2 in
  `contracts`, so that the limit is met.
- Four producers are the fewest for which two thirds is not everyone. The list
  of confirmations has 1024 entries in the code and 3 in `consensus`
  (`Changing`), so that it fills up. In `Resizing` one of four producers is
  replaced or removed, in 15 blocks: enough for the proposal to become pending
  and active and for the LIB to fall where it can.
- In `services` and `execution` a part has two or three transactions, keys or
  rows, a chain of two to four blocks and one fork, crash or replay at a time:
  enough for an item to be undone and come again, for a queue of one to be
  full, and for a file to be torn in each piece. Merkle trees have up to 17
  leaves, beyond the fourth power of two.
- The contracts have two or three accounts and divisions that leave remainders;
  widths of integers are small moduli where wrap-around matters.

**Deadlock** is not checked: every model stops when its bounds are used up.

**Fairness.** `Controller!FairSpec` is weak fairness of the method in progress:
it runs on the main thread without waiting for anything. `Relay!FairSpec` is
weak fairness of the transaction in progress and strong fairness of every
relayer's commit, because a commit may be overtaken by other transactions but is
enabled again after each; it assumes relayers that commit every block, which is
what relayers are for. `NetPlugin!FairSpec` says that the system does not stop
while some node's event loop has a handler to run (`due`): a message to read, a
connection to close or to open again, a write that is done, a timer. New blocks,
broken connections and expiring entries are bounded (the blocks by the instance,
the others by a budget and by the blocks), so that endless steps are steps of
handlers. That a timer's handler runs in time is not assumed but recorded in
`odd`, and `NodesConverge` speaks of runs in which it does.

## What is proved

The theorems hold for every value of the constants that satisfies the named
assumptions: any tree of blocks, any producers and schedules, any number of
relayers, crashes, restarts and faults.

| Theorem | Says | Where |
|---|---|---|
| `RelayTypeCorrect`, `RelayedInOrder` | types; `DeliveredInOrder` | `RelayProofs` |
| `NoBlockStranded` | `NoneStranded` (until a block with producer 0 is relayed), if only commit sends onblock and numbers are positive | `RelayProofs` |
| `ControllerTypeCorrect`, `BlockLogIsFinal` | types; the controller implements `FinalLog` | `ControllerProofs` |
| `DposTypeCorrect`, `NoProducerConfirmsTwice`, `OnlyOneProposed`, `ProducersNotRefused` | types; `ConfirmsOnce`, `OneProposed`, `NeverRefused` | `DposProofs` |
| `FoundByNumber`, `AppendedBlocksAreKept` | `FindsByNumber`, `AppendedIsKept` | `BlockLogProofs` |
| `ImportsAreKept`, `SignsBeforeTimeout` | `ImportsSurvive`, `IdleLocks` | `WalletProofs` |
| `ConsumerIsWoken`, `ConsumerDrains`, `MarkedIsIrreversible` | `NoLostWakeup`, `EndsDrained`, `OnlyFinalMarked` | `MongoProofs` |

`BlockHeaderStateProofs` holds the lemmas about next() that `DposProofs` uses.
Each theorem rests on an inductive invariant:

- **`RelayInv`**: handlers' actions come before the remaining onblocks and are of
  the block relayed last; neither the deliveries so far nor those an exception
  would restore go beyond it. **`StrandInv`** for `NoBlockStranded`, while no
  block with producer 0 was relayed: the list is sorted and above the block
  relayed last, and before an onblock still to run come those of all lower blocks
  in the list; the list that an exception would restore is sorted and above the
  block it would restore, too.
- **`LogInv`** (of the controller): every block of the fork database has its
  parent there or at the root, and what log_irreversible has still to append
  grows on the head of the log. The loop appends without looking at the parent,
  which is why this is needed.
- **`Signed`**: no producer has signed above its watermark. **`ProposedInv`** adds
  that `confirm_count` counts the confirmations on a block's branch and that
  what is proposed has more than two thirds of them, so that two proposals of
  one height share a producer who confirmed both. **`MarkedInv`** adds that no
  header state holds a block of a producer above its watermark. `Dpos` has one
  schedule for all blocks.
- **`LogInv`** (of `BlockLog`): the index names the records of the file in order;
  while the log is open and no write has failed, the head in memory is the last
  record, the index is complete and nothing torn follows; after a failed write
  the head is at most one record ahead of the file, and the index not behind it
  by more than that record.
- **`ClockInv`**: the time left until the wallets are locked and the time since
  the last command do not add up to more than the timeout. **`WalletInv`**: a
  file is absent, torn or whole, a wallet in memory has its keys in the clear or
  encrypted, and every acknowledged key is in the whole file or, beside a torn
  one, in memory.
- **`HandshakeInv`** (of `MongoDb`): between its look at the queues and its wait
  the consumer has the mutex, and the queues stay empty; a batch that took
  nothing was taken after done was set, when nothing could be queued any more.
  **`MarkInv`**: behind an entry or document that makes a number final, no
  accepted block of that number is still to be written. It needs that a batch's
  accepted blocks are worked on before its irreversible ones.

`FinalLog` is the abstract specification of the log; `BlockLogIsFinal` is the
refinement (initial states map to initial states, each step to a step or a
stutter).

**Assumptions.** `TreeAssumption`, `AncAssumption` and `OrderAssumption` say that
blocks form a finite tree with a total order of preference; some conjuncts
follow from others by induction and are stated because the prover has none.
`LibAssumption` says that the LIB never falls along a branch; `headers_shrink`
shows that a shrinking schedule can break it, so what is said about the
controller holds for chains on which it does not. `ControllerAssumption` says
besides types that a branch without a bad block holds no transaction twice,
which apply_block's duplicate check guarantees. `RelayAssumption`,
`HeaderAssumption` and `DposAssumption` are types of constants. TLC evaluates
these on every run. The theorems about `BlockLog`, `WalletManager` and `MongoDb`
state theirs: bounds are numbers, timeouts natural numbers, a block's
transactions finitely many.

**Only model-checked**, and why:

- liveness (`AllRelayed`, `Settles`, `NodesConverge`): out of the prover's reach;
- the sums (`SumsExact`, `ConfirmExact`, most of `OwedIsHeld`): a sum over a set
  is a fold, and what a fold computes is shown by induction over data, which the
  installed provers cannot do;
- `InSync`: not true of all constants, as two findings show;
- the other properties of the controller between methods: `BestHead`,
  `ReversibleIsBranch`, `RecoversHead`, `StateOfHead`, `IrreversibleHead`,
  `NothingBadIsFinal` and `UnappliedIsNew`. Each needs an invariant for every
  place a method can be at, which is not worked out here;
- `Authorization`, `ContractTables`, `ProtocolFeatures`: they use RECURSIVE
  operators, with which the prover loses its SMT backend; `Merkle` computes by
  recursion as well;
- `AllStored` of `MongoDb`, `HeadersGoOn`, `KeepsUp`, and the other modules of
  plugins, execution and contracts: no proof was attempted.

## Findings

A run shows each of these; PROJECT.json quotes the lines that disagree.

- `controller_reversal` (controller.cpp:2289): a node started in speculative
  mode after irreversible mode applies its best branch without popping a block.
  If a block of it is rejected, the reversal reads `branches.second.back()` of
  an empty vector. The comment there says the assertion "_should_ never fail".
- `controller_reopen` (fork_database.cpp:331): `add` breaks ties between
  validated blocks by identifier, `mark_valid` keeps the head. After a failed
  switch the two heads can part, and a clean restart is refused with "mismatch
  in block id of pending head block".
- `headers_shrink` (block_header_state.cpp:27): when a schedule of four shrinks
  to three while one producer is silent, a block's LIB is below its parent's,
  and the block is not preferred to its parent, which commit_block asserts.
- `dpos_resign` (producer_plugin.cpp:1335): a producer that lost its watermark in
  a restart signs a height again, on a branch with a higher LIB; the comment
  says the code makes "sure we don't double sign after a crash".
- `snapshot_fork` (producer_plugin.cpp:138): irreversible_block is signalled
  before the losing branches are removed, so a pending snapshot of a losing
  block of the same height is finalized instead of failing as "forked out of
  the chain".
- `limits_net` (resource_limits.cpp:191): NET is billed against the share plus
  `gmr.cpu_us`, and admitted against the share plus `gmr.net_byte`; when the
  latter is larger, a call whose comment says "Should never fail" throws.

Seen while modelling, without a run:

- A `blog.append` that throws leaves the fork database's root one block beyond
  the log (controller.cpp:418), and log_irreversible refuses every later block.
- apply_block fills the `trxs` of a local block state (controller.cpp:2112), so
  pop_block recaptures nothing from blocks that came from the network, although
  block_state.hpp:48 says the member is there for that.
- With a fork, the relay of a confirmed block can wait for a later commit
  (force.relay.cpp:80), so `AllRelayed` needs a chain without forks. A deposit
  replaced after a commit is still counted with its old amount, so
  `ConfirmExact` needs deposits that stay. An onblock called out of order by
  the contract's own account leaves earlier blocks in the list, and a block
  numbered 0 is never relayed. Once a block with producer 0 is relayed, commit
  takes it for no block and lets lower blocks into the list.
- net: a timer whose handler runs after the answer came flushes the request for
  the peer's branch, and a last_irr_catch_up notice that comes after the blocks
  it tells of makes start_sync enter lib_catchup without a request: in both
  cases a node may stay behind its peer.
- block_log: after a failing write every later append and every read throws, the
  head is ahead of the file if the flush failed, and the destructor flushes
  again. wallet: `save` truncates the file before it writes and does not look at
  the result, so an import can be answered although the file is torn, and a
  restart then loses the wallet's keys; `set_timeout` does not check the timeout.
- mongo_db: `done` is set without the mutex, so that its notification can be
  lost; a full queue makes the handler sleep once and then push anyway; a failed
  write loses its entry; orders, deals and keys of abandoned branches stay, and an
  order that takes over the id of an abandoned one gets its deals added to the old
  document; a cancel marks a completed order as cancelled.
- state_history: a log that has missed a block stays stuck. notify: the
  irreversible queue is emptied for every transaction once one block's actions
  are posted; a failed application queues a part of a transaction's actions, and
  its later complete one is then skipped. Incoming transactions: a persisted one
  is dropped when it expires at the block's time, at which it could still be
  executed; a producer whose unapplied transactions filled the block still pushes
  the scheduled ones.
- fees: the fee is fixed when the fee action is scheduled; inline actions that
  the payer's code sends during that action are counted afterwards and not paid.
- force.system: settlevoter divides by the period's total voteage without a
  guard; the shares of a carried motion are paid from the system account, where
  the voters' stakes are, while the producer's mortgage lies in the reward
  account. sys.bridge compares a payment with the reserve after taking the fee.
- sys.match: match_for_bid looks asks up with the low 32 bits of the price. A
  higher price can overlook every ask, and the bid is then neither entered nor
  refunded, or meet only some of them and leave the book crossed. withdraw does
  not look at an exchange's stake.

## Not modelled

Not claimed: that two nodes agree on the LIB. Under a long partition that needs
bounds on delays that `Dpos` does not have. What `Dpos` says of confirmations
is not claimed after a restart.

Left out: the WebAssembly engine and its intrinsics, ABI encoding, signatures,
HTTP and API plugins, the history plugin, chain snapshots' content, cleos,
keosd's server, the launcher and test programs, and third-party code kept in the
tree (wasm-jit, the command line parser, softfloat and others): encodings, input
and output, or engines around the parts above. They are the larger part of the
repository's lines. Of the parts that are modelled, `PROJECT.json` says for each
what its model leaves out.
