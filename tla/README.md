# A verification of the Drips Event Processor

The Drips Event Processor reads the logs of the Drips contracts from an EVM
chain, turns each log into a job of a Redis queue, and lets a handler per event
write rows of Projects, Drip Lists, Ecosystems, Sub-Lists, Linked Identities and
their receivers to Postgres. It promises that any instance reaches the same state
once all past events are ingested (`README.md:7` of the repository). What makes
that hard is everything in between: endpoints that lag and fail over, a chain that
reorganises, a queue that delivers at least once and in no order, ten handlers at
a time that read the chain *as it is now* rather than as it was at their event,
and a process that is meant to exit on any unhandled error.

This directory holds TLA+ modules of that behaviour, TLC configurations that
check them on small instances, and proofs checked by TLAPS for every value of
the constants. `PROJECT.json` maps every definition to the lines it models.

## 1. Inventory

| Component | State | Operations | What makes it correct |
|---|---|---|---|
| Poll loop (`events/poll.ts`, `index.ts`) | cursor in `last_indexed_block`; a poll's range and logs in memory | read tip and cursor, get logs, create jobs, advance the cursor, re-arm the timer; exit and restart | no confirmed event is lost, no orphaned log becomes a job once the chain is older than the confirmations, re-reading is harmless, every event gets its job |
| Failover provider (`core/FailoverJsonRpcProvider.ts`) | none | try the endpoints in order, per request | a poll is sound although its requests see different views |
| Job queue (`queue/*`, `events/EventHandlerBase.ts`) | Redis lists, ten slots, the application's cache | create, take, retry, stall, succeed, fail; before/execute/after | effects applied once and in the order they need, no job dropped, caches invalidated |
| `OwnerUpdated` | `projects`, `linked_identities` | claim a project or an ORCID identity | owner and status agree with the chain |
| `AccountMetadataEmitted` | `projects`, `drip_lists`, `ecosystem_main_accounts`, `sub_lists`, `splits_receivers` | verify a document against the chain, upsert its account, replace its receivers, create the accounts it names | the receivers an account has of one kind are those of one document, and of the chain; references never dangle; no deadlock is for ever |
| `SplitsSet` | `isValid`, `areSplitsValid`, receiver of an identity | compare the splits on chain with the rows | the flag says what is on chain, also for sub-lists, whose splits are set once |
| `Transfer` | `drip_lists`, `ecosystem_main_accounts` | creator, owner, previous owner, visibility | the creator is the minter; the owner is the one on chain; the previous owner passed it on |
| `Given`, `Split`, `StreamsSet`, `StreamReceiverSeen`, `SqueezedStreams` | one row per event | insert it; `StreamReceiverSeen` gathers the accounts of its hash first | inserted once |
| Ids and lists (`utils/accountIdUtils.ts`, `formatSplitReceivers.ts`) | none | driver of an id, sub-account ids to repository ids and back, canonical form of a list | what is stored hashes to what was verified |
| Versions (`utils/lastProcessedVersion.ts`) | none | pack block and log index into one integer | ordered as events are, none shared |
| Models and migrations (`models/*`, `db/migrations/*`, `scripts/*-migration*.ts`) | tables, enumerations, indexes, `sequelize_meta` | run the pending migrations, revert the last, statement by statement | a schema called up to date fits the models; a revert undoes its migration |
| Monitoring, configuration, logging, metadata schemas | - | - | not modelled, see section 8 |

**How they interact.** `index.ts` connects the database, starts the queue and the
poll loop in one process. The poll loop calls `createJob`; the queue calls
`beforeHandle`, `executeHandle`, `afterHandle` of the event's handler. Handlers
share nothing but Postgres: they find the rows other handlers created, lock them,
and throw a `RecoverableError` - that is, ask the queue for a retry - if a row is
missing. They also all read the chain through the same provider.

**What is hard.** (a) Two requests of a poll answered by different endpoints; the
cursor going backwards; an exit between the jobs and the cursor. (b) A slow job that
is handed out a second time; an exit after the commit. (c) Events handled in any
order, with a *version* (block and log index) that guards some fields and not others.
(d) A read of the chain that is outdated by the time its result is written; two
documents of one token in two tables, which lock different rows and replace the same
receivers. (e) Receivers processed by concurrent promises, which lock rows in any
order. (f) Flags committed on the strength of an RPC error. (g) Accounts whose cache
entry a transaction outdates, gathered before it and posted after it, or not at all.
(h) Migrations that are interrupted between two statements. `PROJECT.json` lists every
one of these at its line, with the properties that watch it.

## 2. Modules

| Module | Models | Uses |
|---|---|---|
| `Ingestion` | what ingestion promises: only settled logs become jobs, for good | - |
| `Poll` | `poll.ts` over the failover provider; implements `Ingestion` | `Ingestion` |
| `Handling` | what queue and handlers promise: effects applied at most once, after those they need, and reported truthfully | - |
| `JobQueue` | bee-queue, `initJobProcessingQueue`, the parts of a handler, the invalidation of caches; implements `Handling` | `Handling` |
| `LinkedIdentity` | one ORCID account: `OwnerUpdated`, `SplitsSet`, `ensureLinkedIdentityExists` | - |
| `Mirror` | what handlers promise of one fact they copy from the chain: the copy only takes values a run has seen there | - |
| `MirrorTable` | the same of a list they copy to rows of a table: only whole lists a run has seen there, one of each kind at most | - |
| `Project` | one GitHub project: `OwnerUpdated`, its documents, `SplitsSet`, being named by others; its owner and its receivers implement `Mirror` | `Mirror` |
| `NftAccount` | one NFT account (Drip List or Ecosystem): `Transfer`, documents, `SplitsSet`; its owners implement `Mirror`, its receivers `MirrorTable` | `Mirror`, `MirrorTable` |
| `MetadataTx` | the transactions of all handlers on rows of several accounts: locks, inserts, rollbacks, deadlocks | - |
| `AccountIds`, `SplitReceivers` | pure functions: ids and their drivers; a receiver list in canonical form, as rows, and back | `SplitReceivers` extends `AccountIds` |
| `SubList` | one sub-list: its documents and its `SplitsSet`, with retries and giving up | extends `SplitReceivers` |
| `Versions` | versions, with their theorems, and that a set of positions has a newest | - |
| `Tables` | what the migrations create and the models expect, as constants | - |
| `Schema` | running, reverting and interrupting migrations while identities are stored | extends `Tables` |
| `PollProofs`, `MetadataTxProofs`, `JobQueueProofs`, `ProjectProofs`, `NftAccountProofs`, `LinkedIdentityProofs`, `SubListProofs` | the proofs about the module each is named after | that module; those about a log of events also `Versions` |
| `MC*` | instances for TLC | the module they are named after |

Operators under a comment "Faulty variant" are plausible mistakes in the code
that a definition models. They are used by no specification; each is put in the
place of that definition to see that a property notices.

### How state and actions correspond to the code

*Poll.* `pc` is the `await` the loop is at: `poll` (block number and cursor),
`resolve` and `fetch` (`getLogs`), `save` (the `Promise.all` of jobs, each of which
settles on its own), `timer`, and `down` (exited). `view[e]` is a snapshot of the
chain that endpoint `e` serves; `Answers` picks the first endpoint that does not fail
the request. A block's content stands for its registered log, if it has one. `jobs` is
the set of job ids, which are made of block, transaction and log index, so that
creating one twice changes nothing. While the chain is younger than the confirmations
`toBlock` is negative. ethers counts such a bound from the latest block, which it asks
for first unless its cache still has the poll's own answer (`Resolve`): the poll reads
one block that is not confirmed, and stores the negative number as its cursor. If the
bound is negative even then, `getLogs` throws and the process exits. `early` is a
history variable: the jobs that only such polls made.

*JobQueue.* The sets are bee-queue's lists; `slot[s]` is a run in progress with the
copy of the job's options it was taken with and the accounts that `beforeHandle`
gathered. `Commit` is the handler's transaction: it inserts the row of the event,
whose primary key is the log, with everything else it writes. The `needs` of a log are
the rows whose absence raises a `RecoverableError`; `MaySkip` is for handlers that
return before their transaction. Of what a handler writes, only the lists that
`beforeHandle` of another run looks up are kept (`members`): the receivers of a
sender, the accounts seen with a hash. `stale` are the cache entries a commit has
outdated: of the accounts of its arguments, of those in the list before it and of
those it adds. `excused` is history: those of `stale` that no run is to invalidate
(what one is to invalidate is `Awaits`). `Post` is the invalidation that
`OwnerUpdated` does not wait for. The events of a run are one of several `Scenarios`.

*LinkedIdentity, Project, NftAccount.* `log` is the account's events in the order
of the chain, and what handlers read from contracts is a function of it:
`OwnerOf`, `SplitsHash`. A new event is a step of the environment (`Mine`), so the
chain moves between any two reads of a handler. `run[i]` is where the handler of
event `i` is. An event's position is its version. What a handler does under the
lock of its row is one step, as no other handler can see in between - except
where the read it makes under the lock matters, which `LinkedIdentity` keeps
separate, and the receivers of an NFT account. A Drip List and an Ecosystem of one
token are rows of two tables with one set of receivers. `listed` are the documents
whose receivers are in the table, `gone[i]` those that run `i` has deleted
(`DeleteReceivers`); its own come with the commit. In between the run holds the row of
its kind (`Locked`) and nobody else's, so that a run of the other kind deletes only
what it can see. Two lists that stay together count as no list of the chain.
`Abort` is an exit, a database error, or the `RecoverableError` of a
row that is not there. A receiver list is its hash: the contract accepts one
canonical list per hash (`SubList` shows the code computes it).

*MetadataTx.* A transaction is what it has locked, what it has inserted, which
receiver rows it has deleted and what its current query waits for. `Todo` gives the
rows it may turn to next: the ones it requires, then its own, then - after the
receivers it replaces are deleted (`Clear`), and in any order - the receivers. A row
of `receivers` is a document and an account it names; `SenderOf` is the account it
belongs to, which a Drip List and an Ecosystem of one token share. As Postgres does
at its default isolation level, `Clear` sees what is committed, and others see what
was inserted after `Commit`.

*SubList.* The contract that holds a sub-list sets its splits once and emits its
documents in the same transaction, so the chain does not move while the events
are handled: `Deploy` fixes it, after `AddRecipient` has put the document together.
Each handler is one step. A job that fails runs again until `Retries` is used up.

*Schema.* A migration is a sequence of statements; `Execute` does the next one,
`Record` is Umzug's row in `sequelize_meta`, `Fail` a statement that Postgres
refuses, `Interrupt` a script that is stopped anywhere. A table is its columns that
are and are not `NOT NULL`, with the enumerations they are of.

## 3. Runs

| Run | Bounds | Shows |
|---|---|---|
| `MCPoll` | 5 blocks of which the first to index is the second, 2 contents, 2 endpoints, chunk 2, 2 confirmations, 1 block of lag and of reorganisation, 1 exit | `NoEventLost`, `NoOrphanJob`, `RereadAddsNothing`, that `Poll` implements `Ingestion` (`AbstractSpec`), `EveryEventIngested` |
| `MCJobQueue` | 2 jobs in 4 scenarios, 3 accounts, 2 lists, 2 slots, 1 retry, 1 stall, 1 exit, 1 fault | that `JobQueue` implements `Handling` (`HandlingSpec`), `GivenUpMeansNotApplied`, `CacheFreshAtRest`, `EveryJobSettles` |
| `MCLinkedIdentity` | 3 events, 2 owners, 1 RPC fault, 1 abort | `ValidAtRest`, `ReceiversMatchChain`, `ClaimedAtRest`, `EveryEventHandled` |
| `MCProject` | 4 events, 2 owners, 2 lists, 3 documents | `StatusSound`, `ReceiversFromDocument`, `ConvergesWithoutRaces`, that owner and receivers implement `Mirror` (`Mirrored`), `OwnersAndDocumentsHandled` |
| `MCNftAccount` | 4 events, 2 owners, 6 documents of both kinds, a visibility threshold between the first two blocks | `ConvergesWithoutRaces`, `CreatorIsMinter`, `PreviousOwner`, that the owners implement `Mirror` and the receivers `MirrorTable` (`Mirrored`), `TransfersHandled` |
| `MCMetadataTx` | an Ecosystem with two documents, the Drip List of its token, its Sub-List and two projects, one of them claimed meanwhile: 5 transactions, 1 abort | `NoDanglingReceiver`, `NeedsExist`, `InsertedOnce`, `OnlyCommitted`, `NoQueryWaitsForever` |
| `MCSubList` | lists of up to 3 of 6 receivers with weights up to 2, 2 documents, 1 retry | `StoredIsOnChain`, `OrderDoesNotMatter`, `ValidUnlessGivenUp` |
| `Schema` | none: the four migrations as they are, any number of runs, reverts and interruptions | `FitsWhenUpToDate`, `RevertRestores`, `ErrorsExplained` |

Every run but `MCMetadataTx` and `Schema` has its module's type invariant as well.

Four more runs look for one statement of the repository that the code does not
keep, and find a behaviour that breaks it:

- `MCLinkedIdentityReceiver`: `SplitsSet` handled while the identity is unclaimed,
  then `OwnerUpdated`: it is validly linked and has no receiver row.
- `MCProjectLatest`: the check that a metadata event is the latest compares the
  event with itself; an older document overwrites a newer one.
- `MCProjectStatus`: an owned project stays `unclaimed` if a later event that names
  it was handled before its `OwnerUpdated`.
- `MCNftAccountStale`: the version that protects the visibility is itself
  overwritten by older events, so a stale event flips the visibility.

**Why the bounds are enough.** A reorganisation and a lag of one block, with two
confirmations, is the smallest instance in which both count and neither is covered by
slack; with five blocks, of which three get confirmed and two are to be indexed, a
first poll may end below the first of these, polls are made of a chain younger than
the confirmations, and the cursor stops between the two and goes back to where it was.
(At this depth of reorganisation a block that such a young chain's poll reads is not
replaced any more; the proofs are about every depth.) Two endpoints already give a
request pair two views, in either order. The second exit, stall or retry of a run
meets the same states as the first: every one of them may happen at any step. Races
between handlers of one account are between two of them with a third event to outdate
a read; `NftAccount` needs a mint before these, hence four events, two of which may be
documents of the two kinds whose lists mix. The lock cycles of `MetadataTx` are
between two transactions over two receivers, with a third that requires a row of one
of them. `MCSubList` has two sub-accounts, whose ids are translated, a sub-list, a
Drip List and an address, which are stored as they are, and an address that a document
passes off as a Drip List; three recipients are enough for one that is repeated next
to another, in any order. The scenarios of `MCJobQueue` are the pairs that interact:
two documents of one sender, an owner and the splits that need it, two accounts seen
with one hash, and splits of an identity beside an event that touches the same
account. Constants named `Max...` are the bounds; every other constant is a parameter
of the code.

Deadlock is checked in `MCPoll`, `MCJobQueue` and `Schema`, which never stop. The others
may: a fixed number of events, all handled.

## 4. What the properties leave open

Some properties carry a condition because the unconditional statement is false;
each condition is a hazard in `PROJECT.json`.

- `NoOrphanJob`, and with it `AbstractSpec`, leave out the jobs that only polls of a
  chain younger than the confirmations made (`early`): their logs are not confirmed
  (`poll.ts:53`). `NoEventLost` and `EveryEventIngested` hold for those blocks as well,
  since they are read again when they are confirmed.
- `ConvergesWithoutRaces` holds if no handler wrote what it had read from the chain
  before the chain moved on (`raced`). Otherwise of two `OwnerUpdated` runs that
  both passed their check the older may write last, and nothing repairs it.
- `ValidAtRest` holds if no validation was cut off by an RPC error, which the code
  takes for "not linked".
- `GivenUpMeansNotApplied` excepts exits and stalls: after an exit between commit and
  acknowledgement the job fails on its own primary key until it is given up.
- `CacheFreshAtRest` excepts exits, errors, and entries that are `excused`, because
  no run will invalidate them: of events handled more than 15 minutes after their
  block, of accounts that entered a list after `beforeHandle` looked at it and
  before the commit replaced it, of those that the commit itself puts on the list -
  `beforeHandle` reads the receivers there are, not those of the document
  (`AccountMetadataEmittedEventHandler.ts:199`) - unless they are arguments of the
  event or were on the list before, and of the receivers an identity had, which no
  `beforeHandle` looks for.
- `Mirrored` says a copy takes only values seen on the chain, not that it ends with
  the last of them: that is `ConvergesWithoutRaces`.
- A Drip List document and an Ecosystem document of one token that are handled at the
  same time may leave both their receivers, a mixture that nothing on chain has.
  `Mirrored` and `OnlyCommitted` therefore speak of the documents of one kind, and
  `ConvergesWithoutRaces` of tokens with one row.
- `PreviousOwner` says that some transfer to the owner on chain came from it. A token
  that returned to a former owner may show how it came the first time.
- `ValidUnlessGivenUp` excepts a sub-list whose `SplitsSet` used up its retries while
  the document still waited for its Ecosystem: nothing sets its flag later.
- `FitsWhenUpToDate` excepts reverts that were interrupted between two statements:
  they stay recorded, and the next run says that the database is up to date
  (`run-migrations.ts:50`). `ErrorsExplained` excepts scripts after any such
  interruption - `CREATE TYPE` cannot be repeated - and the revert of the nullable
  owners while an unclaimed identity is stored.
- `SplitsSet` events may be given up: one waits for receivers that a skipped
  document will never bring. `OwnersAndDocumentsHandled` is about the others, and
  `TransfersHandled` excepts tokens that were burnt (`ownerOf` reverts) or listed
  as both kinds (the code's "invariant violation").

## 5. Fairness

- *Poll*: weak fairness of the loop as a whole - Node runs continuations and
  timers, the supervisor restarts the process - of every endpoint catching up and
  of mining. Exits are bounded and have none.
- *JobQueue*: weak fairness of each running handler, of taking a job, of activating
  a delayed one and of finding one whose run is gone: slots and timers of
  bee-queue. Nothing is assumed of faults, stalls and exits, nor of the posts that
  nobody waits for.
- *LinkedIdentity*: weak fairness per event: the queue runs each job again until it
  succeeds. It ends although waiting runs come back to where they were, since a
  row, once there, stays.
- *Project, NftAccount*: also strong fairness of the steps that complete a run (of
  the writes only in `NftAccount`).
  `Abort` is unbounded there, so a run that could be completed again and again is
  assumed to be completed at some time; exits and errors are rare. The twenty
  retries of the queue are not part of these modules: they say what happens if
  the queue does not give up first, which `JobQueue` is about.
- *SubList, Schema*: none; their properties are about safety.
- *MetadataTx*: strong fairness of granting a lock (Postgres grants in the order of
  requests) and weak fairness of the deadlock detection. Transactions that abort
  each other for ever are not excluded; the queue's backoff of 30 seconds is what
  ends that in practice, and it is not modelled.

## 6. Proofs

**`PollProofs`**: `TypeCorrect`, `NothingLost`, `NothingOrphaned`, `RangesSound`
(that a range by block number is confirmed, that one of negative numbers is a single
block, and that neither leaves a hole),
`RereadIsIdempotent`, `PollImplementsIngestion`, each for every number of endpoints,
chunk size, lag and depth of reorganisation, any set of contents and any number of
exits, from `PollAssumption` (the constants are natural numbers) and
`CoverAssumption` (`MaxReorg + MaxLag <= Confirmations`). The latter is what the
setting `confirmations` has to mean; without it the theorems are false.

`NoEventLost` is not inductive: nothing in it says what a poll that is half way
through has already fetched. `IInv` adds that every endpoint's view agrees with
the chain below its last `MaxReorg` blocks and lags by at most `MaxLag`
(`ViewsAgree`); that what a poll by number has made a job of, or is about to, is
confirmed (`AllConfirmed`); and that while the jobs of such a range are created each of
its events is in one of the two sets (`RangeCovered`). Polls of a negative range need
none of this, since they leave the cursor below the first block: what they read is
read again. The environment keeps it because what is confirmed is
out of reach of a reorganisation; `GetLogs` establishes `RangeCovered` because the
range ends `Confirmations` below a tip that some endpoint reported, hence within
what every endpoint's view agrees on; `SetCursor` turns it into `NoEventLost`.
The refinement maps every step of the environment to the same step, `SaveJob` to
`Deliver`, all others to stuttering, with `IInv` for the guard of `Deliver`. The jobs
of `Ingestion` are those that are not `early`, so that `SaveJob` of a negative range
stutters too, and an early job is delivered when a poll by number comes to it.

**`MetadataTxProofs`**: `ReceiversExist`, `NeededRowsExist`, `NothingHalfDone`,
`NoDuplicateKey`, for any set of accounts, jobs and documents, from `TxAssumption`,
and `StuckMeansDeadlocked`, for any finite set of jobs. The strengthening is that a
transaction holds what it has inserted, that whatever it holds exists or was inserted
by it (`LocksCoverInserts`), and that a required row is held only if it is committed
(`NeedsFirst`). `Commit` then publishes the receivers together with rows that exist.
That two documents of one row never leave receivers together (`OnlyCommitted`, proved
as `NothingHalfDone`) is not something `Commit` sees to, which removes what was
deleted some steps ago: it needs that a transaction that has deleted holds its own row
until it ends, that all there is of that row's documents is what it has deleted, and
that documents are deleted whole (`DeletedUnderLock`). Before the row is locked - the
variant `ClearUnlocked` - the second is false. `StuckMeansDeadlocked` says that
whenever no open transaction can go on there is a cycle of them, the only thing the
deadlock detection ends: what is locked is locked by an open transaction, and in a
finite set of transactions that wait for each other the smallest one that nobody waits
out of is a cycle. It is the safety half of `NoQueryWaitsForever`.

**`JobQueueProofs`**: `TypeCorrect`, `NothingGivenUpHalfway`, `NothingStaleAtRest`,
`QueueImplementsHandling`, `NoJobDropped`, `OneRunUnlessStalled`, for every set of
jobs, slots, accounts and scenarios and any number of retries, stalls, exits and
errors, from `QueueAssumption`. The refinement needs three facts that its mapping
does not mention: a row exists exactly if the effect was applied once (`RowsCount`),
only created jobs are in the lists or run (`OnlySaved`), and a run past its
transaction has a row or may skip (`AfterIsBacked`), which is what lets `Succeed`
map to a truthful `Report` although an exit or a stall may have given the job to a
second run. `Commit` maps to `Apply`, because the primary key turns a second insert
into an error. `GivenUpMeansNotApplied` needs that the lists are disjoint, that a
job has one run, and that a row belongs to a run or a success (`Calm`). The first
two hold until a live process stalls, through exits and errors, because an exit ends
every run and leaves its job in the list of active ones; only the third needs that
there was no exit. `OneRunUnlessStalled` states the first two: what lets one event
be handled by two runs at a time is a stall and nothing else. `NoJobDropped` says
that a saved job is always in one of the lists (`NoneDropped`): it is the safety
half of `EveryJobSettles`. `CacheFreshAtRest` is about the state at rest; the
invariant says of every state that an outdated entry is excused or still in the
hands of a run or post that will invalidate it (`StaleAwaited`). To keep it over
`Commit` one has to know that what a run gathered is what `beforeHandle` found
(`GatheredIsKnown`): what a commit outdates and its run awaits, on behalf of its
arguments or of the list it found, is among what it will post, and the rest is
excused.

**`ProjectProofs`**: `TypeCorrect`, `StatusAlwaysSound`, `ReceiversAreListed`,
`Convergence`, `ProjectImplementsMirror`, for every set of owners, lists and
documents and any number of events, from `ProjectAssumption`. Convergence is a
statement about the end; the invariant behind it is that the owner is the one on
chain or some event that says the same is not yet done (`OwnerFollows`;
`SplitsFollow` for the receivers), while nothing raced. A new event makes itself
pending. An event that is done without a write was outdated - then the pending one
is another - or its copy was right already. The two refinements map the write of a
row to `Mirror`'s write of a value that this run has seen.

**`NftAccountProofs`**: `TypeCorrect`, `Convergence`, `CreatorAlwaysMinter`,
`CreatorStays`, `PreviousOwnerGaveIt`, `NftAccountImplementsMirror`, in the same way,
from `NftAssumption`. In addition the log starts with its only mint (`MintFirst`), a
creator is only ever the receiver of that mint (`CreatorSet`), a mint that is done has
left a creator in some row (`MintHandled`), and no transfer is done before there is a
row (`TransfersWait`): a retry is what saves the creator when the document comes last.
`CreatorStays` says that a creator is never replaced or removed; it needs besides that
a mint has a receiver (`MintReal`) and that a row that is not there has no creator
(`AbsentIsNew`), as a document that creates a row writes all of it. The receivers are
written in two steps under the lock of one kind's row. That at most one run of a kind
is between them (`OneReplaces`), that it has deleted every listed document of its kind
(`DeletesOwn`), and that so there is one listed document of a kind at most
(`ListedOnce`) is what makes the commit a `Write` of `MirrorTable`, where the lists of
the other kind may stay or not. `SplitsFollow` is about tokens with one row, and needs
it as well. `PrevFollows` needs no condition about races, since only transfers write
the previous owner and they read the owner on chain under the lock of the row: one
that makes the read outdated is handled after.

**`LinkedIdentityProofs`**: `TypeCorrect`, `FlagIsRight`, `ReceiversFollowChain`,
`OwnedIsClaimed`, `LockIsNeverLeft`, from `IdentityAssumption`, for any number of
events, RPC errors and runs cut short. Here the handler reads the chain while it
holds the lock of the row, so its invariant has the lock: it is held by exactly the
run inside its transaction, on a row that is there (`LockHeld`), which is a theorem
of its own. The validation that `findOrCreate` takes for its defaults is made before
the lock and may be outdated when the row is created; the flag comes right all the
same, because while there is no row no `SplitsSet` event is done (`SplitsWait`), so
the one that outdated it is pending, and because a positive validation is never made
before splits were set (`PreIsLater`). `ValidFollows` and `ReceiverFollows` say that
flag and receiver agree with the chain or the event that says so is pending.

**`SubListProofs`**: `TypeCorrect`, `SubOfParent`, `Formatted`, `OneForm`,
`StoredHashesToChain`, `RetriedOnlyBefore`, `AnyOrderIsClaimed`,
`ValidUnlessSplitsFailed`, from `WidthAssumption`, `ReceiversAssumption` and
`SubListAssumption`, for every width of ids, any receivers, and documents of any
length. `SubOfParent` says that `calcSubRepoDriverId` undoes
`calcParentRepoDriverId` and that neither leaves the range of ids. With it every row
gives back the receiver it was made from, if the recipients passed the assertions
before the first row was written (`StoredIsClaimed`).

That is not enough for `StoredIsOnChain`, since the database may return the rows in
any order. `Formatted` and `OneForm` are about `formatSplitReceivers` alone:
whatever list it is given, it returns an ascending one with every receiver of it,
each once; and receivers with distinct ids have only one such list. `Unique` and
`SortById` are recursive functions on the prefixes of their list, so that what they
do is proved by induction over a prefix's length: `Induction` derives that from the
well-founded order of the natural numbers, by a set of lengths rather than by the
induction theorems of the library, which the provers cannot instantiate. One step of
sorting puts a receiver into an ascending list (`InsertPlace`, `InsertElements`,
`InsertSorted`), one step of `Unique` appends it unless it is there. Two strictly
ascending lists of the same receivers agree element by element (`Agree`,
`StrictlySame`). What is on chain is canonical (`OnChainIsCanonical` in `IInv`: the
contract accepts nothing else), so its receivers have distinct ids, and the rows of
any order have the same set of receivers (`AnyOrder`). `RetriedOnlyBefore` draws the
conclusion for the queue: `SplitsSet` is retried while the document is not stored,
and for no other reason.

**`Versions`**: `VersionsOrderEvents` and `VersionsDecode`, for every block number
and every log index below the word size. They are why `Project` and `NftAccount` may
take an event's position in the log for its version. The bitwise OR of `makeVersion`
is an addition for such an index. `NewestExists` is the lemma by which the chain's
answer to `ownerOf` is that of the newest event of its kind.

Everything is proved from the definitions and these assumptions, which say of the
constants only what they are: natural numbers, sets that do not contain the value
that stands for nothing, and events of the handlers' kinds. Only `CoverAssumption`
asks something of whoever configures the service. The bounds `Max...` are any
natural numbers in the proofs.

**Only model-checked**:

- All liveness properties: the provers do not handle fairness. Their safety halves are
  theorems where they have one: `NoJobDropped`, `StuckMeansDeadlocked`.
- The four statements of section 3 that the code does not keep: a behaviour refutes them.
- `Schema`: the migrations are fixed sequences of statements without parameters,
  so that TLC explores all there is, except how often scripts run.

## 7. Plan

Done, in this order: ingestion and its refinement with proofs; the queue; the
three kinds of accounts; the transactions across accounts with proofs; receiver
lists; then the abstract specifications `Handling` and `Mirror` and what implements
them, the cache, sub-lists, versions, and tables and migrations; then the proofs of
every safety property of the poll loop, the queue, the accounts, the transactions
and the sub-lists. What would come next, most important first:

1. One specification of two accounts that name each other, over `Project` and
   `MetadataTx`, so that the receivers written by one handler are what another handler
   reads about its own account; today each module has the other side as an
   environment.
2. The retries of `JobQueue` in `Project` and `NftAccount`, which leave a job to be
   retried for ever, and with them the events that are given up.

## 8. Not modelled

- Metadata schemas, IPFS, contract clients: declarations and pure data. A document
  is a record of what handlers look at.
- Types of columns other than enumerations. Two differ between models and
  migrations without being told apart here: `streams_history_hashes` and the account
  types of `sub_lists`.
- Descriptive columns (name, colour, avatar, timestamps), which no handler reads.
- The bits that mark an ORCID id: each module is about accounts of one kind.
- Within the failover provider, batches of requests and the HTTP detail.
- Monitoring and health, which only read; configuration and logging.
- Two instances of the service on one database: `docker-compose.yml` starts one.
