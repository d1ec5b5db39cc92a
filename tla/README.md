# wip: a TLA+ verification project

`wip` is a project-management tool for one person and the agents that work for
them. Its state is an append-only log of events in SQLite and the projections
folded from it. Every `wip` command is a process of its own, so several processes
(a person's shell, agents, a scheduler pass, a tracker flush) write to one
database at the same time. A second, experimental line of the code, `wipd`, moves
the log behind an authority that Environments talk to.

This directory holds TLA+ modules translated from the Go code, TLC configurations
that check them on small instances, and TLAPS proofs. Paths below are relative to
`src/internal/` unless they say otherwise. `PROJECT.json` maps every definition to
the lines it models and lists the runs, mutants, findings, hazards and theorems.

Contents: 1 inventory, 2 plan, 3 the modules, 4 the runs, 5 the proofs,
6 where code and text disagree, 7 what is not modelled.

## 1. Inventory

### How the parts fit together

    verbs / CLI ──> writesurface ──> store.Commit(decide) ──> events
                        ^                    │ same transaction
    scheduler pass ─────┤                    └──> projections (nodes, gates, edges,
    tracker flush ──────┘                         batches, runs, dispatches, outbox)
         │                                             │
         └──> provider (GitHub, ...)     readsurface, render, guards, doctor read

Everything that changes durable state goes through `Store.Commit`. It runs a
`decide` function, stamps the drafts that function returns, inserts them and folds
each one, all in one transaction. What a verb checks inside `decide` therefore
still holds when it commits. What it checks **before** `Commit` may be outdated by
then. Most hard behaviour of the core comes from that line, so every model is
built around it:

* a verb whose checks are all repeated inside the transaction, by `decide`, a fold
  or a constraint of the schema, is **one action**;
* any other verb is a **request** that carries what it read, a **commit**, and an
  **abandon** (the commit is refused or the process dies).

### The core

| Part | State | Operations | What is hard about it |
|---|---|---|---|
| Event log (`store/store.go`, `ulid.go`, `project.go`, `migrations.go`) | `events`, projections, `store_meta`; per handle a floor and the last minted id | open, commit, rebuild, rebuild when the projection version changed | clocks that disagree or step back; commits between read and write; a rebuild beside a commit; binaries of two versions; death at any point |
| Lifecycle, gates, sealing (`writesurface/lifecycle.go`, `gate.go`, `seal.go`, `store/gates.go`, `config.go`) | `nodes.lifecycle`, `gate_declarations`, `gate_state`, `gate_exemptions`, anonymous `batches` | start with cascade, finish, cancel, pause, resume; declare, close, dismiss, repair | stale checks before the transaction; a gate declared after work sealed; the sweep in the sealing commit |
| Dependencies (`writesurface/depend.go`, `store/cycle.go`) | `edges` and the view of edges in force | add, remove; tombstones take edges out of force; audit | two adds that overlap; enumeration of every loop exactly once |
| Plan (`writesurface/birth.go`, `amendment.go`, `store/view.go`) | rows of `nodes`: locator, sort key, tombstone | births, insert, reorder, replace, remove | locators and keys computed before the transaction; exhausted gaps between keys |
| Batches, Runs, brackets, roles (`writesurface/batch.go`, `run.go`, `role.go`, `store/project.go`, `render/dispatch.go`) | `batches`, `runs`, `dispatches`, `roles` | start, finish, stand down; open and close brackets; spawn and close roles | a sweep that takes no Run lock; roles that must not outlive their bracket |
| Scheduler (`scheduler/`, `readsurface/`) | a pass: node, claims, skipped Matters; the Run lock | Orchestrate, Resume | death at every commit; two passes; people who move nodes under a pass; termination |
| Tracker outbox (`tracker/`, `writesurface/outbox.go`, `tracker.go`) | `outbox_entries`, `tracker_push_records`; the provider's issue | propose, approve, decline, retry, flush | lost answers; overlapping flushes; leases that go stale; edits by others |
| Tracker references and aggregate, backlog, tiers | `tracker_references`, `backlog_entries`, Repo/Clone/Worktree rows | link, unlink, capture, promote, register, move | candidates proposed by other verbs' commits; git outside the store |
| Read surface, render, guards, verbs, manifest, harness | none of their own | queries, files, arguments | mostly data |

### The authority line

    wip (client) ──> wipd daemon: one lane per domain ──> wipdjournal (Environment)
                              │  return, pull, admit, submit, install
                              v
                     wipdauthority handlers ──> authoritystore: submissions, receipts,
                              │                 events, claims, gates, batches, blobs
                              └── snapshots, transfers ──> wipdseed: fold, client state

An Environment prepares a command in its journal, the daemon submits it, the authority
decides it in one transaction of its store, and the Environment installs the events and
the receipt. Each of the three can stop at any point, and every answer can be lost. The
authority holds a command between its submission and its completion, and other commands
commit in between; what a completion checks again and what it does not is where its hard
behaviour comes from.

| Part | State | Operations | What is hard about it |
|---|---|---|---|
| Commands and receipts (`authoritystore/commands.go`) | submissions, sequence heads, receipts, artifacts; owners in memory | submit, retry, hook result, complete, fail, sweep, restart | replay of a submission; owners lost in a restart; event ids drawn before the lock; a key fenced in between |
| Identities (`artifacts.go`, `ca.go`, `environments.go`) | artifact keys, CAs, leaf certificates, grants used | register, fence, install, issue, renew, revoke | lost answers; a rotation under a command in flight |
| Births, claims, journals, tree (`birth_journal.go`, `claims.go`, `claim_journal_close.go`, `step12_commands.go`, `connected_lifecycle.go`, `content_commands.go`) | Matters, Stages, Steps, claims, journal generations | births, acquire, append, acknowledge, seal, release, stand down, repair; edits, lifecycle and content under a claim | a claim closed by another Environment between submission and completion |
| Gates, relations, batches, roles (`gate_*.go`, `dependency_*.go`, `reference_commands.go`, `named_batch*.go`, `batch_sweep*.go`, `step10_*.go`, `scheduler_hook.go`, `step13_validate.go`) | events; named batches, repair admissions, sweeps | declare, close, dismiss, repair; dependencies, references, batches, sweep; roles, Runs, hooks | projections derived from the log at a position; a claim that may not close under open work |
| Blobs, snapshots, transfers (`blobs.go`, `snapshots.go`, `transfers.go`) | rows and files; pins; progress of transfers | upload, promote, expire, collect; pin, next, acknowledge | a stop between a file and its row; a token sent twice |
| Environment journal (`wipdjournal/`) | commands, attempts, installed prefix, receipts, grants, overlay | prepare, install, pin, hydrate | installs that are whole or absent; triggers of the schema |
| Daemon (`wipd/`) | the lane of a domain | start, replay, acquire, release | an operation ended between any two steps, then retried |
| Seed and pull client (`wipdseed/`) | the client state file; folds of the log | seed, pull, fold | two processes on one file; a second fold that must agree with the authority |
| Schemas (`authoritystore/*migration.go`, `wipdjournal/journal.go`, `store/migrations.go`) | versions, backups | upgrade | a stop between two versions; a backup that is refused or stale; a version that refuses the rows it finds |

### Correctness properties per part

* **Event log.** Ids ascend whatever the clocks do; a command decides on the state it is
  folded onto; the projection is the fold of the log.
* **Gates.** A sealed Matter stays sealed; a Batch is swept by the commit that seals
  its Matter and by no other; evidence sits at the declared scale; evidence that is
  not a close sits on Done work; started work has started ancestors.
* **Dependencies.** No cycle; the check and the audit agree about what a cycle is.
* **Plan.** A locator addresses one node and is never reused; an amendment gives the
  order that was asked for.
* **Execution.** One worker per Matter; roles inside brackets; claims inside open
  Runs; a finished Run has nothing left; every pass ends.
* **Outbox.** Nothing without approval; nothing twice; what is recorded as flushed
  happened; the push record is true.
* **Commands.** A command has one effect however often it is sent, and the commands of an
  Environment take effect in their order; a stopped authority can be started again.
* **Authority work.** Work is logged only under the open claim of its Matter; an entry
  that was given up has no effect; a released claim left nothing open; the tracker hears
  of every change by a gate or a reference; whoever folds the log again agrees with the authority.
* **Environment.** What is installed is the authority's history; an entry is acknowledged
  only when its outcome is durable; a decided command is installed at last.
* **Storage.** Referenced bytes stay readable; a transfer neither skips nor repeats a
  record; a client file only grows; an upgrade is whole and goes as
  far as the contents of the store allow.

## 2. State of the work, and what is next

Done and proved: Gates, Dependencies, EventLog, Outbox, the claims, roles and Runs of
Execution, that Commands implements Ledger and reopens after every stop, storage, and
upgrades. Done and model-checked: CycleAudit, Plan, how passes of Execution end, the
authority's work operations, the Environment.

Open, in the order in which they would add most:

1. Proofs, where the runs already agree: Plan (locators), WorkCheck (work under a
   claim), the Environment (what is installed is the authority's).
2. Tracker references and aggregate of the local store, feeding Outbox. The authority's
   version of them is in Relations.
3. Stages inside Execution; named Batches of the local store.
4. The daemon's sessions: a cancel against a dispatch (`wipd/execution_lane.go:101`), a
   lane dropped while it is looked up (`wipd/execution_lane.go:23`).
5. Several Environments in one composition: Environment joins one Environment to an
   authority that others write to; MCAuthority joins two Environments without journals
   of their own.

Bounds follow one rule: the smallest instance in which every action happens, two
actors overlap, and a limit (a key gap, a cap, an id's random half) is hit.

## 3. The modules

`MutX` definitions are the mutated forms of `X` that `PROJECT.json` lists: each is a
plausible mistake that a property must notice. They take no part in the
specifications.

### Gates (`Gates.tla`, `MCGates.tla`, `GatesProofs.tla`)

State: `lifecycle`, `removed` (tombstones), `declared`, `gateState`, `exempt`,
`batch` (the anonymous Batch of each Matter), and `inflight`, the requests that
passed their checks. The shape of the tree (`Kind`, `Parent`) is a constant. A node
is born at most once and a removed one does not return.

| Action | Code |
|---|---|
| `CreateNode`, `RemoveStep`, `ReplaceStep` | births; `writesurface/amendment.go` |
| `Start` (with the cascade to Planned ancestors), `Finish`, `Cancel`, `Pause`, `Resume` | `writesurface/lifecycle.go` |
| `RequestClose`/`CommitClose`, `DismissGate` | `writesurface/gate.go` |
| `RequestDeclare`/`CommitDeclare`, `RequestRepair`/`CommitRepair` | `writesurface/gate.go`, `store/config.go` |
| `RequestFinish`/`CommitFinish` | the scheduler's finish, `scheduler/loop.go` |
| `CreateAnonymousBatch`, `Abandon` | `writesurface/batch.go`; a refused commit or a death |

`Sealed` is `NodeCompletion`: Done, and every gate on the node and above it at its
declared scale closed, dismissed or exempted. `SealedWithOverlay` is the same
question asked inside a commit about the state that commit is about to produce.

### Dependencies and CycleAudit

`Dependencies.tla` has the live edges, the tombstones and the adds in flight. An add
is `RequestAdd` (resolve, `WouldCycle`) and `CommitAdd`; a removal is one step
because the fold refuses an edge that is not live. `Reaches` is the mathematical
meaning of the search: a node waits for whatever lies in every closed set that
holds its blockers. `CycleAudit.tla` has the two searches as they are coded, a
stack with a seen set and a recursive walk from each loop's smallest node, and
compares them with that meaning on every edge set reached. It is apart from
`Dependencies` because its operators are recursive, which would keep the proofs
away.

### EventLog (`EventLog.tla`, `EventLogProofs.tla`)

State: the log, the projection, the recorded version and the write lock; per process
its handle (`floor`, `lastMs`, `lastRand`, `version`) and its open transaction. SQLite
is external and modelled by what the code relies on: a snapshot at the first read,
one writer, refusal of a first write on an old snapshot, nothing visible before
commit. `Mint` and `Insert` are apart because the id is minted in Go before the
INSERT takes the lock. `Rebuild` is `ReadEvents`, `Refold` and `RecordVersion`, as in
the code. The fold is kept free: the projection is the sequence of folded event ids,
each with the version it was folded under, so projections equal here are equal under
any `applyEvent`. The clock ticks and steps back at will.

### Plan (`Plan.tla`, `MCPlan.tla`)

State: the rows of `nodes` in birth order and, per process, the verb between its
reads and its commit with the locator, key and order it computed. `current` turns
false when anybody else commits. The index `nodes_locator`, the depth trigger and the
refusals of `applyReorder` are guards of the commits; all else the verb checked may
be outdated. `Gap` stands for `sortKeyGap` (1000).

### Outbox (`Outbox.tla`, `OutboxProofs.tla`, `MCOutbox.tla`)

State: entries with their state, attempt and reason, the push record, the issue at
the provider with its version (`updated_at`), the objects posted, and per process its
flush. A flush is `Start` (its only read of the outbox), `Classify` and `Supersede`
per entry, then `Observe`, `Write` and the record for each delivery. The provider is
external: a request fails before or after it took effect, answers are lost, and
others edit the issue. The GitHub adapter is the one modelled.

### Execution (`Execution.tla`, `ExecutionProofs.tla`, `MCExecution.tla`)

State: plan rows, gates and sweeps; Runs, claims, plain brackets, roles, Run locks;
and per pass the state of its process (program counter, node, claims it holds,
Matters it skipped, members left to settle). Each commit of `Orchestrate` and `Resume` is
an action. A pass may return with an error or die between any two. People start,
finish, pause and cancel nodes, close gates, stand Runs down and close brackets and
roles meanwhile.

Abstractions: the frontier is derived in one read where the code uses several
queries; Matters have Steps and no Stages; `engageOne`'s second read of the Matter is
merged into `Derive`; the deferred close of the Orchestrator's role and the release
of the lock are one step; there is one plain bracket per worktree; the PostSeal hook
and named Batch membership are left out. `run.started` and the two entry points have
no caller in the repository outside tests: they are reached from the agents' side.

### Authority commands (`Commands.tla`, `Enrollment.tla`, `Ledger.tla`, `CommandsProofs.tla`)

State: submission rows, sequence heads, the event log, the range of every receipt, and
`exec`, the owners and retained completions a process keeps in memory. A command is its
Environment and sequence number; its family says how it is executed, which is all that
`commands.go` knows of it.

| Action | Code |
|---|---|
| `SubmitCommand`, `RetryCommand` | `submitIdentity`, `RecoverCommand`, `ClaimPendingCommandCompletion` |
| `HookResult`, `MismatchedHookResult` | the scheduler hook result handler of `wipdauthority` |
| `Evaluate` | `executeSubmitted`: the event id is drawn outside the lock |
| `CompleteCommand`, `CompletionFails` | `CompleteCommand`, `finishCommandTx`, and what each family does on failure |
| `Sweep` | `SweepAnonymousBatch` |
| `Restart` | death and `OpenExisting`: the checks of the schema, then no owner is left |
| `IdentityNext` | keys, CAs and leaf certificates (`Enrollment.tla`) |

`Ledger.tla` is the abstract specification: commands of an Environment are accepted and
finished one at a time, in order, each once. `Commands` implements it with `open` as "some
row is submitted" and `finished` as the signed receipts with the number of their events.

### Authority work (`Work` and the modules that extend it)

One chain of modules, each adding operations to the same tables and the same log. A command
is submitted (`Submit...`) against what the store says then, and completed (`Complete...`)
against what it says later. Completion commits, refuses with a receipt, or fails and leaves
the command submitted, as the code of each operation does.

| Module | Code | Operations |
|---|---|---|
| `Work` | tables and `Finish` | the state; submission, receipts, events |
| `Births` | `birth_journal.go`, `commands.go` | Matter births of both versions, Steps under the birth claim, the birth journal and its release |
| `Claims` | `claims.go`, `claim_journal_close.go` | acquire, append, acknowledge, seal, release, stand-down, journal repair |
| `Tree` | `step12_commands.go` | Stages, Steps, insert, reorder, replace, remove, locator repair |
| `Progress` | `connected_lifecycle.go`, `content_commands.go` | lifecycle with its cascade, content |
| `WorkCheck` | `step12_validate.go`, `lifecycle_validate.go`, `step8_validate.go`, `step5_migration.go` | what a start checks: the fold of the log against the tables |
| `AuthorityGates` | `gate_*.go` | declare, close, dismiss; the exemption repair with admission and terminal |
| `Relations` | `dependency_*.go`, `reference_commands.go`, `named_batch*.go`, `batch_sweep*.go`, `step13_validate.go` | dependencies, tracker references and candidates, named batches, the sweep |
| `Roles` | `step10_*.go`, `scheduler_hook.go` | roles, Runs, hooks, births a plan causes, what holds a claim open |
| `SeedFold`, `SeedProjections` | `wipdseed/transfer.go`, `wipdseed/step7_projection.go`, `wipdjournal/step8_projection.go` | the Environment's own folds of the log |

`WorkCheck` and the seed folds are second implementations in the code of what the operations
do. They are translated on their own, from their own lines, so that comparing them with the
operations says something.

A candidate for the tracker is derived from an event only where the event recorded a push level.
The commands that close or dismiss a gate and those that bind, unbind or rebind a reference record
one (`PushLevel`, `Pushes`); lifecycle commands and the exemption repair do not, so what they
change reaches the tracker with the next event that does.

### Environment (`Journal`, `Attempts`, `CommandStart`, `ClaimStart`, `MCEnvironment`)

`Journal` and `Attempts` are the transactions of the Environment's store: prepared commands,
receipts, attempts to acquire and release claims, grants, journal bindings, the installed
prefix and the overlay. The triggers of its schema are guards. `CommandStart` and `ClaimStart`
are the coordinators of the daemon, which hold the lane of the domain and go step by step:
return what is pending, pull, admit or prepare, submit, install, acknowledge. `Fail` ends an
operation between any two of them; what is durable stays. The authority is what `Commands` and
`Claims` show of it: it takes the next command of the Environment and answers a repeated one
with its receipt. `OthersAppend` is the rest of the world.

### Storage (`Blobs`, `Transfers`, `ClientState`, `Storage`, `Upgrades`, `MCStorage`, `StorageProofs`, `UpgradesProofs`)

`Blobs` has rows and files side by side: every operation that touches both has an outcome in
which the process stops between them, and every answer can be lost. `Transfers` has snapshots,
their pins, and the progress of a resumable transfer; `Take`, `AcknowledgeTransfer` and
`Redeliver` are the receiver with its token. `ClientState` has the file of an Environment and
processes that seed or pull at once, with the authority's exchange (pin, answer, release); one
that seeds beside another ends well when the file holds the same bytes it would have installed.
`Storage` composes the three: everything they do, in any order, and the properties of the
whole. `MCStorage` restricts it to one scenario at a time, since all at once is beyond TLC.
`Upgrades` has the three ways an older database becomes one of this release: the authority's
`UpgradeVn` with a backup, the journal's upgrade on open, and the local store's migrations by
whoever opens it first. The contents are counted by the writes that made them, so that a backup
can be recognised as stale. `rows` says what older releases left that one version treats apart:
unbound artifacts, repairs without their witness, sweeps without their boundary, Runs without a
locator, and so on. A version that refuses them rolls back its own transaction and ends the
upgrade, the versions before it kept (`InstallRefused`, `applyMigration`). Version 12 of the
authority is installed by two transactions, its schema and then the projection of its events.

## 4. The runs

Each property has a mutated model that breaks it. `(v)` marks a run whose one property
states what a text of the repository says and which TLC shows to be violated by the code as
modelled.

| Run | Instance | Checks |
|---|---|---|
| `gates` | Matter, Stage, Step with two ordered gates and one request in flight; or a Matter, a Step and its replacement with one gate and two in flight | `EvidenceAtDeclaredScale`, `StartedAncestors`, `SealedMatterStaysSealed`, `SweepOnlyAtSeal` |
| `cycle_audit` | four nodes, one a Step, two adds in flight | `CycleOnlyByOverlap`, `SearchIsReachability`, `AuditReportsEachLoopOnce` |
| `eventlog` | two processes, two versions, two events, random halves of two values | `LogAscends`, `DecidedOnTheLatest`, `OnlyStaleRefoldLoses` |
| `plan` | two processes, three nodes, two slugs, key gap 2; a fourth node for one process alone | `LocatorsHold`, `AmendmentLands` |
| `outbox` | two entries of any kind, two flushing processes, three issue versions | `PostedOnce`, `OnlyApproved`, `RecordIsTrue` |
| `execution_claims` | one gated Matter with a Step to author, two Runs (one over the anonymous Batch), two worktrees, two passes | `OneWorker`, `ClosedIsQuiet` |
| `execution_run` | one Run over a gated Matter and one it blocks, two passes | `ClosedRunIsSettled`, `PassEnds` |
| `commands` | two Environments with two commands each; or enrollment from bootstrap with one command each | `Reopens`, `KeepsLedger`, `EvaluatedOnce` |
| `authority` | nine scenarios, two Environments | `WorkUnderClaim`, `AbandonedHasNoEffect`, `OnlyRoleClosedGatesLose`, `TrackerFollows`, `SweptStaysSealed`, `ReleasedIsResolved`, `UnitOnce`, `OnlyGapsLose` |
| `environment` | one Environment, five sets of requests, one event of another | `InstalledIsTrue`, `Reopens`, `AckedIsInstalled`, `DecidedIsInstalled` |
| `storage` | four scenarios: two uploads, a resumable transfer, two pulling processes, older databases | `ReferencedReadable`, `StoreReopens`, `TransferIsExact`, `InstalledOnlyGrows`, `UpgradedWhole`, `UpgradeFinishes` |
| `replica_folds` (v) | the tree scenario of `authority` | `ClientFolds` |

### What they show

* **Gates.** Four verbs commit on checks that may be outdated, and the evidence they
  leave is still where it belongs, because Done and a declaration are permanent and
  a repair's node, gate and scale are read again by the fold. A gate declared late
  never unseals a Matter: the exemption snapshot is read inside the transaction.
* **Dependencies.** A cycle needs an add that commits on a check another add has
  overtaken; removals never hurt. On every edge set, cyclic ones included, the coded
  searches compute what they are meant to.
* **EventLog.** The floor of a handle is read once, so two handles may mint in any
  order. The trigger `events_monotonic` is what keeps the log ascending, and the
  snapshot conflict is what keeps decisions current. The only step that loses an
  event from the projection is a Rebuild that was overtaken.
* **Plan.** For one writer at a time locators are never reused and amendments give
  exactly the order asked for, also when the gap runs out at the head or between
  siblings. For several writers the index keeps live locators unique within a
  Matter. It protects neither the locators of Matters nor those of removed Steps.
* **Outbox.** Markers make creation and comments idempotent over deaths and lost
  answers. Duplicates need two flushes that overlap. What is recorded as flushed was
  delivered, and the push record is what the provider has.
* **Execution.** The claim keeps two passes out of one Matter; the one exception is a
  Matter that a person finished and sealed under the pass, whose claim the sweep
  closes. Closing a bracket always takes its roles along. A pass always ends.
* **Commands.** Through retries, failures, restarts and rotations the authority implements
  the ledger, and what is committed always passes the checks of the next start. A retained
  completion is never evaluated a second time by the same process.
* **Authority work.** A claim closed by another Environment fences every command that was
  submitted under it. Since the last lifecycle command or repair that changed what the Matters of
  a reference say together, every change was told to the tracker, and the last thing told is how
  they stand, also where several Matters share the reference. A claim is released only when its entries, roles, hooks and planned
  births are settled. A swept Matter stays sealed although later declarations reach it, since
  they exempt it. The checks of a start agree with what the operations commit, with the
  exception that `OnlyRoleClosedGatesLose` names (section 6), and the folds of an Environment
  agree with the authority except for the event kinds they have no case for
  (`OnlyGapsLose`).
* **Environment.** Whatever is lost between two steps, the installed events are a prefix of
  the authority's log and every receipt is the authority's. A command the authority has
  decided is installed in the end, as long as it is tried again.
* **Storage.** Bytes that an event refers to are never collected, and rows and files agree
  well enough to reopen after a stop at any point. A transfer delivers every record once in
  spite of repeated tokens. Two processes of an Environment never take the client file back.
  An upgrade that stopped can be finished up to the last version that accepts what is in the
  store, with one manual step: removing a backup that the upgrade refuses. The exceptions are a
  creation that stopped and the authority's version 12 without its projection (section 6).

### Bounds

Two is the number that matters: two processes, flushes, passes, adds, Environments or
requests in flight are what an overlap takes, and each property speaks of one or two actors.
Gaps of 2 run out after one insert, where 1000 would take ten. Random halves of two values
wrap at once. Four nodes give loops that share edges, which the audit must
tell apart. `Handled` names the nodes that people move by hand, `MaxPasses` the passes
ever begun (one that ends and one that comes after it, or two at once). The issue's
version is capped at three: both entries may write once, or one write and one
edit by somebody else. Symmetry is used over flushing processes and worktrees, in runs with
invariants only. The outbox treats completed and canceled alike, so `MCOutbox` lets completed come
first (`CompletedFirst`). `births` has two Matters, or three when two are being created at once, and
in `roles` a question is asked once the claim is closed, which is when it differs from other hooks.

`MCGates` and `MCPlan` keep a behaviour inside one of two scenarios (`Within`), so that depth
and overlap are both explored without their product. `MCAuthority` does the same with `mode`:
births, claims, tree, gates, relations, tracker, batches, sweep, roles. A scenario begins with
a store that its own operations can produce (a Step that is done, a claim that is sealed) and
bounds the commands that follow (`MaxBirths` to `MaxRole`, counted with those that filled the
store). `MCCommands` separates work from enrollment, `MCStorage` has one mode per kind of
storage, `MCEnvironment` picks a set of requests. A run with modes checks each of its
properties in every mode.

In `storage` blobs have two bytes and one, chunks are of one and two bytes, `MaxStaged` is one
so that the limit is hit, and the histories of `Upgrades` start at the versions after which
the rules of an upgrade change, with each kind of rows that some version refuses or converts.

Deadlock is checked in the `eventlog` run. The others stop when their bounds are
used up or when everything is done and sealed, and say `CHECK_DEADLOCK FALSE`.

### Fairness

`PassEnds` assumes weak fairness of the steps of each pass. A pass is one
process in one loop with no wait for another (the Run lock is tried, never waited
for), so it goes on as long as the process is scheduled and its hooks return.
Failing or dying counts as a step, and fairness never forces it.

`DecidedIsInstalled` assumes that the daemon runs the steps of an operation it has begun, that
from some time on no step is lost (`Calm`), and that an unresolved command is tried again
whenever it can be (`Retry`, strong fairness). Every start of the daemon's client replays what
is pending, so the last is what a client that keeps working does. A command may be refused a
start for as long as another operation holds the lane, which is why weak fairness would not do.

`UpgradeFinishes` assumes that whoever needs a store opens it again and that the operator
repeats an interrupted upgrade, removing a backup it refuses. Nobody is assumed to change what a
version refuses: such a store is to reach the version before it and stay there (`Ceiling`).

No other liveness is claimed: everything else waits for a person.

## 5. The proofs

TLAPS proves these for every value of the constants that meets the assumptions:
`TreeAssumption` (the depth rule Matter, Stage, Step) and `GateAssumption` in Gates,
`NodeAssumption` in Dependencies, `LogAssumption` in EventLog, `EnrollmentConstants` and
`CommandConstants` in Enrollment and Commands, `OutboxAssumption` in Outbox,
`ExecutionAssumption` in Execution, `BlobConstants` in Blobs. They are facts of types or of the schema. One is a fact
about data: the frozen set of a Run over an anonymous Batch holds no Matter but that of the
Batch ("Anonymous Batches carry their sole Matter", `store/view.go:816`; `joinBatch` refuses
any other). The bounds are arbitrary naturals.

**GatesProofs.** `TypeCorrect`; `SealIsPermanent`; `SweepExactlyAtSeal`;
`SweptIsSealed`; `EvidenceIsSound`; `AncestorsStarted`. The argument starts from
`Persists`: no step undoes Done, evidence, an exemption or a declaration. A Matter has
no enclosing node, so only Matter-scale gates bear on it (`MatterSealed`), and a gate
that a step declares at that scale exempts every sealed Matter in the same step
(`DeclarationExempts`). Together a sealed Matter stays sealed, and with
`NextSweep` the Matter of a swept Batch is sealed. `EvidenceAtDeclaredScale` and
`BypassOnlyOnDone` are not inductive alone: a repair in flight might commit against a
state that changed. `RepairsSound` adds that what a repair checked still holds.
`StartedAncestors` is strengthened to `ParentsStarted`, one hop at a time, with born
parents for born nodes.

**DependenciesProofs.** `TypeCorrect`; `CyclesNeedOverlap`; `CurrentAddsAreSafe`. The
heart is `CheckedEdgeClosesNothing`: an edge that `WouldCycle` does not refuse puts no
node on a cycle that was not on one before. It rests on transitivity and monotonicity
of `Reaches`. The inductive invariant `DepInv` adds `CurrentChecksHold`: a request
whose check is current would still pass it, since the graph can only have lost edges.

**EventLogProofs.** `TypeCorrect` (with `DraftLeft`: whoever has stamped has a draft
left); `LogIsOrdered`; `CommandsAreIsolated`; `ProjectionIsKept`. The inductive
invariant `OrderInv` adds `LockInv` (the holder of the lock has staged events, and who
has staged events is inside its transaction) and `StagedAscend` (the log followed by what a process has staged
ascends), which is what makes the commit, an append of several events, keep the order.

**CommandsProofs.** `InvariantHolds`; `CompletionsAreKept` (`EvaluatedOnce`);
`CommandsKeepLedger`: Commands implements Ledger. The invariant `CommandInv` says that the
finished commands of an Environment are at or below its head and a submitted one is right
above it (`RowInv`), that only finished commands have events and receipts (`LogInv`), and that
only a submitted command has an owner (`ExecInv`). With it every terminal transaction maps to
one `Finish` of Ledger with as many events as it appended (`FinishAppends`), acceptance maps to
acceptance, and all else, the restart included, stutters. Ledger has no room for a second finish
of a command or for one out of sequence. `StoreAlwaysReopens` (`Reopens`) is what a reopen
verifies. The chains of keys, authorities and leaves are inductive once the rows have their
types (`IdentityInv`). The ranges are not: `HeadInv` says that exactly the commands up to the
head of an Environment are finished, `SignedInv` that each has one artifact, so that a count of
the artifacts is a count of the commands, `RangeInv` that a command has a range when it is
finished and not before, and `IdInv` that the ids of the log ascend, and strictly from one
command to the next.

**OutboxProofs.** `InvariantHolds`; `DeliveredOnce` (`PostedOnce`); `HumanBoundary`
(`OnlyApproved`); `RecordsAreTrue` (`RecordIsTrue`). A flush acts on rows that it read at its
start, so none of the three is inductive. `OutboxInv` adds what makes them so: whatever was
ever eligible was approved (`EntryInv`); while flushes do not overlap, one process at most
is in a flush and nothing is posted twice (`AloneInv`); the record holds
terminal dispositions only, and with no foreign edit the issue agrees with it (`RecordInv`);
and at each point of a flush what it read still bears out what it does next (`GoodFlush`).

**ExecutionProofs.** `InvariantHolds`; `ExclusiveWork` (`OneWorker`); `QuietWhenClosed`
(`ClosedIsQuiet`); `NothingLeftBehind` (`ClosedRunIsSettled`). The heart is `PassInv`: a pass past the lock holds the lock of its Run, and
every Matter that it believes it has claimed is claimed by it or sealed. `PassMoves` keeps this for the
pass that steps. `ClaimHeld` keeps it for those that look on: a stand-down and the reaping of a resume
need the Run lock, which `LockHeld` shows only its holder gives up. The sweep of an anonymous
Batch takes no lock, and this is where the assumption on anonymous Batches is used: it
closes the claim on the Matter that has just sealed and no other. Roles follow claims
and brackets (`RolesKept`), and a swept Batch stays quiet because `startRun` wants a live
Batch and `openDispatch` an open Run (`SweptKept`). That a closed Run leaves nothing behind
takes the history of the pass that closes it (`CloseInv`): in `settle` every frozen Matter
it went through is canceled or sealed, or the pass stands by (`SettleInv`), and a claim on a Matter
of the Run is known to the pass that opened it as long as that pass lives (`OwnInv`).
`ResolvedStays` carries what was settled early to the moment of the close.

**StorageProofs.** `StorageInvariant`; `ReferencedIsReadable` (`ReferencedReadable`);
`StorageReopens` (`StoreReopens`); `TransfersAreExact` (`TransferIsExact`);
`ClientFileOnlyGrows` (`InstalledOnlyGrows`). They are about `Spec` of `Storage`, in which
uploads, commands, expiry, collection, resumable transfers and pulls all interleave; each
scenario of the run is a restriction of it. `StorageInv` has four parts.
`BlobInv`: the chunks of an unverified product tile its bytes up to the offset, each byte once
(`Tiled`), rows have their files, and the references are exactly the blobs that the log
declares, each at its first event. The last makes the manifest of a prefix a function of the
log (`Named`), whatever is verified or collected later (`NamedIs`). `SnapInv`: a snapshot agrees with the log at its end, a transfer with its
snapshot. `ClientInv`: the file, the base of every session and what a session is about to install
are prefixes of the log with their manifests. `RxInv`: what the receiver has is the
first boundaries, up to its token and the one it took; the stored progress is level with the
token, or one ahead when an answer was lost; and no acknowledgment sent before can move it. That
last clause is what makes a late copy of an acknowledgment harmless (`RedeliverKeeps`): it is level with
the stored progress only at the end, where nothing is left to advance.

**UpgradesProofs.** `UpgradesAreWhole` (`UpgradedWhole`), for any number of openers and stops.
`UpgradeInv` adds that one process at most works on an authority's store and, when it is about
to leave a version, the backup of that version has the contents as they are (`LockInv`); that an
authority's store past version 12 has the projection of its events (a conjunct of `UpgradedWhole`);
and that a process of the local store means to apply a version no later than the
next (`NextInv`), so that one that lost the race finds its version applied and fails without a trace.

`TypeOK`, `BypassOnlyOnDone`, `SweptMatterIsSealed` and `CurrentAddClosesNothing` are proved and
have no run of their own.

**Only model-checked.** Liveness, which is out of the prover's reach: `PassEnds`,
`DecidedIsInstalled`, `UpgradeFinishes`. The comparisons of the recursive searches in
CycleAudit: recursive operators are out of its reach, and so is induction over what they
compute. Within its reach and not yet proved: all of Plan, the authority's work (`WorkCheck`,
`Relations`, `Roles`, `SeedProjections`) and the Environment.

## 6. Where code and text disagree

One disagreement has a run of its own:

* `replica_folds`: the client's fold (`wipdseed/transfer.go:1413`) has no case for locator
  repairs and for Steps inserted, reordered, replaced or removed. Once the authority has written
  one of them, every later seed, pull and claim grant is refused.
  `docs/wipd/read-transfer-snapshot-contract.md:20` says that an Environment installs the bytes
  unchanged and folds projections from them.

The following were found with TLC too. The property that states the text is kept in the module,
with a comment that says that it does not hold; no run repeats it.

* `SealSweepsBatch` (Gates): the scheduler's finish (`scheduler/loop.go:428`) and the
  exemption repair (`writesurface/gate.go:125`) can seal a Matter and leave its
  anonymous Batch live for good. `writesurface/batch.go:151` says an anonymous Batch
  is swept when its Matter seals.
* `ProjectionFollowsLog` (EventLog): `Rebuild` reads the log (`store/project.go:233`) before its
  transaction (238). An event committed in between is in the log and not in the
  projection. `store/doc.go:13-16` promises the opposite.
* `ReorderIsComplete` (Plan): `ReorderStep` compares lengths (`writesurface/amendment.go:162`)
  and accepts an order that names one Step twice and another not at all. The comment
  at 151-152 says a partial reorder is refused.
* `RetryFinishes` (Commands): a retained completion keeps the event id it drew. Once another
  Environment has committed a later one, every retry fails (`authoritystore/commands.go:571`)
  until the process restarts. `docs/wipd/result-receipt-idempotency-contract.md:75` says that
  recovery must resume or finish the submission.
* `AuthorityReopens` (Roles): a completion lets the Verifier's role close its gate
  (`authoritystore/gate_commands.go:181`), and the check of the next start accepts no actor but
  a human (`gate_validation.go:200`), so the store is refused from then on. A version 1 birth of a
  Step takes the next key of the Steps (`commands.go:886`), and the check wants the next key of all
  siblings (`step12_validate.go:649`, as `docs/wipd/operation-contract.md:104` says), with the same
  result once the Matter has a Stage. `OnlyRoleClosedGatesLose` checks that nothing else does this.
* `UnresolvedAcquireCanRetry` (MCEnvironment): an acquire that is unresolved when a replayed
  command or a birth release pulls has lost its anchor, and its retry is refused
  (`wipd/command_start_claim_acquire.go:123`). The comment at line 14 has
  it retried with its installed anchor, and `docs/wipd/claim-lifecycle-contract.md:557` has a
  submitted operation retried under its id until it has a receipt.

One text has no property of its own:

* `docs/wipd/m6-step-8-cross-matter-aggregates.md:20-22` says that lifecycle events update
  "aggregates and deterministic tracker candidates". The lifecycle commands record no
  `tracker_push_level` (`authoritystore/connected_lifecycle.go:335-342`), and without one
  `step13_validate.go` derives no candidate. The tracker hears of a completed Matter when a gate
  closes or a reference is bound afterwards, or never. `TrackerFollows` names the exception.

The models have the following behaviours too. The properties of the passing runs name the
exception where there is one, so that what holds besides it is still checked.

* Two overlapping `depend add` can close a cycle (`writesurface/depend.go:31`), which
  the head comments of `depend.go` and `store/cycle.go` exclude. `CycleOnlyByOverlap`.
* Two overlapping gate declarations can break the gate order (`writesurface/gate.go:49`).
* A handle compares projection versions only when it opens (`store/migrations.go:401`).
  An older binary goes on folding by its rules into a projection that a newer one has
  rebuilt.
* A crash between `Rebuild` and the write of the version (`migrations.go:407-410`) costs
  a second rebuild and nothing else.
* Two overlapping births can give two Matters one locator (`writesurface/birth.go:35`);
  no index backs the check. An overlap can also give a removed Step's `step-NN`
  again (`birth.go:105`), against `store/view.go:397-399`. `LocatorsHold`.
* A Stage whose title has the shape of the next `step-NN` blocks every later birth of a
  Step in its Matter (`store/view.go:393`).
* `step replace` tombstones the Step and with it takes its edges out of force; the
  replacement has none.
* Two overlapping flushes can post one entry twice, and an entry declined while a flush
  is about to deliver it is delivered. `PostedOnce`.
* A terminal state push whose answer is lost leaves no lease. Every retry finds a closed
  issue and is refused (`tracker/github/github.go:341`) until a person declines it.
* A claim can outlive its Run: a pass ends without closing it, the Matter is completed,
  and a later pass that is not a resume finishes the Run. Neither Resume nor stand-down
  takes a closed Run. The comment of `settle` (`scheduler/loop.go:533-535`) speaks of
  closing claims left open; it closes those of its own pass. `ClosedRunIsSettled`.
* A second pass can work in a Matter whose claim the seal's sweep closed under the
  first. `OneWorker`.
* A death between the last Step's finish and `completeContainers` leaves the Matter In
  Progress; no later pass finds anything to work in it.
* A halt leaves claims open, so the next Orchestrate contends with its own Run.
* A pass that died leaves its Orchestrator in the plain bracket, and Resume must spawn
  its own before it reaps (`scheduler/resume.go:72`).
* A plain bracket closed under a live pass makes the pass's later commits refused.

* A role left active when its Matter is finished or its claim stood down can no longer be closed
  (`authoritystore/step10_roles.go:98`).
* A release of a claim journal that is pending when an acquire under a new id, or a birth
  release, pulls can never be completed. A birth release is impossible after any command that
  the authority delivers (`wipdjournal/install.go:126`).
* One command whose receipt is not a success blocks every later command of the Environment.
* A stop between the authority's seal and the local pin of it, followed by a new command,
  leaves the claim's journal with no way on.
* An interrupted creation of a journal leaves a file of version 0 that never opens; one of an
  authority leaves a root that no call completes (`authoritystore/store.go:104-106`).
* A torn file of the pending identity can be neither loaded nor replaced.
* Later `UpgradeVn` refuse a backup that a stopped upgrade left behind; the first accepts one
  that is older than the store. The backup of the local store can be torn when another process
  writes between the checkpoint and the copy.
* A stop between `installStep13` and `rebuildStep13Projection` leaves an authority of version 12
  whose projection is empty. `UpgradeV12` and every open validate the projection first and refuse
  it, so no call completes it (`step13_migration.go:196-201`); what is left is the backup of
  version 11. `UpgradeFinishes` names the exception (`Stranded`).
* What older releases left can end an upgrade in the middle: the authority stops at version 14, 15
  or 16 with a repair or a sweep that the next version cannot explain, the local store at 1 or 12.
  The release that reads that version still opens it, and no operation removes the cause.
* A pull of more events than one exchange carries is refused, however often it is tried.

Seen in the source while modelling and outside the models: two racing refreshes of one
worktree open two plain brackets (`render/dispatch.go:29`); a Matter blocked by its own
Step is never selectable; no operation changes the epoch of a domain; `CollectExpired` and the
`UpgradeVn` have no caller outside tests; the finish of an upload, and the count and pin of a
transfer's product, are two transactions each; a stop before `ReleaseSnapshot` leaves a pin until
it expires.

## 7. What is not modelled, and why

* **Planned** (section 2): tracker references and aggregate of the local store; named Batches
  there; Stages in Execution; the daemon's sessions.
* **Little to check**: the backlog, a list with a small lifecycle whose only link to the rest is
  an outbox entry; tiers, which follow what git reports.
* **Data without state of its own**: argument parsing and output (`verbs`, `cmd`),
  rendering of `.wip`, manifests and harness files, canonical encodings and validation
  tables (`operation`, `wipdwire`), page reads, content and briefs, Stage comments of the
  tracker's "narrated" level.
* **Outside the method**: cryptography (a signature that does not verify is a call that changes
  nothing), sockets and framing, the file system and git beyond what the modules state of them.
* **Genesis**: the owner's grant that founds a domain; the models begin after it.
* **Other adapters**: GitLab and Linear stand behind the same seam as GitHub and have
  different read and write calls.
* **Time**: `NewID` waits for the clock to pass the floor; how long is a question about
  the wall clock. Staleness bounds of brackets are a choice the model always allows.
