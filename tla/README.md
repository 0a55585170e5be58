# LLM-Ops-Kit in TLA+

LLM-Ops-Kit runs local model services (model servers, a proxy in front of
them, TTS, agents) on a few hosts. One host is the *authority*: it holds the
configuration tree and decides what should run; the others are reached by ssh.
This directory holds TLA+ modules of the parts in which several processes,
failures or restarts meet, TLC configurations that check them on small
instances, and TLAPS proofs. `PROJECT.json` ties every definition to the lines
it translates. Paths below are relative to the repository.

Contents: 1 the system, 2 the modules, 3 the runs, 4 the proofs, 5 where code and
documents disagree, 6 what is not modelled, 7 the plan.

## 1. The system

### Components, their state and operations

| Component | State | Operations |
|---|---|---|
| Lifecycle executor (`llmops_executor.py`) | `orchestrator.lock` (flock); plan, batches, futures, `started` of an invocation | start, stop, restart of a component or stack; rollback |
| Lifecycle state store (`llmops_lifecycle_state.py`) | `lifecycle.json`: component to desired lifecycle | load, save (temporary, fsync, replace) |
| Drivers and adapters (`llmops_drivers.py`, `llmops_adapters.py`) | processes on hosts | run a command with a timeout, read a status, wait until healthy or stopped |
| Topology (`llmops_topology.py`) | parsed hosts, stacks, components | closures, topological order, validation, host snapshots |
| Release selector (`scripts/install-runtime.sh`) | `releases/`, links `current` and `previous`, two `install.json`, public entry points, `update.lock` (a directory) | install, `--rollback`, `--repair` |
| Retention (`llmops_maintenance.py`) | the same tree | reviewed plan with a digest, revalidation under the lock, removal |
| Local update (`llmops_update.py`, `entrypoint.py`) | the same tree | discover, exchange or install, verify, re-execute the command |
| Coordinated update (`llmops_update.py`) | links of every host | preflight, stage, apply and verify host by host, roll back in reverse |
| Configuration operations (`llmops_config_ops.py`) | the authority's JSON documents (stacks, profiles) and their hash, backups | configure, add, provision, clone, retire and restore a component; create, edit and clone a profile; all through `_transactional_files` |
| Reconciliation (`llmops_config_sync.py`) | revisions on hosts, the links `current-config` and `previous-config` | plan from what hosts report, copy a snapshot, extract, verify and select it |
| Control plane (`llmops_cli.py`, `entrypoint.py`) | the catalog of the selected revision | route a mutation to the authority, forward it, gather the status of all hosts |
| Operation records, worker (`llmops_operations.py`, `llmops_operation_worker.py`) | one JSON record per detached operation | dispatch, run, record the end |
| Text user interface (`llmops_tui.py`) | one exclusive worker, `mutating`, modal screens, a refresh timer, the topology of the last refresh | requests that ask, read, write and dispatch |
| Model proxy tap (`model_proxy_tap.py`) | server, per request the locals of `_proxy` and the log | relay a request, record it, shut down |
| TTS bridge (`tts_bridge_server.py`) | the cached description of the upstream | check, translate and forward a speech request, `/health` |
| Log writer (`log_rotation.py`) | the active file and its numbered ones, a lock | write, rotate |
| Service scripts (`scripts/lib/common.sh`, `modelctl`, ...) | pid files, logs | start, stop, status of a service process |
| Profiles, templates, products, inventory, paths | documents | parsing and construction |
| Initialisation, migration, probes, bootstrap, build, uninstall, canaries | none shared | one-shot writers, inspection |

### How they interact

An operator's command (CLI), a TUI choice (an operation record and a detached
worker that calls the CLI entry point) or a command forwarded by ssh ends in an
`llmops` process on the authority host. Lifecycle commands build a plan from the
topology, take `orchestrator.lock` without blocking and drive components
through the drivers, which run local or ssh commands with timeouts. The result is
written to `lifecycle.json`. Configuration commands rewrite authority documents;
nothing locks them, they compare a hash. A reconcile renders one revision of the
documents per host and makes each host select its own; the catalog in the selected
revision tells a peer which host is the authority, and a mutation typed there is
forwarded. The gateways are services of their own: they share a log writer class and
nothing else. Before any command runs, the entry point
may bring the local release up to date and re-execute itself from it. The selector,
retention and updates share `update.lock`; a coordinated update runs the
installer of each host by ssh and shares nothing with a second one.

### What is hard

* Several processes on one host, excluded by an flock (which the kernel releases),
  by a directory (which nobody releases) or by nothing.
* Commands that outlive the process or the timeout that gave up on them.
* A status that could not be read and looks like "stopped".
* Plans that fail half way, and rollbacks that fail themselves.
* Links, documents and directories changed one after the other, by code that may
  be killed between any two.
* Reviews that are applied later, against a tree that has moved.
* One event loop whose worker any key or timer may cancel, while its thread runs on.
* Streams that either end may break off, and a cache and a log that handler threads
  share.

`PROJECT.json` lists these as 40 hazards at their lines.

### What makes each component correct

* Executor: one invocation executes at a time; dependencies start first and
  consumers stop first; a restart starts nothing before its stops succeeded;
  work in flight is drained before anything is undone; a failed start undoes what
  it started and nothing else; desired state records every stop, and a start only
  when everything succeeded; every invocation ends.
* State store: no update of another invocation is lost.
* Selector: both links always select complete releases; a failed install
  restores them; a successful mutation leaves links, documents and entry point
  in agreement; nobody works without the lock or holds it when its work is over.
* Retention: it removes only what the review named and nobody uses.
* Coordinated update: success means every host is on the target, failure that
  every host is back, unless it says that a rollback failed, or a lost rollback kept
  the remaining ones from being tried.
* Configuration: a guarded edit changes exactly what was reviewed; a failed one
  changes nothing; what is replaced can be recovered.
* Configuration documents: whatever sequence of operations is accepted, they load
  once nobody is at work on them, unless overlapping operations wrote over each other,
  and so does the part of them each host is given; a guarded operation does what was
  reviewed; a retired component is stopped.
* Reconciliation: a host selects only what was extracted and verified, and an
  operator's edit on a host is not replaced unseen.
* Control plane: mutations are carried out under one host's lock; a status does not
  hide a failure.
* Records and console: every dispatched operation reaches a final status; a question
  on the screen has somebody who waits for its answer; the display comes back.
* Proxy: what the log says of a request is what the client was given, and without
  content if so configured. Bridge: what reaches the upstream is within its
  capabilities. Log: a rotation loses no entry it should keep.
* Services: a stop signals the process it is about and no other (not modelled).

## 2. The modules

### Executor: `Topology`, `StackExecutor`, `LifecycleLedger`, `MCStackExecutor`

`Topology` is pure: the graph, the closures, the three groups of a plan, and the
wave of stops `operation_batches` forms next. `Position` stands for
`topological_order`.

`StackExecutor` has one copy per `llmops` process (`Controllers`) of `execute()`
and of its thread pool.

| TLA+ | Code |
|---|---|
| `proc`, `late` | processes on hosts; commands nobody waits for any more |
| `desired`, `mem` | `lifecycle.json`; the map `execute` loaded |
| `lock` | the flock of `operation_lock` |
| `plan`, `todo`, `act`, `task`, `collected`, `recorded` | operations, remaining batches, the futures of the current batch and what the main thread has done about them |
| `started`, `undone`, `broken` | `started`, what the rollback stopped, `stop_failures` or `batch_failure` |
| `Prepare`, `Acquire`, `LockBusy`, `Release` | `prepare_component`, `operation_lock`; the check of dependents precedes the lock as in the code |
| `Turn` | one round of `_execute_batch`: collect completions, admit what is ready, or leave |
| `CheckRunning`, `StartCommandOk`, `StopCommandOk`, `CommandFails`, `CommandTimesOut`, `CommandRaises`, `Healthy`, `Unhealthy`, `VerifyStopped` | the steps of `_execute_operation` in a worker thread |
| `RecordOutcomes`, `Commit`, `SaveRaises`, `NextBatchStarts`, `Fail`, `Undo`, `UndoRaises` | the outcome loop, `save`, the rollback |
| `Kill`, `Interrupt` | the process ends at any point; KeyboardInterrupt waits for the pool and unwinds |
| `BecomesReady`, `Dies`, `LateEffect` | the hosts |

`before`, `misread` and `stopped` are history for the properties. The data of a
command (its argv, ssh options, health URL) is abstracted to its outcome.

`LifecycleLedger` is the contract of desired state: it changes only under the
lock, stops are recorded one at a time while the holder works, and starts all
together as its last act. `StackExecutor` refines it with `phase` mapped to
where the holder stands.

### Selector: `ReleaseSelector`, `SelectorContract`, `MCReleaseSelector`

One installation root and several invocations (`Processes`), each an install (from an
update), rollback, repair or retention. `Acquire` is the `mkdir` of `update.lock`, `Own`
what follows before the lock is safe (the owner file, `chmod`, the traps); `OwnFails` is
a command that fails or a signal that comes in between. `LinkPrevious`, `MarkSwitched`,
`Switch`, `Exchange`, `ExchangePrevious`, `LinkRuntime`, `WriteState` are the mutating
commands of `install-runtime.sh` in the order of the script, so a failing command, a
signal or a kill can fall between any two. `TrapOf` says which trap is in force;
`RemoveStaging`, `RestoreCurrent`, `RestorePrevious`, `Unlock` are `cleanup`, which
clears the traps first, so that `CleanupFails` ends the script at once; `UnlockFails` is
a release that fails. After `OwnFails`, `CleanupFails`, `UnlockFails` or a kill the lock
is left behind: its owner is `Dead`. Shell semantics that matter are modelled: a signal
to the shell is handled after the running command, with that command's status. `Update`,
`Decide`, `Verify`, `Reexecute` are the update and the entry point; `Review`,
`Inventory`, `Remove` are retention. `inode` tells a directory from a later one of the
same name, as the digest does.

`SelectorContract` is what an invocation promises about the two links to whoever
respects `update.lock`: it takes the lock with a task and ends by delivering it, by a
failure, or by leaving the lock behind. A delivery has moved both links as the task says,
a failed install, repair or retention has moved none, a failed rollback may have moved
one link or both. Behind a lock that was left nobody works; an install that left it there
may have moved its links half way. `ReleaseSelector` refines it: `stage` and
`task` follow the lock's owner, and `links` are `found`, those the owner found, until it
lets go of the lock or fails.

### Fleet: `FleetUpdate`, `MCFleetUpdate`

The control host's walk. What a remote command does to the two links of its host is what
`SelectorContract` allows a whole invocation: `Performs` delivers an install or an
exchange, `HalfMoves` is an exchange that fails with one link moved, or both. A command
whose connection is lost stays in `late` and takes effect at any later time, half way
perhaps, or never. A failed host is put back first (`UndoSelf`), then the changed ones
in reverse (`Undo`); a rollback that is refused is noted in `stuck` and the next one
tried, one that is lost raises out of the whole list and leaves the rest in `undo`. The
faults of a remote installer that the contract does not cover, a signal to its shell or
a kill, are left out.

### Configuration: `ConfigTransaction`, `MCConfigTransaction`

Operators plan an edit, read the documents and run `_transactional_files`. `Plan`
is the dry run whose hash may be given back; `Read` the operation proper, which
refuses when what it creates exists; `Check` the comparison; `Prepare` one
temporary and backup, `Replace` one `os.replace`, `Validate` the callback,
`Restore` one round of the except clause. A document is the set of edits it
carries and the hash is the tree. Backups are named by the second, so two
operations in one second share names.

### Desired state: `DesiredState`, `MCDesiredState`

What the operations compute, refuse and write. `tree` holds the stack document and
the profiles; a component keeps the fields that validation and lifecycle commands
look at, `enabled` in its three forms (true, false, left out). `ValidTopology` and
`ValidConnections` are the two validators; `Configure`, `Add`, `Provision`,
`CloneComponent`, `Retire`, `CreateProfile`, `EditProfile` and `CloneProfile` return
the documents each operation writes, and `Refused` and its parts what it raises on.
A command is `BeginAtCommandLine` or `BeginAtConsole` (whose topology was loaded
earlier), `Load` or `Plan`, for a retirement `Stop`, then `Check` (reads the documents and
refuses what exists already), `Compare` (the hash), `Copy` (the backups), `Replace`,
`Validate`, and `Restore` when that fails; other commands run between any two. The
backups of one second share their names, so a `Copy` may overwrite another's. That a step
writes its files one after the other, and may fail or be killed between two, is
`ConfigTransaction`. `crossed`, `late` and `lost` are history: who was written over
while at work, who after it had compared, and whether anything was overwritten unread.
`StartComponent` and
`StopComponent` are lifecycle commands as seen from here. `Snapshot` is
`write_host_snapshot`: what of the documents a host is given.

### Control plane: `ControlPlane`, `MCControlPlane`

`desired` is the version of the documents, `revision` what each host's directory of each
version holds (nothing, files before the manifest, the manifest, everything, an edited
document), `current` the link. A reconcile is `ReadHost` for every host, `Confirm`, then
per host `BeginCopy`, `EndCopy` and the commands of the remote script in order:
`Extract`, `Untar`, `Verify`, `Select`, `Swap` (hosts whose `mv` has no `-h` remove the
link first), `Sync`; `GiveUp` is a time-out whose script goes on, `Drift` an edit on a
host. `Submit`, `Route`, `Relay`, `Lock`, `Finish` are a lifecycle command on its way to
the authority; `Override` one whose command line names the configuration
(`--config-home`, `--inventory`), which is carried out where it is given, as is a
command that finds no catalog or one that names no authority. Each version names an
authority out of `MayName`, which may contain `Nobody`. `Rows` is what `llmops status`
shows of a component, as an operator on the state: it changes nothing. `unrouted`
(commands carried out where they were given because nothing named an authority to them)
and `unseen` are history.

### Console: `OperatorConsole`, `MCOperatorConsole`

The event loop of the TUI and the processes of the operations it dispatches. `Flow`
gives each request as the sequence of its questions, reads, writes, probes and
dispatches; `job` is where the one exclusive worker stands. `Key` starts a request and
cancels the one before it, `Accept` and `Decline` answer a question, `Returned` and
`Probed` are threads that come back, `Timer` the automatic refresh, `Crash` an exception
nobody handles; `auto` is the preference that switches the timer on. `record` and
`process` are an operation's file and its worker: `StartWork`, `EndWork`, `Kill`, and
`Replace` when the entry point updates the runtime and calls `execve`. Time is in ticks
of 5 s: the refresh period has three (15 s), the slowest probe four (the 20 s a host is
given).

### Gateways: `ModelProxy`, `TtsBridge`, `RotatingLog`, `Gateways`, `MCGateways`

`ModelProxy` follows `_proxy` in one handler thread per request: `Accept`, `Begin` (the
entries before forwarding), the answer (`Respond`, `Refuse`, `Unreachable`, `Reset`,
`Fail`), `Relay` of a chunk, `EndOfReply`, `Finish` (the entries after it); every write
to the client and to the log may fail, that of an error answer too (`Raises`), `Leave`
is a client that goes, `Term` and `Kill` are `stop_by_name`. `wire` is what the client
was given, `disk` what the log holds. `TtsBridge` has the handler threads that replace
one cached description of the upstream (`Arrive`, `Fetch`, `Report`, `Age`) and what a
request becomes (`Payloads`, with `Refused` and the style controls of each model
family). `RotatingLog` is one writer: `Acquire`, `Unlink`, `Shift` (one rename of a
numbered file), `Retitle`, `Reopen` (the standard streams too), `WriteEntry`; any of
them may raise (`Fails`), which leaves the rotation half done and its deadline due, and
the process may be killed anywhere and started again (`Killed`). They share no state;
`Gateways` puts them in one specification whose `subject` says which one a behaviour is
of.

## 3. The runs

Sizes are distinct states; each run finishes within five minutes on two workers.

| Run | Instance | Shows |
|---|---|---|
| `executor_graph` | engine with two consumers, 1 controller, start, stop and cascading restart of the stack, failing commands, 2 worker slots | `StartOrder`, `StopOrder`, `RestartBarrier`, `AdmissionNeverStuck`, `DrainBeforeRollback`, `RollbackComplete`, `StopsRecorded`, and `LockReleased` under fairness |
| `executor_contention` | 2 components, 2 controllers, every other fault | `LockOwnsExecution`, `HolderSeesDisk`, `RollbackSparesPreexisting`, `RunningOnlyAfterSuccess`, refinement of `LifecycleLedger` |
| `selector_mutations` | 3 releases (one legacy), 2 processes, all operations, failures, kills, signals (1.6 million) | `SelectionUsable`, `SuccessIsConsistent`, `RemovalWasReviewed`, `LockMatchesWork`, refinement of `SelectorContract` |
| `fleet_walk` | 3 hosts, 1 controller at a time, any number of invocations, every fault, 1 host in doubt (656 thousand) | `SuccessIsUniform`, `FailureRestores`, `LinksStayDistinct`, `InvocationEnds` under fairness |
| `config_changes` | 3 documents, 3 kinds of edit, 2 operators, 2 operations, every fault (555 thousand) | `GuardedChangeIsExact`, `FailedChangeRestores`, `ReplacedIsRecoverable` |
| `control_plane` | 3 hosts (2 trusted), 3 versions of the documents of which the last names another authority or none, 2 commands of any kind, with or without a configuration on the command line, 1 fault (1.6 million) | `SelectedIsDeclared`, `ConflictIsKept`, `MutationsShareLock`, `StatusHidesNoFailure` |
| `operator_console` | 3 requests of any of 13 kinds, 3 operations, 1 fault (223 thousand) | `DialogHasOwner`, and under fairness `OperationsSettle`, `StatusReturns` |
| `desired_state` | a proxy in front of a model and a third name, 2 hosts, 3 profiles, a command line and a console with 3 commands of 14 requests, step by step (1.2 million) | `TreeStaysValid`, `SnapshotLoads`, `PlanStillHolds`, `RetiredWasStopped` |
| `gateways` | 2 requests of at most 2 chunks in both logging modes; 2 speech requests and a watcher over 2 models; 2 threads, 5 entries, 5 rotations that may fail or be killed, up to 2 numbered files (3.0 million) | `ReplyAsReported`, `MetadataKeepsNoContent`, `SpeechIsAdmissible`, `RecentEntriesKept` |
| `plain_stop_race`, `config_atomicity`, `reconcile_verification` | the least instance with the one hazard | a counterexample each, section 5 |

The type invariants are not among the invariants of the runs: `TypeOK` is proved for
`StackExecutor`, `ConfigTransaction`, `ControlPlane` and `FleetUpdate` (section 4), and
for `ReleaseSelector` up to the bound `MaxInode`; elsewhere it says which values a
variable takes.

### Bounds

* Two consumers of one service are the least graph in which admission, the
  failure of one start while another is in flight, and waves of stops differ.
  Three components at two worker slots make operations queue. The proofs cover
  every finite graph and every number of slots.
* Two controllers, two processes, two operators, two commands: every hazard listed is
  a race between two. A lock that admits one of two admits one of many by the same
  steps.
* `MaxInode` 2 lets a release be removed and installed again once, which is what
  the digest has to notice; `MaxInUse` 1 allows one running release.
* Fleet: of three hosts two can have been changed when the third fails, so that one
  rollback is lost while another was never tried. Releases are the target and one other.
  `MaxDoubt` 1: commands are lost or fail half way on one host at a time; two hosts in
  doubt are left to the proofs, which cover any number of hosts and releases.
* Configuration: `MaxOperations` 2 and `MaxSecond` 1: two overlapping or successive
  operations, in one second or in two.
* Control plane: a component host, an authority and the peer it hands over to, one
  whose `mv` replaces a link in one step and two where it does not; the first version
  lacks a component, the third names another authority or none. `MaxHops` 2 is one more
  forwarding than an authority that stays needs. One fault: the two commands can
  overlap it anywhere. The proofs cover any number of each.
* Console: `Period` 3 and `ProbeTime` 4 are the defaults, 15 s and 20 s. `MaxKeys` 3
  lets a request interrupt another that interrupted a third; `Operations` 3 as many as
  requests, so that none fails for the bound.
* Desired state: a provider, a consumer, and a third name for what is added or
  cloned; ports 1 and 2, so that they collide; 3 commands, the last of which can
  overlap the second after a first has prepared the documents. The 14 requests have each
  kind of operation, the conflicting names and ports among them. The proofs cover any
  documents, requests and number of commands.
* Gateways: `MaxChunks` 2 has a chunk before and a chunk at each failure;
  `MaxEntries` 5 and `MaxRotations` 5 with `Keeps` up to 2 rotate entries out of the last
  file, also by rotations that come to nothing. The proofs cover any of these.

Where the bounded operations are used up a behaviour ends, so the runs other than
those of the executor, the selector and the fleet do not check for deadlock; no
operation of theirs waits for another without a time-out, and what has to end is a
liveness property of its own.

### Fairness

* `executor_graph`: weak fairness of each controller's main thread and of each
  worker. Every command, probe and wait in the code has a timeout and the lock
  is taken without blocking, so a process that is not killed goes on. Nothing is
  assumed of hosts: a component need never become ready.
* `fleet_walk`: weak fairness of a controller's steps; every ssh command has
  `--host-timeout`. Nothing is assumed of a lost command.
* `operator_console`: weak fairness of the clock, of the timer, of threads that
  answer (each has a time-out) and of a worker process that is not killed. An
  operator need not answer or press anything.

### Reading the conditional properties

`RollbackSparesPreexisting` excludes components whose status was misread.
`FailureRestores` excludes hosts whose rollback reported a failure or where a command
was lost or failed half way. A host whose rollback was not tried because the rollback of a
later one was lost (`llmops_update.py:559`) is not excluded: the property says that it
then has the release it came from as `previous`, one exchange away. Section 5 says what
both cost. The configuration properties speak of operations that nobody overlaps. With
overlap the code loses updates: two operations that pass their comparison before
either replaces a document overwrite each other, because the hash is compared and the
files written without a lock. `ReplacedIsRecoverable` covers the unguarded lost
update: what was written between an operation's read and its comparison is
overwritten, but is in its backup. `GuardedChangeIsExact` asks also that the operation
read what had been reviewed: without that the hash can be fooled by a tree that
changes and changes back (an edit undone and made again between review, read and
comparison).

`PlanStillHolds` speaks of commands that were given the hash of the documents their
topology was built from (`expected[c] = {seen[c]}`), the command line's and the
console's, up to their first replacement, and excepts those (`late`) after whose
comparison another command wrote. What was checked then still holds although the checks
were made before the stop, the second reading, the comparison and the copies.
`TreeStaysValid` speaks of the documents while no command is between its replacement and
its validation; it excepts what follows once an operation wrote over a write it had not
read, or restored copies that another had overwritten in the same second (`lost`).
An operation that only overlaps another's refused and restored write is not excepted.
`SnapshotLoads` asks all of `validate_topology` of a trusted host's snapshot, or of every
host's when no authority is named; of an untrusted host's it asks the same but for the
authority, which such a host's inventory cannot contain.

`ConflictIsKept` excepts a reconcile that had read the host before the edit, which
cannot have seen it, and one that had read it before another reconcile selected an
older, edited revision again; the second case was found by the proof. An edit that
comes after the reading is overwritten: `apply_snapshot` does not look again.
`MutationsShareLock` excepts a handover from one named authority to another, during
which both may carry out mutations, and the commands in `unrouted`: those whose command
line named the configuration, and those that found no catalog (the link was being moved on
a host without an atomic `mv`) or one without an authority. Every other one, from
whichever host and of whichever version, has come to one lock.
`StatusHidesNoFailure` speaks of hosts that hold the observer's version.
`RetiredWasStopped` excepts a component started after the retirement looked:
nothing holds the lock from there to the write. `OperationsSettle` excepts exactly
the operation whose process never started, was killed or replaced itself.
`StatusReturns` has as its premise that from some time on the automatic refresh is on and
probes answer before the next refresh is due. The code ensures neither (section 5), and
the instance, with the default times, has behaviours where probes do not; the property is
that nothing which happened before, no cancelled worker, crashed request or abandoned
mutation, keeps the table from being drawn again once they do.

## 4. The proofs

Theorems are for every value of the constants that satisfies the named assumption of
the module: any finite acyclic graph, any number of controllers, commands, hosts,
versions, requests, chunks, threads and files, any set of faults. Bounds such as
`MaxFaults` are arbitrary numbers there.

| Theorem | Module | Says |
|---|---|---|
| `TypeCorrect`, `Mutex`, `BatchesFollowPlan` | `StackExecutor_proofs` | `TypeOK`, `LockOwnsExecution`, and the shape of batches |
| `NoLostUpdate`, `ExecutorImplementsLedger` | same | `HolderSeesDisk`; every step is a ledger step or a stutter |
| `DependenciesFirst`, `BatchesComplete`, `DrainedFirst` | same | `StartOrder`, `AdmissionNeverStuck`, `DrainBeforeRollback` |
| `RollbackSpares`, `StopPhaseFirst`, `ConsumersStopFirst`, `RollbackExact`, `RunningIsCommitted`, `StopsAreRecorded` | same | `RollbackSparesPreexisting`, `RestartBarrier`, `StopOrder`, `RollbackComplete`, `RunningOnlyAfterSuccess`, `StopsRecorded` |
| `LockIsKept`, `SelectionStaysUsable`, `SuccessesAreConsistent`, `RemovalsWereReviewed` | `ReleaseSelector_proofs` | `LockMatchesWork`, `SelectionUsable`, `SuccessIsConsistent`, `RemovalWasReviewed`, unless the shell of an install is signalled |
| `ImplementsSelectorContract`, `FailureRestores` | same | every step is one of `SelectorContract` or a stutter, under the same hypothesis; the part of it about failed installs in the terms of the code, `FailedInstallRestores` |
| `TypeCorrect`, `ReplacementIsRecoverable`, `FailureRestores`, `GuardIsExact` | `ConfigTransaction_proofs` | `TypeOK`, `ReplacedIsRecoverable`, `FailedChangeRestores`, `GuardedChangeIsExact` |
| `QuestionsAreAnswered`, `RefreshIsReleased` | `ConsoleProofs` | `DialogHasOwner`; while `mutating` holds off the timer its worker is there to clear it |
| `RecordsAreTrue`, `EndsAreKept` | same | a record is final exactly when its worker has ended; a final record stays |
| `ControlTypes`, `RevisionsAreDeclared`, `EditsAreKept`, `OneLock`, `FailuresShow` | `ControlPlane_proofs` | `TypeOK`, `SelectedIsDeclared`, `ConflictIsKept`, `MutationsShareLock`, `StatusHidesNoFailure` |
| `DocumentsLoad`, `SnapshotsLoad`, `PlansHold`, `RetirementStops` | `DesiredState_proofs` | `TreeStaysValid`, `SnapshotLoads`, `PlanStillHolds`, `RetiredWasStopped` |
| `RepliesAreReported`, `NoContentIsKept`, `SpeechFits`, `EntriesOutliveRotations` | `GatewayProofs` | `ReplyAsReported`, `MetadataKeepsNoContent`, `SpeechIsAdmissible`, `RecentEntriesKept` |
| `TypeCorrect`, `LinksSelectDistinct`, `HostsAreSelectors` | `FleetUpdateProofs` | `TypeOK`; `LinksStayDistinct`; the links of a host move only as `SelectorContract` lets them |
| `AllUpdated`, `OrRolledBack` | same | with one controller, `SuccessIsUniform` and `FailureRestores` |

So every safety property and every action property that a passing run checks is
proved.

### The executor

From `TopologyAssumption` (finite, acyclic through `Position`) and
`ExecutorAssumption` (at least one slot, requests well formed). The inductive
invariant is built in layers, because none of the properties is inductive alone:

1. `MutexInv`: a controller executes and holds the lock, or is quiet: it has
   forgotten its previous invocation. `LockOwnsExecution` is not inductive
   without the second half. It lets every later argument look at one controller.
2. `ShapeInv`: the current batch and what is left to batch come from the plan,
   each from the group of its action; nothing is left of the stops once restarts
   or starts are running. Without it nothing relates a task's state to the plan.
3. `StoreInv`: the loaded map and the file differ at planned starts only. It needs
   mutual exclusion (nobody else writes) and the shape (what is planned).
4. `AdmissionInv`: what has left `pending` in a start batch had its planned
   dependencies collected as successes; what is collected is finished. That the
   cycle error is unreachable is a well-foundedness argument: of the pending
   operations the one with the least `Position` is ready.
5. `SparesInv`: `started` never meets `before` beyond `misread`.
6. `OutcomeInv` with `Noted`: where each outcome stands between the future, the
   loop over outcomes, the file and the rollback.

### The selector

From `SelectorAssumption`. `TypeInv` is `TypeOK` with any number for an inode: that
`Update` keeps inodes within `MaxInode` is a bound of the model, not of the code.
`HolderInv` (who has the lock is at work behind it), `ExclusionInv` (nobody else is) and
`CourseInv` (which operation an invocation performs where it is) give `LockIsKept`, with a
lock that may be left behind at any of the steps above. The theorems have
`InstallsUndisturbed` as a hypothesis: `signalInstall` is not among the faults, as in
the run. With it they are false (section 5), and `ExclusionInv` is where they fail: a
signalled install runs `cleanup` a second time when it no longer has the lock.

`SelectorInv` follows the one invocation behind the lock, relative to `found`, the
links when it took it: `SelectionInv` says that the links select what they selected
then or the release being installed, `InstallInv` where an install and its cleanup
stand, `ExchangeInv` the other operations and the common tail, `RetentionInv` that
what is still to be removed was reviewed and is not selected. `RestInv` hands complete
releases from one invocation to the next. Everybody else is outside the lock and
touches none of this (`OutsideLock`, `OthersUntouched`).

The refinement of `SelectorContract` needs one more part, `PassInv`: at each point of an
operation the links are as found, or as far from it as its script has come
(`InstallPasses`, `RollbackPasses`; a repair or retention has moved nothing). A step of
the owner then ends its task (`Deliver`), comes to the end of its trap after a failure
(`Fail`), gives the lock back there (`Leave`), leaves it behind (`LeaveLock`), or is a
stutter; whoever is outside the lock changes neither it nor the links.

### The configuration transaction

From `ConfigAssumption`. `TransactionInv` has, besides types, one part per loop of
`_transactional_files` (`PrepareInv`, `ReplaceInv`, `RestoreInv`, and `DeadInv` for an
operation killed in one): documents the loop has passed are new, the others as read,
and a backup holds what was read wherever one was written. `AloneInv` is what makes
this stable: an operation that is not `overlap`ped is the only one between its read
and its end, so no other step writes a document or a backup of its second.

### The console

From `ConsoleAssumption`. `ConsoleInv`: the worker stands at a step of its request, a
dialog is open exactly when that step asks, and `mutating` is set exactly when its
request is a mutation. None of the three is inductive alone, since what a cancelled
worker leaves behind depends on the other two. `RecordInv` ties what a record may say
to what became of its worker (`Says`): a worker that was killed, replaced or never
started never leaves a final record, so a record that is not final for long is a lost
operation and not a slow writer.

### The control plane

From `ControlAssumption`. `PlacedInv` is the type invariant with the fact that a
reconcile past its reading stands at a host of the list. On it rest: `DeclaredInv`:
besides the selected revision, the one a script is about to select has its manifest, and
no step takes a manifest away (`ManifestStays`). `ConflictInv`: whoever plans to apply
to a host that holds an edit is in `unseen`, that is, had read it before. `RoutedInv`:
what is selected or planned is no newer than the documents, and a command at a lock is
on a host some version names as the authority, or is in `unrouted`. `FailuresShow` is a
case analysis of `Rows` over reachable states.

### The desired state

From `DesiredAssumption` and `FirstTreeLoads` (the documents one starts with load).
`ShapeInv` says that every operation leaves documents of the declared shape and what each
command asks for; `ReadInv` adds what a command at each of its steps knows of the
documents it read, copied and wrote, as far as nobody wrote since. On it rests `ValidInv`:
documents that do not load have somebody who is still going to validate or restore them
(`SomePending`), and whoever is, has a copy that loads, unless another one is pending
before it. That is more than `TreeStaysValid`, which is not inductive: between a
replacement and its validation the documents need not load. The operations that do not
validate only add a profile under a name that was free when they read. `SnapshotsLoad`
needs no history: a part of a valid tree is ordered, its profiles and ports fit, and the
authority is in the inventory of a trusted host. `PlanInv`: who has compared, with nobody
writing since, still has the documents it planned on; with `ReadInv` (the refusals were
evaluated on that topology) this gives `PlansHold`. `StoppedInv` adds the retirement
between its stop and its write.

### The gateways

From `ProxyAssumption`, `BridgeAssumption` and `LogAssumption`. `ReplyInv`: for every
request, what the locals of `_proxy` say is what the client was given (`Relaying`), at
the end the two agree up to a recorded error (`Settled`), and the log says no more
(`Logged`). `ContentInv`: all entries of a metadata log are `Silent`. `BridgeInv`: a
cached description, and the one a thread has taken from it, is of the model it says
(`Told`). `LogInv`: an entry is found by its age, the rotations begun since it was
written: each moves it one file on at most, and the one in progress has not moved it
while its file's number is below the index it renames next (`InPlace`). Rotations that
failed or were killed count, since the one that follows begins again and moves entries
once more.

### The fleet

From `FleetAssumption`; `LinksInv`, for any number of controllers, adds that a host
without a current release has no previous one. `HostsAreSelectors` rests on it: a host
moves its links as an install or a rollback of `SelectorContract` delivers them, and as a
rollback that failed leaves them only if the host is in `doubt`. This, with
`ImplementsSelectorContract`, is why one step per remote command is enough here.
`AllUpdated` and `OrRolledBack` assume `OneController`,
as the run does: no lock spans the fleet, and two controllers do spoil each other's
result (section 5). `WalkInv` says where the walk stands: a changed host has its
origin in `previous`, an unchanged one in `current` (`Traced`); the lists are disjoint
and belong to the point of the program (`Listed`); preflight compared what is there
now (`Compared`); and the outcome (`Concluded`). `LateInDoubt` gives up the hosts
where a command may still take effect.

### Only model-checked

`LockReleased`, `InvocationEnds`, `OperationsSettle` and `StatusReturns`: liveness under
fairness is outside the prover's reach. The three violations of section 5 are
counterexamples, and need no proof.

## 5. Where code and documents disagree

Three runs show a violation:

1. `plain_stop_race`: an unforced stop reads the dependents before it takes the
   lock (`llmops_executor.py:247`); a start in between is not seen.
2. `config_atomicity`: if a temporary or a backup cannot be written, existing
   documents that have no backup yet are deleted (`llmops_config_ops.py:417`).
3. `reconcile_verification`: a second reconcile takes a revision directory that
   another one is still extracting, or left half extracted, for the whole
   (`llmops_config_sync.py:197` compares the hash the manifest declares) and selects it;
   every later plan reports a conflict.

The following are stated as definitions in their modules and do not hold either; TLC
finds a behaviour in an instance of the module's run with the hazard in it. They are
not runs of their own.

* `VerifiedStopIsDown` (`StackExecutor`): a status command that times out reads as
  stopped (`llmops_drivers.py:680`), so a stop is verified that did not happen, though
  the docstring at :688 says "Verify that a completed stop action left the component
  stopped."
* `RollbackOnlyNewlyStarted` (`StackExecutor`): with a host unreachable for one status
  check, a running component is taken for newly started and stopped by a rollback
  (`llmops_executor.py:408`; ARCHITECTURE.md:33 "rolls back only newly started
  components in reverse plan order").
* `InstallIsAtomic` (`ReleaseSelector`): a signal to the shell of an install that has
  switched `current` removes the new release, restores nothing and exits 0
  (`install-runtime.sh:249`; llm-ops-kit-engineering-evidence.md:119, :167).
* `LockNotOrphaned` (`ReleaseSelector`): not only SIGKILL leaves `update.lock` behind, as
  test_install_runtime.py:321 has it for an interrupted repair. So do a failing write of
  the owner file or `chmod` (`install-runtime.sh:61`, `llmops_maintenance.py:446`, whose
  `finally` then reads an owner that is not its own), a signal between `mkdir` and the
  traps (:57, :190), a command of `cleanup` that fails after it has cleared the traps
  (:249) and a release that fails. Every later mutation is refused until an operator
  removes the directory.
* `ReexecutesTarget` (`ReleaseSelector`): two automatic updates that both choose the
  exchange undo each other; one re-executes from the wrong release
  (`llmops_update.py:571`; UPGRADE_AND_ROLLBACK.md:31).
* `AllOrRollback` (`FleetUpdate`): a rollback whose command is lost raises out of the list
  of rollbacks (`llmops_update.py:559`), so the hosts changed before that one are not
  rolled back and no rollback is reported (UPGRADE_AND_ROLLBACK.md:25 "hosts changed by
  the invocation are rolled back and the mixed-version condition is reported";
  llm-ops-kit-engineering-evidence.md:120).
* `RollbackScope` (`FleetUpdate`): a host another controller updated counts as updated
  by this one and is rolled back by it (`llmops_update.py:557`;
  llm-ops-kit-engineering-evidence.md:157).
* `MutationsNeverOverlap` (`ControlPlane`): while the documents name one authority,
  lifecycle commands can still be at work on two hosts under two locks: one whose command
  line names the configuration is carried out where it is given (`llmops_cli.py:1662`),
  and so is one that finds no catalog (:1669).
* `StatusAlwaysReturns` (`OperatorConsole`): the refresh period (15 s) is shorter than the
  time a host has to answer (20 s, `llmops_tui.py:1778`), so while one host is slow each
  automatic refresh may cancel the probe before it and the table is not drawn again
  (TUI.md:59 "Automatic refresh defaults to 15 seconds"). The log view follows every 2 s
  in the same way.
* `RefreshPausesForMutations` (`OperatorConsole`): `mutating` is set by lifecycle
  requests only, so the refresh timer cancels the worker that carries out a confirmed
  retirement or import while its thread writes (`llmops_tui.py:1718`; TUI.md:59).
* `TreeIsValid` (`DesiredState`): a `profile create` or `profile clone` validates
  nothing and its only guard is that the profile does not exist
  (`llmops_config_ops.py:838`), so one that overlaps a `provision` of the same name
  writes its profile over the provisioned one, which need not fit the component that
  names it; and two operations of one second share their backups.
* `GuardedPlanHolds` (`DesiredState`): nothing excludes a write between the comparison of
  the hash (`llmops_config_ops.py:391`) and the first replacement (:409).
* `SnapshotValidates` (`DesiredState`): an untrusted host is given `config.json` unchanged
  (`llmops_topology.py:660`) and an inventory of itself only (:736), so its snapshot
  fails `validate_topology` with "control.authority_host is not in inventory" (:491) as soon
  as an authority is named, which initialisation does (`llmops_init.py:244`) and
  OPERATOR_CHECKLIST.md:14 asks for.
* `ConsolePlanHolds` (`DesiredState`): the console plans with the topology of its last
  refresh (`llmops_tui.py:2216`, also 1990, 2178, 2251) but takes the hash of the
  documents as they are now, so a component that got a dependent since is retired
  (ARCHITECTURE.md:90 "Stale hashes are refused and independent edits are never
  merged").
* `DisconnectIsTheClients` (`ModelProxy`): a connection the upstream reset is recorded
  as the client's disconnection (`model_proxy_tap.py:948`, against the comment below
  it).

Seen while modelling and not stated as a property:

* Executor and drivers: the directory of `lifecycle.json` is not synced after the
  replacement. A start command that timed out may still come up, after a stop too. A
  start whose topology was loaded before a retirement may start the retired component.
* Update: an archive whose `shasum -c` fails is not refused by the remote bootstrap
  branch of `_remote_apply`, which runs without `set -e`. An automatic update inside a
  worker process replaces it by `execve` (`entrypoint.py:154`), which leaves the record
  running; a worker that cannot be spawned leaves it queued (`llmops_operations.py:100`).
* Console: a lifecycle key pressed while `run_mutation`
  prepares cancels it, and its `finally` cancels the new request too. A component that
  is in the reloaded topology but not in the last status raises KeyError in
  `_render_status` (`llmops_tui.py:1834`).
* Documents: `component.enabled=true` on a retired component is accepted and its port is
  not checked (`llmops_topology.py:521`), while the executor does not look at `retired`:
  two components can be started on one port. `--unset component.retired` brings a
  component back without the checks of a restore; a restore does not look at what the
  component depends on; unsetting a connection leaves `depends_on`; a form writes
  `enabled: false` for an omitted `enabled` with any edit; per-component time-outs are
  not written into a host's snapshot; `configure --restart-affected` restarts in
  alphabetical order (`llmops_cli.py:1236`).
* Proxy: a failure in mid-stream writes a second status line into the body; a reply
  shorter than its Content-Length is logged as complete; TERM waits for the thread it
  runs in (`model_proxy_tap.py:1239`), so `stop_by_name` always kills; `_writer_for`
  (:794) may create two writers for one file.
* Bridge: an alias or default `reference_id` with `--ref-audio` sends both references;
  `/health` may report another model's metadata; a failed lookup is kept for 30 s; a
  request that names no model may be checked against one no longer loaded.
* Log: a rotation that fails leaves its deadline due (`log_rotation.py:81` is not
  reached), so each write tries again and pushes the entries of the numbered files one
  file further; after `keep` failures the oldest of them are unlinked without any time
  having passed.
* Services: a pid file may name another process by the time it is signalled
  (`common.sh:485`).

## 6. What is not modelled

* Initialisation and migration, probes and GGUF metadata, bootstrap, build and
  uninstall, canaries: one-shot writers, inspection, developer tools. The uninstaller
  takes no lock and removes the tree under whatever runs.
* Of the modelled parts: building each driver's command line and the protocols of
  health probes; adoption of an existing configuration by the first managed install
  (`install-runtime.sh:302-314`) and the `mv` fallback of `replace_link` in
  `ReleaseSelector` (`ControlPlane` has it for `current-config`); discovery and download
  of archives; bounds and time-outs of the retention scan; `migrate-schema` and the
  import of templates; health checks, time-outs and secrets in documents; parsing of
  arguments and all presentation; the log viewer; in the proxy the rendering of prompts
  and decoding of streams (their outcome is a choice), in the bridge text normalisation
  and audio formats. Pid files that name another process.
* In `FleetUpdate` bootstrap of a host without an installation is an install.
  `DesiredState` has one stack and one endpoint; its copies, its replacements and its
  restoring are one step each: that they are made file by file, and failures and kills
  among them, are in `ConfigTransaction` only; both together are out of TLC's reach.
* Fsync and the page cache: a replaced file is replaced.

## 7. The plan

Done: executor with its ledger, selector with its contract, retention and automatic
update, fleet, configuration transaction, desired state, control plane, console with its
operations, gateways; proofs of every safety and action property of the runs.

Open, by what they would add:

1. `ConfigLedger` (a sequence of whole trees), implemented by `ConfigTransaction` when
   operations do not overlap and used by `DesiredState`.
2. `ServiceProcess`: pid files and `stop_by_name`, reuse of a pid, and the driver's
   view of them, which would give `StackExecutor`'s `proc` a refinement.
3. `FleetUpdate` with two controllers: what remains true of `FailureRestores` when the
   walks overlap.
