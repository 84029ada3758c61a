# Verification of mihomoctl

`mihomoctl` manages the Mihomo proxy core on a UFI device (Android) or on
Linux with systemd.  There is no daemon: every command is a short-lived
process, long work is done by a detached worker process per task, and all of
them share one SQLite store and a few lock files.  This directory holds TLA+
models of the parts of that system where order, interleaving and failure
matter, the TLC runs that check them, and TLAPS proofs about them.

    tlc -config MCTaskLifecycle.cfg MCTaskLifecycle.tla
    tlapm TaskLifecycleProofs.tla

## 1. The system: inventory

| Part | Source | State it keeps | Operations | Interacts with |
|---|---|---|---|---|
| Task system | `internal/manager/jobs.go`, `task_control.go`, `storage.go` | `tasks` rows (state, cancellable, cancel_requested, sealed request), `control.lock`, worker processes | `Submit`, `Job`, `Cancel`, `Worker`, `watchCancellation` | store; every other part runs inside a worker |
| Store | `internal/storage` | SQLite tables; a shared lock on `state.lock` per open store | one statement or one transaction per call | uninstall takes `state.lock` exclusively |
| Configuration transaction | `operations.go` (`applyConfig`, `execute`), `config.go`, `cleanup.go` | `configurations` and `pending` rows, generation directories, link `runtime/current` | apply, recover, prune, start, stop, restart | platform adapter starts and stops the core |
| Uninstall | `uninstall.go`, `storage.Exclusive` | everything under the root | stop, close, lock out readers, delete in order | pollers that keep opening the store |
| UFI adapter and supervisor | `internal/platform/ufi.go`, `internal/host` | supervisor and core processes, `supervisor.json`, `core.json`, `supervisor.lock` | `Start`, `Stop`, `Supervise`, `Inspect` | network rules; started from a worker |
| UFI network rules | `network_ufi.sh`, `ufi_firewall.go` | chains in two slots, policy rules, `network.owned/active/pending` | prepare, sync, ready, stop | supervisor loop, `Start`, `Stop` |
| systemd adapter | `systemd.go`, `systemd_managed.go`, `unit.go` | unit file, links, unit state | start and stop with cleanup, attach a task scope, prepare, remove | systemd over D-Bus |
| Dashboard | `dashboard.go` | `dashboards` rows and directories, link `runtime/dashboard` | download, switch, restore | `applyConfig` |
| Core and self update | `operations.go`, `updates.go`, `releases.go`, `core_version.go` | core binary, own binary, cached versions | download, verify, replace | commit boundary of the task system |
| Downloads | `internal/download`, `transfer.go`, `http.go` | files under `tasks/<id>/work` | fetch, verify | progress reports into the task row |
| Settings, secrets | `settings.go`, `controller.go`, `crypto.go`, `request.go` | `settings`, `controller`, `identity` rows | validate, encrypt | `applyConfig` |
| Status, logs | `status.go`, `internal/redact` | none | read | all tables |
| Command line | `internal/cli` | none | submit and poll (`awaitTask`) | task system |
| Bootstrap script | `ui/src/transport/ufi-bootstrap.sh` | state files per job, a lock directory | submit, status, cancel | plugin |
| Plugin gateway | `ui/src/use-gateway.ts`, `gateway.ts`, `state.ts` | operation queue, current task, drafts | perform, poll, autosave, cancel | UFI transport |
| Plugin transport | `ui/src/transport/ufi.ts`, `internal/transport/ufi` | uploads | submit with recovery of a lost answer | command line |

What is hard about it, and what makes each part correct:

* **Task system.**  Clients and workers are separate processes that die at
  any time; ownership of a task is a `flock` that passes from client to worker
  by descriptor inheritance.  Correct when tasks are serial, a live worker
  never loses its row, a cancel that was acknowledged excludes the change,
  an outcome is final, and every accepted task gets one.
* **Configuration transaction.**  Six effects on three media (rows, a link, a
  process), any of which fails or is cut off.  Correct when an update is all or
  nothing, the core runs only what the link names, and nothing needed for a
  rollback is pruned.
* **Uninstall.**  Deletes the lock files and the store it depends on, while
  pollers open them.  Correct when no reader sees half a store, a failure is
  recorded, and success leaves nothing.
* **Supervisor and network rules.**  Two processes and a shell script change
  the same firewall state; each may be killed.  Correct when traffic is only
  captured for a ready core, stop leaves no rule, and a switch of slots never
  leaves both or neither in force.
* **systemd adapter.**  Files, jobs and systemd's memory change apart from each
  other, and a request that times out may still take effect.  Correct when a
  failed start leaves no job, and a removal takes the file last and everything.
* **Dashboard.**  A link, a row, a directory and a configuration that succeed or
  are undone together.  Correct when neither the link nor the configuration ever
  points to what is not there.
* **Bootstrap script, plugin.**  Polling, lost answers and stale responses.

## 2. The modules

| Module | What it is |
|---|---|
| `TaskLedger` | abstract: what the task system promises to clients |
| `TaskLifecycle` | the task system, step by step |
| `MCTaskLifecycle` | its instances for TLC |
| `TaskLifecycleProofs` | theorems about it, for any constants |
| `RuntimePromise` | abstract: how the proxy core comes and goes between the calls of an adapter |
| `RuntimeCalls` | abstract: what the calls of an adapter promise, over `RuntimePromise` |
| `RuntimeCallsProofs` | theorems about it: a whole stop is one step for its caller |
| `ConfigTransaction` | the configuration transaction, step by step, built on `RuntimePromise` |
| `MCConfigTransaction` | its instances for TLC |
| `ConfigTransactionProofs` | theorems about it |
| `Uninstall` | removal of an installation under its readers, and the next installation |
| `MCUninstall` | its instances for TLC |
| `UninstallProofs` | theorems about it |
| `NetworkRules` | the network script of the UFI platform, command by command |
| `NetworkPromise` | abstract: what the script promises to the process that runs it |
| `MCNetworkRules` | instances of `NetworkRules` for TLC |
| `NetworkRulesProofs` | theorems about it, and that it implements `NetworkPromise` |
| `Supervisor` | the UFI runtime: `Start`, `Stop`, the supervisor, the core and their records, built on `NetworkPromise`; implements `RuntimeCalls` |
| `MCSupervisor`, `SupervisorProofs` | its instance for TLC, theorems about it |
| `SystemdUnit` | the systemd adapter with systemd next to it; implements `RuntimeCalls` |
| `MCSystemdUnit`, `SystemdUnitProofs` | its instance for TLC, theorems about it |
| `Dashboard` | the installation of the dashboard with the tasks that write its flag |
| `MCDashboard`, `DashboardProofs` | its instance for TLC, theorems about it |

### TaskLifecycle

One action per step between two points where another process can act: a
statement on the store, a lock operation, a process start or end.

* `state`, `cancellable`, `cancelRequested`, `request` are columns of the
  `tasks` row.  The statements of `queries.sql` are the operators
  `UpdateTask`, `CreateTask`, `CanCancel`, `CanCommit`.
* `lock` is the *set of processes* that share the locked `control.lock`
  descriptor.  A `flock` belongs to the open file description: `Spawn` adds
  the worker, `Return` and a crash take the client out, and the lock is free
  when nobody is left.
* `client`, `target`, `purpose` are the control points of `accept()`, `Job()`
  and `Cancel()`; `worker`, `released`, `aborted`, `verdict` those of `Worker()`
  with its start gate, its context and its `runErr`.
* `applied` records that a task has changed the device.
* `ClientCrash` and `Exit` end a process at any control point.
* `Fault` is a store statement that fails, at most `MaxFaults` times.

Every value of a task that no guard looks at (phase, progress, result) is left
out.  The action a task performs is reduced to: it returns early, or it passes
`commitTask` when it is cancellable and then changes the device.  A successful
uninstall, which ends without a last write, is not a task of this module.

Refinement: `Status` reads a row the way a client may (open, cancelling,
committed, or an outcome), and `ImplementsLedger` says that with it the module
implements `TaskLedger`.

### ConfigTransaction

One worker, because `control.lock` serialises tasks (theorem
`LockSerialisesTasks`).  `rows` and `pending` are the tables, `files` the
complete generation directories, `active` the link, `core` the generation the
running core has loaded (`NoConfig` when it does not run).  `Begin` is the head
of `execute()`; `Recover` to `Resume` are `recoverConfiguration` and the start
after it, both at the head of a task and as the rollback of `applyConfig`
(`unwinding`); `Write` to `Clear` are `applyConfig`; `Prune` is
`pruneTaskFiles`.  Every step has a failing disjunct where the code has an error
return.  `Crash` ends the worker anywhere, `Reboot` also stops the core and lets
systemd start an enabled unit from the link.  Asking for the runtime state may
fail at any time, which `running()` takes for running (`Inspected`).

The runtime is `RuntimePromise`, with `core # NoConfig` for its `live`; `kept`
says that a supervisor, an active unit or a queued start would bring a core up.
`Stopped` and `StopFailed` are the outcomes of a stop, `Started` and
`StartFailed` those of a start, and `RuntimeDrifts` is the runtime between the
calls: the core dies, or comes up again *and then reads what the link names by
now* (`Loads`), or what keeps it goes.  `core` does not see the core that
`Supervisor` calls lost.

`halted` is the only variable that is not in the code: the last thing the user
asked for, and got, was a stop.

### RuntimePromise and RuntimeCalls

`Manager` knows the two platforms through one interface.  `RuntimePromise` is
what it relies on between two calls: by itself a core comes up only where
something keeps it, and nothing begins to keep it (`Drift`).  `RuntimeCalls` adds
the calls, one at a time because a worker holds `control.lock`: while a start
(or a call that changes the unit's files) is at work something may begin to keep
a core, while a stop is at work or nobody calls it may not; and a call that ends
with everything stopped leaves nothing.  `Supervisor` and `SystemdUnit` are shown
to implement `RuntimeCalls` (`ImplementsAdapter`), each with its own reading of
`live`, `kept` and the call (`Live`, `Kept`, `Call`): on UFI what keeps a core is
a supervisor process that has not ended and has not been sent SIGKILL; with
systemd it is an active unit or a start job of a unit that can be loaded.  A
start may bring up anything, so the promise says nothing of what a successful
start leaves: that is `AnswersAreOwn`, and what `Started` of `ConfigTransaction`
takes from it.

### Uninstall

`install` numbers the installations that follow one another in one root
directory, so that a lock on a deleted file can be told from a lock on the one
that replaced it.  `files` are the things `uninstall()` removes, in the order
`Removal`; `row` is the task row of the removal.  A client opens `state.lock`
(`OpenLock`), locks it shared (`Pin`), opens the database (`OpenStore`), and
closes or dies; with the store open it may submit the removal, poll it, or
install over what an interrupted removal left (`InstallOver`).  `FindEmpty` and
`NewInstall` are the two moments of a first installation.  The worker goes from
`StopPlatform` through `CloseOwn` and `TakeExclusive` (or `GiveUp`, its time
limit) to `Remove` and `RemoveRoot`; `Fails` lets every step fail, and it may be
killed anywhere.

`misled` is the one variable that is not in the code: some process has opened
the database of an installation while it held the `state.lock` of an earlier,
removed one (finding `stale_pin`).  Until that happens everything below holds in
every installation.

### NetworkRules

One script at a time, because `UFIAdapter.network` holds `network.lock` and the
script inherits it.  A *group* is one hook, wrapper chain and two slot chains in
one table; `Guards` are the groups of INPUT and IPv6 FORWARD, `Captures` those
of PREROUTING.  `hook`, `wrap`, `chain`, `built`, `route`, `rule` are in the
kernel, `owned`, `pending`, `active` are the files `network.*`, `now` is what the
system would answer for interfaces and addresses.  `at` is the control point of
the script, `goal` and `then` say for whom `switch_slot` and `network_stop`
work.  `StopBegin` to `Disown` are `network_stop`, `Start` to `Unpend`
`network_start`, `Sync` and `PauseOne` `network_sync`.  A command that fails is
`Fail`, which takes the error path of the code; `Kill` is the time limit of
`host.Command`; `Reboot` loses what is in the kernel.  The order of groups
inside a class is left open, the order of the classes is the code's.  Interfaces
and addresses are read in one step.  The rules inside a chain are reduced to
what they were written for.  A chain is `absent`, `partial` while `build_slot`
works on it, `full`, or `empty`: a stop flushes a chain with one command and
deletes it with the next (`network_ufi.sh:129`), and `Drop` is one of the two.
Removing `network.pending` after a switch is not checked by the script and may
fail (`Unpend`).  The one `rm` at the end of a stop (line 149) may be cut off
between two files, but is assumed not to fail for one of them and succeed for the
next.

Refinement: `Level` reads the kernel and the files as one of `clean`, `dirty`,
`guarded` and `capturing`.  Guards count only when they are in effect
(`InEffect`): hooked, jumped to and complete, in the slot in use and in the one
that `network.active` names, which a failed switch goes back to.  `KeepsPromise`
says that with it the module implements `NetworkPromise`: guards that are up go
down, or lose their rules, only in a stop or a check, a preparation that succeeds
leaves them up whatever was cut off before it, a stop that succeeds leaves
nothing.

`LiveSlotsComplete` is what can be said of every chain that a wrapper jumps to.
It is complete, with one exception.  A stop is cut off between `-F` and `-X`
while `network.active` still names the slot; the next prepare or sync undoes an
interrupted switch, or a failed switch of its own, by `switch_slot old` (lines
264-265, 290-291), and that jumps to the emptied chain.  In this state `Level` is
never `guarded` or `capturing` if the chain is a guard's, and by the promise no
preparation answers so.

### Supervisor

The only thing `Supervisor` knows of the rules is `NetworkPromise`: `net`,
`script` and `last` are that module's, and every script that it starts may do
whatever the promise allows.  So what holds here holds for the script of
`NetworkRules`.

* `sup[s]` is a supervisor process: its control point, the signal it has
  received and the core it has started.  `Lock` to `Exit` are `Supervise`, one
  action per lock, record, process or script; before `Handle` SIGTERM ends the
  process, after it the signal is seen where the code looks at its context.
* `core[c]` lives, is dead, or has been sent SIGKILL and still has to go.
  `supRec` and `coreRec` are `supervisor.json` and `core.json`; a record holds
  the start time, so it never names another process.
* `holder` is who has `network.lock`.  The script inherits it: when a process is
  killed its script goes on, as `Gone`, and others wait (`Unlock`).
* `at`, `then`, `child`, `stable`, `polls` are a call of `Start` or `Stop` in a
  worker.  `Start` begins with a stop, and a start that fails ends its own child
  (`Reap`) and stops again.
* `CallerDies` leaves an orphaned call: the processes it has started inherit
  `control.lock` (finding `supervisor`), so that the next call comes when none of
  them is left.  `SuperDies`, `CoreDies` and `Reboot` happen at any time.

`ImplementsAdapter` is the promise of an adapter, and `AnswersAreOwn` says whose
answers `Start` counts: "ready" asks the core that `core.json` names, and
that is always the one that the supervisor of this very start has spawned and
still watches, never one that an earlier call left with another configuration.

`Lost` names one core that the properties leave out: its supervisor was
killed between starting it and writing `core.json`, so no record names it, and
neither `Stop` nor a later supervisor finds it.

### SystemdUnit

`file`, `link`, `boot` are in the file system; `view` and `wanted` are what
systemd has in memory, which follows the files only at a reload or when the unit
is looked for anew; `active` and `job` are its unit and its queued job.  `at`,
`then`, `answer`, `stable` are the call.  `Verify`, `Issue`, `Await`, `Watch` are
`change()` for a start, a stop and the stop inside `Remove`; `Cleanup` is the
deferred stop of a start that fails after the request.  `RequestFails` and the
second disjunct of `Issue` are requests that fail without and with effect.
`OtherReload`, `Collect`, `RunStart`, `RunStop`, `Restart` are systemd, `Reboot`
loses `/run` and starts what is enabled, `EnableRuntime` is an administrator
between two calls.  `ImplementsAdapter` is the promise of an adapter.

Assumed of systemd: requests take effect in the order they are made; a stop job
replaces a start job and the other way round; a unit without references is
forgotten when it is inactive; disabling a unit without a link succeeds or
refuses, by its version.  A foreign unit of the same name, a drop-in or another
fragment is a request that fails.

### Dashboard

`link` is `runtime/dashboard`, `dirs` the complete directories below
`dashboards`, `rows` their table, `config` what the active configuration says
(whether there is one, whether the controller is enabled, whether it serves the
dashboard), `prior` what the pending row goes back to.  `Fetch` to `Prune` are
`downloadDashboard`; `Update` and `Controller` are the other tasks that write
the flag.  `applyConfig` is its outcome as `ConfigTransaction` shows it: nothing
changed, done, or a pending row left over either configuration, to be undone at
the head of the next task (`Recover`).

## 3. The runs

| Run | Instance | Checks |
|---|---|---|
| `lifecycle` | 2 tasks, 2 clients, one task cancellable, the other one's worker spawns a supervisor, 1 store fault | `TypeOK`, `Exclusive`, `WorkerOwnsRow`, `CancelHonoured`, `TerminalIsFinal`, `ImplementsLedger`, `NoLateCancel` |
| `live` | 1 task, 2 clients, 1 store fault, no supervisor spawned by the worker | `Finishes` |
| `supervisor` | as `live`, but the worker spawns a supervisor | `Finishes` is **violated** (finding below) |
| `config` | 4 updates and any number of other tasks | `TypeOK`, `Recoverable`, `RunsActive`, `StopHolds`, `UpdateAtomic`, `RestoredIsTrue` |
| `uninstall` | 3 installations, 2 clients, failing steps | `TypeOK`, `PinProtects`, `RecordOutlivesAll`, `InterruptsTheDeadOnly`, `InstallsAfterRemoval`, `RemovalEnds` |
| `stale_pin` | 2 installations | `RemovalWaits` is **violated** (finding below) |
| `unrecorded` | 1 installation | `FailureIsRecorded` is **violated** (finding below) |
| `network` | 1 guard, 2 captures, 1 interface | `LiveSlotsComplete`, `CaptureIsSafe`, `LeftoversAreMarked`, `ActiveIsTrue`, `SettledCover`, `SyncSettles`, `KeepsPromise` |
| `recapture` | 1 guard, 1 capture, 1 interface | `NoRecapture` is **violated** (finding below) |
| `ufi` | 2 supervisors, 2 cores, 1 good answer, 1 poll | `GuardedCore`, `OneOfEach`, `ImplementsAdapter`, `AnswersAreOwn`, `StopCleans`, `CallEnds` |
| `systemd` | 2 good answers | `SaidIsTrue`, `RetrySucceeds`, `ImplementsAdapter`, `DeletedLast` |
| `dashboard` | 3 installations, any number of other tasks | `NothingDangles`, `FailureRestores`, `InstallShows` |

Some of these are two named parts that belong together: `RecordOutlivesAll` is
`RecordOutlivesBulk` and `NothingLeft`, `CaptureIsSafe` is `GuardedCapture` and
`RoutedCapture`, `LeftoversAreMarked` is `OwnedRecorded` and `CleanAfterStop`,
`OneOfEach` is `OneSupervisor` and `OneCore`, `SaidIsTrue` is `RemovedIsGone` and
`BootIsTrue`, `NothingDangles` is `LinkWhole` and `ShownExists`.  `TypeOK` is left
to the proofs in `network`, `ufi`, `systemd` and `dashboard`, where it says
nothing that the other properties do not need.

Bounds.  Two tasks are enough for every interplay of a task with its
predecessor (interruption by a submission, two workers); two clients for a
submitter and a poller or canceller, and for two pollers.  Clients are
interchangeable, so the safety run uses symmetry.  One store fault shows each
statement failing alone; a deferred write that fails with it is part of the
same fault.  Four updates with `Keep = 2` are the first number at which pruning
removes a generation while another two failed candidates and a rollback target
exist.  Two clients show a reader next to a poller during a removal;
two installations are the first number at which a lock can be stale, and with
three an installation follows one that was removed under its readers.  The
network runs need one group of each class for the orders between classes, two
captures for a capture that is half switched, and one interface that is shared or
not for rules that are wider or narrower than the next; the length of a behaviour
is not bounded.

`ufi` has the old and the new supervisor and the old and the new core; a
third of either could only meet processes that are already dead.  One good answer
and one poll already have a start that succeeds, one that runs out of polls, and
a supervisor that dies between an answer and its count; the code's 5 and 20 only
repeat them, and `SupervisorProofs` does not depend on the numbers.  For
`systemd` two answers make the count start over, and three ids for `dashboard`
are one that is shown, one that is left over and one that is being installed.

Fairness (`live`, `supervisor`).  A worker and a client call that have begun go
on: nothing in them waits without a limit (12 minutes for `execute()`).
`awaitTask` and the plugin poll until the task is finished, so asking is fair;
strong fairness of the polling steps says that pollers do not meet the
momentarily held lock, or die at the same statement, every single time.  Nothing
is assumed of submissions, cancels or crashes.  In `uninstall`, `RemovalEnds`
assumes only that the worker's own steps go on; readers need not.
`TakeExclusive` tries for a limited time and then gives up, so a reader that
never closes does not block it.  In `ufi` a supervisor that can go on, and the
call, do go on, and scripts end because `host.Command` limits them; nothing is
assumed of signals, deaths or reboots, nor of the core: one that ignores SIGTERM
is killed, and one that does not go is given up.  The runs `network`, `systemd`
and `dashboard` check safety only.

### Findings

`supervisor`: `Worker()` wraps descriptor 3 with `os.NewFile` (`jobs.go:198`)
and never sets close-on-exec, so a supervisor that the worker starts through
`exec.Command` (`ufi.go:197`, `246`) inherits the locked `control.lock`.  The
lock is then held for as long as the supervisor lives.  When the worker dies
before its last write, `Job()` never gets the lock and the task stays running;
`README.md:29` promises that it is marked interrupted.  New submissions are
refused meanwhile, the one that would stop the proxy included.

`unrecorded`: `uninstall()` closes the store before it waits for readers and
deletes (`uninstall.go:31`).  When one of these steps fails, `Worker` reads the
task through the closed store (`jobs.go:282`) and panics; the reason is never
written, and a later poll marks the task interrupted.  `README.md:97` promises
the specific reason.

`stale_pin`: `connect()` does not look whether the `state.lock` it has locked is
still the one in the directory.  A process suspended between opening and locking
it, while the installation is removed and made again, uses the new database
unpinned, against the comment at `store.go:196`.  `PinProtects` is what does
hold: a process whose pin and database are of the same installation is safe.

`recapture`: `network_sync` detaches capture from an interface that has become
an uplink so that a rollback does not capture it (`network_ufi.sh:60`); but the
rollback, `switch_slot "$old"`, inserts the missing hooks again.  The
supervisor then kills the core and stops the network, so the time is short.

### Behaviours that the models show and the code accepts

* An error of the closing `CommitTask` is dropped when the action has failed
  already (`jobs.go:273`), so a cancel may still be acknowledged for a task that
  then ends as failed or cancelled.  `NoLateCancel` therefore speaks of
  behaviours without a store fault.
* `recoverConfiguration` clears the pending row before its caller starts the
  runtime again.  A crash in between leaves a proxy that was running stopped.
* When `ClearPending` fails at the end of an update, the task fails, the
  candidate keeps running, and the next task of any kind rolls it back.
* With an unreadable runtime state an update starts a proxy that was stopped;
  `StopHolds` gives up the stop there.
* A worker killed between deleting `state.db` and the root directory leaves a
  root that `initIdentity` refuses and `uninstall` cannot read an identity from.
  `os.Rename` does not replace an existing directory, not even an empty one, so
  an empty root that is left over makes the next first installation fail.
* A sync whose core does not listen pauses the capture and succeeds
  (`return $?` of `pause_capture`, `network_ufi.sh:58`).
* While rules are switched back to the old slot, protection goes back before
  capture, so for a moment the new slot's capture has the old slot's
  protection; `network.pending` marks this time (`SettledCover`).
* After a stop that was cut off between flushing a chain and deleting it, a
  start may hook the emptied chain again (above).  `network_ok` looks at hooks
  and jumps and not at what the chains hold, so later syncs accept it, until a
  switch for other interfaces or addresses, or a complete stop, replaces it.
  A core runs only after a preparation that has succeeded, which leaves complete
  guards.  `CaptureIsSafe` is about hooks and jumps: if somebody synced for a
  live core between such a stop and the next preparation, and that sync failed
  half way, captured traffic could meet the emptied guards.  The supervisor does
  not: it prepares again after every stop of the rules (`ufi.go:302`, 363).
* A supervisor that is killed between starting a core and writing `core.json`
  leaves a core that `Stop` does not find; the rules go from under it (`Lost`).
* The script of a killed process may put rules up again after a `Stop` that found
  none; `StopCleans` says that nothing else does.
* `Remove` and `SetBoot(false)` disable the unit, which takes its link, before
  they delete the file or make the link anew.  A call that ends between the two
  may leave systemd remembering a unit whose link is gone.  Then every call,
  `Remove` included, refuses the unit as not its own until somebody reloads
  systemd or restarts the device, although `docs/linux.md:54` says that a failed
  removal can be retried.  `RetrySucceeds` leaves out this state (`Unlinked`) and
  holds everywhere else.
* An installation of the dashboard whose configuration fails *and* whose link
  cannot be put back keeps the new dashboard.

## 4. What is proved

For every value of the constants, by TLAPS:

* `TaskLifecycleProofs`: `TypeCorrect`, `LockSerialisesTasks`,
  `LiveWorkerKeepsItsRow`, `CancelIsHonoured`, `OutcomesAreFinal`,
  `LedgerRefinement`, `NoCancelIsLate`.  All follow from one inductive invariant
  `IInv`, whose parts are
  - `LockInv`, who may share the descriptor: the client and the worker it is just
    launching, or one of them alone.  Exclusion is not inductive without it: what
    keeps a second submission out is that a live worker is in `lock`;
  - `RowInv`, what a control point knows of the row (a live worker past its gate
    finds it queued, then running).  It needs `LockInv`, because interrupting a
    task needs the lock;
  - `VerdictInv`, the outcome a worker carries;
  - `CancelInv`, which says that from the commit on nothing can be or has been
    cancelled (`Sealed`).  `CancelHonoured` is not inductive without it.

  The refinement is proved step by step in `LedgerStep`, with one lemma per kind
  of write to the row.  `NoCancelIsLate` adds `SealInv`: while no statement has
  failed, a worker that has chosen its outcome has sealed its row before, so that
  no `Cancel()` finds it cancellable.
* `ConfigTransactionProofs`: `TypeCorrect`, `AlwaysRecoverable`,
  `CoreRunsActive`, `UpdatesAreAtomic`, `RestoredTellsTheTruth`, `StopsHold`,
  for any runtime that keeps `RuntimePromise`.  The invariant relates the
  pending row to the worker's control point (`PendingInv`), bounds where the
  link may point (`LinkInv`), has the candidate complete before anything points
  to it (`FilesInv`), and has nothing running or kept where the link may move
  (`RunInv`): a runtime that may bring the core up by itself makes this the part
  that every other one needs.
* `RuntimeCallsProofs`: `StopIsOneStep`.  `ConfigTransaction` takes a call that
  lasts up to a minute, with processes dying and coming up meanwhile, for one
  step.  Two history variables keep what a stop has found; what any
  implementation of `RuntimeCalls` has left by the end of it is `Drift` from
  there, as in `StopFailed`, and when it says that all is stopped, `Stopped`.
  `StoppedIsDown` is the same for the time until the next call.
* `UninstallProofs`, for any number of processes and installations:
  `TypeCorrect`, `PinsProtectReaders`, `InstallsFollowRemovals`, and, until a
  process is misled, `RemovalWaitsForReaders`, `TheRecordOutlivesAll` and
  `OnlyTheDeadAreInterrupted`.  The invariant has the order of removal as a
  relation between `files` and the worker's position (`Place`), which lock
  excludes whom (`Exclusion`), and which control points go with which rows
  (`Shape`).  The run `stale_pin` shows that the condition is needed, and
  `FirstInstallationMisleadsNobody` that one removed installation must come first.

* `NetworkRulesProofs`: type correctness, all invariants of the run `network`,
  `SyncsSettle`, and `PromiseIsKept`, the refinement.  The invariant has, per
  phase of the script, how far it has come (`StopProgress`, `StartProgress`,
  `SwitchProgress`, `PauseProgress`), that outside a pending switch all wrappers
  that jump name the same slot (`Settled`), and what marks what (`Kept`,
  `Marked`).  Without `Settled` a build could flush a slot that is in use; `Kept`
  has the chains of the slot that `network.active` names complete or flushed by a
  stop, which is all that `LiveSlotsComplete` can promise after an undo.  The
  guards of the promise are complete (`GuardsUp`): `GuardsStay` shows that no
  step of a preparation or sync empties or unhooks them, `PrepareEnds` that a
  successful preparation ends with them.
* `SupervisorProofs`: type correctness, `CoreIsGuarded`, `EachIsAlone`,
  `StopLasts`, `AdapterIsImplemented`, `OnlyOwnAnswersCount` and `RulesStayAway`
  for any number of processes, answers and polls.  The invariant says that one
  supervisor at most still acts (`Alone`), which core and record go with each of
  its control points (`Records`), that a core known to somebody, or about to be
  started, is protected and no script is at work that takes this away
  (`Protected`), who runs which script (`Locking`), and what a call may rely on
  after each part of its stop (`Calling`).  `Alone` is what the stop at the head
  of `Start` is for: without it two supervisors could pass each other between
  stop and record.  `AdapterIsImplemented` takes each step to one of
  `RuntimeCalls`: a step of a supervisor only brings up a core where it was kept
  (`NoCoreRises`), and no step but `StartSpawns` brings up a supervisor
  (`NoneRises`).  `OnlyOwnAnswersCount` needs `OwnCore`, that a recorded core
  that lives while `Start` polls is its child's.
* `SystemdUnitProofs`: type correctness, `StopLasts` and all properties of the run
  `systemd`, the refinement `AdapterIsImplemented` among them, for any number of
  answers, from what each control point knows of the files (`FilesInOrder`),
  the job (`Answered`, `StillQuiet`) and systemd's memory (`Forgotten`).
* `DashboardProofs`: type correctness and all properties of the run `dashboard`
  for any number of installations.  The invariant follows the link through an
  installation (`Linked`) and has the configuration that counts once the pending
  row is settled (`Base`) keep its link.

The proofs rest on the assumptions of the modules, which only say of what kind
the constants are.  With `PromiseIsKept` and `SupervisorProofs` the safety of the
UFI runtime is proved down to the commands of the network script, and with
`AdapterIsImplemented` and `StopIsOneStep` what `ConfigTransaction` assumes of a
stop and of the runtime between calls is proved of both platforms.  That a
successful start runs the active generation is not proved across the modules: it
is `OnlyOwnAnswersCount` (the core was spawned in this call) together with
`CoreRunsActive` (the link does not move meanwhile) on UFI; with systemd it rests
on the stop at the head of every `startRuntime` path of an update and on what is
assumed of systemd.

Model-checked only: the liveness properties `Finishes`, `RemovalEnds` and
`CallEnds`; liveness under fairness is out of the prover's reach.  Every other
property of a passing run is the statement of a theorem.

## 5. What is not modelled

* Downloads, HTTP and progress: they end in the error of a task.
* Validation, parsing and encryption of settings, configurations and releases:
  values no guard of the models looks at.
* Status, logs, views: they read state that is modelled elsewhere.
* The command line: its polling is the fairness of `TaskLifecycle`; how
  `awaitTask` tells the end of an uninstall from its absence is not modelled.
* The plugin (gateway, transport, views) and the bootstrap script: clients of the
  command line with state of their own, first in the plan below.
* Foreign firewall and routing rules: to the script they are failures.
* `AttachTask` (the transient scope of a worker), `Inspect` and the check of
  listeners, which change nothing that another part reads; `SetBoot` and
  `Prepare` of the UFI adapter, single file writes.
* The extraction of the dashboard's archive, in a directory of its own task.
* The replacement of the core and of mihomoctl: their commit boundary is in
  `TaskLifecycle`, the rest is one rename each.

## 6. Plan

What is left, the most important first.

1. `Gateway`: the plugin's operation queue, autosave and polling, and the
   recovery of a submission whose answer was lost, against `TaskLedger`; two
   operations, one lost and one stale answer.
2. `Bootstrap`: the script of the first installation with its lock directory and
   its state files per job, killed and called again at any point.
3. A start in `RuntimeCalls`: which generation the core has loaded when a start
   succeeds, as part of the promise.
4. Pure functions over bounded inputs: version comparison, route and rule
   matching.
