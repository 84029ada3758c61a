---------------------------- MODULE TaskLifecycle ----------------------------
(***************************************************************************)
(* The life of a device task: accept() in a short-lived client process,    *)
(* the detached worker it launches, and the Job() and Cancel() calls of    *)
(* other clients (internal/manager/jobs.go, task_control.go), over the     *)
(* task rows of internal/storage and the control.lock file lock.           *)
(*                                                                         *)
(* control.lock is a flock: it belongs to an open file description and is  *)
(* free again only when every process that inherited the descriptor has    *)
(* closed it.  `lock' is therefore the set of processes sharing the locked *)
(* descriptor.  The worker of task t is named t.  The worker's descriptor  *)
(* 3 is not close-on-exec, so a runtime the worker spawns itself (the UFI  *)
(* supervisor) inherits it too.                                            *)
(***************************************************************************)
EXTENDS Naturals

CONSTANTS
  Tasks,        \* task ids (Request.ID)
  Clients,      \* mihomoctl processes that submit, poll and cancel
  Cancellable,  \* tasks whose action is accepted by cancellableAction
  Spawning,     \* tasks whose worker itself spawns the proxy supervisor (UFI)
  Supervisor,   \* the supervisor process
  NoTask,       \* no task
  MaxFaults     \* bound on the store statements that may fail

ASSUME TaskAssumption ==
  /\ Cancellable \subseteq Tasks
  /\ Spawning \subseteq Tasks
  /\ Tasks \cap Clients = {}
  /\ Supervisor \notin Tasks \cup Clients
  /\ NoTask \notin Tasks
  /\ MaxFaults \in Nat

VARIABLES
  state,            \* tasks.state, "absent" while there is no row
  cancellable,      \* tasks whose row has cancellable set
  cancelRequested,  \* tasks whose row has cancel_requested set
  request,          \* tasks whose row still holds the sealed request
  lock,             \* processes sharing the locked control.lock descriptor
  client,           \* control point of each client
  target,           \* the task a client is working on
  purpose,          \* why a client is inside Job(): "job", "cancel" or "refused"
  worker,           \* control point of each task's worker
  released,         \* workers whose start gate holds the byte
  aborted,          \* workers whose context was cancelled
  verdict,          \* runErr, then the outcome the worker has chosen
  applied,          \* tasks that have changed the device
  faults            \* store statements that have failed

row        == <<state, cancellable, cancelRequested, request>>
clientVars == <<client, target, purpose>>
workerVars == <<worker, released, aborted, verdict, applied>>
vars       == <<row, lock, clientVars, workerVars, faults>>

Active   == {"queued", "running"}
Terminal == {"succeeded", "failed", "cancelled", "interrupted"}

\* The client control points at which it holds control.lock.
HoldsLock == {"locked", "created", "spawned", "reread", "interrupt"}
\* The worker control points from process start to process exit.
Live      == {"gate", "load", "begin", "execute", "commit", "apply", "seal",
              "readback", "finish", "exit"}

TypeOK ==
  /\ state \in [Tasks -> {"absent"} \cup Active \cup Terminal]
  /\ cancellable \subseteq Tasks
  /\ cancelRequested \subseteq Tasks
  /\ request \subseteq Tasks
  /\ lock \subseteq Tasks \cup Clients \cup {Supervisor}
  /\ client \in [Clients -> {"idle", "read", "trylock", "cancel"} \cup HoldsLock]
  /\ target \in [Clients -> Tasks \cup {NoTask}]
  /\ \A c \in Clients : client[c] # "idle" => target[c] \in Tasks
  /\ purpose \in [Clients -> {"none", "job", "cancel", "refused"}]
  /\ worker \in [Tasks -> {"none", "gone"} \cup Live]
  /\ released \subseteq Tasks
  /\ aborted \subseteq Tasks
  /\ verdict \in [Tasks -> {"ok", "error", "succeeded", "failed", "cancelled"}]
  /\ applied \subseteq Tasks
  /\ faults \in 0..MaxFaults

Init ==
  /\ state = [t \in Tasks |-> "absent"]
  /\ cancellable = {}
  /\ cancelRequested = {}
  /\ request = {}
  /\ lock = {}
  /\ client = [c \in Clients |-> "idle"]
  /\ target = [c \in Clients |-> NoTask]
  /\ purpose = [c \in Clients |-> "none"]
  /\ worker = [t \in Tasks |-> "none"]
  /\ released = {}
  /\ aborted = {}
  /\ verdict = [t \in Tasks |-> "ok"]
  /\ applied = {}
  /\ faults = 0

-----------------------------------------------------------------------------
(* The statements of queries.sql that touch a task row.                    *)

\* Mutant: the whole row is written, from the worker's old copy, where the
\* task is still cancellable.
UpdateTaskStaleCopy(t, s) ==
  /\ state' = [state EXCEPT ![t] = s]
  /\ cancellable' = IF s \in Active THEN cancellable \cup ({t} \cap Cancellable)
                    ELSE cancellable \ {t}
  /\ request' = IF s \in Active THEN request ELSE request \ {t}
  /\ UNCHANGED cancelRequested

\* UpdateTask: a terminal state closes cancellation and drops the request;
\* cancel_requested is never written, so a stale copy cannot erase it.
UpdateTask(t, s) ==
  /\ state' = [state EXCEPT ![t] = s]
  /\ cancellable' = IF s \in Active THEN cancellable ELSE cancellable \ {t}
  /\ request' = IF s \in Active THEN request ELSE request \ {t}
  /\ UNCHANGED cancelRequested

\* CreateTask, one transaction: InterruptTasks, InsertTask, SetLatestTask.
CreateTask(t) ==
  LET stale == {u \in Tasks : state[u] \in Active} IN
  /\ state' = [u \in Tasks |-> IF u = t THEN "queued"
                               ELSE IF u \in stale THEN "interrupted" ELSE state[u]]
  /\ cancellable' = (cancellable \ stale) \cup ({t} \cap Cancellable)
  /\ cancelRequested' = cancelRequested \ {t}
  /\ request' = (request \ stale) \cup {t}

\* Mutant: CommitTask without "AND cancel_requested=0".
CanCommitBlind(t) == state[t] \in Active

\* The rows CancelTask and CommitTask would update.
CanCancel(t) == state[t] \in Active /\ t \in cancellable
CanCommit(t) == state[t] \in Active /\ t \notin cancelRequested

\* The store fails one statement.
Fault ==
  /\ faults < MaxFaults
  /\ faults' = faults + 1

\* Something the worker needed failed: its deferred write records the failure,
\* unless that write fails as well.
FailedWrite(t) ==
  /\ Fault
  /\ UpdateTask(t, "failed") \/ UNCHANGED row

-----------------------------------------------------------------------------
(* Client: accept().                                                       *)

Goto(c, pc, t, why) ==
  /\ client' = [client EXCEPT ![c] = pc]
  /\ target' = [target EXCEPT ![c] = t]
  /\ purpose' = [purpose EXCEPT ![c] = why]

\* The call returns; its deferred Close gives the descriptor back.
Return(c) ==
  /\ Goto(c, "idle", NoTask, "none")
  /\ lock' = lock \ {c}

\* accept() takes control.lock without waiting; while another process has it
\* the submission is refused and nothing changes.
Submit(c, t) ==
  /\ client[c] = "idle"
  /\ lock = {}
  /\ lock' = {c}
  /\ Goto(c, "locked", t, "none")
  /\ UNCHANGED <<row, workerVars, faults>>

\* A known id is answered with the existing row, or refused as a conflict.
SubmitKnown(c) ==
  /\ client[c] = "locked"
  /\ state[target[c]] # "absent"
  /\ Return(c)
  /\ UNCHANGED <<row, workerVars, faults>>

SubmitNew(c) ==
  /\ client[c] = "locked"
  /\ state[target[c]] = "absent"
  /\ CreateTask(target[c])
  /\ client' = [client EXCEPT ![c] = "created"]
  /\ UNCHANGED <<lock, target, purpose, workerVars, faults>>

\* cmd.Start: the worker inherits the locked descriptor and the start gate.
Spawn(c) ==
  /\ client[c] = "created"
  /\ client' = [client EXCEPT ![c] = "spawned"]
  /\ worker' = [worker EXCEPT ![target[c]] = "gate"]
  /\ lock' = lock \cup {target[c]}
  /\ UNCHANGED <<row, target, purpose, released, aborted, verdict, applied, faults>>

\* AttachTask succeeded and the gate byte is written: accept() returns.  The
\* client has the read end open too, so a dead worker goes unnoticed.
Release(c) ==
  /\ client[c] = "spawned"
  /\ released' = IF worker[target[c]] = "gate"
                 THEN released \cup {target[c]} ELSE released
  /\ Return(c)
  /\ UNCHANGED <<row, worker, aborted, verdict, applied, faults>>

\* Preparing, launching or attaching the worker failed: a launched worker is
\* killed and reaped before the deferred write records the failure, and that
\* write may fail too.
AcceptFails(c) ==
  LET t == target[c] IN
  /\ client[c] \in {"created", "spawned"}
  /\ worker' = [worker EXCEPT ![t] = IF @ \in Live THEN "gone" ELSE @]
  /\ Goto(c, "idle", NoTask, "none")
  /\ lock' = lock \ {c, t}
  /\ \/ UpdateTask(t, "failed") /\ UNCHANGED faults
     \/ Fault /\ UNCHANGED row
  /\ UNCHANGED <<released, aborted, verdict, applied>>

-----------------------------------------------------------------------------
(* Client: Job() and Cancel().                                             *)

\* The last step of Job(), with the task state it returns: Cancel() goes on
\* to CancelTask while the task is active.
Answer(c, s) ==
  IF purpose[c] = "cancel" /\ s \in Active
  THEN /\ client' = [client EXCEPT ![c] = "cancel"]
       /\ lock' = lock \ {c}
       /\ UNCHANGED <<target, purpose>>
  ELSE Return(c)

\* A client calls Job(id), or Cancel(id), which calls it first.
Ask(c, t, why) ==
  /\ client[c] = "idle"
  /\ state[t] # "absent"
  /\ why \in {"job", "cancel"}
  /\ Goto(c, "read", t, why)
  /\ UNCHANGED <<row, lock, workerVars, faults>>

JobRead(c) ==
  /\ client[c] = "read"
  /\ IF state[target[c]] \in Active
     THEN /\ client' = [client EXCEPT ![c] = "trylock"]
          /\ UNCHANGED <<lock, target, purpose>>
     ELSE Answer(c, state[target[c]])
  /\ UNCHANGED <<row, workerVars, faults>>

\* Mutant: Job() goes on to the interruption although the lock is held.
JobBusyIgnored(c) ==
  /\ client[c] = "trylock"
  /\ lock # {}
  /\ client' = [client EXCEPT ![c] = "reread"]
  /\ UNCHANGED <<row, lock, target, purpose, workerVars, faults>>

\* Mutant: Job() interrupts an active task whether or not it got the lock.
JobBusyInterrupts(c) ==
  /\ client[c] = "trylock"
  /\ lock # {}
  /\ state[target[c]] \in Active
  /\ UpdateTask(target[c], "interrupted")
  /\ Answer(c, "interrupted")
  /\ UNCHANGED <<workerVars, faults>>

\* Somebody holds control.lock: the first, possibly old, read is returned.
JobBusy(c) ==
  /\ client[c] = "trylock"
  /\ lock # {}
  /\ Answer(c, "running")
  /\ UNCHANGED <<row, workerVars, faults>>

JobLock(c) ==
  /\ client[c] = "trylock"
  /\ lock = {}
  /\ lock' = {c}
  /\ client' = [client EXCEPT ![c] = "reread"]
  /\ UNCHANGED <<row, target, purpose, workerVars, faults>>

\* Mutant: Job() trusts the state it read before it had the lock.
JobRereadSkipped(c) ==
  /\ client[c] = "reread"
  /\ client' = [client EXCEPT ![c] = "interrupt"]
  /\ UNCHANGED <<row, lock, target, purpose, workerVars, faults>>

\* Re-read after acquiring the lock: the worker may just have finished.
JobReread(c) ==
  /\ client[c] = "reread"
  /\ IF state[target[c]] \in Active
     THEN /\ client' = [client EXCEPT ![c] = "interrupt"]
          /\ UNCHANGED <<lock, target, purpose>>
     ELSE Answer(c, state[target[c]])
  /\ UNCHANGED <<row, workerVars, faults>>

JobInterrupt(c) ==
  /\ client[c] = "interrupt"
  /\ \/ /\ UpdateTask(target[c], "interrupted")
        /\ Answer(c, "interrupted")
        /\ UNCHANGED faults
     \/ Fault /\ Return(c) /\ UNCHANGED row
  /\ UNCHANGED workerVars

\* CancelTask.  Accepted: the request is acknowledged and Job() reports on it.
\* Refused: Job() tells a finished task from one past its commit.
CancelTask(c) ==
  LET t == target[c] IN
  /\ client[c] = "cancel"
  /\ IF CanCancel(t)
     THEN /\ cancelRequested' = cancelRequested \cup {t}
          /\ Goto(c, "read", t, "job")
     ELSE /\ UNCHANGED cancelRequested
          /\ Goto(c, "read", t, "refused")
  /\ UNCHANGED <<state, cancellable, request, lock, workerVars, faults>>

\* A client process dies at any point; the kernel closes its descriptors.
ClientCrash(c) ==
  /\ client[c] # "idle"
  /\ Return(c)
  /\ UNCHANGED <<row, workerVars, faults>>

-----------------------------------------------------------------------------
(* Worker.                                                                 *)

Step(t, pc) == worker' = [worker EXCEPT ![t] = pc]

\* The process is gone, and with it its memory and its descriptor 3.
Gone(t) ==
  /\ Step(t, "gone")
  /\ lock' = lock \ {t}
  /\ released' = released \ {t}
  /\ aborted' = aborted \ {t}
  /\ verdict' = [verdict EXCEPT ![t] = "ok"]

\* A client still has the write end of t's start gate.
GateOpen(t) == \E c \in Clients : client[c] = "spawned" /\ target[c] = t

\* Mutant: the worker does not take end of file for an answer.
PassGatePatient(t) ==
  /\ worker[t] = "gate"
  /\ t \in released
  /\ Step(t, "load")
  /\ UNCHANGED <<row, lock, clientVars, released, aborted, verdict, applied, faults>>

\* The worker waits for one byte; end of file without it means its launcher
\* died, and the worker exits without touching the task.
PassGate(t) ==
  /\ worker[t] = "gate"
  /\ \/ /\ t \in released
        /\ Step(t, "load")
        /\ UNCHANGED <<lock, released, aborted, verdict>>
     \/ /\ t \notin released /\ ~GateOpen(t)
        /\ Gone(t)
  /\ UNCHANGED <<row, clientVars, applied, faults>>

\* The worker re-checks its lock and its task: only a queued task may run.  A
\* request that cannot be read back or decrypted fails the task.
LoadTask(t) ==
  /\ worker[t] = "load"
  /\ \/ /\ Step(t, IF state[t] = "queued" THEN "begin" ELSE "exit")
        /\ aborted' = aborted \cup ({t} \cap cancelRequested)
        /\ UNCHANGED <<row, faults>>
     \/ /\ state[t] = "queued"
        /\ FailedWrite(t)
        /\ Step(t, "exit")
        /\ UNCHANGED aborted
  /\ UNCHANGED <<lock, clientVars, released, verdict, applied>>

\* The task becomes running; when that write fails the deferred one records
\* the failure.
Begin(t) ==
  /\ worker[t] = "begin"
  /\ \/ UpdateTask(t, "running") /\ Step(t, "execute") /\ UNCHANGED faults
     \/ FailedWrite(t) /\ Step(t, "exit")
  /\ UNCHANGED <<lock, clientVars, released, aborted, verdict, applied>>

\* watchCancellation polls the row until the worker returns.  (A failed poll
\* and the 12 minute limit end execute() the way any other error does.)
Watch(t) ==
  /\ worker[t] \in {"execute", "commit", "apply", "seal", "readback", "finish"}
  /\ t \in Cancellable
  /\ t \in cancelRequested /\ t \notin aborted
  /\ aborted' = aborted \cup {t}
  /\ UNCHANGED <<row, lock, clientVars, worker, released, verdict, applied, faults>>

\* A phase or progress report writes the worker's own copy of the row.
Report(t) ==
  /\ worker[t] \in {"execute", "apply"}
  /\ UpdateTask(t, "running")
  /\ UNCHANGED <<lock, clientVars, workerVars, faults>>

\* execute() returns without having changed anything: an error (network,
\* verification, a cancelled or expired context) or nothing to do.  The
\* context is not looked at on the way out.
ExecuteReturns(t) ==
  /\ worker[t] = "execute"
  /\ Step(t, "seal")
  /\ \/ verdict' = [verdict EXCEPT ![t] = "error"]
     \/ UNCHANGED verdict
  /\ UNCHANGED <<row, lock, clientVars, released, aborted, applied, faults>>

\* The preparation is done.  A cancellable action must pass commitTask before
\* it changes anything; the others go straight on.
Prepared(t) ==
  /\ worker[t] = "execute"
  /\ Step(t, IF t \in Cancellable THEN "commit" ELSE "apply")
  /\ UNCHANGED <<row, lock, clientVars, released, aborted, verdict, applied, faults>>

\* commitTask: the context first, then CommitTask decides against a cancel
\* that the watcher has not seen yet.
Commit(t) ==
  /\ worker[t] = "commit"
  /\ IF t \notin aborted /\ CanCommit(t)
     THEN /\ cancellable' = cancellable \ {t}
          /\ Step(t, "apply")
          /\ UNCHANGED verdict
     ELSE /\ Step(t, "seal")
          /\ verdict' = [verdict EXCEPT ![t] = "error"]
          /\ UNCHANGED cancellable
  /\ UNCHANGED <<state, cancelRequested, request, lock, clientVars,
                 released, aborted, applied, faults>>

\* The action changes the device, and may still report an error.  A supervisor
\* it spawns inherits descriptor 3 and with it the lock.
Apply(t) ==
  /\ worker[t] = "apply"
  /\ applied' = applied \cup {t}
  /\ lock' = IF t \in Spawning THEN lock \cup {Supervisor} ELSE lock
  /\ Step(t, "seal")
  /\ \/ verdict' = [verdict EXCEPT ![t] = "error"]
     \/ UNCHANGED verdict
  /\ UNCHANGED <<row, clientVars, released, aborted, faults>>

\* Mutant: acceptance is closed on success only.
SealSuccessOnly(t) ==
  /\ worker[t] = "seal"
  /\ IF verdict[t] = "ok" /\ t \in Cancellable
     THEN IF CanCommit(t)
          THEN cancellable' = cancellable \ {t} /\ UNCHANGED verdict
          ELSE verdict' = [verdict EXCEPT ![t] = "error"] /\ UNCHANGED cancellable
     ELSE UNCHANGED <<cancellable, verdict>>
  /\ Step(t, "readback")
  /\ UNCHANGED <<state, cancelRequested, request, lock, clientVars,
                 released, aborted, applied, faults>>

\* Close acceptance of cancellation whatever the result; a refused CommitTask
\* turns success into an error, and an error of the statement itself only
\* counts when there was no other.
Seal(t) ==
  /\ worker[t] = "seal"
  /\ \/ /\ t \in Cancellable => CanCommit(t)
        /\ cancellable' = cancellable \ {t}
        /\ UNCHANGED <<verdict, faults>>
     \/ /\ t \in Cancellable
        /\ ~CanCommit(t)
        /\ verdict' = [verdict EXCEPT ![t] = "error"]
        /\ UNCHANGED <<cancellable, faults>>
     \/ /\ t \in Cancellable
        /\ Fault
        /\ verdict' = [verdict EXCEPT ![t] = "error"]
        /\ UNCHANGED cancellable
  /\ Step(t, "readback")
  /\ UNCHANGED <<state, cancelRequested, request, lock, clientVars,
                 released, aborted, applied>>

\* Mutant: a failure is not classified before it is written to the row.
ReadBackUnclassified(t) ==
  /\ worker[t] = "readback"
  /\ verdict' = [verdict EXCEPT ![t] =
                   IF @ = "ok" THEN "succeeded"
                   ELSE IF t \in cancelRequested THEN "cancelled" ELSE @]
  /\ Step(t, "finish")
  /\ UNCHANGED <<row, lock, clientVars, released, aborted, applied, faults>>

\* Choose the outcome; an error reads the row again to tell a cancellation
\* from a failure.
ReadBack(t) ==
  /\ worker[t] = "readback"
  /\ verdict' = [verdict EXCEPT ![t] =
                   IF @ = "ok" THEN "succeeded"
                   ELSE IF t \in cancelRequested THEN "cancelled" ELSE "failed"]
  /\ Step(t, "finish")
  /\ UNCHANGED <<row, lock, clientVars, released, aborted, applied, faults>>

\* Record the outcome; when the write fails, the deferred one says failed.
Finish(t) ==
  /\ worker[t] = "finish"
  /\ \/ /\ UpdateTask(t, verdict[t])
        /\ UNCHANGED faults
     \/ FailedWrite(t)
  /\ Step(t, "exit")
  /\ UNCHANGED <<lock, clientVars, released, aborted, verdict, applied>>

\* The worker process ends, normally or killed at any point; the row is left
\* as it is and the kernel closes descriptor 3.
Exit(t) ==
  /\ worker[t] \in Live
  /\ Gone(t)
  /\ UNCHANGED <<row, clientVars, applied, faults>>

\* The proxy supervisor dies or is killed from outside.
SupervisorExit ==
  /\ Supervisor \in lock
  /\ lock' = lock \ {Supervisor}
  /\ UNCHANGED <<row, clientVars, workerVars, faults>>

-----------------------------------------------------------------------------

ClientStep(c) ==
  \/ SubmitKnown(c) \/ SubmitNew(c) \/ Spawn(c) \/ Release(c) \/ AcceptFails(c)
  \/ JobRead(c) \/ JobBusy(c) \/ JobLock(c) \/ JobReread(c) \/ JobInterrupt(c)
  \/ CancelTask(c)

WorkerStep(t) ==
  \/ PassGate(t) \/ LoadTask(t) \/ Begin(t) \/ Report(t) \/ ExecuteReturns(t)
  \/ Prepared(t) \/ Commit(t) \/ Apply(t) \/ Seal(t) \/ ReadBack(t) \/ Finish(t)

Next ==
  \/ \E c \in Clients, t \in Tasks : Submit(c, t)
  \/ \E c \in Clients, t \in Tasks, why \in {"job", "cancel"} : Ask(c, t, why)
  \/ \E c \in Clients : ClientStep(c) \/ ClientCrash(c)
  \/ \E t \in Tasks : WorkerStep(t) \/ Watch(t) \/ Exit(t)
  \/ SupervisorExit

Spec == Init /\ [][Next]_vars

-----------------------------------------------------------------------------
(* Fairness.  A worker and a client call that have started go on; the 12   *)
(* minute context bounds execute().  awaitTask and the plugin keep polling *)
(* an unfinished task, and pollers that go on asking do not meet a held    *)
(* lock, or die at the same place, every time.                             *)

WorkerGoesOn(t) == WorkerStep(t) \/ (worker[t] = "exit" /\ Exit(t))

Fairness ==
  /\ \A t \in Tasks : WF_vars(WorkerGoesOn(t))
  /\ \A c \in Clients : WF_vars(ClientStep(c))
  /\ \A t \in Tasks :
       /\ SF_vars(\E c \in Clients : lock = {} /\ Ask(c, t, "job"))
       /\ SF_vars(\E c \in Clients : lock = {} /\ target[c] = t /\ JobRead(c))
       /\ SF_vars(\E c \in Clients : target[c] = t /\ JobLock(c))
       /\ SF_vars(\E c \in Clients : target[c] = t /\ JobReread(c))
       /\ SF_vars(\E c \in Clients : target[c] = t /\ JobInterrupt(c))

FairSpec == Spec /\ Fairness

-----------------------------------------------------------------------------
(* Properties.                                                             *)

\* A worker that was let through its gate and has not recorded its outcome.
Working(t) == worker[t] \in Live \ {"gate", "exit"}

\* control.lock serialises tasks: never two workers at work, whatever clients
\* submit, poll or die in between, and no client inside its own locked
\* section (accept, or Job() interrupting a task) meanwhile.
Exclusive ==
  \A t \in Tasks : Working(t) =>
    /\ t \in lock
    /\ \A u \in Tasks \ {t} : worker[u] \notin Live
    /\ \A c \in Clients : client[c] \notin HoldsLock

\* Neither Job() nor the InterruptTasks of a later submission takes a task
\* away from a live worker: its row stays active until the worker itself
\* writes the outcome.
WorkerOwnsRow ==
  \A t \in Tasks : Working(t) =>
    state[t] = IF worker[t] \in {"load", "begin"} THEN "queued" ELSE "running"

\* A cancellation that was acknowledged is kept: the task never changes the
\* device and never ends as succeeded (Cancel against commitTask and the
\* closing CommitTask of Worker).
CancelHonoured ==
  \A t \in Tasks : t \in cancelRequested => t \notin applied /\ state[t] # "succeeded"

StaysFinal(t) ==
  /\ state'[t] = state[t]
  /\ t \in cancelRequested' <=> t \in cancelRequested
  /\ t \notin cancellable' /\ t \notin request'

\* A finished task is never written again: no late progress report, late
\* cancel, resubmission under the same id or interruption reopens or relabels
\* it, and its sealed request is gone.
TerminalIsFinal ==
  [][\A t \in Tasks : state[t] \in Terminal => StaysFinal(t)]_vars

\* Once the worker has chosen the outcome no cancel is acknowledged any more
\* (the comment above the closing CommitTask), unless a store statement has
\* failed: the error of that CommitTask is dropped after a failed execute().
NoLateCancel ==
  [][\A t \in Tasks : faults = 0 /\ worker[t] = "finish" =>
       (t \in cancelRequested' <=> t \in cancelRequested)]_vars

\* TaskLifecycle implements TaskLedger: what a reader may conclude from the
\* row, and the change the worker has made.
Status ==
  [t \in Tasks |->
     IF state[t] \notin Active THEN state[t]
     ELSE IF t \in cancelRequested THEN "cancelling"
     ELSE IF t \in cancellable THEN "open" ELSE "committed"]

Ledger == INSTANCE TaskLedger WITH
  status <- Status, changed <- applied

\* Every step of the clients, the workers and the crashes is one step of the
\* ledger or none: no window shows a task open again after its commit,
\* cancelled and changed, or two tasks in progress.
ImplementsLedger == Ledger!Spec

\* An accepted task reaches an outcome: the worker writes one, or a poller
\* finds the worker dead and marks the task interrupted.
Finishes == \A t \in Tasks : state[t] \in Active ~> state[t] \in Terminal
=============================================================================
