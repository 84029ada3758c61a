-------------------------- MODULE ConfigTransaction --------------------------
(***************************************************************************)
(* Configuration generations: applyConfig, recoverConfiguration, the       *)
(* recovery at the head of execute(), and pruneTaskFiles                   *)
(* (internal/manager operations.go, config.go, cleanup.go), over the       *)
(* configurations and pending tables, the generation directories, the      *)
(* runtime/current link and the proxy core, which comes and goes as        *)
(* RuntimePromise lets it: Supervisor and SystemdUnit keep that promise.   *)
(*                                                                         *)
(* control.lock lets one task run at a time (TaskLifecycle), so there is   *)
(* one worker.  It may die between any two steps, every store, file and    *)
(* runtime operation may fail, and the device may reboot.                  *)
(***************************************************************************)
EXTENDS Naturals, FiniteSets

CONSTANTS
  MaxUpdates,    \* bound: tasks that apply a configuration
  Keep           \* generations kept beside the active one (OldConfigurations)

ASSUME ConfigAssumption == MaxUpdates \in Nat /\ Keep \in Nat

VARIABLES
  used,        \* configuration ids given out so far, in the order of their rows
  rows,        \* rows of the configurations table
  files,       \* complete generation directories
  active,      \* target of runtime/current
  pending,     \* the row of the pending table
  core,        \* the generation the running core has loaded
  kept,        \* the runtime would bring a core up again
  at,          \* control point of the worker
  action,      \* action of its task
  found,       \* applyConfig's locals: previous and wasRunning
  unwinding,   \* whether recoverConfiguration was called by applyConfig
  outcome,     \* how the last task ended
  halted       \* the user's last word was a stop that succeeded, and no update
               \* since has found the runtime state unreadable

disk   == <<used, rows, files, active, pending>>
proxy  == <<core, kept>>
worker == <<at, action, found, unwinding, outcome>>
vars   == <<disk, proxy, worker, halted>>

Ids       == 1..MaxUpdates
NoConfig  == 0                     \* no link, no core
Actions   == {"update", "start", "stop", "restart", "other"}
Found     == [previous : {NoConfig} \cup Ids, wasRunning : BOOLEAN]
Nothing   == [previous |-> NoConfig, wasRunning |-> FALSE]
Pending   == [previous : {NoConfig} \cup Ids, next : Ids, wasRunning : BOOLEAN]
NoPending == [previous |-> NoConfig, next |-> NoConfig, wasRunning |-> FALSE]

\* The control points of applyConfig from the candidate's files to its report.
Applying == {"write", "save", "test", "inspect", "pend", "stop", "link", "start", "clear"}
Unwind   == {"recover", "unwindStop", "unwindLink", "unwindClear", "resume"}

\* The types, and the reference from pending.next to a configurations row.
TypeOK ==
  /\ used \in 0..MaxUpdates
  /\ rows \subseteq 1..used
  /\ files \subseteq 1..used
  /\ active \in {NoConfig} \cup Ids
  /\ pending \in Pending \cup {NoPending}
  /\ pending # NoPending => pending.next \in rows
  /\ core \in {NoConfig} \cup Ids /\ kept \in BOOLEAN
  /\ at \in {"idle", "work", "halt", "launch", "end"} \cup Applying \cup Unwind
  /\ action \in Actions
  /\ found \in Found
  /\ unwinding \in BOOLEAN
  /\ outcome \in {"none", "succeeded", "failed", "restored", "interrupted"}
  /\ halted \in BOOLEAN

Init ==
  /\ used = 0
  /\ rows = {}
  /\ files = {}
  /\ active = NoConfig
  /\ pending = NoPending
  /\ core = NoConfig /\ kept = FALSE
  /\ at = "idle"
  /\ action = "other"
  /\ found = Nothing
  /\ unwinding = FALSE
  /\ outcome = "none"
  /\ halted = FALSE

-----------------------------------------------------------------------------
(* The runtime, as Manager sees it through the platform adapter.           *)

Runtime == INSTANCE RuntimePromise WITH live <- core # NoConfig

Running == Runtime!Up

\* startRuntime needs a link to a configuration that passes the core's test.
Startable == active \in files

\* A core reads the link when it starts.
Loads ==
  /\ core' \in {core, NoConfig} \cup (IF Startable THEN {active} ELSE {})
  /\ kept' \in BOOLEAN

Stopped    == Loads /\ Runtime!Stopped
StopFailed == Loads /\ Runtime!Drift

\* The core was up at the last look, and so was what keeps it.
Started     == Startable /\ core' = active /\ kept' = TRUE
StartFailed == IF Startable THEN Loads ELSE UNCHANGED proxy

\* running(): an unknown state counts as running.
Inspected(r) == r = Running \/ r = TRUE

-----------------------------------------------------------------------------
(* Worker: the task's frame.                                               *)

Goto(pc) == at' = pc /\ UNCHANGED <<action, found, unwinding, outcome>>

\* The task has its outcome; Worker records it and prunes.
End(o) ==
  /\ at' = "end"
  /\ outcome' = o
  /\ UNCHANGED <<action, found, unwinding>>

\* Mutant: stop does not wait for a recovery.
BeginStopFirst(a) ==
  /\ at = "idle"
  /\ IF a = "update" THEN used < MaxUpdates /\ used' = used + 1 ELSE UNCHANGED used
  /\ at' = IF a = "stop" THEN "work" ELSE "recover"
  /\ action' = a
  /\ found' = Nothing
  /\ unwinding' = FALSE
  /\ outcome' = "none"
  /\ halted' = (halted /\ a \notin {"start", "restart"})
  /\ UNCHANGED <<rows, files, active, pending, proxy>>

\* A task is accepted and released; execute() starts by recovering.  Every
\* applyConfig runs under the id of a new task.
Begin(a) ==
  /\ at = "idle"
  /\ IF a = "update" THEN used < MaxUpdates /\ used' = used + 1 ELSE UNCHANGED used
  /\ at' = "recover"
  /\ action' = a
  /\ found' = Nothing
  /\ unwinding' = FALSE
  /\ outcome' = "none"
  /\ halted' = (halted /\ a \notin {"start", "restart"})
  /\ UNCHANGED <<rows, files, active, pending, proxy>>

-----------------------------------------------------------------------------
(* recoverConfiguration, called by execute() and, unwinding, by applyConfig. *)

\* Its error ends the task either way.
UnwindFails == End("failed")

\* Mutant: a rollback leaves the runtime stopped.
RecoveredStopped(resume) ==
  IF unwinding THEN End("restored")
  ELSE IF resume /\ action # "stop" THEN Goto("resume") ELSE Goto("work")

\* What follows it: a resume of the runtime, or the caller goes on.
Recovered(resume) ==
  IF resume /\ (unwinding \/ action # "stop") THEN Goto("resume")
  ELSE IF unwinding THEN End("restored")
  ELSE Goto("work")

Recover ==
  /\ at = "recover"
  /\ \/ IF pending = NoPending THEN Recovered(FALSE) ELSE Goto("unwindStop")
     \/ UnwindFails
  /\ UNCHANGED <<disk, proxy, halted>>

UnwindStop ==
  /\ at = "unwindStop"
  /\ \/ Stopped /\ Goto("unwindLink")
     \/ StopFailed /\ UnwindFails
  /\ UNCHANGED <<disk, halted>>

\* Mutant: the error of activate is not looked at.
UnwindLinkUnchecked ==
  /\ at = "unwindLink"
  /\ \/ active' = pending.previous
     \/ UNCHANGED active
  /\ Goto("unwindClear")
  /\ UNCHANGED <<used, rows, files, pending, proxy, halted>>

UnwindLink ==
  /\ at = "unwindLink"
  /\ \/ active' = pending.previous /\ Goto("unwindClear")
     \/ UNCHANGED active /\ UnwindFails
  /\ UNCHANGED <<used, rows, files, pending, proxy, halted>>

UnwindClear ==
  /\ at = "unwindClear"
  /\ \/ pending' = NoPending /\ Recovered(pending.wasRunning)
     \/ UNCHANGED pending /\ UnwindFails
  /\ UNCHANGED <<used, rows, files, active, proxy, halted>>

\* The runtime that the transaction had stopped is started again.
Resume ==
  /\ at = "resume"
  /\ \/ Started /\ IF unwinding THEN End("restored") ELSE Goto("work")
     \/ StartFailed /\ UnwindFails
  /\ UNCHANGED <<disk, halted>>

-----------------------------------------------------------------------------
(* execute(): the actions.                                                 *)

\* "other" stands for the actions that touch no generation.
Work ==
  /\ at = "work"
  /\ \/ action = "update" /\ Goto("write")
     \/ action = "start" /\ \E r \in BOOLEAN : Inspected(r) /\
          IF r THEN End("failed") ELSE Goto("launch")
     \/ action \in {"stop", "restart"} /\ Goto("halt")
     \/ action = "other" /\ \E o \in {"succeeded", "failed"} : End(o)
  /\ UNCHANGED <<disk, proxy, halted>>

Halt ==
  /\ at = "halt"
  /\ \/ /\ Stopped
        /\ IF action = "stop" THEN End("succeeded") ELSE Goto("launch")
        /\ halted' = (action = "stop")
     \/ StopFailed /\ End("failed") /\ UNCHANGED halted
  /\ UNCHANGED disk

Launch ==
  /\ at = "launch"
  /\ \/ Started /\ End("succeeded")
     \/ StartFailed /\ End("failed")
  /\ UNCHANGED <<disk, halted>>

-----------------------------------------------------------------------------
(* applyConfig, for the generation `used'.                                 *)

\* Subscription, adaptation and the files of the generation; an incomplete
\* directory counts as none.
Write ==
  /\ at = "write"
  /\ \/ files' = files \cup {used} /\ Goto("save")
     \/ UNCHANGED files /\ End("failed")
  /\ UNCHANGED <<used, rows, active, pending, proxy, halted>>

\* Mutant: the generation gets no row.
SaveSkipped ==
  /\ at = "save"
  /\ Goto("test")
  /\ UNCHANGED <<disk, proxy, halted>>

Save ==
  /\ at = "save"
  /\ \/ rows' = rows \cup {used} /\ Goto("test")
     \/ UNCHANGED rows /\ End("failed")
  /\ UNCHANGED <<used, files, active, pending, proxy, halted>>

Test ==
  /\ at = "test"
  /\ Goto("inspect") \/ End("failed")
  /\ UNCHANGED <<disk, proxy, halted>>

\* What a rollback will have to restore.
Inspect ==
  /\ at = "inspect"
  /\ at' = "pend"
  /\ \E r \in BOOLEAN :
       /\ Inspected(r)
       /\ found' = [previous |-> active, wasRunning |-> r]
       /\ halted' = (halted /\ r = Running)
  /\ UNCHANGED <<disk, proxy, action, unwinding, outcome>>

Pend ==
  /\ at = "pend"
  /\ \/ /\ pending' = [previous |-> found.previous, next |-> used,
                       wasRunning |-> found.wasRunning]
        /\ Goto("stop")
     \/ UNCHANGED pending /\ End("failed")
  /\ UNCHANGED <<used, rows, files, active, proxy, halted>>

\* An error from here on rolls back.
Rollback ==
  /\ at' = "recover"
  /\ unwinding' = TRUE
  /\ UNCHANGED <<action, found, outcome>>

\* Mutant: the link moves even when the runtime would not stop.
StopUnchecked ==
  /\ at = "stop"
  /\ Stopped \/ StopFailed
  /\ Goto("link")
  /\ UNCHANGED <<disk, halted>>

Stop ==
  /\ at = "stop"
  /\ \/ Stopped /\ Goto("link")
     \/ StopFailed /\ Rollback
  /\ UNCHANGED <<disk, halted>>

Link ==
  /\ at = "link"
  /\ \/ active' = used /\ Goto(IF found.wasRunning THEN "start" ELSE "clear")
     \/ UNCHANGED active /\ Rollback
  /\ UNCHANGED <<used, rows, files, pending, proxy, halted>>

Start ==
  /\ at = "start"
  /\ \/ Started /\ Goto("clear")
     \/ StartFailed /\ Rollback
  /\ UNCHANGED <<disk, halted>>

\* The commit point.  When the statement fails the task fails too, and the
\* next task rolls the candidate back.
Clear ==
  /\ at = "clear"
  /\ \/ pending' = NoPending /\ End("succeeded")
     \/ UNCHANGED pending /\ End("failed")
  /\ UNCHANGED <<used, rows, files, active, proxy, halted>>

-----------------------------------------------------------------------------
(* pruneTaskFiles, and the end of the task.                                *)

\* OldConfigurations: all but the active one and the Keep newest others.
Old ==
  {id \in rows \ {active} :
     Cardinality({n \in rows \ {active} : n > id}) >= Keep}

\* Mutant: pruning does not look for a pending transaction.
PruneAlways ==
  /\ at = "end"
  /\ \E gone \in SUBSET Old : \E forgotten \in SUBSET gone :
       files' = files \ gone /\ rows' = rows \ forgotten
  /\ Goto("idle")
  /\ UNCHANGED <<used, active, pending, proxy, halted>>

\* Directory first, row after it; either may fail, and nobody else looks at
\* them meanwhile.
Prune ==
  /\ at = "end"
  /\ IF pending = NoPending
     THEN \E gone \in SUBSET Old : \E forgotten \in SUBSET gone :
            files' = files \ gone /\ rows' = rows \ forgotten
     ELSE UNCHANGED <<files, rows>>
  /\ Goto("idle")
  /\ UNCHANGED <<used, active, pending, proxy, halted>>

-----------------------------------------------------------------------------
(* The environment.                                                        *)

WorkerGone ==
  /\ at' = "idle"
  /\ outcome' = IF at \in {"idle", "end"} THEN outcome ELSE "interrupted"
  /\ found' = Nothing
  /\ unwinding' = FALSE
  /\ UNCHANGED action

\* The worker dies.
Crash ==
  /\ at # "idle"
  /\ WorkerGone
  /\ UNCHANGED <<disk, proxy, halted>>

\* The core dies, or is brought up again, or what does that dies.
RuntimeDrifts ==
  /\ Loads /\ Runtime!Drift
  /\ UNCHANGED <<disk, worker, halted>>

\* The device restarts; systemd may start an enabled unit on its own.
Reboot ==
  /\ WorkerGone
  /\ core' \in IF Startable THEN {NoConfig, active} ELSE {NoConfig}
  /\ kept' \in BOOLEAN
  /\ halted' = (halted /\ ~Running')
  /\ UNCHANGED disk

-----------------------------------------------------------------------------

Unwinding == Recover \/ UnwindStop \/ UnwindLink \/ UnwindClear \/ Resume
Apply     == Write \/ Save \/ Test \/ Inspect \/ Pend \/ Stop \/ Link \/ Start \/ Clear

Next ==
  \/ \E a \in Actions : Begin(a)
  \/ Unwinding \/ Work \/ Halt \/ Launch \/ Apply \/ Prune
  \/ Crash \/ RuntimeDrifts \/ Reboot

Spec == Init /\ [][Next]_vars

-----------------------------------------------------------------------------
(* Properties.                                                             *)

\* Neither pruning nor a crash ever takes away the generation the link points
\* to, or the one a rollback will need.
Recoverable ==
  \A id \in {active, pending.previous} \ {NoConfig} : id \in files /\ id \in rows

\* The core never runs anything but the generation the link names, even though
\* the runtime may start one at any time while a supervisor or an active unit
\* lives: what status, the metadata and a restart show is what runs.
RunsActive == core \in {NoConfig, active}

\* The configuration a device is left with once any unfinished transaction
\* has been recovered.
Effective == IF pending = NoPending THEN active ELSE pending.previous

\* An update is all or nothing: whatever fails, crashes or restarts in
\* between, the effective configuration changes only in the step that makes
\* the task succeed, and then to that task's generation.
UpdateAtomic ==
  [][Effective' # Effective => Effective' = used /\ outcome' = "succeeded"]_vars

Restored ==
  (outcome' = "restored" /\ outcome # "restored") =>
    /\ active' = found.previous
    /\ pending' = NoPending
    /\ found.wasRunning => core' = found.previous /\ kept'

\* "Restored" is true: the link is back, nothing is pending, and a runtime
\* that was running runs again.
RestoredIsTrue == [][Restored]_vars

\* After a successful stop nothing runs and nothing would bring a core up, and no
\* recovery, update or other task changes that; only a start, a restart or the
\* boot does, or an update that could not read the runtime state and so counted
\* it as running.
StopHolds == halted => ~Running
=============================================================================
