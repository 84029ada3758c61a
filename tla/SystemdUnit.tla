----------------------------- MODULE SystemdUnit -----------------------------
(***************************************************************************)
(* The Linux runtime (internal/platform systemd.go, systemd_managed.go):   *)
(* Start, Stop, Prepare, SetBoot and Remove over the unit file in the      *)
(* installation, its link in systemd's search path, the symlinks that      *)
(* enable it, and what systemd has in memory, which follows the files only *)
(* when it reloads or has forgotten the unit.                              *)
(*                                                                         *)
(* control.lock lets one call run at a time.  Every request may fail or    *)
(* time out, with or without effect, and the worker may die between any    *)
(* two.  Units of others under the same name appear as such failures.      *)
(***************************************************************************)
EXTENDS Naturals

CONSTANT Stable   \* consecutive good answers that Start waits for (5)

ASSUME UnitAssumption == Stable \in Nat \ {0}

VARIABLES
  file,     \* the unit file exists
  link,     \* so does its link in the search path
  boot,     \* symlinks that enable it: in /etc, and in /run
  view,     \* systemd has the unit in memory
  wanted,   \* and knows that another unit wants it, which keeps it there
  active,   \* ActiveState of the unit
  job,      \* the job queued for it
  answer,   \* the result of the job of the call
  call,     \* the call, or the last one
  at,       \* its control point
  then,     \* what follows the stop it is in
  stable,   \* good answers in a row
  fault,    \* a request of the call has failed or timed out
  said      \* what the last call has said

files   == <<file, link, boot>>
memory  == <<view, wanted>>
unit    == <<active, job>>
caller  == <<answer, call, at, then, stable, fault, said>>
vars    == <<files, memory, unit, caller>>

Calls == {"start", "stop", "prepare", "on", "off", "remove"}

\* The types of the variables.
TypeOK ==
  /\ file \in BOOLEAN /\ link \in BOOLEAN
  /\ boot \subseteq {"etc", "run"}
  /\ view \in BOOLEAN /\ wanted \in BOOLEAN
  /\ active \in {"inactive", "activating", "active", "deactivating"}
  /\ job \in {"none", "start", "stop"}
  /\ answer \in {"none", "done", "failed"}
  /\ call \in Calls \cup {"none"}
  /\ at \in {"idle", "verify", "issue", "await", "watch", "write", "link", "own", "boot",
             "refresh", "identify", "runtime", "persistent", "delete", "reload", "check"}
  /\ then \in {"done", "failed", "remove"}
  /\ stable \in 0..(Stable - 1)
  /\ fault \in BOOLEAN
  /\ said \in {"none", "done", "stopped", "removed", "error", "refused"}

Init ==
  /\ file = FALSE /\ link = FALSE /\ boot = {}
  /\ view = FALSE /\ wanted = FALSE
  /\ active = "inactive" /\ job = "none"
  /\ answer = "none" /\ call = "none" /\ at = "idle" /\ then = "done"
  /\ stable = 0 /\ fault = FALSE /\ said = "none"

-----------------------------------------------------------------------------
(* systemd.                                                                *)

\* What a fresh look at the search path finds.
Found == file /\ link

Running == active # "inactive"

\* daemon-reload.
Reloaded ==
  /\ view' = Found
  /\ wanted' = (Found /\ boot # {})

\* Somebody else's daemon-reload.
OtherReload ==
  /\ Reloaded
  /\ UNCHANGED <<files, unit, caller>>

\* A unit that nothing needs is forgotten, to be read again when asked for.
Collect ==
  /\ view /\ ~wanted /\ ~Running /\ job = "none"
  /\ view' = FALSE
  /\ UNCHANGED <<files, wanted, unit, caller>>

\* The result of a job, to a call that waits for it.
Answer(r) ==
  /\ answer' = IF at = "await" THEN r ELSE answer
  /\ UNCHANGED <<call, at, then, stable, fault, said>>

\* Type=exec: the job is done when the core is executed; or its condition does
\* not hold; or it fails, and Restart=always tries again.  A unit that is no
\* longer found is not started.
RunStart ==
  /\ job = "start"
  /\ job' = "none"
  /\ \/ view /\ active' \in {"active", "inactive"} /\ Answer("done")
     \/ view /\ active' = "activating" /\ Answer("failed")
     \/ ~view /\ Answer("failed") /\ UNCHANGED active
  /\ UNCHANGED <<files, memory>>

\* SIGTERM, and SIGKILL after 20 seconds.
RunStop ==
  /\ job = "stop"
  /\ \/ active \in {"active", "activating"} /\ active' = "deactivating"
        /\ UNCHANGED <<job, caller>>
     \/ active' = "inactive" /\ job' = "none" /\ Answer("done")
  /\ UNCHANGED <<files, memory>>

\* The core ends; Restart=always.
Restart ==
  /\ job = "none"
  /\ \/ active = "active" /\ active' = "activating"
     \/ active = "activating" /\ active' = "active"
  /\ UNCHANGED <<files, memory, job, caller>>

-----------------------------------------------------------------------------
(* Calls.                                                                  *)

Goto(pc) == at' = pc /\ UNCHANGED <<answer, call, then, stable, fault, said>>

Return(s) ==
  /\ at' = "idle" /\ said' = s
  /\ answer' = "none" /\ then' = "done" /\ stable' = 0
  /\ UNCHANGED <<call, fault>>

\* change(start) stops again what it may have started: "issued" is set before
\* the request.  "stopped": so it did.  "refused": an error without a failure.
Cleanup ==
  /\ at' = "verify" /\ then' = "failed"
  /\ answer' = "none" /\ stable' = 0
  /\ UNCHANGED <<call, said>>

Starting == call = "start" /\ then = "done"
Issued   == Starting /\ at \in {"issue", "await", "watch"}

Error == IF Issued THEN Cleanup /\ UNCHANGED fault
         ELSE Return(IF fault THEN "error" ELSE "refused")

\* Connect, a request or a wait fails.
Fails ==
  /\ at # "idle"
  /\ IF Issued THEN Cleanup /\ fault' = TRUE
     ELSE /\ at' = "idle" /\ said' = "error"
          /\ answer' = "none" /\ then' = "done" /\ stable' = 0 /\ fault' = TRUE
          /\ UNCHANGED call

\* Requests that fail after all.
RequestFails ==
  /\ Fails
  /\ UNCHANGED <<files, memory, unit>>

Begin(c) ==
  /\ at = "idle"
  /\ call' = c
  /\ at' = CASE c \in {"start", "stop"} -> "verify"
             [] c = "prepare"           -> "write"
             [] c \in {"on", "off"}     -> "own"
             [] c = "remove"            -> "refresh"
  /\ then' = IF c = "remove" THEN "remove" ELSE "done"
  /\ fault' = FALSE /\ said' = "none"
  /\ UNCHANGED <<answer, stable, files, memory, unit>>

\* properties(): systemd looks for a unit it does not have.  A unit it has must
\* still be reached through the link it was loaded from.
Look      == view' = (view \/ Found)
NotFound  == ~view /\ ~Found
Loaded    == (view \/ Found) /\ Found
NotOurs   == view /\ ~Found

\* Mutant: nothing is stopped when nothing runs.
VerifyRunning ==
  /\ at = "verify"
  /\ Look
  /\ \/ Loaded /\ (Starting \/ Running) /\ Goto("issue")
     \/ NotOurs /\ Error
     \/ /\ NotFound \/ (Loaded /\ ~Starting /\ ~Running)
        /\ IF Starting \/ Running THEN Error
           ELSE IF then = "remove" THEN Goto("identify") ELSE Return("stopped")
  /\ UNCHANGED <<files, wanted, unit>>

\* change(), up to the job.
Verify ==
  /\ at = "verify"
  /\ Look
  /\ \/ Loaded /\ Goto("issue")
     \/ NotOurs /\ Error
     \/ /\ NotFound
        /\ IF Starting \/ Running THEN Error
           ELSE IF then = "remove" THEN Goto("identify") ELSE Return("stopped")
  /\ UNCHANGED <<files, wanted, unit>>

\* The job replaces one that is queued.  The request may fail and have been
\* accepted all the same.
Issue ==
  /\ at = "issue"
  /\ job' = IF Starting THEN "start" ELSE "stop"
  /\ Goto("await") \/ Fails
  /\ UNCHANGED <<files, memory, active>>

Await ==
  /\ at = "await"
  /\ \/ answer = "done" /\ Goto("watch")
     \/ answer = "failed" /\ (IF Issued THEN Cleanup ELSE Return("error")) /\ fault' = TRUE
  /\ UNCHANGED <<files, memory, unit>>

StopEnds == IF then = "remove" THEN Goto("identify") ELSE Return("stopped")

Count ==
  IF stable + 1 = Stable THEN Return("done")
  ELSE stable' = stable + 1 /\ UNCHANGED <<answer, call, at, then, fault, said>>

\* Once a second, until the time limit: stopped, or running and listening.
Watch ==
  /\ at = "watch"
  /\ Look
  /\ \/ NotOurs /\ Error
     \/ ~NotOurs /\ ~Starting /\ ~Running /\ StopEnds
     \/ ~NotOurs /\ Starting /\ active = "active" /\ Count
     \/ ~NotOurs /\ Starting /\ stable' = 0 /\ UNCHANGED <<answer, call, at, then, fault, said>>
  /\ UNCHANGED <<files, wanted, unit>>

\* Prepare: the file is written when it is missing.
Write ==
  /\ at = "write"
  /\ Look
  /\ IF NotOurs THEN Error /\ UNCHANGED file ELSE file' = TRUE /\ Goto("link")
  /\ UNCHANGED <<link, boot, wanted, unit>>

\* LinkUnitFiles, without force, of Prepare and of SetBoot.
Link ==
  /\ at = "link"
  /\ link' = TRUE
  /\ Goto("reload")
  /\ UNCHANGED <<file, boot, memory, unit>>

\* SetBoot: the unit and its file.
Own ==
  /\ at = "own"
  /\ Look
  /\ IF NotOurs \/ ~file THEN Error ELSE Goto("boot")
  /\ UNCHANGED <<files, wanted, unit>>

\* "Disable also removes the link of units outside systemd's search path."
Boot ==
  /\ at = "boot"
  /\ IF call = "on"
     THEN /\ boot' = boot \cup {"etc"} /\ link' = TRUE
          /\ Goto("reload")
     ELSE /\ boot' = boot \ {"etc"} /\ link' = FALSE
          /\ Goto("link")
  /\ UNCHANGED <<file, memory, unit>>

\* Mutant: what systemd has in memory is taken for what there is.
RefreshSkipped ==
  /\ at = "refresh"
  /\ Goto("verify")
  /\ UNCHANGED <<files, memory, unit>>

\* Remove: "Refresh stale properties before checking the identity of a
\* now-missing link", then a stop.
Refresh ==
  /\ at = "refresh"
  /\ IF file THEN UNCHANGED memory ELSE Reloaded
  /\ Goto("verify")
  /\ UNCHANGED <<files, unit>>

Identify ==
  /\ at = "identify"
  /\ Look
  /\ IF NotOurs THEN Error ELSE Goto(IF file THEN "runtime" ELSE "reload")
  /\ UNCHANGED <<files, wanted, unit>>

\* Mutant: only the symlinks in /etc go.
RuntimeSkipped ==
  /\ at = "runtime"
  /\ Goto("persistent")
  /\ UNCHANGED <<files, memory, unit>>

\* DisableUnitFiles, runtime first: "keep the persistent link discoverable".
\* Without the link systemd may, by its version, refuse.
Runtime ==
  /\ at = "runtime"
  /\ \/ boot' = boot \ {"run"} /\ Goto("persistent")
     \/ ~link /\ Error /\ UNCHANGED boot
  /\ UNCHANGED <<file, link, memory, unit>>

\* Mutant: the file goes before what refers to it.
PersistentLate ==
  /\ at = "persistent"
  /\ Goto("delete")
  /\ UNCHANGED <<files, memory, unit>>

Persistent ==
  /\ at = "persistent"
  /\ \/ boot' = boot \ {"etc"} /\ link' = FALSE /\ Goto("delete")
     \/ ~link /\ Error /\ UNCHANGED <<boot, link>>
  /\ UNCHANGED <<file, memory, unit>>

Delete ==
  /\ at = "delete"
  /\ file' = FALSE
  /\ Goto("reload")
  /\ UNCHANGED <<link, boot, memory, unit>>

Reload ==
  /\ at = "reload"
  /\ Reloaded
  /\ Goto("check")
  /\ UNCHANGED <<files, unit>>

\* The last look, of all three.
Check ==
  /\ at = "check"
  /\ Look
  /\ CASE call = "remove" /\ NotFound /\ ~Running -> Return("removed")
       [] call = "prepare" /\ Loaded              -> Return("done")
       [] call = "on" /\ Loaded /\ boot # {}      -> Return("done")
       [] call = "off" /\ Loaded /\ boot = {}     -> Return("done")
       [] OTHER                                   -> Error
  /\ UNCHANGED <<files, wanted, unit>>

-----------------------------------------------------------------------------
(* The rest of the system.                                                 *)

\* The worker dies.
Crash ==
  /\ at # "idle"
  /\ at' = "idle" /\ said' = "none"
  /\ answer' = "none" /\ then' = "done" /\ stable' = 0
  /\ UNCHANGED <<call, fault, files, memory, unit>>

\* An administrator enables the unit until the next boot, between calls.
EnableRuntime ==
  /\ at = "idle" /\ Found
  /\ boot' = boot \cup {"run"}
  /\ said' = IF said = "stopped" THEN said ELSE "none"
  /\ UNCHANGED <<file, link, memory, unit, answer, call, at, then, stable, fault>>

\* /run is lost; units that are enabled are started.
Reboot ==
  /\ boot' = boot \ {"run"}
  /\ view' = Found
  /\ wanted' = (Found /\ "etc" \in boot)
  /\ job' = "none"
  /\ active' \in IF wanted' THEN {"inactive", "activating", "active"} ELSE {"inactive"}
  /\ at' = "idle" /\ said' = "none" /\ answer' = "none" /\ then' = "done" /\ stable' = 0
  /\ UNCHANGED <<file, link, call, fault>>

-----------------------------------------------------------------------------

Change == Verify \/ Issue \/ Await \/ Watch
Manage ==
  \/ Write \/ Link \/ Own \/ Boot \/ Refresh \/ Identify \/ Runtime \/ Persistent
  \/ Delete \/ Reload \/ Check

Next ==
  \/ \E c \in Calls : Begin(c)
  \/ Change \/ Manage \/ RequestFails
  \/ OtherReload \/ Collect \/ RunStart \/ RunStop \/ Restart
  \/ Crash \/ EnableRuntime \/ Reboot

Spec == Init /\ [][Next]_vars

-----------------------------------------------------------------------------
(* Properties.                                                             *)

\* The runtime as Manager sees it.  A job for a unit that is neither in memory
\* nor to be found starts nothing.
Live == active \in {"active", "deactivating"}
Kept == active \in {"active", "activating"} \/ (job = "start" /\ (view \/ Found))
Call ==
  CASE at = "idle"                                -> "none"
    [] at # "idle" /\ call \in {"start", "stop"}  -> call
    [] OTHER                                      -> "other"

Adapter == INSTANCE RuntimeCalls WITH
  live <- Live, kept <- Kept, call <- Call, stopped <- said \in {"stopped", "removed"}

\* The adapter implements RuntimeCalls: when Stop or Remove succeeds, and when a
\* Start fails and its cleanup does not, the core is down and no job is left that
\* would bring it up, through whatever systemd does, until the next call or boot.
ImplementsAdapter == Adapter!Spec

\* "Refuse to delete the data while systemd refers to it": when Remove
\* succeeds there is no file, no link, no symlink, no process and no job.
RemovedIsGone ==
  said = "removed" => ~file /\ ~link /\ boot = {} /\ ~Running /\ ~view

\* A successful SetBoot has told what the next boot will do, and the unit can
\* still be started by hand.
BootIsTrue ==
  said = "done" /\ call \in {"on", "off"} => Found /\ (call = "on" <=> boot # {})

\* What a successful call says of boot and removal is so.
SaidIsTrue == RemovedIsGone /\ BootIsTrue

\* The unit file is deleted when nothing runs and nothing leads to it.
DeletedLast == [][file /\ ~file' => ~link /\ boot = {} /\ ~Running]_vars

\* A unit that lost its link in an interrupted call: systemd may remember it, so
\* that it is neither found nor recognised.
Unlinked == file /\ ~link

\* "A prior attempt may have deleted the source before daemon-reload failed":
\* whatever earlier calls have left, Remove fails only for a request that fails,
\* but for a unit that lost its link.
RetrySucceeds == said = "refused" /\ call = "remove" => Unlinked
=============================================================================
