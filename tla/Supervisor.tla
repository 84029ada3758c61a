------------------------------ MODULE Supervisor ------------------------------
(***************************************************************************)
(* The runtime of the UFI platform (internal/platform/ufi.go): Start and   *)
(* Stop, called by a worker, the supervisor process that Start leaves      *)
(* behind, the core below it, the records by which processes find each     *)
(* other, and the network rules both sides change (NetworkPromise).        *)
(*                                                                         *)
(* Calls follow one another, of one worker or of several.  A worker that   *)
(* dies leaves what it has started; the processes it started have inherited *)
(* control.lock, so that the next worker comes when none of them is left.  *)
(* Any process may be killed at any time, and the device may reboot.       *)
(***************************************************************************)
EXTENDS Naturals

CONSTANTS
  Supers,   \* supervisor processes that exist, or are recorded, at one time
  Cores,    \* the same for the core
  Stable,   \* consecutive good answers that Start waits for (5)
  Polls     \* bound: answers it waits for at all (20)

None   == "none"
Caller == "caller"
Gone   == "gone"     \* a process that has died; its script goes on

ASSUME SupervisorAssumption ==
  /\ Stable \in Nat \ {0} /\ Polls \in Nat
  /\ Supers \cap Cores = {} /\ {None, Caller, Gone} \cap (Supers \cup Cores) = {}

VARIABLES
  net, script, last,   \* the network rules and the script at work on them
  holder,    \* who has network.lock
  sup,       \* the supervisors: control point, signal received, core started
  core,      \* the cores: a killed one has still to go
  supRec,    \* the process that supervisor.json names
  coreRec,   \* the process that core.json names
  at,        \* the control point of the worker's call
  then,      \* what follows the stop it is in
  child,     \* the supervisor that Start has started
  stable,    \* good answers in a row
  polls,     \* answers so far
  stopped,   \* the last call has ended with everything stopped
  orphaned   \* the worker has died in a call

rules   == <<net, script, last, holder>>
records == <<supRec, coreRec>>
caller  == <<at, then, child, stable, polls, stopped, orphaned>>
vars    == <<rules, sup, core, records, caller>>

Net == INSTANCE NetworkPromise

\* Between the records: a supervisor can be found and does its work.
Supervising == {"handle", "loop", "prepare", "preparing", "spawn", "note", "abort", "watch",
                "tick", "syncing", "halt", "unguard", "unguarding", "settle", "settling",
                "forget", "backoff", "leave"}
Stopping    == {"supervisor", "supWait", "supKilled", "core", "coreWait", "coreKilled",
                "owned", "unguard", "unguarding"}
Starting    == {"check", "checking", "spawn", "poll", "probe", "rules", "verify",
                "reap", "reaping", "reapKilled"}
NoSuper     == [pc |-> "dead", sig |-> "none", core |-> None]

\* The types of the variables.
TypeOK ==
  /\ Net!PromiseOK
  /\ holder \in Supers \cup {None, Caller, Gone}
  /\ sup \in [Supers -> [pc   : {"dead", "lock", "record", "exit"} \cup Supervising,
                         sig  : {"none", "term", "kill"},
                         core : Cores \cup {None}]]
  /\ core \in [Cores -> {"dead", "live", "killed"}]
  /\ supRec \in Supers \cup {None}
  /\ coreRec \in Cores \cup {None}
  /\ at \in {"idle"} \cup Stopping \cup Starting
  /\ then \in {"done", "check", "failed", "unreaped"}
  /\ child \in Supers \cup {None}
  /\ stable \in 0..(Stable - 1)
  /\ polls \in 0..Polls
  /\ stopped \in BOOLEAN
  /\ orphaned \in BOOLEAN

Init ==
  /\ Net!Init /\ holder = None
  /\ sup = [s \in Supers |-> NoSuper]
  /\ core = [c \in Cores |-> "dead"]
  /\ supRec = None /\ coreRec = None
  /\ at = "idle" /\ then = "done" /\ child = None
  /\ stable = 0 /\ polls = 0
  /\ stopped = FALSE /\ orphaned = FALSE

-----------------------------------------------------------------------------
(* Processes and their records, network.lock and the script.               *)

SupDead(s) == sup[s].pc = "dead"

\* alive(): the process a record names exists.  A record never matches another
\* process, for it holds the start time.
SupAlive  == supRec # None /\ ~SupDead(supRec)
CoreAlive == coreRec # None /\ core[coreRec] # "dead"

AllGone == (\A s \in Supers : SupDead(s)) /\ (\A c \in Cores : core[c] = "dead")

\* A signal, to a process that may already have gone.
Signalled(s, sig) ==
  [sup EXCEPT ![s].sig = IF SupDead(s) \/ @ = "kill" THEN @ ELSE sig]
Killed(c) == [core EXCEPT ![c] = IF @ = "live" THEN "killed" ELSE @]

\* The kernel closes what the process had open; its script goes on.
Bury(s) ==
  /\ sup' = [sup EXCEPT ![s] = NoSuper]
  /\ holder' = IF holder = s THEN Gone ELSE holder
  /\ UNCHANGED <<net, script, last>>

\* network(): the lock, then the script.
Run(p, a)    == holder = None /\ holder' = p /\ Net!Begin(a)
Answer(p, r) ==
  /\ holder = p /\ script = "none" /\ last = r
  /\ holder' = None /\ last' = "none"
  /\ UNCHANGED <<net, script>>

ScriptWorks ==
  /\ Net!Work
  /\ UNCHANGED <<holder, sup, core, records, caller>>

ScriptEnds ==
  /\ \E r \in {"ok", "fail"} : Net!End(r)
  /\ UNCHANGED <<holder, sup, core, records, caller>>

\* The script inherits the lock: it is free when both have ended.
Unlock ==
  /\ holder = Gone /\ script = "none"
  /\ holder' = None /\ last' = "none"
  /\ UNCHANGED <<net, script, sup, core, records, caller>>

-----------------------------------------------------------------------------
(* Supervise.                                                              *)

\* A killed process does nothing any more.
In(s, pc) == sup[s].pc = pc /\ sup[s].sig # "kill"
To(s, pc) == sup' = [sup EXCEPT ![s].pc = pc]
Termed(s) == sup[s].sig = "term"

\* supervisor.lock is held to the end of the process.
Locked(s) == sup[s].pc \notin {"dead", "lock"}

Lock(s) ==
  /\ In(s, "lock")
  /\ \/ (\A o \in Supers : ~Locked(o)) /\ To(s, "record") /\ UNCHANGED rules
     \/ Bury(s)
  /\ UNCHANGED <<core, records, caller>>

Record(s) ==
  /\ In(s, "record")
  /\ \/ supRec' = s /\ To(s, "handle") /\ UNCHANGED rules
     \/ Bury(s) /\ UNCHANGED supRec
  /\ UNCHANGED <<core, coreRec, caller>>

\* From here on SIGTERM cancels the context; before, it ends the process.
Handle(s) ==
  /\ In(s, "handle")
  /\ To(s, "loop")
  /\ UNCHANGED <<rules, core, records, caller>>

Loop(s) ==
  /\ In(s, "loop")
  /\ To(s, IF Termed(s) THEN "leave" ELSE "prepare")
  /\ UNCHANGED <<rules, core, records, caller>>

\* Mutant: an error of the preparation is not looked at.
PrepareUnchecked(s) ==
  /\ \/ In(s, "prepare") /\ Run(s, "prepare") /\ To(s, "preparing")
     \/ In(s, "prepare") /\ UNCHANGED rules /\ To(s, "spawn")
     \/ In(s, "preparing") /\ (Answer(s, "ok") \/ Answer(s, "fail")) /\ To(s, "spawn")
  /\ UNCHANGED <<core, records, caller>>

\* "Protect listeners even before the hotspot exists; no core starts unguarded."
Prepare(s) ==
  /\ \/ In(s, "prepare") /\ Run(s, "prepare") /\ To(s, "preparing")
     \/ In(s, "prepare") /\ UNCHANGED rules /\ To(s, "leave")
     \/ In(s, "preparing") /\ Answer(s, "ok") /\ To(s, "spawn")
     \/ In(s, "preparing") /\ Answer(s, "fail") /\ To(s, "leave")
  /\ UNCHANGED <<core, records, caller>>

Spawn(s) ==
  /\ In(s, "spawn")
  /\ \/ \E c \in Cores :
          /\ core[c] = "dead" /\ coreRec # c
          /\ core' = [core EXCEPT ![c] = "live"]
          /\ sup' = [sup EXCEPT ![s].pc = "note", ![s].core = c]
     \/ To(s, "leave") /\ UNCHANGED core
  /\ UNCHANGED <<rules, records, caller>>

\* core.json and core.pid; without both the core is killed.
Note(s) ==
  /\ In(s, "note")
  /\ \/ coreRec' = sup[s].core /\ To(s, "watch") /\ UNCHANGED core
     \/ coreRec' \in {coreRec, sup[s].core} /\ To(s, "abort") /\ core' = Killed(sup[s].core)
  /\ UNCHANGED <<rules, supRec, caller>>

Abort(s) ==
  /\ In(s, "abort")
  /\ core[sup[s].core] = "dead"
  /\ To(s, "leave")
  /\ UNCHANGED <<rules, core, records, caller>>

\* Mutant: the record goes as soon as the signal comes.
SeeTermForgets(s) ==
  /\ In(s, "watch") /\ Termed(s)
  /\ To(s, "halt")
  /\ supRec' = None
  /\ UNCHANGED <<rules, core, coreRec, caller>>

\* The loop that watches the core: a signal ...
SeeTerm(s) ==
  /\ In(s, "watch") /\ Termed(s)
  /\ To(s, "halt")
  /\ UNCHANGED <<rules, core, records, caller>>

\* ... the end of the core ...
SeeExit(s) ==
  /\ In(s, "watch") /\ core[sup[s].core] = "dead"
  /\ To(s, "settle")
  /\ UNCHANGED <<rules, core, records, caller>>

\* ... and the ticker.  "Unknown guard state must not leave a public proxy
\* listening": the core goes when a sync fails.
Tick(s) ==
  /\ \/ In(s, "watch") /\ To(s, "tick") /\ UNCHANGED <<rules, core>>
     \/ In(s, "tick") /\ Run(s, "sync") /\ To(s, "syncing") /\ UNCHANGED core
     \/ In(s, "tick") /\ UNCHANGED rules /\ To(s, "watch") /\ core' = Killed(sup[s].core)
     \/ In(s, "syncing") /\ Answer(s, "ok") /\ To(s, "watch") /\ UNCHANGED core
     \/ In(s, "syncing") /\ Answer(s, "fail") /\ To(s, "watch") /\ core' = Killed(sup[s].core)
  /\ UNCHANGED <<records, caller>>

\* stopProcess("core"), and then the end of the core, however long it takes.
Halt(s) ==
  /\ In(s, "halt")
  /\ \/ core[sup[s].core] = "live" /\ core' = Killed(sup[s].core) /\ UNCHANGED sup
     \/ core[sup[s].core] = "dead" /\ To(s, "unguard") /\ UNCHANGED core
  /\ UNCHANGED <<rules, records, caller>>

Unguard(s) ==
  /\ \/ In(s, "unguard") /\ Run(s, "stop") /\ To(s, "unguarding")
     \/ In(s, "unguard") /\ UNCHANGED rules /\ To(s, "leave")
     \/ In(s, "unguarding") /\ Answer(s, "ok") /\ To(s, "settle")
     \/ In(s, "unguarding") /\ Answer(s, "fail") /\ To(s, "leave")
  /\ UNCHANGED <<core, records, caller>>

\* After the core: the rules, whatever comes of it, ...
Settle(s) ==
  /\ \/ In(s, "settle") /\ Run(s, "stop") /\ To(s, "settling")
     \/ In(s, "settle") /\ UNCHANGED rules /\ To(s, "forget")
     \/ In(s, "settling") /\ (Answer(s, "ok") \/ Answer(s, "fail")) /\ To(s, "forget")
  /\ UNCHANGED <<core, records, caller>>

\* ... its record, ...
Forget(s) ==
  /\ In(s, "forget")
  /\ coreRec' \in {None, coreRec}
  /\ sup' = [sup EXCEPT ![s].pc = "backoff", ![s].core = None]
  /\ UNCHANGED <<rules, core, supRec, caller>>

\* ... and a pause before the next one.
Backoff(s) ==
  /\ In(s, "backoff")
  /\ To(s, "loop") \/ (Termed(s) /\ To(s, "leave"))
  /\ UNCHANGED <<rules, core, records, caller>>

\* The deferred calls, then the end of the process.
Leave(s) ==
  /\ In(s, "leave")
  /\ supRec' \in {None, supRec}
  /\ To(s, "exit")
  /\ UNCHANGED <<rules, core, coreRec, caller>>

Exit(s) ==
  /\ \/ In(s, "exit")
     \/ ~SupDead(s) /\ sup[s].sig = "kill"
     \/ Termed(s) /\ sup[s].pc \in {"lock", "record", "handle"}
  /\ Bury(s)
  /\ UNCHANGED <<core, records, caller>>

Supervise(s) ==
  \/ Lock(s) \/ Record(s) \/ Handle(s) \/ Loop(s) \/ Prepare(s) \/ Spawn(s) \/ Note(s)
  \/ Abort(s) \/ SeeTerm(s) \/ SeeExit(s) \/ Tick(s) \/ Halt(s) \/ Unguard(s) \/ Settle(s)
  \/ Forget(s) \/ Backoff(s) \/ Leave(s) \/ Exit(s)

-----------------------------------------------------------------------------
(* Calls.  Stop is a call, and the first and the last part of Start.       *)

Goto(pc) == at' = pc /\ UNCHANGED <<then, child, stable, polls, stopped, orphaned>>

Rest == at' = "idle" /\ then' = "done" /\ child' = None /\ stable' = 0 /\ polls' = 0

\* The call ends; unless everything is stopped, nothing is promised.
Return(all) == Rest /\ stopped' = all /\ UNCHANGED orphaned

StopAnd(t) ==
  /\ at' = "supervisor" /\ then' = t
  /\ stable' = 0 /\ polls' = 0
  /\ UNCHANGED <<child, stopped, orphaned>>

\* Stop is done, Start goes on, or it has cleaned up.
StopEnds ==
  \/ then \in {"done", "failed"} /\ Return(TRUE)
  \/ then = "unreaped" /\ Return(FALSE)
  \/ then = "check" /\ Goto("check")

\* A call: Stop, or Start, which writes the interfaces and begins with a stop.
Begin(t) ==
  /\ at = "idle"
  /\ orphaned => AllGone
  /\ at' = "supervisor" /\ then' = t
  /\ stopped' = FALSE /\ orphaned' = FALSE
  /\ UNCHANGED <<child, stable, polls, rules, sup, core, records>>

\* stopProcess("supervisor"): SIGTERM, five seconds, SIGKILL, five seconds.
StopSupervisor ==
  /\ at = "supervisor"
  /\ IF SupAlive
     THEN Goto("supWait") /\ sup' = Signalled(supRec, "term")
     ELSE Goto("core") /\ UNCHANGED sup
  /\ UNCHANGED <<rules, core, records>>

AwaitSupervisor ==
  /\ \/ at \in {"supWait", "supKilled"} /\ ~SupAlive /\ Goto("core") /\ UNCHANGED sup
     \/ at = "supWait" /\ SupAlive /\ sup' = Signalled(supRec, "kill") /\ Goto("supKilled")
     \/ at = "supKilled" /\ SupAlive /\ Return(FALSE) /\ UNCHANGED sup
  /\ UNCHANGED <<rules, core, records>>

\* Mutant: the stop of the supervisor is taken for that of its core.
StopCoreSkipped ==
  /\ at = "core"
  /\ Goto("owned")
  /\ UNCHANGED <<rules, sup, core, records>>

\* stopProcess("core"), which may end at once, on SIGTERM, on SIGKILL or never.
StopCore ==
  /\ at = "core"
  /\ Goto(IF CoreAlive THEN "coreWait" ELSE "owned")
  /\ UNCHANGED <<rules, sup, core, records>>

\* Mutant: a core is asked to end, and waited for.
AwaitCorePolitely ==
  /\ at = "coreWait" /\ ~CoreAlive
  /\ Goto("owned")
  /\ UNCHANGED <<rules, sup, core, records>>

AwaitCore ==
  /\ \/ at \in {"coreWait", "coreKilled"} /\ ~CoreAlive /\ Goto("owned") /\ UNCHANGED core
     \/ at = "coreWait" /\ CoreAlive /\ core' = Killed(coreRec) /\ Goto("coreKilled")
     \/ at = "coreKilled" /\ CoreAlive /\ Return(FALSE) /\ UNCHANGED core
  /\ UNCHANGED <<rules, sup, records>>

\* Mutant: the result of the script is not looked at.
StopNetworkUnchecked ==
  /\ \/ at = "owned" /\ UNCHANGED rules /\ IF net = "clean" THEN StopEnds ELSE Goto("unguard")
     \/ at = "unguard" /\ Run(Caller, "stop") /\ Goto("unguarding")
     \/ at = "unguard" /\ UNCHANGED rules /\ StopEnds
     \/ at = "unguarding" /\ (Answer(Caller, "ok") \/ Answer(Caller, "fail")) /\ StopEnds
  /\ UNCHANGED <<sup, core, records>>

\* The rules, when network.owned says there are some.
StopNetwork ==
  /\ \/ at = "owned" /\ UNCHANGED rules /\ IF net = "clean" THEN StopEnds ELSE Goto("unguard")
     \/ at = "unguard" /\ Run(Caller, "stop") /\ Goto("unguarding")
     \/ at = "unguard" /\ UNCHANGED rules /\ Return(FALSE)
     \/ at = "unguarding" /\ Answer(Caller, "ok") /\ StopEnds
     \/ at = "unguarding" /\ Answer(Caller, "fail") /\ Return(FALSE)
  /\ UNCHANGED <<sup, core, records>>

\* Start, after its stop: the check of the firewall, ...
StartChecks ==
  /\ \/ at = "check" /\ UNCHANGED rules /\ (Return(FALSE) \/ StopAnd("failed"))
     \/ at = "check" /\ Run(Caller, "check") /\ Goto("checking")
     \/ at = "checking" /\ Answer(Caller, "fail") /\ StopAnd("failed")
     \/ at = "checking" /\ Answer(Caller, "ok") /\ Goto("spawn")
  /\ UNCHANGED <<sup, core, records>>

\* ... the process.
StartSpawns ==
  /\ at = "spawn"
  /\ \/ (Return(FALSE) \/ StopAnd("failed")) /\ UNCHANGED sup
     \/ \E s \in Supers :
          /\ SupDead(s) /\ supRec # s
          /\ sup' = [sup EXCEPT ![s] = [NoSuper EXCEPT !.pc = "lock"]]
          /\ at' = "poll" /\ child' = s
          /\ UNCHANGED <<then, stable, polls, stopped, orphaned>>
  /\ UNCHANGED <<rules, core, records>>

\* Every second: the limit of the caller, the end of the process, or a look.
StartPolls ==
  /\ at = "poll"
  /\ \/ Goto("reap")
     \/ /\ polls < Polls
        /\ at' = "probe" /\ polls' = polls + 1
        /\ UNCHANGED <<then, child, stable, stopped, orphaned>>
  /\ UNCHANGED <<rules, sup, core, records>>

NotReady ==
  /\ at' = "poll" /\ stable' = 0
  /\ UNCHANGED <<then, child, polls, stopped, orphaned>>

\* network("ready"): the core and its listeners, then the rules.
StartProbes ==
  /\ \/ at = "probe" /\ holder = None /\ CoreAlive /\ holder' = Caller /\ Goto("rules")
     \/ at = "probe" /\ NotReady /\ UNCHANGED holder
     \/ at = "rules" /\ holder' = None /\ NotReady
     \/ at = "rules" /\ holder' = None /\ net \in Net!Held /\ Goto("verify")
  /\ UNCHANGED <<net, script, last, sup, core, records>>

\* The answer counts when the supervisor can be found; a death that is not
\* noticed yet does not hinder a start that is ready.
StartVerifies ==
  /\ at = "verify"
  /\ \/ ~SupAlive /\ NotReady
     \/ /\ SupAlive /\ stable + 1 < Stable
        /\ at' = "poll" /\ stable' = stable + 1
        /\ UNCHANGED <<then, child, polls, stopped, orphaned>>
     \/ SupAlive /\ stable + 1 = Stable /\ (Return(FALSE) \/ (SupDead(child) /\ Goto("reap")))
  /\ UNCHANGED <<rules, sup, core, records>>

\* Mutant: a failed start leaves its process to the stop.
ReapNot ==
  /\ at = "reap"
  /\ StopAnd("failed")
  /\ UNCHANGED <<rules, sup, core, records>>

\* A start that fails ends its own process, which may not be recorded yet,
\* before it stops what is.
Reap ==
  /\ \/ /\ at \in {"reap", "reaping", "reapKilled"} /\ SupDead(child)
        /\ StopAnd("failed") /\ UNCHANGED sup
     \/ at = "reap" /\ ~SupDead(child) /\ sup' = Signalled(child, "term") /\ Goto("reaping")
     \/ at = "reaping" /\ sup' = Signalled(child, "kill") /\ Goto("reapKilled")
     \/ at = "reapKilled" /\ ~SupDead(child) /\ StopAnd("unreaped") /\ UNCHANGED sup
  /\ UNCHANGED <<rules, core, records>>

Calls ==
  \/ StopSupervisor \/ AwaitSupervisor \/ StopCore \/ AwaitCore \/ StopNetwork
  \/ StartChecks \/ StartSpawns \/ StartPolls \/ StartProbes \/ StartVerifies \/ Reap

-----------------------------------------------------------------------------
(* Failures.                                                               *)

\* A supervisor is killed, by the out-of-memory killer or by hand.
SuperDies(s) ==
  /\ ~SupDead(s)
  /\ Bury(s)
  /\ UNCHANGED <<core, records, caller>>

\* The core ends: by itself, on SIGTERM, or killed.
CoreDies(c) ==
  /\ core[c] # "dead"
  /\ core' = [core EXCEPT ![c] = "dead"]
  /\ UNCHANGED <<rules, sup, records, caller>>

\* The worker dies in a call.
CallerDies ==
  /\ at # "idle"
  /\ Rest /\ stopped' = FALSE /\ orphaned' = TRUE
  /\ holder' = IF holder = Caller THEN Gone ELSE holder
  /\ UNCHANGED <<net, script, last, sup, core, records>>

Reboot ==
  /\ net' = IF net = "clean" THEN "clean" ELSE "dirty"
  /\ script' = "none" /\ last' = "none" /\ holder' = None
  /\ sup' = [s \in Supers |-> NoSuper]
  /\ core' = [c \in Cores |-> "dead"]
  /\ Rest /\ stopped' = FALSE /\ orphaned' = FALSE
  /\ UNCHANGED records

-----------------------------------------------------------------------------

Next ==
  \/ \E s \in Supers : Supervise(s) \/ SuperDies(s)
  \/ \E c \in Cores : CoreDies(c)
  \/ \E t \in {"done", "check"} : Begin(t)
  \/ Calls \/ ScriptWorks \/ ScriptEnds \/ Unlock
  \/ CallerDies \/ Reboot

Spec == Init /\ [][Next]_vars

\* Processes run, and scripts end (host.Command limits them to 40 seconds).
\* Nothing is assumed of a core, not even that SIGKILL ends it.
Fairness ==
  WF_vars(\E s \in Supers : Supervise(s)) /\ WF_vars(Calls) /\ WF_vars(ScriptEnds \/ Unlock)

FairSpec == Spec /\ Fairness

-----------------------------------------------------------------------------
(* Properties.                                                             *)

\* The one core nothing knows of: its supervisor was killed between starting
\* and recording it.
Lost(c) == coreRec # c /\ \A s \in Supers : SupDead(s) \/ sup[s].core # c

\* "No core starts unguarded", and none loses its protection while it lives:
\* through failed and interrupted syncs, crashes of its supervisor, and stops in
\* which it does not die.
GuardedCore == \A c \in Cores : core[c] # "dead" /\ ~Lost(c) => net \in Net!Held

\* Whoever supervises can be found by its record, and is alone.
OneSupervisor == \A s \in Supers : sup[s].pc \in Supervising => supRec = s

\* Two cores never share the ports and the rules.
OneCore ==
  \A c, d \in Cores : core[c] # "dead" /\ ~Lost(c) /\ core[d] # "dead" /\ ~Lost(d) => c = d

\* At any time one supervisor, which can be found, and one core.
OneOfEach == OneSupervisor /\ OneCore

\* The runtime as Manager sees it: a core, but the lost one; what would start
\* another; and the call.
Live == \E c \in Cores : core[c] # "dead" /\ ~Lost(c)
Kept == \E s \in Supers : sup[s].pc \notin {"dead", "exit"} /\ sup[s].sig # "kill"
Call ==
  CASE at = "idle"                    -> "none"
    [] at # "idle" /\ then = "done"   -> "stop"
    [] at # "idle" /\ then # "done"   -> "start"

Adapter == INSTANCE RuntimeCalls WITH live <- Live, kept <- Kept, call <- Call

\* Start, Stop and the supervisor implement RuntimeCalls: nothing but a start in
\* progress brings a supervisor up, nothing but a supervisor a core, and a call
\* that says that everything is stopped leaves neither, unless the device
\* restarts, until the next call.
ImplementsAdapter == Adapter!Spec

\* Start counts an answer only of the core that its own supervisor has started, and
\* watches: never of one that an earlier call left, which has read another
\* configuration, nor of one that nobody would start again.
AnswersAreOwn ==
  [][at = "probe" /\ at' = "rules" /\ ~SupDead(child) =>
       Live /\ Kept /\ sup[child].core = coreRec]_vars

\* Nor are there rules, and none come back, unless the script of a killed process
\* is still at work.
StopCleans ==
  [][stopped' /\ (stopped => net = "clean" /\ holder # Gone) => net' = "clean"]_vars

\* A call ends, whatever the processes do: network.lock comes free, and a
\* supervisor or a core that does not go is given up.
CallEnds == at # "idle" ~> at = "idle"
=============================================================================
