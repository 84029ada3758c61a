------------------------------ MODULE Dashboard ------------------------------
(***************************************************************************)
(* The installation of the dashboard (internal/manager dashboard.go) with  *)
(* the configurations that refer to it: the link "dashboard", the          *)
(* directories below "dashboards", their rows, and the flag by which the   *)
(* active configuration makes the core serve the link.                     *)
(*                                                                         *)
(* control.lock lets one task run at a time; a task may fail at every step *)
(* and its worker may die between any two.  The transaction of a           *)
(* configuration, whose steps are in ConfigTransaction, is here its        *)
(* outcome: refused or undone, done, or left for the next task to undo.    *)
(***************************************************************************)
EXTENDS FiniteSets

CONSTANTS
  Ids,         \* the ids of tasks that install a dashboard, each used once
  None         \* no link; no configuration to go back to

\* url: there is a configuration; before the first one its settings are those
\* of the table of controllers.
Configs == [url : BOOLEAN, enabled : BOOLEAN, dash : BOOLEAN]

ASSUME DashboardAssumption == None \notin Ids \cup Configs

VARIABLES
  link,        \* the dashboard that "dashboard" names
  dirs,        \* the complete directories below "dashboards"
  rows,        \* the ids in the table of dashboards
  config,      \* what the active configuration says
  prior,       \* the configuration the pending row goes back to
  call,        \* the task, or the last one
  id,          \* its id, when it installs
  at,          \* its control point
  previous,    \* its copy of the link
  said         \* how the last task ended

state  == <<link, dirs, rows>>
worker == <<call, id, at, previous, said>>
vars   == <<state, config, prior, worker>>

\* The types of the variables.
TypeOK ==
  /\ link \in Ids \cup {None} /\ dirs \subseteq Ids /\ rows \subseteq Ids
  /\ config \in Configs /\ prior \in Configs \cup {None}
  /\ call \in {"none", "install", "update", "controller"}
  /\ id \in Ids \cup {None} /\ previous \in Ids \cup {None}
  /\ at \in {"idle", "recover", "fetch", "row", "rename", "switch", "apply",
             "restore", "discard", "prune", "update", "controller"}
  /\ said \in {"none", "done", "refused", "failed", "broken"}

Init ==
  /\ link = None /\ dirs = {} /\ rows = {}
  /\ config = [url |-> FALSE, enabled |-> TRUE, dash |-> FALSE] /\ prior = None
  /\ call = "none" /\ id = None /\ at = "idle" /\ previous = None /\ said = "none"

-----------------------------------------------------------------------------

Goto(pc) == at' = pc /\ UNCHANGED <<call, id, previous, said>>

Discards(s) == at' = "discard" /\ said' = s /\ UNCHANGED <<call, id, previous>>

Return(s) == at' = "idle" /\ said' = s /\ UNCHANGED <<call, id, previous>>

\* A link to a directory with its index, and a row.
Installed == link \in dirs \cap rows

\* What a task writes into the configuration that it applies.
Candidate(enabled) == [url |-> TRUE, enabled |-> enabled, dash |-> Installed /\ enabled]

\* applyConfig fails: refused, or undone; or the rollback or ClearPending fails,
\* so that the pending row stays, over either configuration.
ApplyFails(enabled) ==
  \/ UNCHANGED <<config, prior>>
  \/ prior' = config /\ config' \in {config, Candidate(enabled)}

ApplyWorks(enabled) == config' = Candidate(enabled) /\ UNCHANGED prior

Begin(c, i) ==
  /\ at = "idle"
  /\ IF c = "install" THEN i \in Ids \ rows ELSE i = None
  /\ call' = c /\ id' = i /\ at' = "recover" /\ said' = "none"
  /\ UNCHANGED <<previous, state, config, prior>>

\* Every task first goes back to what the pending row names.
Recover ==
  /\ at = "recover"
  /\ \/ /\ config' = IF prior = None THEN config ELSE prior
        /\ prior' = None
        /\ Goto(IF call = "install" THEN "fetch" ELSE call)
     \/ /\ prior # None
        /\ config' \in {config, prior}
        /\ Return("refused")
        /\ UNCHANGED prior
  /\ UNCHANGED state

\* Download, digest and extraction, into the work directory of the task.
Fetch ==
  /\ at = "fetch"
  /\ Goto("row") \/ Return("refused")
  /\ UNCHANGED <<state, config, prior>>

Row ==
  /\ at = "row"
  /\ \/ rows' = rows \cup {id} /\ Goto("rename")
     \/ UNCHANGED rows /\ Return("refused")
  /\ UNCHANGED <<link, dirs, config, prior>>

Rename ==
  /\ at = "rename"
  /\ \/ /\ previous' = link /\ dirs' = dirs \cup {id}
        /\ at' = "switch" /\ UNCHANGED <<call, id, said>>
     \/ Return("refused") /\ UNCHANGED dirs
  /\ UNCHANGED <<link, rows, config, prior>>

Switch ==
  /\ at = "switch"
  /\ \/ link' = id /\ Goto("apply")
     \/ UNCHANGED link /\ Discards("failed")
  /\ UNCHANGED <<dirs, rows, config, prior>>

\* The active configuration does not show a dashboard that it should.
Missing == config.url /\ ~config.dash /\ config.enabled

\* Mutant: the core is left to the next update.
ApplyNever ==
  /\ at = "apply"
  /\ Goto("prune")
  /\ UNCHANGED <<state, config, prior>>

Apply ==
  /\ at = "apply"
  /\ \/ Missing /\ ApplyWorks(TRUE) /\ Goto("prune")
     \/ Missing /\ ApplyFails(TRUE) /\ Goto("restore")
     \/ ~Missing /\ Goto("prune") /\ UNCHANGED <<config, prior>>
     \/ Goto("restore") /\ UNCHANGED <<config, prior>>     \* the configuration cannot be read
  /\ UNCHANGED state

\* Mutant: only a first installation is undone.
RestoreFirstOnly ==
  /\ at = "restore"
  /\ link' = IF previous = None THEN None ELSE link
  /\ Discards("failed")
  /\ UNCHANGED <<dirs, rows, config, prior>>

Restore ==
  /\ at = "restore"
  /\ \/ link' = previous /\ Discards("failed")
     \/ UNCHANGED link /\ Discards("broken")
  /\ UNCHANGED <<dirs, rows, config, prior>>

\* Mutant: the new directory goes after every failure.
DiscardAlways ==
  /\ at = "discard"
  /\ dirs' \in {dirs, dirs \ {id}}
  /\ Return(said)
  /\ UNCHANGED <<link, rows, config, prior>>

\* The deferred removal, whose errors are ignored.
Discard ==
  /\ at = "discard"
  /\ dirs' \in IF link = id THEN {dirs} ELSE {dirs, dirs \ {id}}
  /\ Return(said)
  /\ UNCHANGED <<link, rows, config, prior>>

\* The other directories go, one by one; errors are ignored.
Prune ==
  /\ at = "prune"
  /\ \/ \E d \in dirs \ {id} : dirs' = dirs \ {d} /\ UNCHANGED worker
     \/ Return("done") /\ UNCHANGED dirs
  /\ UNCHANGED <<link, rows, config, prior>>

\* updateConfig keeps the settings.
Update ==
  /\ at = "update"
  /\ \/ ApplyWorks(config.enabled) /\ Return("done")
     \/ ApplyFails(config.enabled) /\ Return("failed")
  /\ UNCHANGED state

\* saveController.
Controller(enabled) ==
  /\ at = "controller"
  /\ \/ ~config.url /\ config' = [config EXCEPT !.enabled = enabled]
          /\ Return("done") /\ UNCHANGED prior
     \/ config = Candidate(enabled) /\ Return("done") /\ UNCHANGED <<config, prior>>
     \/ config.url /\ ApplyWorks(enabled) /\ Return("done")
     \/ config.url /\ ApplyFails(enabled) /\ Return("failed")
  /\ UNCHANGED state

\* The worker dies.
Crash ==
  /\ at # "idle"
  /\ Return("none")
  /\ UNCHANGED <<state, config, prior>>

Next ==
  \/ \E c \in {"install", "update", "controller"}, i \in Ids \cup {None} : Begin(c, i)
  \/ Recover \/ Fetch \/ Row \/ Rename \/ Switch \/ Apply \/ Restore \/ Discard \/ Prune
  \/ Update \/ \E enabled \in BOOLEAN : Controller(enabled)
  \/ Crash

Spec == Init /\ [][Next]_vars

-----------------------------------------------------------------------------
(* Properties.                                                             *)

\* Whatever fails or dies, what the link names is a whole dashboard with its row.
LinkWhole == link # None => Installed

\* A configuration that makes the core serve the dashboard, and that no pending
\* row is about to replace, finds one.
ShownExists == config.dash /\ prior = None => link # None

\* Nothing that is named or served is missing: not behind the link, and not
\* behind the configuration.
NothingDangles == LinkWhole /\ ShownExists

\* An installation that fails puts the link back, unless that fails too.
FailureRestores == said = "failed" /\ call = "install" => link = previous

\* After a successful installation, also one that follows an interrupted one,
\* the core serves the dashboard if its controller is enabled.
InstallShows ==
  said = "done" /\ call = "install" /\ config.url /\ config.enabled => config.dash
=============================================================================
