------------------------------ MODULE Uninstall ------------------------------
(***************************************************************************)
(* Removal of an installation beside the processes that read it:           *)
(* uninstall() and the part of Worker around it (internal/manager          *)
(* uninstall.go, jobs.go), the pinning of the store by state.lock          *)
(* (internal/storage/store.go, internal/manager/storage.go), and the       *)
(* mihomoctl processes that submit, poll and install (crypto.go,           *)
(* operations.go).                                                         *)
(*                                                                         *)
(* flock locks an inode, not a path.  Each installation has lock files and *)
(* a database of its own, so an inode is the number of its installation.   *)
(***************************************************************************)
EXTENDS Naturals, Sequences

CONSTANTS
  Clients,       \* mihomoctl processes other than the worker
  MaxInstalls,   \* bound: installations made in this place, one after another
  Fails          \* whether stopping the platform and removing files may fail

ASSUME UninstallAssumption ==
  MaxInstalls \in Nat \ {0} /\ Fails \in BOOLEAN

VARIABLES
  install,   \* number of the latest installation
  dir,       \* whether the root directory exists
  files,     \* what is in it, and "extra", the paths outside it
  row,       \* state of the uninstall task's row
  client,    \* the processes, at which point of opening the store each is
  worker,    \* the worker of the uninstall task
  misled     \* history: a process has opened the database of an installation
             \* under the state.lock of an earlier one

vars == <<install, dir, files, row, client, worker, misled>>

Installs == 1..MaxInstalls
Bulk     == {"runtime", "extra", "mihomoctl", "tasks"}
Names    == Bulk \cup {"wal", "db", "control", "state"}
Entries  == files \ {"extra"}

\* Mutant: the database goes before the tasks.
RecordFirst == <<"runtime", "extra", "mihomoctl", "wal", "db", "tasks", "control", "state">>

\* The order in which uninstall() removes things.
Removal == <<"runtime", "extra", "mihomoctl", "tasks", "wal", "db", "control", "state">>

\* pin: the state.lock that was opened; db: the database, 0 for none.
Client == [at  : {"idle", "empty", "opened", "pinned", "open"},
           pin : {0} \cup Installs, db : {0} \cup Installs]
Idle   == [at |-> "idle", pin |-> 0, db |-> 0]

\* next: the next step of Removal; control: whether the control.lock in the
\* root directory is the one it has locked; end: how it ended.
Worker == [at : {"none", "stopping", "closing", "waiting", "removing", "ended"},
           install : {0} \cup Installs, next : 1..(Len(Removal) + 1),
           control : BOOLEAN, end : {"none", "removed", "error", "killed"}]
NoWorker == [at |-> "none", install |-> 0, next |-> 1, control |-> FALSE, end |-> "none"]

\* No row says "succeeded": a removal leaves no record of itself.
TypeOK ==
  /\ install \in Installs
  /\ dir \in BOOLEAN
  /\ files \subseteq Names
  /\ row \in {"none", "running", "failed", "interrupted"}
  /\ client \in [Clients -> Client]
  /\ worker \in Worker
  /\ misled \in BOOLEAN

Init ==
  /\ install = 1
  /\ dir = TRUE
  /\ files = Names \ {"wal"}
  /\ row = "none"
  /\ client = [c \in Clients |-> Idle]
  /\ worker = NoWorker
  /\ misled = FALSE

Active    == worker.at \notin {"none", "ended"}
Connected == worker.at \in {"stopping", "closing"}
Removing  == worker.at = "removing"

\* A process holds state.lock of installation i shared.
Shared(i) == \E c \in Clients : client[c].pin = i /\ client[c].at \in {"pinned", "open"}

\* A process other than c uses the database in the root directory.
Using(c) == \E d \in Clients \ {c} : client[d].at = "open" /\ client[d].db = install

\* SQLite removes the write-ahead log with the last connection to it.
LastCloses(others) ==
  files' = IF others \/ "db" \notin files THEN files ELSE files \ {"wal"}

-----------------------------------------------------------------------------
(* connect: pin the store, then open it; Close.                            *)

OpenLock(c) ==
  /\ client[c].at = "idle"
  /\ "state" \in files
  /\ client' = [client EXCEPT ![c] = [Idle EXCEPT !.at = "opened", !.pin = install]]
  /\ UNCHANGED <<install, dir, files, row, worker, misled>>

\* LOCK_SH | LOCK_NB: refused while a removal holds the same lock.
Pin(c) ==
  /\ client[c].at = "opened"
  /\ client' = [client EXCEPT ![c] =
       IF Removing /\ worker.install = @.pin THEN Idle ELSE [@ EXCEPT !.at = "pinned"]]
  /\ UNCHANGED <<install, dir, files, row, worker, misled>>

\* The database is opened by its path; reading it makes the log.
OpenStore(c) ==
  /\ client[c].at = "pinned"
  /\ IF "db" \in files
     THEN /\ client' = [client EXCEPT ![c].at = "open", ![c].db = install]
          /\ files' = files \cup {"wal"}
          /\ misled' = (misled \/ client[c].pin # install)
     ELSE client' = [client EXCEPT ![c] = Idle] /\ UNCHANGED <<files, misled>>
  /\ UNCHANGED <<install, dir, row, worker>>

CloseStore(c) ==
  /\ client[c].at = "open"
  /\ client' = [client EXCEPT ![c] = Idle]
  /\ LastCloses(Using(c) \/ Connected \/ client[c].db # install)
  /\ UNCHANGED <<install, dir, row, worker, misled>>

\* The process dies: the kernel drops its lock, and the log stays.
Die(c) ==
  /\ client[c].at # "idle"
  /\ client' = [client EXCEPT ![c] = Idle]
  /\ UNCHANGED <<install, dir, files, row, worker, misled>>

-----------------------------------------------------------------------------
(* What a process does with the open store.                                *)

\* lock() creates control.lock when it is missing.
CanLock == dir /\ ~worker.control

\* Submit of an uninstall: the worker is the installed executable, and it
\* inherits control.lock.  One removal at a time.
Submit(c) ==
  /\ client[c].at = "open"
  /\ client[c].db = install /\ "db" \in files
  /\ CanLock /\ ~Active
  /\ files' = files \cup {"control", "tasks"}
  /\ IF "mihomoctl" \in files
     THEN /\ row' = "running"
          /\ worker' = [NoWorker EXCEPT !.at = "stopping", !.install = install,
                                        !.control = TRUE]
     ELSE row' = "failed" /\ UNCHANGED worker
  /\ UNCHANGED <<install, dir, client, misled>>

\* Mutant: a row that is still running is taken for an abandoned one.
PollUnlocked(c) ==
  /\ client[c].at = "open"
  /\ client[c].db = install
  /\ row = "running" /\ dir
  /\ files' = files \cup {"control"}
  /\ row' = "interrupted"
  /\ UNCHANGED <<install, dir, client, worker, misled>>

\* Job: a row without a worker behind control.lock was interrupted.
Poll(c) ==
  /\ client[c].at = "open"
  /\ client[c].db = install
  /\ row = "running" /\ dir
  /\ files' = files \cup {"control"}
  /\ row' = IF CanLock THEN "interrupted" ELSE row
  /\ UNCHANGED <<install, dir, client, worker, misled>>

\* Install over an installation whose identity is readable.
InstallOver(c) ==
  /\ client[c].at = "open"
  /\ CanLock
  /\ files' = files \cup {"control", "mihomoctl", "runtime"}
  /\ UNCHANGED <<install, dir, row, client, worker, misled>>

\* initIdentity finds the root directory empty or missing ...
FindEmpty(c) ==
  /\ client[c].at = "idle"
  /\ Entries = {} /\ install < MaxInstalls
  /\ client' = [client EXCEPT ![c].at = "empty"]
  /\ UNCHANGED <<install, dir, files, row, worker, misled>>

NewInstall(c, free) ==
  /\ client[c].at = "empty"
  /\ client' = [client EXCEPT ![c] = Idle]
  /\ IF free /\ install < MaxInstalls
     THEN /\ install' = install + 1
          /\ dir' = TRUE
          /\ files' = files \cup {"db", "state"}
          /\ row' = "none"
     ELSE UNCHANGED <<install, dir, files, row>>
  /\ UNCHANGED <<worker, misled>>

\* Mutant: an empty directory is replaced, as rename(2) itself would do.
RenameOverEmpty(c) == NewInstall(c, Entries = {})

\* ... and renames a new one to it.  Go's os.Rename refuses a target that is a
\* directory, an empty one included.  Install goes on by opening the store.
Rename(c) == NewInstall(c, ~dir)

-----------------------------------------------------------------------------
(* The worker.                                                             *)

End(how) ==
  worker' = [worker EXCEPT !.at = "ended", !.end = how, !.control = FALSE]

\* The checks of uninstall() and Platform.Remove.  Their error is the
\* task's, and is recorded.
StopPlatform ==
  /\ worker.at = "stopping"
  /\ \/ /\ worker' = [worker EXCEPT !.at = "closing"]
        /\ UNCHANGED <<row, files>>
     \/ Fails /\ End("error") /\ row' = "failed" /\ LastCloses(Using("worker"))
  /\ UNCHANGED <<install, dir, client, misled>>

CloseOwn ==
  /\ worker.at = "closing"
  /\ worker' = [worker EXCEPT !.at = "waiting"]
  /\ LastCloses(Using("worker"))
  /\ UNCHANGED <<install, dir, row, client, misled>>

\* Mutant: the removal does not wait for readers.
TakeUnchecked ==
  /\ worker.at = "waiting"
  /\ worker' = [worker EXCEPT !.at = "removing"]
  /\ UNCHANGED <<install, dir, files, row, client, misled>>

\* Exclusive: LOCK_EX | LOCK_NB in a loop ...
TakeExclusive ==
  /\ worker.at = "waiting"
  /\ ~Shared(worker.install)
  /\ worker' = [worker EXCEPT !.at = "removing"]
  /\ UNCHANGED <<install, dir, files, row, client, misled>>

\* Mutant: no time limit.
WaitForEver == FALSE /\ UNCHANGED vars

\* ... for 30 seconds.  The store is closed, and reading the task through it
\* ends the process before the row is written.
GiveUp ==
  /\ worker.at = "waiting"
  /\ Shared(worker.install)
  /\ End("error")
  /\ UNCHANGED <<install, dir, files, row, client, misled>>

\* One RemoveAll or Remove; an error ends the process as in GiveUp.
Remove ==
  /\ Removing /\ worker.next <= Len(Removal)
  /\ LET name == Removal[worker.next] IN
     \/ /\ files' = files \ {name}
        /\ worker' = [worker EXCEPT !.next = @ + 1,
                                    !.control = @ /\ name # "control"]
     \/ Fails /\ End("error") /\ UNCHANGED files
  /\ UNCHANGED <<install, dir, row, client, misled>>

\* Mutant: the completed removal is recorded.
RemoveRootRecords ==
  /\ Removing /\ worker.next > Len(Removal)
  /\ IF Entries = {} THEN dir' = FALSE /\ End("removed") ELSE End("error") /\ UNCHANGED dir
  /\ row' = "succeeded"
  /\ UNCHANGED <<install, files, client, misled>>

\* The directory goes only when it is empty; nothing is recorded.
RemoveRoot ==
  /\ Removing /\ worker.next > Len(Removal)
  /\ IF Entries = {} THEN dir' = FALSE /\ End("removed") ELSE End("error") /\ UNCHANGED dir
  /\ UNCHANGED <<install, files, row, client, misled>>

\* The worker is killed.
Kill ==
  /\ Active
  /\ End("killed")
  /\ UNCHANGED <<install, dir, files, row, client, misled>>

-----------------------------------------------------------------------------

Step(c) ==
  \/ OpenLock(c) \/ Pin(c) \/ OpenStore(c) \/ CloseStore(c) \/ Die(c)
  \/ Submit(c) \/ Poll(c) \/ InstallOver(c) \/ FindEmpty(c) \/ Rename(c)

Work == StopPlatform \/ CloseOwn \/ TakeExclusive \/ GiveUp \/ Remove \/ RemoveRoot

Next == (\E c \in Clients : Step(c)) \/ Work \/ Kill

Spec == Init /\ [][Next]_vars

\* Only the worker is assumed to go on; readers may keep the store open.
FairSpec == Spec /\ WF_vars(Work)

-----------------------------------------------------------------------------
(* Properties.                                                             *)

\* "Removal waits until none can create WAL files" (store.go:196): no process
\* has the database open while it and its log are removed.
RemovalWaits ==
  Removing => \A c \in Clients : ~(client[c].at = "open" /\ client[c].db = worker.install)

\* Across installations: a process that pinned the installation whose
\* database it opened never has it removed under it.  What is left out is a
\* process that opened state.lock of an earlier installation and locks it, by
\* then deleted, after a new one was made in its place.
PinProtects ==
  Removing => \A c \in Clients :
    ~(client[c].at = "open" /\ client[c].db = worker.install
        /\ client[c].pin = client[c].db)

\* "Keep the database and execution lock until bulk file deletion has
\* succeeded" (uninstall.go:48), over failures, crashes, retries and
\* installations over the remains: a database never stands without the lock
\* that opening it needs; and, in every installation until a process is misled
\* by an old state.lock, a root directory without a database has nothing of the
\* bulk in it and no log that waits for another database.
RecordOutlivesBulk ==
  /\ "db" \in files => "state" \in files
  /\ ~misled /\ "db" \notin files => files \cap (Bulk \cup {"wal"}) = {}

\* When the root directory is to be removed it is empty, whatever readers did
\* and however they died, and nothing comes back after it is gone until a new
\* installation is made; then the same holds for that one.
NothingLeft ==
  ~misled /\ worker.install = install
    /\ ((Removing /\ worker.next > Len(Removal)) \/ worker.end = "removed")
    => files = {}

\* The record is there as long as there is something to remove, and then there
\* is nothing.
RecordOutlivesAll == RecordOutlivesBulk /\ NothingLeft

\* Polling marks a removal interrupted only when its worker is gone, also when
\* control.lock is already deleted, in every installation until a process is
\* misled by an old state.lock.
InterruptsTheDeadOnly ==
  [][~misled /\ row = "running" /\ row' = "interrupted" => ~Active]_vars

\* No installation is made in a directory that a removal, however far it has
\* got, is still going to touch.
InstallsAfterRemoval == [][install' # install => ~Active]_vars

\* No reader keeps an uninstall waiting for ever.
RemovalEnds == Active ~> ~Active

\* "When an operation fails the log page shows the reason" (README.md:97): an
\* uninstall that ended with an error, and left the record, is recorded failed.
FailureIsRecorded ==
  worker.end = "error" /\ worker.install = install /\ "db" \in files
    => row = "failed"
=============================================================================
