------------------------- MODULE TaskLifecycleProofs -------------------------
(* Theorems about TaskLifecycle, for any tasks, clients and fault bound. *)
EXTENDS TaskLifecycle, TLAPS

-----------------------------------------------------------------------------
(* The inductive invariant.                                                *)

\* Who may share the locked descriptor: one client, or one worker, or the
\* client that is just launching that worker, or what a worker left behind.
LockInv ==
  /\ \A c \in Clients : c \in lock <=> client[c] \in HoldsLock
  /\ \A t \in Tasks : t \in lock <=> worker[t] \in Live
  /\ \A c, d \in Clients : c \in lock /\ d \in lock => c = d
  /\ \A t, u \in Tasks : t \in lock /\ u \in lock => t = u
  /\ \A c \in Clients, t \in Tasks : c \in lock /\ t \in lock =>
       /\ client[c] = "spawned" /\ target[c] = t
       /\ worker[t] = "gate" /\ t \notin released
  /\ Supervisor \in lock => \A c \in Clients : c \notin lock

\* What a client at work and a live worker know about the task row.
RowInv ==
  /\ \A c \in Clients : client[c] \in {"created", "spawned"} =>
       state[target[c]] = "queued"
  /\ \A c \in Clients : client[c] = "interrupt" => state[target[c]] \in Active
  /\ \A t \in Tasks : worker[t] \in {"gate", "load", "begin"} => state[t] = "queued"
  /\ \A t \in Tasks :
       worker[t] \in {"execute", "commit", "apply", "seal", "readback", "finish"} =>
         state[t] = "running"
  /\ \A t \in Tasks : t \in released => worker[t] \in Live

\* The outcome a worker carries at each point.
VerdictInv ==
  \A t \in Tasks :
    /\ worker[t] \in {"none", "gone", "gate", "load", "begin", "execute", "commit", "apply"} =>
         verdict[t] = "ok"
    /\ worker[t] \in {"seal", "readback"} => verdict[t] \in {"ok", "error"}
    /\ worker[t] = "finish" => verdict[t] \in {"succeeded", "failed", "cancelled"}

\* No cancel can have been, or can still be, acknowledged.
Sealed(t) == t \notin cancellable /\ t \notin cancelRequested

CancelInv ==
  \A t \in Tasks :
    /\ t \notin Cancellable => Sealed(t)
    /\ state[t] \notin Active => t \notin cancellable /\ t \notin request
    /\ state[t] = "absent" => worker[t] = "none" /\ t \notin applied
    /\ worker[t] = "apply" => Sealed(t)
    /\ t \in applied => Sealed(t)
    /\ worker[t] \in {"readback", "finish"} /\ verdict[t] \in {"ok", "succeeded"} => Sealed(t)
    /\ worker[t] = "finish" /\ verdict[t] = "cancelled" => t \in cancelRequested
    /\ state[t] = "succeeded" => Sealed(t)

Typed == TypeOK /\ VerdictInv

IInv == Typed /\ LockInv /\ RowInv /\ CancelInv
-----------------------------------------------------------------------------
(* Type correctness.                                                       *)

\* Every step keeps the types.  The verdicts are needed because Finish writes
\* the worker's verdict into the row as the task's state, and the lock because
\* a worker is only launched for a task without one.
LEMMA TypeStep == Typed /\ LockInv /\ [Next]_vars => Typed'
<1> SUFFICES ASSUME Typed, LockInv, [Next]_vars PROVE Typed'
  OBVIOUS
<1> USE TaskAssumption DEF Typed, TypeOK, VerdictInv, LockInv, vars, row, clientVars, workerVars, Active, Terminal, HoldsLock, Live
<1>1. ASSUME NEW c \in Clients, NEW t \in Tasks, Submit(c, t) PROVE Typed'
  BY <1>1 DEF Submit, Goto
<1>2. ASSUME NEW c \in Clients, NEW t \in Tasks, NEW w \in {"job", "cancel"}, Ask(c, t, w)
      PROVE Typed'
  BY <1>2 DEF Ask, Goto
<1>3. ASSUME NEW c \in Clients, SubmitKnown(c) PROVE Typed'
  BY <1>3 DEF SubmitKnown, Return, Goto
<1>4. ASSUME NEW c \in Clients, SubmitNew(c) PROVE Typed'
  BY <1>4 DEF SubmitNew, CreateTask
<1>5. ASSUME NEW c \in Clients, Spawn(c) PROVE Typed'
  BY <1>5 DEF Spawn
<1>6. ASSUME NEW c \in Clients, Release(c) PROVE Typed'
  BY <1>6 DEF Release, Return, Goto
<1>7. ASSUME NEW c \in Clients, AcceptFails(c) PROVE Typed'
  BY <1>7 DEF AcceptFails, UpdateTask, Fault, Goto
<1>8. ASSUME NEW c \in Clients, JobRead(c) PROVE Typed'
  BY <1>8 DEF JobRead, Answer, Return, Goto
<1>9. ASSUME NEW c \in Clients, JobBusy(c) PROVE Typed'
  BY <1>9 DEF JobBusy, Answer, Return, Goto
<1>10. ASSUME NEW c \in Clients, JobLock(c) PROVE Typed'
  BY <1>10 DEF JobLock
<1>11. ASSUME NEW c \in Clients, JobReread(c) PROVE Typed'
  BY <1>11 DEF JobReread, Answer, Return, Goto
<1>12. ASSUME NEW c \in Clients, JobInterrupt(c) PROVE Typed'
  BY <1>12 DEF JobInterrupt, Answer, Return, Goto, UpdateTask, Fault
<1>13. ASSUME NEW c \in Clients, CancelTask(c) PROVE Typed'
  BY <1>13 DEF CancelTask, Goto, CanCancel
<1>14. ASSUME NEW c \in Clients, ClientCrash(c) PROVE Typed'
  BY <1>14 DEF ClientCrash, Return, Goto
<1>15. ASSUME NEW t \in Tasks, PassGate(t) PROVE Typed'
  BY <1>15 DEF PassGate, Step, Gone, GateOpen
<1>16. ASSUME NEW t \in Tasks, LoadTask(t) PROVE Typed'
  BY <1>16 DEF LoadTask, Step, FailedWrite, UpdateTask, Fault, row
<1>17. ASSUME NEW t \in Tasks, Begin(t) PROVE Typed'
  BY <1>17 DEF Begin, Step, FailedWrite, UpdateTask, Fault, row
<1>18. ASSUME NEW t \in Tasks, Report(t) PROVE Typed'
  BY <1>18 DEF Report, UpdateTask
<1>19. ASSUME NEW t \in Tasks, ExecuteReturns(t) PROVE Typed'
  BY <1>19 DEF ExecuteReturns, Step
<1>20. ASSUME NEW t \in Tasks, Prepared(t) PROVE Typed'
  BY <1>20 DEF Prepared, Step
<1>21. ASSUME NEW t \in Tasks, Commit(t) PROVE Typed'
  BY <1>21 DEF Commit, Step, CanCommit
<1>22. ASSUME NEW t \in Tasks, Apply(t) PROVE Typed'
  BY <1>22 DEF Apply, Step
<1>23. ASSUME NEW t \in Tasks, Seal(t) PROVE Typed'
  BY <1>23 DEF Seal, Step, Fault, CanCommit
<1>24. ASSUME NEW t \in Tasks, ReadBack(t) PROVE Typed'
  BY <1>24 DEF ReadBack, Step
<1>25. ASSUME NEW t \in Tasks, Finish(t) PROVE Typed'
  BY <1>25 DEF Finish, Step, FailedWrite, UpdateTask, Fault, row
<1>26. ASSUME NEW t \in Tasks, Watch(t) PROVE Typed'
  BY <1>26 DEF Watch
<1>27. ASSUME NEW t \in Tasks, Exit(t) PROVE Typed'
  BY <1>27 DEF Exit, Step, Gone
<1>28. CASE SupervisorExit
  BY <1>28 DEF SupervisorExit
<1>29. CASE UNCHANGED vars
  BY <1>29
<1> HIDE DEF Typed, TypeOK, VerdictInv, LockInv, vars, row, clientVars, workerVars, Active, Terminal,
     HoldsLock, Live
<1> QED
  BY <1>1, <1>2, <1>3, <1>4, <1>5, <1>6, <1>7, <1>8, <1>9, <1>10, <1>11, <1>12,
     <1>13, <1>14, <1>15, <1>16, <1>17, <1>18, <1>19, <1>20, <1>21, <1>22, <1>23, <1>24,
     <1>25, <1>26, <1>27, <1>28, <1>29
     DEF Next, ClientStep, WorkerStep

-----------------------------------------------------------------------------
(* The lock and the rows.                                                  *)

\* Every step keeps the owners of control.lock apart.
LEMMA LockStep == TypeOK /\ LockInv /\ RowInv /\ [Next]_vars => LockInv'
<1> SUFFICES ASSUME TypeOK, LockInv, RowInv, [Next]_vars PROVE LockInv'
  OBVIOUS
<1> USE TaskAssumption DEF TypeOK, LockInv, RowInv, vars, row, clientVars, workerVars, Active, Terminal, HoldsLock, Live
<1>1. ASSUME NEW c \in Clients, NEW t \in Tasks, Submit(c, t) PROVE LockInv'
  BY <1>1 DEF Submit, Goto
<1>2. ASSUME NEW c \in Clients, NEW t \in Tasks, NEW w \in {"job", "cancel"}, Ask(c, t, w)
      PROVE LockInv'
  BY <1>2 DEF Ask, Goto
<1>3. ASSUME NEW c \in Clients, SubmitKnown(c) PROVE LockInv'
  BY <1>3 DEF SubmitKnown, Return, Goto
<1>4. ASSUME NEW c \in Clients, SubmitNew(c) PROVE LockInv'
  BY <1>4 DEF SubmitNew, CreateTask
<1>5. ASSUME NEW c \in Clients, Spawn(c) PROVE LockInv'
  BY <1>5 DEF Spawn
<1>6. ASSUME NEW c \in Clients, Release(c) PROVE LockInv'
  BY <1>6 DEF Release, Return, Goto
<1>7. ASSUME NEW c \in Clients, AcceptFails(c) PROVE LockInv'
  BY <1>7 DEF AcceptFails, UpdateTask, Fault, Goto
<1>8. ASSUME NEW c \in Clients, JobRead(c) PROVE LockInv'
  BY <1>8 DEF JobRead, Answer, Return, Goto
<1>9. ASSUME NEW c \in Clients, JobBusy(c) PROVE LockInv'
  BY <1>9 DEF JobBusy, Answer, Return, Goto
<1>10. ASSUME NEW c \in Clients, JobLock(c) PROVE LockInv'
  BY <1>10 DEF JobLock
<1>11. ASSUME NEW c \in Clients, JobReread(c) PROVE LockInv'
  BY <1>11 DEF JobReread, Answer, Return, Goto
<1>12. ASSUME NEW c \in Clients, JobInterrupt(c) PROVE LockInv'
  BY <1>12 DEF JobInterrupt, Answer, Return, Goto, UpdateTask, Fault
<1>13. ASSUME NEW c \in Clients, CancelTask(c) PROVE LockInv'
  BY <1>13 DEF CancelTask, Goto, CanCancel
<1>14. ASSUME NEW c \in Clients, ClientCrash(c) PROVE LockInv'
  BY <1>14 DEF ClientCrash, Return, Goto
<1>15. ASSUME NEW t \in Tasks, PassGate(t) PROVE LockInv'
  BY <1>15 DEF PassGate, Step, Gone, GateOpen
<1>16. ASSUME NEW t \in Tasks, LoadTask(t) PROVE LockInv'
  BY <1>16 DEF LoadTask, Step, FailedWrite, UpdateTask, Fault, row
<1>17. ASSUME NEW t \in Tasks, Begin(t) PROVE LockInv'
  BY <1>17 DEF Begin, Step, FailedWrite, UpdateTask, Fault, row
<1>18. ASSUME NEW t \in Tasks, Report(t) PROVE LockInv'
  BY <1>18 DEF Report, UpdateTask
<1>19. ASSUME NEW t \in Tasks, ExecuteReturns(t) PROVE LockInv'
  BY <1>19 DEF ExecuteReturns, Step
<1>20. ASSUME NEW t \in Tasks, Prepared(t) PROVE LockInv'
  BY <1>20 DEF Prepared, Step
<1>21. ASSUME NEW t \in Tasks, Commit(t) PROVE LockInv'
  BY <1>21 DEF Commit, Step, CanCommit
<1>22. ASSUME NEW t \in Tasks, Apply(t) PROVE LockInv'
  BY <1>22 DEF Apply, Step
<1>23. ASSUME NEW t \in Tasks, Seal(t) PROVE LockInv'
  BY <1>23 DEF Seal, Step, Fault, CanCommit
<1>24. ASSUME NEW t \in Tasks, ReadBack(t) PROVE LockInv'
  BY <1>24 DEF ReadBack, Step
<1>25. ASSUME NEW t \in Tasks, Finish(t) PROVE LockInv'
  BY <1>25 DEF Finish, Step, FailedWrite, UpdateTask, Fault, row
<1>26. ASSUME NEW t \in Tasks, Watch(t) PROVE LockInv'
  BY <1>26 DEF Watch
<1>27. ASSUME NEW t \in Tasks, Exit(t) PROVE LockInv'
  BY <1>27 DEF Exit, Step, Gone
<1>28. CASE SupervisorExit
  BY <1>28 DEF SupervisorExit
<1>29. CASE UNCHANGED vars
  BY <1>29
<1> QED
  BY <1>1, <1>2, <1>3, <1>4, <1>5, <1>6, <1>7, <1>8, <1>9, <1>10, <1>11, <1>12,
     <1>13, <1>14, <1>15, <1>16, <1>17, <1>18, <1>19, <1>20, <1>21, <1>22, <1>23, <1>24,
     <1>25, <1>26, <1>27, <1>28, <1>29
     DEF Next, ClientStep, WorkerStep

\* Every step keeps the row of a task that is at work.
LEMMA RowStep == Typed /\ LockInv /\ RowInv /\ [Next]_vars => RowInv'
<1> SUFFICES ASSUME Typed, LockInv, RowInv, [Next]_vars PROVE RowInv'
  OBVIOUS
<1> USE TaskAssumption DEF Typed, TypeOK, VerdictInv, LockInv, RowInv, vars, row, clientVars, workerVars, Active, Terminal, HoldsLock, Live
<1>1. ASSUME NEW c \in Clients, NEW t \in Tasks, Submit(c, t) PROVE RowInv'
  BY <1>1 DEF Submit, Goto
<1>2. ASSUME NEW c \in Clients, NEW t \in Tasks, NEW w \in {"job", "cancel"}, Ask(c, t, w)
      PROVE RowInv'
  BY <1>2 DEF Ask, Goto
<1>3. ASSUME NEW c \in Clients, SubmitKnown(c) PROVE RowInv'
  BY <1>3 DEF SubmitKnown, Return, Goto
<1>4. ASSUME NEW c \in Clients, SubmitNew(c) PROVE RowInv'
  BY <1>4 DEF SubmitNew, CreateTask
<1>5. ASSUME NEW c \in Clients, Spawn(c) PROVE RowInv'
  BY <1>5 DEF Spawn
<1>6. ASSUME NEW c \in Clients, Release(c) PROVE RowInv'
  BY <1>6 DEF Release, Return, Goto
<1>7. ASSUME NEW c \in Clients, AcceptFails(c) PROVE RowInv'
  BY <1>7 DEF AcceptFails, UpdateTask, Fault, Goto
<1>8. ASSUME NEW c \in Clients, JobRead(c) PROVE RowInv'
  BY <1>8 DEF JobRead, Answer, Return, Goto
<1>9. ASSUME NEW c \in Clients, JobBusy(c) PROVE RowInv'
  BY <1>9 DEF JobBusy, Answer, Return, Goto
<1>10. ASSUME NEW c \in Clients, JobLock(c) PROVE RowInv'
  BY <1>10 DEF JobLock
<1>11. ASSUME NEW c \in Clients, JobReread(c) PROVE RowInv'
  BY <1>11 DEF JobReread, Answer, Return, Goto
<1>12. ASSUME NEW c \in Clients, JobInterrupt(c) PROVE RowInv'
  BY <1>12 DEF JobInterrupt, Answer, Return, Goto, UpdateTask, Fault
<1>13. ASSUME NEW c \in Clients, CancelTask(c) PROVE RowInv'
  BY <1>13 DEF CancelTask, Goto, CanCancel
<1>14. ASSUME NEW c \in Clients, ClientCrash(c) PROVE RowInv'
  BY <1>14 DEF ClientCrash, Return, Goto
<1>15. ASSUME NEW t \in Tasks, PassGate(t) PROVE RowInv'
  BY <1>15 DEF PassGate, Step, Gone, GateOpen
<1>16. ASSUME NEW t \in Tasks, LoadTask(t) PROVE RowInv'
  BY <1>16 DEF LoadTask, Step, FailedWrite, UpdateTask, Fault, row
<1>17. ASSUME NEW t \in Tasks, Begin(t) PROVE RowInv'
  BY <1>17 DEF Begin, Step, FailedWrite, UpdateTask, Fault, row
<1>18. ASSUME NEW t \in Tasks, Report(t) PROVE RowInv'
  BY <1>18 DEF Report, UpdateTask
<1>19. ASSUME NEW t \in Tasks, ExecuteReturns(t) PROVE RowInv'
  BY <1>19 DEF ExecuteReturns, Step
<1>20. ASSUME NEW t \in Tasks, Prepared(t) PROVE RowInv'
  BY <1>20 DEF Prepared, Step
<1>21. ASSUME NEW t \in Tasks, Commit(t) PROVE RowInv'
  BY <1>21 DEF Commit, Step, CanCommit
<1>22. ASSUME NEW t \in Tasks, Apply(t) PROVE RowInv'
  BY <1>22 DEF Apply, Step
<1>23. ASSUME NEW t \in Tasks, Seal(t) PROVE RowInv'
  BY <1>23 DEF Seal, Step, Fault, CanCommit
<1>24. ASSUME NEW t \in Tasks, ReadBack(t) PROVE RowInv'
  BY <1>24 DEF ReadBack, Step
<1>25. ASSUME NEW t \in Tasks, Finish(t) PROVE RowInv'
  BY <1>25 DEF Finish, Step, FailedWrite, UpdateTask, Fault, row
<1>26. ASSUME NEW t \in Tasks, Watch(t) PROVE RowInv'
  BY <1>26 DEF Watch
<1>27. ASSUME NEW t \in Tasks, Exit(t) PROVE RowInv'
  BY <1>27 DEF Exit, Step, Gone
<1>28. CASE SupervisorExit
  BY <1>28 DEF SupervisorExit
<1>29. CASE UNCHANGED vars
  BY <1>29
<1> QED
  BY <1>1, <1>2, <1>3, <1>4, <1>5, <1>6, <1>7, <1>8, <1>9, <1>10, <1>11, <1>12,
     <1>13, <1>14, <1>15, <1>16, <1>17, <1>18, <1>19, <1>20, <1>21, <1>22, <1>23, <1>24,
     <1>25, <1>26, <1>27, <1>28, <1>29
     DEF Next, ClientStep, WorkerStep

\* Every step keeps a cancelled task from having changed the device.
LEMMA CancelStep == Typed /\ LockInv /\ RowInv /\ CancelInv /\ [Next]_vars => CancelInv'
<1> SUFFICES ASSUME Typed, LockInv, RowInv, CancelInv, [Next]_vars PROVE CancelInv'
  OBVIOUS
<1> USE TaskAssumption DEF Typed, TypeOK, VerdictInv, LockInv, RowInv, CancelInv, Sealed, vars, row, clientVars, workerVars, Active, Terminal, HoldsLock, Live
<1>1. ASSUME NEW c \in Clients, NEW t \in Tasks, Submit(c, t) PROVE CancelInv'
  BY <1>1 DEF Submit, Goto
<1>2. ASSUME NEW c \in Clients, NEW t \in Tasks, NEW w \in {"job", "cancel"}, Ask(c, t, w)
      PROVE CancelInv'
  BY <1>2 DEF Ask, Goto
<1>3. ASSUME NEW c \in Clients, SubmitKnown(c) PROVE CancelInv'
  BY <1>3 DEF SubmitKnown, Return, Goto
<1>4. ASSUME NEW c \in Clients, SubmitNew(c) PROVE CancelInv'
  BY <1>4 DEF SubmitNew, CreateTask
<1>5. ASSUME NEW c \in Clients, Spawn(c) PROVE CancelInv'
  BY <1>5 DEF Spawn
<1>6. ASSUME NEW c \in Clients, Release(c) PROVE CancelInv'
  BY <1>6 DEF Release, Return, Goto
<1>7. ASSUME NEW c \in Clients, AcceptFails(c) PROVE CancelInv'
  BY <1>7 DEF AcceptFails, UpdateTask, Fault, Goto
<1>8. ASSUME NEW c \in Clients, JobRead(c) PROVE CancelInv'
  BY <1>8 DEF JobRead, Answer, Return, Goto
<1>9. ASSUME NEW c \in Clients, JobBusy(c) PROVE CancelInv'
  BY <1>9 DEF JobBusy, Answer, Return, Goto
<1>10. ASSUME NEW c \in Clients, JobLock(c) PROVE CancelInv'
  BY <1>10 DEF JobLock
<1>11. ASSUME NEW c \in Clients, JobReread(c) PROVE CancelInv'
  BY <1>11 DEF JobReread, Answer, Return, Goto
<1>12. ASSUME NEW c \in Clients, JobInterrupt(c) PROVE CancelInv'
  BY <1>12 DEF JobInterrupt, Answer, Return, Goto, UpdateTask, Fault
<1>13. ASSUME NEW c \in Clients, CancelTask(c) PROVE CancelInv'
  BY <1>13 DEF CancelTask, Goto, CanCancel
<1>14. ASSUME NEW c \in Clients, ClientCrash(c) PROVE CancelInv'
  BY <1>14 DEF ClientCrash, Return, Goto
<1>15. ASSUME NEW t \in Tasks, PassGate(t) PROVE CancelInv'
  BY <1>15 DEF PassGate, Step, Gone, GateOpen
<1>16. ASSUME NEW t \in Tasks, LoadTask(t) PROVE CancelInv'
  BY <1>16 DEF LoadTask, Step, FailedWrite, UpdateTask, Fault, row
<1>17. ASSUME NEW t \in Tasks, Begin(t) PROVE CancelInv'
  BY <1>17 DEF Begin, Step, FailedWrite, UpdateTask, Fault, row
<1>18. ASSUME NEW t \in Tasks, Report(t) PROVE CancelInv'
  BY <1>18 DEF Report, UpdateTask
<1>19. ASSUME NEW t \in Tasks, ExecuteReturns(t) PROVE CancelInv'
  BY <1>19 DEF ExecuteReturns, Step
<1>20. ASSUME NEW t \in Tasks, Prepared(t) PROVE CancelInv'
  BY <1>20 DEF Prepared, Step
<1>21. ASSUME NEW t \in Tasks, Commit(t) PROVE CancelInv'
  BY <1>21 DEF Commit, Step, CanCommit
<1>22. ASSUME NEW t \in Tasks, Apply(t) PROVE CancelInv'
  BY <1>22 DEF Apply, Step
<1>23. ASSUME NEW t \in Tasks, Seal(t) PROVE CancelInv'
  BY <1>23 DEF Seal, Step, Fault, CanCommit
<1>24. ASSUME NEW t \in Tasks, ReadBack(t) PROVE CancelInv'
  BY <1>24 DEF ReadBack, Step
<1>25. ASSUME NEW t \in Tasks, Finish(t) PROVE CancelInv'
  BY <1>25 DEF Finish, Step, FailedWrite, UpdateTask, Fault, row
<1>26. ASSUME NEW t \in Tasks, Watch(t) PROVE CancelInv'
  BY <1>26 DEF Watch
<1>27. ASSUME NEW t \in Tasks, Exit(t) PROVE CancelInv'
  BY <1>27 DEF Exit, Step, Gone
<1>28. CASE SupervisorExit
  BY <1>28 DEF SupervisorExit
<1>29. CASE UNCHANGED vars
  BY <1>29
<1> QED
  BY <1>1, <1>2, <1>3, <1>4, <1>5, <1>6, <1>7, <1>8, <1>9, <1>10, <1>11, <1>12,
     <1>13, <1>14, <1>15, <1>16, <1>17, <1>18, <1>19, <1>20, <1>21, <1>22, <1>23, <1>24,
     <1>25, <1>26, <1>27, <1>28, <1>29
     DEF Next, ClientStep, WorkerStep

\* The inductive invariant holds.
THEOREM Invariance == Spec => []IInv
<1>1. Init => IInv
  BY TaskAssumption DEF Init, IInv, Typed, TypeOK, LockInv, RowInv, VerdictInv,
     CancelInv, Sealed, Active, Terminal, HoldsLock, Live
<1>2. IInv /\ [Next]_vars => IInv'
  BY TypeStep, LockStep, RowStep, CancelStep DEF IInv, Typed
<1> QED
  BY <1>1, <1>2, PTL DEF Spec

-----------------------------------------------------------------------------
(* The theorems.                                                           *)

\* Every value the store, the clients and the workers can hold has its type,
\* and a client inside a call always has a task to work on.
THEOREM TypeCorrect == Spec => []TypeOK
<1>1. IInv => TypeOK
  BY DEF IInv, Typed
<1> QED
  BY <1>1, Invariance, PTL

\* control.lock serialises tasks: no two workers at work, and no client in a
\* locked section while one is.
THEOREM LockSerialisesTasks == Spec => []Exclusive
<1>1. IInv => Exclusive
  BY TaskAssumption DEF IInv, Typed, TypeOK, LockInv, RowInv, Exclusive, Working, HoldsLock, Live
<1> QED
  BY <1>1, Invariance, PTL

\* Neither Job() nor a later submission takes a task away from a live worker.
THEOREM LiveWorkerKeepsItsRow == Spec => []WorkerOwnsRow
<1>1. IInv => WorkerOwnsRow
  BY DEF IInv, Typed, TypeOK, RowInv, WorkerOwnsRow, Working, Live
<1> QED
  BY <1>1, Invariance, PTL

\* An acknowledged cancellation excludes the change and the success.
THEOREM CancelIsHonoured == Spec => []CancelHonoured
<1>1. IInv => CancelHonoured
  BY DEF IInv, CancelInv, CancelHonoured, Sealed, Typed, TypeOK
<1> QED
  BY <1>1, Invariance, PTL

-----------------------------------------------------------------------------
(* Refinement of TaskLedger.                                               *)

\* Recording an outcome changes what a reader concludes about that task only.
LEMMA StatusOfOutcome ==
  ASSUME TypeOK, NEW t \in Tasks, NEW s \in Terminal, UpdateTask(t, s)
  PROVE  Status' = [Status EXCEPT ![t] = s]
BY DEF TypeOK, UpdateTask, Status, Active, Terminal

\* A phase or progress report changes nothing a reader concludes.
LEMMA StatusOfReport ==
  ASSUME TypeOK, NEW t \in Tasks, state[t] \in Active, UpdateTask(t, "running")
  PROVE  Status' = Status
BY DEF TypeOK, UpdateTask, Status, Active, Terminal

\* A commit tells the reader that it is too late to cancel.
LEMMA StatusOfCommit ==
  ASSUME TypeOK, NEW t \in Tasks, state[t] = "running", t \notin cancelRequested,
         cancellable' = cancellable \ {t}, UNCHANGED <<state, cancelRequested>>
  PROVE  Status' = [Status EXCEPT ![t] = "committed"]
BY DEF TypeOK, Status, Active

\* Neither does a step that leaves these columns alone.
LEMMA StatusUnchanged ==
  ASSUME UNCHANGED <<state, cancellable, cancelRequested>>
  PROVE  Status' = Status
BY DEF Status, Active

\* An active task is in progress for the reader.
LEMMA StatusInProgress ==
  ASSUME TypeOK, NEW t \in Tasks, state[t] \in Active
  PROVE  Status[t] \in {"open", "cancelling", "committed"}
BY DEF TypeOK, Status, Active

\* The failure of a queued or running task is one Conclude of the ledger.
LEMMA ConcludeFailed ==
  ASSUME TypeOK, NEW t \in Tasks, state[t] \in Active,
         NEW s \in {"failed", "interrupted"}, UpdateTask(t, s), UNCHANGED applied
  PROVE  Ledger!Next
<1>1. Status' = [Status EXCEPT ![t] = s]
  BY StatusOfOutcome DEF Terminal
<1>2. Status[t] \in Ledger!InProgress
  BY StatusInProgress DEF Ledger!InProgress
<1> QED
  BY <1>1, <1>2 DEF Ledger!Next, Ledger!Conclude

\* Every step is a step of the ledger or leaves it alone.
LEMMA LedgerStep == IInv /\ [Next]_vars => [Ledger!Next]_(Ledger!ledger)
<1> SUFFICES ASSUME IInv, [Next]_vars PROVE Ledger!Next \/ UNCHANGED Ledger!ledger
  OBVIOUS
<1> USE TaskAssumption DEF row, clientVars, workerVars, vars, Ledger!ledger
<1> TypeOK
  BY DEF IInv, Typed
<1> DEFINE Goal == Ledger!Next \/ UNCHANGED Ledger!ledger
<1> HIDE DEF Goal
<1>1. ASSUME NEW c \in Clients, NEW t \in Tasks, Submit(c, t) PROVE Goal
  BY <1>1, StatusUnchanged DEF Submit, Goal
<1>2. ASSUME NEW c \in Clients, NEW t \in Tasks, NEW w \in {"job", "cancel"}, Ask(c, t, w) PROVE Goal
  BY <1>2, StatusUnchanged DEF Ask, Goal
<1>3. ASSUME NEW c \in Clients, SubmitKnown(c) PROVE Goal
  BY <1>3, StatusUnchanged DEF SubmitKnown, Goal
<1>4. ASSUME NEW c \in Clients, Spawn(c) PROVE Goal
  BY <1>4, StatusUnchanged DEF Spawn, Goal
<1>5. ASSUME NEW c \in Clients, Release(c) PROVE Goal
  BY <1>5, StatusUnchanged DEF Release, Goal
<1>6. ASSUME NEW c \in Clients, JobRead(c) PROVE Goal
  BY <1>6, StatusUnchanged DEF JobRead, Goal
<1>7. ASSUME NEW c \in Clients, JobBusy(c) PROVE Goal
  BY <1>7, StatusUnchanged DEF JobBusy, Goal
<1>8. ASSUME NEW c \in Clients, JobLock(c) PROVE Goal
  BY <1>8, StatusUnchanged DEF JobLock, Goal
<1>9. ASSUME NEW c \in Clients, JobReread(c) PROVE Goal
  BY <1>9, StatusUnchanged DEF JobReread, Goal
<1>10. ASSUME NEW c \in Clients, ClientCrash(c) PROVE Goal
  BY <1>10, StatusUnchanged DEF ClientCrash, Goal
<1>11. ASSUME NEW c \in Clients, SubmitNew(c) PROVE Goal
  <2> DEFINE t == target[c]
  <2>1. t \in Tasks /\ state[t] = "absent"
    BY <1>11 DEF SubmitNew, TypeOK
  <2>2. Status[t] = "absent"
    BY <2>1 DEF Status, Active
  <2>3. \A u \in Tasks : Status[u] \in Ledger!InProgress <=> state[u] \in Active
    BY DEF Status, Active, Terminal, TypeOK, Ledger!InProgress
  <2>4. \A u \in Tasks : state[u] \notin Active => Status[u] = state[u]
    BY DEF Status
  <2>5. Status' = [u \in Tasks |->
          IF u = t THEN IF t \in Cancellable THEN "open" ELSE "committed"
          ELSE IF Status[u] \in Ledger!InProgress THEN "interrupted" ELSE Status[u]]
    <3> DEFINE after == [u \in Tasks |->
          IF u = t THEN IF t \in Cancellable THEN "open" ELSE "committed"
          ELSE IF Status[u] \in Ledger!InProgress THEN "interrupted" ELSE Status[u]]
    <3>1. CreateTask(t)
      BY <1>11 DEF SubmitNew
    <3>2. \A u \in Tasks : u # t => Status'[u] = after[u]
      BY <3>1, <2>1, <2>3, <2>4 DEF CreateTask, Status, Active, Terminal, TypeOK
    <3>3. Status'[t] = after[t]
      BY <3>1, <2>1 DEF CreateTask, Status, Active, TypeOK, IInv, CancelInv
    <3>4. Status' = [u \in Tasks |-> Status'[u]]
      BY DEF Status
    <3> HIDE DEF after
    <3>5. after = [u \in Tasks |-> after[u]]
      BY DEF after
    <3>6. \A u \in Tasks : Status'[u] = after[u]
      BY <3>2, <3>3
    <3> QED
      BY <3>4, <3>5, <3>6 DEF after
  <2>6. Ledger!Accept(t)
    BY <1>11, <2>2, <2>5 DEF SubmitNew, Ledger!Accept
  <2> QED
    BY <2>1, <2>6 DEF Ledger!Next, Goal
<1>12. ASSUME NEW c \in Clients, AcceptFails(c) PROVE Goal
  <2>1. target[c] \in Tasks /\ state[target[c]] \in Active
    BY <1>12 DEF AcceptFails, IInv, TypeOK, RowInv, Active
  <2>2. CASE UpdateTask(target[c], "failed")
    BY <1>12, <2>1, <2>2, ConcludeFailed DEF AcceptFails, Goal
  <2>3. CASE UNCHANGED row
    BY <1>12, <2>3, StatusUnchanged DEF AcceptFails, Goal
  <2> QED
    BY <1>12, <2>2, <2>3 DEF AcceptFails
<1>13. ASSUME NEW c \in Clients, JobInterrupt(c) PROVE Goal
  <2>1. target[c] \in Tasks /\ state[target[c]] \in Active
    BY <1>13 DEF JobInterrupt, IInv, TypeOK, RowInv
  <2>2. CASE UpdateTask(target[c], "interrupted")
    BY <1>13, <2>1, <2>2, ConcludeFailed DEF JobInterrupt, Goal
  <2>3. CASE UNCHANGED row
    BY <1>13, <2>3, StatusUnchanged DEF JobInterrupt, Goal
  <2> QED
    BY <1>13, <2>2, <2>3 DEF JobInterrupt
<1>14. ASSUME NEW c \in Clients, CancelTask(c) PROVE Goal
  <2> DEFINE t == target[c]
  <2>1. t \in Tasks
    BY <1>14 DEF CancelTask, TypeOK
  <2>2. CASE ~CanCancel(t) \/ t \in cancelRequested
    <3>1. UNCHANGED <<state, cancellable, cancelRequested, applied>>
      BY <1>14, <2>2 DEF CancelTask
    <3> QED
      BY <3>1, StatusUnchanged DEF Goal
  <2>3. CASE CanCancel(t) /\ t \notin cancelRequested
    <3>1. Status[t] = "open"
      BY <2>1, <2>3 DEF Status, CanCancel
    <3>2. Status' = [Status EXCEPT ![t] = "cancelling"]
      BY <1>14, <2>1, <2>3 DEF CancelTask, CanCancel, Status, TypeOK, Active
    <3>3. Ledger!Cancel(t)
      BY <1>14, <3>1, <3>2 DEF CancelTask, Ledger!Cancel
    <3> QED
      BY <2>1, <3>3 DEF Ledger!Next, Goal
  <2> QED
    BY <2>2, <2>3
<1>15. ASSUME NEW t \in Tasks, PassGate(t) PROVE Goal
  BY <1>15, StatusUnchanged DEF PassGate, Goal
<1>16. ASSUME NEW t \in Tasks, ExecuteReturns(t) PROVE Goal
  BY <1>16, StatusUnchanged DEF ExecuteReturns, Goal
<1>17. ASSUME NEW t \in Tasks, Prepared(t) PROVE Goal
  BY <1>17, StatusUnchanged DEF Prepared, Goal
<1>18. ASSUME NEW t \in Tasks, ReadBack(t) PROVE Goal
  BY <1>18, StatusUnchanged DEF ReadBack, Goal
<1>19. ASSUME NEW t \in Tasks, Watch(t) PROVE Goal
  BY <1>19, StatusUnchanged DEF Watch, Goal
<1>20. ASSUME NEW t \in Tasks, Exit(t) PROVE Goal
  BY <1>20, StatusUnchanged DEF Exit, Goal
<1>21. ASSUME NEW t \in Tasks, LoadTask(t) PROVE Goal
  <2>1. CASE UNCHANGED row
    BY <1>21, <2>1, StatusUnchanged DEF LoadTask, Goal
  <2>2. CASE state[t] = "queued" /\ UpdateTask(t, "failed")
    BY <1>21, <2>2, ConcludeFailed DEF LoadTask, Goal, Active
  <2> QED
    BY <1>21, <2>1, <2>2 DEF LoadTask, FailedWrite
<1>22. ASSUME NEW t \in Tasks, Begin(t) PROVE Goal
  <2>1. state[t] \in Active
    BY <1>22 DEF Begin, IInv, RowInv, Active
  <2>2. CASE UpdateTask(t, "running")
    BY <1>22, <2>1, <2>2, StatusOfReport DEF Begin, Goal
  <2>3. CASE UpdateTask(t, "failed")
    BY <1>22, <2>1, <2>3, ConcludeFailed DEF Begin, Goal
  <2>4. CASE UNCHANGED row
    BY <1>22, <2>4, StatusUnchanged DEF Begin, Goal, row
  <2> QED
    BY <1>22, <2>2, <2>3, <2>4 DEF Begin, FailedWrite
<1>23. ASSUME NEW t \in Tasks, Report(t) PROVE Goal
  <2>1. state[t] \in Active
    BY <1>23 DEF Report, IInv, RowInv, Active
  <2> QED
    BY <1>23, <2>1, StatusOfReport DEF Report, Goal
<1>24. ASSUME NEW t \in Tasks, Commit(t) PROVE Goal
  <2>1. state[t] = "running"
    BY <1>24 DEF Commit, IInv, RowInv
  <2>2. CASE UNCHANGED cancellable
    BY <1>24, <2>2, StatusUnchanged DEF Commit, Goal
  <2>3. CASE cancellable' = cancellable \ {t} /\ t \in cancellable /\ CanCommit(t)
    <3>1. Status[t] = "open"
      BY <2>1, <2>3 DEF Status, Active, CanCommit
    <3>2. UNCHANGED <<state, cancelRequested, applied>>
      BY <1>24 DEF Commit
    <3>3. Status' = [Status EXCEPT ![t] = "committed"]
      BY <2>1, <2>3, <3>2, StatusOfCommit DEF CanCommit, IInv, TypeOK
    <3>4. Ledger!Commit(t)
      BY <3>1, <3>2, <3>3 DEF Ledger!Commit
    <3> QED
      BY <3>4 DEF Ledger!Next, Goal
  <2>4. CASE cancellable' = cancellable \ {t} /\ t \notin cancellable
    BY <2>2, <2>4
  <2> QED
    BY <1>24, <2>2, <2>3, <2>4 DEF Commit
<1>25. ASSUME NEW t \in Tasks, Apply(t) PROVE Goal
  <2>1. Status[t] = "committed"
    BY <1>25 DEF Apply, Status, IInv, RowInv, CancelInv, Sealed, Active
  <2>2. Status' = Status /\ applied' = applied \cup {t}
    BY <1>25, StatusUnchanged DEF Apply
  <2>3. Ledger!Change(t)
    BY <2>1, <2>2 DEF Ledger!Change
  <2> QED
    BY <2>3 DEF Ledger!Next, Goal
<1>26. ASSUME NEW t \in Tasks, Seal(t) PROVE Goal
  <2>1. state[t] = "running"
    BY <1>26 DEF Seal, IInv, RowInv
  <2>2. CASE UNCHANGED cancellable
    BY <1>26, <2>2, StatusUnchanged DEF Seal, Goal
  <2>3. CASE cancellable' = cancellable \ {t} /\ t \in cancellable /\ CanCommit(t)
    <3>1. Status[t] = "open"
      BY <2>1, <2>3 DEF Status, Active, CanCommit
    <3>2. UNCHANGED <<state, cancelRequested, applied>>
      BY <1>26 DEF Seal
    <3>3. Status' = [Status EXCEPT ![t] = "committed"]
      BY <2>1, <2>3, <3>2, StatusOfCommit DEF CanCommit, IInv, TypeOK
    <3>4. Ledger!Commit(t)
      BY <3>1, <3>2, <3>3 DEF Ledger!Commit
    <3> QED
      BY <3>4 DEF Ledger!Next, Goal
  <2>4. CASE cancellable' = cancellable \ {t} /\ t \notin cancellable
    BY <2>2, <2>4
  <2>5. t \in cancellable => t \in Cancellable
    BY DEF IInv, CancelInv, Sealed
  <2> QED
    BY <1>26, <2>2, <2>3, <2>4, <2>5 DEF Seal
<1>27. ASSUME NEW t \in Tasks, Finish(t) PROVE Goal
  <2>1. state[t] = "running"
    BY <1>27 DEF Finish, IInv, RowInv
  <2>2. CASE UpdateTask(t, "failed")
    BY <1>27, <2>1, <2>2, ConcludeFailed DEF Finish, Goal, Active
  <2>3. CASE UpdateTask(t, "cancelled") /\ verdict[t] = "cancelled"
    <3>1. Status[t] = "cancelling"
      BY <1>27, <2>1, <2>3 DEF Finish, Status, IInv, CancelInv, Active
    <3>2. Status' = [Status EXCEPT ![t] = "cancelled"] /\ UNCHANGED applied
      BY <1>27, <2>3, StatusOfOutcome DEF Finish, Terminal
    <3>3. Ledger!Conclude(t)
      BY <3>1, <3>2 DEF Ledger!Conclude
    <3> QED
      BY <3>3 DEF Ledger!Next, Goal
  <2>4. CASE UpdateTask(t, "succeeded") /\ verdict[t] = "succeeded"
    <3>1. Status[t] = "committed"
      BY <1>27, <2>1, <2>4 DEF Finish, Status, IInv, CancelInv, Sealed, Active
    <3>2. Status' = [Status EXCEPT ![t] = "succeeded"] /\ UNCHANGED applied
      BY <1>27, <2>4, StatusOfOutcome DEF Finish, Terminal
    <3>3. Ledger!Conclude(t)
      BY <3>1, <3>2 DEF Ledger!Conclude
    <3> QED
      BY <3>3 DEF Ledger!Next, Goal
  <2>5. CASE UNCHANGED row
    BY <1>27, <2>5, StatusUnchanged DEF Finish, Goal, row
  <2>6. verdict[t] \in {"succeeded", "failed", "cancelled"}
    BY <1>27 DEF Finish, IInv, Typed, VerdictInv
  <2> QED
    BY <1>27, <2>2, <2>3, <2>4, <2>5, <2>6 DEF Finish, FailedWrite
<1>28. CASE SupervisorExit
  BY <1>28, StatusUnchanged DEF SupervisorExit, Goal
<1>29. CASE UNCHANGED vars
  BY <1>29, StatusUnchanged DEF Goal
<1> QED
  BY <1>1, <1>2, <1>3, <1>4, <1>5, <1>6, <1>7, <1>8, <1>9, <1>10, <1>11, <1>12,
     <1>13, <1>14, <1>15, <1>16, <1>17, <1>18, <1>19, <1>20, <1>21, <1>22, <1>23, <1>24,
     <1>25, <1>26, <1>27, <1>28, <1>29
     DEF Next, ClientStep, WorkerStep, Goal

\* TaskLifecycle implements TaskLedger.
THEOREM LedgerRefinement == Spec => ImplementsLedger
<1>1. Init => Ledger!Init
  BY DEF Init, Ledger!Init, Status, Active
<1>2. IInv /\ [Next]_vars => [Ledger!Next]_(Ledger!ledger)
  BY LedgerStep
<1> QED
  BY <1>1, <1>2, Invariance, PTL DEF Spec, ImplementsLedger, Ledger!Spec

-----------------------------------------------------------------------------
(* Outcomes are final.                                                     *)

\* A write to another row, or to an active one, leaves a finished task final.
LEMMA UpdateKeepsFinal ==
  ASSUME IInv, NEW u \in Tasks, state[u] \in Terminal,
         NEW t \in Tasks, state[t] \in Active, NEW s, UpdateTask(t, s)
  PROVE  StaysFinal(u)
<1>1. u # t /\ u \notin cancellable /\ u \notin request
  BY DEF IInv, CancelInv, Active, Terminal
<1> QED
  BY <1>1 DEF IInv, Typed, TypeOK, UpdateTask, StaysFinal

\* A step that leaves the row alone does so too.
LEMMA RowKeepsFinal ==
  ASSUME IInv, NEW u \in Tasks, state[u] \in Terminal, UNCHANGED row
  PROVE  StaysFinal(u)
BY DEF IInv, CancelInv, Active, Terminal, StaysFinal, row

\* No step touches the row of a finished task.
LEMMA FinalStep ==
  IInv /\ [Next]_vars => \A u \in Tasks : state[u] \in Terminal => StaysFinal(u)
<1> SUFFICES ASSUME IInv, [Next]_vars, NEW u \in Tasks, state[u] \in Terminal
             PROVE  StaysFinal(u)
  OBVIOUS
<1>1. u \notin cancellable /\ u \notin request
  BY DEF IInv, CancelInv, Active, Terminal
<1>2. CASE UNCHANGED row
  BY <1>2, RowKeepsFinal
<1>3. ASSUME NEW c \in Clients, SubmitNew(c) PROVE StaysFinal(u)
  <2>1. u # target[c] /\ state[u] \notin Active
    BY <1>3 DEF SubmitNew, Active, Terminal
  <2> QED
    BY <1>1, <1>3, <2>1 DEF SubmitNew, CreateTask, StaysFinal
<1>4. ASSUME NEW c \in Clients, AcceptFails(c) PROVE StaysFinal(u)
  <2>1. target[c] \in Tasks /\ state[target[c]] \in Active
    BY <1>4 DEF AcceptFails, IInv, RowInv, Typed, TypeOK, Active
  <2> QED
    BY <1>2, <1>4, <2>1, UpdateKeepsFinal DEF AcceptFails
<1>5. ASSUME NEW c \in Clients, JobInterrupt(c) PROVE StaysFinal(u)
  <2>1. target[c] \in Tasks /\ state[target[c]] \in Active
    BY <1>5 DEF JobInterrupt, IInv, RowInv, Typed, TypeOK
  <2> QED
    BY <1>2, <1>5, <2>1, UpdateKeepsFinal DEF JobInterrupt
<1>6. ASSUME NEW c \in Clients, CancelTask(c) PROVE StaysFinal(u)
  BY <1>1, <1>6 DEF CancelTask, CanCancel, StaysFinal
<1>7. ASSUME NEW t \in Tasks, LoadTask(t) PROVE StaysFinal(u)
  BY <1>2, <1>7, UpdateKeepsFinal DEF LoadTask, FailedWrite, Active
<1>8. ASSUME NEW t \in Tasks, Begin(t) PROVE StaysFinal(u)
  <2>1. state[t] \in Active
    BY <1>8 DEF Begin, IInv, RowInv, Active
  <2> QED
    BY <1>2, <1>8, <2>1, UpdateKeepsFinal DEF Begin, FailedWrite
<1>9. ASSUME NEW t \in Tasks, Report(t) PROVE StaysFinal(u)
  <2>1. state[t] \in Active
    BY <1>9 DEF Report, IInv, RowInv, Active
  <2> QED
    BY <1>9, <2>1, UpdateKeepsFinal DEF Report
<1>10. ASSUME NEW t \in Tasks, Commit(t) \/ Seal(t) PROVE StaysFinal(u)
  BY <1>1, <1>10 DEF Commit, Seal, StaysFinal
<1>11. ASSUME NEW t \in Tasks, Finish(t) PROVE StaysFinal(u)
  <2>1. state[t] \in Active
    BY <1>11 DEF Finish, IInv, RowInv, Active
  <2> QED
    BY <1>2, <1>11, <2>1, UpdateKeepsFinal DEF Finish, FailedWrite
<1> QED
  <2>1. ASSUME NEW c \in Clients, ClientStep(c) \/ ClientCrash(c) PROVE StaysFinal(u)
    BY <1>2, <1>3, <1>4, <1>5, <1>6, <2>1
       DEF ClientStep, ClientCrash, SubmitKnown, Spawn, Release, JobRead, JobBusy,
           JobLock, JobReread
  <2>2. ASSUME NEW t \in Tasks, WorkerStep(t) \/ Watch(t) \/ Exit(t) PROVE StaysFinal(u)
    BY <1>2, <1>7, <1>8, <1>9, <1>10, <1>11, <2>2
       DEF WorkerStep, Watch, Exit, PassGate, ExecuteReturns, Prepared, Apply, ReadBack
  <2> QED
    BY <1>2, <2>1, <2>2 DEF Next, Submit, Ask, SupervisorExit, vars

\* A finished task is never written again.
THEOREM OutcomesAreFinal == Spec => TerminalIsFinal
<1>1. IInv /\ [Next]_vars => [\A t \in Tasks : state[t] \in Terminal => StaysFinal(t)]_vars
  BY FinalStep
<1> QED
  BY <1>1, Invariance, PTL DEF Spec, TerminalIsFinal

-----------------------------------------------------------------------------
(* No cancel is acknowledged once the outcome is chosen.                   *)

\* Past the closing CommitTask a task that can still be cancelled has been
\* cancelled already, so that one more Cancel() changes nothing; unless a
\* statement has failed, which is how that CommitTask may go unnoticed.
ClosedAt(t) == worker[t] \in {"readback", "finish"} => t \notin cancellable \/ t \in cancelRequested

SealInv == faults = 0 => \A t \in Tasks : ClosedAt(t)

\* A write to the row of another task leaves an acceptance closed.
LEMMA UpdateKeepsClosed ==
  ASSUME NEW t \in Tasks, t \notin cancellable \/ t \in cancelRequested,
         NEW u \in Tasks, NEW s, UpdateTask(u, s)
  PROVE  t \notin cancellable' \/ t \in cancelRequested'
BY DEF UpdateTask

\* Every step keeps a closed acceptance closed: a submission only writes the
\* row of a task nobody works on, and the rows of the dead.
LEMMA SealStep == IInv /\ SealInv /\ [Next]_vars => SealInv'
<1> SUFFICES ASSUME IInv, SealInv, [Next]_vars, faults' = 0,
                    NEW t \in Tasks, worker'[t] \in {"readback", "finish"}
             PROVE  t \notin cancellable' \/ t \in cancelRequested'
  BY DEF SealInv, ClosedAt
<1> DEFINE Goal == t \notin cancellable' \/ t \in cancelRequested'
<1> TypeOK
  BY DEF IInv, Typed
<1>1. faults \in Nat /\ ~Fault
  BY TaskAssumption DEF TypeOK, Fault
<1>2. CASE worker[t] = "seal"
  <2>1. \A u \in Tasks : worker[u] \in Live => u = t
    BY <1>2 DEF IInv, LockInv, Live
  <2>2. \A c \in Clients : client[c] \notin HoldsLock
    BY <1>2 DEF IInv, LockInv, Live
  <2>3. Seal(t)
    <3>1. \A c \in Clients : ~Spawn(c) /\ ~AcceptFails(c)
      BY <2>2 DEF Spawn, AcceptFails, HoldsLock
    <3>2. ASSUME NEW u \in Tasks, WorkerStep(u) PROVE Seal(t)
      <4>1. u = t
        BY <2>1, <3>2 DEF WorkerStep, PassGate, LoadTask, Begin, Report, ExecuteReturns, Prepared,
           Commit, Apply, Seal, ReadBack, Finish, Live
      <4> QED
        BY <1>2, <3>2, <4>1 DEF WorkerStep, PassGate, LoadTask, Begin, Report, ExecuteReturns,
           Prepared, Commit, Apply, ReadBack, Finish
    <3>3. ASSUME NEW u \in Tasks, Exit(u) PROVE FALSE
      BY <1>2, <2>1, <3>3 DEF Exit, Gone, Step, TypeOK
    <3>4. worker' # worker
      BY <1>2
    <3> QED
      BY <3>1, <3>2, <3>3, <3>4
         DEF Next, ClientStep, Submit, Ask, SubmitKnown, SubmitNew, Release, JobRead, JobBusy,
             JobLock, JobReread, JobInterrupt, CancelTask, ClientCrash, Watch, SupervisorExit,
             workerVars, vars
  <2>4. state[t] = "running"
    BY <1>2 DEF IInv, RowInv
  <2>5. t \notin Cancellable => t \notin cancellable
    BY DEF IInv, CancelInv, Sealed
  <2> QED
    BY <1>1, <2>3, <2>4, <2>5 DEF Seal, CanCommit, Active
<1>3. CASE worker[t] \in {"readback", "finish"}
  <2>1. t \notin cancellable \/ t \in cancelRequested
    <3>1. faults = 0
      BY <1>1 DEF Next, ClientStep, WorkerStep, Submit, Ask, SubmitKnown, SubmitNew, Spawn, Release,
         AcceptFails, JobRead, JobBusy, JobLock, JobReread, JobInterrupt, CancelTask, ClientCrash,
         PassGate, LoadTask, Begin, Report, ExecuteReturns, Prepared, Commit, Apply, Seal,
         ReadBack, Finish, FailedWrite, Watch, Exit, SupervisorExit, vars
    <3> QED
      BY <1>3, <3>1 DEF SealInv, ClosedAt
  <2>2. state[t] = "running"
    BY <1>3 DEF IInv, RowInv
  <2>3. CASE UNCHANGED <<cancellable, cancelRequested>>
    BY <2>1, <2>3
  <2>4. ASSUME NEW u \in Tasks, NEW s, UpdateTask(u, s) PROVE Goal
    BY <2>1, <2>4, UpdateKeepsClosed
  <2>5. ASSUME NEW c \in Clients, SubmitNew(c) PROVE Goal
    <3>1. client[c] \in HoldsLock
      BY <2>5 DEF SubmitNew, HoldsLock
    <3> QED
      BY <1>3, <3>1, <2>5 DEF IInv, LockInv, Live, SubmitNew
  <2>6. ASSUME NEW c \in Clients, CancelTask(c) PROVE Goal
    BY <2>1, <2>6 DEF CancelTask
  <2>7. ASSUME NEW u \in Tasks, Commit(u) \/ Seal(u) PROVE Goal
    BY <2>1, <2>7 DEF Commit, Seal
  <2>8. ASSUME NEW c \in Clients, ClientStep(c) PROVE Goal
    <3>1. target[c] \in Tasks \/ client[c] = "idle"
      BY DEF TypeOK
    <3> QED
      BY <2>3, <2>4, <2>5, <2>6, <2>8, <3>1
         DEF ClientStep, SubmitKnown, Spawn, Release, AcceptFails, JobRead, JobBusy,
             JobLock, JobReread, JobInterrupt, row
  <2>9. ASSUME NEW u \in Tasks, WorkerStep(u) PROVE Goal
    BY <2>3, <2>4, <2>7, <2>9
       DEF WorkerStep, PassGate, LoadTask, Begin, Report, ExecuteReturns, Prepared, Apply,
           ReadBack, Finish, FailedWrite, row
  <2>10. ASSUME NEW c \in Clients, ClientCrash(c) PROVE Goal
    BY <2>3, <2>10 DEF ClientCrash, row
  <2>11. ASSUME NEW u \in Tasks, Watch(u) \/ Exit(u) PROVE Goal
    BY <2>3, <2>11 DEF Watch, Exit, row
  <2>12. ASSUME NEW c \in Clients, NEW u \in Tasks, NEW w, Submit(c, u) \/ Ask(c, u, w) PROVE Goal
    BY <2>3, <2>12 DEF Submit, Ask, row
  <2>13. CASE SupervisorExit \/ UNCHANGED vars
    BY <2>3, <2>13 DEF SupervisorExit, vars, row
  <2> QED
    BY <2>8, <2>9, <2>10, <2>11, <2>12, <2>13 DEF Next
<1> QED
  <2>1. CASE worker'[t] = worker[t]
    BY <1>3, <2>1
  <2>2. CASE worker'[t] # worker[t]
    BY <1>2, <1>3, <2>2
       DEF Next, ClientStep, WorkerStep, Submit, Ask, SubmitKnown, SubmitNew, Spawn, Release,
         AcceptFails, JobRead, JobBusy, JobLock, JobReread, JobInterrupt, CancelTask, ClientCrash,
         PassGate, LoadTask, Begin, Report, ExecuteReturns, Prepared, Commit, Apply, Seal,
         ReadBack, Finish, Watch, Exit, Gone, Step, SupervisorExit, workerVars, vars, TypeOK
  <2> QED
    BY <2>1, <2>2

\* While no statement has failed, no Cancel() is acknowledged any more, and
\* none taken back, once the worker has chosen the outcome it will record.
THEOREM NoCancelIsLate == Spec => NoLateCancel
<1> DEFINE Late == \A t \in Tasks : faults = 0 /\ worker[t] = "finish" =>
                    (t \in cancelRequested' <=> t \in cancelRequested)
<1>1. Init => SealInv
  BY DEF Init, SealInv, ClosedAt
<1>2. IInv /\ SealInv /\ [Next]_vars => SealInv'
  BY SealStep
<1>3. IInv /\ SealInv /\ [Next]_vars => [Late]_vars
  <2> SUFFICES ASSUME IInv, SealInv, [Next]_vars, NEW t \in Tasks,
                      faults = 0, worker[t] = "finish"
               PROVE  t \in cancelRequested' <=> t \in cancelRequested
    OBVIOUS
  <2>1. t \notin cancellable \/ t \in cancelRequested
    BY DEF SealInv, ClosedAt
  <2>2. \A c \in Clients : client[c] \notin HoldsLock
    BY DEF IInv, LockInv, Live
  <2>3. ASSUME NEW c \in Clients, ClientStep(c) PROVE t \in cancelRequested' <=> t \in cancelRequested
    BY <2>1, <2>2, <2>3
       DEF ClientStep, SubmitKnown, SubmitNew, Spawn, Release, AcceptFails, JobRead, JobBusy,
           JobLock, JobReread, JobInterrupt, CancelTask, CanCancel, UpdateTask, HoldsLock, row
  <2>4. ASSUME NEW u \in Tasks, WorkerStep(u) PROVE UNCHANGED cancelRequested
    BY <2>4
       DEF WorkerStep, PassGate, LoadTask, Begin, Report, ExecuteReturns, Prepared, Commit,
           Apply, Seal, ReadBack, Finish, FailedWrite, UpdateTask, row
  <2> QED
    BY <2>3, <2>4 DEF Next, Submit, Ask, ClientCrash, Watch, Exit, SupervisorExit, vars, row
<1> QED
  BY <1>1, <1>2, <1>3, Invariance, PTL DEF Spec, NoLateCancel

=============================================================================
