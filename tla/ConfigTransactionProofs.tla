----------------------- MODULE ConfigTransactionProofs -----------------------
(* Theorems about ConfigTransaction, for any number of updates, any          *)
(* retention and whether or not the runtime's state can always be read.      *)
EXTENDS ConfigTransaction, TLAPS

-----------------------------------------------------------------------------
(* The inductive invariant.                                                *)

\* The pending row at each point of the worker: what applyConfig has written
\* is what its rollback will read, and nobody starts work over an unfinished
\* transaction.
Mine == [previous |-> found.previous, next |-> used, wasRunning |-> found.wasRunning]

PendingInv ==
  /\ unwinding => at \in Unwind \cup {"end", "idle"}
  /\ at \in {"stop", "link", "start", "clear"} => pending = Mine
  /\ unwinding /\ at \in {"recover", "unwindStop", "unwindLink", "unwindClear"} =>
       pending = Mine
  /\ at \in {"work", "halt", "launch", "write", "save", "test", "inspect", "pend"} =>
       pending = NoPending
  /\ at \in {"unwindStop", "unwindLink", "unwindClear"} => pending # NoPending
  /\ at = "resume" => pending = NoPending

\* Where the link can point.
LinkInv ==
  /\ pending # NoPending => active \in {pending.previous, pending.next}
  /\ at = "pend" => active = found.previous
  /\ at = "unwindClear" => active = pending.previous
  /\ at \in {"start", "clear"} => active = used
  /\ at = "resume" /\ unwinding => active = found.previous

\* The link only moves while nothing runs.
RunInv ==
  /\ RunsActive
  /\ at \in {"link", "unwindLink"} => ~Running

\* The candidate is complete before anything may point to it.
FilesInv ==
  /\ Recoverable
  /\ action = "update" => used \in Ids
  /\ at \in Applying \cup {"recover"} /\ (unwinding \/ at # "recover") => action = "update"
  /\ at \in Applying \ {"write"} => used \in files
  /\ at \in Applying \ {"write", "save"} => used \in rows

IInv == TypeOK /\ PendingInv /\ LinkInv /\ RunInv /\ FilesInv

-----------------------------------------------------------------------------
(* The invariant is inductive.                                             *)

\* Every step keeps the types and the foreign key.
LEMMA TypeStep == IInv /\ [Next]_vars => TypeOK'
<1> SUFFICES ASSUME IInv, [Next]_vars PROVE TypeOK'
  OBVIOUS
<1> USE ConfigAssumption DEF TypeOK, IInv, PendingInv, FilesInv,
        vars, disk, proxy, worker, Ids, NoConfig, Actions, Found, Nothing, Pending, NoPending,
        Applying, Unwind, Mine, Running, Runtime!Up
<1>1. ASSUME NEW a \in Actions, Begin(a) PROVE TypeOK'
  <2>1. used' \in 0..MaxUpdates /\ 1..used \subseteq 1..used'
    BY <1>1 DEF Begin
  <2> QED
    BY <1>1, <2>1 DEF Begin
<1>2. CASE Recover
  BY <1>2 DEF Recover, Recovered, UnwindFails, Goto, End
<1>3. CASE UnwindStop
  BY <1>3 DEF UnwindStop, Stopped, StopFailed, Loads, Startable, Runtime!Stopped, Runtime!Drift, UnwindFails, Goto, End
<1>4. CASE UnwindLink
  BY <1>4 DEF UnwindLink, UnwindFails, Goto, End
<1>5. CASE UnwindClear
  BY <1>5 DEF UnwindClear, Recovered, UnwindFails, Goto, End
<1>6. CASE Resume
  BY <1>6 DEF Resume, Started, StartFailed, Startable, Loads, UnwindFails, Goto, End
<1>7. CASE Work
  BY <1>7 DEF Work, Goto, End
<1>8. CASE Halt
  BY <1>8 DEF Halt, Stopped, StopFailed, Loads, Startable, Runtime!Stopped, Runtime!Drift, Goto, End
<1>9. CASE Launch
  BY <1>9 DEF Launch, Started, StartFailed, Startable, Loads, Goto, End
<1>10. CASE Write
  <2>1. used \in 1..used
    BY <1>10 DEF Write
  <2> QED
    BY <1>10, <2>1 DEF Write, Goto, End
<1>11. CASE Save
  BY <1>11 DEF Save, Goto, End
<1>12. CASE Test
  BY <1>12 DEF Test, Goto, End
<1>13. CASE Inspect
  BY <1>13 DEF Inspect
<1>14. CASE Pend
  BY <1>14 DEF Pend, Goto, End
<1>15. CASE Stop
  BY <1>15 DEF Stop, Stopped, StopFailed, Loads, Startable, Runtime!Stopped, Runtime!Drift, Rollback, Goto, End
<1>16. CASE Link
  BY <1>16 DEF Link, Rollback, Goto, End
<1>17. CASE Start
  BY <1>17 DEF Start, Started, StartFailed, Startable, Loads, Rollback, Goto, End
<1>18. CASE Clear
  BY <1>18 DEF Clear, Goto, End
<1>19. CASE Prune
  <2>1. files' \subseteq files /\ rows' \subseteq rows
    BY <1>19 DEF Prune, Old
  <2>2. pending # NoPending => rows' = rows
    BY <1>19 DEF Prune
  <2>3. UNCHANGED <<used, active, pending, proxy, action, found, unwinding, outcome, halted>>
        /\ at' = "idle"
    BY <1>19 DEF Prune, Goto
  <2> QED
    BY <2>1, <2>2, <2>3
<1>20. CASE Crash
  BY <1>20 DEF Crash, WorkerGone
<1>21. CASE RuntimeDrifts
  BY <1>21 DEF RuntimeDrifts, Loads, Startable, Runtime!Drift
<1>22. CASE Reboot
  BY <1>22 DEF Reboot, WorkerGone, Startable
<1>23. CASE UNCHANGED vars
  BY <1>23
<1> QED
  BY <1>1, <1>2, <1>3, <1>4, <1>5, <1>6, <1>7, <1>8, <1>9, <1>10, <1>11,
     <1>12, <1>13, <1>14, <1>15, <1>16, <1>17, <1>18, <1>19, <1>20, <1>21,
     <1>22, <1>23
     DEF Next, Unwinding, Apply

\* Every step keeps the pending row in step with the worker.
LEMMA PendingStep == IInv /\ [Next]_vars => PendingInv'
<1> SUFFICES ASSUME IInv, [Next]_vars PROVE PendingInv'
  OBVIOUS
<1> USE ConfigAssumption DEF TypeOK, IInv, PendingInv,
        vars, disk, proxy, worker, Ids, NoConfig, Actions, Found, Nothing, Pending, NoPending,
        Applying, Unwind, Mine, Running, Runtime!Up
<1>1. ASSUME NEW a \in Actions, Begin(a) PROVE PendingInv'
  BY <1>1 DEF Begin
<1>2. CASE Recover
  BY <1>2 DEF Recover, Recovered, UnwindFails, Goto, End
<1>3. CASE UnwindStop
  BY <1>3 DEF UnwindStop, Stopped, StopFailed, Loads, Startable, Runtime!Stopped, Runtime!Drift, UnwindFails, Goto, End
<1>4. CASE UnwindLink
  BY <1>4 DEF UnwindLink, UnwindFails, Goto, End
<1>5. CASE UnwindClear
  BY <1>5 DEF UnwindClear, Recovered, UnwindFails, Goto, End
<1>6. CASE Resume
  BY <1>6 DEF Resume, Started, StartFailed, Startable, Loads, UnwindFails, Goto, End
<1>7. CASE Work
  BY <1>7 DEF Work, Goto, End
<1>8. CASE Halt
  BY <1>8 DEF Halt, Stopped, StopFailed, Loads, Startable, Runtime!Stopped, Runtime!Drift, Goto, End
<1>9. CASE Launch
  BY <1>9 DEF Launch, Started, StartFailed, Startable, Loads, Goto, End
<1>10. CASE Write
  BY <1>10 DEF Write, Goto, End
<1>11. CASE Save
  BY <1>11 DEF Save, Goto, End
<1>12. CASE Test
  BY <1>12 DEF Test, Goto, End
<1>13. CASE Inspect
  BY <1>13 DEF Inspect
<1>14. CASE Pend
  BY <1>14 DEF Pend, Goto, End
<1>15. CASE Stop
  BY <1>15 DEF Stop, Stopped, StopFailed, Loads, Startable, Runtime!Stopped, Runtime!Drift, Rollback, Goto, End
<1>16. CASE Link
  BY <1>16 DEF Link, Rollback, Goto, End
<1>17. CASE Start
  BY <1>17 DEF Start, Started, StartFailed, Startable, Loads, Rollback, Goto, End
<1>18. CASE Clear
  BY <1>18 DEF Clear, Goto, End
<1>19. CASE Prune
  BY <1>19 DEF Prune, Old, Goto
<1>20. CASE Crash
  BY <1>20 DEF Crash, WorkerGone
<1>21. CASE RuntimeDrifts
  BY <1>21 DEF RuntimeDrifts, Loads, Startable, Runtime!Drift
<1>22. CASE Reboot
  BY <1>22 DEF Reboot, WorkerGone, Startable
<1>23. CASE UNCHANGED vars
  BY <1>23
<1> QED
  BY <1>1, <1>2, <1>3, <1>4, <1>5, <1>6, <1>7, <1>8, <1>9, <1>10, <1>11,
     <1>12, <1>13, <1>14, <1>15, <1>16, <1>17, <1>18, <1>19, <1>20, <1>21,
     <1>22, <1>23
     DEF Next, Unwinding, Apply

\* Every step leaves the link where a recovery can account for it.
LEMMA LinkStep == IInv /\ [Next]_vars => LinkInv'
<1> SUFFICES ASSUME IInv, [Next]_vars PROVE LinkInv'
  OBVIOUS
<1> USE ConfigAssumption DEF TypeOK, IInv, PendingInv, LinkInv,
        vars, disk, proxy, worker, Ids, NoConfig, Actions, Found, Nothing, Pending, NoPending,
        Applying, Unwind, Mine, Running, Runtime!Up
<1>1. ASSUME NEW a \in Actions, Begin(a) PROVE LinkInv'
  BY <1>1 DEF Begin
<1>2. CASE Recover
  BY <1>2 DEF Recover, Recovered, UnwindFails, Goto, End
<1>3. CASE UnwindStop
  BY <1>3 DEF UnwindStop, Stopped, StopFailed, Loads, Startable, Runtime!Stopped, Runtime!Drift, UnwindFails, Goto, End
<1>4. CASE UnwindLink
  BY <1>4 DEF UnwindLink, UnwindFails, Goto, End
<1>5. CASE UnwindClear
  BY <1>5 DEF UnwindClear, Recovered, UnwindFails, Goto, End
<1>6. CASE Resume
  BY <1>6 DEF Resume, Started, StartFailed, Startable, Loads, UnwindFails, Goto, End
<1>7. CASE Work
  BY <1>7 DEF Work, Goto, End
<1>8. CASE Halt
  BY <1>8 DEF Halt, Stopped, StopFailed, Loads, Startable, Runtime!Stopped, Runtime!Drift, Goto, End
<1>9. CASE Launch
  BY <1>9 DEF Launch, Started, StartFailed, Startable, Loads, Goto, End
<1>10. CASE Write
  BY <1>10 DEF Write, Goto, End
<1>11. CASE Save
  BY <1>11 DEF Save, Goto, End
<1>12. CASE Test
  BY <1>12 DEF Test, Goto, End
<1>13. CASE Inspect
  BY <1>13 DEF Inspect
<1>14. CASE Pend
  BY <1>14 DEF Pend, Goto, End
<1>15. CASE Stop
  BY <1>15 DEF Stop, Stopped, StopFailed, Loads, Startable, Runtime!Stopped, Runtime!Drift, Rollback, Goto, End
<1>16. CASE Link
  BY <1>16 DEF Link, Rollback, Goto, End
<1>17. CASE Start
  BY <1>17 DEF Start, Started, StartFailed, Startable, Loads, Rollback, Goto, End
<1>18. CASE Clear
  BY <1>18 DEF Clear, Goto, End
<1>19. CASE Prune
  BY <1>19 DEF Prune, Old, Goto
<1>20. CASE Crash
  BY <1>20 DEF Crash, WorkerGone
<1>21. CASE RuntimeDrifts
  BY <1>21 DEF RuntimeDrifts, Loads, Startable, Runtime!Drift
<1>22. CASE Reboot
  BY <1>22 DEF Reboot, WorkerGone, Startable
<1>23. CASE UNCHANGED vars
  BY <1>23
<1> QED
  BY <1>1, <1>2, <1>3, <1>4, <1>5, <1>6, <1>7, <1>8, <1>9, <1>10, <1>11,
     <1>12, <1>13, <1>14, <1>15, <1>16, <1>17, <1>18, <1>19, <1>20, <1>21,
     <1>22, <1>23
     DEF Next, Unwinding, Apply

\* Every step keeps the core on the active generation.
LEMMA RunStep == IInv /\ [Next]_vars => RunInv'
<1> SUFFICES ASSUME IInv, [Next]_vars PROVE RunInv'
  OBVIOUS
<1> USE ConfigAssumption DEF TypeOK, IInv, PendingInv, LinkInv, RunInv, RunsActive,
        vars, disk, proxy, worker, Ids, NoConfig, Actions, Found, Nothing, Pending, NoPending,
        Applying, Unwind, Mine, Running, Runtime!Up
<1>1. ASSUME NEW a \in Actions, Begin(a) PROVE RunInv'
  BY <1>1 DEF Begin
<1>2. CASE Recover
  BY <1>2 DEF Recover, Recovered, UnwindFails, Goto, End
<1>3. CASE UnwindStop
  BY <1>3 DEF UnwindStop, Stopped, StopFailed, Loads, Startable, Runtime!Stopped, Runtime!Drift, UnwindFails, Goto, End
<1>4. CASE UnwindLink
  BY <1>4 DEF UnwindLink, UnwindFails, Goto, End
<1>5. CASE UnwindClear
  BY <1>5 DEF UnwindClear, Recovered, UnwindFails, Goto, End
<1>6. CASE Resume
  BY <1>6 DEF Resume, Started, StartFailed, Startable, Loads, UnwindFails, Goto, End
<1>7. CASE Work
  BY <1>7 DEF Work, Goto, End
<1>8. CASE Halt
  BY <1>8 DEF Halt, Stopped, StopFailed, Loads, Startable, Runtime!Stopped, Runtime!Drift, Goto, End
<1>9. CASE Launch
  BY <1>9 DEF Launch, Started, StartFailed, Startable, Loads, Goto, End
<1>10. CASE Write
  BY <1>10 DEF Write, Goto, End
<1>11. CASE Save
  BY <1>11 DEF Save, Goto, End
<1>12. CASE Test
  BY <1>12 DEF Test, Goto, End
<1>13. CASE Inspect
  BY <1>13 DEF Inspect
<1>14. CASE Pend
  BY <1>14 DEF Pend, Goto, End
<1>15. CASE Stop
  BY <1>15 DEF Stop, Stopped, StopFailed, Loads, Startable, Runtime!Stopped, Runtime!Drift, Rollback, Goto, End
<1>16. CASE Link
  BY <1>16 DEF Link, Rollback, Goto, End
<1>17. CASE Start
  BY <1>17 DEF Start, Started, StartFailed, Startable, Loads, Rollback, Goto, End
<1>18. CASE Clear
  BY <1>18 DEF Clear, Goto, End
<1>19. CASE Prune
  BY <1>19 DEF Prune, Old, Goto
<1>20. CASE Crash
  BY <1>20 DEF Crash, WorkerGone
<1>21. CASE RuntimeDrifts
  BY <1>21 DEF RuntimeDrifts, Loads, Startable, Runtime!Drift
<1>22. CASE Reboot
  BY <1>22 DEF Reboot, WorkerGone, Startable
<1>23. CASE UNCHANGED vars
  BY <1>23
<1> QED
  BY <1>1, <1>2, <1>3, <1>4, <1>5, <1>6, <1>7, <1>8, <1>9, <1>10, <1>11,
     <1>12, <1>13, <1>14, <1>15, <1>16, <1>17, <1>18, <1>19, <1>20, <1>21,
     <1>22, <1>23
     DEF Next, Unwinding, Apply

\* Every step keeps the generations that the link and the pending row name.
LEMMA FilesStep == IInv /\ [Next]_vars => FilesInv'
<1> SUFFICES ASSUME IInv, [Next]_vars PROVE FilesInv'
  OBVIOUS
<1> USE ConfigAssumption DEF TypeOK, IInv, PendingInv, LinkInv, FilesInv, Recoverable,
        vars, disk, proxy, worker, Ids, NoConfig, Actions, Found, Nothing, Pending, NoPending,
        Applying, Unwind, Mine, Running, Runtime!Up
<1>1. ASSUME NEW a \in Actions, Begin(a) PROVE FilesInv'
  BY <1>1 DEF Begin
<1>2. CASE Recover
  BY <1>2 DEF Recover, Recovered, UnwindFails, Goto, End
<1>3. CASE UnwindStop
  BY <1>3 DEF UnwindStop, Stopped, StopFailed, Loads, Startable, Runtime!Stopped, Runtime!Drift, UnwindFails, Goto, End
<1>4. CASE UnwindLink
  BY <1>4 DEF UnwindLink, UnwindFails, Goto, End
<1>5. CASE UnwindClear
  BY <1>5 DEF UnwindClear, Recovered, UnwindFails, Goto, End
<1>6. CASE Resume
  BY <1>6 DEF Resume, Started, StartFailed, Startable, Loads, UnwindFails, Goto, End
<1>7. CASE Work
  BY <1>7 DEF Work, Goto, End
<1>8. CASE Halt
  BY <1>8 DEF Halt, Stopped, StopFailed, Loads, Startable, Runtime!Stopped, Runtime!Drift, Goto, End
<1>9. CASE Launch
  BY <1>9 DEF Launch, Started, StartFailed, Startable, Loads, Goto, End
<1>10. CASE Write
  BY <1>10 DEF Write, Goto, End
<1>11. CASE Save
  BY <1>11 DEF Save, Goto, End
<1>12. CASE Test
  BY <1>12 DEF Test, Goto, End
<1>13. CASE Inspect
  BY <1>13 DEF Inspect
<1>14. CASE Pend
  BY <1>14 DEF Pend, Goto, End
<1>15. CASE Stop
  BY <1>15 DEF Stop, Stopped, StopFailed, Loads, Startable, Runtime!Stopped, Runtime!Drift, Rollback, Goto, End
<1>16. CASE Link
  BY <1>16 DEF Link, Rollback, Goto, End
<1>17. CASE Start
  BY <1>17 DEF Start, Started, StartFailed, Startable, Loads, Rollback, Goto, End
<1>18. CASE Clear
  BY <1>18 DEF Clear, Goto, End
<1>19. CASE Prune
  <2>1. Old \subseteq rows \ {active}
    BY DEF Old
  <2> QED
    BY <1>19, <2>1 DEF Prune, Goto
<1>20. CASE Crash
  BY <1>20 DEF Crash, WorkerGone
<1>21. CASE RuntimeDrifts
  BY <1>21 DEF RuntimeDrifts, Loads, Startable, Runtime!Drift
<1>22. CASE Reboot
  BY <1>22 DEF Reboot, WorkerGone, Startable
<1>23. CASE UNCHANGED vars
  BY <1>23
<1> QED
  BY <1>1, <1>2, <1>3, <1>4, <1>5, <1>6, <1>7, <1>8, <1>9, <1>10, <1>11,
     <1>12, <1>13, <1>14, <1>15, <1>16, <1>17, <1>18, <1>19, <1>20, <1>21,
     <1>22, <1>23
     DEF Next, Unwinding, Apply

\* The inductive invariant holds.
THEOREM Invariance == Spec => []IInv
<1>1. Init => IInv
  <2> SUFFICES ASSUME Init PROVE IInv
    OBVIOUS
  <2> USE ConfigAssumption DEF Init, Ids, NoConfig, Actions, Found, Nothing, Pending,
          NoPending, Applying, Unwind
  <2>1. TypeOK
    <3>1. used \in 0..MaxUpdates
      OBVIOUS
    <3> QED
      BY <3>1 DEF TypeOK
  <2>2. PendingInv /\ LinkInv
    BY DEF PendingInv, LinkInv
  <2>3. RunInv /\ FilesInv
    BY DEF RunInv, RunsActive, FilesInv, Recoverable
  <2> QED
    BY <2>1, <2>2, <2>3 DEF IInv
<1>2. IInv /\ [Next]_vars => IInv'
  BY TypeStep, PendingStep, LinkStep, RunStep, FilesStep DEF IInv
<1> QED
  BY <1>1, <1>2, PTL DEF Spec

-----------------------------------------------------------------------------
(* The theorems.                                                           *)

\* Every value has its type, and a pending row names an existing candidate.
THEOREM TypeCorrect == Spec => []TypeOK
<1>1. IInv => TypeOK
  BY DEF IInv
<1> QED
  BY <1>1, Invariance, PTL

\* Pruning and crashes never take the active or the previous generation.
THEOREM AlwaysRecoverable == Spec => []Recoverable
<1>1. IInv => Recoverable
  BY DEF IInv, FilesInv
<1> QED
  BY <1>1, Invariance, PTL

\* The core never runs anything but the active generation.
THEOREM CoreRunsActive == Spec => []RunsActive
<1>1. IInv => RunsActive
  BY DEF IInv, RunInv
<1> QED
  BY <1>1, Invariance, PTL

\* Only the commit point of applyConfig changes the effective configuration.
LEMMA AtomicStep == IInv /\ [Next]_vars => (Effective' # Effective => Effective' = used /\ outcome' = "succeeded")
<1> SUFFICES ASSUME IInv, [Next]_vars PROVE (Effective' # Effective => Effective' = used /\ outcome' = "succeeded")
  OBVIOUS
<1> USE ConfigAssumption DEF TypeOK, IInv, PendingInv, LinkInv, FilesInv, Effective,
        vars, disk, proxy, worker, Ids, NoConfig, Actions, Found, Nothing, Pending, NoPending,
        Applying, Unwind, Mine, Running, Runtime!Up
<1>1. ASSUME NEW a \in Actions, Begin(a) PROVE (Effective' # Effective => Effective' = used /\ outcome' = "succeeded")
  BY <1>1 DEF Begin
<1>2. CASE Recover
  BY <1>2 DEF Recover, Recovered, UnwindFails, Goto, End
<1>3. CASE UnwindStop
  BY <1>3 DEF UnwindStop, Stopped, StopFailed, Loads, Startable, Runtime!Stopped, Runtime!Drift, UnwindFails, Goto, End
<1>4. CASE UnwindLink
  BY <1>4 DEF UnwindLink, UnwindFails, Goto, End
<1>5. CASE UnwindClear
  BY <1>5 DEF UnwindClear, Recovered, UnwindFails, Goto, End
<1>6. CASE Resume
  BY <1>6 DEF Resume, Started, StartFailed, Startable, Loads, UnwindFails, Goto, End
<1>7. CASE Work
  BY <1>7 DEF Work, Goto, End
<1>8. CASE Halt
  BY <1>8 DEF Halt, Stopped, StopFailed, Loads, Startable, Runtime!Stopped, Runtime!Drift, Goto, End
<1>9. CASE Launch
  BY <1>9 DEF Launch, Started, StartFailed, Startable, Loads, Goto, End
<1>10. CASE Write
  BY <1>10 DEF Write, Goto, End
<1>11. CASE Save
  BY <1>11 DEF Save, Goto, End
<1>12. CASE Test
  BY <1>12 DEF Test, Goto, End
<1>13. CASE Inspect
  BY <1>13 DEF Inspect
<1>14. CASE Pend
  BY <1>14 DEF Pend, Goto, End
<1>15. CASE Stop
  BY <1>15 DEF Stop, Stopped, StopFailed, Loads, Startable, Runtime!Stopped, Runtime!Drift, Rollback, Goto, End
<1>16. CASE Link
  BY <1>16 DEF Link, Rollback, Goto, End
<1>17. CASE Start
  BY <1>17 DEF Start, Started, StartFailed, Startable, Loads, Rollback, Goto, End
<1>18. CASE Clear
  BY <1>18 DEF Clear, Goto, End
<1>19. CASE Prune
  BY <1>19 DEF Prune, Old, Goto
<1>20. CASE Crash
  BY <1>20 DEF Crash, WorkerGone
<1>21. CASE RuntimeDrifts
  BY <1>21 DEF RuntimeDrifts, Loads, Startable, Runtime!Drift
<1>22. CASE Reboot
  BY <1>22 DEF Reboot, WorkerGone, Startable
<1>23. CASE UNCHANGED vars
  BY <1>23
<1> QED
  BY <1>1, <1>2, <1>3, <1>4, <1>5, <1>6, <1>7, <1>8, <1>9, <1>10, <1>11,
     <1>12, <1>13, <1>14, <1>15, <1>16, <1>17, <1>18, <1>19, <1>20, <1>21,
     <1>22, <1>23
     DEF Next, Unwinding, Apply

\* An update is all or nothing.
THEOREM UpdatesAreAtomic == Spec => UpdateAtomic
<1>1. IInv /\ [Next]_vars =>
        [Effective' # Effective => Effective' = used /\ outcome' = "succeeded"]_vars
  BY AtomicStep
<1> QED
  BY <1>1, Invariance, PTL DEF Spec, UpdateAtomic
-----------------------------------------------------------------------------
(* What a rollback restores, and what a stop keeps.                        *)

\* A rollback reports "restored" only when it is.
LEMMA RestoreStep == IInv /\ [Next]_vars => Restored
<1> SUFFICES ASSUME IInv, [Next]_vars PROVE Restored
  OBVIOUS
<1> USE ConfigAssumption DEF TypeOK, IInv, PendingInv, LinkInv, FilesInv, Restored,
        vars, disk, proxy, worker, Ids, NoConfig, Actions, Found, Nothing, Pending, NoPending,
        Applying, Unwind, Mine, Running, Runtime!Up
<1>1. ASSUME NEW a \in Actions, Begin(a) PROVE Restored
  BY <1>1 DEF Begin
<1>2. CASE Recover
  BY <1>2 DEF Recover, Recovered, UnwindFails, Goto, End
<1>3. CASE UnwindStop
  BY <1>3 DEF UnwindStop, Stopped, StopFailed, Loads, Startable, Runtime!Stopped, Runtime!Drift, UnwindFails, Goto, End
<1>4. CASE UnwindLink
  BY <1>4 DEF UnwindLink, UnwindFails, Goto, End
<1>5. CASE UnwindClear
  BY <1>5 DEF UnwindClear, Recovered, UnwindFails, Goto, End
<1>6. CASE Resume
  BY <1>6 DEF Resume, Started, StartFailed, Startable, Loads, UnwindFails, Goto, End
<1>7. CASE Work
  BY <1>7 DEF Work, Goto, End
<1>8. CASE Halt
  BY <1>8 DEF Halt, Stopped, StopFailed, Loads, Startable, Runtime!Stopped, Runtime!Drift, Goto, End
<1>9. CASE Launch
  BY <1>9 DEF Launch, Started, StartFailed, Startable, Loads, Goto, End
<1>10. CASE Write
  BY <1>10 DEF Write, Goto, End
<1>11. CASE Save
  BY <1>11 DEF Save, Goto, End
<1>12. CASE Test
  BY <1>12 DEF Test, Goto, End
<1>13. CASE Inspect
  BY <1>13 DEF Inspect
<1>14. CASE Pend
  BY <1>14 DEF Pend, Goto, End
<1>15. CASE Stop
  BY <1>15 DEF Stop, Stopped, StopFailed, Loads, Startable, Runtime!Stopped, Runtime!Drift, Rollback, Goto, End
<1>16. CASE Link
  BY <1>16 DEF Link, Rollback, Goto, End
<1>17. CASE Start
  BY <1>17 DEF Start, Started, StartFailed, Startable, Loads, Rollback, Goto, End
<1>18. CASE Clear
  BY <1>18 DEF Clear, Goto, End
<1>19. CASE Prune
  BY <1>19 DEF Prune, Old, Goto
<1>20. CASE Crash
  BY <1>20 DEF Crash, WorkerGone
<1>21. CASE RuntimeDrifts
  BY <1>21 DEF RuntimeDrifts, Loads, Startable, Runtime!Drift
<1>22. CASE Reboot
  BY <1>22 DEF Reboot, WorkerGone, Startable
<1>23. CASE UNCHANGED vars
  BY <1>23
<1> QED
  BY <1>1, <1>2, <1>3, <1>4, <1>5, <1>6, <1>7, <1>8, <1>9, <1>10, <1>11,
     <1>12, <1>13, <1>14, <1>15, <1>16, <1>17, <1>18, <1>19, <1>20, <1>21,
     <1>22, <1>23
     DEF Next, Unwinding, Apply

\* The message "restored" tells the truth.
THEOREM RestoredTellsTheTruth == Spec => RestoredIsTrue
<1>1. IInv /\ [Next]_vars => [Restored]_vars
  BY RestoreStep
<1> QED
  BY <1>1, Invariance, PTL DEF Spec, RestoredIsTrue

\* After a successful stop nothing in the device remembers a running proxy.
StopInv ==
  /\ halted => ~Running
  /\ halted => action \notin {"start", "restart"}
  /\ halted /\ pending # NoPending => ~pending.wasRunning
  /\ halted /\ at \in {"pend", "stop", "link", "start"} => ~found.wasRunning
  /\ halted => at \notin {"resume", "launch"}
  /\ at = "start" => found.wasRunning
  /\ at = "launch" => action \in {"start", "restart"}
  /\ at = "halt" => action \in {"stop", "restart"}

\* Every step keeps it so.
LEMMA StopStep == IInv /\ StopInv /\ [Next]_vars => StopInv'
<1> SUFFICES ASSUME IInv /\ StopInv, [Next]_vars PROVE StopInv'
  OBVIOUS
<1> USE ConfigAssumption DEF TypeOK, IInv, PendingInv, StopInv, Inspected,
        vars, disk, proxy, worker, Ids, NoConfig, Actions, Found, Nothing, Pending, NoPending,
        Applying, Unwind, Mine, Running, Runtime!Up
<1>1. ASSUME NEW a \in Actions, Begin(a) PROVE StopInv'
  BY <1>1 DEF Begin
<1>2. CASE Recover
  BY <1>2 DEF Recover, Recovered, UnwindFails, Goto, End
<1>3. CASE UnwindStop
  BY <1>3 DEF UnwindStop, Stopped, StopFailed, Loads, Startable, Runtime!Stopped, Runtime!Drift, UnwindFails, Goto, End
<1>4. CASE UnwindLink
  BY <1>4 DEF UnwindLink, UnwindFails, Goto, End
<1>5. CASE UnwindClear
  BY <1>5 DEF UnwindClear, Recovered, UnwindFails, Goto, End
<1>6. CASE Resume
  BY <1>6 DEF Resume, Started, StartFailed, Startable, Loads, UnwindFails, Goto, End
<1>7. CASE Work
  BY <1>7 DEF Work, Goto, End
<1>8. CASE Halt
  BY <1>8 DEF Halt, Stopped, StopFailed, Loads, Startable, Runtime!Stopped, Runtime!Drift, Goto, End
<1>9. CASE Launch
  BY <1>9 DEF Launch, Started, StartFailed, Startable, Loads, Goto, End
<1>10. CASE Write
  BY <1>10 DEF Write, Goto, End
<1>11. CASE Save
  BY <1>11 DEF Save, Goto, End
<1>12. CASE Test
  BY <1>12 DEF Test, Goto, End
<1>13. CASE Inspect
  BY <1>13 DEF Inspect
<1>14. CASE Pend
  BY <1>14 DEF Pend, Goto, End
<1>15. CASE Stop
  BY <1>15 DEF Stop, Stopped, StopFailed, Loads, Startable, Runtime!Stopped, Runtime!Drift, Rollback, Goto, End
<1>16. CASE Link
  BY <1>16 DEF Link, Rollback, Goto, End
<1>17. CASE Start
  BY <1>17 DEF Start, Started, StartFailed, Startable, Loads, Rollback, Goto, End
<1>18. CASE Clear
  BY <1>18 DEF Clear, Goto, End
<1>19. CASE Prune
  BY <1>19 DEF Prune, Old, Goto
<1>20. CASE Crash
  BY <1>20 DEF Crash, WorkerGone
<1>21. CASE RuntimeDrifts
  BY <1>21 DEF RuntimeDrifts, Loads, Startable, Runtime!Drift
<1>22. CASE Reboot
  BY <1>22 DEF Reboot, WorkerGone, Startable
<1>23. CASE UNCHANGED vars
  BY <1>23
<1> QED
  BY <1>1, <1>2, <1>3, <1>4, <1>5, <1>6, <1>7, <1>8, <1>9, <1>10, <1>11,
     <1>12, <1>13, <1>14, <1>15, <1>16, <1>17, <1>18, <1>19, <1>20, <1>21,
     <1>22, <1>23
     DEF Next, Unwinding, Apply

\* A stopped proxy stays stopped.
THEOREM StopsHold == Spec => []StopHolds
<1>1. Init => StopInv
  BY DEF Init, StopInv, Running, Runtime!Up, NoConfig, Nothing, NoPending
<1>2. IInv /\ StopInv /\ [Next]_vars => StopInv'
  BY StopStep
<1>3. StopInv => StopHolds
  BY DEF StopInv, StopHolds
<1> QED
  BY <1>1, <1>2, <1>3, Invariance, PTL DEF Spec

=============================================================================
