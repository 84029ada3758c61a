------------------------- MODULE SystemdUnitProofs -------------------------
(***************************************************************************)
(* The promises of SystemdUnit, for any number of good answers.  IInv says *)
(* what the files, the job and systemd's memory are like at each control   *)
(* point of a call, and between calls.                                     *)
(***************************************************************************)
EXTENDS SystemdUnit, TLAPS

\* Nothing runs, and nothing that is queued can bring it up.
Quiet == ~Running /\ (job = "start" => ~view /\ ~Found)

\* Which call is at which control point.
Calling ==
  /\ said # "none" => at = "idle"
  /\ then = "remove" => call = "remove"
  /\ call = "remove" /\ at \in {"refresh", "verify", "issue", "await", "watch"} => then = "remove"
  /\ at \in {"refresh", "identify", "runtime", "persistent", "delete"} => call = "remove"
  /\ at \in {"issue", "await", "watch", "verify"} => call \in {"start", "stop", "remove"}
  /\ at = "write" => call = "prepare"
  /\ at \in {"own", "boot"} => call \in {"on", "off"}
  /\ at = "link" => call \in {"prepare", "off"}

\* An answer is the end of the job.
Answered ==
  /\ answer # "none" \/ at = "watch" => job = "none"
  /\ at \in {"idle", "refresh", "verify", "issue"} => answer = "none"

\* Without the file nothing leads to it; what each step of a call knows of it.
FilesInOrder ==
  /\ ~file => ~link /\ boot = {}
  /\ at \in {"link", "boot", "runtime", "persistent", "delete", "issue"} => file
  /\ at = "persistent" => "run" \notin boot
  /\ at = "delete" => ~link /\ boot = {}
  /\ call = "remove" /\ at \in {"reload", "check"} => ~file

\* A removal has stopped the unit, which has not come back.
StillQuiet ==
  ~file \/ at \in {"identify", "runtime", "persistent", "delete"} \/ said = "stopped" => Quiet

\* A removal without the file has made systemd forget the unit.
Forgotten ==
  /\ call = "remove" /\ ~file /\ at \in {"verify", "issue", "await", "watch", "identify", "check"}
       => ~view
  /\ said = "removed" => ~file /\ ~view

Facts ==
  /\ Calling /\ Answered /\ FilesInOrder /\ StillQuiet /\ Forgotten
  /\ BootIsTrue /\ RetrySucceeds

IInv == TypeOK /\ Facts

-----------------------------------------------------------------------------
(* The invariant.                                                          *)

SystemTypes ==
  /\ file \in BOOLEAN /\ link \in BOOLEAN
  /\ boot \subseteq {"etc", "run"}
  /\ view \in BOOLEAN /\ wanted \in BOOLEAN
  /\ active \in {"inactive", "activating", "active", "deactivating"}
  /\ job \in {"none", "start", "stop"}

CallTypes ==
  /\ answer \in {"none", "done", "failed"}
  /\ call \in Calls \cup {"none"}
  /\ at \in {"idle", "verify", "issue", "await", "watch", "write", "link", "own", "boot",
             "refresh", "identify", "runtime", "persistent", "delete", "reload", "check"}
  /\ then \in {"done", "failed", "remove"}
  /\ stable \in 0..(Stable - 1)
  /\ fault \in BOOLEAN
  /\ said \in {"none", "done", "stopped", "removed", "error", "refused"}

\* The types, in parts small enough for the provers.
LEMMA TypeParts == TypeOK <=> SystemTypes /\ CallTypes
BY DEF TypeOK, SystemTypes, CallTypes

\* The invariant holds at first.
LEMMA InvInit == Init => IInv
<1> SUFFICES ASSUME Init PROVE IInv
  OBVIOUS
<1> USE UnitAssumption DEF Init
<1>1. SystemTypes
  BY DEF SystemTypes
<1>2. CallTypes
  <2>1. call \in Calls \cup {"none"} /\ fault \in BOOLEAN
    OBVIOUS
  <2> QED
    BY <2>1 DEF CallTypes
<1>3. Facts
  BY DEF Facts, Calling, Answered, FilesInOrder, StillQuiet, Forgotten, Quiet, BootIsTrue,
         RetrySucceeds, Calls, Running, Unlinked
<1> QED
  BY <1>1, <1>2, <1>3, TypeParts DEF IInv

\* A step keeps the types of the files, of the unit and of systemd's memory.
LEMMA SystemStep == TypeOK /\ [Next]_vars => SystemTypes'
<1> SUFFICES ASSUME TypeOK, [Next]_vars PROVE SystemTypes'
  OBVIOUS
<1> USE UnitAssumption DEF TypeOK, SystemTypes, files, memory, unit, caller, Found, Running
<1>1. ASSUME NEW c \in Calls, Begin(c) PROVE SystemTypes'
  BY <1>1 DEF Begin, Calls
<1>2. ASSUME Verify PROVE SystemTypes'
  BY <1>2 DEF Verify, Look, Loaded, NotOurs, NotFound, Error, Return
<1>3. ASSUME Issue PROVE SystemTypes'
  BY <1>3 DEF Issue, Fails
<1>4. ASSUME Await PROVE SystemTypes'
  BY <1>4 DEF Await, Return
<1>5. ASSUME Watch PROVE SystemTypes'
  BY <1>5 DEF Watch, Look, NotOurs, Error, StopEnds, Count, Return
<1>6. ASSUME Write PROVE SystemTypes'
  BY <1>6 DEF Write, Look, NotOurs, Error, Return
<1>7. ASSUME Link PROVE SystemTypes'
  BY <1>7 DEF Link
<1>8. ASSUME Own PROVE SystemTypes'
  BY <1>8 DEF Own, Look, NotOurs, Error, Return
<1>9. ASSUME Boot PROVE SystemTypes'
  BY <1>9 DEF Boot
<1>10. ASSUME Refresh PROVE SystemTypes'
  BY <1>10 DEF Refresh, Reloaded
<1>11. ASSUME Identify PROVE SystemTypes'
  BY <1>11 DEF Identify, Look, NotOurs, Error, Return
<1>12. ASSUME Runtime PROVE SystemTypes'
  BY <1>12 DEF Runtime, Error, Return
<1>13. ASSUME Persistent PROVE SystemTypes'
  BY <1>13 DEF Persistent, Error, Return
<1>14. ASSUME Delete PROVE SystemTypes'
  BY <1>14 DEF Delete
<1>15. ASSUME Reload PROVE SystemTypes'
  BY <1>15 DEF Reload, Reloaded
<1>16. ASSUME Check PROVE SystemTypes'
  BY <1>16 DEF Check, Look, Loaded, NotFound, Error, Return
<1>17. ASSUME RequestFails PROVE SystemTypes'
  BY <1>17 DEF RequestFails, Fails
<1>18. ASSUME OtherReload PROVE SystemTypes'
  BY <1>18 DEF OtherReload, Reloaded
<1>19. ASSUME Collect PROVE SystemTypes'
  BY <1>19 DEF Collect
<1>20. ASSUME RunStart PROVE SystemTypes'
  BY <1>20 DEF RunStart, Answer
<1>21. ASSUME RunStop PROVE SystemTypes'
  BY <1>21 DEF RunStop, Answer
<1>22. ASSUME Restart PROVE SystemTypes'
  BY <1>22 DEF Restart
<1>23. ASSUME Crash PROVE SystemTypes'
  BY <1>23 DEF Crash
<1>24. ASSUME EnableRuntime PROVE SystemTypes'
  BY <1>24 DEF EnableRuntime
<1>25. ASSUME Reboot PROVE SystemTypes'
  BY <1>25 DEF Reboot
<1>26. ASSUME UNCHANGED vars PROVE SystemTypes'
  BY <1>26 DEF vars
<1> QED
  BY <1>1, <1>2, <1>3, <1>4, <1>5, <1>6, <1>7, <1>8, <1>9, <1>10, <1>11, <1>12, <1>13,
     <1>14, <1>15, <1>16, <1>17, <1>18, <1>19, <1>20, <1>21, <1>22, <1>23, <1>24, <1>25, <1>26
     DEF Next, Change, Manage

\* A step keeps the types of the call.
LEMMA CallStep == TypeOK /\ [Next]_vars => CallTypes'
<1> SUFFICES ASSUME TypeOK, [Next]_vars PROVE CallTypes'
  OBVIOUS
<1> USE UnitAssumption DEF TypeOK, CallTypes, Calls, caller, Goto, Starting, Issued, Cleanup
<1>1. ASSUME NEW c \in Calls, Begin(c) PROVE CallTypes'
  BY <1>1 DEF Begin, Calls
<1>2. ASSUME Verify PROVE CallTypes'
  BY <1>2 DEF Verify, Look, Loaded, NotOurs, NotFound, Error, Return
<1>3. ASSUME Issue PROVE CallTypes'
  <2>1. call' \in Calls \cup {"none"}
    BY <1>3 DEF Issue, Fails
  <2>2. at' \in {"idle", "verify", "await"}
    BY <1>3 DEF Issue, Fails
  <2>3. answer' \in {"none", "done", "failed"} /\ then' \in {"done", "failed", "remove"}
    BY <1>3 DEF Issue, Fails
  <2>4. stable' \in 0..(Stable - 1)
    BY <1>3 DEF Issue, Fails
  <2>5. fault' \in BOOLEAN
    BY <1>3 DEF Issue, Fails
  <2>6. said' \in {"none", "done", "stopped", "removed", "error", "refused"}
    BY <1>3 DEF Issue, Fails
  <2> QED
    BY <2>1, <2>2, <2>3, <2>4, <2>5, <2>6
<1>4. ASSUME Await PROVE CallTypes'
  <2>1. call' \in Calls \cup {"none"}
    BY <1>4 DEF Await, Return
  <2>2. at' \in {"idle", "verify", "watch"}
    BY <1>4 DEF Await, Return
  <2>3. answer' \in {"none", "done", "failed"} /\ then' \in {"done", "failed", "remove"}
    BY <1>4 DEF Await, Return
  <2>4. stable' \in 0..(Stable - 1)
    BY <1>4 DEF Await, Return
  <2>5. fault' \in BOOLEAN
    BY <1>4 DEF Await, Return
  <2>6. said' \in {"none", "done", "stopped", "removed", "error", "refused"}
    BY <1>4 DEF Await, Return
  <2> QED
    BY <2>1, <2>2, <2>3, <2>4, <2>5, <2>6
<1>5. ASSUME Watch PROVE CallTypes'
  BY <1>5 DEF Watch, Look, NotOurs, Error, StopEnds, Count, Return
<1>6. ASSUME Write PROVE CallTypes'
  BY <1>6 DEF Write, Look, NotOurs, Error, Return
<1>7. ASSUME Link PROVE CallTypes'
  BY <1>7 DEF Link
<1>8. ASSUME Own PROVE CallTypes'
  BY <1>8 DEF Own, Look, NotOurs, Error, Return
<1>9. ASSUME Boot PROVE CallTypes'
  BY <1>9 DEF Boot
<1>10. ASSUME Refresh PROVE CallTypes'
  BY <1>10 DEF Refresh, Reloaded
<1>11. ASSUME Identify PROVE CallTypes'
  BY <1>11 DEF Identify, Look, NotOurs, Error, Return
<1>12. ASSUME Runtime PROVE CallTypes'
  BY <1>12 DEF Runtime, Error, Return
<1>13. ASSUME Persistent PROVE CallTypes'
  BY <1>13 DEF Persistent, Error, Return
<1>14. ASSUME Delete PROVE CallTypes'
  BY <1>14 DEF Delete
<1>15. ASSUME Reload PROVE CallTypes'
  BY <1>15 DEF Reload, Reloaded
<1>16. ASSUME Check PROVE CallTypes'
  BY <1>16 DEF Check, Look, Loaded, NotFound, Error, Return
<1>17. ASSUME RequestFails PROVE CallTypes'
  <2>1. call' \in Calls \cup {"none"}
    BY <1>17 DEF RequestFails, Fails
  <2>2. at' \in {"idle", "verify", "await"}
    BY <1>17 DEF RequestFails, Fails
  <2>3. answer' \in {"none", "done", "failed"} /\ then' \in {"done", "failed", "remove"}
    BY <1>17 DEF RequestFails, Fails
  <2>4. stable' \in 0..(Stable - 1)
    BY <1>17 DEF RequestFails, Fails
  <2>5. fault' \in BOOLEAN
    BY <1>17 DEF RequestFails, Fails
  <2>6. said' \in {"none", "done", "stopped", "removed", "error", "refused"}
    BY <1>17 DEF RequestFails, Fails
  <2> QED
    BY <2>1, <2>2, <2>3, <2>4, <2>5, <2>6
<1>18. ASSUME OtherReload PROVE CallTypes'
  BY <1>18 DEF OtherReload, Reloaded
<1>19. ASSUME Collect PROVE CallTypes'
  BY <1>19 DEF Collect
<1>20. ASSUME RunStart PROVE CallTypes'
  BY <1>20 DEF RunStart, Answer
<1>21. ASSUME RunStop PROVE CallTypes'
  BY <1>21 DEF RunStop, Answer
<1>22. ASSUME Restart PROVE CallTypes'
  BY <1>22 DEF Restart
<1>23. ASSUME Crash PROVE CallTypes'
  BY <1>23 DEF Crash
<1>24. ASSUME EnableRuntime PROVE CallTypes'
  BY <1>24 DEF EnableRuntime
<1>25. ASSUME Reboot PROVE CallTypes'
  BY <1>25 DEF Reboot
<1>26. ASSUME UNCHANGED vars PROVE CallTypes'
  BY <1>26 DEF vars
<1> QED
  BY <1>1, <1>2, <1>3, <1>4, <1>5, <1>6, <1>7, <1>8, <1>9, <1>10, <1>11, <1>12, <1>13,
     <1>14, <1>15, <1>16, <1>17, <1>18, <1>19, <1>20, <1>21, <1>22, <1>23, <1>24, <1>25, <1>26
     DEF Next, Change, Manage

\* A step from the invariant keeps the facts.
LEMMA FactsStep == IInv /\ [Next]_vars => Facts'
<1> SUFFICES ASSUME IInv, [Next]_vars PROVE Facts'
  OBVIOUS
<1> USE UnitAssumption DEF IInv, TypeOK, Facts, Calling, Answered, FilesInOrder, StillQuiet,
       Forgotten, Quiet, BootIsTrue, RetrySucceeds, Calls, Unlinked,
       files, memory, unit, caller, Goto, Starting, Issued, Cleanup, Found, Running
<1>1. ASSUME NEW c \in Calls, Begin(c) PROVE Facts'
  BY <1>1 DEF Begin, Calls
<1>2. ASSUME Verify PROVE Facts'
  BY <1>2 DEF Verify, Look, Loaded, NotOurs, NotFound, Error, Return
<1>3. ASSUME Issue PROVE Facts'
  BY <1>3 DEF Issue, Fails
<1>4. ASSUME Await PROVE Facts'
  BY <1>4 DEF Await, Return
<1>5. ASSUME Watch PROVE Facts'
  BY <1>5 DEF Watch, Look, NotOurs, Error, StopEnds, Count, Return
<1>6. ASSUME Write PROVE Facts'
  <2>1. Calling'
    BY <1>6 DEF Write, Look, NotOurs, Error, Return
  <2>2. Answered'
    BY <1>6 DEF Write, Look, NotOurs, Error, Return
  <2>3. FilesInOrder'
    BY <1>6 DEF Write, Look, NotOurs, Error, Return
  <2>4. StillQuiet'
    BY <1>6 DEF Write, Look, NotOurs, Error, Return
  <2>5. Forgotten'
    BY <1>6 DEF Write, Look, NotOurs, Error, Return
  <2>6. BootIsTrue'
    BY <1>6 DEF Write, Look, NotOurs, Error, Return
  <2>7. RetrySucceeds'
    BY <1>6 DEF Write, Look, NotOurs, Error, Return
  <2> QED
    BY <2>1, <2>2, <2>3, <2>4, <2>5, <2>6, <2>7
<1>7. ASSUME Link PROVE Facts'
  BY <1>7 DEF Link
<1>8. ASSUME Own PROVE Facts'
  <2>1. Calling'
    BY <1>8 DEF Own, Look, NotOurs, Error, Return
  <2>2. Answered'
    BY <1>8 DEF Own, Look, NotOurs, Error, Return
  <2>3. FilesInOrder'
    BY <1>8 DEF Own, Look, NotOurs, Error, Return
  <2>4. StillQuiet'
    BY <1>8 DEF Own, Look, NotOurs, Error, Return
  <2>5. Forgotten'
    BY <1>8 DEF Own, Look, NotOurs, Error, Return
  <2>6. BootIsTrue'
    BY <1>8 DEF Own, Look, NotOurs, Error, Return
  <2>7. RetrySucceeds'
    BY <1>8 DEF Own, Look, NotOurs, Error, Return
  <2> QED
    BY <2>1, <2>2, <2>3, <2>4, <2>5, <2>6, <2>7
<1>9. ASSUME Boot PROVE Facts'
  BY <1>9 DEF Boot
<1>10. ASSUME Refresh PROVE Facts'
  <2>1. Calling'
    BY <1>10 DEF Refresh, Reloaded
  <2>2. Answered'
    BY <1>10 DEF Refresh, Reloaded
  <2>3. FilesInOrder'
    BY <1>10 DEF Refresh, Reloaded
  <2>4. StillQuiet'
    BY <1>10 DEF Refresh, Reloaded
  <2>5. Forgotten'
    BY <1>10 DEF Refresh, Reloaded
  <2>6. BootIsTrue'
    BY <1>10 DEF Refresh, Reloaded
  <2>7. RetrySucceeds'
    BY <1>10 DEF Refresh, Reloaded
  <2> QED
    BY <2>1, <2>2, <2>3, <2>4, <2>5, <2>6, <2>7
<1>11. ASSUME Identify PROVE Facts'
  BY <1>11 DEF Identify, Look, NotOurs, Error, Return
<1>12. ASSUME Runtime PROVE Facts'
  BY <1>12 DEF Runtime, Error, Return
<1>13. ASSUME Persistent PROVE Facts'
  <2>1. Calling'
    BY <1>13 DEF Persistent, Error, Return
  <2>2. Answered'
    BY <1>13 DEF Persistent, Error, Return
  <2>3. FilesInOrder'
    BY <1>13 DEF Persistent, Error, Return
  <2>4. StillQuiet'
    BY <1>13 DEF Persistent, Error, Return
  <2>5. Forgotten'
    BY <1>13 DEF Persistent, Error, Return
  <2>6. BootIsTrue'
    BY <1>13 DEF Persistent, Error, Return
  <2>7. RetrySucceeds'
    BY <1>13 DEF Persistent, Error, Return
  <2> QED
    BY <2>1, <2>2, <2>3, <2>4, <2>5, <2>6, <2>7
<1>14. ASSUME Delete PROVE Facts'
  BY <1>14 DEF Delete
<1>15. ASSUME Reload PROVE Facts'
  BY <1>15 DEF Reload, Reloaded
<1>16. ASSUME Check PROVE Facts'
  BY <1>16 DEF Check, Look, Loaded, NotFound, Error, Return
<1>17. ASSUME RequestFails PROVE Facts'
  BY <1>17 DEF RequestFails, Fails
<1>18. ASSUME OtherReload PROVE Facts'
  BY <1>18 DEF OtherReload, Reloaded
<1>19. ASSUME Collect PROVE Facts'
  BY <1>19 DEF Collect
<1>20. ASSUME RunStart PROVE Facts'
  BY <1>20 DEF RunStart, Answer
<1>21. ASSUME RunStop PROVE Facts'
  BY <1>21 DEF RunStop, Answer
<1>22. ASSUME Restart PROVE Facts'
  BY <1>22 DEF Restart
<1>23. ASSUME Crash PROVE Facts'
  BY <1>23 DEF Crash
<1>24. ASSUME EnableRuntime PROVE Facts'
  BY <1>24 DEF EnableRuntime
<1>25. ASSUME Reboot PROVE Facts'
  BY <1>25 DEF Reboot
<1>26. ASSUME UNCHANGED vars PROVE Facts'
  BY <1>26 DEF vars
<1> QED
  BY <1>1, <1>2, <1>3, <1>4, <1>5, <1>6, <1>7, <1>8, <1>9, <1>10, <1>11, <1>12, <1>13,
     <1>14, <1>15, <1>16, <1>17, <1>18, <1>19, <1>20, <1>21, <1>22, <1>23, <1>24, <1>25, <1>26
     DEF Next, Change, Manage

\* IInv is inductive.
THEOREM Invariance == Spec => []IInv
<1>1. IInv /\ [Next]_vars => IInv'
  <2> SUFFICES ASSUME IInv, [Next]_vars PROVE IInv'
    OBVIOUS
  <2>1. SystemTypes' /\ CallTypes' /\ Facts'
    BY SystemStep, CallStep, FactsStep DEF IInv
  <2> QED
    BY <2>1 DEF IInv, TypeOK, SystemTypes, CallTypes
<1> QED
  BY InvInit, <1>1, PTL DEF Spec

-----------------------------------------------------------------------------
(* What it gives.                                                          *)

\* The variables keep their types.
THEOREM TypeCorrect == Spec => []TypeOK
<1>1. IInv => TypeOK
  BY DEF IInv
<1> QED
  BY Invariance, <1>1, PTL

\* After a stop, a cleanup or a removal nothing runs, and nothing is left that
\* brings the core up.
LEMMA StoppedIsDown == IInv => (said \in {"stopped", "removed"} => ~Live /\ ~Kept)
BY DEF IInv, TypeOK, Facts, StillQuiet, Forgotten, Quiet, Running, Live, Kept, Found

\* When Stop or Remove has succeeded, or the cleanup of a Start that failed, the
\* core is down and no job is left that brings it up.
THEOREM StopLasts == Spec => [](said \in {"stopped", "removed"} => ~Live /\ ~Kept)
<1>1. IInv => (said \in {"stopped", "removed"} => ~Live /\ ~Kept)
  BY StoppedIsDown
<1> QED
  BY Invariance, <1>1, PTL

\* When Remove has succeeded nothing of the unit is left, in the file system or
\* in systemd.
THEOREM RemovalIsComplete == Spec => []RemovedIsGone
<1>1. IInv => RemovedIsGone
  BY DEF IInv, Facts, FilesInOrder, StillQuiet, Forgotten, Quiet, RemovedIsGone
<1> QED
  BY Invariance, <1>1, PTL

\* A successful SetBoot tells what the next boot does.
THEOREM BootTellsTheTruth == Spec => []BootIsTrue
<1>1. IInv => BootIsTrue
  BY DEF IInv, Facts
<1> QED
  BY Invariance, <1>1, PTL

\* What a successful SetBoot or Remove says is so.
THEOREM AnswersAreTrue == Spec => []SaidIsTrue
BY RemovalIsComplete, BootTellsTheTruth, PTL DEF SaidIsTrue

\* Remove can be retried after any failure that has not lost the link.
THEOREM RemovalCanBeRetried == Spec => []RetrySucceeds
<1>1. IInv => RetrySucceeds
  BY DEF IInv, Facts
<1> QED
  BY Invariance, <1>1, PTL

\* The unit file goes last, when nothing runs and nothing leads to it.
THEOREM FileGoesLast == Spec => DeletedLast
<1> DEFINE Last == file /\ ~file' => ~link /\ boot = {} /\ ~Running
<1>1. IInv /\ [Next]_vars => [Last]_vars
  <2> SUFFICES ASSUME IInv, Next, file, ~file' PROVE ~link /\ boot = {} /\ ~Running
    BY DEF vars
  <2>1. Delete
    BY DEF Next, Change, Manage, Begin, Verify, Issue, Await, Watch, Write, Link, Own, Boot, Refresh,
           Identify, Runtime, Persistent, Reload, Check, RequestFails, OtherReload, Collect,
           RunStart, RunStop, Restart, Crash, EnableRuntime, Reboot, Goto, Error, files,
           IInv, TypeOK
  <2> QED
    BY <2>1 DEF Delete, IInv, Facts, FilesInOrder, StillQuiet, Quiet
<1> QED
  BY Invariance, <1>1, PTL DEF Spec, DeletedLast

-----------------------------------------------------------------------------
(* The adapter's promise.  Live, Kept, the call and its answer change in   *)
(* different steps; each part is looked at on its own.                     *)

Down == said \in {"stopped", "removed"}

\* What the step of a call does to the unit: a job it asks for, no more.  Only
\* preparations and boot settings make a unit that was lost be found again.
LEMMA CallsMove ==
  ASSUME TypeOK, Change \/ Manage \/ RequestFails \/ Crash
  PROVE  /\ Live' = Live
         /\ Kept' => Kept \/ call \notin {"start", "stop"} \/ (at = "issue" /\ Starting)
                          \/ at \in {"write", "link", "boot"}
<1> USE DEF TypeOK, Live, Kept, Found, files, memory, unit
<1>1. CASE Verify \/ Await \/ Watch
  BY <1>1 DEF Verify, Await, Watch, Look, Found
<1>2. CASE Issue
  BY <1>2 DEF Issue
<1>3. CASE Write \/ Link \/ Own \/ Boot
  BY <1>3 DEF Write, Link, Own, Boot, Look
<1>4. CASE Refresh \/ Identify \/ Reload \/ Check
  BY <1>4 DEF Refresh, Identify, Reload, Check, Look, Reloaded
<1>5. CASE Runtime \/ Persistent \/ Delete
  BY <1>5 DEF Runtime, Persistent, Delete
<1>6. CASE RequestFails \/ Crash
  BY <1>6 DEF RequestFails, Crash
<1> QED
  BY <1>1, <1>2, <1>3, <1>4, <1>5, <1>6 DEF Change, Manage

\* The step of a call is within the call, or ends it without a start.
LEMMA CallsGoOn ==
  ASSUME TypeOK, Calling, Change \/ Manage \/ RequestFails \/ Crash
  PROVE  /\ at # "idle" /\ call' = call
         /\ at' # "idle" => said' = said
         /\ at' = "idle" => (Kept' => Kept)
<1> USE DEF TypeOK, Calling, Goto, Starting, Issued, Error, Return, Cleanup, Kept, Found,
            files, memory, unit
<1>1. CASE Verify
  BY <1>1 DEF Verify, Look, Found
<1>2. CASE Issue
  BY <1>2 DEF Issue, Fails
<1>3. CASE Await
  BY <1>3 DEF Await
<1>4. CASE Watch
  <2>1. at # "idle" /\ call' = call
    BY <1>4 DEF Watch, Look, StopEnds, Count
  <2>2. at' # "idle" => said' = said
    BY <1>4 DEF Watch, Look, StopEnds, Count
  <2>3. Kept' => Kept
    BY <1>4 DEF Watch, Look, StopEnds, Count
  <2> QED
    BY <2>1, <2>2, <2>3
<1>5. CASE Own
  BY <1>5 DEF Own, Look
<1>13. CASE Write
  <2>1. at # "idle" /\ call' = call
    BY <1>13 DEF Write, Look
  <2>2. at' # "idle" => said' = said
    BY <1>13 DEF Write, Look
  <2>3. at' = "idle" => (Kept' => Kept)
    BY <1>13 DEF Write, Look
  <2> QED
    BY <2>1, <2>2, <2>3
<1>6. CASE Link \/ Boot \/ Delete
  BY <1>6 DEF Link, Boot, Delete
<1>7. CASE Refresh \/ Reload
  BY <1>7 DEF Refresh, Reload, Reloaded
<1>8. CASE Identify
  BY <1>8 DEF Identify, Look
<1>9. CASE Check
  BY <1>9 DEF Check, Look
<1>10. CASE Runtime \/ Persistent
  BY <1>10 DEF Runtime, Persistent
<1>11. CASE RequestFails
  BY <1>11 DEF RequestFails, Fails
<1>12. CASE Crash
  BY <1>12 DEF Crash
<1> QED
  BY <1>1, <1>2, <1>3, <1>4, <1>5, <1>6, <1>7, <1>8, <1>9, <1>10, <1>11, <1>12, <1>13
     DEF Change, Manage

\* What systemd does by itself, or for an administrator: only what it keeps comes up.
LEMMA SystemMoves ==
  ASSUME TypeOK, OtherReload \/ Collect \/ RunStart \/ RunStop \/ Restart \/ EnableRuntime
  PROVE  (Live' => Live \/ Kept) /\ (Kept' => Kept)
<1> USE DEF TypeOK, Live, Kept, Found, files, memory, unit
<1>1. CASE OtherReload \/ Collect
  BY <1>1 DEF OtherReload, Reloaded, Collect
<1>2. CASE RunStart
  BY <1>2 DEF RunStart
<1>3. CASE RunStop
  BY <1>3 DEF RunStop
<1>4. CASE Restart
  BY <1>4 DEF Restart
<1>5. CASE EnableRuntime
  BY <1>5 DEF EnableRuntime
<1> QED
  BY <1>1, <1>2, <1>3, <1>4, <1>5

\* None of them is a call, or ends one.
LEMMA SystemWaits ==
  ASSUME TypeOK, Calling,
         OtherReload \/ Collect \/ RunStart \/ RunStop \/ Restart \/ EnableRuntime,
         said = "removed" => ~file
  PROVE  Call' = Call /\ Down' = Down
<1> USE DEF TypeOK, Calling, Call, Down, caller
<1>1. CASE OtherReload \/ Collect \/ Restart
  BY <1>1 DEF OtherReload, Collect, Restart
<1>2. CASE RunStart \/ RunStop
  BY <1>2 DEF RunStart, RunStop, Answer
<1>3. CASE EnableRuntime
  BY <1>3 DEF EnableRuntime, Found
<1> QED
  BY <1>1, <1>2, <1>3

\* Every step is one of the adapter's, or none.
LEMMA AdapterStep ==
  ASSUME IInv, IInv', [Next]_vars, (Down => ~Live /\ ~Kept)'
  PROVE  [Adapter!Next]_(Adapter!calls)
<1> USE DEF Adapter!calls, Adapter!Up
<1>1. TypeOK /\ Calling /\ (said = "removed" => ~file) /\ (at # "idle" => ~Down)
  BY DEF IInv, Facts, Forgotten, Calling, Down
<1>2. ASSUME NEW c \in Calls, Begin(c) PROVE \E k \in Adapter!Kinds : Adapter!Begin(k)
  <2>1. Live' = Live /\ Kept' = Kept
    BY <1>2 DEF Begin, Live, Kept, Found, files, memory, unit
  <2>2. Call = "none" /\ Call' \in {"start", "stop", "other"} /\ Down' = FALSE
    BY <1>2 DEF Begin, Call, Calls, Down
  <2> QED
    BY <2>1, <2>2 DEF Adapter!Begin, Adapter!Drift, Adapter!Kinds, Down
<1>3. ASSUME Change \/ Manage \/ RequestFails \/ Crash
      PROVE  Adapter!Run \/ \E all \in BOOLEAN : Adapter!End(all)
  <2>1. /\ at # "idle" /\ call' = call /\ Live' = Live
        /\ at' # "idle" => said' = said
        /\ at' = "idle" => (Kept' => Kept)
    BY <1>1, <1>3, CallsMove, CallsGoOn
  <2>2. CASE at' # "idle"
    <3>1. Call' = Call /\ Down' = Down
      BY <2>1, <2>2 DEF Call, Down
    <3>2. at = "issue" /\ Starting => Call = "start"
      BY DEF Starting, Call
    <3>3. at \in {"write", "link", "boot"} \/ call \notin {"start", "stop"} => Call = "other"
      BY <1>1, <2>1 DEF Calling, Call
    <3>4. Kept' => Kept \/ Call \in {"start", "other"}
      BY <1>1, <1>3, <3>2, <3>3, CallsMove
    <3> QED
      BY <2>1, <3>1, <3>4 DEF Adapter!Run, Down
  <2>3. CASE at' = "idle"
    <3>1. Call # "none" /\ Call' = "none"
      BY <2>1, <2>3 DEF Call
    <3>2. Down' \in BOOLEAN /\ (Down' => ~Live' /\ ~Kept')
      BY DEF Down
    <3> QED
      BY <2>1, <2>3, <3>1, <3>2 DEF Adapter!End, Adapter!Drift, Adapter!Stopped, Down
  <2> QED
    BY <2>2, <2>3
<1>4. ASSUME OtherReload \/ Collect \/ RunStart \/ RunStop \/ Restart \/ EnableRuntime
      PROVE  Adapter!Run
  BY <1>1, <1>4, SystemMoves, SystemWaits DEF Adapter!Run, Down
<1>5. ASSUME Reboot PROVE Adapter!Reboot
  <2>1. Live' \in BOOLEAN /\ Kept' \in BOOLEAN
    BY DEF Live, Kept
  <2>2. Call' = "none" /\ Down' = FALSE
    BY <1>5 DEF Reboot, Call, Down
  <2> QED
    BY <2>1, <2>2 DEF Adapter!Reboot, Down
<1>6. ASSUME UNCHANGED vars PROVE UNCHANGED Adapter!calls
  BY <1>6 DEF vars, files, memory, unit, caller, Live, Kept, Found, Call
<1> QED
  BY <1>2, <1>3, <1>4, <1>5, <1>6 DEF Next, Adapter!Next

\* The systemd adapter keeps the promise of an adapter.
THEOREM AdapterIsImplemented == Spec => ImplementsAdapter
<1>1. Init => Adapter!Init
  BY DEF Init, Adapter!Init, Live, Kept, Found, Call
<1>2. IInv /\ IInv' /\ [Next]_vars /\ (Down => ~Live /\ ~Kept)' => [Adapter!Next]_(Adapter!calls)
  BY AdapterStep
<1>3. Spec => [](Down => ~Live /\ ~Kept)
  BY StopLasts DEF Down
<1> QED
  BY <1>1, <1>2, <1>3, Invariance, PTL DEF Spec, ImplementsAdapter, Adapter!Spec
=============================================================================
