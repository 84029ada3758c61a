-------------------------- MODULE SupervisorProofs --------------------------
(***************************************************************************)
(* The promises of Supervisor, for any number of processes and polls.      *)
(* IInv says who may still act: one supervisor at most, which the record   *)
(* names once it supervises; and what must hold before it starts a core.   *)
(***************************************************************************)
EXTENDS Supervisor, TLAPS

\* A supervisor that does nothing any more.
Over(s) == sup[s].pc \in {"dead", "exit"} \/ sup[s].sig = "kill"

\* Without a core of its own; with one, recorded; with one that has ended.
Coreless  == {"dead", "lock", "record", "handle", "loop", "prepare", "preparing", "spawn",
     "backoff"}
Recorded  == {"watch", "tick", "syncing", "halt", "unguard", "unguarding", "settle", "settling",
     "forget"}
Coreended == {"unguard", "unguarding", "settle", "settling", "forget", "leave", "exit"}

\* One supervisor holds supervisor.lock, and one still acts.
Alone ==
  /\ \A s, o \in Supers : Locked(s) /\ Locked(o) => s = o
  /\ \A s, o \in Supers : ~Over(s) /\ ~Over(o) => s = o

\* The record of a supervisor, and its core.
Records ==
  \A s \in Supers :
    /\ SupDead(s) => sup[s] = NoSuper
    /\ sup[s].pc \in {"lock", "record"} => supRec # s
    /\ sup[s].pc \in Supervising => supRec = s
    /\ sup[s].pc \in Coreless => sup[s].core = None
    /\ sup[s].pc \in Recorded \cup {"note", "abort"} => sup[s].core \in Cores
    /\ sup[s].pc \in Recorded => coreRec = sup[s].core
    /\ sup[s].pc \in Coreended /\ sup[s].core # None => core[sup[s].core] = "dead"
    /\ sup[s].pc \in {"note", "abort"} /\ CoreAlive => coreRec = sup[s].core
    /\ sup[s].pc \in Coreless /\ ~Over(s) => ~CoreAlive

\* A core that somebody knows of is protected, and no script takes that away.
Safe == net \in Net!Held /\ script \notin {"stop", "check"}

Protected ==
  /\ \A c \in Cores : core[c] # "dead" /\ ~Lost(c) => Safe
  /\ \A s \in Supers : sup[s].pc = "spawn" /\ ~Over(s) => Safe

\* Who holds network.lock runs its script, or has run it.
Scripted(p, a, good) ==
  holder = p /\ script \in {"none", a} /\ (script = "none" /\ last = "ok" => net \in good)

Locking ==
  /\ script # "none" => holder # None
  /\ \A s \in Supers :
       /\ holder = s => sup[s].pc \in {"preparing", "syncing", "unguarding", "settling"}
       /\ sup[s].pc = "preparing" => Scripted(s, "prepare", Net!Held)
       /\ sup[s].pc = "syncing" => Scripted(s, "sync", Net!Levels)
       /\ sup[s].pc \in {"unguarding", "settling"} => Scripted(s, "stop", Net!Levels)
  /\ holder = Caller => at \in {"unguarding", "checking", "rules"}
  /\ at = "unguarding" => Scripted(Caller, "stop", {"clean"})
  /\ at = "checking" => Scripted(Caller, "check", Net!Levels)
  /\ at = "rules" => holder = Caller /\ script = "none"

\* What a call knows: after it has stopped the supervisor none acts; after it
\* has stopped the core none is recorded; then its own child may act.
AfterSuper == {"core", "coreWait", "coreKilled", "owned", "unguard", "unguarding", "check",
               "checking", "spawn"}
AfterCore  == AfterSuper \ {"core", "coreWait", "coreKilled"}
Waiting    == {"poll", "probe", "rules", "verify", "reap", "reaping", "reapKilled"}

Calling ==
  /\ orphaned => at = "idle"
  /\ stopped => at = "idle" /\ ~orphaned
  /\ at \in {"idle", "supervisor", "supWait"} /\ ~orphaned =>
       \A s \in Supers : Over(s) \/ sup[s].pc \in Supervising
  /\ at \in AfterSuper \cup {"supKilled"} \/ stopped => \A s \in Supers : Over(s)
  /\ at \in AfterSuper \/ stopped => ~SupAlive
  /\ at \in AfterCore \/ stopped => ~CoreAlive
  /\ at \in Waiting =>
       /\ child \in Supers
       /\ \A s \in Supers \ {child} : Over(s)
       /\ SupAlive => supRec = child
  /\ at = "reapKilled" => Over(child)

Facts == Alone /\ Records /\ Protected /\ Locking /\ Calling

IInv == TypeOK /\ Facts

-----------------------------------------------------------------------------
(* Types.                                                                  *)

RuleTypes == Net!PromiseOK /\ holder \in Supers \cup {None, Caller, Gone}

SupStates == [pc   : {"dead", "lock", "record", "exit"} \cup Supervising,
              sig  : {"none", "term", "kill"},
              core : Cores \cup {None}]

SupTypes == sup \in [Supers -> SupStates]

CoreTypes ==
  /\ core \in [Cores -> {"dead", "live", "killed"}]
  /\ supRec \in Supers \cup {None} /\ coreRec \in Cores \cup {None}

CallTypes ==
  /\ at \in {"idle"} \cup Stopping \cup Starting
  /\ then \in {"done", "check", "failed", "unreaped"}
  /\ child \in Supers \cup {None}

CountTypes ==
  /\ stable \in 0..(Stable - 1) /\ polls \in 0..Polls

FlagTypes == stopped \in BOOLEAN /\ orphaned \in BOOLEAN

\* The types, in parts small enough for the provers.
LEMMA TypeParts == TypeOK <=> RuleTypes /\ SupTypes /\ CoreTypes /\ CallTypes /\ CountTypes /\ FlagTypes
BY DEF TypeOK, RuleTypes, SupTypes, SupStates, CoreTypes, CallTypes, CountTypes, FlagTypes

\* The two fields that Forget changes keep their types.
LEMMA ForgetType ==
  ASSUME NEW r \in SupStates PROVE [r EXCEPT !.pc = "backoff", !.core = None] \in SupStates
BY DEF SupStates, Supervising

\* A step of a script leaves rules; guards that are up only go by a stop or a check.
LEMMA ScriptStep ==
  ASSUME NEW a \in Net!Scripts, NEW n \in Net!Levels, NEW m \in Net!May(a, n)
  PROVE  m \in Net!Levels /\ (a \notin {"stop", "check"} /\ n \in Net!Held => m \in Net!Held)
BY DEF Net!Scripts, Net!Levels, Net!Held, Net!May

\* A step keeps the types of the rules and of their lock.
LEMMA RuleStep == IInv /\ [Next]_vars => RuleTypes'
<1> SUFFICES ASSUME IInv, [Next]_vars PROVE RuleTypes'
  OBVIOUS
<1> USE SupervisorAssumption DEF IInv, TypeOK, RuleTypes, Net!PromiseOK, Net!Scripts,
     Net!Levels, rules, records, caller, None, Caller, Gone
<1>1. ASSUME NEW s \in Supers, Lock(s) PROVE RuleTypes'
  BY <1>1 DEF Lock, To, Locked, Bury
<1>2. ASSUME NEW s \in Supers, Record(s) PROVE RuleTypes'
  BY <1>2 DEF Record, To, Bury
<1>3. ASSUME NEW s \in Supers, Handle(s) PROVE RuleTypes'
  BY <1>3 DEF Handle, To
<1>4. ASSUME NEW s \in Supers, Loop(s) PROVE RuleTypes'
  BY <1>4 DEF Loop, To, Termed
<1>5. ASSUME NEW s \in Supers, Prepare(s) PROVE RuleTypes'
  BY <1>5 DEF Prepare, To, Run, Answer, Net!Begin
<1>6. ASSUME NEW s \in Supers, Spawn(s) PROVE RuleTypes'
  BY <1>6 DEF Spawn, To
<1>7. ASSUME NEW s \in Supers, Note(s) PROVE RuleTypes'
  BY <1>7 DEF Note, To, Killed
<1>8. ASSUME NEW s \in Supers, Abort(s) PROVE RuleTypes'
  BY <1>8 DEF Abort, To
<1>9. ASSUME NEW s \in Supers, SeeTerm(s) PROVE RuleTypes'
  BY <1>9 DEF SeeTerm, To, Termed
<1>10. ASSUME NEW s \in Supers, SeeExit(s) PROVE RuleTypes'
  BY <1>10 DEF SeeExit, To
<1>11. ASSUME NEW s \in Supers, Tick(s) PROVE RuleTypes'
  BY <1>11 DEF Tick, To, Killed, Run, Answer, Net!Begin
<1>12. ASSUME NEW s \in Supers, Halt(s) PROVE RuleTypes'
  BY <1>12 DEF Halt, To, Killed
<1>13. ASSUME NEW s \in Supers, Unguard(s) PROVE RuleTypes'
  BY <1>13 DEF Unguard, To, Run, Answer, Net!Begin
<1>14. ASSUME NEW s \in Supers, Settle(s) PROVE RuleTypes'
  BY <1>14 DEF Settle, To, Run, Answer, Net!Begin
<1>15. ASSUME NEW s \in Supers, Forget(s) PROVE RuleTypes'
  BY <1>15 DEF Forget
<1>16. ASSUME NEW s \in Supers, Backoff(s) PROVE RuleTypes'
  BY <1>16 DEF Backoff, To, Termed
<1>17. ASSUME NEW s \in Supers, Leave(s) PROVE RuleTypes'
  BY <1>17 DEF Leave, To
<1>18. ASSUME NEW s \in Supers, Exit(s) PROVE RuleTypes'
  BY <1>18 DEF Exit, Bury, Termed
<1>19. ASSUME NEW s \in Supers, SuperDies(s) PROVE RuleTypes'
  BY <1>19 DEF SuperDies, Bury
<1>20. ASSUME NEW c \in Cores, CoreDies(c) PROVE RuleTypes'
  BY <1>20 DEF CoreDies
<1>21. ASSUME NEW t \in {"done", "check"}, Begin(t) PROVE RuleTypes'
  BY <1>21 DEF Begin, AllGone
<1>22. ASSUME StopSupervisor PROVE RuleTypes'
  BY <1>22 DEF StopSupervisor, Goto, Signalled
<1>23. ASSUME AwaitSupervisor PROVE RuleTypes'
  BY <1>23 DEF AwaitSupervisor, Goto, Return, Rest, Signalled
<1>24. ASSUME StopCore PROVE RuleTypes'
  BY <1>24 DEF StopCore, Goto
<1>25. ASSUME AwaitCore PROVE RuleTypes'
  BY <1>25 DEF AwaitCore, Goto, Return, Rest, Killed
<1>26. ASSUME StopNetwork PROVE RuleTypes'
  BY <1>26 DEF StopNetwork, StopEnds, Goto, Return, Rest, Run, Answer, Net!Begin
<1>27. ASSUME StartChecks PROVE RuleTypes'
  BY <1>27 DEF StartChecks, StopAnd, Goto, Return, Rest, Run, Answer, Net!Begin
<1>28. ASSUME StartSpawns PROVE RuleTypes'
  BY <1>28 DEF StartSpawns, StopAnd, Return, Rest
<1>29. ASSUME StartPolls PROVE RuleTypes'
  BY <1>29 DEF StartPolls, Goto
<1>30. ASSUME StartProbes PROVE RuleTypes'
  BY <1>30 DEF StartProbes, NotReady, Goto
<1>31. ASSUME StartVerifies PROVE RuleTypes'
  BY <1>31 DEF StartVerifies, NotReady, Goto, Return, Rest
<1>32. ASSUME Reap PROVE RuleTypes'
  BY <1>32 DEF Reap, StopAnd, Goto, Signalled
<1>33. ASSUME ScriptWorks PROVE RuleTypes'
  BY <1>33, ScriptStep DEF ScriptWorks, Net!Work
<1>34. ASSUME ScriptEnds PROVE RuleTypes'
  BY <1>34, ScriptStep DEF ScriptEnds, Net!End, Net!Good
<1>35. ASSUME Unlock PROVE RuleTypes'
  BY <1>35 DEF Unlock
<1>36. ASSUME CallerDies PROVE RuleTypes'
  BY <1>36 DEF CallerDies, Rest
<1>37. ASSUME Reboot PROVE RuleTypes'
  BY <1>37 DEF Reboot, Rest
<1>38. ASSUME UNCHANGED vars PROVE RuleTypes'
  BY <1>38 DEF vars
<1> QED
  BY <1>1, <1>2, <1>3, <1>4, <1>5, <1>6, <1>7, <1>8, <1>9, <1>10, <1>11, <1>12, <1>13, <1>14,
     <1>15, <1>16, <1>17, <1>18, <1>19, <1>20, <1>21, <1>22, <1>23, <1>24, <1>25, <1>26, <1>27, <1>28,
     <1>29, <1>30, <1>31, <1>32, <1>33, <1>34, <1>35, <1>36, <1>37, <1>38
     DEF Next, Calls, Supervise

\* A step keeps the types of the supervisors.
LEMMA SupStep == IInv /\ [Next]_vars => SupTypes'
<1> SUFFICES ASSUME IInv, [Next]_vars PROVE SupTypes'
  OBVIOUS
<1> USE SupervisorAssumption DEF IInv, Facts, Records, TypeOK, SupTypes, SupStates, NoSuper,
     Supervising, In, SupDead, Signalled, rules, records, caller, None, Caller, Gone
<1>1. ASSUME NEW s \in Supers, Lock(s) PROVE SupTypes'
  BY <1>1 DEF Lock, To, Locked, Bury
<1>2. ASSUME NEW s \in Supers, Record(s) PROVE SupTypes'
  BY <1>2 DEF Record, To, Bury
<1>3. ASSUME NEW s \in Supers, Handle(s) PROVE SupTypes'
  BY <1>3 DEF Handle, To
<1>4. ASSUME NEW s \in Supers, Loop(s) PROVE SupTypes'
  BY <1>4 DEF Loop, To, Termed
<1>5. ASSUME NEW s \in Supers, Prepare(s) PROVE SupTypes'
  BY <1>5 DEF Prepare, To, Run, Answer, Net!Begin
<1>6. ASSUME NEW s \in Supers, Spawn(s) PROVE SupTypes'
  BY <1>6 DEF Spawn, To
<1>7. ASSUME NEW s \in Supers, Note(s) PROVE SupTypes'
  BY <1>7 DEF Note, To, Killed
<1>8. ASSUME NEW s \in Supers, Abort(s) PROVE SupTypes'
  BY <1>8 DEF Abort, To
<1>9. ASSUME NEW s \in Supers, SeeTerm(s) PROVE SupTypes'
  BY <1>9 DEF SeeTerm, To, Termed
<1>10. ASSUME NEW s \in Supers, SeeExit(s) PROVE SupTypes'
  BY <1>10 DEF SeeExit, To
<1>11. ASSUME NEW s \in Supers, Tick(s) PROVE SupTypes'
  BY <1>11 DEF Tick, To, Killed, Run, Answer, Net!Begin
<1>12. ASSUME NEW s \in Supers, Halt(s) PROVE SupTypes'
  BY <1>12 DEF Halt, To, Killed
<1>13. ASSUME NEW s \in Supers, Unguard(s) PROVE SupTypes'
  BY <1>13 DEF Unguard, To, Run, Answer, Net!Begin
<1>14. ASSUME NEW s \in Supers, Settle(s) PROVE SupTypes'
  BY <1>14 DEF Settle, To, Run, Answer, Net!Begin
<1>15. ASSUME NEW s \in Supers, Forget(s) PROVE SupTypes'
  <2>1. sup \in [Supers -> SupStates]
    OBVIOUS
  <2>2. sup' = [sup EXCEPT ![s] = [sup[s] EXCEPT !.pc = "backoff", !.core = None]]
    BY <1>15 DEF Forget
  <2> HIDE DEF SupStates
  <2> QED
    BY ForgetType, <2>1, <2>2
<1>16. ASSUME NEW s \in Supers, Backoff(s) PROVE SupTypes'
  BY <1>16 DEF Backoff, To, Termed
<1>17. ASSUME NEW s \in Supers, Leave(s) PROVE SupTypes'
  BY <1>17 DEF Leave, To
<1>18. ASSUME NEW s \in Supers, Exit(s) PROVE SupTypes'
  BY <1>18 DEF Exit, Bury, Termed
<1>19. ASSUME NEW s \in Supers, SuperDies(s) PROVE SupTypes'
  BY <1>19 DEF SuperDies, Bury
<1>20. ASSUME NEW c \in Cores, CoreDies(c) PROVE SupTypes'
  BY <1>20 DEF CoreDies
<1>21. ASSUME NEW t \in {"done", "check"}, Begin(t) PROVE SupTypes'
  BY <1>21 DEF Begin, AllGone
<1>22. ASSUME StopSupervisor PROVE SupTypes'
  BY <1>22 DEF StopSupervisor, Goto, Signalled
<1>23. ASSUME AwaitSupervisor PROVE SupTypes'
  BY <1>23 DEF AwaitSupervisor, Goto, Return, Rest, Signalled
<1>24. ASSUME StopCore PROVE SupTypes'
  BY <1>24 DEF StopCore, Goto
<1>25. ASSUME AwaitCore PROVE SupTypes'
  BY <1>25 DEF AwaitCore, Goto, Return, Rest, Killed
<1>26. ASSUME StopNetwork PROVE SupTypes'
  BY <1>26 DEF StopNetwork, StopEnds, Goto, Return, Rest, Run, Answer, Net!Begin
<1>27. ASSUME StartChecks PROVE SupTypes'
  BY <1>27 DEF StartChecks, StopAnd, Goto, Return, Rest, Run, Answer, Net!Begin
<1>28. ASSUME StartSpawns PROVE SupTypes'
  BY <1>28 DEF StartSpawns, StopAnd, Return, Rest
<1>29. ASSUME StartPolls PROVE SupTypes'
  BY <1>29 DEF StartPolls, Goto
<1>30. ASSUME StartProbes PROVE SupTypes'
  BY <1>30 DEF StartProbes, NotReady, Goto
<1>31. ASSUME StartVerifies PROVE SupTypes'
  BY <1>31 DEF StartVerifies, NotReady, Goto, Return, Rest
<1>32. ASSUME Reap PROVE SupTypes'
  BY <1>32 DEF Reap, StopAnd, Goto, Signalled
<1>33. ASSUME ScriptWorks PROVE SupTypes'
  BY <1>33, ScriptStep DEF ScriptWorks, Net!Work
<1>34. ASSUME ScriptEnds PROVE SupTypes'
  BY <1>34, ScriptStep DEF ScriptEnds, Net!End, Net!Good
<1>35. ASSUME Unlock PROVE SupTypes'
  BY <1>35 DEF Unlock
<1>36. ASSUME CallerDies PROVE SupTypes'
  BY <1>36 DEF CallerDies, Rest
<1>37. ASSUME Reboot PROVE SupTypes'
  BY <1>37 DEF Reboot, Rest
<1>38. ASSUME UNCHANGED vars PROVE SupTypes'
  BY <1>38 DEF vars
<1> QED
  BY <1>1, <1>2, <1>3, <1>4, <1>5, <1>6, <1>7, <1>8, <1>9, <1>10, <1>11, <1>12, <1>13, <1>14,
     <1>15, <1>16, <1>17, <1>18, <1>19, <1>20, <1>21, <1>22, <1>23, <1>24, <1>25, <1>26, <1>27, <1>28,
     <1>29, <1>30, <1>31, <1>32, <1>33, <1>34, <1>35, <1>36, <1>37, <1>38
     DEF Next, Calls, Supervise

\* A step keeps the types of the cores and of the records.
LEMMA CoreStep == IInv /\ [Next]_vars => CoreTypes'
<1> SUFFICES ASSUME IInv, [Next]_vars PROVE CoreTypes'
  OBVIOUS
<1> USE SupervisorAssumption DEF IInv, Facts, Records, TypeOK, CoreTypes, Supervising, Recorded,
     In, rules, records, caller, None, Caller, Gone
<1>1. ASSUME NEW s \in Supers, Lock(s) PROVE CoreTypes'
  BY <1>1 DEF Lock, To, Locked, Bury
<1>2. ASSUME NEW s \in Supers, Record(s) PROVE CoreTypes'
  BY <1>2 DEF Record, To, Bury
<1>3. ASSUME NEW s \in Supers, Handle(s) PROVE CoreTypes'
  BY <1>3 DEF Handle, To
<1>4. ASSUME NEW s \in Supers, Loop(s) PROVE CoreTypes'
  BY <1>4 DEF Loop, To, Termed
<1>5. ASSUME NEW s \in Supers, Prepare(s) PROVE CoreTypes'
  BY <1>5 DEF Prepare, To, Run, Answer, Net!Begin
<1>6. ASSUME NEW s \in Supers, Spawn(s) PROVE CoreTypes'
  BY <1>6 DEF Spawn, To
<1>7. ASSUME NEW s \in Supers, Note(s) PROVE CoreTypes'
  BY <1>7 DEF Note, To, Killed
<1>8. ASSUME NEW s \in Supers, Abort(s) PROVE CoreTypes'
  BY <1>8 DEF Abort, To
<1>9. ASSUME NEW s \in Supers, SeeTerm(s) PROVE CoreTypes'
  BY <1>9 DEF SeeTerm, To, Termed
<1>10. ASSUME NEW s \in Supers, SeeExit(s) PROVE CoreTypes'
  BY <1>10 DEF SeeExit, To
<1>11. ASSUME NEW s \in Supers, Tick(s) PROVE CoreTypes'
  BY <1>11 DEF Tick, To, Killed, Run, Answer, Net!Begin
<1>12. ASSUME NEW s \in Supers, Halt(s) PROVE CoreTypes'
  BY <1>12 DEF Halt, To, Killed
<1>13. ASSUME NEW s \in Supers, Unguard(s) PROVE CoreTypes'
  BY <1>13 DEF Unguard, To, Run, Answer, Net!Begin
<1>14. ASSUME NEW s \in Supers, Settle(s) PROVE CoreTypes'
  BY <1>14 DEF Settle, To, Run, Answer, Net!Begin
<1>15. ASSUME NEW s \in Supers, Forget(s) PROVE CoreTypes'
  BY <1>15 DEF Forget
<1>16. ASSUME NEW s \in Supers, Backoff(s) PROVE CoreTypes'
  BY <1>16 DEF Backoff, To, Termed
<1>17. ASSUME NEW s \in Supers, Leave(s) PROVE CoreTypes'
  BY <1>17 DEF Leave, To
<1>18. ASSUME NEW s \in Supers, Exit(s) PROVE CoreTypes'
  BY <1>18 DEF Exit, Bury, Termed
<1>19. ASSUME NEW s \in Supers, SuperDies(s) PROVE CoreTypes'
  BY <1>19 DEF SuperDies, Bury
<1>20. ASSUME NEW c \in Cores, CoreDies(c) PROVE CoreTypes'
  BY <1>20 DEF CoreDies
<1>21. ASSUME NEW t \in {"done", "check"}, Begin(t) PROVE CoreTypes'
  BY <1>21 DEF Begin, AllGone
<1>22. ASSUME StopSupervisor PROVE CoreTypes'
  BY <1>22 DEF StopSupervisor, Goto, Signalled
<1>23. ASSUME AwaitSupervisor PROVE CoreTypes'
  BY <1>23 DEF AwaitSupervisor, Goto, Return, Rest, Signalled
<1>24. ASSUME StopCore PROVE CoreTypes'
  BY <1>24 DEF StopCore, Goto
<1>25. ASSUME AwaitCore PROVE CoreTypes'
  BY <1>25 DEF AwaitCore, Goto, Return, Rest, Killed
<1>26. ASSUME StopNetwork PROVE CoreTypes'
  BY <1>26 DEF StopNetwork, StopEnds, Goto, Return, Rest, Run, Answer, Net!Begin
<1>27. ASSUME StartChecks PROVE CoreTypes'
  BY <1>27 DEF StartChecks, StopAnd, Goto, Return, Rest, Run, Answer, Net!Begin
<1>28. ASSUME StartSpawns PROVE CoreTypes'
  BY <1>28 DEF StartSpawns, StopAnd, Return, Rest
<1>29. ASSUME StartPolls PROVE CoreTypes'
  BY <1>29 DEF StartPolls, Goto
<1>30. ASSUME StartProbes PROVE CoreTypes'
  BY <1>30 DEF StartProbes, NotReady, Goto
<1>31. ASSUME StartVerifies PROVE CoreTypes'
  BY <1>31 DEF StartVerifies, NotReady, Goto, Return, Rest
<1>32. ASSUME Reap PROVE CoreTypes'
  BY <1>32 DEF Reap, StopAnd, Goto, Signalled
<1>33. ASSUME ScriptWorks PROVE CoreTypes'
  BY <1>33, ScriptStep DEF ScriptWorks, Net!Work
<1>34. ASSUME ScriptEnds PROVE CoreTypes'
  BY <1>34, ScriptStep DEF ScriptEnds, Net!End, Net!Good
<1>35. ASSUME Unlock PROVE CoreTypes'
  BY <1>35 DEF Unlock
<1>36. ASSUME CallerDies PROVE CoreTypes'
  BY <1>36 DEF CallerDies, Rest
<1>37. ASSUME Reboot PROVE CoreTypes'
  BY <1>37 DEF Reboot, Rest
<1>38. ASSUME UNCHANGED vars PROVE CoreTypes'
  BY <1>38 DEF vars
<1> QED
  BY <1>1, <1>2, <1>3, <1>4, <1>5, <1>6, <1>7, <1>8, <1>9, <1>10, <1>11, <1>12, <1>13, <1>14,
     <1>15, <1>16, <1>17, <1>18, <1>19, <1>20, <1>21, <1>22, <1>23, <1>24, <1>25, <1>26, <1>27, <1>28,
     <1>29, <1>30, <1>31, <1>32, <1>33, <1>34, <1>35, <1>36, <1>37, <1>38
     DEF Next, Calls, Supervise

\* A step keeps the types of the counters of the call.
LEMMA CountStep == IInv /\ [Next]_vars => CountTypes'
<1> SUFFICES ASSUME IInv, [Next]_vars PROVE CountTypes'
  OBVIOUS
<1> USE SupervisorAssumption DEF IInv, TypeOK, CountTypes, rules, records, caller, None, Caller,
     Gone
<1>1. ASSUME NEW s \in Supers, Lock(s) PROVE CountTypes'
  BY <1>1 DEF Lock, To, Locked, Bury
<1>2. ASSUME NEW s \in Supers, Record(s) PROVE CountTypes'
  BY <1>2 DEF Record, To, Bury
<1>3. ASSUME NEW s \in Supers, Handle(s) PROVE CountTypes'
  BY <1>3 DEF Handle, To
<1>4. ASSUME NEW s \in Supers, Loop(s) PROVE CountTypes'
  BY <1>4 DEF Loop, To, Termed
<1>5. ASSUME NEW s \in Supers, Prepare(s) PROVE CountTypes'
  BY <1>5 DEF Prepare, To, Run, Answer, Net!Begin
<1>6. ASSUME NEW s \in Supers, Spawn(s) PROVE CountTypes'
  BY <1>6 DEF Spawn, To
<1>7. ASSUME NEW s \in Supers, Note(s) PROVE CountTypes'
  BY <1>7 DEF Note, To, Killed
<1>8. ASSUME NEW s \in Supers, Abort(s) PROVE CountTypes'
  BY <1>8 DEF Abort, To
<1>9. ASSUME NEW s \in Supers, SeeTerm(s) PROVE CountTypes'
  BY <1>9 DEF SeeTerm, To, Termed
<1>10. ASSUME NEW s \in Supers, SeeExit(s) PROVE CountTypes'
  BY <1>10 DEF SeeExit, To
<1>11. ASSUME NEW s \in Supers, Tick(s) PROVE CountTypes'
  BY <1>11 DEF Tick, To, Killed, Run, Answer, Net!Begin
<1>12. ASSUME NEW s \in Supers, Halt(s) PROVE CountTypes'
  BY <1>12 DEF Halt, To, Killed
<1>13. ASSUME NEW s \in Supers, Unguard(s) PROVE CountTypes'
  BY <1>13 DEF Unguard, To, Run, Answer, Net!Begin
<1>14. ASSUME NEW s \in Supers, Settle(s) PROVE CountTypes'
  BY <1>14 DEF Settle, To, Run, Answer, Net!Begin
<1>15. ASSUME NEW s \in Supers, Forget(s) PROVE CountTypes'
  BY <1>15 DEF Forget
<1>16. ASSUME NEW s \in Supers, Backoff(s) PROVE CountTypes'
  BY <1>16 DEF Backoff, To, Termed
<1>17. ASSUME NEW s \in Supers, Leave(s) PROVE CountTypes'
  BY <1>17 DEF Leave, To
<1>18. ASSUME NEW s \in Supers, Exit(s) PROVE CountTypes'
  BY <1>18 DEF Exit, Bury, Termed
<1>19. ASSUME NEW s \in Supers, SuperDies(s) PROVE CountTypes'
  BY <1>19 DEF SuperDies, Bury
<1>20. ASSUME NEW c \in Cores, CoreDies(c) PROVE CountTypes'
  BY <1>20 DEF CoreDies
<1>21. ASSUME NEW t \in {"done", "check"}, Begin(t) PROVE CountTypes'
  BY <1>21 DEF Begin, AllGone
<1>22. ASSUME StopSupervisor PROVE CountTypes'
  BY <1>22 DEF StopSupervisor, Goto, Signalled
<1>23. ASSUME AwaitSupervisor PROVE CountTypes'
  BY <1>23 DEF AwaitSupervisor, Goto, Return, Rest, Signalled
<1>24. ASSUME StopCore PROVE CountTypes'
  BY <1>24 DEF StopCore, Goto
<1>25. ASSUME AwaitCore PROVE CountTypes'
  BY <1>25 DEF AwaitCore, Goto, Return, Rest, Killed
<1>26. ASSUME StopNetwork PROVE CountTypes'
  BY <1>26 DEF StopNetwork, StopEnds, Goto, Return, Rest, Run, Answer, Net!Begin
<1>27. ASSUME StartChecks PROVE CountTypes'
  BY <1>27 DEF StartChecks, StopAnd, Goto, Return, Rest, Run, Answer, Net!Begin
<1>28. ASSUME StartSpawns PROVE CountTypes'
  BY <1>28 DEF StartSpawns, StopAnd, Return, Rest
<1>29. ASSUME StartPolls PROVE CountTypes'
  BY <1>29 DEF StartPolls, Goto
<1>30. ASSUME StartProbes PROVE CountTypes'
  BY <1>30 DEF StartProbes, NotReady, Goto
<1>31. ASSUME StartVerifies PROVE CountTypes'
  BY <1>31 DEF StartVerifies, NotReady, Goto, Return, Rest
<1>32. ASSUME Reap PROVE CountTypes'
  BY <1>32 DEF Reap, StopAnd, Goto, Signalled
<1>33. ASSUME ScriptWorks PROVE CountTypes'
  BY <1>33, ScriptStep DEF ScriptWorks, Net!Work
<1>34. ASSUME ScriptEnds PROVE CountTypes'
  BY <1>34, ScriptStep DEF ScriptEnds, Net!End, Net!Good
<1>35. ASSUME Unlock PROVE CountTypes'
  BY <1>35 DEF Unlock
<1>36. ASSUME CallerDies PROVE CountTypes'
  BY <1>36 DEF CallerDies, Rest
<1>37. ASSUME Reboot PROVE CountTypes'
  BY <1>37 DEF Reboot, Rest
<1>38. ASSUME UNCHANGED vars PROVE CountTypes'
  BY <1>38 DEF vars
<1> QED
  BY <1>1, <1>2, <1>3, <1>4, <1>5, <1>6, <1>7, <1>8, <1>9, <1>10, <1>11, <1>12, <1>13, <1>14,
     <1>15, <1>16, <1>17, <1>18, <1>19, <1>20, <1>21, <1>22, <1>23, <1>24, <1>25, <1>26, <1>27, <1>28,
     <1>29, <1>30, <1>31, <1>32, <1>33, <1>34, <1>35, <1>36, <1>37, <1>38
     DEF Next, Calls, Supervise

\* A step keeps the types of the flags.
LEMMA FlagStep == IInv /\ [Next]_vars => FlagTypes'
<1> SUFFICES ASSUME IInv, [Next]_vars PROVE FlagTypes'
  OBVIOUS
<1> USE SupervisorAssumption DEF IInv, TypeOK, FlagTypes, rules, records, caller, None, Caller,
     Gone
<1>1. ASSUME NEW s \in Supers, Lock(s) PROVE FlagTypes'
  BY <1>1 DEF Lock, To, Locked, Bury
<1>2. ASSUME NEW s \in Supers, Record(s) PROVE FlagTypes'
  BY <1>2 DEF Record, To, Bury
<1>3. ASSUME NEW s \in Supers, Handle(s) PROVE FlagTypes'
  BY <1>3 DEF Handle, To
<1>4. ASSUME NEW s \in Supers, Loop(s) PROVE FlagTypes'
  BY <1>4 DEF Loop, To, Termed
<1>5. ASSUME NEW s \in Supers, Prepare(s) PROVE FlagTypes'
  BY <1>5 DEF Prepare, To, Run, Answer, Net!Begin
<1>6. ASSUME NEW s \in Supers, Spawn(s) PROVE FlagTypes'
  BY <1>6 DEF Spawn, To
<1>7. ASSUME NEW s \in Supers, Note(s) PROVE FlagTypes'
  BY <1>7 DEF Note, To, Killed
<1>8. ASSUME NEW s \in Supers, Abort(s) PROVE FlagTypes'
  BY <1>8 DEF Abort, To
<1>9. ASSUME NEW s \in Supers, SeeTerm(s) PROVE FlagTypes'
  BY <1>9 DEF SeeTerm, To, Termed
<1>10. ASSUME NEW s \in Supers, SeeExit(s) PROVE FlagTypes'
  BY <1>10 DEF SeeExit, To
<1>11. ASSUME NEW s \in Supers, Tick(s) PROVE FlagTypes'
  BY <1>11 DEF Tick, To, Killed, Run, Answer, Net!Begin
<1>12. ASSUME NEW s \in Supers, Halt(s) PROVE FlagTypes'
  BY <1>12 DEF Halt, To, Killed
<1>13. ASSUME NEW s \in Supers, Unguard(s) PROVE FlagTypes'
  BY <1>13 DEF Unguard, To, Run, Answer, Net!Begin
<1>14. ASSUME NEW s \in Supers, Settle(s) PROVE FlagTypes'
  BY <1>14 DEF Settle, To, Run, Answer, Net!Begin
<1>15. ASSUME NEW s \in Supers, Forget(s) PROVE FlagTypes'
  BY <1>15 DEF Forget
<1>16. ASSUME NEW s \in Supers, Backoff(s) PROVE FlagTypes'
  BY <1>16 DEF Backoff, To, Termed
<1>17. ASSUME NEW s \in Supers, Leave(s) PROVE FlagTypes'
  BY <1>17 DEF Leave, To
<1>18. ASSUME NEW s \in Supers, Exit(s) PROVE FlagTypes'
  BY <1>18 DEF Exit, Bury, Termed
<1>19. ASSUME NEW s \in Supers, SuperDies(s) PROVE FlagTypes'
  BY <1>19 DEF SuperDies, Bury
<1>20. ASSUME NEW c \in Cores, CoreDies(c) PROVE FlagTypes'
  BY <1>20 DEF CoreDies
<1>21. ASSUME NEW t \in {"done", "check"}, Begin(t) PROVE FlagTypes'
  BY <1>21 DEF Begin, AllGone
<1>22. ASSUME StopSupervisor PROVE FlagTypes'
  BY <1>22 DEF StopSupervisor, Goto, Signalled
<1>23. ASSUME AwaitSupervisor PROVE FlagTypes'
  BY <1>23 DEF AwaitSupervisor, Goto, Return, Rest, Signalled
<1>24. ASSUME StopCore PROVE FlagTypes'
  BY <1>24 DEF StopCore, Goto
<1>25. ASSUME AwaitCore PROVE FlagTypes'
  BY <1>25 DEF AwaitCore, Goto, Return, Rest, Killed
<1>26. ASSUME StopNetwork PROVE FlagTypes'
  BY <1>26 DEF StopNetwork, StopEnds, Goto, Return, Rest, Run, Answer, Net!Begin
<1>27. ASSUME StartChecks PROVE FlagTypes'
  BY <1>27 DEF StartChecks, StopAnd, Goto, Return, Rest, Run, Answer, Net!Begin
<1>28. ASSUME StartSpawns PROVE FlagTypes'
  BY <1>28 DEF StartSpawns, StopAnd, Return, Rest
<1>29. ASSUME StartPolls PROVE FlagTypes'
  BY <1>29 DEF StartPolls, Goto
<1>30. ASSUME StartProbes PROVE FlagTypes'
  BY <1>30 DEF StartProbes, NotReady, Goto
<1>31. ASSUME StartVerifies PROVE FlagTypes'
  BY <1>31 DEF StartVerifies, NotReady, Goto, Return, Rest
<1>32. ASSUME Reap PROVE FlagTypes'
  BY <1>32 DEF Reap, StopAnd, Goto, Signalled
<1>33. ASSUME ScriptWorks PROVE FlagTypes'
  BY <1>33, ScriptStep DEF ScriptWorks, Net!Work
<1>34. ASSUME ScriptEnds PROVE FlagTypes'
  BY <1>34, ScriptStep DEF ScriptEnds, Net!End, Net!Good
<1>35. ASSUME Unlock PROVE FlagTypes'
  BY <1>35 DEF Unlock
<1>36. ASSUME CallerDies PROVE FlagTypes'
  BY <1>36 DEF CallerDies, Rest
<1>37. ASSUME Reboot PROVE FlagTypes'
  BY <1>37 DEF Reboot, Rest
<1>38. ASSUME UNCHANGED vars PROVE FlagTypes'
  BY <1>38 DEF vars
<1> QED
  BY <1>1, <1>2, <1>3, <1>4, <1>5, <1>6, <1>7, <1>8, <1>9, <1>10, <1>11, <1>12, <1>13, <1>14,
     <1>15, <1>16, <1>17, <1>18, <1>19, <1>20, <1>21, <1>22, <1>23, <1>24, <1>25, <1>26, <1>27, <1>28,
     <1>29, <1>30, <1>31, <1>32, <1>33, <1>34, <1>35, <1>36, <1>37, <1>38
     DEF Next, Calls, Supervise

\* A step keeps the types of the call.
LEMMA CallStep == IInv /\ [Next]_vars => CallTypes'
<1> SUFFICES ASSUME IInv, [Next]_vars PROVE CallTypes'
  OBVIOUS
<1> USE SupervisorAssumption DEF IInv, TypeOK, CallTypes, Stopping, Starting, rules, records,
     caller, None, Caller, Gone
<1>1. ASSUME NEW s \in Supers, Lock(s) PROVE CallTypes'
  BY <1>1 DEF Lock, To, Locked, Bury
<1>2. ASSUME NEW s \in Supers, Record(s) PROVE CallTypes'
  BY <1>2 DEF Record, To, Bury
<1>3. ASSUME NEW s \in Supers, Handle(s) PROVE CallTypes'
  BY <1>3 DEF Handle, To
<1>4. ASSUME NEW s \in Supers, Loop(s) PROVE CallTypes'
  BY <1>4 DEF Loop, To, Termed
<1>5. ASSUME NEW s \in Supers, Prepare(s) PROVE CallTypes'
  BY <1>5 DEF Prepare, To, Run, Answer, Net!Begin
<1>6. ASSUME NEW s \in Supers, Spawn(s) PROVE CallTypes'
  BY <1>6 DEF Spawn, To
<1>7. ASSUME NEW s \in Supers, Note(s) PROVE CallTypes'
  BY <1>7 DEF Note, To, Killed
<1>8. ASSUME NEW s \in Supers, Abort(s) PROVE CallTypes'
  BY <1>8 DEF Abort, To
<1>9. ASSUME NEW s \in Supers, SeeTerm(s) PROVE CallTypes'
  BY <1>9 DEF SeeTerm, To, Termed
<1>10. ASSUME NEW s \in Supers, SeeExit(s) PROVE CallTypes'
  BY <1>10 DEF SeeExit, To
<1>11. ASSUME NEW s \in Supers, Tick(s) PROVE CallTypes'
  BY <1>11 DEF Tick, To, Killed, Run, Answer, Net!Begin
<1>12. ASSUME NEW s \in Supers, Halt(s) PROVE CallTypes'
  BY <1>12 DEF Halt, To, Killed
<1>13. ASSUME NEW s \in Supers, Unguard(s) PROVE CallTypes'
  BY <1>13 DEF Unguard, To, Run, Answer, Net!Begin
<1>14. ASSUME NEW s \in Supers, Settle(s) PROVE CallTypes'
  BY <1>14 DEF Settle, To, Run, Answer, Net!Begin
<1>15. ASSUME NEW s \in Supers, Forget(s) PROVE CallTypes'
  BY <1>15 DEF Forget
<1>16. ASSUME NEW s \in Supers, Backoff(s) PROVE CallTypes'
  BY <1>16 DEF Backoff, To, Termed
<1>17. ASSUME NEW s \in Supers, Leave(s) PROVE CallTypes'
  BY <1>17 DEF Leave, To
<1>18. ASSUME NEW s \in Supers, Exit(s) PROVE CallTypes'
  BY <1>18 DEF Exit, Bury, Termed
<1>19. ASSUME NEW s \in Supers, SuperDies(s) PROVE CallTypes'
  BY <1>19 DEF SuperDies, Bury
<1>20. ASSUME NEW c \in Cores, CoreDies(c) PROVE CallTypes'
  BY <1>20 DEF CoreDies
<1>21. ASSUME NEW t \in {"done", "check"}, Begin(t) PROVE CallTypes'
  BY <1>21 DEF Begin, AllGone
<1>22. ASSUME StopSupervisor PROVE CallTypes'
  BY <1>22 DEF StopSupervisor, Goto, Signalled
<1>23. ASSUME AwaitSupervisor PROVE CallTypes'
  BY <1>23 DEF AwaitSupervisor, Goto, Return, Rest, Signalled
<1>24. ASSUME StopCore PROVE CallTypes'
  BY <1>24 DEF StopCore, Goto
<1>25. ASSUME AwaitCore PROVE CallTypes'
  BY <1>25 DEF AwaitCore, Goto, Return, Rest, Killed
<1>26. ASSUME StopNetwork PROVE CallTypes'
  BY <1>26 DEF StopNetwork, StopEnds, Goto, Return, Rest, Run, Answer, Net!Begin
<1>27. ASSUME StartChecks PROVE CallTypes'
  BY <1>27 DEF StartChecks, StopAnd, Goto, Return, Rest, Run, Answer, Net!Begin
<1>28. ASSUME StartSpawns PROVE CallTypes'
  BY <1>28 DEF StartSpawns, StopAnd, Return, Rest
<1>29. ASSUME StartPolls PROVE CallTypes'
  BY <1>29 DEF StartPolls, Goto
<1>30. ASSUME StartProbes PROVE CallTypes'
  BY <1>30 DEF StartProbes, NotReady, Goto
<1>31. ASSUME StartVerifies PROVE CallTypes'
  BY <1>31 DEF StartVerifies, NotReady, Goto, Return, Rest
<1>32. ASSUME Reap PROVE CallTypes'
  BY <1>32 DEF Reap, StopAnd, Goto, Signalled
<1>33. ASSUME ScriptWorks PROVE CallTypes'
  BY <1>33, ScriptStep DEF ScriptWorks, Net!Work
<1>34. ASSUME ScriptEnds PROVE CallTypes'
  BY <1>34, ScriptStep DEF ScriptEnds, Net!End, Net!Good
<1>35. ASSUME Unlock PROVE CallTypes'
  BY <1>35 DEF Unlock
<1>36. ASSUME CallerDies PROVE CallTypes'
  BY <1>36 DEF CallerDies, Rest
<1>37. ASSUME Reboot PROVE CallTypes'
  BY <1>37 DEF Reboot, Rest
<1>38. ASSUME UNCHANGED vars PROVE CallTypes'
  BY <1>38 DEF vars
<1> QED
  BY <1>1, <1>2, <1>3, <1>4, <1>5, <1>6, <1>7, <1>8, <1>9, <1>10, <1>11, <1>12, <1>13, <1>14,
     <1>15, <1>16, <1>17, <1>18, <1>19, <1>20, <1>21, <1>22, <1>23, <1>24, <1>25, <1>26, <1>27, <1>28,
     <1>29, <1>30, <1>31, <1>32, <1>33, <1>34, <1>35, <1>36, <1>37, <1>38
     DEF Next, Calls, Supervise

-----------------------------------------------------------------------------
(* Facts.                                                                  *)

\* Supervisors stay alone.
LEMMA AloneStep == IInv /\ [Next]_vars => Alone'
<1> SUFFICES ASSUME IInv, [Next]_vars PROVE Alone'
  OBVIOUS
<1> USE SupervisorAssumption DEF IInv, TypeOK, Facts, Alone, Calling, AfterSuper, Waiting, Over,
     Locked, NoSuper, In, SupDead, Supervising, rules, records, caller, None, Caller, Gone
<1>1. ASSUME NEW s \in Supers, Lock(s) PROVE Alone'
  BY <1>1 DEF Lock, To, Locked, Bury
<1>2. ASSUME NEW s \in Supers, Record(s) PROVE Alone'
  BY <1>2 DEF Record, To, Bury
<1>3. ASSUME NEW s \in Supers, Handle(s) PROVE Alone'
  BY <1>3 DEF Handle, To
<1>4. ASSUME NEW s \in Supers, Loop(s) PROVE Alone'
  BY <1>4 DEF Loop, To, Termed
<1>5. ASSUME NEW s \in Supers, Prepare(s) PROVE Alone'
  BY <1>5 DEF Prepare, To, Run, Answer, Net!Begin
<1>6. ASSUME NEW s \in Supers, Spawn(s) PROVE Alone'
  BY <1>6 DEF Spawn, To
<1>7. ASSUME NEW s \in Supers, Note(s) PROVE Alone'
  BY <1>7 DEF Note, To, Killed
<1>8. ASSUME NEW s \in Supers, Abort(s) PROVE Alone'
  BY <1>8 DEF Abort, To
<1>9. ASSUME NEW s \in Supers, SeeTerm(s) PROVE Alone'
  BY <1>9 DEF SeeTerm, To, Termed
<1>10. ASSUME NEW s \in Supers, SeeExit(s) PROVE Alone'
  BY <1>10 DEF SeeExit, To
<1>11. ASSUME NEW s \in Supers, Tick(s) PROVE Alone'
  BY <1>11 DEF Tick, To, Killed, Run, Answer, Net!Begin
<1>12. ASSUME NEW s \in Supers, Halt(s) PROVE Alone'
  BY <1>12 DEF Halt, To, Killed
<1>13. ASSUME NEW s \in Supers, Unguard(s) PROVE Alone'
  BY <1>13 DEF Unguard, To, Run, Answer, Net!Begin
<1>14. ASSUME NEW s \in Supers, Settle(s) PROVE Alone'
  BY <1>14 DEF Settle, To, Run, Answer, Net!Begin
<1>15. ASSUME NEW s \in Supers, Forget(s) PROVE Alone'
  BY <1>15 DEF Forget
<1>16. ASSUME NEW s \in Supers, Backoff(s) PROVE Alone'
  BY <1>16 DEF Backoff, To, Termed
<1>17. ASSUME NEW s \in Supers, Leave(s) PROVE Alone'
  BY <1>17 DEF Leave, To
<1>18. ASSUME NEW s \in Supers, Exit(s) PROVE Alone'
  BY <1>18 DEF Exit, Bury, Termed
<1>19. ASSUME NEW s \in Supers, SuperDies(s) PROVE Alone'
  BY <1>19 DEF SuperDies, Bury
<1>20. ASSUME NEW c \in Cores, CoreDies(c) PROVE Alone'
  BY <1>20 DEF CoreDies
<1>21. ASSUME NEW t \in {"done", "check"}, Begin(t) PROVE Alone'
  BY <1>21 DEF Begin, AllGone
<1>22. ASSUME StopSupervisor PROVE Alone'
  BY <1>22 DEF StopSupervisor, Goto, Signalled
<1>23. ASSUME AwaitSupervisor PROVE Alone'
  BY <1>23 DEF AwaitSupervisor, Goto, Return, Rest, Signalled
<1>24. ASSUME StopCore PROVE Alone'
  BY <1>24 DEF StopCore, Goto
<1>25. ASSUME AwaitCore PROVE Alone'
  BY <1>25 DEF AwaitCore, Goto, Return, Rest, Killed
<1>26. ASSUME StopNetwork PROVE Alone'
  BY <1>26 DEF StopNetwork, StopEnds, Goto, Return, Rest, Run, Answer, Net!Begin
<1>27. ASSUME StartChecks PROVE Alone'
  BY <1>27 DEF StartChecks, StopAnd, Goto, Return, Rest, Run, Answer, Net!Begin
<1>28. ASSUME StartSpawns PROVE Alone'
  BY <1>28 DEF StartSpawns, StopAnd, Return, Rest
<1>29. ASSUME StartPolls PROVE Alone'
  BY <1>29 DEF StartPolls, Goto
<1>30. ASSUME StartProbes PROVE Alone'
  BY <1>30 DEF StartProbes, NotReady, Goto
<1>31. ASSUME StartVerifies PROVE Alone'
  BY <1>31 DEF StartVerifies, NotReady, Goto, Return, Rest
<1>32. ASSUME Reap PROVE Alone'
  BY <1>32 DEF Reap, StopAnd, Goto, Signalled
<1>33. ASSUME ScriptWorks PROVE Alone'
  BY <1>33 DEF ScriptWorks, Net!Work
<1>34. ASSUME ScriptEnds PROVE Alone'
  BY <1>34 DEF ScriptEnds, Net!End, Net!Good
<1>35. ASSUME Unlock PROVE Alone'
  BY <1>35 DEF Unlock
<1>36. ASSUME CallerDies PROVE Alone'
  BY <1>36 DEF CallerDies, Rest
<1>37. ASSUME Reboot PROVE Alone'
  BY <1>37 DEF Reboot, Rest
<1>38. ASSUME UNCHANGED vars PROVE Alone'
  BY <1>38 DEF vars
<1> QED
  BY <1>1, <1>2, <1>3, <1>4, <1>5, <1>6, <1>7, <1>8, <1>9, <1>10, <1>11, <1>12, <1>13, <1>14,
     <1>15, <1>16, <1>17, <1>18, <1>19, <1>20, <1>21, <1>22, <1>23, <1>24, <1>25, <1>26, <1>27, <1>28,
     <1>29, <1>30, <1>31, <1>32, <1>33, <1>34, <1>35, <1>36, <1>37, <1>38
     DEF Next, Calls, Supervise

\* The records stay true.
LEMMA RecordStep == IInv /\ [Next]_vars => Records'
<1> SUFFICES ASSUME IInv, [Next]_vars PROVE Records'
  OBVIOUS
<1> USE SupervisorAssumption DEF IInv, TypeOK, Facts, Alone, Records, Calling, AfterSuper,
     AfterCore, Over, Locked, NoSuper, In, SupDead, SupAlive, CoreAlive, Supervising, Coreless,
     Recorded, Coreended, rules, records, caller, None, Caller, Gone
<1>1. ASSUME NEW s \in Supers, Lock(s) PROVE Records'
  BY <1>1 DEF Lock, To, Locked, Bury
<1>2. ASSUME NEW s \in Supers, Record(s) PROVE Records'
  BY <1>2 DEF Record, To, Bury
<1>3. ASSUME NEW s \in Supers, Handle(s) PROVE Records'
  BY <1>3 DEF Handle, To
<1>4. ASSUME NEW s \in Supers, Loop(s) PROVE Records'
  BY <1>4 DEF Loop, To, Termed
<1>5. ASSUME NEW s \in Supers, Prepare(s) PROVE Records'
  BY <1>5 DEF Prepare, To, Run, Answer, Net!Begin
<1>6. ASSUME NEW s \in Supers, Spawn(s) PROVE Records'
  BY <1>6 DEF Spawn, To
<1>7. ASSUME NEW s \in Supers, Note(s) PROVE Records'
  BY <1>7 DEF Note, To, Killed
<1>8. ASSUME NEW s \in Supers, Abort(s) PROVE Records'
  BY <1>8 DEF Abort, To
<1>9. ASSUME NEW s \in Supers, SeeTerm(s) PROVE Records'
  BY <1>9 DEF SeeTerm, To, Termed
<1>10. ASSUME NEW s \in Supers, SeeExit(s) PROVE Records'
  BY <1>10 DEF SeeExit, To
<1>11. ASSUME NEW s \in Supers, Tick(s) PROVE Records'
  BY <1>11 DEF Tick, To, Killed, Run, Answer, Net!Begin
<1>12. ASSUME NEW s \in Supers, Halt(s) PROVE Records'
  BY <1>12 DEF Halt, To, Killed
<1>13. ASSUME NEW s \in Supers, Unguard(s) PROVE Records'
  BY <1>13 DEF Unguard, To, Run, Answer, Net!Begin
<1>14. ASSUME NEW s \in Supers, Settle(s) PROVE Records'
  BY <1>14 DEF Settle, To, Run, Answer, Net!Begin
<1>15. ASSUME NEW s \in Supers, Forget(s) PROVE Records'
  BY <1>15 DEF Forget
<1>16. ASSUME NEW s \in Supers, Backoff(s) PROVE Records'
  BY <1>16 DEF Backoff, To, Termed
<1>17. ASSUME NEW s \in Supers, Leave(s) PROVE Records'
  BY <1>17 DEF Leave, To
<1>18. ASSUME NEW s \in Supers, Exit(s) PROVE Records'
  BY <1>18 DEF Exit, Bury, Termed
<1>19. ASSUME NEW s \in Supers, SuperDies(s) PROVE Records'
  BY <1>19 DEF SuperDies, Bury
<1>20. ASSUME NEW c \in Cores, CoreDies(c) PROVE Records'
  BY <1>20 DEF CoreDies
<1>21. ASSUME NEW t \in {"done", "check"}, Begin(t) PROVE Records'
  BY <1>21 DEF Begin, AllGone
<1>22. ASSUME StopSupervisor PROVE Records'
  BY <1>22 DEF StopSupervisor, Goto, Signalled
<1>23. ASSUME AwaitSupervisor PROVE Records'
  BY <1>23 DEF AwaitSupervisor, Goto, Return, Rest, Signalled
<1>24. ASSUME StopCore PROVE Records'
  BY <1>24 DEF StopCore, Goto
<1>25. ASSUME AwaitCore PROVE Records'
  BY <1>25 DEF AwaitCore, Goto, Return, Rest, Killed
<1>26. ASSUME StopNetwork PROVE Records'
  BY <1>26 DEF StopNetwork, StopEnds, Goto, Return, Rest, Run, Answer, Net!Begin
<1>27. ASSUME StartChecks PROVE Records'
  BY <1>27 DEF StartChecks, StopAnd, Goto, Return, Rest, Run, Answer, Net!Begin
<1>28. ASSUME StartSpawns PROVE Records'
  BY <1>28 DEF StartSpawns, StopAnd, Return, Rest
<1>29. ASSUME StartPolls PROVE Records'
  BY <1>29 DEF StartPolls, Goto
<1>30. ASSUME StartProbes PROVE Records'
  BY <1>30 DEF StartProbes, NotReady, Goto
<1>31. ASSUME StartVerifies PROVE Records'
  BY <1>31 DEF StartVerifies, NotReady, Goto, Return, Rest
<1>32. ASSUME Reap PROVE Records'
  BY <1>32 DEF Reap, StopAnd, Goto, Signalled
<1>33. ASSUME ScriptWorks PROVE Records'
  BY <1>33 DEF ScriptWorks, Net!Work
<1>34. ASSUME ScriptEnds PROVE Records'
  BY <1>34 DEF ScriptEnds, Net!End, Net!Good
<1>35. ASSUME Unlock PROVE Records'
  BY <1>35 DEF Unlock
<1>36. ASSUME CallerDies PROVE Records'
  BY <1>36 DEF CallerDies, Rest
<1>37. ASSUME Reboot PROVE Records'
  BY <1>37 DEF Reboot, Rest
<1>38. ASSUME UNCHANGED vars PROVE Records'
  BY <1>38 DEF vars
<1> QED
  BY <1>1, <1>2, <1>3, <1>4, <1>5, <1>6, <1>7, <1>8, <1>9, <1>10, <1>11, <1>12, <1>13, <1>14,
     <1>15, <1>16, <1>17, <1>18, <1>19, <1>20, <1>21, <1>22, <1>23, <1>24, <1>25, <1>26, <1>27, <1>28,
     <1>29, <1>30, <1>31, <1>32, <1>33, <1>34, <1>35, <1>36, <1>37, <1>38
     DEF Next, Calls, Supervise

\* The core stays protected.
LEMMA ProtectStep == IInv /\ [Next]_vars => Protected'
<1> SUFFICES ASSUME IInv, [Next]_vars PROVE Protected'
  OBVIOUS
<1> USE SupervisorAssumption DEF IInv, TypeOK, Facts, Alone, Records, Protected, Locking,
     Scripted, Safe, Lost, Calling, AfterSuper, AfterCore, Over, Locked, NoSuper, In, SupDead,
     SupAlive, CoreAlive, Supervising, Coreless, Recorded, Coreended, Net!PromiseOK, Net!Scripts,
     rules, records, caller, None, Caller, Gone
<1>1. ASSUME NEW s \in Supers, Lock(s) PROVE Protected'
  BY <1>1 DEF Lock, To, Locked, Bury
<1>2. ASSUME NEW s \in Supers, Record(s) PROVE Protected'
  BY <1>2 DEF Record, To, Bury
<1>3. ASSUME NEW s \in Supers, Handle(s) PROVE Protected'
  BY <1>3 DEF Handle, To
<1>4. ASSUME NEW s \in Supers, Loop(s) PROVE Protected'
  BY <1>4 DEF Loop, To, Termed
<1>5. ASSUME NEW s \in Supers, Prepare(s) PROVE Protected'
  BY <1>5 DEF Prepare, To, Run, Answer, Net!Begin
<1>6. ASSUME NEW s \in Supers, Spawn(s) PROVE Protected'
  BY <1>6 DEF Spawn, To
<1>7. ASSUME NEW s \in Supers, Note(s) PROVE Protected'
  BY <1>7 DEF Note, To, Killed
<1>8. ASSUME NEW s \in Supers, Abort(s) PROVE Protected'
  BY <1>8 DEF Abort, To
<1>9. ASSUME NEW s \in Supers, SeeTerm(s) PROVE Protected'
  BY <1>9 DEF SeeTerm, To, Termed
<1>10. ASSUME NEW s \in Supers, SeeExit(s) PROVE Protected'
  BY <1>10 DEF SeeExit, To
<1>11. ASSUME NEW s \in Supers, Tick(s) PROVE Protected'
  BY <1>11 DEF Tick, To, Killed, Run, Answer, Net!Begin
<1>12. ASSUME NEW s \in Supers, Halt(s) PROVE Protected'
  BY <1>12 DEF Halt, To, Killed
<1>13. ASSUME NEW s \in Supers, Unguard(s) PROVE Protected'
  BY <1>13 DEF Unguard, To, Run, Answer, Net!Begin
<1>14. ASSUME NEW s \in Supers, Settle(s) PROVE Protected'
  BY <1>14 DEF Settle, To, Run, Answer, Net!Begin
<1>15. ASSUME NEW s \in Supers, Forget(s) PROVE Protected'
  BY <1>15 DEF Forget
<1>16. ASSUME NEW s \in Supers, Backoff(s) PROVE Protected'
  BY <1>16 DEF Backoff, To, Termed
<1>17. ASSUME NEW s \in Supers, Leave(s) PROVE Protected'
  BY <1>17 DEF Leave, To
<1>18. ASSUME NEW s \in Supers, Exit(s) PROVE Protected'
  BY <1>18 DEF Exit, Bury, Termed
<1>19. ASSUME NEW s \in Supers, SuperDies(s) PROVE Protected'
  BY <1>19 DEF SuperDies, Bury
<1>20. ASSUME NEW c \in Cores, CoreDies(c) PROVE Protected'
  BY <1>20 DEF CoreDies
<1>21. ASSUME NEW t \in {"done", "check"}, Begin(t) PROVE Protected'
  BY <1>21 DEF Begin, AllGone
<1>22. ASSUME StopSupervisor PROVE Protected'
  BY <1>22 DEF StopSupervisor, Goto, Signalled
<1>23. ASSUME AwaitSupervisor PROVE Protected'
  BY <1>23 DEF AwaitSupervisor, Goto, Return, Rest, Signalled
<1>24. ASSUME StopCore PROVE Protected'
  BY <1>24 DEF StopCore, Goto
<1>25. ASSUME AwaitCore PROVE Protected'
  BY <1>25 DEF AwaitCore, Goto, Return, Rest, Killed
<1>26. ASSUME StopNetwork PROVE Protected'
  BY <1>26 DEF StopNetwork, StopEnds, Goto, Return, Rest, Run, Answer, Net!Begin
<1>27. ASSUME StartChecks PROVE Protected'
  BY <1>27 DEF StartChecks, StopAnd, Goto, Return, Rest, Run, Answer, Net!Begin
<1>28. ASSUME StartSpawns PROVE Protected'
  BY <1>28 DEF StartSpawns, StopAnd, Return, Rest
<1>29. ASSUME StartPolls PROVE Protected'
  BY <1>29 DEF StartPolls, Goto
<1>30. ASSUME StartProbes PROVE Protected'
  BY <1>30 DEF StartProbes, NotReady, Goto
<1>31. ASSUME StartVerifies PROVE Protected'
  BY <1>31 DEF StartVerifies, NotReady, Goto, Return, Rest
<1>32. ASSUME Reap PROVE Protected'
  BY <1>32 DEF Reap, StopAnd, Goto, Signalled
<1>33. ASSUME ScriptWorks PROVE Protected'
  BY <1>33, ScriptStep DEF ScriptWorks, Net!Work
<1>34. ASSUME ScriptEnds PROVE Protected'
  BY <1>34, ScriptStep DEF ScriptEnds, Net!End, Net!Good
<1>35. ASSUME Unlock PROVE Protected'
  BY <1>35 DEF Unlock
<1>36. ASSUME CallerDies PROVE Protected'
  BY <1>36 DEF CallerDies, Rest
<1>37. ASSUME Reboot PROVE Protected'
  BY <1>37 DEF Reboot, Rest
<1>38. ASSUME UNCHANGED vars PROVE Protected'
  BY <1>38 DEF vars
<1> QED
  BY <1>1, <1>2, <1>3, <1>4, <1>5, <1>6, <1>7, <1>8, <1>9, <1>10, <1>11, <1>12, <1>13, <1>14,
     <1>15, <1>16, <1>17, <1>18, <1>19, <1>20, <1>21, <1>22, <1>23, <1>24, <1>25, <1>26, <1>27, <1>28,
     <1>29, <1>30, <1>31, <1>32, <1>33, <1>34, <1>35, <1>36, <1>37, <1>38
     DEF Next, Calls, Supervise

\* The lock stays with the script.
LEMMA LockStep == IInv /\ [Next]_vars => Locking'
<1> SUFFICES ASSUME IInv, [Next]_vars PROVE Locking'
  OBVIOUS
<1> USE SupervisorAssumption DEF IInv, TypeOK, Facts, Records, Locking, Scripted, NoSuper, In,
     SupDead, Net!PromiseOK, Net!Scripts, Net!Levels, Net!Held, rules, records, caller, None, Caller,
     Gone
<1>1. ASSUME NEW s \in Supers, Lock(s) PROVE Locking'
  BY <1>1 DEF Lock, To, Locked, Bury
<1>2. ASSUME NEW s \in Supers, Record(s) PROVE Locking'
  BY <1>2 DEF Record, To, Bury
<1>3. ASSUME NEW s \in Supers, Handle(s) PROVE Locking'
  BY <1>3 DEF Handle, To
<1>4. ASSUME NEW s \in Supers, Loop(s) PROVE Locking'
  BY <1>4 DEF Loop, To, Termed
<1>5. ASSUME NEW s \in Supers, Prepare(s) PROVE Locking'
  BY <1>5 DEF Prepare, To, Run, Answer, Net!Begin
<1>6. ASSUME NEW s \in Supers, Spawn(s) PROVE Locking'
  BY <1>6 DEF Spawn, To
<1>7. ASSUME NEW s \in Supers, Note(s) PROVE Locking'
  BY <1>7 DEF Note, To, Killed
<1>8. ASSUME NEW s \in Supers, Abort(s) PROVE Locking'
  BY <1>8 DEF Abort, To
<1>9. ASSUME NEW s \in Supers, SeeTerm(s) PROVE Locking'
  BY <1>9 DEF SeeTerm, To, Termed
<1>10. ASSUME NEW s \in Supers, SeeExit(s) PROVE Locking'
  BY <1>10 DEF SeeExit, To
<1>11. ASSUME NEW s \in Supers, Tick(s) PROVE Locking'
  BY <1>11 DEF Tick, To, Killed, Run, Answer, Net!Begin
<1>12. ASSUME NEW s \in Supers, Halt(s) PROVE Locking'
  BY <1>12 DEF Halt, To, Killed
<1>13. ASSUME NEW s \in Supers, Unguard(s) PROVE Locking'
  BY <1>13 DEF Unguard, To, Run, Answer, Net!Begin
<1>14. ASSUME NEW s \in Supers, Settle(s) PROVE Locking'
  BY <1>14 DEF Settle, To, Run, Answer, Net!Begin
<1>15. ASSUME NEW s \in Supers, Forget(s) PROVE Locking'
  BY <1>15 DEF Forget
<1>16. ASSUME NEW s \in Supers, Backoff(s) PROVE Locking'
  BY <1>16 DEF Backoff, To, Termed
<1>17. ASSUME NEW s \in Supers, Leave(s) PROVE Locking'
  BY <1>17 DEF Leave, To
<1>18. ASSUME NEW s \in Supers, Exit(s) PROVE Locking'
  BY <1>18 DEF Exit, Bury, Termed
<1>19. ASSUME NEW s \in Supers, SuperDies(s) PROVE Locking'
  BY <1>19 DEF SuperDies, Bury
<1>20. ASSUME NEW c \in Cores, CoreDies(c) PROVE Locking'
  BY <1>20 DEF CoreDies
<1>21. ASSUME NEW t \in {"done", "check"}, Begin(t) PROVE Locking'
  BY <1>21 DEF Begin, AllGone
<1>22. ASSUME StopSupervisor PROVE Locking'
  BY <1>22 DEF StopSupervisor, Goto, Signalled
<1>23. ASSUME AwaitSupervisor PROVE Locking'
  BY <1>23 DEF AwaitSupervisor, Goto, Return, Rest, Signalled
<1>24. ASSUME StopCore PROVE Locking'
  BY <1>24 DEF StopCore, Goto
<1>25. ASSUME AwaitCore PROVE Locking'
  BY <1>25 DEF AwaitCore, Goto, Return, Rest, Killed
<1>26. ASSUME StopNetwork PROVE Locking'
  BY <1>26 DEF StopNetwork, StopEnds, Goto, Return, Rest, Run, Answer, Net!Begin
<1>27. ASSUME StartChecks PROVE Locking'
  BY <1>27 DEF StartChecks, StopAnd, Goto, Return, Rest, Run, Answer, Net!Begin
<1>28. ASSUME StartSpawns PROVE Locking'
  BY <1>28 DEF StartSpawns, StopAnd, Return, Rest
<1>29. ASSUME StartPolls PROVE Locking'
  BY <1>29 DEF StartPolls, Goto
<1>30. ASSUME StartProbes PROVE Locking'
  BY <1>30 DEF StartProbes, NotReady, Goto
<1>31. ASSUME StartVerifies PROVE Locking'
  BY <1>31 DEF StartVerifies, NotReady, Goto, Return, Rest
<1>32. ASSUME Reap PROVE Locking'
  BY <1>32 DEF Reap, StopAnd, Goto, Signalled
<1>33. ASSUME ScriptWorks PROVE Locking'
  BY <1>33, ScriptStep DEF ScriptWorks, Net!Work
<1>34. ASSUME ScriptEnds PROVE Locking'
  BY <1>34, ScriptStep DEF ScriptEnds, Net!End, Net!Good
<1>35. ASSUME Unlock PROVE Locking'
  BY <1>35 DEF Unlock
<1>36. ASSUME CallerDies PROVE Locking'
  BY <1>36 DEF CallerDies, Rest
<1>37. ASSUME Reboot PROVE Locking'
  BY <1>37 DEF Reboot, Rest
<1>38. ASSUME UNCHANGED vars PROVE Locking'
  BY <1>38 DEF vars
<1> QED
  BY <1>1, <1>2, <1>3, <1>4, <1>5, <1>6, <1>7, <1>8, <1>9, <1>10, <1>11, <1>12, <1>13, <1>14,
     <1>15, <1>16, <1>17, <1>18, <1>19, <1>20, <1>21, <1>22, <1>23, <1>24, <1>25, <1>26, <1>27, <1>28,
     <1>29, <1>30, <1>31, <1>32, <1>33, <1>34, <1>35, <1>36, <1>37, <1>38
     DEF Next, Calls, Supervise

\* A call still knows what is left.
LEMMA CallingStep == IInv /\ [Next]_vars => Calling'
<1> SUFFICES ASSUME IInv, [Next]_vars PROVE Calling'
  OBVIOUS
<1> USE SupervisorAssumption DEF IInv, TypeOK, Facts, Alone, Records, Calling, AfterSuper,
     AfterCore, Waiting, Over, Locked, NoSuper, In, SupDead, SupAlive, CoreAlive, Supervising,
     Stopping, Starting, rules, records, caller, None, Caller, Gone
<1>1. ASSUME NEW s \in Supers, Lock(s) PROVE Calling'
  BY <1>1 DEF Lock, To, Locked, Bury
<1>2. ASSUME NEW s \in Supers, Record(s) PROVE Calling'
  BY <1>2 DEF Record, To, Bury
<1>3. ASSUME NEW s \in Supers, Handle(s) PROVE Calling'
  BY <1>3 DEF Handle, To
<1>4. ASSUME NEW s \in Supers, Loop(s) PROVE Calling'
  BY <1>4 DEF Loop, To, Termed
<1>5. ASSUME NEW s \in Supers, Prepare(s) PROVE Calling'
  BY <1>5 DEF Prepare, To, Run, Answer, Net!Begin
<1>6. ASSUME NEW s \in Supers, Spawn(s) PROVE Calling'
  BY <1>6 DEF Spawn, To
<1>7. ASSUME NEW s \in Supers, Note(s) PROVE Calling'
  BY <1>7 DEF Note, To, Killed
<1>8. ASSUME NEW s \in Supers, Abort(s) PROVE Calling'
  BY <1>8 DEF Abort, To
<1>9. ASSUME NEW s \in Supers, SeeTerm(s) PROVE Calling'
  BY <1>9 DEF SeeTerm, To, Termed
<1>10. ASSUME NEW s \in Supers, SeeExit(s) PROVE Calling'
  BY <1>10 DEF SeeExit, To
<1>11. ASSUME NEW s \in Supers, Tick(s) PROVE Calling'
  BY <1>11 DEF Tick, To, Killed, Run, Answer, Net!Begin
<1>12. ASSUME NEW s \in Supers, Halt(s) PROVE Calling'
  BY <1>12 DEF Halt, To, Killed
<1>13. ASSUME NEW s \in Supers, Unguard(s) PROVE Calling'
  BY <1>13 DEF Unguard, To, Run, Answer, Net!Begin
<1>14. ASSUME NEW s \in Supers, Settle(s) PROVE Calling'
  BY <1>14 DEF Settle, To, Run, Answer, Net!Begin
<1>15. ASSUME NEW s \in Supers, Forget(s) PROVE Calling'
  BY <1>15 DEF Forget
<1>16. ASSUME NEW s \in Supers, Backoff(s) PROVE Calling'
  BY <1>16 DEF Backoff, To, Termed
<1>17. ASSUME NEW s \in Supers, Leave(s) PROVE Calling'
  BY <1>17 DEF Leave, To
<1>18. ASSUME NEW s \in Supers, Exit(s) PROVE Calling'
  BY <1>18 DEF Exit, Bury, Termed
<1>19. ASSUME NEW s \in Supers, SuperDies(s) PROVE Calling'
  BY <1>19 DEF SuperDies, Bury
<1>20. ASSUME NEW c \in Cores, CoreDies(c) PROVE Calling'
  BY <1>20 DEF CoreDies
<1>21. ASSUME NEW t \in {"done", "check"}, Begin(t) PROVE Calling'
  BY <1>21 DEF Begin, AllGone
<1>22. ASSUME StopSupervisor PROVE Calling'
  BY <1>22 DEF StopSupervisor, Goto, Signalled
<1>23. ASSUME AwaitSupervisor PROVE Calling'
  BY <1>23 DEF AwaitSupervisor, Goto, Return, Rest, Signalled
<1>24. ASSUME StopCore PROVE Calling'
  BY <1>24 DEF StopCore, Goto
<1>25. ASSUME AwaitCore PROVE Calling'
  BY <1>25 DEF AwaitCore, Goto, Return, Rest, Killed
<1>26. ASSUME StopNetwork PROVE Calling'
  BY <1>26 DEF StopNetwork, StopEnds, Goto, Return, Rest, Run, Answer, Net!Begin
<1>27. ASSUME StartChecks PROVE Calling'
  BY <1>27 DEF StartChecks, StopAnd, Goto, Return, Rest, Run, Answer, Net!Begin
<1>28. ASSUME StartSpawns PROVE Calling'
  BY <1>28 DEF StartSpawns, StopAnd, Return, Rest
<1>29. ASSUME StartPolls PROVE Calling'
  BY <1>29 DEF StartPolls, Goto
<1>30. ASSUME StartProbes PROVE Calling'
  BY <1>30 DEF StartProbes, NotReady, Goto
<1>31. ASSUME StartVerifies PROVE Calling'
  BY <1>31 DEF StartVerifies, NotReady, Goto, Return, Rest
<1>32. ASSUME Reap PROVE Calling'
  BY <1>32 DEF Reap, StopAnd, Goto, Signalled
<1>33. ASSUME ScriptWorks PROVE Calling'
  BY <1>33 DEF ScriptWorks, Net!Work
<1>34. ASSUME ScriptEnds PROVE Calling'
  BY <1>34 DEF ScriptEnds, Net!End, Net!Good
<1>35. ASSUME Unlock PROVE Calling'
  BY <1>35 DEF Unlock
<1>36. ASSUME CallerDies PROVE Calling'
  BY <1>36 DEF CallerDies, Rest
<1>37. ASSUME Reboot PROVE Calling'
  BY <1>37 DEF Reboot, Rest
<1>38. ASSUME UNCHANGED vars PROVE Calling'
  BY <1>38 DEF vars
<1> QED
  BY <1>1, <1>2, <1>3, <1>4, <1>5, <1>6, <1>7, <1>8, <1>9, <1>10, <1>11, <1>12, <1>13, <1>14,
     <1>15, <1>16, <1>17, <1>18, <1>19, <1>20, <1>21, <1>22, <1>23, <1>24, <1>25, <1>26, <1>27, <1>28,
     <1>29, <1>30, <1>31, <1>32, <1>33, <1>34, <1>35, <1>36, <1>37, <1>38
     DEF Next, Calls, Supervise

\* The invariant holds at first.
LEMMA InvInit == Init => IInv
<1> SUFFICES ASSUME Init PROVE IInv
  OBVIOUS
<1> USE SupervisorAssumption DEF Init, Net!Init, None, Caller, Gone
<1>1. RuleTypes
  BY DEF RuleTypes, Net!PromiseOK, Net!Levels, Net!Scripts
<1>2. SupTypes
  BY DEF SupTypes, SupStates, NoSuper
<1>3. CoreTypes
  BY DEF CoreTypes
<1>4. CallTypes
  BY DEF CallTypes
<1>5. CountTypes
  BY DEF CountTypes
<1>6. FlagTypes
  BY DEF FlagTypes
<1>7. Facts
  BY DEF Facts, Alone, Records, Protected, Locking, Calling, Over, Locked, NoSuper, SupDead,
         SupAlive, CoreAlive, Supervising, Coreless, Recorded, Coreended, Lost, AfterSuper,
         AfterCore, Waiting
<1> QED
  BY <1>1, <1>2, <1>3, <1>4, <1>5, <1>6, <1>7, TypeParts DEF IInv

\* IInv is inductive.
THEOREM Invariance == Spec => []IInv
<1>1. IInv /\ [Next]_vars => IInv'
  <2> SUFFICES ASSUME IInv, [Next]_vars PROVE IInv'
    OBVIOUS
  <2>1. TypeOK'
    BY RuleStep, SupStep, CoreStep, CallStep, CountStep, FlagStep
       DEF TypeOK, RuleTypes, SupTypes, SupStates, CoreTypes, CallTypes, CountTypes, FlagTypes
  <2>2. Facts'
    BY AloneStep, RecordStep, ProtectStep, LockStep, CallingStep DEF Facts
  <2> QED
    BY <2>1, <2>2 DEF IInv
<1> QED
  BY InvInit, <1>1, PTL DEF Spec

-----------------------------------------------------------------------------
(* What it gives.                                                          *)

\* The variables keep their types.
THEOREM TypeCorrect == Spec => []TypeOK
<1>1. IInv => TypeOK
  BY DEF IInv
<1> QED
  BY Invariance, <1>1, PTL

\* A core that somebody knows of is protected as long as it lives.
THEOREM CoreIsGuarded == Spec => []GuardedCore
<1>1. IInv => GuardedCore
  BY DEF IInv, Facts, Protected, Safe, GuardedCore
<1> QED
  BY Invariance, <1>1, PTL

\* Whoever supervises is recorded, and so alone.
THEOREM SupervisorIsAlone == Spec => []OneSupervisor
<1>1. IInv => OneSupervisor
  BY DEF IInv, Facts, Records, OneSupervisor
<1> QED
  BY Invariance, <1>1, PTL

\* Of the cores somebody knows of, one lives.
THEOREM CoreIsAlone == Spec => []OneCore
<1>1. IInv => OneCore
  <2> SUFFICES ASSUME IInv, NEW c \in Cores, NEW d \in Cores, core[c] # "dead", ~Lost(c),
                      core[d] # "dead", ~Lost(d)
               PROVE  c = d
    BY DEF OneCore
  <2> USE SupervisorAssumption
      DEF IInv, TypeOK, Facts, Alone, Records, Lost, Locked, SupDead, CoreAlive, NoSuper, None,
          Supervising, Coreless, Recorded, Coreended
  <2>1. ASSUME NEW s \in Supers, NEW e \in Cores, ~SupDead(s), sup[s].core = e, core[e] # "dead"
        PROVE  Locked(s) /\ (coreRec = e \/ ~CoreAlive \/ coreRec = None)
    BY <2>1
  <2>2. CASE coreRec = c
    BY <2>1, <2>2
  <2>3. CASE coreRec = d
    BY <2>1, <2>3
  <2>4. CASE coreRec # c /\ coreRec # d
    BY <2>1, <2>4
  <2> QED
    BY <2>2, <2>3, <2>4
<1> QED
  BY Invariance, <1>1, PTL

\* One supervisor and one core.
THEOREM EachIsAlone == Spec => []OneOfEach
BY SupervisorIsAlone, CoreIsAlone, PTL DEF OneOfEach

\* While `stopped' holds there is no core and nobody who would start one.
LEMMA StoppedIsDown == IInv => (stopped => ~Live /\ ~Kept)
BY SupervisorAssumption
   DEF IInv, TypeOK, Facts, Records, Calling, Over, Live, Kept, Lost, SupDead, SupAlive,
       CoreAlive, NoSuper, None, Supervising, Coreless, Recorded, Coreended

\* A stop that has succeeded leaves no core and nobody who would start one.
THEOREM StopLasts == Spec => [](stopped => ~Live /\ ~Kept)
<1>1. IInv => (stopped => ~Live /\ ~Kept)
  BY StoppedIsDown
<1> QED
  BY Invariance, <1>1, PTL

\* It leaves no rules, and none come back but by the script of a killed process.
THEOREM RulesStayAway == Spec => StopCleans
<1> DEFINE Cleans == stopped' /\ (stopped => net = "clean" /\ holder # Gone) => net' = "clean"
<1>1. IInv /\ [Next]_vars => [Cleans]_vars
  <2> SUFFICES ASSUME IInv, Next PROVE Cleans
    BY DEF vars
  <2> USE SupervisorAssumption
      DEF IInv, TypeOK, Facts, Calling, Locking, Records, Scripted, In, Over, SupDead, SupAlive,
           AfterSuper,
          AfterCore, Supervising, Coreless, rules, records, caller, None, Caller, Gone
  <2>1. ASSUME NEW s \in Supers, Lock(s) PROVE Cleans
    BY <2>1 DEF Lock, To, Locked, Bury
  <2>2. ASSUME NEW s \in Supers, Record(s) PROVE Cleans
    BY <2>2 DEF Record, To, Bury
  <2>3. ASSUME NEW s \in Supers, Handle(s) PROVE Cleans
    BY <2>3 DEF Handle, To
  <2>4. ASSUME NEW s \in Supers, Loop(s) PROVE Cleans
    BY <2>4 DEF Loop, To, Termed
  <2>5. ASSUME NEW s \in Supers, Prepare(s) PROVE Cleans
    BY <2>5 DEF Prepare, To, Run, Answer, Net!Begin
  <2>6. ASSUME NEW s \in Supers, Spawn(s) PROVE Cleans
    BY <2>6 DEF Spawn, To
  <2>7. ASSUME NEW s \in Supers, Note(s) PROVE Cleans
    BY <2>7 DEF Note, To, Killed
  <2>8. ASSUME NEW s \in Supers, Abort(s) PROVE Cleans
    BY <2>8 DEF Abort, To
  <2>9. ASSUME NEW s \in Supers, SeeTerm(s) PROVE Cleans
    BY <2>9 DEF SeeTerm, To, Termed
  <2>10. ASSUME NEW s \in Supers, SeeExit(s) PROVE Cleans
    BY <2>10 DEF SeeExit, To
  <2>11. ASSUME NEW s \in Supers, Tick(s) PROVE Cleans
    BY <2>11 DEF Tick, To, Killed, Run, Answer, Net!Begin
  <2>12. ASSUME NEW s \in Supers, Halt(s) PROVE Cleans
    BY <2>12 DEF Halt, To, Killed
  <2>13. ASSUME NEW s \in Supers, Unguard(s) PROVE Cleans
    BY <2>13 DEF Unguard, To, Run, Answer, Net!Begin
  <2>14. ASSUME NEW s \in Supers, Settle(s) PROVE Cleans
    BY <2>14 DEF Settle, To, Run, Answer, Net!Begin
  <2>15. ASSUME NEW s \in Supers, Forget(s) PROVE Cleans
    BY <2>15 DEF Forget
  <2>16. ASSUME NEW s \in Supers, Backoff(s) PROVE Cleans
    BY <2>16 DEF Backoff, To, Termed
  <2>17. ASSUME NEW s \in Supers, Leave(s) PROVE Cleans
    BY <2>17 DEF Leave, To
  <2>18. ASSUME NEW s \in Supers, Exit(s) PROVE Cleans
    BY <2>18 DEF Exit, Bury, Termed
  <2>19. ASSUME NEW s \in Supers, SuperDies(s) PROVE Cleans
    BY <2>19 DEF SuperDies, Bury
  <2>20. ASSUME NEW c \in Cores, CoreDies(c) PROVE Cleans
    BY <2>20 DEF CoreDies
  <2>21. ASSUME NEW t \in {"done", "check"}, Begin(t) PROVE Cleans
    BY <2>21 DEF Begin, AllGone
  <2>22. ASSUME StopSupervisor PROVE Cleans
    BY <2>22 DEF StopSupervisor, Goto, Signalled
  <2>23. ASSUME AwaitSupervisor PROVE Cleans
    BY <2>23 DEF AwaitSupervisor, Goto, Return, Rest, Signalled
  <2>24. ASSUME StopCore PROVE Cleans
    BY <2>24 DEF StopCore, Goto
  <2>25. ASSUME AwaitCore PROVE Cleans
    BY <2>25 DEF AwaitCore, Goto, Return, Rest, Killed
  <2>26. ASSUME StopNetwork PROVE Cleans
    BY <2>26 DEF StopNetwork, StopEnds, Goto, Return, Rest, Run, Answer, Net!Begin
  <2>27. ASSUME StartChecks PROVE Cleans
    BY <2>27 DEF StartChecks, StopAnd, Goto, Return, Rest, Run, Answer, Net!Begin
  <2>28. ASSUME StartSpawns PROVE Cleans
    BY <2>28 DEF StartSpawns, StopAnd, Return, Rest
  <2>29. ASSUME StartPolls PROVE Cleans
    BY <2>29 DEF StartPolls, Goto
  <2>30. ASSUME StartProbes PROVE Cleans
    BY <2>30 DEF StartProbes, NotReady, Goto
  <2>31. ASSUME StartVerifies PROVE Cleans
    BY <2>31 DEF StartVerifies, NotReady, Goto, Return, Rest
  <2>32. ASSUME Reap PROVE Cleans
    BY <2>32 DEF Reap, StopAnd, Goto, Signalled
  <2>33. ASSUME ScriptWorks PROVE Cleans
    BY <2>33 DEF ScriptWorks, Net!Work
  <2>34. ASSUME ScriptEnds PROVE Cleans
    BY <2>34 DEF ScriptEnds, Net!End, Net!Good
  <2>35. ASSUME Unlock PROVE Cleans
    BY <2>35 DEF Unlock
  <2>36. ASSUME CallerDies PROVE Cleans
    BY <2>36 DEF CallerDies, Rest
  <2>37. ASSUME Reboot PROVE Cleans
    BY <2>37 DEF Reboot, Rest
  <2> QED
    BY <2>1, <2>2, <2>3, <2>4, <2>5, <2>6, <2>7, <2>8, <2>9, <2>10, <2>11, <2>12, <2>13, <2>14,
       <2>15, <2>16, <2>17, <2>18, <2>19, <2>20, <2>21, <2>22, <2>23, <2>24, <2>25, <2>26, <2>27, <2>28,
       <2>29, <2>30, <2>31, <2>32, <2>33, <2>34, <2>35, <2>36, <2>37
       DEF Next, Calls, Supervise
<1> QED
  BY Invariance, <1>1, PTL DEF Spec, StopCleans

-----------------------------------------------------------------------------
(* The adapter's promise.  Its steps come from two sides: what the         *)
(* processes do to the cores and to each other, and what the calls do.     *)

\* A start is in the part of Start that follows its stop.
Begun == at \in Starting => then = "check"

\* Every step keeps it so.
LEMMA BegunStep == Begun /\ [Next]_vars => Begun'
<1> SUFFICES ASSUME Begun, [Next]_vars PROVE Begun'
  OBVIOUS
<1> USE DEF Begun, Starting
<1>1. ASSUME UNCHANGED caller PROVE Begun'
  BY <1>1 DEF caller
<1>2. ASSUME NEW s \in Supers, Supervise(s) \/ SuperDies(s) PROVE Begun'
  <2>1. UNCHANGED caller
    BY <1>2 DEF Supervise, SuperDies, Lock, Record, Handle, Loop, Prepare, Spawn, Note, Abort,
                SeeTerm, SeeExit, Tick, Halt, Unguard, Settle, Forget, Backoff, Leave, Exit
  <2> QED
    BY <1>1, <2>1
<1>3. ASSUME StopSupervisor \/ AwaitSupervisor \/ StopCore \/ AwaitCore PROVE Begun'
  BY <1>3 DEF StopSupervisor, AwaitSupervisor, StopCore, AwaitCore, Goto, Return, Rest
<1>4. ASSUME StopNetwork PROVE Begun'
  BY <1>4 DEF StopNetwork, StopEnds, Goto, Return, Rest
<1>5. ASSUME StartChecks \/ StartSpawns \/ StartPolls PROVE Begun'
  BY <1>5 DEF StartChecks, StartSpawns, StartPolls, StopAnd, Goto, Return, Rest
<1>6. ASSUME StartProbes \/ StartVerifies \/ Reap PROVE Begun'
  BY <1>6 DEF StartProbes, StartVerifies, Reap, NotReady, StopAnd, Goto, Return, Rest
<1>7. ASSUME NEW t \in {"done", "check"}, Begin(t) PROVE Begun'
  BY <1>7 DEF Begin
<1>8. ASSUME CallerDies \/ Reboot PROVE Begun'
  BY <1>8 DEF CallerDies, Reboot, Rest
<1> QED
  BY <1>1, <1>2, <1>3, <1>4, <1>5, <1>6, <1>7, <1>8
     DEF Next, Calls, ScriptWorks, ScriptEnds, Unlock, CoreDies, vars

\* Nothing comes up where the processes stay as they are.
LEMMA NothingMoves ==
  ASSUME UNCHANGED <<sup, core, records>>
  PROVE  Live' = Live /\ Kept' = Kept
BY DEF Live, Kept, Lost, SupDead, records

\* A supervisor that does nothing any more does not come back by itself, ...
LEMMA NoneRises ==
  ASSUME TypeOK, NEW s \in Supers, Supervise(s) \/ SuperDies(s), NEW o \in Supers, Over(o)
  PROVE  Over(o)'
<1> USE SupervisorAssumption DEF TypeOK, Over, In, To, NoSuper, SupDead
<1>1. ASSUME Lock(s) \/ Record(s) \/ Handle(s) \/ Loop(s) \/ Prepare(s) PROVE Over(o)'
  BY <1>1 DEF Lock, Record, Handle, Loop, Prepare, Bury
<1>2. ASSUME Spawn(s) \/ Note(s) \/ Abort(s) \/ SeeTerm(s) \/ SeeExit(s) PROVE Over(o)'
  BY <1>2 DEF Spawn, Note, Abort, SeeTerm, SeeExit
<1>3. ASSUME Tick(s) \/ Halt(s) \/ Unguard(s) \/ Settle(s) PROVE Over(o)'
  BY <1>3 DEF Tick, Halt, Unguard, Settle
<1>4. ASSUME Forget(s) \/ Backoff(s) \/ Leave(s) \/ Exit(s) \/ SuperDies(s) PROVE Over(o)'
  BY <1>4 DEF Forget, Backoff, Leave, Exit, SuperDies, Bury
<1> QED
  BY <1>1, <1>2, <1>3, <1>4 DEF Supervise

\* ... and one that still acts is what a core needs to come up, or to become known.
LEMMA NoCoreRises ==
  ASSUME TypeOK, NEW s \in Supers, Supervise(s) \/ SuperDies(s), Live'
  PROVE  Live \/ ~Over(s)
<1> SUFFICES ASSUME Over(s) PROVE Live
  OBVIOUS
<1> USE SupervisorAssumption DEF TypeOK, Over, In
<1>1. Exit(s) \/ SuperDies(s)
  BY DEF Supervise, Lock, Record, Handle, Loop, Prepare, Spawn, Note, Abort, SeeTerm, SeeExit,
         Tick, Halt, Unguard, Settle, Forget, Backoff, Leave, Supervising
<1>2. sup' = [sup EXCEPT ![s] = NoSuper] /\ UNCHANGED <<core, coreRec>>
  BY <1>1 DEF Exit, SuperDies, Bury, records
<1> QED
  BY <1>2 DEF Live, Lost, SupDead, NoSuper

\* A step of a call stops processes, but for the one that starts a supervisor.
LEMMA CallsMove ==
  ASSUME TypeOK, Calls
  PROVE  /\ Live' => Live
         /\ Kept' => Kept \/ (at = "spawn" /\ at' = "poll")
<1> USE SupervisorAssumption DEF TypeOK
<1>1. ASSUME StopCore \/ StopNetwork \/ StartChecks \/ StartPolls \/ StartProbes \/ StartVerifies
      PROVE  Live' = Live /\ Kept' = Kept
  <2>1. UNCHANGED <<sup, core, records>>
    BY <1>1 DEF StopCore, StopNetwork, StartChecks, StartPolls, StartProbes, StartVerifies
  <2> QED
    BY <2>1, NothingMoves
<1>2. ASSUME AwaitCore PROVE (Live' => Live) /\ Kept' = Kept
  <2>1. UNCHANGED <<sup, records>> /\ \A c \in Cores : core'[c] # "dead" => core[c] # "dead"
    BY <1>2 DEF AwaitCore, Killed
  <2> QED
    BY <2>1 DEF Live, Kept, Lost, SupDead, records
<1>3. ASSUME StopSupervisor \/ AwaitSupervisor \/ Reap PROVE (Live' => Live) /\ (Kept' => Kept)
  <2>1. UNCHANGED <<core, records>>
    BY <1>3 DEF StopSupervisor, AwaitSupervisor, Reap
  <2>2. ASSUME NEW s \in Supers
        PROVE  /\ sup'[s].pc = sup[s].pc /\ sup'[s].core = sup[s].core
               /\ sup[s].sig = "kill" => sup'[s].sig = "kill"
    <3>1. ASSUME NEW o \in Supers, NEW g \in {"term", "kill"}, sup' = Signalled(o, g)
          PROVE  /\ sup'[s].pc = sup[s].pc /\ sup'[s].core = sup[s].core
                 /\ sup[s].sig = "kill" => sup'[s].sig = "kill"
      BY <3>1 DEF Signalled, SupDead
    <3>2. CASE UNCHANGED sup
      BY <3>2
    <3>3. CASE \E g \in {"term", "kill"} : sup' = Signalled(supRec, g) /\ SupAlive
      BY <3>1, <3>3 DEF SupAlive
    <3>4. CASE \E g \in {"term", "kill"} : sup' = Signalled(child, g) /\ Reap
      <4>1. CASE child \in Supers
        BY <3>1, <3>4, <4>1
      <4>2. CASE child = None
        BY <3>4, <4>2 DEF Signalled, None
      <4> QED
        BY <4>1, <4>2
    <3> QED
      BY <1>3, <3>2, <3>3, <3>4 DEF StopSupervisor, AwaitSupervisor, Reap
  <2> QED
    BY <2>1, <2>2 DEF Live, Kept, Lost, SupDead, records
<1>4. ASSUME StartSpawns PROVE (Live' => Live) /\ (Kept' => Kept \/ (at = "spawn" /\ at' = "poll"))
  <2>1. CASE UNCHANGED sup
    BY <1>4, <2>1, NothingMoves DEF StartSpawns
  <2>2. CASE ~UNCHANGED sup
    <3>1. PICK s \in Supers : /\ SupDead(s)
                              /\ sup' = [sup EXCEPT ![s] = [NoSuper EXCEPT !.pc = "lock"]]
                              /\ at = "spawn" /\ at' = "poll" /\ UNCHANGED <<core, records>>
      BY <1>4, <2>2 DEF StartSpawns
    <3>2. [NoSuper EXCEPT !.pc = "lock"].core = None
      BY DEF NoSuper
    <3>3. sup'[s].core = None /\ \A o \in Supers \ {s} : sup'[o] = sup[o]
      BY <3>1, <3>2
    <3> QED
      BY <3>1, <3>3 DEF Live, Lost, SupDead, records
  <2> QED
    BY <2>1, <2>2
<1> QED
  BY <1>1, <1>2, <1>3, <1>4 DEF Calls

\* A step of a call is within the call, or ends it.
LEMMA CallsGoOn ==
  ASSUME Begun, Calls
  PROVE  /\ at # "idle"
         /\ at' # "idle" => Call' = Call /\ stopped' = stopped
         /\ at = "spawn" => Call = "start"
<1> USE DEF Begun, Starting, Call
<1>1. ASSUME StopSupervisor \/ AwaitSupervisor \/ StopCore \/ AwaitCore PROVE at # "idle" /\ (at' # "idle" => Call' = Call /\ stopped' = stopped)
  BY <1>1 DEF StopSupervisor, AwaitSupervisor, StopCore, AwaitCore, Goto, Return, Rest
<1>2. ASSUME StopNetwork PROVE at # "idle" /\ (at' # "idle" => Call' = Call /\ stopped' = stopped)
  BY <1>2 DEF StopNetwork, StopEnds, Goto, Return, Rest
<1>3. ASSUME StartChecks \/ StartSpawns \/ StartPolls PROVE at # "idle" /\ (at' # "idle" => Call' = Call /\ stopped' = stopped)
  BY <1>3 DEF StartChecks, StartSpawns, StartPolls, StopAnd, Goto, Return, Rest
<1>4. ASSUME StartProbes \/ StartVerifies \/ Reap PROVE at # "idle" /\ (at' # "idle" => Call' = Call /\ stopped' = stopped)
  BY <1>4 DEF StartProbes, StartVerifies, Reap, NotReady, StopAnd, Goto, Return, Rest
<1> QED
  BY <1>1, <1>2, <1>3, <1>4 DEF Calls

\* Every step is one of the adapter's, or none.
LEMMA AdapterStep ==
  ASSUME TypeOK, TypeOK', Begun, [Next]_vars, (stopped => ~Live /\ ~Kept)'
  PROVE  [Adapter!Next]_(Adapter!calls)
<1> USE DEF Adapter!calls, Adapter!Up
<1>1. ASSUME NEW s \in Supers, Supervise(s) \/ SuperDies(s) PROVE Adapter!Run
  <2>1. UNCHANGED caller
    BY <1>1 DEF Supervise, SuperDies, Lock, Record, Handle, Loop, Prepare, Spawn, Note, Abort,
                SeeTerm, SeeExit, Tick, Halt, Unguard, Settle, Forget, Backoff, Leave, Exit
  <2>2. Kept' => Kept
    BY <1>1, NoneRises DEF Kept, Over
  <2>3. Live' => Live \/ Kept
    BY <1>1, NoCoreRises DEF Kept, Over
  <2> QED
    BY <2>1, <2>2, <2>3 DEF Adapter!Run, caller, Call
<1>2. ASSUME NEW c \in Cores, CoreDies(c) PROVE Adapter!Run
  <2>1. \A d \in Cores : core'[d] # "dead" => core[d] # "dead"
    BY <1>2 DEF CoreDies, TypeOK
  <2> QED
    BY <1>2, <2>1 DEF CoreDies, Adapter!Run, Live, Kept, Lost, SupDead, Call, caller, records
<1>3. ASSUME NEW t \in {"done", "check"}, Begin(t) PROVE \E c \in Adapter!Kinds : Adapter!Begin(c)
  <2>1. Live' = Live /\ Kept' = Kept
    BY <1>3, NothingMoves DEF Begin
  <2>2. Call = "none" /\ Call' \in {"start", "stop"} /\ stopped' = FALSE
    BY <1>3 DEF Begin, Call
  <2> QED
    BY <2>1, <2>2 DEF Adapter!Begin, Adapter!Drift, Adapter!Kinds
<1>4. ASSUME Calls PROVE Adapter!Run \/ \E all \in BOOLEAN : Adapter!End(all)
  <2>1. CASE at' # "idle"
    BY <1>4, <2>1, CallsMove, CallsGoOn DEF Adapter!Run
  <2>2. CASE at' = "idle"
    <3>1. Call # "none" /\ Call' = "none" /\ stopped' \in BOOLEAN
      BY <1>4, <2>2, CallsGoOn DEF Call, TypeOK
    <3>2. (Live' => Live) /\ (Kept' => Kept)
      BY <1>4, <2>2, CallsMove
    <3> QED
      BY <3>1, <3>2 DEF Adapter!End, Adapter!Drift, Adapter!Stopped
  <2> QED
    BY <2>1, <2>2
<1>5. ASSUME ScriptWorks \/ ScriptEnds \/ Unlock \/ UNCHANGED vars PROVE UNCHANGED Adapter!calls
  <2>1. UNCHANGED <<sup, core, records>> /\ UNCHANGED caller
    BY <1>5 DEF ScriptWorks, ScriptEnds, Unlock, vars
  <2> QED
    BY <2>1, NothingMoves DEF Call, caller
<1>6. ASSUME CallerDies PROVE Adapter!End(FALSE)
  <2>1. Live' = Live /\ Kept' = Kept
    BY <1>6, NothingMoves DEF CallerDies
  <2> QED
    BY <1>6, <2>1 DEF CallerDies, Rest, Call, Adapter!End, Adapter!Drift
<1>7. ASSUME Reboot PROVE Adapter!Reboot
  <2>1. Live' \in BOOLEAN /\ Kept' \in BOOLEAN
    BY DEF Live, Kept
  <2> QED
    BY <1>7, <2>1 DEF Reboot, Rest, Call, Adapter!Reboot
<1> QED
  BY <1>1, <1>2, <1>3, <1>4, <1>5, <1>6, <1>7 DEF Next, Adapter!Next

\* Start, Stop and the supervisor keep the promise of an adapter.
THEOREM AdapterIsImplemented == Spec => ImplementsAdapter
<1>1. Init => Adapter!Init
  BY DEF Init, Adapter!Init, Live, Kept, Call, NoSuper
<1>2. Init => Begun
  BY DEF Init, Begun, Starting
<1>3. Begun /\ [Next]_vars => Begun'
  BY BegunStep
<1>4. /\ TypeOK /\ TypeOK' /\ Begun /\ [Next]_vars
      /\ (stopped => ~Live /\ ~Kept)'
      => [Adapter!Next]_(Adapter!calls)
  BY AdapterStep
<1> QED
  BY <1>1, <1>2, <1>3, <1>4, TypeCorrect, StopLasts, PTL DEF Spec, ImplementsAdapter, Adapter!Spec

-----------------------------------------------------------------------------
(* Whose answers Start counts.                                             *)

Polling == {"poll", "probe", "rules", "verify"}

\* While Start polls, its supervisor has got no signal, and a core that the record
\* names is that supervisor's.
OwnCore ==
  at \in Polling =>
    /\ sup[child].sig = "none"
    /\ ~SupDead(child) /\ CoreAlive => coreRec = sup[child].core

\* Every step keeps it so.
LEMMA OwnStep == IInv /\ OwnCore /\ [Next]_vars => OwnCore'
<1> SUFFICES ASSUME IInv, OwnCore, [Next]_vars PROVE OwnCore'
  OBVIOUS
<1> USE SupervisorAssumption DEF IInv, TypeOK, Facts, Records, Calling, OwnCore, Polling, Over,
     AfterSuper, AfterCore, Waiting, NoSuper, In, SupDead, CoreAlive, Supervising, Coreless,
     Recorded, Coreended, records, caller, None
<1>1. ASSUME NEW s \in Supers, Supervise(s) \/ SuperDies(s) PROVE OwnCore'
  <2>1. ASSUME Lock(s) \/ Record(s) \/ Handle(s) \/ Loop(s) PROVE OwnCore'
    BY <1>1, <2>1 DEF Lock, Record, Handle, Loop, To, Bury
  <2>2. ASSUME Prepare(s) PROVE OwnCore'
    BY <1>1, <2>2 DEF Prepare, To
  <2>3. ASSUME Spawn(s) PROVE OwnCore'
    <3>1. ~CoreAlive
      BY ONLY <2>3, s \in Supers, IInv DEF IInv, Facts, Records, Spawn, In, Over, Coreless
    <3>2. ~CoreAlive' /\ UNCHANGED caller
      BY ONLY <2>3, <3>1, IInv DEF IInv, TypeOK, Spawn, CoreAlive, records
    <3>3. at \in Polling => sup'[child].sig = sup[child].sig
      BY ONLY <2>3, s \in Supers, IInv DEF IInv, TypeOK, Spawn, To, Facts, Calling, Polling, Waiting
    <3> QED
      BY ONLY <3>2, <3>3, OwnCore DEF OwnCore, caller
  <2>4. ASSUME Note(s) PROVE OwnCore'
    BY <1>1, <2>4 DEF Note, To, Killed
  <2>5. ASSUME Abort(s) \/ SeeTerm(s) \/ SeeExit(s) PROVE OwnCore'
    BY <1>1, <2>5 DEF Abort, SeeTerm, SeeExit, To
  <2>6. ASSUME Tick(s) PROVE OwnCore'
    BY <1>1, <2>6 DEF Tick, To, Killed
  <2>7. ASSUME Halt(s) PROVE OwnCore'
    BY <1>1, <2>7 DEF Halt, To, Killed
  <2>8. ASSUME Unguard(s) \/ Settle(s) PROVE OwnCore'
    BY <1>1, <2>8 DEF Unguard, Settle, To
  <2>9. ASSUME Forget(s) PROVE OwnCore'
    BY <1>1, <2>9 DEF Forget
  <2>10. ASSUME Backoff(s) \/ Leave(s) PROVE OwnCore'
    BY <1>1, <2>10 DEF Backoff, Leave, To
  <2>11. ASSUME Exit(s) \/ SuperDies(s) PROVE OwnCore'
    BY <1>1, <2>11 DEF Exit, SuperDies, Bury
  <2> QED
    BY <1>1, <2>1, <2>2, <2>3, <2>4, <2>5, <2>6, <2>7, <2>8, <2>9, <2>10, <2>11 DEF Supervise
<1>2. ASSUME NEW c \in Cores, CoreDies(c) PROVE OwnCore'
  BY <1>2 DEF CoreDies
<1>3. ASSUME NEW t \in {"done", "check"}, Begin(t) PROVE OwnCore'
  BY <1>3 DEF Begin
<1>4. ASSUME StopSupervisor \/ AwaitSupervisor \/ StopCore \/ AwaitCore PROVE OwnCore'
  BY <1>4 DEF StopSupervisor, AwaitSupervisor, StopCore, AwaitCore, Goto, Return, Rest
<1>5. ASSUME StopNetwork \/ StartChecks PROVE OwnCore'
  BY <1>5 DEF StopNetwork, StartChecks, StopEnds, StopAnd, Goto, Return, Rest
<1>6. ASSUME StartSpawns PROVE OwnCore'
  BY <1>6 DEF StartSpawns, StopAnd, Return, Rest
<1>7. ASSUME StartPolls \/ StartProbes PROVE OwnCore'
  BY <1>7 DEF StartPolls, StartProbes, NotReady, Goto
<1>8. ASSUME StartVerifies PROVE OwnCore'
  BY <1>8 DEF StartVerifies, NotReady, Goto, Return, Rest
<1>9. ASSUME Reap PROVE OwnCore'
  BY <1>9 DEF Reap, StopAnd, Goto
<1>10. ASSUME ScriptWorks \/ ScriptEnds \/ Unlock \/ UNCHANGED vars PROVE OwnCore'
  BY <1>10 DEF ScriptWorks, ScriptEnds, Unlock, vars
<1>11. ASSUME CallerDies \/ Reboot PROVE OwnCore'
  BY <1>11 DEF CallerDies, Reboot, Rest
<1> QED
  BY <1>1, <1>2, <1>3, <1>4, <1>5, <1>6, <1>7, <1>8, <1>9, <1>10, <1>11 DEF Next, Calls

\* Start counts the answers of its own core, which its own supervisor watches.
THEOREM OnlyOwnAnswersCount == Spec => AnswersAreOwn
<1> DEFINE Own == at = "probe" /\ at' = "rules" /\ ~SupDead(child) =>
                    Live /\ Kept /\ sup[child].core = coreRec
<1>1. Init => OwnCore
  BY DEF Init, OwnCore, Polling
<1>2. IInv /\ OwnCore /\ [Next]_vars => OwnCore'
  BY OwnStep
<1>3. IInv /\ OwnCore /\ [Next]_vars => [Own]_vars
  <2> SUFFICES ASSUME IInv, OwnCore, Next, at = "probe", at' = "rules", ~SupDead(child)
               PROVE  Live /\ Kept /\ sup[child].core = coreRec
    BY DEF vars
  <2>1. CoreAlive
    <3> HIDE DEF Own
    <3>1. ~\E s \in Supers : Supervise(s) \/ SuperDies(s)
      BY DEF Supervise, SuperDies, Lock, Record, Handle, Loop, Prepare, Spawn, Note, Abort,
             SeeTerm, SeeExit, Tick, Halt, Unguard, Settle, Forget, Backoff, Leave, Exit, caller
    <3>2. ~\E c \in Cores : CoreDies(c)
      BY DEF CoreDies, caller
    <3>3. ~(ScriptWorks \/ ScriptEnds \/ Unlock \/ CallerDies \/ Reboot)
      BY DEF ScriptWorks, ScriptEnds, Unlock, CallerDies, Reboot, Rest, caller
    <3>4. ~\E t \in {"done", "check"} : Begin(t)
      BY DEF Begin
    <3>5. Calls => StartProbes
      BY DEF Calls, StopSupervisor, AwaitSupervisor, StopCore, AwaitCore, StopNetwork, StartChecks,
             StartSpawns, StartPolls, StartVerifies, Reap
    <3>6. StartProbes => CoreAlive
      BY DEF StartProbes, NotReady, Goto
    <3> QED
      BY <3>1, <3>2, <3>3, <3>4, <3>5, <3>6 DEF Next
  <2>2. child \in Supers /\ sup[child].sig = "none" /\ sup[child].core = coreRec
    BY <2>1 DEF OwnCore, Polling, IInv, Facts, Calling, Waiting
  <2>3. coreRec \in Cores /\ core[coreRec] # "dead"
    BY <2>1 DEF CoreAlive, IInv, TypeOK
  <2>4. sup[child].pc \notin {"dead", "exit"}
    BY <2>2, <2>3, SupervisorAssumption DEF IInv, Facts, Records, Coreended, SupDead, None
  <2> QED
    BY <2>2, <2>3, <2>4 DEF Live, Kept, Lost
<1> QED
  BY <1>1, <1>2, <1>3, Invariance, PTL DEF Spec, AnswersAreOwn
=============================================================================
