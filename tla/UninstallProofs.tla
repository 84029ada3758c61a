-------------------------- MODULE UninstallProofs --------------------------
(***************************************************************************)
(* What Uninstall promises, for any number of processes and installations, *)
(* and what more holds in all of them until a process is misled by the     *)
(* state.lock of an earlier one.                                           *)
(***************************************************************************)
EXTENDS Uninstall, TLAPS

\* The steps of the removal follow one another.
LEMMA RemovalOrder ==
  /\ Len(Removal) = 8
  /\ Removal[1] = "runtime" /\ Removal[2] = "extra"
  /\ Removal[3] = "mihomoctl" /\ Removal[4] = "tasks"
  /\ Removal[5] = "wal" /\ Removal[6] = "db"
  /\ Removal[7] = "control" /\ Removal[8] = "state"
BY DEF Removal

-----------------------------------------------------------------------------
(* Types.                                                                  *)

\* The types hold at first.
LEMMA TypeInit == ASSUME UninstallAssumption, Init PROVE TypeOK
<1>1. worker \in Worker
  BY RemovalOrder DEF Init, Worker, NoWorker
<1>2. client \in [Clients -> Client]
  BY DEF Init, Client, Idle
<1>3. install \in Installs
  BY DEF UninstallAssumption, Init, Installs
<1>4. misled \in BOOLEAN /\ dir \in BOOLEAN
  BY DEF Init
<1> QED
  BY <1>1, <1>2, <1>3, <1>4 DEF Init, TypeOK, Names

\* A step keeps the types.
LEMMA TypeStep == ASSUME UninstallAssumption, TypeOK, [Next]_vars PROVE TypeOK'
<1> USE UninstallAssumption, RemovalOrder
<1>1. ASSUME NEW c \in Clients, OpenLock(c) PROVE TypeOK'
  BY <1>1 DEF OpenLock, TypeOK, Installs, Client, Idle
<1>2. ASSUME NEW c \in Clients, Pin(c) PROVE TypeOK'
  BY <1>2 DEF Pin, TypeOK, Installs, Client, Idle
<1>3. ASSUME NEW c \in Clients, OpenStore(c) PROVE TypeOK'
  <2>1. misled' \in BOOLEAN
    BY <1>3 DEF OpenStore, TypeOK
  <2>2. client' \in [Clients -> Client]
    BY <1>3 DEF OpenStore, TypeOK, Installs, Client, Idle
  <2> QED
    BY <1>3, <2>1, <2>2 DEF OpenStore, TypeOK, Names
<1>4. ASSUME NEW c \in Clients, CloseStore(c) PROVE TypeOK'
  BY <1>4 DEF CloseStore, LastCloses, TypeOK, Installs, Client, Idle
<1>5. ASSUME NEW c \in Clients, Die(c) PROVE TypeOK'
  BY <1>5 DEF Die, TypeOK, Installs, Client, Idle
<1>6. ASSUME NEW c \in Clients, Submit(c) PROVE TypeOK'
  <2>1. worker' \in Worker
    <3>1. CASE UNCHANGED worker
      BY <3>1 DEF TypeOK
    <3>2. CASE worker' = [at |-> "stopping", install |-> install, next |-> 1,
                          control |-> TRUE, end |-> "none"]
      BY <3>2 DEF TypeOK, Worker
    <3> QED
      BY <1>6, <3>1, <3>2 DEF Submit, NoWorker
  <2>2. files' \subseteq Names
    BY <1>6 DEF Submit, TypeOK, Names, Bulk
  <2> QED
    BY <1>6, <2>1, <2>2 DEF Submit, TypeOK
<1>7. ASSUME NEW c \in Clients, Poll(c) PROVE TypeOK'
  BY <1>7 DEF Poll, TypeOK, Names
<1>8. ASSUME NEW c \in Clients, InstallOver(c) PROVE TypeOK'
  BY <1>8 DEF InstallOver, TypeOK, Names, Bulk
<1>9. ASSUME NEW c \in Clients, FindEmpty(c) PROVE TypeOK'
  BY <1>9 DEF FindEmpty, TypeOK, Client
<1>10. ASSUME NEW c \in Clients, Rename(c) PROVE TypeOK'
  <2>1. client' \in [Clients -> Client]
    BY <1>10 DEF Rename, NewInstall, TypeOK, Client, Idle
  <2>2. install' \in Installs
    BY <1>10 DEF Rename, NewInstall, TypeOK, Installs, UninstallAssumption
  <2>3. files' \subseteq Names /\ row' \in {"none", "running", "failed", "interrupted"}
    BY <1>10 DEF Rename, NewInstall, TypeOK, Names
  <2> QED
    BY <1>10, <2>1, <2>2, <2>3 DEF Rename, NewInstall, TypeOK
<1>11. CASE StopPlatform
  BY <1>11 DEF StopPlatform, End, LastCloses, TypeOK, Worker
<1>12. CASE CloseOwn
  BY <1>12 DEF CloseOwn, LastCloses, TypeOK, Worker
<1>13. CASE TakeExclusive
  BY <1>13 DEF TakeExclusive, TypeOK, Worker
<1>14. CASE GiveUp
  BY <1>14 DEF GiveUp, End, TypeOK, Worker
<1>15. CASE Remove
  <2>1. worker' \in Worker
    <3>1. CASE worker' = [worker EXCEPT !.next = @ + 1,
                            !.control = @ /\ Removal[worker.next] # "control"]
      <4> DEFINE holds == worker.control /\ Removal[worker.next] # "control"
      <4>1. holds \in BOOLEAN
        OBVIOUS
      <4>2. worker.next + 1 \in 1..(Len(Removal) + 1)
        BY <1>15 DEF Remove, TypeOK, Worker
      <4>3. worker' = [worker EXCEPT !.next = worker.next + 1, !.control = holds]
        BY <3>1
      <4> HIDE DEF holds
      <4> QED
        BY <4>1, <4>2, <4>3 DEF TypeOK, Worker
    <3>2. CASE End("error")
      BY <3>2 DEF End, TypeOK, Worker
    <3> QED
      BY <1>15, <3>1, <3>2 DEF Remove
  <2> QED
    BY <1>15, <2>1 DEF Remove, TypeOK
<1>16. CASE RemoveRoot
  BY <1>16 DEF RemoveRoot, End, TypeOK, Worker
<1>17. CASE Kill
  BY <1>17 DEF Kill, End, TypeOK, Worker
<1>18. CASE UNCHANGED vars
  BY <1>18 DEF vars, TypeOK
<1> QED
  BY <1>1, <1>2, <1>3, <1>4, <1>5, <1>6, <1>7, <1>8, <1>9, <1>10, <1>11, <1>12, <1>13,
     <1>14, <1>15, <1>16, <1>17, <1>18 DEF Next, Step, Work

\* The state of the directory, the processes and the worker has its type.
THEOREM TypeCorrect == Spec => []TypeOK
<1> USE UninstallAssumption
<1>1. Init => TypeOK
  BY TypeInit
<1>2. TypeOK /\ [Next]_vars => TypeOK'
  BY TypeStep
<1> QED
  BY <1>1, <1>2, PTL DEF Spec

-----------------------------------------------------------------------------
(* The locks and the directory, whatever is installed after what.          *)

\* What the control points of the processes say of their other fields.
Shape ==
  /\ \A c \in Clients :
       /\ client[c].at \in {"opened", "pinned", "open"} => client[c].pin \in 1..install
       /\ client[c].at = "open" => client[c].db \in 1..install
  /\ Active => worker.install \in Installs
  /\ worker.install <= install
  /\ Active /\ ~Removing => worker.next = 1 /\ worker.control

\* state.lock is held exclusively or shared, never both.
Exclusion ==
  Removing => \A c \in Clients :
    client[c].at \in {"pinned", "open"} => client[c].pin # worker.install

\* Where the removal is, from what is in the directory, which stays the
\* worker's own until it is removed.
Place ==
  /\ "db" \in files => "state" \in files
  /\ Active =>
       /\ dir /\ worker.install = install
       /\ worker.next <= 8 => "state" \in files
       /\ worker.next > 6 => "db" \notin files

IInv == TypeOK /\ Shape /\ Exclusion /\ Place

\* The invariant holds at first.
LEMMA LocksInit == ASSUME UninstallAssumption, Init PROVE IInv
<1>1. TypeOK
  BY TypeInit
<1>2. Shape /\ Exclusion /\ Place
  BY DEF UninstallAssumption, Init, Shape, Exclusion, Place, Active, Removing, NoWorker, Idle,
    Names, Bulk
<1> QED
  BY <1>1, <1>2 DEF IInv

\* What Submit and Remove do to the worker, field by field.
LEMMA SubmitWorker ==
  ASSUME NEW c \in Clients, Submit(c)
  PROVE  \/ UNCHANGED worker
         \/ worker' = [at |-> "stopping", install |-> install, next |-> 1,
                       control |-> TRUE, end |-> "none"]
BY DEF Submit, NoWorker

\* What a step of the removal leaves to the worker.
LEMMA RemoveWorker ==
  ASSUME TypeOK, Remove
  PROVE  /\ worker.at = "removing" /\ worker.next \in 1..8
         /\ worker'.install = worker.install
         /\ \/ /\ files' = files \ {Removal[worker.next]}
               /\ worker'.at = "removing" /\ worker'.next = worker.next + 1
               /\ worker'.end = worker.end
            \/ /\ files' = files
               /\ worker'.at = "ended" /\ worker'.end = "error"
<1>1. worker.at = "removing" /\ worker.next \in 1..8
  BY RemovalOrder DEF Remove, Removing, TypeOK, Worker
<1>2. CASE /\ files' = files \ {Removal[worker.next]}
           /\ worker' = [worker EXCEPT !.next = @ + 1,
                            !.control = @ /\ Removal[worker.next] # "control"]
  <2> DEFINE holds == worker.control /\ Removal[worker.next] # "control"
  <2>1. worker' = [worker EXCEPT !.next = worker.next + 1, !.control = holds]
    BY <1>2
  <2> HIDE DEF holds
  <2> QED
    BY <1>1, <1>2, <2>1 DEF TypeOK, Worker
<1>3. CASE End("error") /\ UNCHANGED files
  BY <1>1, <1>3 DEF End, TypeOK, Worker
<1> QED
  BY <1>2, <1>3 DEF Remove

\* A step keeps the shape of the installation.
LEMMA ShapeStep == ASSUME UninstallAssumption, IInv, [Next]_vars PROVE Shape'
<1> USE RemovalOrder DEF UninstallAssumption, IInv, TypeOK, Installs, Client, Idle, Worker, Active, Removing, Shape
<1>1. ASSUME NEW c \in Clients, OpenLock(c) PROVE Shape'
  BY <1>1 DEF OpenLock
<1>2. ASSUME NEW c \in Clients, Pin(c) PROVE Shape'
  BY <1>2 DEF Pin
<1>3. ASSUME NEW c \in Clients, OpenStore(c) PROVE Shape'
  BY <1>3 DEF OpenStore
<1>4. ASSUME NEW c \in Clients, CloseStore(c) PROVE Shape'
  BY <1>4 DEF CloseStore, LastCloses
<1>5. ASSUME NEW c \in Clients, Die(c) PROVE Shape'
  BY <1>5 DEF Die
<1>6. ASSUME NEW c \in Clients, Submit(c) PROVE Shape'
  BY <1>6, SubmitWorker DEF Submit, CanLock
<1>7. ASSUME NEW c \in Clients, Poll(c) PROVE Shape'
  BY <1>7 DEF Poll
<1>8. ASSUME NEW c \in Clients, InstallOver(c) PROVE Shape'
  BY <1>8 DEF InstallOver
<1>9. ASSUME NEW c \in Clients, FindEmpty(c) PROVE Shape'
  BY <1>9 DEF FindEmpty
<1>10. ASSUME NEW c \in Clients, Rename(c) PROVE Shape'
  BY <1>10 DEF Rename, NewInstall
<1>11. CASE StopPlatform
  BY <1>11 DEF StopPlatform, LastCloses, End
<1>12. CASE CloseOwn
  BY <1>12 DEF CloseOwn, LastCloses
<1>13. CASE TakeExclusive
  BY <1>13 DEF TakeExclusive, Shared
<1>14. CASE GiveUp
  BY <1>14 DEF GiveUp, End
<1>15. CASE Remove
  BY <1>15, RemoveWorker DEF Remove
<1>16. CASE RemoveRoot
  BY <1>16 DEF RemoveRoot, End
<1>17. CASE Kill
  BY <1>17 DEF Kill, End
<1>18. CASE UNCHANGED vars
  BY <1>18 DEF vars
<1> QED
  BY <1>1, <1>2, <1>3, <1>4, <1>5, <1>6, <1>7, <1>8, <1>9, <1>10, <1>11, <1>12, <1>13, <1>14, <1>15, <1>16, <1>17, <1>18
     DEF Next, Step, Work

\* A step keeps the locks exclusive.
LEMMA ExclusionStep == ASSUME UninstallAssumption, IInv, [Next]_vars PROVE Exclusion'
<1> USE RemovalOrder DEF UninstallAssumption, IInv, TypeOK, Installs, Client, Idle, Worker, Active, Removing, Shape, Exclusion
<1>1. ASSUME NEW c \in Clients, OpenLock(c) PROVE Exclusion'
  BY <1>1 DEF OpenLock
<1>2. ASSUME NEW c \in Clients, Pin(c) PROVE Exclusion'
  BY <1>2 DEF Pin
<1>3. ASSUME NEW c \in Clients, OpenStore(c) PROVE Exclusion'
  BY <1>3 DEF OpenStore
<1>4. ASSUME NEW c \in Clients, CloseStore(c) PROVE Exclusion'
  BY <1>4 DEF CloseStore, LastCloses
<1>5. ASSUME NEW c \in Clients, Die(c) PROVE Exclusion'
  BY <1>5 DEF Die
<1>6. ASSUME NEW c \in Clients, Submit(c) PROVE Exclusion'
  BY <1>6, SubmitWorker DEF Submit, CanLock
<1>7. ASSUME NEW c \in Clients, Poll(c) PROVE Exclusion'
  BY <1>7 DEF Poll
<1>8. ASSUME NEW c \in Clients, InstallOver(c) PROVE Exclusion'
  BY <1>8 DEF InstallOver
<1>9. ASSUME NEW c \in Clients, FindEmpty(c) PROVE Exclusion'
  BY <1>9 DEF FindEmpty
<1>10. ASSUME NEW c \in Clients, Rename(c) PROVE Exclusion'
  BY <1>10 DEF Rename, NewInstall
<1>11. CASE StopPlatform
  BY <1>11 DEF StopPlatform, LastCloses, End
<1>12. CASE CloseOwn
  BY <1>12 DEF CloseOwn, LastCloses
<1>13. CASE TakeExclusive
  BY <1>13 DEF TakeExclusive, Shared
<1>14. CASE GiveUp
  BY <1>14 DEF GiveUp, End
<1>15. CASE Remove
  BY <1>15, RemoveWorker DEF Remove
<1>16. CASE RemoveRoot
  BY <1>16 DEF RemoveRoot, End
<1>17. CASE Kill
  BY <1>17 DEF Kill, End
<1>18. CASE UNCHANGED vars
  BY <1>18 DEF vars
<1> QED
  BY <1>1, <1>2, <1>3, <1>4, <1>5, <1>6, <1>7, <1>8, <1>9, <1>10, <1>11, <1>12, <1>13, <1>14, <1>15, <1>16, <1>17, <1>18
     DEF Next, Step, Work

\* A step keeps the place of each actor.
LEMMA PlaceStep == ASSUME UninstallAssumption, IInv, [Next]_vars PROVE Place'
<1> USE RemovalOrder DEF UninstallAssumption, IInv, TypeOK, Installs, Client, Idle, Worker, Active, Removing, Shape, Place
<1>1. ASSUME NEW c \in Clients, OpenLock(c) PROVE Place'
  BY <1>1 DEF OpenLock
<1>2. ASSUME NEW c \in Clients, Pin(c) PROVE Place'
  BY <1>2 DEF Pin
<1>3. ASSUME NEW c \in Clients, OpenStore(c) PROVE Place'
  BY <1>3 DEF OpenStore
<1>4. ASSUME NEW c \in Clients, CloseStore(c) PROVE Place'
  BY <1>4 DEF CloseStore, LastCloses
<1>5. ASSUME NEW c \in Clients, Die(c) PROVE Place'
  BY <1>5 DEF Die
<1>6. ASSUME NEW c \in Clients, Submit(c) PROVE Place'
  BY <1>6, SubmitWorker DEF Submit, CanLock
<1>7. ASSUME NEW c \in Clients, Poll(c) PROVE Place'
  BY <1>7 DEF Poll
<1>8. ASSUME NEW c \in Clients, InstallOver(c) PROVE Place'
  BY <1>8 DEF InstallOver
<1>9. ASSUME NEW c \in Clients, FindEmpty(c) PROVE Place'
  BY <1>9 DEF FindEmpty
<1>10. ASSUME NEW c \in Clients, Rename(c) PROVE Place'
  BY <1>10 DEF Rename, NewInstall
<1>11. CASE StopPlatform
  BY <1>11 DEF StopPlatform, LastCloses, End
<1>12. CASE CloseOwn
  BY <1>12 DEF CloseOwn, LastCloses
<1>13. CASE TakeExclusive
  BY <1>13 DEF TakeExclusive, Shared
<1>14. CASE GiveUp
  BY <1>14 DEF GiveUp, End
<1>15. CASE Remove
  BY <1>15, RemoveWorker DEF Remove
<1>16. CASE RemoveRoot
  BY <1>16 DEF RemoveRoot, End
<1>17. CASE Kill
  BY <1>17 DEF Kill, End
<1>18. CASE UNCHANGED vars
  BY <1>18 DEF vars
<1> QED
  BY <1>1, <1>2, <1>3, <1>4, <1>5, <1>6, <1>7, <1>8, <1>9, <1>10, <1>11, <1>12, <1>13, <1>14, <1>15, <1>16, <1>17, <1>18
     DEF Next, Step, Work

\* A step keeps the invariant.
LEMMA LocksStep == ASSUME UninstallAssumption, IInv, [Next]_vars PROVE IInv'
<1>1. TypeOK'
  BY TypeStep DEF IInv
<1> QED
  BY <1>1, ShapeStep, ExclusionStep, PlaceStep DEF IInv

\* IInv is inductive.
LEMMA Locks == Spec => []IInv
<1> USE UninstallAssumption
<1>1. Init => IInv
  BY LocksInit
<1>2. IInv /\ [Next]_vars => IInv'
  BY LocksStep
<1> QED
  BY <1>1, <1>2, PTL DEF Spec

\* The database of a process that pinned the installation it reads is never
\* removed under it, however many installations follow one another.
THEOREM PinsProtectReaders == Spec => []PinProtects
<1>1. IInv => PinProtects
  BY DEF IInv, Exclusion, PinProtects
<1> QED
  BY <1>1, Locks, PTL

\* Nobody installs into a directory that is still being removed.
THEOREM InstallsFollowRemovals == Spec => InstallsAfterRemoval
<1> DEFINE A == install' # install => ~Active
<1>1. ASSUME IInv, [Next]_vars PROVE [A]_vars
  <2> SUFFICES ASSUME install' # install PROVE ~Active
    OBVIOUS
  <2>1. PICK c \in Clients : Rename(c)
    BY <1>1 DEF Next, Step, Work, vars, OpenLock, Pin, OpenStore, CloseStore, Die, Submit,
      Poll, InstallOver, FindEmpty, StopPlatform, CloseOwn, TakeExclusive, GiveUp, Remove,
      RemoveRoot, Kill
  <2> QED
    BY <1>1, <2>1 DEF Rename, NewInstall, IInv, Place
<1>2. IInv /\ [Next]_vars => [A]_vars
  BY <1>1
<1>3. A <=> (install' # install => ~Active)
  OBVIOUS
<1> HIDE DEF A
<1>4. Spec => [][A]_vars
  BY <1>2, Locks, PTL DEF Spec
<1> QED
  BY <1>4 DEF InstallsAfterRemoval, A

-----------------------------------------------------------------------------
(* As long as no process has opened a database under an old state.lock.    *)

\* Every open database is the one in the root directory and is pinned by the
\* lock beside it, so a removal is alone, and what it has removed stays removed.
Alone ==
  /\ \A c \in Clients : client[c].at = "open" =>
       client[c].pin = install /\ client[c].db = install
  /\ "db" \notin files => \A c \in Clients : client[c].at # "open"
  /\ "db" \notin files => files \cap (Bulk \cup {"wal"}) = {}
  /\ ~dir => "db" \notin files
  /\ Removing => \A i \in 1..8 : i < worker.next => Removal[i] \notin files
  /\ worker.end = "removed" /\ worker.install = install => files = {}

\* A removal at work meets no open database.
LEMMA NobodyReads ==
  ASSUME IInv, Alone, Removing
  PROVE  \A c \in Clients : client[c].at # "open"
BY DEF IInv, Exclusion, Place, Alone, Active, Removing

\* It holds at first.
LEMMA AloneInit == ASSUME UninstallAssumption, Init PROVE Alone
BY DEF Init, Alone, Active, Removing, NoWorker, Idle, Names, Bulk

\* A whole removal leaves nothing.
LEMMA AllRemoved ==
  ASSUME TypeOK, \A i \in 1..8 : Removal[i] \notin files
  PROVE  files = {}
BY RemovalOrder DEF TypeOK, Names, Bulk

\* A step that misleads nobody keeps every removal alone.
LEMMA AloneStep ==
  ASSUME UninstallAssumption, ~misled', IInv, Alone, [Next]_vars
  PROVE  Alone'
<1> USE RemovalOrder, NobodyReads DEF Alone, Active, Removing, Idle
<1> TypeOK /\ Shape /\ Exclusion /\ Place
  BY DEF IInv
<1>1. ASSUME NEW c \in Clients, OpenLock(c) PROVE Alone'
  BY <1>1 DEF OpenLock, TypeOK, Client
<1>2. ASSUME NEW c \in Clients, Pin(c) PROVE Alone'
  BY <1>2 DEF Pin, TypeOK, Client
<1>3. ASSUME NEW c \in Clients, OpenStore(c) PROVE Alone'
  BY <1>3 DEF OpenStore, TypeOK, Client, Bulk, Exclusion, Place, Shape
<1>4. ASSUME NEW c \in Clients, CloseStore(c) PROVE Alone'
  BY <1>4 DEF CloseStore, LastCloses, TypeOK, Client
<1>5. ASSUME NEW c \in Clients, Die(c) PROVE Alone'
  BY <1>5 DEF Die, TypeOK, Client
<1>6. ASSUME NEW c \in Clients, Submit(c) PROVE Alone'
  BY <1>6, SubmitWorker DEF Submit, CanLock, TypeOK, Bulk
<1>7. ASSUME NEW c \in Clients, Poll(c) PROVE Alone'
  BY <1>7 DEF Poll, TypeOK
<1>8. ASSUME NEW c \in Clients, InstallOver(c) PROVE Alone'
  BY <1>8 DEF InstallOver, TypeOK, Bulk
<1>9. ASSUME NEW c \in Clients, FindEmpty(c) PROVE Alone'
  BY <1>9 DEF FindEmpty, TypeOK, Client
<1>10. ASSUME NEW c \in Clients, Rename(c) PROVE Alone'
  BY <1>10 DEF Rename, NewInstall, TypeOK, Client, Shape, Place, Installs
<1>11. CASE StopPlatform
  BY <1>11 DEF StopPlatform, LastCloses, End, TypeOK, Worker
<1>12. CASE CloseOwn
  BY <1>12 DEF CloseOwn, LastCloses, TypeOK
<1>13. CASE TakeExclusive
  BY <1>13 DEF TakeExclusive, Shared, TypeOK, Worker, Shape
<1>14. CASE GiveUp
  BY <1>14 DEF GiveUp, End, TypeOK
<1>15. CASE Remove
  BY <1>15, RemoveWorker DEF Remove, TypeOK, Bulk, Worker
<1>16. CASE RemoveRoot
  BY <1>16, AllRemoved DEF RemoveRoot, End, TypeOK, Bulk, Worker
<1>17. CASE Kill
  BY <1>17 DEF Kill, End, TypeOK
<1>18. CASE UNCHANGED vars
  BY <1>18 DEF vars, TypeOK
<1> QED
  BY <1>1, <1>2, <1>3, <1>4, <1>5, <1>6, <1>7, <1>8, <1>9, <1>10, <1>11, <1>12, <1>13, <1>14, <1>15, <1>16, <1>17, <1>18
     DEF Next, Step, Work

AloneUnlessMisled == ~misled => Alone

\* A process that was misled stays on record.
LEMMA MisledStays ==
  ASSUME [Next]_vars, ~misled' PROVE ~misled
BY DEF Next, Step, Work, vars, OpenLock, Pin, OpenStore, CloseStore, Die, Submit, Poll,
  InstallOver, FindEmpty, Rename, NewInstall, StopPlatform, CloseOwn, TakeExclusive, GiveUp,
  Remove, RemoveRoot, Kill

\* The invariant, with the removals alone.
LEMMA AloneAlways == Spec => [](IInv /\ AloneUnlessMisled)
<1> USE UninstallAssumption
<1>1. Init => IInv /\ AloneUnlessMisled
  BY LocksInit, AloneInit DEF AloneUnlessMisled
<1>2. (IInv /\ AloneUnlessMisled) /\ [Next]_vars => (IInv /\ AloneUnlessMisled)'
  <2> SUFFICES ASSUME IInv, AloneUnlessMisled, [Next]_vars PROVE IInv' /\ AloneUnlessMisled'
    OBVIOUS
  <2>1. IInv'
    BY LocksStep
  <2>2. ASSUME ~misled' PROVE Alone'
    BY <2>2, MisledStays, AloneStep DEF AloneUnlessMisled
  <2> QED
    BY <2>1, <2>2 DEF AloneUnlessMisled
<1> QED
  BY <1>1, <1>2, PTL DEF Spec

\* A removal, of whichever installation, waits for every process that has the
\* database open, unless a process opened a database under the state.lock of an
\* earlier installation: that is the only way to get past it.
THEOREM RemovalWaitsForReaders == Spec => [](~misled => RemovalWaits)
<1>1. IInv /\ AloneUnlessMisled => (~misled => RemovalWaits)
  BY NobodyReads DEF AloneUnlessMisled, RemovalWaits
<1> QED
  BY <1>1, AloneAlways, PTL

\* Installations are only counted up.
LEMMA FirstStaysFirst ==
  ASSUME IInv, [Next]_vars, install' = 1 PROVE install = 1
<1>1. CASE install' = install
  BY <1>1
<1>2. CASE install' # install
  <2>1. PICK c \in Clients : Rename(c)
    BY <1>2 DEF Next, Step, Work, vars, OpenLock, Pin, OpenStore, CloseStore, Die, Submit,
      Poll, InstallOver, FindEmpty, StopPlatform, CloseOwn, TakeExclusive, GiveUp, Remove,
      RemoveRoot, Kill
  <2>2. install' = install + 1 /\ install \in Nat \ {0}
    BY <1>2, <2>1 DEF Rename, NewInstall, IInv, TypeOK, Installs
  <2> QED
    BY <2>2
<1> QED
  BY <1>1, <1>2

\* Nobody is misled before a second installation is made in the same place.
THEOREM FirstInstallationMisleadsNobody == Spec => [](install = 1 => ~misled)
<1> DEFINE First == install = 1 => ~misled
<1>1. Init => First
  BY DEF Init
<1>2. IInv /\ First /\ [Next]_vars => First'
  <2> SUFFICES ASSUME IInv, First, [Next]_vars, install' = 1 PROVE ~misled'
    OBVIOUS
  <2>1. install = 1
    BY FirstStaysFirst
  <2>2. ASSUME NEW c \in Clients, OpenStore(c) PROVE ~misled'
    <3>1. client[c].pin = 1
      BY <2>1, <2>2 DEF OpenStore, IInv, Shape
    <3> QED
      BY <2>1, <2>2, <3>1 DEF OpenStore
  <2> QED
    BY <2>1, <2>2 DEF Next, Step, Work, vars, OpenLock, Pin, CloseStore, Die, Submit, Poll,
      InstallOver, FindEmpty, Rename, NewInstall, StopPlatform, CloseOwn, TakeExclusive, GiveUp,
      Remove, RemoveRoot, Kill
<1> HIDE DEF First
<1>3. Spec => []First
  BY <1>1, <1>2, Locks, PTL DEF Spec
<1> QED
  BY <1>3 DEF First

\* The record, and the lock that opening it needs, are the last to go,
\* whatever failed or was retried before.
THEOREM TheRecordOutlivesTheBulk == Spec => []RecordOutlivesBulk
<1>1. IInv /\ AloneUnlessMisled => RecordOutlivesBulk
  BY DEF IInv, Place, Alone, AloneUnlessMisled, RecordOutlivesBulk
<1> QED
  BY <1>1, AloneAlways, PTL

\* A completed removal leaves nothing, and nothing comes back until a new
\* installation is made.
THEOREM NothingIsLeft == Spec => []NothingLeft
<1>1. ASSUME IInv, AloneUnlessMisled PROVE NothingLeft
  <2> SUFFICES ASSUME ~misled PROVE NothingLeft
    BY DEF NothingLeft
  <2> Alone
    BY <1>1 DEF AloneUnlessMisled
  <2>1. CASE Removing /\ worker.next > Len(Removal)
    <3>1. worker.next = 9
      BY <1>1, <2>1, RemovalOrder DEF IInv, TypeOK, Worker
    <3>2. \A i \in 1..8 : Removal[i] \notin files
      BY <2>1, <3>1 DEF Alone
    <3> QED
      BY <3>2, <1>1, AllRemoved DEF NothingLeft, IInv
  <2>2. CASE worker.end = "removed"
    BY <2>2 DEF Alone, NothingLeft
  <2> QED
    BY <2>1, <2>2 DEF NothingLeft
<1>2. IInv /\ AloneUnlessMisled => NothingLeft
  BY <1>1
<1> QED
  BY <1>2, AloneAlways, PTL

\* Record and lock outlive everything else, and then nothing is left.
THEOREM TheRecordOutlivesAll == Spec => []RecordOutlivesAll
BY TheRecordOutlivesTheBulk, NothingIsLeft, PTL DEF RecordOutlivesAll

\* Polling never takes a removal at work for an interrupted one.
THEOREM OnlyTheDeadAreInterrupted == Spec => InterruptsTheDeadOnly
<1> DEFINE A == ~misled /\ row = "running" /\ row' = "interrupted" => ~Active
<1>1. ASSUME IInv, AloneUnlessMisled, [Next]_vars PROVE [A]_vars
  <2> SUFFICES ASSUME ~misled, row = "running", row' = "interrupted" PROVE ~Active
    OBVIOUS
  <2>1. PICK c \in Clients : Poll(c)
    BY <1>1 DEF Next, Step, Work, vars, OpenLock, Pin, OpenStore, CloseStore, Die, Submit,
      InstallOver, FindEmpty, Rename, NewInstall, StopPlatform, CloseOwn, TakeExclusive, GiveUp, Remove,
      RemoveRoot, Kill
  <2>2. ~worker.control /\ client[c].at = "open"
    BY <2>1 DEF Poll, CanLock
  <2>3. Active => Removing
    BY <1>1, <2>2 DEF IInv, Shape
  <2> QED
    BY <1>1, <2>2, <2>3, NobodyReads DEF AloneUnlessMisled
<1>2. IInv /\ AloneUnlessMisled /\ [Next]_vars => [A]_vars
  BY <1>1
<1>3. A <=> (~misled /\ row = "running" /\ row' = "interrupted" => ~Active)
  OBVIOUS
<1> HIDE DEF A
<1>4. Spec => [][A]_vars
  BY <1>2, AloneAlways, PTL DEF Spec
<1> QED
  BY <1>4 DEF InterruptsTheDeadOnly, A
=============================================================================
