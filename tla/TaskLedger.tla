----------------------------- MODULE TaskLedger -----------------------------
(***************************************************************************)
(* What the task system promises to whoever submits, polls and cancels:    *)
(* one task at a time, a cancel that excludes the change, one outcome per  *)
(* task.  TaskLifecycle implements it.                                     *)
(***************************************************************************)
CONSTANTS
  Tasks,        \* task ids
  Cancellable   \* tasks that can be cancelled before they commit

VARIABLES
  status,   \* what a reader may conclude about each task
  changed   \* tasks that have changed the device

ledger == <<status, changed>>

\* open: accepted, may be cancelled; cancelling: a cancel was acknowledged;
\* committed: no cancel is accepted any more.
InProgress == {"open", "cancelling", "committed"}

Init ==
  /\ status = [t \in Tasks |-> "absent"]
  /\ changed = {}

\* Accepting a task interrupts one that was left unfinished.
Accept(t) ==
  /\ status[t] = "absent"
  /\ status' = [u \in Tasks |->
       IF u = t THEN IF t \in Cancellable THEN "open" ELSE "committed"
       ELSE IF status[u] \in InProgress THEN "interrupted" ELSE status[u]]
  /\ UNCHANGED changed

Cancel(t) ==
  /\ status[t] = "open"
  /\ status' = [status EXCEPT ![t] = "cancelling"]
  /\ UNCHANGED changed

Commit(t) ==
  /\ status[t] = "open"
  /\ status' = [status EXCEPT ![t] = "committed"]
  /\ UNCHANGED changed

\* Only a committed task changes the device.
Change(t) ==
  /\ status[t] = "committed"
  /\ changed' = changed \cup {t}
  /\ UNCHANGED status

Conclude(t) ==
  /\ \/ status[t] \in InProgress /\ \E s \in {"failed", "interrupted"} :
          status' = [status EXCEPT ![t] = s]
     \/ status[t] = "cancelling" /\ status' = [status EXCEPT ![t] = "cancelled"]
     \/ status[t] = "committed" /\ status' = [status EXCEPT ![t] = "succeeded"]
  /\ UNCHANGED changed

Next == \E t \in Tasks :
  Accept(t) \/ Cancel(t) \/ Commit(t) \/ Change(t) \/ Conclude(t)

Spec == Init /\ [][Next]_ledger
=============================================================================
