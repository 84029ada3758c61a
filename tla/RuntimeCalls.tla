----------------------------- MODULE RuntimeCalls -----------------------------
(***************************************************************************)
(* What an adapter promises Manager, whose control.lock lets one call run  *)
(* at a time: only a call makes the runtime keep a core, and a call that   *)
(* ends with everything stopped leaves nothing that brings one up.         *)
(* Supervisor and SystemdUnit implement this module.                       *)
(***************************************************************************)
EXTENDS RuntimePromise

VARIABLES
  call,      \* what the call that runs asks for, or "none"
  stopped    \* the last call has ended with everything stopped

calls == <<live, kept, call, stopped>>

\* "other": boot settings, files and removal.
Kinds == {"start", "stop", "other"}

Init == live = FALSE /\ kept = FALSE /\ call = "none" /\ stopped = FALSE

Begin(c) ==
  /\ call = "none"
  /\ call' = c
  /\ stopped' = FALSE
  /\ Drift

\* Only a start, and what changes the unit's files, may make the runtime keep a
\* core: a stop never does, nor does a runtime that nobody calls.
Run ==
  /\ live' => Up
  /\ kept' => kept \/ call \in {"start", "other"}
  /\ UNCHANGED <<call, stopped>>

\* The call returns, or its process dies.
End(all) ==
  /\ call # "none"
  /\ call' = "none"
  /\ stopped' = all
  /\ Drift
  /\ all => Stopped

\* The device restarts, and may start the proxy.
Reboot ==
  /\ live' \in BOOLEAN /\ kept' \in BOOLEAN
  /\ call' = "none"
  /\ stopped' = FALSE

Next ==
  \/ \E c \in Kinds : Begin(c)
  \/ Run
  \/ \E all \in BOOLEAN : End(all)
  \/ Reboot

Spec == Init /\ [][Next]_calls
=============================================================================
