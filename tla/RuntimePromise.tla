---------------------------- MODULE RuntimePromise ----------------------------
(***************************************************************************)
(* What the runtime does with the proxy core between the calls of its      *)
(* adapter (internal/platform): ConfigTransaction is built on it, and      *)
(* RuntimeCalls states it for the adapters themselves.                     *)
(***************************************************************************)

VARIABLES
  live,   \* a core runs, and somebody knows of it
  kept    \* a supervisor, an active unit or a queued start would bring one up

\* State.Running.
Up == live \/ kept

\* By itself a core comes up only where something keeps it, and nothing begins
\* to keep it.
Drift == (live' => Up) /\ (kept' => kept)

\* What a successful stop leaves.
Stopped == ~Up'
=============================================================================
