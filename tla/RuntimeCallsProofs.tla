-------------------------- MODULE RuntimeCallsProofs --------------------------
(***************************************************************************)
(* Why ConfigTransaction may take a whole call of an adapter for one step: *)
(* what a call that is not a start leaves, compared with what it found, is *)
(* a step of RuntimePromise, however many steps it took and whatever the   *)
(* processes did meanwhile.  Two history variables keep what it found.     *)
(***************************************************************************)
EXTENDS RuntimeCalls, TLAPS

VARIABLES
  live0, kept0   \* live and kept when the last call began

\* The step that begins a call notes what it finds.
Noted ==
  IF call = "none" /\ call' # "none"
  THEN live0' = live /\ kept0' = kept
  ELSE UNCHANGED <<live0, kept0>>

History == Init /\ live0 = live /\ kept0 = kept
NotedSpec == History /\ [][Next /\ Noted]_<<calls, live0, kept0>>

Whole == INSTANCE RuntimePromise WITH live <- live0, kept <- kept0

\* What the call has left by now: live and kept are not the ones it began with
\* unless these allow them.
SoFar == (live => Whole!Up) /\ (kept => kept0)

\* While a stop is at work, nothing runs and nothing is kept that was not before.
LEMMA StopSoFar == NotedSpec => [](call = "stop" => SoFar)
<1>1. History => (call = "stop" => SoFar)
  BY DEF History, Init
<1>2. (call = "stop" => SoFar) /\ [Next /\ Noted]_<<calls, live0, kept0>>
      => (call = "stop" => SoFar)'
  BY DEF Next, Noted, Begin, Run, End, Reboot, Drift, Up, Kinds, calls, SoFar, Whole!Up
<1> QED
  BY <1>1, <1>2, PTL DEF NotedSpec

\* A stop as a whole, from its begin to its end, is a drift of the runtime, and
\* leaves it stopped when it says so: the steps StopFailed and Stopped of
\* ConfigTransaction.
THEOREM StopIsOneStep ==
  NotedSpec => [][\A all \in BOOLEAN : call = "stop" /\ End(all) =>
                     /\ live' => Whole!Up
                     /\ kept' => kept0
                     /\ all => Stopped]_<<calls, live0, kept0>>
<1>1. (call = "stop" => SoFar) =>
        [\A all \in BOOLEAN : call = "stop" /\ End(all) =>
            /\ live' => Whole!Up
            /\ kept' => kept0
            /\ all => Stopped]_<<calls, live0, kept0>>
  BY DEF SoFar, End, Drift, Up, Whole!Up
<1> QED
  BY <1>1, StopSoFar, PTL DEF NotedSpec

\* Between calls a stopped runtime stays stopped, until the device restarts or a
\* call begins: Manager need not look again.
THEOREM StoppedIsDown == NotedSpec => [](stopped => ~Up /\ call = "none")
<1>1. History => (stopped => ~Up /\ call = "none")
  BY DEF History, Init
<1>2. (stopped => ~Up /\ call = "none") /\ [Next /\ Noted]_<<calls, live0, kept0>>
      => (stopped => ~Up /\ call = "none")'
  <2> SUFFICES ASSUME stopped => ~Up /\ call = "none", [Next]_calls
               PROVE  stopped' => ~Up' /\ call' = "none"
    BY DEF calls, Noted
  <2>1. ASSUME NEW c \in Kinds, Begin(c) PROVE ~stopped'
    BY <2>1 DEF Begin
  <2>2. CASE Run
    BY <2>2 DEF Run, Up
  <2>3. ASSUME NEW all \in BOOLEAN, End(all) PROVE stopped' => ~Up' /\ call' = "none"
    BY <2>3 DEF End, Stopped
  <2>4. CASE Reboot
    BY <2>4 DEF Reboot
  <2>5. CASE UNCHANGED calls
    BY <2>5 DEF calls, Up
  <2> QED
    BY <2>1, <2>2, <2>3, <2>4, <2>5 DEF Next
<1> QED
  BY <1>1, <1>2, PTL DEF NotedSpec
=============================================================================
