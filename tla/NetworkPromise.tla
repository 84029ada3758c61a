---------------------------- MODULE NetworkPromise ----------------------------
(***************************************************************************)
(* What network_ufi.sh promises the process that runs it, as far as the    *)
(* supervisor depends on it: NetworkRules implements this module, and      *)
(* Supervisor is built on it.                                              *)
(*                                                                         *)
(* clean      nothing of ours in the kernel, and no network.owned          *)
(* dirty      network.owned, and otherwise no promise                      *)
(* guarded    the rules that network.active names protect the listeners    *)
(* capturing  so they do, and the traffic of some interface is captured    *)
(***************************************************************************)

VARIABLES
  net,      \* one of these four
  script,   \* the action that runs, or "none"
  last      \* how the last one ended

promise == <<net, script, last>>

Scripts == {"check", "prepare", "sync", "stop"}
Held    == {"guarded", "capturing"}
Levels  == {"clean", "dirty"} \cup Held

PromiseOK ==
  /\ net \in Levels
  /\ script \in Scripts \cup {"none"}
  /\ last \in {"none", "ok", "fail"}

Init == net = "clean" /\ script = "none" /\ last = "none"

\* What one step of a script may make of the rules.  Guards that are up stay
\* up but for a stop or a check, which only take away; a check also claims.
May(a, n) ==
  IF a \in {"stop", "check"}
  THEN CASE n = "capturing" -> Levels
         [] n = "guarded"   -> Levels \ {"capturing"}
         [] OTHER           -> IF a = "check" THEN {"clean", "dirty"} ELSE {"clean", n}
  ELSE IF n \in Held THEN Held ELSE Levels

\* What a script that succeeds leaves.
Good(a) ==
  CASE a \in {"stop", "check"} -> {"clean"}
    [] a = "prepare"           -> {"guarded"}
    [] a = "sync"              -> Levels

Begin(a) ==
  /\ script = "none"
  /\ script' = a
  /\ last' = "none"
  /\ UNCHANGED net

Work ==
  /\ script # "none"
  /\ net' \in May(script, net)
  /\ UNCHANGED <<script, last>>

\* The last step of a script and its answer; "fail" stands for an error, the
\* time limit and a signal.
End(r) ==
  /\ script # "none"
  /\ net' \in May(script, net)
  /\ r = "ok" => net' \in Good(script)
  /\ script' = "none"
  /\ last' = r

\* The kernel forgets, the files stay.
Reboot ==
  /\ script = "none"
  /\ net' = IF net = "clean" THEN "clean" ELSE "dirty"
  /\ last' = "fail"
  /\ UNCHANGED script

Next ==
  \/ \E a \in Scripts : Begin(a)
  \/ Work
  \/ \E r \in {"ok", "fail"} : End(r)
  \/ Reboot

Spec == Init /\ [][Next]_promise
=============================================================================
