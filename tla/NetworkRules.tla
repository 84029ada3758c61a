----------------------------- MODULE NetworkRules -----------------------------
(***************************************************************************)
(* The network rules of the UFI platform: internal/platform/               *)
(* network_ufi.sh, run by UFIAdapter.network (ufi.go) under network.lock,  *)
(* so that one script runs at a time, whoever started it.                  *)
(*                                                                         *)
(* A group is a chain hooked into a built-in chain of one table.  Its      *)
(* wrapper jumps to one of two slots; a new rule set is built in the slot  *)
(* that is not in use and the wrappers are switched over one by one.  Each *)
(* command may fail, the script may be killed between any two, and a       *)
(* reboot leaves the files without the rules.                              *)
(***************************************************************************)
EXTENDS Naturals

CONSTANTS
  Guards,      \* groups that protect: INPUT and IPv6 FORWARD
  Captures,    \* groups that capture traffic: DNS and TPROXY
  Interfaces,  \* interfaces of the device
  MaxAddr      \* bound: sets of local addresses 1..MaxAddr

ASSUME NetworkAssumption ==
  MaxAddr \in Nat /\ Guards # {} /\ Guards \cap Captures = {}

VARIABLES
  hook,      \* group -> the built-in chain jumps to the wrapper
  wrap,      \* group -> the wrapper: absent, empty, or the slot it jumps to
  chain,     \* group -> slot -> the chain of that slot: "partial" while it is built,
             \*   "empty" when a stop has flushed it and not yet deleted it
  built,     \* slot -> what its rules were written for, NoNet without rules
  route,     \* the local route in our table
  rule,      \* the policy rule of our mark
  owned,     \* network.owned exists
  pending,   \* network.pending exists
  active,    \* network.active: a slot and what it was written for
  now,       \* shared interfaces and local addresses, as the system has them
  act,       \* the action of the script
  at,        \* its control point
  sel,       \* selected and local_addresses
  goal,      \* what a switch of the wrappers is for
  then,      \* what follows a stop or the end of a pending switch
  todo,      \* groups the current loop has still to do
  grp,       \* the one it is doing
  result     \* how the last script ended

packets == <<hook, wrap, chain, built>>
routing == <<route, rule>>
files   == <<owned, pending, active>>
loop    == <<todo, grp>>
task    == <<act, sel, goal, then>>
vars    == <<packets, routing, files, now, task, at, loop, result>>

Groups == Guards \cup Captures
Slots  == {"A", "B"}
Net    == [lan : SUBSET Interfaces, addr : 0..MaxAddr]
NoNet  == [lan |-> {}, addr |-> 0]
NoGroup == "none"

\* The control points of network_stop, and those of network_start.
Stopping == {"stop", "unhook", "flush", "drop", "unrule", "unroute", "forget", "settle",
             "disown"}
Starting == {"start", "claim", "routes", "rules", "build", "fill", "pend", "jump",
             "entry", "hooking", "commit", "unpend"}

\* Nothing in the kernel is ours.
Clean ==
  /\ \A g \in Groups : ~hook[g] /\ wrap[g] = "absent"
  /\ \A g \in Groups, s \in Slots : chain[g][s] = "absent"
  /\ ~route /\ ~rule

\* The types of the variables.
TypeOK ==
  /\ hook \in [Groups -> BOOLEAN]
  /\ wrap \in [Groups -> {"absent", "empty"} \cup Slots]
  /\ chain \in [Groups -> [Slots -> {"absent", "empty", "partial", "full"}]]
  /\ built \in [Slots -> Net]
  /\ route \in BOOLEAN /\ rule \in BOOLEAN
  /\ owned \in BOOLEAN /\ pending \in BOOLEAN
  /\ active \in [slot : {"none"} \cup Slots, net : Net]
  /\ now \in Net /\ sel \in Net
  /\ act \in {"none", "check", "prepare", "sync", "stop"}
  /\ at \in {"idle", "sync", "pause"} \cup Stopping \cup Starting
  /\ goal \in {"new", "old", "undo"}
  /\ then \in {"ok", "fail", "claim", "unpend", "compare"}
  /\ todo \subseteq Groups
  /\ grp \in Groups \cup {NoGroup}
  /\ result \in {"none", "ok", "fail"}

Init ==
  /\ hook = [g \in Groups |-> FALSE]
  /\ wrap = [g \in Groups |-> "absent"]
  /\ chain = [g \in Groups |-> [s \in Slots |-> "absent"]]
  /\ built = [s \in Slots |-> NoNet]
  /\ route = FALSE /\ rule = FALSE
  /\ owned = FALSE /\ pending = FALSE
  /\ active = [slot |-> "none", net |-> NoNet]
  /\ now \in [lan : SUBSET Interfaces, addr : 1..MaxAddr]
  /\ act = "none" /\ at = "idle" /\ sel = NoNet /\ goal = "new" /\ then = "ok"
  /\ todo = {} /\ grp = NoGroup
  /\ result = "none"

NextSlot == IF active.slot = "A" THEN "B" ELSE "A"
Target   == IF goal = "new" THEN NextSlot ELSE active.slot

\* The jumps of the slot that network.active names are in place; nothing looks
\* into its chains.
InForce ==
  /\ active.slot \in Slots
  /\ \A g \in Groups : hook[g] /\ wrap[g] = active.slot
  /\ route /\ rule

\* network_ok.
NetworkOK == InForce /\ ~pending

-----------------------------------------------------------------------------
(* The frame of the script.                                                *)

Goto(pc) == at' = pc /\ UNCHANGED <<task, result>>

\* What the script was about matters only when it has succeeded; "fail" stands
\* for an error, the time limit and a signal.
End(r) ==
  /\ at' = "idle" /\ goal' = "new" /\ then' = "ok"
  /\ result' = r
  /\ IF r = "ok" THEN UNCHANGED <<act, sel>> ELSE act' = "none" /\ sel' = NoNet

\* A loop that is left before its end.
Break == todo' = {} /\ grp' = NoGroup

\* network_stop, and what its caller does after it.
Stop(t) == at' = "stop" /\ then' = t /\ UNCHANGED <<act, sel, goal, result>>

\* switch_slot to Target.
Switch(for) ==
  /\ at' = "jump" /\ goal' = for
  /\ todo' = Groups /\ grp' = NoGroup
  /\ UNCHANGED <<act, sel, then, result>>

\* A script starts with network.lock.
Begin(a) ==
  /\ at = "idle"
  /\ act' = a
  /\ at' = CASE a = "sync" -> "sync" [] a = "prepare" -> "start" [] OTHER -> "stop"
  /\ then' = IF a = "check" THEN "claim" ELSE "ok"
  /\ sel' = NoNet /\ goal' = "new"
  /\ todo' = {} /\ grp' = NoGroup
  /\ result' = "none"
  /\ UNCHANGED <<packets, routing, files, now>>

-----------------------------------------------------------------------------
(* network_stop.                                                           *)

\* Captures before guards.
StopNext == IF todo \cap Captures # {} THEN todo \cap Captures ELSE todo

Stopped == IF then \in {"claim", "unpend"} THEN Goto(then) ELSE End(then)

StopBegin ==
  /\ at = "stop"
  /\ IF owned THEN Goto("unhook") /\ todo' = Groups /\ grp' = NoGroup
     ELSE Stopped /\ UNCHANGED loop
  /\ UNCHANGED <<packets, routing, files, now>>

\* Mutant: the mark goes with the first hook.
UnhookForgets ==
  /\ at = "unhook" /\ todo # {}
  /\ \E g \in StopNext :
       /\ hook' = [hook EXCEPT ![g] = FALSE]
       /\ grp' = g /\ todo' = todo \ {g}
  /\ owned' = FALSE
  /\ Goto("flush")
  /\ UNCHANGED <<wrap, chain, built, routing, pending, active, now>>

Unhook ==
  /\ at = "unhook" /\ todo # {}
  /\ \E g \in StopNext :
       /\ hook' = [hook EXCEPT ![g] = FALSE]
       /\ grp' = g /\ todo' = todo \ {g}
  /\ Goto("flush")
  /\ UNCHANGED <<wrap, chain, built, routing, files, now>>

Flush ==
  /\ at = "flush"
  /\ wrap' = [wrap EXCEPT ![grp] = IF @ = "absent" THEN @ ELSE "empty"]
  /\ Goto("drop")
  /\ UNCHANGED <<hook, chain, built, routing, files, now, loop>>

\* The chains of the two slots, then the wrapper.  A chain is flushed by one
\* command and deleted by the next; the wrapper has been flushed before.
Drop ==
  /\ at = "drop"
  /\ \/ \E s \in Slots :
          /\ chain[grp][s] # "absent"
          /\ s = "B" => chain[grp]["A"] = "absent"
          /\ chain' = [chain EXCEPT ![grp][s] = IF @ = "empty" THEN "absent" ELSE "empty"]
          /\ Goto("drop") /\ UNCHANGED <<wrap, built>>
     \/ /\ \A s \in Slots : chain[grp][s] = "absent"
        /\ wrap' = [wrap EXCEPT ![grp] = "absent"]
        /\ built' = IF todo = {} THEN [s \in Slots |-> NoNet] ELSE built
        /\ Goto(IF todo = {} THEN "unrule" ELSE "unhook")
        /\ UNCHANGED chain
  /\ UNCHANGED <<hook, routing, files, now, loop>>

Unrule ==
  /\ at = "unrule"
  /\ rule' = FALSE
  /\ Goto("unroute")
  /\ UNCHANGED <<packets, route, files, now, loop>>

Unroute ==
  /\ at = "unroute"
  /\ route' = FALSE
  /\ Goto("forget")
  /\ UNCHANGED <<packets, rule, files, now, loop>>

\* The files go one by one, the mark last.
Forget ==
  /\ at = "forget"
  /\ active' = [slot |-> "none", net |-> NoNet]
  /\ Goto("settle")
  /\ UNCHANGED <<packets, routing, owned, pending, now, loop>>

Settle ==
  /\ at = "settle"
  /\ pending' = FALSE
  /\ Goto("disown")
  /\ UNCHANGED <<packets, routing, owned, active, now, loop>>

Disown ==
  /\ at = "disown"
  /\ owned' = FALSE
  /\ Stopped
  /\ UNCHANGED <<packets, routing, pending, active, now, loop>>

-----------------------------------------------------------------------------
(* network_start, and network_check, which only builds.                    *)

\* Mutant: an interrupted switch is not looked at.
StartForgetful ==
  /\ at = "start"
  /\ sel' = IF act = "prepare" THEN [now EXCEPT !.lan = {}] ELSE now
  /\ at' = "claim"
  /\ UNCHANGED <<packets, routing, files, now, act, goal, then, loop, result>>

\* Mutant: what an interrupted switch has left is taken away.
StartStops ==
  /\ at = "start"
  /\ sel' = IF act = "prepare" THEN [now EXCEPT !.lan = {}] ELSE now
  /\ at' = IF pending THEN "stop" ELSE "claim"
  /\ then' = "unpend"
  /\ IF at' = "claim" THEN UNCHANGED goal ELSE goal' = "old"
  /\ todo' = Groups /\ grp' = NoGroup
  /\ UNCHANGED <<packets, routing, files, now, act, result>>

\* Interfaces and addresses are read again.  A switch that was interrupted is
\* undone first.
Start ==
  /\ at = "start"
  /\ sel' = IF act = "prepare" THEN [now EXCEPT !.lan = {}] ELSE now
  /\ at' = IF ~pending THEN "claim" ELSE IF active.slot \in Slots THEN "jump" ELSE "stop"
  /\ then' = "unpend"
  /\ IF at' = "claim" THEN UNCHANGED goal ELSE goal' = "old"
  /\ todo' = Groups /\ grp' = NoGroup
  /\ UNCHANGED <<packets, routing, files, now, act, result>>

\* claim_network: without the mark, nothing that looks like ours may exist.
\* A check builds for "lo", which is not one of Interfaces.
Claim ==
  /\ at = "claim"
  /\ owned \/ Clean
  /\ owned' = TRUE
  /\ IF act = "check" THEN at' = "build" /\ sel' = [now EXCEPT !.lan = {}]
     ELSE at' = "routes" /\ UNCHANGED sel
  /\ todo' = Groups /\ grp' = NoGroup
  /\ UNCHANGED <<packets, routing, pending, active, now, act, goal, then, result>>

AddRoute ==
  /\ at = "routes"
  /\ route' = TRUE
  /\ Goto("rules")
  /\ UNCHANGED <<packets, rule, files, now, loop>>

AddRule ==
  /\ at = "rules"
  /\ rule' = TRUE
  /\ Goto("build")
  /\ UNCHANGED <<packets, route, files, now, loop>>

\* build_slot flushes or makes the chain of each group ...
Build ==
  /\ at = "build" /\ todo # {}
  /\ \E g \in todo :
       /\ chain' = [chain EXCEPT ![g][NextSlot] = "partial"]
       /\ todo' = todo \ {g}
  /\ built' = [built EXCEPT ![NextSlot] = NoNet]
  /\ grp' = NoGroup
  /\ Goto(IF todo' = {} THEN "fill" ELSE "build")
  /\ UNCHANGED <<hook, wrap, routing, files, now>>

\* ... and then adds the rules, whose order does not matter here.
Fill ==
  /\ at = "fill"
  /\ chain' = [g \in Groups |-> [chain[g] EXCEPT ![NextSlot] = "full"]]
  /\ built' = [built EXCEPT ![NextSlot] = sel]
  /\ IF act = "check" THEN Stop("ok") ELSE Goto("pend")
  /\ UNCHANGED <<hook, wrap, routing, files, now, loop>>

\* Mutant: nothing says that a switch has begun.
PendSkipped ==
  /\ at = "pend"
  /\ Switch("new")
  /\ UNCHANGED <<packets, routing, owned, pending, active, now>>

Pend ==
  /\ at = "pend"
  /\ pending' = TRUE
  /\ Switch("new")
  /\ UNCHANGED <<packets, routing, owned, active, now>>

\* Mutant: the order of the groups in the file.
SwitchNextAny == todo

\* Guards before captures.
SwitchNext == IF todo \cap Guards # {} THEN todo \cap Guards ELSE todo

\* The wrapper is made when it is missing ...
Jump ==
  /\ at = "jump" /\ todo # {}
  /\ \E g \in SwitchNext :
       /\ wrap' = [wrap EXCEPT ![g] = IF @ = "absent" THEN "empty" ELSE @]
       /\ grp' = g /\ todo' = todo \ {g}
  /\ Goto("entry")
  /\ UNCHANGED <<hook, chain, built, routing, files, now>>

\* ... gets, or replaces, its only rule, which needs the chain of the slot, be it
\* an empty one ...
Entry ==
  /\ at = "entry"
  /\ chain[grp][Target] # "absent"
  /\ wrap' = [wrap EXCEPT ![grp] = Target]
  /\ Goto("hooking")
  /\ UNCHANGED <<hook, chain, built, routing, files, now, loop>>

\* ... and is hooked in.
Hook ==
  /\ at = "hooking"
  /\ hook' = [hook EXCEPT ![grp] = TRUE]
  /\ Goto(CASE todo # {} -> "jump"
            [] todo = {} /\ goal = "new" -> "commit"
            [] OTHER -> "unpend")
  /\ UNCHANGED <<wrap, chain, built, routing, files, now, loop>>

\* Mutant: the file says what is there now.
CommitNow ==
  /\ at = "commit"
  /\ active' = [slot |-> NextSlot, net |-> now]
  /\ Goto("unpend")
  /\ UNCHANGED <<packets, routing, owned, pending, now, loop>>

\* mv is atomic.
Commit ==
  /\ at = "commit"
  /\ active' = [slot |-> NextSlot, net |-> sel]
  /\ Goto("unpend")
  /\ UNCHANGED <<packets, routing, owned, pending, now, loop>>

\* Nothing checks that the file has gone.
Unpend ==
  /\ at = "unpend"
  /\ pending' \in {FALSE, pending}
  /\ CASE goal = "new" -> End("ok") [] goal = "old" -> Goto("claim") [] goal = "undo" -> End("fail")
  /\ UNCHANGED <<packets, routing, owned, active, now, loop>>

-----------------------------------------------------------------------------
(* network_sync.                                                           *)

Pause(t) ==
  /\ at' = "pause" /\ then' = t
  /\ todo' = Captures /\ grp' = NoGroup
  /\ UNCHANGED <<act, goal, result>>

\* Mutant: rules that are in place are good, whatever they were written for.
SyncStale ==
  /\ at = "sync"
  /\ sel' = now
  /\ \/ \E t \in {"ok", "fail"} : Pause(t)
     \/ at' = "start" /\ UNCHANGED <<loop, act, goal, then, result>>
     \/ NetworkOK /\ at' = "idle" /\ result' = "ok" /\ UNCHANGED <<loop, act, goal, then>>
  /\ UNCHANGED <<packets, routing, files, now>>

\* Capture is paused when the interfaces or addresses cannot be read, when the
\* core does not listen (which is no error), when the addresses have changed,
\* and when a captured interface is no longer shared.  network_ok takes a
\* command that fails for a missing rule.
Sync ==
  /\ at = "sync"
  /\ sel' = now
  /\ \/ \E t \in {"ok", "fail"} : Pause(t)
     \/ /\ active.net.addr # now.addr \/ ~(active.net.lan \subseteq now.lan)
        /\ Pause("compare")
     \/ /\ active.net.addr = now.addr /\ active.net.lan \subseteq now.lan
        /\ \/ at' = "start" /\ UNCHANGED <<goal, then, result>>
           \/ /\ active.net = now /\ NetworkOK
              /\ at' = "idle" /\ result' = "ok" /\ UNCHANGED <<goal, then>>
        /\ UNCHANGED <<loop, act>>
  /\ UNCHANGED <<packets, routing, files, now>>

\* pause_capture.  A paused capture is never network_ok.
PauseOne ==
  /\ at = "pause"
  /\ IF todo = {}
     THEN /\ IF then = "compare" THEN Goto("start") ELSE End(then)
          /\ UNCHANGED <<hook, loop>>
     ELSE /\ \E g \in todo : hook' = [hook EXCEPT ![g] = FALSE] /\ todo' = todo \ {g}
          /\ grp' = NoGroup
          /\ Goto("pause")
  /\ UNCHANGED <<wrap, chain, built, routing, files, now>>

-----------------------------------------------------------------------------
(* Failures.                                                               *)

\* A failed switch to a new slot goes back to the old one, or stops.
Undo ==
  IF active.slot \in Slots THEN Switch("undo") ELSE Stop("fail") /\ UNCHANGED loop

\* A command fails.  A failed check cleans up, unless it could not read the
\* addresses; a failed switch to a new slot is undone; every other error ends
\* the script.
Fail ==
  /\ at \notin {"idle", "sync", "forget", "settle", "disown", "unpend"}
  /\ \/ /\ at \in {"build", "fill"} /\ act = "check"
        /\ Stop("fail") /\ UNCHANGED loop
     \/ /\ at \in {"jump", "entry", "hooking", "commit"} /\ goal = "new"
        /\ Undo
     \/ /\ at \in {"build", "fill"} /\ act = "check" => todo = Groups
        /\ at \in {"jump", "entry", "hooking", "commit"} => goal # "new"
        /\ End("fail") /\ Break
  /\ UNCHANGED <<packets, routing, files, now>>

\* The time limit, or a signal, kills the script and its commands.
Kill ==
  /\ at # "idle"
  /\ End("fail") /\ Break
  /\ UNCHANGED <<packets, routing, files, now>>

\* A reboot in the middle of a script is a kill and then this.
Reboot ==
  /\ at = "idle"
  /\ hook' = [g \in Groups |-> FALSE]
  /\ wrap' = [g \in Groups |-> "absent"]
  /\ chain' = [g \in Groups |-> [s \in Slots |-> "absent"]]
  /\ built' = [s \in Slots |-> NoNet]
  /\ route' = FALSE /\ rule' = FALSE
  /\ End("fail")
  /\ UNCHANGED <<files, now, loop>>

\* The hotspot comes and goes, an interface becomes the uplink.
Change ==
  /\ now' \in [lan : SUBSET Interfaces, addr : 1..MaxAddr]
  /\ UNCHANGED <<packets, routing, files, task, at, loop, result>>

-----------------------------------------------------------------------------

Stops  == StopBegin \/ Unhook \/ Flush \/ Drop \/ Unrule \/ Unroute \/ Forget \/ Settle \/ Disown
Starts == Start \/ Claim \/ AddRoute \/ AddRule \/ Build \/ Fill \/ Pend \/ Jump \/ Entry \/ Hook
            \/ Commit \/ Unpend
Syncs  == Sync \/ PauseOne

Next ==
  \/ \E a \in {"check", "prepare", "sync", "stop"} : Begin(a)
  \/ Stops \/ Starts \/ Syncs \/ Fail \/ Kill \/ Reboot \/ Change

Spec == Init /\ [][Next]_vars

-----------------------------------------------------------------------------
(* Properties.                                                             *)

Live(g) == hook[g] /\ wrap[g] \in Slots
Lan(g)  == built[wrap[g]].lan

\* A group whose rules packets reach, and would still reach after a way back to
\* the slot that network.active names.
InEffect(g) == Live(g) /\ \A s \in {wrap[g], active.slot} : chain[g][s] = "full"

\* What the rules are worth to the supervisor.
Level ==
  CASE ~owned /\ Clean -> "clean"
    [] active.slot \in Slots /\ \A g \in Guards : InEffect(g) ->
         IF \E c \in Captures : Live(c) /\ Lan(c) # {} THEN "capturing" ELSE "guarded"
    [] OTHER -> "dirty"

Promise == INSTANCE NetworkPromise WITH
  net    <- Level,
  script <- IF at = "idle" THEN "none" ELSE act,
  last   <- IF at # "idle" THEN "none" ELSE result

\* No rule set is taken apart, or built over, while a wrapper jumps to it:
\* build_slot flushes the slot that network.active does not name, which an
\* interrupted switch may have left in use.  A chain that a wrapper jumps to is
\* complete, or it belongs to the slot that network.active names, a stop was cut
\* off between flushing and deleting it, and the way back from an interrupted or
\* failed switch has jumped to it again.
LiveSlotsComplete ==
  \A g \in Groups : wrap[g] \in Slots =>
    \/ chain[g][wrap[g]] = "full"
    \/ wrap[g] = active.slot /\ chain[g][wrap[g]] = "empty"

\* "Set INPUT/IPv6 protection before DNS and TProxy capture": traffic is never
\* captured without the protection of the listeners, whatever was interrupted.
GuardedCapture ==
  (\E c \in Captures : Live(c)) => \A g \in Guards : Live(g)

\* What is captured can be delivered: the policy rule and the local route exist
\* as long as any capture does.
RoutedCapture ==
  (\E c \in Captures : Live(c)) => route /\ rule

\* Captured traffic meets protected listeners and can be delivered, in every
\* order of switching, undoing and stopping.
CaptureIsSafe == GuardedCapture /\ RoutedCapture

\* Whatever is left in the kernel, the mark that makes the next stop clean it
\* up, and the next claim accept it, exists.
OwnedRecorded == ~Clean => owned

\* A stop or a check that succeeds leaves nothing of ours, in the kernel or in
\* the files, whatever the scripts before it left.
CleanAfterStop ==
  at = "idle" /\ act \in {"stop", "check"} /\ result = "ok" =>
     Clean /\ ~owned /\ ~pending /\ active.slot = "none"

\* Nothing of ours is ever left that a later stop would not find, and a stop
\* that succeeds leaves nothing.
LeftoversAreMarked == OwnedRecorded /\ CleanAfterStop

\* What network_ok accepts is what network.active says: the rules in the slot it
\* names were written for the interfaces and addresses it names.
ActiveIsTrue == NetworkOK => built[active.slot] = active.net

\* Every interface that is captured is protected, unless network.pending says
\* that a switch has begun: however the script ended, mixed slots are marked.
SettledCover ==
  ~pending => \A c \in Captures, g \in Guards : Live(c) => Live(g) /\ Lan(c) \subseteq Lan(g)

\* The script implements NetworkPromise: guards that are up under a named slot,
\* with all their rules, are never down or emptied again before a stop or a
\* check, however syncs and preparations fail, are killed or go back; a
\* preparation that succeeds leaves them up and captures nothing, whatever stops
\* were cut off before it, and a stop that succeeds leaves nothing.
KeepsPromise == Promise!Spec

\* A sync that succeeds leaves the rules of the network it read in force, or no
\* capture at all.
SyncSettles ==
  [][act = "sync" /\ at # "idle" /\ at' = "idle" /\ result' = "ok" =>
       \/ InForce' /\ active'.net = sel'
       \/ \A c \in Captures : ~hook'[c]]_vars

\* "An old downstream may have become an upstream. Do not keep capturing it on
\* rollback": a sync that goes back to the old rules attaches no capture of an
\* interface it did not find shared.
NoRecapture ==
  [][act = "sync" /\ goal = "undo" => \A c \in Captures :
       ~Live(c) /\ Live(c)' => Lan(c)' \subseteq sel.lan]_vars
=============================================================================
