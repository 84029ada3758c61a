------------------------- MODULE NetworkRulesProofs -------------------------
(***************************************************************************)
(* The invariants of NetworkRules, for any groups, interfaces and          *)
(* addresses.  IInv adds to them what holds at each control point: how far *)
(* the loops over the groups have come, and what the files promise about   *)
(* the kernel while no loop runs.                                          *)
(***************************************************************************)
EXTENDS NetworkRules, TLAPS

Switching == {"jump", "entry", "hooking", "commit"}

\* Nothing of a group is left.
Gone(g) == ~hook[g] /\ wrap[g] = "absent" /\ \A s \in Slots : chain[g][s] = "absent"

\* No wrapper jumps to a slot that network.active does not name.
OneSlot == \A g \in Groups : wrap[g] \in Slots => wrap[g] = active.slot

\* Without network.pending there is one slot in use.
Settled == ~pending => OneSlot

\* The slot that network.active names: a chain that is left of it is complete or
\* flushed by a stop, can be delivered and is what the file says.
Kept ==
  active.slot \in Slots => \A g \in Groups : chain[g][active.slot] # "absent" =>
    /\ chain[g][active.slot] \in {"full", "empty"}
    /\ route /\ rule
    /\ built[active.slot] = active.net

\* The mark outlives the other files and the rules.
Marked == pending \/ active.slot \in Slots \/ ~Clean => owned

\* Where each kind of script can be.
Plan ==
  /\ at \in Stopping =>
       CASE act = "stop"  -> then = "ok"
         [] act = "check" -> then \in {"claim", "ok", "fail"}
         [] OTHER         -> act \in {"prepare", "sync"} /\ then \in {"unpend", "fail"}
  /\ at \in Stopping /\ then = "unpend" => goal = "old"
  /\ at \in Starting \ {"claim", "build", "fill"} => act \in {"prepare", "sync"}
  /\ at \in {"claim", "build", "fill"} => act \in {"check", "prepare", "sync"}
  /\ at \in {"sync", "pause"} => act = "sync"
  /\ at = "pause" => then \in {"ok", "fail", "compare"}
  /\ at \in Stopping /\ act \in {"prepare", "sync"} => active.slot \notin Slots
  /\ act = "prepare" => sel.lan = {}

\* How far a stop has come.
StopProgress ==
  /\ at \in {"unhook", "flush", "drop"} =>
       /\ todo \cap Captures # {} => Guards \subseteq todo
       /\ \A g \in Groups \ todo : ~hook[g]
       /\ \A g \in Groups \ todo : g # grp \/ at = "unhook" => Gone(g)
  /\ at \in {"flush", "drop"} => grp \in Groups \ todo
  /\ at = "drop" => wrap[grp] \notin Slots
  /\ at \in {"unrule", "unroute", "forget", "settle", "disown"} => \A g \in Groups : Gone(g)
  /\ at \in {"unroute", "forget", "settle", "disown"} => ~rule
  /\ at \in {"forget", "settle", "disown"} => ~route
  /\ at \in {"settle", "disown"} => active.slot = "none"
  /\ at = "disown" => ~pending

\* The new slot is complete and can be delivered.
NewReady ==
  /\ \A g \in Groups : chain[g][NextSlot] = "full"
  /\ built[NextSlot] = sel
  /\ route /\ rule

\* How far a start has come before it switches.
StartProgress ==
  /\ at \in {"routes", "rules", "build", "fill", "pend"} \cup Switching => owned
  /\ at \in {"claim", "routes", "rules", "build", "fill", "pend"} => OneSlot
  /\ at \in {"rules", "build", "fill"} /\ act # "check" => route
  /\ at \in {"build", "fill"} /\ act # "check" => rule
  /\ at = "pend" => NewReady

\* A group that the switch has done with.
Switched(g) == hook[g] /\ wrap[g] = Target

\* How far the switch has come.
SwitchProgress ==
  /\ at \in Switching =>
       /\ pending
       /\ IF goal = "new" THEN NewReady ELSE active.slot \in Slots
       /\ todo \cap Guards # {} => Captures \subseteq todo
       /\ \A g \in Groups \ todo : g # grp \/ at \in {"jump", "commit"} => Switched(g)
  /\ at \in {"entry", "hooking"} => grp \in Groups \ todo
  /\ at = "hooking" => wrap[grp] = Target
  /\ at = "commit" => todo = {} /\ goal = "new"
  /\ at = "unpend" =>
       /\ OneSlot
       /\ goal = "new" =>
            /\ active.slot \in Slots /\ active.net = sel
            /\ route /\ rule
            /\ \A g \in Groups :
                 hook[g] /\ wrap[g] = active.slot /\ chain[g][active.slot] = "full"

PauseProgress ==
  at = "pause" => todo \subseteq Captures /\ \A c \in Captures \ todo : ~hook[c]

Facts ==
  /\ Settled /\ Kept /\ Marked /\ Plan
  /\ StopProgress /\ StartProgress /\ SwitchProgress /\ PauseProgress
  /\ LiveSlotsComplete /\ GuardedCapture /\ RoutedCapture /\ CleanAfterStop

IInv == TypeOK /\ Facts

-----------------------------------------------------------------------------
(* Types.  The invariant is needed: only it says which slot, group and     *)
(* continuation a step uses.                                               *)

KernelTypes ==
  /\ hook \in [Groups -> BOOLEAN]
  /\ wrap \in [Groups -> {"absent", "empty"} \cup Slots]
  /\ chain \in [Groups -> [Slots -> {"absent", "empty", "partial", "full"}]]
  /\ built \in [Slots -> Net]

FileTypes ==
  /\ route \in BOOLEAN /\ rule \in BOOLEAN
  /\ owned \in BOOLEAN /\ pending \in BOOLEAN
  /\ active \in [slot : {"none"} \cup Slots, net : Net]
  /\ now \in Net /\ sel \in Net

ScriptTypes ==
  /\ act \in {"none", "check", "prepare", "sync", "stop"}
  /\ at \in {"idle", "sync", "pause"} \cup Stopping \cup Starting
  /\ goal \in {"new", "old", "undo"}
  /\ then \in {"ok", "fail", "claim", "unpend", "compare"}
  /\ todo \subseteq Groups
  /\ grp \in Groups \cup {NoGroup}
  /\ result \in {"none", "ok", "fail"}

\* The types, in parts small enough for the provers.
LEMMA TypeParts == TypeOK <=> KernelTypes /\ FileTypes /\ ScriptTypes
BY DEF TypeOK, KernelTypes, FileTypes, ScriptTypes

\* A step keeps the types of what the kernel has.
LEMMA KernelStep == ASSUME NetworkAssumption, IInv, [Next]_vars PROVE KernelTypes'
<1> USE NetworkAssumption DEF IInv, Facts, TypeOK, KernelTypes, Groups, Slots, Net, NoNet,
    packets, routing, files
<1>1. ASSUME NEW a \in {"check", "prepare", "sync", "stop"}, Begin(a) PROVE KernelTypes'
  BY <1>1 DEF Begin
<1>2. ASSUME StopBegin PROVE KernelTypes'
  BY <1>2 DEF StopBegin, Stopped, Goto, End
<1>3. ASSUME Unhook PROVE KernelTypes'
  BY <1>3 DEF Unhook, StopNext, Goto
<1>4. ASSUME Flush PROVE KernelTypes'
  BY <1>4 DEF Flush, Goto
<1>5. ASSUME Drop PROVE KernelTypes'
  <2>1. grp \in Groups
    BY <1>5 DEF Drop, StopProgress
  <2>2. ASSUME NEW s \in Slots, NEW v \in {"absent", "empty"},
               chain' = [chain EXCEPT ![grp][s] = v]
        PROVE chain' \in [Groups -> [Slots -> {"absent", "empty", "partial", "full"}]]
    <3>1. [chain[grp] EXCEPT ![s] = v] \in [Slots -> {"absent", "empty", "partial", "full"}]
      BY <2>1
    <3> QED
      BY <2>1, <2>2, <3>1
  <2>3. chain' = chain \/ \E s \in Slots, v \in {"absent", "empty"} :
                            chain' = [chain EXCEPT ![grp][s] = v]
    BY <1>5 DEF Drop
  <2>4. chain' \in [Groups -> [Slots -> {"absent", "empty", "partial", "full"}]]
    BY <2>2, <2>3
  <2> QED
    BY <1>5, <2>1, <2>4 DEF Drop, Goto
<1>6. ASSUME Unrule PROVE KernelTypes'
  BY <1>6 DEF Unrule, Goto
<1>7. ASSUME Unroute PROVE KernelTypes'
  BY <1>7 DEF Unroute, Goto
<1>8. ASSUME Forget PROVE KernelTypes'
  BY <1>8 DEF Forget, Goto
<1>9. ASSUME Settle PROVE KernelTypes'
  BY <1>9 DEF Settle, Goto
<1>10. ASSUME Disown PROVE KernelTypes'
  BY <1>10 DEF Disown, Stopped, Goto, End
<1>11. ASSUME Start PROVE KernelTypes'
  BY <1>11 DEF Start
<1>12. ASSUME Claim PROVE KernelTypes'
  BY <1>12 DEF Claim
<1>13. ASSUME AddRoute PROVE KernelTypes'
  BY <1>13 DEF AddRoute, Goto
<1>14. ASSUME AddRule PROVE KernelTypes'
  BY <1>14 DEF AddRule, Goto
<1>15. ASSUME Build PROVE KernelTypes'
  BY <1>15 DEF Build, NextSlot, Goto
<1>16. ASSUME Fill PROVE KernelTypes'
  BY <1>16 DEF Fill, NextSlot, Stop, Goto
<1>17. ASSUME Pend PROVE KernelTypes'
  BY <1>17 DEF Pend, Switch
<1>18. ASSUME Jump PROVE KernelTypes'
  BY <1>18 DEF Jump, SwitchNext, Goto
<1>19. ASSUME Entry PROVE KernelTypes'
  <2>1. Target \in Slots
    BY <1>19 DEF Entry, SwitchProgress, Switching, Target, NextSlot
  <2> QED
    BY <1>19, <2>1 DEF Entry, Goto
<1>20. ASSUME Hook PROVE KernelTypes'
  BY <1>20 DEF Hook, Goto
<1>21. ASSUME Commit PROVE KernelTypes'
  BY <1>21 DEF Commit, NextSlot, Goto
<1>22. ASSUME Unpend PROVE KernelTypes'
  BY <1>22 DEF Unpend, End, Goto
<1>23. ASSUME Sync PROVE KernelTypes'
  BY <1>23 DEF Sync, Pause, NetworkOK, InForce
<1>24. ASSUME PauseOne PROVE KernelTypes'
  BY <1>24 DEF PauseOne, Goto, End
<1>25. ASSUME Fail PROVE KernelTypes'
  BY <1>25 DEF Fail, Undo, Switch, Stop, End, Break
<1>26. ASSUME Kill PROVE KernelTypes'
  BY <1>26 DEF Kill, End, Break
<1>27. ASSUME Reboot PROVE KernelTypes'
  BY <1>27 DEF Reboot, End
<1>28. ASSUME Change PROVE KernelTypes'
  BY <1>28 DEF Change
<1>29. CASE UNCHANGED vars
  BY <1>29 DEF vars
<1> QED
  BY <1>1, <1>2, <1>3, <1>4, <1>5, <1>6, <1>7, <1>8, <1>9, <1>10, <1>11, <1>12, <1>13,
    <1>14, <1>15, <1>16, <1>17, <1>18, <1>19, <1>20, <1>21, <1>22, <1>23, <1>24, <1>25,
    <1>26, <1>27, <1>28, <1>29 DEF Next, Stops, Starts, Syncs

\* A step keeps the types of the files.
LEMMA FileStep == ASSUME NetworkAssumption, IInv, [Next]_vars PROVE FileTypes'
<1> USE NetworkAssumption DEF IInv, TypeOK, FileTypes, Slots, Net, NoNet, routing, files,
    task, Goto
<1>0. NoNet \in Net
  <2>1. 0 \in 0..MaxAddr
    OBVIOUS
  <2> QED
    BY <2>1
<1>1. ASSUME NEW a \in {"check", "prepare", "sync", "stop"}, Begin(a) PROVE FileTypes'
  BY <1>1 DEF Begin
<1>2. ASSUME StopBegin PROVE FileTypes'
  BY <1>0, <1>2 DEF StopBegin, Stopped, End
<1>3. ASSUME Unhook PROVE FileTypes'
  BY <1>3 DEF Unhook, StopNext
<1>4. ASSUME Flush PROVE FileTypes'
  BY <1>4 DEF Flush
<1>5. ASSUME Drop PROVE FileTypes'
  BY <1>5 DEF Drop
<1>6. ASSUME Unrule PROVE FileTypes'
  BY <1>6 DEF Unrule
<1>7. ASSUME Unroute PROVE FileTypes'
  BY <1>7 DEF Unroute
<1>8. ASSUME Forget PROVE FileTypes'
  BY <1>8 DEF Forget
<1>9. ASSUME Settle PROVE FileTypes'
  BY <1>9 DEF Settle
<1>10. ASSUME Disown PROVE FileTypes'
  BY <1>0, <1>10 DEF Disown, Stopped, End
<1>11. ASSUME Start PROVE FileTypes'
  BY <1>11 DEF Start
<1>12. ASSUME Claim PROVE FileTypes'
  BY <1>12 DEF Claim
<1>13. ASSUME AddRoute PROVE FileTypes'
  BY <1>13 DEF AddRoute
<1>14. ASSUME AddRule PROVE FileTypes'
  BY <1>14 DEF AddRule
<1>15. ASSUME Build PROVE FileTypes'
  BY <1>15 DEF Build, NextSlot
<1>16. ASSUME Fill PROVE FileTypes'
  BY <1>16 DEF Fill, NextSlot, Stop
<1>17. ASSUME Pend PROVE FileTypes'
  BY <1>17 DEF Pend, Switch
<1>18. ASSUME Jump PROVE FileTypes'
  BY <1>18 DEF Jump, SwitchNext
<1>19. ASSUME Entry PROVE FileTypes'
  BY <1>19 DEF Entry, Target, NextSlot
<1>20. ASSUME Hook PROVE FileTypes'
  BY <1>20 DEF Hook
<1>21. ASSUME Commit PROVE FileTypes'
  BY <1>21 DEF Commit, NextSlot
<1>22. ASSUME Unpend PROVE FileTypes'
  BY <1>0, <1>22 DEF Unpend, End
<1>23. ASSUME Sync PROVE FileTypes'
  BY <1>23 DEF Sync, Pause, NetworkOK, InForce
<1>24. ASSUME PauseOne PROVE FileTypes'
  BY <1>0, <1>24 DEF PauseOne, End
<1>25. ASSUME Fail PROVE FileTypes'
  BY <1>0, <1>25 DEF Fail, Undo, Switch, Stop, End, Break
<1>26. ASSUME Kill PROVE FileTypes'
  BY <1>0, <1>26 DEF Kill, End, Break
<1>27. ASSUME Reboot PROVE FileTypes'
  BY <1>0, <1>27 DEF Reboot, End
<1>28. ASSUME Change PROVE FileTypes'
  BY <1>28 DEF Change
<1>29. CASE UNCHANGED vars
  BY <1>29 DEF vars
<1> QED
  BY <1>1, <1>2, <1>3, <1>4, <1>5, <1>6, <1>7, <1>8, <1>9, <1>10, <1>11, <1>12, <1>13,
    <1>14, <1>15, <1>16, <1>17, <1>18, <1>19, <1>20, <1>21, <1>22, <1>23, <1>24, <1>25,
    <1>26, <1>27, <1>28, <1>29 DEF Next, Stops, Starts, Syncs

\* A step keeps the types of the script.
LEMMA ScriptStep == ASSUME NetworkAssumption, IInv, [Next]_vars PROVE ScriptTypes'
<1> USE NetworkAssumption DEF IInv, Facts, TypeOK, ScriptTypes, Plan, Stopping, Starting,
    Groups, task, loop, Goto
<1>1. ASSUME NEW a \in {"check", "prepare", "sync", "stop"}, Begin(a) PROVE ScriptTypes'
  BY <1>1 DEF Begin
<1>2. ASSUME StopBegin PROVE ScriptTypes'
  BY <1>2 DEF StopBegin, Stopped, End
<1>3. ASSUME Unhook PROVE ScriptTypes'
  BY <1>3 DEF Unhook, StopNext
<1>4. ASSUME Flush PROVE ScriptTypes'
  BY <1>4 DEF Flush
<1>5. ASSUME Drop PROVE ScriptTypes'
  BY <1>5 DEF Drop
<1>6. ASSUME Unrule PROVE ScriptTypes'
  BY <1>6 DEF Unrule
<1>7. ASSUME Unroute PROVE ScriptTypes'
  BY <1>7 DEF Unroute
<1>8. ASSUME Forget PROVE ScriptTypes'
  BY <1>8 DEF Forget
<1>9. ASSUME Settle PROVE ScriptTypes'
  BY <1>9 DEF Settle
<1>10. ASSUME Disown PROVE ScriptTypes'
  BY <1>10 DEF Disown, Stopped, End
<1>11. ASSUME Start PROVE ScriptTypes'
  BY <1>11 DEF Start
<1>12. ASSUME Claim PROVE ScriptTypes'
  BY <1>12 DEF Claim
<1>13. ASSUME AddRoute PROVE ScriptTypes'
  BY <1>13 DEF AddRoute
<1>14. ASSUME AddRule PROVE ScriptTypes'
  BY <1>14 DEF AddRule
<1>15. ASSUME Build PROVE ScriptTypes'
  BY <1>15 DEF Build, NextSlot
<1>16. ASSUME Fill PROVE ScriptTypes'
  BY <1>16 DEF Fill, NextSlot, Stop
<1>17. ASSUME Pend PROVE ScriptTypes'
  BY <1>17 DEF Pend, Switch
<1>18. ASSUME Jump PROVE ScriptTypes'
  BY <1>18 DEF Jump, SwitchNext
<1>19. ASSUME Entry PROVE ScriptTypes'
  BY <1>19 DEF Entry, Target, NextSlot
<1>20. ASSUME Hook PROVE ScriptTypes'
  BY <1>20 DEF Hook
<1>21. ASSUME Commit PROVE ScriptTypes'
  BY <1>21 DEF Commit, NextSlot
<1>22. ASSUME Unpend PROVE ScriptTypes'
  BY <1>22 DEF Unpend, End
<1>23. ASSUME Sync PROVE ScriptTypes'
  BY <1>23 DEF Sync, Pause, NetworkOK, InForce
<1>24. ASSUME PauseOne PROVE ScriptTypes'
  BY <1>24 DEF PauseOne, End
<1>25. ASSUME Fail PROVE ScriptTypes'
  BY <1>25 DEF Fail, Undo, Switch, Stop, End, Break
<1>26. ASSUME Kill PROVE ScriptTypes'
  BY <1>26 DEF Kill, End, Break
<1>27. ASSUME Reboot PROVE ScriptTypes'
  BY <1>27 DEF Reboot, End
<1>28. ASSUME Change PROVE ScriptTypes'
  BY <1>28 DEF Change
<1>29. CASE UNCHANGED vars
  BY <1>29 DEF vars
<1> QED
  BY <1>1, <1>2, <1>3, <1>4, <1>5, <1>6, <1>7, <1>8, <1>9, <1>10, <1>11, <1>12, <1>13,
    <1>14, <1>15, <1>16, <1>17, <1>18, <1>19, <1>20, <1>21, <1>22, <1>23, <1>24, <1>25,
    <1>26, <1>27, <1>28, <1>29 DEF Next, Stops, Starts, Syncs

-----------------------------------------------------------------------------
(* The facts. *)

\* A step from the invariant keeps the facts.
LEMMA FactsStep == ASSUME NetworkAssumption, IInv, [Next]_vars PROVE Facts'
<1> USE NetworkAssumption DEF IInv, TypeOK, Facts, Settled, OneSlot, Kept, Marked, Clean,
    Plan, StopProgress, Gone, StartProgress, NewReady, SwitchProgress, Switched,
    Switching, PauseProgress, LiveSlotsComplete, GuardedCapture, RoutedCapture,
    CleanAfterStop, Live, Target, NextSlot, Stopping, Starting, Groups, Slots, packets,
    routing, files, task, loop, Goto
<1>1. ASSUME NEW a \in {"check", "prepare", "sync", "stop"}, Begin(a) PROVE Facts'
  BY <1>1 DEF Begin, NoNet
<1>2. ASSUME StopBegin PROVE Facts'
  BY <1>2 DEF StopBegin, Stopped, End
<1>3. ASSUME Unhook PROVE Facts'
  BY <1>3 DEF Unhook, StopNext
<1>4. ASSUME Flush PROVE Facts'
  BY <1>4 DEF Flush
<1>5. ASSUME Drop PROVE Facts'
  BY <1>5 DEF Drop
<1>6. ASSUME Unrule PROVE Facts'
  BY <1>6 DEF Unrule
<1>7. ASSUME Unroute PROVE Facts'
  BY <1>7 DEF Unroute
<1>8. ASSUME Forget PROVE Facts'
  BY <1>8 DEF Forget
<1>9. ASSUME Settle PROVE Facts'
  BY <1>9 DEF Settle
<1>10. ASSUME Disown PROVE Facts'
  BY <1>10 DEF Disown, Stopped, End
<1>11. ASSUME Start PROVE Facts'
  BY <1>11 DEF Start
<1>12. ASSUME Claim PROVE Facts'
  BY <1>12 DEF Claim
<1>13. ASSUME AddRoute PROVE Facts'
  BY <1>13 DEF AddRoute
<1>14. ASSUME AddRule PROVE Facts'
  BY <1>14 DEF AddRule
<1>15. ASSUME Build PROVE Facts'
  BY <1>15 DEF Build, NextSlot
<1>16. ASSUME Fill PROVE Facts'
  BY <1>16 DEF Fill, NextSlot, Stop
<1>17. ASSUME Pend PROVE Facts'
  BY <1>17 DEF Pend, Switch
<1>18. ASSUME Jump PROVE Facts'
  BY <1>18 DEF Jump, SwitchNext
<1>19. ASSUME Entry PROVE Facts'
  BY <1>19 DEF Entry, Target, NextSlot
<1>20. ASSUME Hook PROVE Facts'
  <2> USE <1>20 DEF Hook
  <2>1. (Settled /\ Kept /\ Marked /\ Plan)'
    OBVIOUS
  <2>2. (StopProgress /\ StartProgress /\ PauseProgress)'
    OBVIOUS
  <2>3. SwitchProgress'
    <3>1. \A g \in Groups \ todo : Switched(g)'
      OBVIOUS
    <3>2. CASE todo # {}
      <4>1. at' = "jump" /\ UNCHANGED <<pending, goal, active, chain, built, sel, route, rule, loop>>
        BY ONLY <1>20, <3>2 DEF Hook, Goto, routing, files, loop, task
      <4> QED
        BY <3>1, <4>1
    <3>3. CASE todo = {} /\ goal = "new"
      BY <3>1, <3>3
    <3>4. CASE todo = {} /\ goal # "new"
      BY <3>1, <3>4
    <3> QED
      BY <3>2, <3>3, <3>4
  <2>4. (LiveSlotsComplete /\ GuardedCapture)'
    OBVIOUS
  <2>5. (RoutedCapture /\ CleanAfterStop)'
    OBVIOUS
  <2> QED
    BY <2>1, <2>2, <2>3, <2>4, <2>5
<1>21. ASSUME Commit PROVE Facts'
  BY <1>21 DEF Commit, NextSlot
<1>22. ASSUME Unpend PROVE Facts'
  <2> USE <1>22 DEF Unpend, End
  <2>1. (Settled /\ Kept)'
    OBVIOUS
  <2>2. Marked'
    <3>1. pending' = FALSE \/ pending' = pending
      BY ONLY <1>22 DEF Unpend
    <3>2. UNCHANGED <<active, owned, hook, wrap, chain, route, rule>>
      BY ONLY <1>22 DEF Unpend, packets, routing
    <3> QED
      BY ONLY <3>1, <3>2, IInv DEF IInv, Facts, Marked, Clean, Groups
  <2>3. Plan'
    <3>1. /\ at = "unpend"
          /\ \/ at' = "claim" /\ UNCHANGED <<act, sel>>
             \/ at' = "idle" /\ (act' = "none" \/ UNCHANGED <<act, sel>>)
      BY ONLY <1>22, IInv DEF IInv, TypeOK, ScriptTypes, Unpend, End, Goto, loop
    <3> QED
      BY ONLY <3>1, IInv DEF IInv, Facts, Plan, Stopping, Starting
  <2>4. at' \in {"idle", "claim"}
    BY ONLY <1>22, IInv DEF IInv, TypeOK, Unpend, End, Goto
  <2>5. (StopProgress /\ SwitchProgress /\ PauseProgress)'
    BY ONLY <2>4 DEF StopProgress, SwitchProgress, Switching, PauseProgress
  <2>6. StartProgress'
    <3>1. OneSlot'
      BY ONLY <1>22, IInv DEF IInv, Facts, SwitchProgress, OneSlot, Unpend, packets
    <3> QED
      BY ONLY <2>4, <3>1 DEF StartProgress, Switching
  <2>7. (LiveSlotsComplete /\ GuardedCapture)'
    OBVIOUS
  <2>8. (RoutedCapture /\ CleanAfterStop)'
    OBVIOUS
  <2> QED
    BY <2>1, <2>2, <2>3, <2>4, <2>5, <2>6, <2>7, <2>8
<1>23. ASSUME Sync PROVE Facts'
  BY <1>23 DEF Sync, Pause, NetworkOK, InForce
<1>24. ASSUME PauseOne PROVE Facts'
  BY <1>24 DEF PauseOne, End
<1>25. ASSUME Fail PROVE Facts'
  BY <1>25 DEF Fail, Undo, Switch, Stop, End, Break
<1>26. ASSUME Kill PROVE Facts'
  BY <1>26 DEF Kill, End, Break
<1>27. ASSUME Reboot PROVE Facts'
  BY <1>27 DEF Reboot, End
<1>28. ASSUME Change PROVE Facts'
  BY <1>28 DEF Change
<1>29. CASE UNCHANGED vars
  BY <1>29 DEF vars
<1> HIDE DEF IInv, TypeOK, Facts, Settled, OneSlot, Kept, Marked, Clean, Plan, StopProgress,
    Gone, StartProgress, NewReady, SwitchProgress, Switched, Switching, PauseProgress,
    LiveSlotsComplete, GuardedCapture, RoutedCapture, CleanAfterStop, Live, Target, NextSlot,
    Stopping, Starting, Groups, Slots, packets, routing, files, task, loop, Goto
<1> QED
  BY <1>1, <1>2, <1>3, <1>4, <1>5, <1>6, <1>7, <1>8, <1>9, <1>10, <1>11, <1>12, <1>13,
    <1>14, <1>15, <1>16, <1>17, <1>18, <1>19, <1>20, <1>21, <1>22, <1>23, <1>24, <1>25,
    <1>26, <1>27, <1>28, <1>29 DEF Next, Stops, Starts, Syncs

-----------------------------------------------------------------------------

\* The invariant holds at first.
LEMMA InvInit == ASSUME NetworkAssumption, Init PROVE IInv
<1> USE NetworkAssumption DEF Init, Groups, Slots
<1>1. KernelTypes
  BY DEF KernelTypes, Net, NoNet
<1>2. FileTypes
  <2>1. 1..MaxAddr \subseteq 0..MaxAddr /\ 0 \in 0..MaxAddr
    OBVIOUS
  <2>2. now \in Net /\ NoNet \in Net
    BY <2>1 DEF Net, NoNet
  <2> QED
    BY <2>2 DEF FileTypes
<1>3. ScriptTypes
  BY DEF ScriptTypes, NoGroup
<1>4. Clean
  BY DEF Clean
<1>5. Facts
  BY <1>4 DEF Facts, Settled, OneSlot, Kept, Marked, Plan, StopProgress, StartProgress,
    SwitchProgress, Switching, PauseProgress, LiveSlotsComplete, GuardedCapture, RoutedCapture,
    CleanAfterStop, Live, Stopping, Starting
<1> QED
  BY <1>1, <1>2, <1>3, <1>5, TypeParts DEF IInv

\* A step keeps the invariant.
LEMMA InvStep == ASSUME NetworkAssumption, IInv, [Next]_vars PROVE IInv'
<1>1. (KernelTypes /\ FileTypes /\ ScriptTypes)'
  BY KernelStep, FileStep, ScriptStep
<1>2. (TypeOK <=> KernelTypes /\ FileTypes /\ ScriptTypes)'
  BY DEF TypeOK, KernelTypes, FileTypes, ScriptTypes
<1> QED
  BY <1>1, <1>2, FactsStep DEF IInv

\* IInv is inductive: it holds through every script, failure and reboot.
THEOREM Invariance == Spec => []IInv
<1> USE NetworkAssumption
<1>1. Init => IInv
  BY InvInit
<1>2. IInv /\ [Next]_vars => IInv'
  BY InvStep
<1> QED
  BY <1>1, <1>2, PTL DEF Spec
-----------------------------------------------------------------------------

\* Types are kept, and every script is somewhere it can be.
THEOREM TypeCorrect == Spec => []TypeOK
<1>1. IInv => TypeOK
  BY DEF IInv
<1> QED
  BY <1>1, Invariance, PTL

\* No rule set is built over or taken apart while a wrapper jumps to it: what
\* packets reach is complete, or the emptied chain that a stop, cut off before it
\* could delete it, has left in the slot that network.active names.
THEOREM LiveSlotsAreComplete == Spec => []LiveSlotsComplete
<1>1. IInv => LiveSlotsComplete
  BY DEF IInv, Facts
<1> QED
  BY <1>1, Invariance, PTL

\* Traffic is never captured without the protection of the listeners.
THEOREM CaptureIsGuarded == Spec => []GuardedCapture
<1>1. IInv => GuardedCapture
  BY DEF IInv, Facts
<1> QED
  BY <1>1, Invariance, PTL

\* What is captured can be delivered.
THEOREM CaptureIsRouted == Spec => []RoutedCapture
<1>1. IInv => RoutedCapture
  BY DEF IInv, Facts
<1> QED
  BY <1>1, Invariance, PTL

\* Whatever captures is protected and can deliver.
THEOREM CapturesAreSafe == Spec => []CaptureIsSafe
BY CaptureIsGuarded, CaptureIsRouted, PTL DEF CaptureIsSafe

\* The mark exists as long as anything of ours is in the kernel.
THEOREM RulesAreMarked == Spec => []OwnedRecorded
<1>1. IInv => OwnedRecorded
  BY DEF IInv, Facts, Marked, OwnedRecorded
<1> QED
  BY <1>1, Invariance, PTL

\* A stop or a check that succeeds leaves nothing.
THEOREM StopsClean == Spec => []CleanAfterStop
<1>1. IInv => CleanAfterStop
  BY DEF IInv, Facts
<1> QED
  BY <1>1, Invariance, PTL

\* What is left is marked, and a successful stop leaves nothing.
THEOREM WhatIsLeftIsMarked == Spec => []LeftoversAreMarked
BY RulesAreMarked, StopsClean, PTL DEF LeftoversAreMarked

\* What network_ok accepts was written for what network.active says.
THEOREM ActiveTellsTheTruth == Spec => []ActiveIsTrue
<1>1. ASSUME IInv PROVE ActiveIsTrue
  <2> SUFFICES ASSUME NetworkOK PROVE built[active.slot] = active.net
    BY DEF ActiveIsTrue
  <2>1. PICK g \in Groups : wrap[g] = active.slot
    BY NetworkAssumption DEF NetworkOK, InForce, Groups
  <2>2. active.slot \in Slots /\ chain[g][active.slot] # "absent"
    BY <1>1, <2>1 DEF NetworkOK, InForce, IInv, Facts, LiveSlotsComplete
  <2> QED
    BY <1>1, <2>2 DEF IInv, Facts, Kept
<1>2. IInv => ActiveIsTrue
  BY <1>1
<1> QED
  BY <1>2, Invariance, PTL

\* Without network.pending every captured interface is protected.
THEOREM CoverIsSettled == Spec => []SettledCover
<1>1. ASSUME IInv PROVE SettledCover
  <2> SUFFICES ASSUME ~pending, NEW c \in Captures, NEW g \in Guards, Live(c)
               PROVE  Live(g) /\ Lan(c) \subseteq Lan(g)
    BY DEF SettledCover
  <2>1. Live(g)
    BY <1>1 DEF IInv, Facts, GuardedCapture
  <2>2. wrap[c] = active.slot /\ wrap[g] = active.slot
    BY <1>1, <2>1 DEF IInv, Facts, Settled, OneSlot, Live, Groups
  <2> QED
    BY <2>1, <2>2 DEF Lan
<1>2. IInv => SettledCover
  BY <1>1
<1> QED
  BY <1>2, Invariance, PTL

\* A sync that succeeds leaves the rules of the network it read, or no capture.
THEOREM SyncsSettle == Spec => SyncSettles
<1> DEFINE A == act = "sync" /\ at # "idle" /\ at' = "idle" /\ result' = "ok" =>
                  \/ InForce' /\ active'.net = sel'
                  \/ \A c \in Captures : ~hook'[c]
<1>1. ASSUME IInv, [Next]_vars PROVE [A]_vars
  <2> SUFFICES ASSUME act = "sync", at # "idle", at' = "idle", result' = "ok"
               PROVE  \/ InForce' /\ active'.net = sel'
                      \/ \A c \in Captures : ~hook'[c]
    OBVIOUS
  <2> USE <1>1 DEF IInv, Facts, TypeOK, Plan, Stopping, Starting, packets, routing, files, task, loop, Goto
  <2>1. CASE Sync
    BY <2>1 DEF Sync, Pause, NetworkOK, InForce
  <2>2. CASE PauseOne
    BY <2>2 DEF PauseOne, End, PauseProgress
  <2>3. CASE Unpend
    BY <2>3 DEF Unpend, End, SwitchProgress, InForce
  <2>4. CASE StopBegin \/ Disown
    BY <2>4 DEF StopBegin, Disown, Stopped, End
  <2>5. CASE Fail \/ Kill
    BY <2>5 DEF Fail, Kill, Undo, Switch, Stop, End, Break
  <2>6. Sync \/ PauseOne \/ Unpend \/ StopBegin \/ Disown \/ Fail \/ Kill
    BY DEF Next, Stops, Starts, Syncs, vars, Begin, Unhook, Flush, Drop, Unrule, Unroute,
      Forget, Settle, Start, Claim, AddRoute, AddRule, Build, Fill, Pend, Jump, Entry, Hook,
      Commit, Stop, Switch, Reboot, Change, End
  <2> QED
    BY <2>1, <2>2, <2>3, <2>4, <2>5, <2>6
<1>2. IInv /\ [Next]_vars => [A]_vars
  BY <1>1
<1> HIDE DEF A
<1>3. Spec => [][A]_vars
  BY <1>2, Invariance, PTL DEF Spec
<1> QED
  BY <1>3 DEF SyncSettles, A

-----------------------------------------------------------------------------
(* The promise.                                                            *)

\* The guards are up, with all their rules, under a slot that network.active
\* names, and a way back to that slot would keep them so.
GuardsUp == active.slot \in Slots /\ \A g \in Guards : InEffect(g)

Capturing == \E c \in Captures : Live(c) /\ Lan(c) # {}

Unmarked == ~owned /\ Clean

\* What the promise says of a state, from the rules.
LEMMA Levels == ASSUME NetworkAssumption, TypeOK
  PROVE  /\ Level = "clean" <=> Unmarked
         /\ Level = "capturing" <=> GuardsUp /\ Capturing
         /\ Level = "guarded" <=> GuardsUp /\ ~Capturing
         /\ Level \in Promise!Levels
<1>1. Unmarked => ~GuardsUp
  BY NetworkAssumption DEF Unmarked, Clean, GuardsUp, InEffect, Live, Groups
<1> QED
  BY <1>1 DEF Level, Unmarked, GuardsUp, Capturing, Promise!Levels, Promise!Held

\* The same of the next state.
LEMMA LevelsNext == ASSUME NetworkAssumption, TypeOK'
  PROVE  /\ Level' = "clean" <=> Unmarked'
         /\ Level' = "capturing" <=> GuardsUp' /\ Capturing'
         /\ Level' = "guarded" <=> GuardsUp' /\ ~Capturing'
         /\ Level' \in Promise!Levels
<1>1. Unmarked' => ~GuardsUp'
  BY NetworkAssumption DEF Unmarked, Clean, GuardsUp, InEffect, Live, Groups
<1> QED
  BY <1>1 DEF Level, Unmarked, GuardsUp, Capturing, Promise!Levels, Promise!Held

\* The steps of a script.
Script == Stops \/ Starts \/ Syncs \/ Fail \/ Kill

\* Syncs and preparations keep the guards.
LEMMA GuardsStay ==
  ASSUME NetworkAssumption, IInv, Script, act \in {"prepare", "sync"}, GuardsUp
  PROVE  GuardsUp'
<1> USE NetworkAssumption DEF IInv, Facts, TypeOK, GuardsUp, InEffect, Live, Groups, Slots, Plan, Stopping,
      packets, routing, files, task, loop, Goto
<1>1. CASE Stops
  BY <1>1 DEF Stops, StopBegin, Unhook, Flush, Drop, Unrule, Unroute, Forget, Settle, Disown
<1>2. CASE Jump
  BY <1>2 DEF Jump, SwitchNext
<1>3. CASE Entry
  <2>1. Target \in Slots /\ \A g \in Guards : chain[g][Target] = "full"
    BY <1>3 DEF Entry, Target, NextSlot, SwitchProgress, Switching, NewReady
  <2>2. wrap' = [wrap EXCEPT ![grp] = Target] /\ UNCHANGED <<hook, chain, active>>
    BY <1>3 DEF Entry
  <2> QED
    BY ONLY <2>1, <2>2, NetworkAssumption, IInv, GuardsUp
    DEF IInv, TypeOK, GuardsUp, InEffect, Live, Groups
<1>4. CASE Hook
  BY <1>4 DEF Hook
<1>5. CASE Commit
  <2>1. \A g \in Guards : hook[g] /\ wrap[g] = NextSlot /\ chain[g][NextSlot] = "full"
    BY <1>5 DEF Commit, Target, SwitchProgress, Switching, Switched, NewReady
  <2>2. active'.slot = NextSlot /\ NextSlot \in Slots /\ UNCHANGED <<hook, wrap, chain>>
    BY <1>5 DEF Commit, NextSlot
  <2> QED
    BY ONLY <2>1, <2>2 DEF GuardsUp, InEffect, Live
<1>6. CASE Build
  <2>1. NextSlot \in Slots \ {active.slot} /\ \A g \in Guards : wrap[g] = active.slot
    BY <1>6 DEF Build, NextSlot, StartProgress, OneSlot
  <2>2. PICK g \in Groups : chain' = [chain EXCEPT ![g][NextSlot] = "partial"]
    BY <1>6 DEF Build
  <2>3. \A h \in Guards : chain'[h][active.slot] = chain[h][active.slot]
    BY <2>1, <2>2
  <2>4. UNCHANGED <<hook, wrap, active>>
    BY <1>6 DEF Build
  <2> QED
    BY ONLY <2>1, <2>3, <2>4, GuardsUp DEF GuardsUp, InEffect, Live
<1>7. CASE Fill
  <2>1. \A g \in Guards, s \in Slots : chain[g][s] = "full" => chain'[g][s] = "full"
    BY <1>7 DEF Fill
  <2>2. UNCHANGED <<hook, wrap, active>>
    BY <1>7 DEF Fill
  <2> QED
    BY ONLY <2>1, <2>2, GuardsUp DEF GuardsUp, InEffect, Live
<1>8. CASE Starts /\ ~(Jump \/ Entry \/ Hook \/ Commit \/ Build \/ Fill)
  <2>1. UNCHANGED <<hook, wrap, chain, active>>
    BY ONLY <1>8 DEF Starts, Start, Claim, AddRoute, AddRule, Pend, Unpend, packets, routing, files
  <2> QED
    BY ONLY <2>1, GuardsUp DEF GuardsUp, InEffect, Live
<1>9. CASE PauseOne
  BY <1>9 DEF PauseOne, PauseProgress, End
<1>10. CASE Sync \/ Fail \/ Kill
  BY <1>10 DEF Sync, Pause, Fail, Kill, Undo, Switch, Stop, End, Break
<1> QED
  BY <1>1, <1>2, <1>3, <1>4, <1>5, <1>6, <1>7, <1>8, <1>9, <1>10 DEF Script, Syncs

\* Stops and checks only take away.
LEMMA NothingGained ==
  ASSUME NetworkAssumption, IInv, Script, act \in {"stop", "check"}
  PROVE  /\ GuardsUp' => GuardsUp
         /\ Capturing' => Capturing
         /\ act = "stop" /\ ~owned => ~owned'
<1> USE NetworkAssumption DEF IInv, Facts, TypeOK, GuardsUp, Capturing, InEffect, Live, Lan, Groups, Slots, Plan,
      Stopping, Starting, packets, routing, files, task, loop, Goto
<1>1. CASE StopBegin \/ Disown
  BY <1>1 DEF StopBegin, Disown, Stopped, End
<1>2. CASE Unhook
  BY <1>2 DEF Unhook, StopNext
<1>3. CASE Flush
  BY <1>3 DEF Flush
<1>4. CASE Drop
  <2>1. /\ wrap'[grp] \notin Slots
        /\ \A g \in Groups \ {grp} : wrap'[g] = wrap[g] /\ chain'[g] = chain[g]
        /\ UNCHANGED <<hook, active, owned>>
    BY <1>4 DEF Drop, StopProgress
  <2>2. \A g \in Groups \ {grp} : wrap[g] \in Slots => built'[wrap[g]] = built[wrap[g]]
    BY <1>4 DEF Drop, StopProgress, Gone
  <2>3. hook[grp] = FALSE
    BY <1>4 DEF Drop, StopProgress
  <2> QED
    BY <2>1, <2>2, <2>3
<1>5. CASE Unrule \/ Unroute \/ Forget \/ Settle
  BY <1>5 DEF Unrule, Unroute, Forget, Settle
<1>6. CASE Claim
  BY <1>6 DEF Claim
<1>7. CASE Build
  <2>1. NextSlot # active.slot /\ \A g \in Groups : wrap[g] \in Slots => wrap[g] = active.slot
    BY <1>7 DEF Build, NextSlot, StartProgress, OneSlot
  <2>2. PICK g \in Groups : chain' = [chain EXCEPT ![g][NextSlot] = "partial"]
    BY <1>7 DEF Build
  <2>3. /\ \A h \in Guards, s \in Slots : chain'[h][s] = "full" => chain[h][s] = "full"
        /\ built'[active.slot] = built[active.slot] \/ active.slot \notin Slots
    BY <1>7, <2>1, <2>2 DEF Build, NextSlot
  <2>4. UNCHANGED <<hook, wrap, active, owned>>
    BY <1>7 DEF Build
  <2> QED
    BY <2>1, <2>3, <2>4
<1>8. CASE Fill
  BY <1>8 DEF Fill, NextSlot, Stop, StartProgress, Settled, OneSlot
<1>9. CASE Starts /\ ~(Claim \/ Build \/ Fill)
  BY <1>9 DEF Starts, Start, AddRoute, AddRule, Pend, Jump, Entry, Hook, Commit, Unpend
<1>10. CASE Syncs
  BY <1>10 DEF Syncs, Sync, PauseOne
<1>11. CASE Fail \/ Kill
  BY <1>11 DEF Fail, Kill, Undo, Switch, Stop, End, Break
<1> QED
  BY <1>1, <1>2, <1>3, <1>4, <1>5, <1>6, <1>7, <1>8, <1>9, <1>10, <1>11 DEF Script, Stops

\* A script that has ended well was the one that ran.
LEMMA ScriptEnds ==
  ASSUME NEW r \in {"ok", "fail"}, End(r)
  PROVE  at' = "idle" /\ (result' = "fail" \/ (result' = "ok" /\ act' = act))
BY DEF End

\* While a script runs its promise does.
LEMMA ScriptRuns ==
  ASSUME IInv, Script
  PROVE  /\ at # "idle" /\ act \in Promise!Scripts
         /\ at' # "idle" => act' = act
         /\ at' = "idle" => result' = "fail" \/ (result' = "ok" /\ act' = act)
<1> USE DEF IInv, Facts, TypeOK, Plan, Stopping, Starting, task, Goto
<1>1. at # "idle" /\ act \in Promise!Scripts
  BY DEF Script, Stops, StopBegin, Unhook, Flush, Drop, Unrule, Unroute, Forget, Settle, Disown,
    Starts, Start, Claim, AddRoute, AddRule, Build, Fill, Pend, Jump, Entry, Hook, Commit, Unpend,
    Syncs, Sync, PauseOne, Fail, Kill, Promise!Scripts
<1>2. CASE StopBegin \/ Disown
  BY <1>1, <1>2, ScriptEnds DEF StopBegin, Disown, Stopped
<1>3. CASE Stops /\ ~(StopBegin \/ Disown)
  BY <1>1, <1>3 DEF Stops, Unhook, Flush, Drop, Unrule, Unroute, Forget, Settle
<1>4. CASE Unpend
  BY <1>1, <1>4, ScriptEnds DEF Unpend
<1>5. CASE Starts /\ ~Unpend
  BY <1>1, <1>5 DEF Starts, Start, Claim, AddRoute, AddRule, Build, Fill, Pend, Jump, Entry, Hook,
    Commit, Switch, Stop
<1>6. CASE Sync
  BY <1>1, <1>6 DEF Sync, Pause
<1>7. CASE PauseOne
  BY <1>1, <1>7, ScriptEnds DEF PauseOne
<1>8. CASE Fail
  BY <1>1, <1>8, ScriptEnds DEF Fail, Undo, Switch, Stop
<1>9. CASE Kill
  BY <1>1, <1>9, ScriptEnds DEF Kill
<1> QED
  BY <1>1, <1>2, <1>3, <1>4, <1>5, <1>6, <1>7, <1>8, <1>9 DEF Script, Stops, Starts, Syncs

\* A preparation that succeeds leaves guarded listeners.
LEMMA PrepareEnds ==
  ASSUME NetworkAssumption, IInv, IInv', Script, act = "prepare", at' = "idle", result' = "ok"
  PROVE  GuardsUp' /\ ~Capturing'
<1>1. Unpend /\ goal = "new"
  <2> USE DEF IInv, Facts, TypeOK, Plan, Stopping, Starting, Goto
  <2>1. CASE Stops
    BY <2>1 DEF Stops, StopBegin, Stopped, Unhook, Flush, Drop, Unrule, Unroute, Forget, Settle, Disown, End
  <2>2. CASE Starts
    BY <2>2 DEF Starts, Start, Claim, AddRoute, AddRule, Build, Fill, Pend, Jump, Entry, Hook,
      Commit, Unpend, Switch, Stop, End
  <2>3. CASE Syncs
    BY <2>3 DEF Syncs, Sync, PauseOne
  <2>4. CASE Fail \/ Kill
    BY <2>4 DEF Fail, Kill, Undo, Switch, Stop, End, Break
  <2> QED
    BY <2>1, <2>2, <2>3, <2>4 DEF Script
<1>2. /\ active.slot \in Slots /\ active.net = sel /\ sel.lan = {}
      /\ \A g \in Groups :
           hook[g] /\ wrap[g] = active.slot /\ chain[g][active.slot] = "full"
  BY <1>1 DEF Unpend, IInv, Facts, SwitchProgress, Plan
<1>3. UNCHANGED <<hook, wrap, chain, built, active>>
  BY <1>1 DEF Unpend, packets
<1>4. \A g \in Groups : built[wrap[g]] = sel
  BY <1>2 DEF IInv, Facts, Kept
<1> QED
  BY <1>2, <1>3, <1>4 DEF GuardsUp, Capturing, InEffect, Live, Lan, Groups

\* A step of a script is one that the promise allows.
LEMMA ScriptMay ==
  ASSUME NetworkAssumption, IInv, IInv', Script
  PROVE  Level' \in Promise!May(act, Level)
<1> USE DEF Promise!May, Promise!Levels, Promise!Held
<1>1. TypeOK /\ TypeOK' /\ act \in Promise!Scripts
  BY ScriptRuns DEF IInv
<1>2. /\ Level' = "clean" <=> Unmarked'
      /\ Level' = "capturing" <=> GuardsUp' /\ Capturing'
      /\ Level' = "guarded" <=> GuardsUp' /\ ~Capturing'
      /\ Level' \in Promise!Levels
  BY <1>1, LevelsNext
<1>3. CASE act \in {"prepare", "sync"}
  BY <1>1, <1>2, <1>3, Levels, GuardsStay
<1>4. CASE act \in {"stop", "check"}
  <2>1. act = "stop" /\ Unmarked => Unmarked'
    BY <1>4, NothingGained DEF Unmarked, IInv, Facts, Marked
  <2> QED
    BY <1>1, <1>2, <1>4, <2>1, Levels, NothingGained
<1> QED
  BY <1>1, <1>3, <1>4 DEF Promise!Scripts

\* Every step is one of the promise, or a stutter.
LEMMA PromiseStep ==
  ASSUME NetworkAssumption, IInv, IInv', [Next]_vars
  PROVE  [Promise!Next]_(Promise!promise)
<1> USE DEF Promise!promise
<1>1. ASSUME NEW a \in Promise!Scripts, Begin(a) PROVE Promise!Begin(a)
  BY <1>1 DEF Begin, Promise!Begin, Promise!Scripts, Level, Clean, InEffect, Live, Lan, packets, routing, files
<1>2. CASE Script /\ at' # "idle"
  <2>1. /\ at # "idle" /\ at' # "idle" /\ act' = act /\ act # "none"
        /\ Level' \in Promise!May(act, Level)
    BY <1>2, ScriptRuns, ScriptMay DEF Promise!Scripts
  <2>2. Promise!Work
    BY <2>1 DEF Promise!Work
  <2> QED
    BY <2>2 DEF Promise!Next
<1>3. CASE Script /\ at' = "idle"
  <2> DEFINE r == IF result' = "ok" THEN "ok" ELSE "fail"
  <2>1. r = "ok" => Level' \in Promise!Good(act)
    <3>1. CASE act \in {"stop", "check"}
      BY <1>3, <3>1, ScriptRuns, LevelsNext DEF IInv, Facts, CleanAfterStop, Unmarked, Promise!Good
    <3>2. CASE act = "prepare"
      BY <1>3, <3>2, PrepareEnds, LevelsNext DEF IInv, Promise!Good
    <3>3. CASE act = "sync"
      BY <3>3, LevelsNext DEF IInv, Promise!Good
    <3> QED
      BY <1>3, <3>1, <3>2, <3>3, ScriptRuns DEF Promise!Scripts
  <2>2. Promise!End(r)
    BY <1>3, <2>1, ScriptRuns, ScriptMay DEF Promise!End, Promise!Scripts
  <2> QED
    BY <2>2 DEF Promise!Next
<1>4. CASE Reboot
  <2>1. Clean' /\ owned' = owned
    BY <1>4 DEF Reboot, Clean, files
  <2>2. Level' = IF owned THEN "dirty" ELSE "clean"
    <3>1. ~GuardsUp'
      BY <2>1, NetworkAssumption DEF Clean, GuardsUp, InEffect, Live, Groups
    <3>2. Level' = "clean" <=> ~owned
      BY <2>1, LevelsNext DEF IInv, Unmarked
    <3> QED
      BY <3>1, <3>2, LevelsNext DEF IInv, TypeOK, Promise!Levels, Promise!Held
  <2>3. Level = "clean" <=> ~owned
    BY Levels DEF IInv, Facts, Marked, Unmarked
  <2>4. at = "idle" /\ at' = "idle" /\ result' = "fail"
    BY <1>4 DEF Reboot, End
  <2>5. Promise!Reboot
    BY <2>2, <2>3, <2>4 DEF Promise!Reboot, IInv, TypeOK
  <2> QED
    BY <2>5 DEF Promise!Next
<1>5. CASE Change \/ UNCHANGED vars
  BY <1>5 DEF Change, vars, packets, routing, files, task, Level, Clean, InEffect, Live, Lan
<1> QED
  BY <1>1, <1>2, <1>3, <1>4, <1>5 DEF Next, Script, Promise!Next, Promise!Scripts

\* The script implements its promise, for any groups, interfaces and addresses.
THEOREM PromiseIsKept == Spec => KeepsPromise
<1> USE NetworkAssumption
<1>1. Init => Promise!Init
  <2> SUFFICES ASSUME Init PROVE Promise!Init
    OBVIOUS
  <2>1. Unmarked /\ TypeOK
    BY InvInit DEF Init, Clean, Unmarked, IInv
  <2> QED
    BY <2>1, Levels DEF Promise!Init, Init
<1>2. IInv /\ IInv' /\ [Next]_vars => [Promise!Next]_(Promise!promise)
  BY PromiseStep
<1> QED
  BY <1>1, <1>2, Invariance, PTL DEF Spec, KeepsPromise, Promise!Spec
=============================================================================
