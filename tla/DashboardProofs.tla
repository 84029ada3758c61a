--------------------------- MODULE DashboardProofs ---------------------------
(***************************************************************************)
(* The promises of Dashboard, for any number of installations.  IInv says  *)
(* what an installation knows of the link at each of its control points,   *)
(* and that the configuration a pending row goes back to keeps its link.   *)
(***************************************************************************)
EXTENDS Dashboard, TLAPS

\* What an installation knows.
Installing ==
  /\ at \in {"fetch", "row", "rename", "switch", "apply", "restore", "discard", "prune"}
       => call = "install" /\ id \in Ids
  /\ call = "install" /\ at \in {"recover", "fetch", "row"} => id \notin rows /\ id # None
  /\ at \in {"update", "controller"} => call # "install"
  /\ at # "idle" => call # "none"
  /\ at \notin {"idle", "discard"} => said = "none"
  /\ at = "discard" => said # "done"

\* Every directory and the link have a row; what the link names, and what it
\* named before, is there.
Linked ==
  /\ dirs \subseteq rows
  /\ at = "rename" => id \in rows /\ id # link
  /\ at \in {"switch", "apply", "restore"} => id \in dirs /\ id # previous
  /\ at \in {"switch", "apply", "restore"} => previous \in dirs \cup {None}
  /\ at = "switch" => link = previous
  /\ at \in {"apply", "restore", "prune"} => link = id /\ id \in dirs
  /\ at = "discard" => link \in {id, previous}
  /\ at \in {"idle", "discard"} /\ said = "failed" /\ call = "install" => link = previous
  /\ link \in dirs \cup {None}

\* The configuration that counts once the pending row is settled.
Base == IF prior = None THEN config ELSE prior

\* It keeps its link; only the task that changes it can leave a pending row.
Shown ==
  /\ Base.dash => link # None /\ (at \in {"switch", "apply", "restore"} => previous # None)
  /\ at \in {"fetch", "row", "rename", "switch", "apply", "update", "controller"} => prior = None
  /\ at = "prune" => ~Missing
  /\ InstallShows

Facts == Installing /\ Linked /\ Shown

IInv == TypeOK /\ Facts

-----------------------------------------------------------------------------
(* The invariant.                                                          *)

\* A configuration that a task writes is one.
LEMMA CandidateType == ASSUME NEW e \in BOOLEAN PROVE Candidate(e) \in Configs
BY DEF Candidate, Configs, Installed

\* Its settings can be changed.
LEMMA ConfigType ==
  ASSUME NEW f \in Configs, NEW e \in BOOLEAN
  PROVE  f.enabled \in BOOLEAN /\ [f EXCEPT !.enabled = e] \in Configs
BY DEF Configs

\* The invariant holds at first.
LEMMA InvInit == Init => IInv
BY DashboardAssumption
   DEF Init, IInv, TypeOK, Facts, Installing, Linked, Base, Shown, InstallShows, Configs, Missing

\* A step keeps the types.
LEMMA TypeStep == IInv /\ [Next]_vars => TypeOK'
<1> SUFFICES ASSUME IInv, [Next]_vars PROVE TypeOK'
  OBVIOUS
<1> USE DashboardAssumption DEF IInv, Facts, Installing, TypeOK, state, worker, Goto
<1>1. ASSUME NEW c \in {"install", "update", "controller"}, NEW i \in Ids \cup {None}, Begin(c, i)
     PROVE  TypeOK'
  BY <1>1 DEF Begin
<1>2. ASSUME Recover PROVE TypeOK'
  BY <1>2 DEF Recover, Return
<1>3. ASSUME Fetch PROVE TypeOK'
  BY <1>3 DEF Fetch, Return
<1>4. ASSUME Row PROVE TypeOK'
  BY <1>4 DEF Row, Return
<1>5. ASSUME Rename PROVE TypeOK'
  BY <1>5 DEF Rename, Return
<1>6. ASSUME Switch PROVE TypeOK'
  BY <1>6 DEF Switch, Discards
<1>7. ASSUME Apply PROVE TypeOK'
  BY <1>7, CandidateType, ConfigType DEF Apply, Missing, ApplyWorks, ApplyFails
<1>8. ASSUME Restore PROVE TypeOK'
  BY <1>8 DEF Restore, Discards
<1>9. ASSUME Discard PROVE TypeOK'
  BY <1>9 DEF Discard, Return
<1>10. ASSUME Prune PROVE TypeOK'
  BY <1>10 DEF Prune, Return
<1>11. ASSUME Update PROVE TypeOK'
  BY <1>11, CandidateType, ConfigType DEF Update, ApplyWorks, ApplyFails, Return
<1>12. ASSUME NEW enabled \in BOOLEAN, Controller(enabled) PROVE TypeOK'
  BY <1>12, CandidateType, ConfigType DEF Controller, ApplyWorks, ApplyFails, Return
<1>13. ASSUME Crash PROVE TypeOK'
  BY <1>13 DEF Crash, Return
<1>14. ASSUME UNCHANGED vars PROVE TypeOK'
  BY <1>14 DEF vars
<1> QED
  BY <1>1, <1>2, <1>3, <1>4, <1>5, <1>6, <1>7, <1>8, <1>9, <1>10, <1>11, <1>12, <1>13, <1>14
     DEF Next

\* A step keeps the facts.
LEMMA FactsStep == IInv /\ [Next]_vars => Facts'
<1> SUFFICES ASSUME IInv, [Next]_vars PROVE Facts'
  OBVIOUS
<1> USE DashboardAssumption DEF IInv, Facts, Installing, Linked, Base, Shown, InstallShows, Missing,
       TypeOK, Configs, state, worker, Goto
<1>1. ASSUME NEW c \in {"install", "update", "controller"}, NEW i \in Ids \cup {None}, Begin(c, i)
     PROVE  Facts'
  BY <1>1 DEF Begin
<1>2. ASSUME Recover PROVE Facts'
  BY <1>2 DEF Recover, Return
<1>3. ASSUME Fetch PROVE Facts'
  BY <1>3 DEF Fetch, Return
<1>4. ASSUME Row PROVE Facts'
  BY <1>4 DEF Row, Return
<1>5. ASSUME Rename PROVE Facts'
  BY <1>5 DEF Rename, Return
<1>6. ASSUME Switch PROVE Facts'
  BY <1>6 DEF Switch, Discards
<1>7. ASSUME Apply PROVE Facts'
  BY <1>7 DEF Apply, Missing, ApplyWorks, ApplyFails, Candidate, Installed
<1>8. ASSUME Restore PROVE Facts'
  BY <1>8 DEF Restore, Discards
<1>9. ASSUME Discard PROVE Facts'
  BY <1>9 DEF Discard, Return
<1>10. ASSUME Prune PROVE Facts'
  BY <1>10 DEF Prune, Return
<1>11. ASSUME Update PROVE Facts'
  BY <1>11 DEF Update, ApplyWorks, ApplyFails, Return, Candidate, Installed
<1>12. ASSUME NEW enabled \in BOOLEAN, Controller(enabled) PROVE Facts'
  BY <1>12 DEF Controller, ApplyWorks, ApplyFails, Return, Candidate, Installed
<1>13. ASSUME Crash PROVE Facts'
  BY <1>13 DEF Crash, Return
<1>14. ASSUME UNCHANGED vars PROVE Facts'
  BY <1>14 DEF vars
<1> QED
  BY <1>1, <1>2, <1>3, <1>4, <1>5, <1>6, <1>7, <1>8, <1>9, <1>10, <1>11, <1>12, <1>13, <1>14
     DEF Next

\* IInv is inductive.
THEOREM Invariance == Spec => []IInv
<1>1. IInv /\ [Next]_vars => IInv'
  BY TypeStep, FactsStep DEF IInv
<1> QED
  BY InvInit, <1>1, PTL DEF Spec

-----------------------------------------------------------------------------
(* What it gives.                                                          *)

\* The variables keep their types.
THEOREM TypeCorrect == Spec => []TypeOK
<1>1. IInv => TypeOK
  BY DEF IInv
<1> QED
  BY Invariance, <1>1, PTL

\* The link never names a dashboard that is not whole or has no row.
THEOREM LinkIsWhole == Spec => []LinkWhole
<1>1. IInv => LinkWhole
  BY DashboardAssumption DEF IInv, Facts, Linked, LinkWhole, Installed
<1> QED
  BY Invariance, <1>1, PTL

\* A settled configuration that serves a dashboard finds one.
THEOREM ShownDashboardExists == Spec => []ShownExists
<1>1. IInv => ShownExists
  BY DEF IInv, Facts, Shown, Base, ShownExists
<1> QED
  BY Invariance, <1>1, PTL

\* Neither the link nor the configuration names what is missing.
THEOREM NothingIsMissing == Spec => []NothingDangles
BY LinkIsWhole, ShownDashboardExists, PTL DEF NothingDangles

\* An installation that fails puts the link back.
THEOREM LinkIsRestored == Spec => []FailureRestores
<1>1. IInv => FailureRestores
  BY DEF IInv, Facts, Installing, Linked, FailureRestores
<1> QED
  BY Invariance, <1>1, PTL

\* After a successful installation the core serves the dashboard.
THEOREM DashboardIsShown == Spec => []InstallShows
<1>1. IInv => InstallShows
  BY DEF IInv, Facts, Shown
<1> QED
  BY Invariance, <1>1, PTL
=============================================================================
