---------------------------- MODULE AtomicRelease ----------------------------
(***************************************************************************)
(* What `make release' promises about dist/: a run replaces the visible    *)
(* release in one step or leaves it alone, and reports which.              *)
(***************************************************************************)
CONSTANTS Versions, None

VARIABLES
  visible,   \* the release in dist/, or the one recovery will put back there
  building,  \* the version of the run in progress, None without one
  committed, \* this run has replaced the visible release
  report     \* what the last run said: "none", "success" or "failure"

releaseVars == <<visible, building, committed, report>>

Init == visible = None /\ building = None /\ committed = FALSE /\ report = "none"

Begin(v) ==
  /\ building = None
  /\ building' = v /\ report' = "none"
  /\ UNCHANGED <<visible, committed>>

Commit ==
  /\ building # None /\ ~committed
  /\ visible' = building /\ committed' = TRUE
  /\ UNCHANGED <<building, report>>

(* Success is reported only of a run that has committed, failure only of   *)
(* one that has not.                                                       *)
End ==
  /\ building # None
  /\ building' = None
  /\ report' = IF committed THEN "success" ELSE "failure"
  /\ committed' = FALSE
  /\ UNCHANGED visible

(* A run may die at any moment, and then says nothing. *)
Crash ==
  /\ building # None
  /\ building' = None /\ committed' = FALSE
  /\ UNCHANGED <<visible, report>>

Next == (\E v \in Versions : Begin(v)) \/ Commit \/ End \/ Crash

Spec == Init /\ [][Next]_releaseVars
=============================================================================
