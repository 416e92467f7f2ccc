------------------------------ MODULE PassLoop ------------------------------
(***************************************************************************)
(* What the rest of the program may assume of reconciliation passes: they  *)
(* run one after the other, none begins after the program has closed its   *)
(* executor, and until then another one always begins.  WorkerSupervision  *)
(* starts from this contract.                                              *)
(***************************************************************************)
VARIABLES
  open,     \* passes may still begin
  running   \* a pass is under way

loopVars == <<open, running>>

Begin ==
  /\ open /\ ~running
  /\ running' = TRUE
  /\ UNCHANGED open

End ==
  /\ running
  /\ running' = FALSE
  /\ UNCHANGED open

Close ==
  /\ open
  /\ open' = FALSE
  /\ UNCHANGED running

LoopInit == open = TRUE /\ running = FALSE
LoopNext == Begin \/ End \/ Close

LoopSafety == LoopInit /\ [][LoopNext]_loopVars
LoopSpec   == LoopSafety /\ WF_loopVars(Begin) /\ WF_loopVars(End)
==============================================================================
