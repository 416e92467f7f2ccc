------------------------------- MODULE GpuSlot -------------------------------
(***************************************************************************)
(* What the supervision of the worker promises, without threads, files,    *)
(* crashes or mutexes: one slot, which stands for the GPU.  A job claims   *)
(* the free slot, starts at most one worker in it, and gives the slot back *)
(* only when that worker runs no more.  This is the contract that the      *)
(* docstring of WorkerRunner and the claim of JobRepository state.         *)
(***************************************************************************)
CONSTANTS Job, NoJob

VARIABLES
  holder,  \* the job whose row is processing
  slot     \* "free", "held" by a launch to come, "running" a worker, or "ended"

slotVars == <<holder, slot>>

Free == holder = NoJob /\ slot = "free"

ClaimSlot(j) ==
  /\ Free
  /\ holder' = j
  /\ slot' = "held"

StartWorker ==
  /\ slot = "held"
  /\ slot' = "running"
  /\ UNCHANGED holder

\* The launch is given up, or the worker ends or is killed.
EndWorker ==
  /\ slot \in {"held", "running"}
  /\ slot' = "ended"
  /\ UNCHANGED holder

ReleaseSlot ==
  /\ slot = "ended"
  /\ holder' = NoJob
  /\ slot' = "free"

SlotNext == (\E j \in Job : ClaimSlot(j)) \/ StartWorker \/ EndWorker \/ ReleaseSlot

SlotSpec == Free /\ [][SlotNext]_slotVars
==============================================================================
