------------------------------ MODULE JobStates ------------------------------
(***************************************************************************)
(* The durable status of a job row (models.py) and the transitions that    *)
(* JobRepository.transition accepts (database.py).  "completed" stands for *)
(* both COMPLETED and COMPLETED_WITH_WARNINGS: every set and every row of  *)
(* the transition table treats the two alike.                              *)
(***************************************************************************)

JobStatus == {"waiting", "importing", "queued", "processing", "completed",
              "failed", "cancelled", "interrupted", "duplicate"}

ActiveStatus    == {"waiting", "importing", "queued", "processing"}
RetryableStatus == {"failed", "cancelled", "interrupted"}
TerminalStatus  == {"completed", "failed", "cancelled", "interrupted", "duplicate"}

\* Statuses that a worker's own manifest can carry when it is final.
ManifestFinalStatus == {"completed", "failed"}

AllowedTransitions ==
  [s \in JobStatus |->
     CASE s = "waiting"    -> {"importing", "queued", "failed", "cancelled", "duplicate"}
       [] s = "importing"  -> {"queued", "failed", "cancelled", "interrupted", "duplicate"}
       [] s = "queued"     -> {"processing", "failed", "cancelled", "interrupted"}
       [] s = "processing" -> {"completed", "failed", "cancelled", "interrupted"}
       [] OTHER            -> {}]
==============================================================================
