------------------------- MODULE MCWorkerSupervision -------------------------
(***************************************************************************)
(* Instances of WorkerSupervision for TLC.  Jobs and process ids are       *)
(* interchangeable: no definition names one of them or orders them.        *)
(***************************************************************************)
EXTENDS WorkerSupervision, TLC

Symmetry == Permutations(Job) \cup Permutations(Pid)
==============================================================================
