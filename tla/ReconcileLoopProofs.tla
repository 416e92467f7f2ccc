------------------------- MODULE ReconcileLoopProofs -------------------------
(***************************************************************************)
(* Proofs about ReconcileLoop: types, the lock, the running worker's row,  *)
(* who still attends to a processing row, and the safety part of the       *)
(* contract PassLoop.                                                      *)
(***************************************************************************)
EXTENDS ReconcileLoop, TLAPS

\* The next-state relation as the list of its actions.
LEMMA NextIsOneAction ==
  ASSUME Next
  PROVE  \/ \E t \in Thread : Ask(t) \/ Submit(t) \/ SubmitRaises(t)
         \/ SchedulerTick \/ SchedulerEnds \/ ObserverEvent
         \/ \E j \in Job : \/ RecordingArrives(j) \/ Import(j) \/ Claim(j)
                           \/ ReadToEnd(j) \/ FinishRow(j) \/ FinishRaises(j)
                           \/ ProcessManual(j) \/ Retry(j)
         \/ StopButton \/ ChangeSettings \/ JoinObserver \/ JoinTimesOut
         \/ Quit \/ StopKnownWorker \/ CloseExecutor \/ Exit
         \/ BeginPass \/ Imported \/ NothingToClaim \/ Launch \/ LaunchFails
         \/ ReleasePass \/ PassRaises \/ WorkerEnds
  BY Zenon DEF Next, Request, UiProceeds, PassProceeds, WatcherProceeds, UiCommand

LEMMA InitTypes == Init => TypeOK
<1> SUFFICES ASSUME Init PROVE TypeOK
  OBVIOUS
<1>1. row \in [Job -> RowState] /\ queue \in Seq(Job)
  BY DEF Init, RowState
<1>2. /\ pc \in [Thread -> UiPc \cup WatchPc]
      /\ pc["ui"] \in UiPc
  BY DEF Init, Thread, Resident, AskPc, UiPc, WatchPc
<1>3. /\ locked \in BOOLEAN /\ submitted \in Nat
      /\ pass \in PassPc /\ (pass = "launch" => claimed \in Job)
      /\ claimed \in Job \cup {NoJob} /\ worker \in Job \cup {NoJob}
      /\ observing \in BOOLEAN /\ stop \in BOOLEAN /\ open \in BOOLEAN
  BY DEF Init, PassPc
<1>4. faults \in 0..MaxFaults
  BY FaultAssumption DEF Init
<1> QED BY <1>1, <1>2, <1>3, <1>4 DEF TypeOK

\* A thread that moves to an allowed place leaves pc well typed.
LEMMA GotoKeepsTypes ==
  ASSUME TypeOK, NEW t \in Thread, NEW p \in UiPc \cup WatchPc, t = "ui" => p \in UiPc,
         Goto(t, p)
  PROVE  pc' \in [Thread -> UiPc \cup WatchPc] /\ pc'["ui"] \in UiPc
  BY DEF TypeOK, Goto, Thread, Resident

LEMMA StepTypes == TypeOK /\ [Next]_vars => TypeOK'
<1> SUFFICES ASSUME TypeOK, [Next]_vars PROVE TypeOK'
  OBVIOUS
<1> USE JobAssumption, FaultAssumption DEF TypeOK
<1>u. CASE UNCHANGED vars
  BY <1>u DEF vars, executor
<1>1. ASSUME NEW t \in Thread, Ask(t) PROVE TypeOK'
  <2>1. /\ pc' \in [Thread -> UiPc \cup WatchPc] /\ pc'["ui"] \in UiPc
    BY <1>1, GotoKeepsTypes DEF Ask, AskPc, UiPc, WatchPc
  <2> QED BY <1>1, <2>1 DEF Ask, executor
<1>2. ASSUME NEW t \in Thread, Submit(t) PROVE TypeOK'
  <2>1. /\ pc' \in [Thread -> UiPc \cup WatchPc] /\ pc'["ui"] \in UiPc
    BY <1>2, GotoKeepsTypes DEF Submit, AskPc, UiPc, WatchPc
  <2> QED BY <1>2, <2>1 DEF Submit
<1>3. ASSUME NEW t \in Thread, SubmitRaises(t) PROVE TypeOK'
  <2>1. /\ pc' \in [Thread -> UiPc \cup WatchPc] /\ pc'["ui"] \in UiPc
    BY <1>3, GotoKeepsTypes DEF SubmitRaises, AskPc, UiPc, WatchPc
  <2> QED BY <1>3, <2>1 DEF SubmitRaises, executor
<1>4. CASE SchedulerTick \/ SchedulerEnds
  <2>1. /\ pc' \in [Thread -> UiPc \cup WatchPc] /\ pc'["ui"] \in UiPc
    BY <1>4, GotoKeepsTypes DEF SchedulerTick, SchedulerEnds, AskPc, UiPc, WatchPc, Thread, Resident
  <2> QED BY <1>4, <2>1 DEF SchedulerTick, SchedulerEnds, executor
<1>5. CASE ObserverEvent
  <2>1. /\ pc' \in [Thread -> UiPc \cup WatchPc] /\ pc'["ui"] \in UiPc
    BY <1>5, GotoKeepsTypes DEF ObserverEvent, AskPc, UiPc, WatchPc, Thread, Resident
  <2> QED BY <1>5, <2>1 DEF ObserverEvent, executor
<1>6. ASSUME NEW j \in Job, RecordingArrives(j) \/ Import(j) \/ Claim(j) PROVE TypeOK'
  <2>1. queue' \in Seq(Job)
    <3>1. CASE RecordingArrives(j) \/ Import(j)
      BY <3>1 DEF RecordingArrives, Import
    <3>2. CASE Claim(j)
      <4>1. queue # <<>> /\ queue' = Tail(queue) /\ queue \in Seq(Job)
        BY <3>2 DEF Claim
      <4> QED BY <4>1, SMT
    <3> QED BY <1>6, <3>1, <3>2
  <2> QED BY <1>6, <2>1 DEF RecordingArrives, Import, Claim, RowState, PassPc, executor
<1>7. ASSUME NEW j \in Job, ReadToEnd(j) \/ FinishRow(j) PROVE TypeOK'
  <2>1. /\ pc' \in [Thread -> UiPc \cup WatchPc] /\ pc'["ui"] \in UiPc
    BY <1>7, GotoKeepsTypes DEF ReadToEnd, FinishRow, AskPc, UiPc, WatchPc, Thread, Resident
  <2> QED BY <1>7, <2>1 DEF ReadToEnd, FinishRow, RowState, executor
<1>18. ASSUME NEW j \in Job, FinishRaises(j) PROVE TypeOK'
  <2>1. /\ pc' \in [Thread -> UiPc \cup WatchPc] /\ pc'["ui"] \in UiPc
    BY <1>18, GotoKeepsTypes DEF FinishRaises, AskPc, UiPc, WatchPc, Thread, Resident
  <2>2. faults' \in 0..MaxFaults
    BY <1>18 DEF FinishRaises
  <2> QED BY <1>18, <2>1, <2>2 DEF FinishRaises, executor
<1>8. ASSUME NEW j \in Job, ProcessManual(j) \/ Retry(j) PROVE TypeOK'
  <2>1. /\ pc' \in [Thread -> UiPc \cup WatchPc] /\ pc'["ui"] \in UiPc
    BY <1>8, GotoKeepsTypes DEF ProcessManual, Retry, AskPc, UiPc, WatchPc, Thread, Resident
  <2>2. queue' \in Seq(Job)
    BY <1>8 DEF ProcessManual, Retry
  <2> QED BY <1>8, <2>1, <2>2 DEF ProcessManual, Retry, RowState, executor
<1>9. CASE StopButton \/ WorkerEnds
  BY <1>9 DEF StopButton, WorkerEnds, executor
<1>10. CASE ChangeSettings \/ JoinObserver \/ JoinTimesOut
  <2>1. \E p \in {"joining", "idle", "asking"} : Goto("ui", p)
    BY <1>10 DEF ChangeSettings, JoinObserver, JoinTimesOut, Rewatch
  <2>2. /\ pc' \in [Thread -> UiPc \cup WatchPc] /\ pc'["ui"] \in UiPc
    BY <2>1, GotoKeepsTypes DEF AskPc, UiPc, WatchPc, Thread, Resident
  <2> QED BY <1>10, <2>2 DEF ChangeSettings, JoinObserver, JoinTimesOut, Rewatch, executor
<1>11. CASE Quit \/ StopKnownWorker \/ CloseExecutor
  <2>1. \E p \in UiPc : Goto("ui", p)
    BY <1>11 DEF Quit, StopKnownWorker, CloseExecutor, UiPc
  <2>2. /\ pc' \in [Thread -> UiPc \cup WatchPc] /\ pc'["ui"] \in UiPc
    BY <2>1, GotoKeepsTypes DEF Thread, Resident
  <2>3. CASE Quit
    BY <2>2, <2>3 DEF Quit, executor
  <2>4. CASE StopKnownWorker
    BY <2>2, <2>4 DEF StopKnownWorker, executor
  <2>5. CASE CloseExecutor
    BY <2>2, <2>5 DEF CloseExecutor
  <2> QED BY <1>11, <2>3, <2>4, <2>5
<1>12. CASE Exit
  <2>1. /\ pc' \in [Thread -> UiPc \cup WatchPc] /\ pc'["ui"] \in UiPc
    BY <1>12 DEF Exit, AskPc, UiPc, WatchPc, Thread, Resident
  <2> QED BY <1>12, <2>1 DEF Exit, executor
<1>13. CASE BeginPass
  <2>1. submitted' \in Nat
    BY <1>13 DEF BeginPass
  <2>2. pass' \in PassPc /\ pass' # "launch"
    BY <1>13 DEF BeginPass, PassPc
  <2> QED BY <1>13, <2>1, <2>2, Zenon DEF BeginPass
<1>16. CASE Imported \/ NothingToClaim \/ ReleasePass
  BY <1>16 DEF Imported, NothingToClaim, ReleasePass, PassPc
<1>17. CASE PassRaises
  <2>1. faults' \in 0..MaxFaults
    BY <1>17 DEF PassRaises
  <2> QED BY <1>17, <2>1 DEF PassRaises, PassPc
<1>14. CASE Launch
  <2>1. /\ pc' \in [Thread -> UiPc \cup WatchPc] /\ pc'["ui"] \in UiPc
    BY <1>14, GotoKeepsTypes DEF Launch, AskPc, UiPc, WatchPc, Thread, Resident
  <2> QED BY <1>14, <2>1 DEF Launch, PassPc
<1>15. CASE LaunchFails
  <2>1. row' \in [Job -> RowState]
    BY <1>15 DEF LaunchFails, RowState
  <2> QED BY <1>15, <2>1 DEF LaunchFails, PassPc
<1> HIDE DEF TypeOK
<1> QED
  BY <1>u, <1>1, <1>2, <1>3, <1>4, <1>5, <1>6, <1>7, <1>8, <1>9, <1>10, <1>11, <1>12,
     <1>13, <1>14, <1>15, <1>16, <1>17, <1>18, NextIsOneAction, Zenon

\* TypeOK: every variable of the threads and the executor keeps its type.
THEOREM ThreadsKeepTypes == Spec => []TypeOK
<1>1. TypeOK /\ [Next]_vars => TypeOK'
  BY StepTypes
<1> QED BY <1>1, InitTypes, PTL DEF Spec

------------------------------------------------------------------------------
\* Quit closes the executor before the UI thread stops the worker again, and a
\* closed executor has nothing waiting.
ClosedInv ==
  /\ pc["ui"] \in {"stoppingAgain", "exiting", "exited"} => ~open
  /\ ~open => submitted = 0

RequestInv == TypeOK /\ LockIsOneRequest /\ ClosedInv

\* Where a thread goes decides whether it is submitting.
LEMMA GotoSubmitting ==
  ASSUME TypeOK, NEW t \in Thread, NEW p, Goto(t, p)
  PROVE  /\ p # "submitting" => Submitting' = Submitting \ {t}
         /\ p = "submitting" => Submitting' = Submitting \cup {t}
         /\ pc'["ui"] = IF t = "ui" THEN p ELSE pc["ui"]
<1>1. pc' = [u \in Thread |-> IF u = t THEN p ELSE pc[u]]
  BY DEF Goto, TypeOK
<1>2. "ui" \in Thread
  BY DEF Thread, Resident
<1> QED BY <1>1, <1>2 DEF Submitting, At

\* A step that leaves the lock and the executor alone, and moves at most a
\* thread that is not submitting, and not to there.
LEMMA QuietStep ==
  ASSUME RequestInv, UNCHANGED <<locked, executor, open>>,
         NEW t \in Thread, NEW p, p # "submitting", ~At(t, "submitting"), Goto(t, p),
         t = "ui" => p \notin {"stoppingAgain", "exiting", "exited"} \/ ~open
  PROVE  LockIsOneRequest' /\ ClosedInv'
<1>1. Submitting' = Submitting
  BY GotoSubmitting DEF RequestInv, Submitting, At
<1>2. LockIsOneRequest'
  BY <1>1, Zenon DEF RequestInv, LockIsOneRequest, executor
<1>3. pc'["ui"] \in {"stoppingAgain", "exiting", "exited"} => ~open
  BY GotoSubmitting DEF RequestInv, ClosedInv
<1> QED BY <1>2, <1>3 DEF RequestInv, ClosedInv, executor

\* The same for a step that moves no thread.
LEMMA StillStep ==
  ASSUME RequestInv, UNCHANGED <<locked, executor, open, pc>>
  PROVE  LockIsOneRequest' /\ ClosedInv'
<1>1. Submitting' = Submitting
  BY Zenon DEF Submitting, At
<1>2. LockIsOneRequest'
  BY <1>1, Zenon DEF RequestInv, LockIsOneRequest, executor
<1> QED BY <1>2 DEF RequestInv, ClosedInv, executor

\* A step within the pass: nothing is being submitted and nothing waits.
LEMMA PassStep ==
  ASSUME RequestInv, pass # "idle", pass' # "idle", UNCHANGED <<locked, submitted, open>>,
         \/ UNCHANGED pc
         \/ \E j \in Job : ~At(j, "submitting") /\ Goto(j, "reading")
  PROVE  LockIsOneRequest' /\ ClosedInv'
<1>1. /\ Submitting' = Submitting
      /\ pc'["ui"] = pc["ui"]
  <2>1. CASE UNCHANGED pc
    BY <2>1, Zenon DEF Submitting, At
  <2>2. ASSUME NEW j \in Job, ~At(j, "submitting"), Goto(j, "reading")
        PROVE  Submitting' = Submitting /\ pc'["ui"] = pc["ui"]
    BY <2>2, GotoSubmitting, JobAssumption
       DEF RequestInv, Submitting, At, Thread, Resident
  <2> QED BY <2>1, <2>2
<1>2. LockIsOneRequest'
  BY <1>1, Zenon DEF RequestInv, LockIsOneRequest
<1> QED BY <1>1, <1>2 DEF RequestInv, ClosedInv

LEMMA StepRequests == RequestInv /\ [Next]_vars => LockIsOneRequest' /\ ClosedInv'
<1> SUFFICES ASSUME RequestInv, [Next]_vars PROVE LockIsOneRequest' /\ ClosedInv'
  OBVIOUS
<1>t. TypeOK
  BY DEF RequestInv
<1>r. {"ui", "scheduler", "observer"} \subseteq Thread /\ Job \subseteq Thread
  BY DEF Thread, Resident
<1>u. CASE UNCHANGED vars
  BY <1>u, StillStep DEF vars
<1>1. ASSUME NEW t \in Thread, Ask(t) PROVE LockIsOneRequest' /\ ClosedInv'
  <2>1. CASE locked
    <3>1. Goto(t, "idle") /\ locked' = locked
      BY <1>1, <2>1, <1>t DEF Ask, TypeOK
    <3> QED BY <1>1, <3>1, QuietStep DEF Ask, At
  <2>2. CASE ~locked
    <3>1. Submitting' = Submitting \cup {t} /\ pc'["ui"] = (IF t = "ui" THEN "submitting" ELSE pc["ui"])
      BY <1>1, <2>2, <1>t, GotoSubmitting DEF Ask
    <3>2. open => Submitting = {} /\ submitted = 0 /\ pass = "idle"
      BY <2>2 DEF RequestInv, LockIsOneRequest
    <3>3. LockIsOneRequest'
      BY <1>1, <3>1, <3>2 DEF Ask, LockIsOneRequest, executor
    <3> QED BY <1>1, <3>1, <3>3 DEF Ask, RequestInv, ClosedInv, executor
  <2> QED BY <2>1, <2>2
<1>2. ASSUME NEW t \in Thread, Submit(t) PROVE LockIsOneRequest' /\ ClosedInv'
  <2>1. t \in Submitting /\ open /\ open' /\ locked' = locked /\ pass' = pass
    BY <1>2 DEF Submit, Submitting
  <2>2. Submitting = {t} /\ submitted = 0 /\ pass = "idle" /\ locked
    BY <2>1 DEF RequestInv, LockIsOneRequest
  <2>3. Submitting' = {} /\ pc'["ui"] = (IF t = "ui" THEN "idle" ELSE pc["ui"])
    BY <1>2, <2>2, <1>t, GotoSubmitting DEF Submit
  <2>4. submitted' = 1
    BY <1>2, <2>2 DEF Submit
  <2> QED BY <2>1, <2>2, <2>3, <2>4 DEF RequestInv, LockIsOneRequest, ClosedInv
<1>3. ASSUME NEW t \in Thread, SubmitRaises(t) PROVE LockIsOneRequest' /\ ClosedInv'
  BY <1>3 DEF SubmitRaises, RequestInv, LockIsOneRequest, ClosedInv, executor
<1>4. CASE SchedulerTick \/ SchedulerEnds \/ ObserverEvent
  <2>1. \E t \in {"scheduler", "observer"}, p \in {"asking", "dead"} :
          At(t, "idle") /\ Goto(t, p) /\ UNCHANGED <<locked, executor, open>>
    BY <1>4, Zenon DEF SchedulerTick, SchedulerEnds, ObserverEvent
  <2> QED BY <2>1, <1>r, QuietStep DEF At
<1>5. ASSUME NEW j \in Job, RecordingArrives(j) PROVE LockIsOneRequest' /\ ClosedInv'
  BY <1>5, StillStep DEF RecordingArrives
<1>6. ASSUME NEW j \in Job, ReadToEnd(j) \/ FinishRow(j) \/ FinishRaises(j)
      PROVE  LockIsOneRequest' /\ ClosedInv'
  <2>1. \E p \in {"finishing", "asking"} :
          ~At(j, "submitting") /\ Goto(j, p) /\ UNCHANGED <<locked, executor, open>>
    BY <1>6 DEF ReadToEnd, FinishRow, FinishRaises, At
  <2> QED BY <2>1, <1>r, QuietStep, JobAssumption DEF Resident
<1>7. CASE \/ \E j \in Job : ProcessManual(j) \/ Retry(j)
           \/ ChangeSettings \/ JoinObserver \/ JoinTimesOut \/ Quit
  <2>1. \E p \in {"joining", "idle", "asking", "stopping"} :
          ~At("ui", "submitting") /\ Goto("ui", p) /\ UNCHANGED <<locked, executor, open>>
    BY <1>7 DEF ProcessManual, Retry, ChangeSettings, JoinObserver, JoinTimesOut, Rewatch,
                Quit, At
  <2> QED BY <2>1, <1>r, QuietStep
<1>8. CASE StopButton \/ WorkerEnds
  BY <1>8, StillStep DEF StopButton, WorkerEnds
<1>9. CASE StopKnownWorker
  <2>1. CASE At("ui", "stopping")
    BY <1>9, <2>1, <1>r, QuietStep DEF StopKnownWorker, At
  <2>2. CASE At("ui", "stoppingAgain")
    BY <1>9, <2>2, <1>r, QuietStep DEF StopKnownWorker, At, RequestInv, ClosedInv
  <2> QED BY <1>9, <2>1, <2>2 DEF StopKnownWorker
<1>10. CASE CloseExecutor
  BY <1>10 DEF CloseExecutor, LockIsOneRequest, ClosedInv
<1>11. CASE Exit
  BY <1>11 DEF Exit, At, RequestInv, LockIsOneRequest, ClosedInv, executor
<1>12. CASE BeginPass
  <2>1. open /\ open' /\ pass = "idle" /\ pass' = "import" /\ locked' = locked
    BY <1>12, <1>t DEF BeginPass, RequestInv, ClosedInv, TypeOK
  <2>2. submitted = 1 /\ Submitting = {} /\ locked
    BY <1>12, <1>t, <2>1 DEF BeginPass, RequestInv, LockIsOneRequest, TypeOK
  <2>3. submitted' = 0 /\ Submitting' = {}
    BY <1>12, <2>2 DEF BeginPass, Submitting, At
  <2>4. LockIsOneRequest'
    BY <2>1, <2>2, <2>3 DEF LockIsOneRequest
  <2>5. ClosedInv'
    BY <1>12, <2>1, <2>3 DEF BeginPass, RequestInv, ClosedInv
  <2> QED BY <2>4, <2>5
<1>13. ASSUME NEW j \in Job, Import(j) PROVE LockIsOneRequest' /\ ClosedInv'
  BY <1>13, StillStep DEF Import
<1>14. ASSUME NEW j \in Job, Claim(j) PROVE LockIsOneRequest' /\ ClosedInv'
  BY <1>14, PassStep DEF Claim
<1>15. CASE Imported \/ NothingToClaim \/ LaunchFails \/ PassRaises
  <2>1. pass # "idle" /\ pass' # "idle" /\ UNCHANGED <<locked, submitted, open, pc>>
    BY <1>15 DEF Imported, NothingToClaim, LaunchFails, PassRaises
  <2> QED BY <2>1, PassStep
<1>16. CASE Launch
  <2>1. claimed \in Job
    BY <1>16, <1>t DEF Launch, TypeOK
  <2>2. CASE At(claimed, "submitting") /\ open
    BY <1>16, <2>1, <2>2, <1>r DEF Launch, RequestInv, LockIsOneRequest, Submitting
  <2>3. CASE ~open
    <3>1. pc'["ui"] = pc["ui"]
      BY <1>16, <1>t, <2>1, <1>r, GotoSubmitting, JobAssumption DEF Launch, Resident
    <3> QED BY <1>16, <2>3, <3>1 DEF Launch, RequestInv, LockIsOneRequest, ClosedInv
  <2>4. CASE ~At(claimed, "submitting")
    BY <1>16, <2>1, <2>4, PassStep DEF Launch
  <2> QED BY <2>2, <2>3, <2>4
<1>17. CASE ReleasePass
  <2>1. UNCHANGED <<pc, submitted, open>> /\ pass' = "idle" /\ locked' = FALSE /\ pass # "idle"
    BY <1>17 DEF ReleasePass
  <2>2. Submitting' = Submitting
    BY <2>1, Zenon DEF Submitting, At
  <2>3. open => Submitting = {} /\ submitted = 0
    BY <2>1 DEF RequestInv, LockIsOneRequest
  <2> QED BY <2>1, <2>2, <2>3 DEF RequestInv, LockIsOneRequest, ClosedInv
<1> QED
  BY <1>u, <1>1, <1>2, <1>3, <1>4, <1>5, <1>6, <1>7, <1>8, <1>9, <1>10, <1>11, <1>12,
     <1>13, <1>14, <1>15, <1>16, <1>17, NextIsOneAction, Zenon

LEMMA InitRequests == Init => LockIsOneRequest /\ ClosedInv
<1> SUFFICES ASSUME Init PROVE LockIsOneRequest /\ ClosedInv
  OBVIOUS
<1>1. Submitting = {} /\ pc["ui"] = "asking"
  BY DEF Init, Submitting, At, Thread, Resident
<1> QED BY <1>1 DEF Init, LockIsOneRequest, ClosedInv

LEMMA RequestsInductive == Spec => []RequestInv
<1>1. Init => RequestInv
  BY InitTypes, InitRequests DEF RequestInv
<1>2. RequestInv /\ [Next]_vars => RequestInv'
  BY StepTypes, StepRequests, Zenon DEF RequestInv
<1> QED BY <1>1, <1>2, PTL DEF Spec

\* LockIsOneRequest: for any number of jobs, the lock is held exactly while one
\* request is under way, until Quit closes the executor.
THEOREM OneRequestHoldsTheLock == Spec => []LockIsOneRequest
<1>1. RequestInv => LockIsOneRequest
  BY DEF RequestInv
<1> QED BY <1>1, RequestsInductive, PTL

------------------------------------------------------------------------------
\* Who is watched has a processing row; a claimed job is not watched yet and
\* nothing runs; a running worker is watched, unless its watcher is gone.
WorkerInv ==
  /\ WorkerKeepsItsRow
  /\ \A j \in Job : pc[j] \in {"reading", "finishing"} => row[j] = "processing"
  /\ pass = "launch" => /\ row[claimed] = "processing"
                        /\ pc[claimed] \notin {"reading", "finishing"}
                        /\ worker = NoJob
  /\ worker # NoJob => pc[worker] \in {"reading", "dead"}

\* A thread that moves changes nobody else's place.
LEMMA GotoOthers ==
  ASSUME TypeOK, NEW t \in Thread, NEW p, Goto(t, p)
  PROVE  \A u \in Thread : pc'[u] = IF u = t THEN p ELSE pc[u]
  BY DEF TypeOK, Goto

\* A request, or another thread that is no watcher, moves; rows stay.
LEMMA ThreadStep ==
  ASSUME TypeOK, WorkerInv, UNCHANGED <<row, pass, claimed, worker>>,
         NEW t \in Thread, NEW p, Goto(t, p), p \notin {"reading", "finishing"},
         t \in Job => pc[t] \notin {"reading", "dead"}
  PROVE  WorkerInv'
<1>1. \A j \in Job : pc'[j] = IF j = t THEN p ELSE pc[j]
  BY GotoOthers DEF Thread
<1>2. worker \in Job \cup {NoJob} /\ (pass = "launch" => claimed \in Job)
  BY DEF TypeOK
<1>3. WorkerKeepsItsRow'
  BY DEF WorkerInv, WorkerKeepsItsRow
<1>4. worker' # NoJob => pc'[worker'] \in {"reading", "dead"}
  BY <1>1, <1>2 DEF WorkerInv
<1> QED BY <1>1, <1>2, <1>3, <1>4 DEF WorkerInv

\* A row that is not processing changes; no thread becomes a watcher.
LEMMA RowStep ==
  ASSUME TypeOK, WorkerInv, UNCHANGED <<pass, claimed, worker>>,
         NEW j \in Job, NEW s, row' = [row EXCEPT ![j] = s], row[j] # "processing",
         \A i \in Job : pc'[i] = pc[i]
  PROVE  WorkerInv'
<1>1. \A i \in Job : row'[i] = IF i = j THEN s ELSE row[i]
  BY DEF TypeOK
<1>2. worker \in Job \cup {NoJob} /\ (pass = "launch" => claimed \in Job)
  BY DEF TypeOK
<1>3. WorkerKeepsItsRow'
  BY <1>1, <1>2 DEF WorkerInv, WorkerKeepsItsRow
<1>4. worker' # NoJob => pc'[worker'] \in {"reading", "dead"}
  BY <1>2 DEF WorkerInv
<1> QED BY <1>1, <1>2, <1>3, <1>4 DEF WorkerInv

\* A step after which the worker is the same or gone, rows and threads as before,
\* and no launch is about to happen that was not before.
LEMMA WorkerStep ==
  ASSUME TypeOK, WorkerInv, UNCHANGED <<row, claimed, pc>>,
         worker' \in {worker, NoJob}, pass' \in {pass, "import", "claim", "release", "idle"}
  PROVE  WorkerInv'
<1>1. WorkerKeepsItsRow'
  BY DEF WorkerInv, WorkerKeepsItsRow
<1>2. worker' # NoJob => pc'[worker'] \in {"reading", "dead"}
  BY DEF WorkerInv
<1> QED BY <1>1, <1>2 DEF WorkerInv

LEMMA StepWorker == TypeOK /\ WorkerInv /\ [Next]_vars => WorkerInv'
<1> SUFFICES ASSUME TypeOK, WorkerInv, [Next]_vars PROVE WorkerInv'
  OBVIOUS
<1>r. {"ui", "scheduler", "observer"} \subseteq Thread /\ Job \subseteq Thread
      /\ {"ui", "scheduler", "observer"} \cap Job = {}
  BY JobAssumption DEF Thread, Resident
<1>w. worker \in Job \cup {NoJob} /\ NoJob \notin Job
  BY JobAssumption DEF TypeOK
<1>u. CASE UNCHANGED vars
  BY <1>u, WorkerStep DEF vars, executor
<1>1. ASSUME NEW t \in Thread, Ask(t) \/ Submit(t) \/ SubmitRaises(t) PROVE WorkerInv'
  <2>1. /\ UNCHANGED <<row, pass, claimed, worker>>
        /\ pc[t] \in {"asking", "submitting"}
        /\ \E p \in {"idle", "submitting", "dead"} : Goto(t, p)
    BY <1>1 DEF Ask, Submit, SubmitRaises, At, executor
  <2> QED BY <2>1, ThreadStep
<1>2. CASE SchedulerTick \/ SchedulerEnds \/ ObserverEvent
  <2>1. /\ UNCHANGED <<row, pass, claimed, worker>>
        /\ \E t \in {"scheduler", "observer"}, p \in {"asking", "dead"} : Goto(t, p)
    BY <1>2, Zenon DEF SchedulerTick, SchedulerEnds, ObserverEvent, executor
  <2> QED BY <2>1, <1>r, ThreadStep
<1>3. ASSUME NEW j \in Job, RecordingArrives(j) \/ Import(j) PROVE WorkerInv'
  <2>1. \E s \in {"waiting", "queued"} : row' = [row EXCEPT ![j] = s]
    BY <1>3 DEF RecordingArrives, Import
  <2>2. row[j] # "processing" /\ UNCHANGED <<pc, pass, claimed, worker>>
    BY <1>3 DEF RecordingArrives, Import, executor
  <2> QED BY <2>1, <2>2, RowStep
<1>4. ASSUME NEW j \in Job, ProcessManual(j) \/ Retry(j) PROVE WorkerInv'
  <2>1. \E s \in {"waiting", "queued"} : row' = [row EXCEPT ![j] = s]
    BY <1>4 DEF ProcessManual, Retry
  <2>2. row[j] # "processing" /\ UNCHANGED <<pass, claimed, worker>> /\ Goto("ui", "asking")
    BY <1>4 DEF ProcessManual, Retry, executor
  <2>3. \A i \in Job : pc'[i] = pc[i]
    BY <2>2, <1>r, GotoOthers
  <2> QED BY <2>1, <2>2, <2>3, RowStep
<1>5. CASE StopButton \/ WorkerEnds
  BY <1>5, WorkerStep DEF StopButton, WorkerEnds, executor
<1>6. CASE ChangeSettings \/ JoinObserver \/ JoinTimesOut \/ Quit \/ CloseExecutor
  <2>1. /\ UNCHANGED <<row, pass, claimed, worker>>
        /\ \E p \in {"joining", "idle", "asking", "stopping", "stoppingAgain"} : Goto("ui", p)
    BY <1>6 DEF ChangeSettings, JoinObserver, JoinTimesOut, Rewatch, Quit, CloseExecutor, executor
  <2> QED BY <2>1, <1>r, ThreadStep
<1>7. CASE StopKnownWorker
  <2>1. /\ UNCHANGED <<row, pass, claimed>> /\ worker' \in {worker, NoJob}
        /\ \E p \in {"closing", "exiting"} : Goto("ui", p)
    BY <1>7 DEF StopKnownWorker, executor
  <2>2. \A i \in Job : pc'[i] = pc[i]
    BY <2>1, <1>r, GotoOthers
  <2>3. pass = "launch" => claimed \in Job
    BY DEF TypeOK
  <2> QED BY <2>1, <2>2, <2>3, <1>w DEF WorkerInv, WorkerKeepsItsRow
<1>8. CASE Exit
  <2>1. \A i \in Job : pc'[i] = "dead"
    BY <1>8, <1>r DEF Exit
  <2>2. UNCHANGED <<row, worker>> /\ pass' = "idle"
    BY <1>8 DEF Exit, executor
  <2> QED BY <2>1, <2>2, <1>w DEF WorkerInv, WorkerKeepsItsRow
<1>9. CASE BeginPass \/ Imported \/ NothingToClaim \/ ReleasePass \/ PassRaises
  <2>1. /\ UNCHANGED <<row, claimed, pc, worker>>
        /\ pass' \in {"import", "claim", "release", "idle"}
    BY <1>9 DEF BeginPass, Imported, NothingToClaim, ReleasePass, PassRaises
  <2> QED BY <2>1, WorkerStep
<1>10. ASSUME NEW j \in Job, Claim(j) PROVE WorkerInv'
  <2>1. \A i \in Job : row[i] # "processing"
    BY <1>10 DEF Claim, Processing
  <2>2. worker = NoJob
    BY <2>1, <1>w DEF WorkerInv, WorkerKeepsItsRow
  <2>3. \A i \in Job : pc[i] \notin {"reading", "finishing"}
    BY <2>1 DEF WorkerInv
  <2>4. row'[j] = "processing"
    BY <1>10 DEF Claim, TypeOK
  <2> QED BY <1>10, <2>2, <2>3, <2>4 DEF Claim, WorkerInv, WorkerKeepsItsRow
<1>11. CASE Launch
  <2>1. claimed \in Job /\ UNCHANGED row /\ worker' = claimed /\ pass' = "release"
        /\ Goto(claimed, "reading")
    BY <1>11 DEF Launch, TypeOK
  <2>2. \A i \in Job : pc'[i] = IF i = claimed THEN "reading" ELSE pc[i]
    BY <2>1, <1>r, GotoOthers
  <2>3. row[claimed] = "processing"
    BY <1>11 DEF Launch, WorkerInv
  <2> QED BY <2>1, <2>2, <2>3 DEF WorkerInv, WorkerKeepsItsRow
<1>12. CASE LaunchFails
  <2>1. claimed \in Job /\ worker' = NoJob /\ pass' = "release" /\ UNCHANGED pc
        /\ pc[claimed] \notin {"reading", "finishing"}
    BY <1>12 DEF LaunchFails, TypeOK, WorkerInv
  <2>2. \A i \in Job : i # claimed => row'[i] = row[i]
    BY <1>12 DEF LaunchFails, TypeOK
  <2> QED BY <2>1, <2>2 DEF WorkerInv, WorkerKeepsItsRow
<1>13. ASSUME NEW j \in Job, ReadToEnd(j) PROVE WorkerInv'
  <2>1. /\ UNCHANGED <<row, pass, claimed, worker>> /\ pc[j] = "reading" /\ worker # j
        /\ Goto(j, "finishing")
    BY <1>13 DEF ReadToEnd, At, executor
  <2>2. \A i \in Job : pc'[i] = IF i = j THEN "finishing" ELSE pc[i]
    BY <2>1, <1>r, GotoOthers
  <2>3. pass = "launch" => claimed \in Job
    BY DEF TypeOK
  <2> QED BY <2>1, <2>2, <2>3, <1>w DEF WorkerInv, WorkerKeepsItsRow
<1>14. ASSUME NEW j \in Job, FinishRow(j) PROVE WorkerInv'
  <2>1. /\ UNCHANGED <<pass, claimed, worker>> /\ pc[j] = "finishing" /\ Goto(j, "asking")
    BY <1>14 DEF FinishRow, At, executor
  <2>2. \A i \in Job : pc'[i] = IF i = j THEN "asking" ELSE pc[i]
    BY <2>1, <1>r, GotoOthers
  <2>3. \A i \in Job : i # j => row'[i] = row[i]
    BY <1>14 DEF FinishRow, TypeOK
  <2>4. worker # j /\ (pass = "launch" => claimed \in Job /\ claimed # j)
    BY <2>1, <1>w DEF WorkerInv, TypeOK
  <2>5. WorkerKeepsItsRow'
    BY <2>1, <2>3, <2>4, <1>w DEF WorkerInv, WorkerKeepsItsRow
  <2> QED BY <2>1, <2>2, <2>3, <2>4, <2>5, <1>w DEF WorkerInv
<1>15. ASSUME NEW j \in Job, FinishRaises(j) PROVE WorkerInv'
  <2>1. /\ UNCHANGED <<row, pass, claimed, worker>> /\ pc[j] = "finishing" /\ Goto(j, "asking")
    BY <1>15 DEF FinishRaises, At, executor
  <2> QED BY <2>1, <1>r, ThreadStep
<1> QED
  BY <1>u, <1>1, <1>2, <1>3, <1>4, <1>5, <1>6, <1>7, <1>8, <1>9, <1>10, <1>11, <1>12,
     <1>13, <1>14, <1>15, NextIsOneAction, Zenon

LEMMA InitWorker == Init => WorkerInv
<1> SUFFICES ASSUME Init PROVE WorkerInv
  OBVIOUS
<1>1. \A j \in Job : pc[j] = "idle"
  BY JobAssumption DEF Init, Thread, Resident
<1> QED BY <1>1 DEF Init, WorkerInv, WorkerKeepsItsRow

\* WorkerKeepsItsRow: while a worker runs, its row is processing, whatever the
\* user, Quit and the other threads do meanwhile.
THEOREM RunningRowIsProcessing == Spec => []WorkerKeepsItsRow
<1>1. TypeOK /\ WorkerInv /\ [Next]_vars => WorkerInv'
  BY StepWorker
<1>2. WorkerInv => WorkerKeepsItsRow
  BY DEF WorkerInv
<1> QED BY <1>1, <1>2, InitWorker, ThreadsKeepTypes, PTL DEF Spec

------------------------------------------------------------------------------
\* A step that moves no watcher and makes no row processing.
LEMMA MoveKeepsAttended ==
  ASSUME TypeOK, ProcessingIsAttended, UNCHANGED <<pass, claimed, faults>>,
         NEW t \in Thread, NEW p, Goto(t, p), pc[t] \notin {"reading", "finishing", "exited"},
         \A j \in Job : row'[j] = "processing" => row[j] = "processing"
  PROVE  ProcessingIsAttended'
<1>1. \A u \in Thread : pc'[u] = IF u = t THEN p ELSE pc[u]
  BY GotoOthers
<1>2. "ui" \in Thread /\ Job \subseteq Thread
  BY DEF Thread, Resident
<1>3. At("ui", "exited") => At("ui", "exited")'
  BY <1>1, <1>2 DEF At
<1>4. \A j \in Job : Attended(j) => Attended(j)'
  BY <1>1, <1>2 DEF Attended
<1> QED BY <1>3, <1>4 DEF ProcessingIsAttended, Abandoned, Processing

\* The same for a step that moves no thread.
LEMMA StillKeepsAttended ==
  ASSUME ProcessingIsAttended, UNCHANGED <<pc, claimed, faults>>,
         pass = "launch" => pass' = "launch",
         \A j \in Job : row'[j] = "processing" => row[j] = "processing"
  PROVE  ProcessingIsAttended'
<1>1. \A j \in Job : Attended(j) => Attended(j)'
  BY DEF Attended
<1> QED BY <1>1 DEF ProcessingIsAttended, Abandoned, Processing, At

LEMMA StepAttended == TypeOK /\ ProcessingIsAttended /\ [Next]_vars => ProcessingIsAttended'
<1> SUFFICES ASSUME TypeOK, ProcessingIsAttended, [Next]_vars PROVE ProcessingIsAttended'
  OBVIOUS
<1>r. {"ui", "scheduler", "observer"} \subseteq Thread /\ Job \subseteq Thread
      /\ {"ui", "scheduler", "observer"} \cap Job = {}
  BY JobAssumption DEF Thread, Resident
<1>f. faults \in Nat
  BY FaultAssumption DEF TypeOK
<1>u. CASE UNCHANGED vars
  BY <1>u, StillKeepsAttended DEF vars, executor
<1>1. ASSUME NEW t \in Thread, Ask(t) \/ Submit(t) \/ SubmitRaises(t)
      PROVE  ProcessingIsAttended'
  <2>1. /\ UNCHANGED <<row, pass, claimed, faults>> /\ pc[t] \in {"asking", "submitting"}
        /\ \E p \in {"idle", "submitting", "dead"} : Goto(t, p)
    BY <1>1 DEF Ask, Submit, SubmitRaises, At, executor
  <2> QED BY <2>1, MoveKeepsAttended
<1>2. CASE SchedulerTick \/ SchedulerEnds \/ ObserverEvent
  <2>1. /\ UNCHANGED <<row, pass, claimed, faults>>
        /\ \E t \in {"scheduler", "observer"}, p \in {"asking", "dead"} :
             pc[t] = "idle" /\ Goto(t, p)
    BY <1>2, Zenon DEF SchedulerTick, SchedulerEnds, ObserverEvent, executor, At
  <2> QED BY <2>1, <1>r, MoveKeepsAttended
<1>3. ASSUME NEW j \in Job, RecordingArrives(j) \/ Import(j) PROVE ProcessingIsAttended'
  <2>1. \A i \in Job : row'[i] = "processing" => row[i] = "processing"
    BY <1>3 DEF RecordingArrives, Import, TypeOK
  <2>2. UNCHANGED <<pc, pass, claimed, faults>>
    BY <1>3 DEF RecordingArrives, Import, executor
  <2> QED BY <2>1, <2>2, StillKeepsAttended
<1>4. ASSUME NEW j \in Job, ProcessManual(j) \/ Retry(j) PROVE ProcessingIsAttended'
  <2>1. \A i \in Job : row'[i] = "processing" => row[i] = "processing"
    BY <1>4 DEF ProcessManual, Retry, TypeOK
  <2>2. UNCHANGED <<pass, claimed, faults>> /\ pc["ui"] = "idle" /\ Goto("ui", "asking")
    BY <1>4 DEF ProcessManual, Retry, executor, At
  <2> QED BY <2>1, <2>2, <1>r, MoveKeepsAttended
<1>5. CASE StopButton \/ WorkerEnds
  BY <1>5, StillKeepsAttended DEF StopButton, WorkerEnds, executor
<1>6. CASE ChangeSettings \/ JoinObserver \/ JoinTimesOut \/ Quit \/ StopKnownWorker \/ CloseExecutor
  <2>1. /\ UNCHANGED <<row, pass, claimed, faults>>
        /\ pc["ui"] \in {"idle", "joining", "stopping", "closing", "stoppingAgain"}
        /\ \E p : Goto("ui", p)
    BY <1>6 DEF ChangeSettings, JoinObserver, JoinTimesOut, Rewatch, Quit, StopKnownWorker,
                CloseExecutor, executor, At
  <2> QED BY <2>1, <1>r, MoveKeepsAttended
<1>7. CASE Exit
  <2>1. At("ui", "exited")'
    BY <1>7, <1>r DEF Exit, At
  <2> QED BY <2>1 DEF ProcessingIsAttended
<1>8. CASE BeginPass \/ Imported \/ NothingToClaim \/ ReleasePass
  BY <1>8, StillKeepsAttended DEF BeginPass, Imported, NothingToClaim, ReleasePass
<1>9. ASSUME PassRaises \/ \E j \in Job : FinishRaises(j) PROVE ProcessingIsAttended'
  <2>1. faults' > 0
    BY <1>9, <1>f DEF PassRaises, FinishRaises
  <2> QED BY <2>1 DEF ProcessingIsAttended
<1>10. ASSUME NEW j \in Job, Claim(j) PROVE ProcessingIsAttended'
  <2>1. \A i \in Job : row'[i] = "processing" => i = j
    BY <1>10 DEF Claim, Processing, TypeOK
  <2>2. Attended(j)'
    BY <1>10 DEF Claim, Attended
  <2> QED BY <2>1, <2>2 DEF ProcessingIsAttended, Abandoned, Processing
<1>11. CASE Launch
  <2>1. claimed \in Job /\ UNCHANGED <<row, claimed, faults>> /\ Goto(claimed, "reading")
    BY <1>11 DEF Launch, TypeOK
  <2>2. \A u \in Thread : pc'[u] = IF u = claimed THEN "reading" ELSE pc[u]
    BY <2>1, <1>r, GotoOthers
  <2>3. \A j \in Job : Attended(j) => Attended(j)'
    BY <2>2, <1>r DEF Attended
  <2>4. pc'["ui"] = pc["ui"]
    BY <2>1, <2>2, <1>r
  <2> QED BY <2>1, <2>3, <2>4 DEF ProcessingIsAttended, Abandoned, Processing, At
<1>12. CASE LaunchFails
  <2>1. claimed \in Job /\ UNCHANGED <<pc, faults>>
    BY <1>12 DEF LaunchFails, TypeOK
  <2>2. \A j \in Job : row'[j] = "processing" => row[j] = "processing" /\ j # claimed
    BY <1>12, <2>1 DEF LaunchFails, TypeOK
  <2>3. \A j \in Job : j # claimed /\ Attended(j) => Attended(j)'
    BY <2>1 DEF Attended
  <2> QED BY <2>1, <2>2, <2>3 DEF ProcessingIsAttended, Abandoned, Processing, At
<1>13. ASSUME NEW j \in Job, ReadToEnd(j) \/ FinishRow(j) PROVE ProcessingIsAttended'
  <2>1. /\ UNCHANGED <<pass, claimed, faults>>
        /\ \E p \in {"finishing", "asking"} : Goto(j, p) /\ (p = "asking" => FinishRow(j))
    BY <1>13 DEF ReadToEnd, FinishRow, executor
  <2>2. PICK p \in {"finishing", "asking"} : Goto(j, p) /\ (p = "asking" => FinishRow(j))
    BY <2>1
  <2>3. \A u \in Thread : pc'[u] = IF u = j THEN p ELSE pc[u]
    BY <2>2, <1>r, GotoOthers
  <2>4. pc'["ui"] = pc["ui"]
    BY <2>3, <1>r
  <2>5. \A i \in Job : row'[i] = "processing" =>
          row[i] = "processing" /\ (i = j => p = "finishing")
    BY <1>13, <2>2 DEF ReadToEnd, FinishRow, TypeOK
  <2>6. \A i \in Job : row'[i] = "processing" /\ Attended(i) => Attended(i)'
    BY <2>1, <2>3, <2>5, <1>r DEF Attended
  <2> QED BY <2>1, <2>4, <2>5, <2>6 DEF ProcessingIsAttended, Abandoned, Processing, At
<1> QED
  BY <1>u, <1>1, <1>2, <1>3, <1>4, <1>5, <1>6, <1>7, <1>8, <1>9, <1>10, <1>11, <1>12,
     <1>13, NextIsOneAction, Zenon

\* ProcessingIsAttended: only an exception, or the end of the program, leaves a
\* processing row to no watcher and no pass.
THEOREM OnlyFaultsAbandon == Spec => []ProcessingIsAttended
<1>1. Init => ProcessingIsAttended
  BY DEF Init, ProcessingIsAttended, Abandoned, Processing
<1>2. TypeOK /\ ProcessingIsAttended /\ [Next]_vars => ProcessingIsAttended'
  BY StepAttended
<1> QED BY <1>1, <1>2, ThreadsKeepTypes, PTL DEF Spec

------------------------------------------------------------------------------
LEMMA StepIsAsLoop == RequestInv /\ [Next]_vars => [Loop!LoopNext]_(Loop!loopVars)
<1> SUFFICES ASSUME RequestInv, [Next]_vars
             PROVE  Loop!LoopNext \/ UNCHANGED <<open, pass # "idle">>
  BY DEF Loop!loopVars
<1>1. CASE BeginPass
  <2>1. open
    BY <1>1 DEF BeginPass, RequestInv, ClosedInv, TypeOK
  <2> QED BY <1>1, <2>1 DEF BeginPass, Loop!LoopNext, Loop!Begin
<1>2. CASE ReleasePass
  BY <1>2 DEF ReleasePass, Loop!LoopNext, Loop!End
<1>3. CASE CloseExecutor
  BY <1>3 DEF CloseExecutor, RequestInv, TypeOK, Loop!LoopNext, Loop!Close
<1>4. CASE \/ \E t \in Thread : Ask(t) \/ Submit(t) \/ SubmitRaises(t)
           \/ SchedulerTick \/ SchedulerEnds \/ ObserverEvent
           \/ StopButton \/ ChangeSettings \/ JoinObserver \/ JoinTimesOut
           \/ Quit \/ StopKnownWorker \/ Exit \/ WorkerEnds \/ UNCHANGED vars
  <2>1. UNCHANGED <<open, pass>>
    BY <1>4 DEF Ask, Submit, SubmitRaises, SchedulerTick, SchedulerEnds, ObserverEvent,
                StopButton, ChangeSettings, JoinObserver, JoinTimesOut, Rewatch, Quit,
                StopKnownWorker, Exit, WorkerEnds, executor, vars
  <2> QED BY <2>1
<1>5. ASSUME NEW j \in Job,
             \/ RecordingArrives(j) \/ Import(j) \/ ReadToEnd(j) \/ FinishRow(j) \/ FinishRaises(j)
             \/ ProcessManual(j) \/ Retry(j)
      PROVE  UNCHANGED <<open, pass # "idle">>
  BY <1>5 DEF RecordingArrives, Import, ReadToEnd, FinishRow, FinishRaises, ProcessManual, Retry, executor
<1>6. ASSUME NEW j \in Job, Claim(j) PROVE UNCHANGED <<open, pass # "idle">>
  BY <1>6 DEF Claim
<1>7. CASE Imported \/ NothingToClaim \/ Launch \/ LaunchFails \/ PassRaises
  BY <1>7 DEF Imported, NothingToClaim, Launch, LaunchFails, PassRaises
<1> QED
  BY <1>1, <1>2, <1>3, <1>4, <1>5, <1>6, <1>7, NextIsOneAction, Zenon

\* The safety part of PassContract: passes run one after the other, and none
\* begins after Quit has closed the executor.
THEOREM LoopKeepsContract == Spec => Loop!LoopSafety
<1>1. Init => Loop!LoopInit
  BY DEF Init, Loop!LoopInit
<1>2. RequestInv /\ [Next]_vars => [Loop!LoopNext]_(Loop!loopVars)
  BY StepIsAsLoop
<1> QED BY <1>1, <1>2, RequestsInductive, PTL DEF Spec, Loop!LoopSafety
==============================================================================
