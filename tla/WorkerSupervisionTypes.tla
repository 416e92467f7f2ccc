---------------------- MODULE WorkerSupervisionTypes -----------------------
(***************************************************************************)
(* The type invariant of WorkerSupervision, proved for every number of     *)
(* jobs, processes, attempts, exits and faults, with or without a kill     *)
(* that may fail.  The other proof modules build on it.                    *)
(***************************************************************************)
EXTENDS WorkerSupervision, TLAPS

USE NoJobAssumption, NoPidAssumption

------------------------------------------------------------------------------
(* The types of what the helpers build. *)

\* A free process id has a well-formed record.
LEMMA NoProcessType == NoProcess \in Process
BY BoundsAssumption DEF NoProcess, Process, Phase

\* A process record stays one when the fields a step may change are changed.
LEMMA ProcessUpdates ==
  \A r \in Process :
    /\ \A x \in Phase : [r EXCEPT !.phase = x] \in Process
    /\ \A x \in BOOLEAN : [r EXCEPT !.lease = x] \in Process
    /\ \A x \in {"none", "completed", "failed", "cancelled"} : [r EXCEPT !.event = x] \in Process
BY DEF Process

\* A thread that holds no job can be wherever none is required.
LEMMA NoThreadType == \A x \in ThreadPc \ HoldingPc : NoThread(x) \in ThreadState
BY DEF NoThread, ThreadState

\* ... and so does the state of a thread.
LEMMA ThreadUpdates ==
  \A r \in ThreadState :
    /\ \A x \in ThreadPc \ HoldingPc : [r EXCEPT !.pc = x] \in ThreadState
    /\ \A x \in ThreadPc, j \in Job : [r EXCEPT !.pc = x, !.job = j] \in ThreadState
    /\ \A T \in SUBSET Job : [r EXCEPT !.todo = T] \in ThreadState
    /\ \A j \in Job : [r EXCEPT !.job = j] \in ThreadState
    /\ \A p \in Pid : [r EXCEPT !.pid = p] \in ThreadState
BY DEF ThreadState

\* taskkill (_terminate_process_tree) leaves well-formed process records.
LEMMA SignalledType == ASSUME TypeOK, NEW P PROVE Signalled(P) \in [Pid -> Process]
BY ProcessUpdates DEF TypeOK, Signalled, Phase

\* ... and so does the end of a process.
LEMMA GoneType == ASSUME TypeOK, NEW p \in Pid PROVE Gone(p) \in Process
BY ProcessUpdates, NoProcessType DEF TypeOK, Gone, Phase

\* The three ways in which a thread moves on leave well-formed threads.
LEMMA GotoType ==
  ASSUME TypeOK, NEW t \in Thread, NEW x \in ThreadPc \ HoldingPc, Goto(t, x)
  PROVE  thread' \in [Thread -> ThreadState]
<1>1. [thread[t] EXCEPT !.pc = x] \in ThreadState
  BY ThreadUpdates DEF TypeOK
<1>2. QED
  BY <1>1 DEF TypeOK, Goto

\* ... when it gives up its job,
LEMMA LeaveType ==
  ASSUME TypeOK, NEW t \in Thread, NEW x \in ThreadPc \ HoldingPc, Leave(t, x)
  PROVE  thread' \in [Thread -> ThreadState]
<1>1. [NoThread(x) EXCEPT !.todo = thread[t].todo] \in ThreadState
  BY DEF TypeOK, ThreadState, NoThread
<1>2. QED
  BY <1>1 DEF TypeOK, Leave

\* ... and when it is done.
LEMMA FinishType ==
  ASSUME TypeOK, NEW t \in Thread, Finish(t)
  PROVE  thread' \in [Thread -> ThreadState]
BY NoThreadType DEF TypeOK, Finish, ThreadPc, HoldingPc

LEMMA TransitionType ==
  ASSUME TypeOK, NEW j \in Job, NEW s, Transition(j, s)
  PROVE  status' \in [Job -> JobStatus] /\ workerPid' \in [Job -> Pid \cup {NoPid}]
<1>1. AllowedTransitions[status[j]] \subseteq JobStatus
  BY DEF TypeOK, AllowedTransitions, JobStatus
<1>2. QED
  BY <1>1 DEF TypeOK, Transition

------------------------------------------------------------------------------
(* Types. *)

\* Before the first start of the GUI every variable has its type.
LEMMA InitTypeOK == Init => TypeOK
<1>1. NoThread("idle") \in ThreadState /\ NoThread("down") \in ThreadState
  BY NoThreadType DEF ThreadPc, HoldingPc
<1>2. SUFFICES ASSUME Init PROVE TypeOK
  OBVIOUS
<1>3. /\ thread \in [Thread -> ThreadState]
      /\ \A t \in Thread : thread[t].pc \in {"idle", "down"}
  BY <1>1, <1>2 DEF Init, NoThread
<1>4. attempt \in [Job -> 1..MaxAttempts] /\ exits \in 0..MaxExits /\ faults \in 0..MaxFaults
  BY <1>2, BoundsAssumption DEF Init
<1>5. manifest \in [Job -> [status : {"none"} \cup ManifestFinalStatus, attempt : 0..MaxAttempts]]
  BY <1>2, BoundsAssumption DEF Init
<1>6. QED
  BY <1>2, <1>3, <1>4, <1>5, NoProcessType DEF Init, TypeOK, JobStatus

\* Every operation of the GUI, the worker and the system keeps the types, one step each.
LEMMA NextTypeOK == TypeOK /\ [Next]_vars => TypeOK'
<1> SUFFICES ASSUME TypeOK, [Next]_vars PROVE TypeOK'
  OBVIOUS
<1> USE DEF At, Thread, ThreadPc, RecoveryPc, StartupPc, HoldingPc
<1>1. ASSUME StartGui PROVE TypeOK'
  <2>1. [NoThread("orphans") EXCEPT !.todo = Processing] \in ThreadState
    BY DEF NoThread, Processing, ThreadState
  <2>2. thread' \in [Thread -> ThreadState]
    BY <1>1, <2>1 DEF StartGui, TypeOK
  <2>3. QED
    BY <1>1, <2>1, <2>2 DEF StartGui, TypeOK, rows, files, runner, bounds, NoThread
<1>2. ASSUME NEW j \in Job, StartupRecorded(j) PROVE TypeOK'
  <2>1. [thread["ui"] EXCEPT !.todo = @ \ {j}] \in ThreadState
    BY DEF TypeOK, ThreadState
  <2>2. thread' \in [Thread -> ThreadState]
    BY <1>2, <2>1 DEF StartupRecorded, TypeOK
  <2>3. proc' \in [Pid -> Process]
    BY <1>2, SignalledType DEF StartupRecorded, OrphanResolved
  <2>4. QED
    BY <1>2, <2>1, <2>2, <2>3 DEF StartupRecorded, TypeOK, rows, files, runner, bounds
<1>3. ASSUME NEW j \in Job, StartupUnrecorded(j) PROVE TypeOK'
  <2>1. [thread["ui"] EXCEPT !.pc = "orphanLease", !.job = j] \in ThreadState
    BY ThreadUpdates DEF TypeOK
  <2>2. thread["ui"].todo \ {j} \in SUBSET Job
    BY DEF TypeOK, ThreadState
  <2>3. [thread["ui"] EXCEPT !.pc = "orphanLease", !.job = j, !.todo = @ \ {j}] \in ThreadState
    BY <2>1, <2>2, ThreadUpdates
  <2>4. thread' \in [Thread -> ThreadState]
    BY <1>3, <2>3 DEF StartupUnrecorded, TypeOK
  <2>5. proc' \in [Pid -> Process]
    BY <1>3, SignalledType DEF StartupUnrecorded, OrphanResolved
  <2>6. QED
    BY <1>3, <2>1, <2>2, <2>3, <2>4, <2>5 DEF StartupUnrecorded, TypeOK, rows, files, runner, bounds
<1>4. ASSUME StartupLeaseInactive PROVE TypeOK'
  <2>1. thread' \in [Thread -> ThreadState]
    BY <1>4, LeaveType DEF StartupLeaseInactive
  <2>2. QED
    BY <1>4, <2>1 DEF StartupLeaseInactive, TypeOK, rows, files, runner, bounds, Leave, NoThread
<1>5. ASSUME StartupLeaseUnconfirmed PROVE TypeOK'
  <2>1. thread' \in [Thread -> ThreadState]
    BY <1>5, LeaveType DEF StartupLeaseUnconfirmed
  <2>2. thread["ui"].job \in Job
    BY <1>5 DEF StartupLeaseUnconfirmed, TypeOK, ThreadState
  <2>3. QED
    BY <1>5, <2>1, <2>2 DEF StartupLeaseUnconfirmed, TypeOK, rows, files, runner, bounds, Leave,
        NoThread
<1>6. ASSUME NEW j \in Job, StartupUnconfirmed(j) PROVE TypeOK'
  <2>1. [thread["ui"] EXCEPT !.todo = @ \ {j}] \in ThreadState
    BY DEF TypeOK, ThreadState
  <2>2. thread' \in [Thread -> ThreadState]
    BY <1>6, <2>1 DEF StartupUnconfirmed, TypeOK
  <2>3. QED
    BY <1>6, <2>1, <2>2 DEF StartupUnconfirmed, TypeOK, rows, files, runner, bounds
<1>7. ASSUME StartupInspected PROVE TypeOK'
  <2>1. thread' \in [Thread -> ThreadState]
    BY <1>7, GotoType DEF StartupInspected
  <2>2. QED
    BY <1>7, <2>1 DEF StartupInspected, TypeOK, rows, files, runner, bounds, Goto
<1>8. ASSUME RestoreManifests PROVE TypeOK'
  <2>1. thread' \in [Thread -> ThreadState]
    BY <1>8, GotoType DEF RestoreManifests
  <2>2. status' \in [Job -> JobStatus] /\ workerPid' \in [Job -> Pid \cup {NoPid}]
    BY <1>8 DEF RestoreManifests, TypeOK, FinalManifest, ManifestFinalStatus, JobStatus, Processing
  <2>3. QED
    BY <1>8, <2>1, <2>2 DEF RestoreManifests, TypeOK, rows, files, runner, bounds, Goto
<1>9. ASSUME Sweep PROVE TypeOK'
  <2>1. thread' \in [Thread -> ThreadState]
    BY <1>9, FinishType DEF Sweep
  <2>2. status' \in [Job -> JobStatus] /\ workerPid' \in [Job -> Pid \cup {NoPid}]
    BY <1>9 DEF Sweep, TypeOK, JobStatus
  <2>3. QED
    BY <1>9, <2>1, <2>2 DEF Sweep, TypeOK, rows, files, runner, bounds, Finish, NoThread
<1>10. ASSUME GuiExit PROVE TypeOK'
  <2>1. \A t \in Thread : NoThread(IF t = "ui" THEN "down" ELSE "idle") \in ThreadState
    BY NoThreadType
  <2>2. thread' \in [Thread -> ThreadState]
    BY <1>10, <2>1 DEF GuiExit
  <2>3. proc' \in [Pid -> Process]
    BY <1>10, NoProcessType DEF GuiExit, TypeOK
  <2>4. exits' \in 0..MaxExits
    BY <1>10, BoundsAssumption DEF GuiExit, TypeOK
  <2>5. QED
    BY <1>10, <2>1, <2>2, <2>3, <2>4 DEF GuiExit, TypeOK, rows, files, runner, bounds, NoThread
<1>11. ASSUME BeginPass PROVE TypeOK'
  <2>1. [NoThread("scan") EXCEPT !.todo = Processing] \in ThreadState
    BY DEF NoThread, Processing, ThreadState
  <2>2. thread' \in [Thread -> ThreadState]
    BY <1>11, <2>1 DEF BeginPass, TypeOK
  <2>3. QED
    BY <1>11, <2>1, <2>2 DEF BeginPass, TypeOK, rows, files, runner, bounds
<1>12. ASSUME NEW j \in Job, Admit(j) PROVE TypeOK'
  <2>1. status' \in [Job -> JobStatus] /\ workerPid' \in [Job -> Pid \cup {NoPid}]
    BY <1>12, TransitionType DEF Admit
  <2>2. queue' \in Seq(Job)
    BY <1>12 DEF Admit, TypeOK
  <2>3. QED
    BY <1>12, <2>1, <2>2 DEF Admit, TypeOK, rows, files, runner, bounds
<1>13. ASSUME Admitted PROVE TypeOK'
  <2>1. thread' \in [Thread -> ThreadState]
    BY <1>13, GotoType DEF Admitted
  <2>2. QED
    BY <1>13, <2>1 DEF Admitted, TypeOK, rows, files, runner, bounds, Goto
<1>14. ASSUME Claim PROVE TypeOK'
  <2>1. Head(queue) \in Job /\ Tail(queue) \in Seq(Job)
    BY <1>14 DEF Claim, TypeOK
  <2>2. status' \in [Job -> JobStatus] /\ workerPid' \in [Job -> Pid \cup {NoPid}]
    BY <1>14, <2>1, TransitionType DEF Claim
  <2>3. [thread["executor"] EXCEPT !.pc = "launch", !.job = Head(queue)] \in ThreadState
    BY <2>1, ThreadUpdates DEF TypeOK
  <2>4. thread' \in [Thread -> ThreadState]
    BY <1>14, <2>3 DEF Claim, TypeOK
  <2>5. QED
    BY <1>14, <2>1, <2>2, <2>3, <2>4 DEF Claim, TypeOK, rows, files, runner, bounds
<1>15. ASSUME ClaimNothing PROVE TypeOK'
  <2>1. thread' \in [Thread -> ThreadState]
    BY <1>15, FinishType DEF ClaimNothing
  <2>2. QED
    BY <1>15, <2>1 DEF ClaimNothing, TypeOK, rows, files, runner, bounds, Finish
<1>16. ASSUME NEW p \in Pid, Launch(p) PROVE TypeOK'
  <2> DEFINE j == thread["executor"].job
  <2>1. CASE RunnerBusy
    <3>1. thread' \in [Thread -> ThreadState]
      BY <1>16, <2>1, FinishType DEF Launch
    <3>2. status' \in [Job -> JobStatus] /\ workerPid' \in [Job -> Pid \cup {NoPid}]
      BY <1>16, <2>1 DEF Launch, Transition, TypeOK, JobStatus
    <3>3. QED
      BY <1>16, <2>1, <3>1, <3>2 DEF Launch, Finish, TypeOK, rows, files, runner, bounds
  <2>2. CASE ~RunnerBusy
    <3>1. thread' = [thread EXCEPT !["executor"].pc = "record", !["executor"].pid = p]
      BY <1>16, <2>2 DEF Launch
    <3>2. [[thread["executor"] EXCEPT !.pc = "record"] EXCEPT !.pid = p] \in ThreadState
      BY ThreadUpdates DEF TypeOK
    <3>3. thread' \in [Thread -> ThreadState]
      BY <3>1, <3>2 DEF TypeOK
    <3>4. j \in Job /\ attempt[j] \in 0..MaxAttempts
      BY <1>16, BoundsAssumption DEF Launch, TypeOK, ThreadState
    <3>5. [phase |-> "startup", job |-> j, attempt |-> attempt[j],
           lease |-> FALSE, event |-> "none"] \in Process
      BY <3>4 DEF Process, Phase, RunningPhase
    <3>6. proc' \in [Pid -> Process] /\ current' \in Pid
      BY <1>16, <2>2, <3>5 DEF Launch, TypeOK
    <3>7. QED
      BY <1>16, <2>2, <3>3, <3>6 DEF Launch, TypeOK, files, bounds
  <2>3. QED
    BY <2>1, <2>2
<1>17. ASSUME LaunchFails PROVE TypeOK'
  <2>1. thread' \in [Thread -> ThreadState]
    BY <1>17, GotoType DEF LaunchFails
  <2>2. QED
    BY <1>17, <2>1 DEF LaunchFails, TypeOK, rows, files, runner, bounds, Goto
<1>18. ASSUME RecordPid PROVE TypeOK'
  <2>1. thread' \in [Thread -> ThreadState]
    BY <1>18, FinishType DEF RecordPid
  <2>2. workerPid' \in [Job -> Pid \cup {NoPid}]
    BY <1>18 DEF RecordPid, TypeOK, ThreadState
  <2>3. QED
    BY <1>18, <2>1, <2>2 DEF RecordPid, TypeOK, rows, files, runner, bounds, Finish
<1>19. ASSUME RecordFails PROVE TypeOK'
  <2>1. thread' \in [Thread -> ThreadState]
    BY <1>19, GotoType DEF RecordFails
  <2>2. faults' \in 0..MaxFaults
    BY <1>19, BoundsAssumption DEF RecordFails, TypeOK
  <2>3. \/ proc' = Signalled({thread["executor"].pid}) \/ proc' = proc \/ proc' = [proc EXCEPT ![thread["executor"].pid] = NoProcess]
    BY <1>19 DEF RecordFails
  <2>4. Signalled({thread["executor"].pid}) \in [Pid -> Process] /\ proc \in [Pid -> Process]
    BY SignalledType DEF TypeOK
  <2>5. proc' \in [Pid -> Process]
    BY <2>3, <2>4, NoProcessType
  <2>6. QED
    BY <1>19, <2>1, <2>2, <2>3, <2>4, <2>5 DEF RecordFails, TypeOK, rows, files, runner, bounds,
        Goto
<1>20. ASSUME FailLaunch PROVE TypeOK'
  <2>1. thread' \in [Thread -> ThreadState]
    BY <1>20, FinishType DEF FailLaunch
  <2>2. status' \in [Job -> JobStatus] /\ workerPid' \in [Job -> Pid \cup {NoPid}]
    BY <1>20 DEF FailLaunch, Transition, TypeOK, JobStatus
  <2>3. QED
    BY <1>20, <2>1, <2>2 DEF FailLaunch, TypeOK, rows, files, runner, bounds, Finish
<1>21. ASSUME StopCurrent PROVE TypeOK'
  <2>1. current \in Pid
    BY <1>21 DEF StopCurrent, RunnerBusy, TypeOK
  <2>2. [NoThread("kill") EXCEPT !.pid = current] \in ThreadState
    BY <2>1, NoThreadType, ThreadUpdates
  <2>3. thread' \in [Thread -> ThreadState]
    BY <1>21, <2>2 DEF StopCurrent, TypeOK
  <2>4. QED
    BY <1>21, <2>1, <2>2, <2>3 DEF StopCurrent, TypeOK, rows, files, runner, bounds, NoThread
<1>22. ASSUME KillCurrent PROVE TypeOK'
  <2>1. thread' \in [Thread -> ThreadState]
    BY <1>22, FinishType DEF KillCurrent
  <2>2. proc' \in [Pid -> Process]
    BY <1>22, SignalledType DEF KillCurrent
  <2>3. QED
    BY <1>22, <2>1, <2>2 DEF KillCurrent, TypeOK, rows, files, runner, bounds, Finish, NoThread
<1>23. ASSUME StopUnresolved PROVE TypeOK'
  <2>1. [NoThread("scan") EXCEPT !.todo = Processing] \in ThreadState
    BY DEF NoThread, Processing, ThreadState
  <2>2. thread' \in [Thread -> ThreadState]
    BY <1>23, <2>1 DEF StopUnresolved, TypeOK
  <2>3. QED
    BY <1>23, <2>1, <2>2 DEF StopUnresolved, TypeOK, rows, files, runner, bounds, NoThread
<1>24. ASSUME NEW j \in Job, Retry(j) PROVE TypeOK'
  <2>1. attempt[j] + 1 \in 1..MaxAttempts
    BY <1>24, BoundsAssumption DEF Retry, TypeOK
  <2>2. queue' \in Seq(Job)
    BY <1>24 DEF Retry, TypeOK
  <2>3. QED
    BY <1>24, <2>1, <2>2 DEF Retry, TypeOK, rows, files, runner, bounds, JobStatus
<1>25. ASSUME NEW t \in Thread, NEW j \in Job, ScanSkip(t, j) PROVE TypeOK'
  <2>1. thread[t].todo \ {j} \in SUBSET Job
    BY DEF TypeOK, ThreadState
  <2>2. [thread[t] EXCEPT !.todo = @ \ {j}] \in ThreadState
    BY <2>1, ThreadUpdates DEF TypeOK
  <2>3. thread' \in [Thread -> ThreadState]
    BY <1>25, <2>2 DEF ScanSkip, TypeOK
  <2>4. QED
    BY <1>25, <2>1, <2>2, <2>3 DEF ScanSkip, TypeOK, rows, files, runner, bounds
<1>26. ASSUME NEW t \in Thread, NEW j \in Job, ScanTake(t, j) PROVE TypeOK'
  <2>1. [pc |-> "inspect", todo |-> thread[t].todo \ {j}, job |-> j, pid |-> workerPid[j]] \in ThreadState
    BY DEF TypeOK, ThreadState
  <2>2. thread' \in [Thread -> ThreadState]
    BY <1>26, <2>1 DEF ScanTake, TypeOK
  <2>3. QED
    BY <1>26, <2>1, <2>2 DEF ScanTake, TypeOK, rows, files, runner, bounds
<1>27. ASSUME NEW t \in Thread, ScanDone(t) PROVE TypeOK'
  <2>1. thread' \in [Thread -> ThreadState]
    BY <1>27, GotoType, FinishType DEF ScanDone
  <2>2. QED
    BY <1>27, <2>1 DEF ScanDone, TypeOK, rows, files, runner, bounds, Finish, Goto, NoThread
<1>28. ASSUME NEW t \in Thread, InspectRecorded(t) PROVE TypeOK'
  <2>1. thread' \in [Thread -> ThreadState]
    BY <1>28, GotoType DEF InspectRecorded
  <2>2. proc' \in [Pid -> Process]
    BY <1>28, SignalledType DEF InspectRecorded, OrphanResolved
  <2>3. QED
    BY <1>28, <2>1, <2>2 DEF InspectRecorded, TypeOK, rows, files, runner, bounds, Goto
<1>29. ASSUME NEW t \in Thread, InspectUnrecorded(t) PROVE TypeOK'
  <2>1. thread' \in [Thread -> ThreadState]
    BY <1>29, GotoType DEF InspectUnrecorded
  <2>2. proc' \in [Pid -> Process]
    BY <1>29, SignalledType DEF InspectUnrecorded, OrphanResolved
  <2>3. QED
    BY <1>29, <2>1, <2>2 DEF InspectUnrecorded, TypeOK, rows, files, runner, bounds, Goto
<1>30. ASSUME NEW t \in Thread, LeaseInactive(t) PROVE TypeOK'
  <2>1. thread' \in [Thread -> ThreadState]
    BY <1>30, GotoType DEF LeaseInactive
  <2>2. QED
    BY <1>30, <2>1 DEF LeaseInactive, TypeOK, rows, files, runner, bounds, Goto
<1>31. ASSUME NEW t \in Thread, StillUnconfirmed(t) PROVE TypeOK'
  <2>1. thread' \in [Thread -> ThreadState]
    BY <1>31, LeaveType DEF StillUnconfirmed
  <2>2. QED
    BY <1>31, <2>1 DEF StillUnconfirmed, TypeOK, rows, files, runner, bounds, Leave, NoThread
<1>32. ASSUME NEW t \in Thread, Restore(t) PROVE TypeOK'
  <2>1. thread' \in [Thread -> ThreadState]
    BY <1>32, GotoType DEF Restore
  <2>2. \A j \in Job : FinalManifest(j) # {} => manifest[j].status \in JobStatus
    BY DEF FinalManifest, ManifestFinalStatus, JobStatus
  <2>3. thread[t].job \in Job => status' \in [Job -> JobStatus] /\ workerPid' \in [Job -> Pid \cup {NoPid}]
    BY <1>32, <2>2 DEF Restore, Transition, TypeOK
  <2>4. thread[t].job \notin Job => status' \in [Job -> JobStatus] /\ workerPid' \in [Job -> Pid \cup {NoPid}]
    BY <1>32 DEF Restore, Transition, TypeOK
  <2>5. QED
    BY <1>32, <2>1, <2>2, <2>3, <2>4 DEF Restore, TypeOK, rows, files, runner, bounds, Goto
<1>33. ASSUME NEW t \in Thread, Settle(t) PROVE TypeOK'
  <2>1. thread' \in [Thread -> ThreadState]
    BY <1>33, GotoType, LeaveType DEF Settle
  <2>2. QED
    BY <1>33, <2>1 DEF Settle, TypeOK, rows, files, runner, bounds, Goto, Leave, NoThread
<1>34. ASSUME NEW t \in Thread, Interrupt(t) PROVE TypeOK'
  <2>1. thread' \in [Thread -> ThreadState]
    BY <1>34, LeaveType DEF Interrupt
  <2>2. status' \in [Job -> JobStatus] /\ workerPid' \in [Job -> Pid \cup {NoPid}]
    BY <1>34 DEF Interrupt, Transition, TypeOK, JobStatus
  <2>3. QED
    BY <1>34, <2>1, <2>2 DEF Interrupt, TypeOK, rows, files, runner, bounds, Leave, NoThread
<1>35. ASSUME NEW t \in Thread, InterruptRaises(t) PROVE TypeOK'
  <2>1. thread' \in [Thread -> ThreadState]
    BY <1>35, FinishType DEF InterruptRaises
  <2>2. QED
    BY <1>35, <2>1 DEF InterruptRaises, TypeOK, rows, files, runner, bounds, Finish, NoThread
<1>36. ASSUME NEW t \in Thread, ThreadFault(t) PROVE TypeOK'
  <2>1. thread' \in [Thread -> ThreadState]
    BY <1>36, FinishType DEF ThreadFault
  <2>2. faults' \in 0..MaxFaults
    BY <1>36, BoundsAssumption DEF ThreadFault, TypeOK
  <2>3. QED
    BY <1>36, <2>1, <2>2 DEF ThreadFault, TypeOK, rows, files, runner, bounds, Finish, NoThread
<1>37. ASSUME NEW p \in Pid, WatchExit(p) PROVE TypeOK'
  <2>1. QED
    BY <1>37 DEF WatchExit, TypeOK, rows, files, runner, bounds
<1>38. ASSUME NEW p \in Pid, FinishWorker(p) PROVE TypeOK'
  <2>1. status' \in [Job -> JobStatus] /\ workerPid' \in [Job -> Pid \cup {NoPid}]
    BY <1>38 DEF FinishWorker, FinalStatus, Transition, TypeOK, JobStatus
  <2>2. proc' \in [Pid -> Process]
    BY <1>38, NoProcessType DEF FinishWorker, WatchEnds, TypeOK
  <2>3. QED
    BY <1>38, <2>1, <2>2 DEF FinishWorker, TypeOK, rows, files, runner, bounds, WatchEnds
<1>39. ASSUME NEW p \in Pid, FinishFails(p) PROVE TypeOK'
  <2>1. faults' \in 0..MaxFaults
    BY <1>39, BoundsAssumption DEF FinishFails, TypeOK
  <2>2. proc' \in [Pid -> Process]
    BY <1>39, NoProcessType DEF FinishFails, WatchEnds, TypeOK
  <2>3. QED
    BY <1>39, <2>1, <2>2 DEF FinishFails, TypeOK, rows, files, runner, bounds, WatchEnds
<1>40. ASSUME NEW p \in Pid, AcquireLease(p) PROVE TypeOK'
  <2>1. proc' \in [Pid -> Process]
    BY <1>40, ProcessUpdates DEF AcquireLease, SetPhase, TypeOK, Phase, RunningPhase
  <2>2. QED
    BY <1>40, <2>1 DEF AcquireLease, TypeOK, rows, files, runner, bounds, WorkerOnly
<1>41. ASSUME NEW p \in Pid, LeaseFails(p) PROVE TypeOK'
  <2>1. proc' \in [Pid -> Process]
    BY <1>41, ProcessUpdates DEF LeaseFails, SetPhase, TypeOK, Phase, RunningPhase
  <2>2. QED
    BY <1>41, <2>1 DEF LeaseFails, TypeOK, rows, files, runner, bounds, WorkerOnly
<1>42. ASSUME NEW p \in Pid, BeginExport(p) PROVE TypeOK'
  <2>1. proc' \in [Pid -> Process]
    BY <1>42, ProcessUpdates DEF BeginExport, SetPhase, TypeOK, Phase, RunningPhase
  <2>2. PICK e \in {"absent", "torn"} : exports' = [exports EXCEPT ![proc[p].job] = e]
    BY <1>42 DEF BeginExport
  <2>3. QED
    BY <1>42, <2>1, <2>2 DEF BeginExport, TypeOK, rows, files, runner, bounds, WorkerOnly
<1>43. ASSUME NEW p \in Pid, FinishExport(p) PROVE TypeOK'
  <2>1. proc' \in [Pid -> Process]
    BY <1>43, ProcessUpdates DEF FinishExport, SetPhase, TypeOK, Phase, RunningPhase
  <2>2. QED
    BY <1>43, <2>1 DEF FinishExport, TypeOK, rows, files, runner, bounds, WorkerOnly
<1>44. ASSUME NEW p \in Pid, WriteManifest(p) PROVE TypeOK'
  <2>1. proc' \in [Pid -> Process]
    BY <1>44, ProcessUpdates DEF WriteManifest, SetPhase, TypeOK, Phase, RunningPhase
  <2>2. [status |-> "completed", attempt |-> proc[p].attempt] \in [status : {"none"} \cup ManifestFinalStatus, attempt : 0..MaxAttempts]
    BY DEF TypeOK, Process, ManifestFinalStatus
  <2>3. QED
    BY <1>44, <2>1, <2>2 DEF WriteManifest, TypeOK, rows, files, runner, bounds, WorkerOnly
<1>45. ASSUME NEW p \in Pid, EmitCompleted(p) PROVE TypeOK'
  <2>1. proc' \in [Pid -> Process]
    BY <1>45, ProcessUpdates DEF EmitCompleted, SetPhase, TypeOK, Phase, RunningPhase
  <2>2. QED
    BY <1>45, <2>1 DEF EmitCompleted, TypeOK, rows, files, runner, bounds, WorkerOnly
<1>46. ASSUME NEW p \in Pid, WorkerCancelled(p) PROVE TypeOK'
  <2>1. proc' \in [Pid -> Process]
    BY <1>46, ProcessUpdates DEF WorkerCancelled, SetPhase, TypeOK, Phase, RunningPhase
  <2>2. QED
    BY <1>46, <2>1 DEF WorkerCancelled, TypeOK, rows, files, runner, bounds, WorkerOnly
<1>47. ASSUME NEW p \in Pid, StageRaises(p) PROVE TypeOK'
  <2>1. proc' \in [Pid -> Process]
    BY <1>47, ProcessUpdates DEF StageRaises, SetPhase, TypeOK, Phase, RunningPhase
  <2>2. QED
    BY <1>47, <2>1 DEF StageRaises, TypeOK, rows, files, runner, bounds, WorkerOnly
<1>48. ASSUME NEW p \in Pid, WriteFailureManifest(p) PROVE TypeOK'
  <2>1. proc' \in [Pid -> Process]
    BY <1>48, ProcessUpdates DEF WriteFailureManifest, SetPhase, TypeOK, Phase, RunningPhase
  <2>2. [status |-> "failed", attempt |-> proc[p].attempt] \in [status : {"none"} \cup ManifestFinalStatus, attempt : 0..MaxAttempts]
    BY DEF TypeOK, Process, ManifestFinalStatus
  <2>3. manifest' \in [Job -> [status : {"none"} \cup ManifestFinalStatus, attempt : 0..MaxAttempts]]
    BY <1>48, <2>2 DEF WriteFailureManifest, TypeOK
  <2>4. QED
    BY <1>48, <2>1, <2>2, <2>3 DEF WriteFailureManifest, TypeOK, rows, files, runner, bounds,
        WorkerOnly
<1>49. ASSUME NEW p \in Pid, EmitFailed(p) PROVE TypeOK'
  <2>1. proc' \in [Pid -> Process]
    BY <1>49, ProcessUpdates DEF EmitFailed, SetPhase, TypeOK, Phase, RunningPhase
  <2>2. QED
    BY <1>49, <2>1 DEF EmitFailed, TypeOK, rows, files, runner, bounds, WorkerOnly
<1>50. ASSUME NEW p \in Pid, ReleaseLease(p) PROVE TypeOK'
  <2>1. proc' \in [Pid -> Process]
    BY <1>50, ProcessUpdates DEF ReleaseLease, SetPhase, TypeOK, Phase, RunningPhase
  <2>2. QED
    BY <1>50, <2>1 DEF ReleaseLease, TypeOK, rows, files, runner, bounds, WorkerOnly
<1>51. ASSUME NEW p \in Pid, ExitWorker(p) PROVE TypeOK'
  <2>1. proc' \in [Pid -> Process]
    BY <1>51, GoneType DEF ExitWorker, TypeOK
  <2>2. QED
    BY <1>51, <2>1 DEF ExitWorker, TypeOK, rows, files, runner, bounds, WorkerOnly
<1>52. ASSUME NEW p \in Pid, WorkerDies(p) PROVE TypeOK'
  <2>1. proc' \in [Pid -> Process]
    BY <1>52, GoneType DEF WorkerDies, TypeOK
  <2>2. QED
    BY <1>52, <2>1 DEF WorkerDies, TypeOK, rows, files, runner, bounds, WorkerOnly
<1>53. ASSUME NEW p \in Pid, Reap(p) PROVE TypeOK'
  <2>1. proc' \in [Pid -> Process]
    BY <1>53, GoneType DEF Reap, TypeOK
  <2>2. QED
    BY <1>53, <2>1 DEF Reap, TypeOK, rows, files, runner, bounds, WorkerOnly
<1>54. CASE UNCHANGED vars
  BY <1>54 DEF vars, TypeOK, rows, files, runner, bounds
<1>55. QED
  BY <1>1, <1>2, <1>3, <1>4, <1>5, <1>6, <1>7, <1>8, <1>9, <1>10, <1>11, <1>12, <1>13, <1>14, <1>15,
      <1>16, <1>17, <1>18, <1>19, <1>20, <1>21, <1>22, <1>23, <1>24, <1>25, <1>26, <1>27, <1>28,
      <1>29, <1>30, <1>31, <1>32, <1>33, <1>34, <1>35, <1>36, <1>37, <1>38, <1>39, <1>40, <1>41,
      <1>42, <1>43, <1>44, <1>45, <1>46, <1>47, <1>48, <1>49, <1>50, <1>51, <1>52, <1>53, <1>54
  DEF Next, Startup, Pass, User, Recovery, Watch, Worker

\* Types: at every step the rows of database.py hold a status of models.py, a PID or
\* NULL, and a retry count within its bound, and the threads, processes and files of
\* the model are well formed.
THEOREM TypesAreRight == Spec => []TypeOK
<1>1. Init => TypeOK
  BY InitTypeOK
<1>2. TypeOK /\ [Next]_vars => TypeOK'
  BY NextTypeOK
<1>3. QED
  BY <1>1, <1>2, PTL DEF Spec
==============================================================================
