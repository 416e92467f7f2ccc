---------------------------- MODULE GpuSlotProofs ----------------------------
(***************************************************************************)
(* Proof that WorkerSupervision implements the one-slot contract of        *)
(* GpuSlot, for every value of the constants with ~LaunchKillMayFail.      *)
(***************************************************************************)
EXTENDS WorkerSupervisionProofs

LaunchDue == At("executor", "launch")

\* A step that may end the worker or the launch, but starts and claims nothing.
OnlyEnds ==
  /\ Processing' = Processing
  /\ \A p \in Pid : Running(p)' => Running(p)
  /\ LaunchDue' => LaunchDue

Starts ==
  /\ Processing' = Processing
  /\ LaunchDue /\ ~LaunchDue'
  /\ \E p \in Pid : Running(p)'

Claims ==
  /\ Processing = {}
  /\ \E j \in Job : Processing' = {j}
  /\ LaunchDue'
  /\ \A p \in Pid : ~Running(p)'

Releases ==
  /\ Processing' = {}
  /\ ~LaunchDue
  /\ \A p \in Pid : ~Running(p)

AsSlot == OnlyEnds \/ Starts \/ Claims \/ Releases

------------------------------------------------------------------------------


\* Only one row is processing, so the release of a quiet one frees the slot.
LEMMA QuietRowReleases ==
  ASSUME TypeOK, SupervisionInv, NEW j \in Processing, Quiet(j), ~LaunchDue, Processing' = Processing \ {j}
  PROVE  AsSlot
<1>1. Processing = {j}
  BY DEF SupervisionInv, AtMostOneProcessing
<1>2. \A p \in Pid : ~Running(p)
  BY <1>1 DEF SupervisionInv, EngagedInv, Engaged, Quiet, Processing
<1>3. QED
  BY <1>1, <1>2 DEF AsSlot, Releases

\* A thread that resolves a row finds it quiet, and that row is not being launched.
LEMMA ResolvedRowIsQuiet ==
  ASSUME TypeOK, SupervisionInv, NEW t \in Thread,
         thread[t].pc \in {"lease", "restore", "settle", "interrupt"}, thread[t].job \in Processing
  PROVE  Quiet(thread[t].job) /\ ~LaunchDue
<1>1. Quiet(thread[t].job) /\ (t = "ui" => (Launching => thread["executor"].job # thread[t].job))
  BY DEF SupervisionInv, ResolveInv, Resolving, ResolvePc
<1>2. LaunchDue => t = "ui" /\ thread["executor"].job \in Processing
  BY DEF LaunchDue, At, SupervisionInv, LaunchInv, Launching, Thread
<1>3. QED
  BY <1>1, <1>2 DEF LaunchDue, At, Launching, SupervisionInv, AtMostOneProcessing

\* Every step of the supervision is one of the four.
LEMMA StepIsAsSlot ==
  ASSUME ~LaunchKillMayFail, TypeOK, SupervisionInv, [Next]_vars
  PROVE  AsSlot
<1>1. ASSUME StartGui PROVE AsSlot
  BY <1>1 DEF StartGui, NoThread, AsSlot, OnlyEnds, Releases, LaunchDue, TypeOK, Processing, At,
      Running, RunningPhase, Thread, rows, runner, SupervisionInv, AtMostOneProcessing, EngagedInv,
      LaunchInv, StartupInv, ResolveInv, Engaged, Launching, Resolving, ResolvePc, Quiet, Up,
      StartupPc
<1>2. ASSUME NEW j \in Job, StartupRecorded(j) PROVE AsSlot
  BY <1>2 DEF StartupRecorded, OrphanResolved, Signalled, OrphanTargets, AsSlot, OnlyEnds, Releases,
      LaunchDue, TypeOK, Processing, At, Running, RunningPhase, Thread, rows, runner,
      SupervisionInv, AtMostOneProcessing, EngagedInv, LaunchInv, StartupInv, ResolveInv, Engaged,
      Launching, Resolving, ResolvePc, Quiet, Up, StartupPc
<1>3. ASSUME NEW j \in Job, StartupUnrecorded(j) PROVE AsSlot
  BY <1>3 DEF StartupUnrecorded, OrphanResolved, Signalled, OrphanTargets, AsSlot, OnlyEnds,
      Releases, LaunchDue, TypeOK, Processing, At, Running, RunningPhase, Thread, rows, runner,
      SupervisionInv, AtMostOneProcessing, EngagedInv, LaunchInv, StartupInv, ResolveInv, Engaged,
      Launching, Resolving, ResolvePc, Quiet, Up, StartupPc
<1>4. ASSUME StartupLeaseInactive PROVE AsSlot
  BY <1>4 DEF StartupLeaseInactive, Leave, NoThread, AsSlot, OnlyEnds, Releases, LaunchDue, TypeOK,
      Processing, At, Running, RunningPhase, Thread, rows, runner, SupervisionInv,
      AtMostOneProcessing, EngagedInv, LaunchInv, StartupInv, ResolveInv, Engaged, Launching,
      Resolving, ResolvePc, Quiet, Up, StartupPc
<1>5. ASSUME StartupLeaseUnconfirmed PROVE AsSlot
  BY <1>5 DEF StartupLeaseUnconfirmed, Leave, NoThread, AsSlot, OnlyEnds, Releases, LaunchDue,
      TypeOK, Processing, At, Running, RunningPhase, Thread, rows, runner, SupervisionInv,
      AtMostOneProcessing, EngagedInv, LaunchInv, StartupInv, ResolveInv, Engaged, Launching,
      Resolving, ResolvePc, Quiet, Up, StartupPc
<1>6. ASSUME NEW j \in Job, StartupUnconfirmed(j) PROVE AsSlot
  BY <1>6 DEF StartupUnconfirmed, AsSlot, OnlyEnds, Releases, LaunchDue, TypeOK, Processing, At,
      Running, RunningPhase, Thread, rows, runner, SupervisionInv, AtMostOneProcessing, EngagedInv,
      LaunchInv, StartupInv, ResolveInv, Engaged, Launching, Resolving, ResolvePc, Quiet, Up,
      StartupPc
<1>7. ASSUME StartupInspected PROVE AsSlot
  BY <1>7 DEF StartupInspected, Goto, AsSlot, OnlyEnds, Releases, LaunchDue, TypeOK, Processing, At,
      Running, RunningPhase, Thread, rows, runner, SupervisionInv, AtMostOneProcessing, EngagedInv,
      LaunchInv, StartupInv, ResolveInv, Engaged, Launching, Resolving, ResolvePc, Quiet, Up,
      StartupPc
<1>8. ASSUME RestoreManifests PROVE AsSlot
  <2> DEFINE out == {j \in Processing \ blocked : FinalManifest(j) # {}}
  <2>1. /\ Processing' = Processing \ out
        /\ UNCHANGED proc
        /\ \A j \in out : Quiet(j)
        /\ ~LaunchDue /\ ~LaunchDue'
    BY <1>8 DEF RestoreManifests, Goto, FinalManifest, ManifestFinalStatus, TypeOK, SupervisionInv,
        StartupInv, Up, StartupPc, At, LaunchDue, Processing, Thread
  <2>2. CASE out = {}
    BY <2>1, <2>2 DEF AsSlot, OnlyEnds, Running
  <2>3. CASE out # {}
    <3>1. PICK j \in out : Processing' = Processing \ {j}
      BY <2>1, <2>3 DEF SupervisionInv, AtMostOneProcessing
    <3>2. QED
      BY <2>1, <3>1, QuietRowReleases
  <2>4. QED
    BY <2>2, <2>3
<1>9. ASSUME Sweep PROVE AsSlot
  <2> DEFINE out == Processing \ blocked
  <2>1. /\ Processing' = Processing \ out
        /\ UNCHANGED proc
        /\ \A j \in out : Quiet(j)
        /\ ~LaunchDue /\ ~LaunchDue'
    BY <1>9 DEF Sweep, Finish, NoThread, TypeOK, SupervisionInv, StartupInv, Up, StartupPc, At,
        LaunchDue, Processing, Thread
  <2>2. CASE out = {}
    BY <2>1, <2>2 DEF AsSlot, OnlyEnds, Running
  <2>3. CASE out # {}
    <3>1. PICK j \in out : Processing' = Processing \ {j}
      BY <2>1, <2>3 DEF SupervisionInv, AtMostOneProcessing
    <3>2. QED
      BY <2>1, <3>1, QuietRowReleases
  <2>4. QED
    BY <2>2, <2>3
<1>10. ASSUME GuiExit PROVE AsSlot
  BY <1>10 DEF GuiExit, NoThread, NoProcess, AsSlot, OnlyEnds, Releases, LaunchDue, TypeOK,
      Processing, At, Running, RunningPhase, Thread, rows, runner, SupervisionInv,
      AtMostOneProcessing, EngagedInv, LaunchInv, StartupInv, ResolveInv, Engaged, Launching,
      Resolving, ResolvePc, Quiet, Up, StartupPc
<1>11. ASSUME BeginPass PROVE AsSlot
  BY <1>11 DEF BeginPass, NoThread, AsSlot, OnlyEnds, Releases, LaunchDue, TypeOK, Processing, At,
      Running, RunningPhase, Thread, rows, runner, SupervisionInv, AtMostOneProcessing, EngagedInv,
      LaunchInv, StartupInv, ResolveInv, Engaged, Launching, Resolving, ResolvePc, Quiet, Up,
      StartupPc
<1>12. ASSUME NEW j \in Job, Admit(j) PROVE AsSlot
  BY <1>12 DEF Admit, Transition, TerminalStatus, AsSlot, OnlyEnds, Releases, LaunchDue, TypeOK,
      Processing, At, Running, RunningPhase, Thread, rows, runner, SupervisionInv,
      AtMostOneProcessing, EngagedInv, LaunchInv, StartupInv, ResolveInv, Engaged, Launching,
      Resolving, ResolvePc, Quiet, Up, StartupPc
<1>13. ASSUME Admitted PROVE AsSlot
  BY <1>13 DEF Admitted, Goto, AsSlot, OnlyEnds, Releases, LaunchDue, TypeOK, Processing, At,
      Running, RunningPhase, Thread, rows, runner, SupervisionInv, AtMostOneProcessing, EngagedInv,
      LaunchInv, StartupInv, ResolveInv, Engaged, Launching, Resolving, ResolvePc, Quiet, Up,
      StartupPc
<1>14. ASSUME Claim PROVE AsSlot
  <2>1. Head(queue) \in Job /\ Processing = {} /\ Processing' = {Head(queue)}
    BY <1>14, OnlyQueuedIsClaimed DEF Claim, Transition, TypeOK, Processing
  <2>2. LaunchDue' /\ UNCHANGED proc
    BY <1>14 DEF Claim, LaunchDue, At, TypeOK, Thread
  <2>3. \A p \in Pid : ~Running(p)
    BY <2>1 DEF SupervisionInv, EngagedInv, Engaged, Processing
  <2>4. QED
    BY <2>1, <2>2, <2>3 DEF AsSlot, Claims, Running
<1>15. ASSUME ClaimNothing PROVE AsSlot
  BY <1>15 DEF ClaimNothing, Finish, NoThread, AsSlot, OnlyEnds, Releases, LaunchDue, TypeOK,
      Processing, At, Running, RunningPhase, Thread, rows, runner, SupervisionInv,
      AtMostOneProcessing, EngagedInv, LaunchInv, StartupInv, ResolveInv, Engaged, Launching,
      Resolving, ResolvePc, Quiet, Up, StartupPc
<1>16. ASSUME NEW p \in Pid, Launch(p) PROVE AsSlot
  <2>1. LaunchDue /\ ~RunnerBusy
    <3>1. LaunchDue
      BY <1>16 DEF Launch, LaunchDue
    <3>2. RunnerBusy => current \in Pid /\ Engaged(current)
      BY <3>1 DEF LaunchDue, RunnerBusy, SupervisionInv, CurrentInv, At, Engaged, TypeOK
    <3>3. QED
      BY <3>1, <3>2 DEF LaunchDue, SupervisionInv, LaunchInv, Launching, At
  <2>2. UNCHANGED status /\ proc'[p].phase = "startup"
    BY <1>16, <2>1 DEF Launch, TypeOK
  <2>3. thread'["executor"].pc = "record"
    BY <1>16, <2>1 DEF Launch, TypeOK, Thread, ThreadState
  <2>4. QED
    BY <2>1, <2>2, <2>3 DEF LaunchDue, At, AsSlot, Starts, Processing, Running, RunningPhase
<1>17. ASSUME LaunchFails PROVE AsSlot
  BY <1>17 DEF LaunchFails, Goto, AsSlot, OnlyEnds, Releases, LaunchDue, TypeOK, Processing, At,
      Running, RunningPhase, Thread, rows, runner, SupervisionInv, AtMostOneProcessing, EngagedInv,
      LaunchInv, StartupInv, ResolveInv, Engaged, Launching, Resolving, ResolvePc, Quiet, Up,
      StartupPc
<1>18. ASSUME RecordPid PROVE AsSlot
  BY <1>18 DEF RecordPid, Finish, NoThread, AsSlot, OnlyEnds, Releases, LaunchDue, TypeOK,
      Processing, At, Running, RunningPhase, Thread, rows, runner, SupervisionInv,
      AtMostOneProcessing, EngagedInv, LaunchInv, StartupInv, ResolveInv, Engaged, Launching,
      Resolving, ResolvePc, Quiet, Up, StartupPc
<1>19. ASSUME RecordFails PROVE AsSlot
  <2>1. \/ proc' = Signalled({thread["executor"].pid})
        \/ proc' = [proc EXCEPT ![thread["executor"].pid] = NoProcess]
    BY <1>19 DEF RecordFails
  <2>2. UNCHANGED status /\ ~LaunchDue'
    BY <1>19 DEF RecordFails, Goto, LaunchDue, At, TypeOK, Thread, rows
  <2>3. \A q \in Pid : Running(q)' => Running(q)
    <3>1. CASE proc' = Signalled({thread["executor"].pid})
      BY <3>1, SignalledStops
    <3>2. CASE proc' = [proc EXCEPT ![thread["executor"].pid] = NoProcess]
      BY <3>2 DEF NoProcess, Running, RunningPhase, TypeOK
    <3>3. QED
      BY <2>1, <3>1, <3>2
  <2>4. QED
    BY <2>2, <2>3 DEF AsSlot, OnlyEnds, Processing
<1>20. ASSUME FailLaunch PROVE AsSlot
  BY <1>20 DEF FailLaunch, Transition, TerminalStatus, Finish, NoThread, AsSlot, OnlyEnds, Releases,
      LaunchDue, TypeOK, Processing, At, Running, RunningPhase, Thread, rows, runner,
      SupervisionInv, AtMostOneProcessing, EngagedInv, LaunchInv, StartupInv, ResolveInv, Engaged,
      Launching, Resolving, ResolvePc, Quiet, Up, StartupPc
<1>21. ASSUME StopCurrent PROVE AsSlot
  BY <1>21 DEF StopCurrent, NoThread, AsSlot, OnlyEnds, Releases, LaunchDue, TypeOK, Processing, At,
      Running, RunningPhase, Thread, rows, runner, SupervisionInv, AtMostOneProcessing, EngagedInv,
      LaunchInv, StartupInv, ResolveInv, Engaged, Launching, Resolving, ResolvePc, Quiet, Up,
      StartupPc
<1>22. ASSUME KillCurrent PROVE AsSlot
  BY <1>22 DEF KillCurrent, Finish, NoThread, Signalled, AsSlot, OnlyEnds, Releases, LaunchDue,
      TypeOK, Processing, At, Running, RunningPhase, Thread, rows, runner, SupervisionInv,
      AtMostOneProcessing, EngagedInv, LaunchInv, StartupInv, ResolveInv, Engaged, Launching,
      Resolving, ResolvePc, Quiet, Up, StartupPc
<1>23. ASSUME StopUnresolved PROVE AsSlot
  BY <1>23 DEF StopUnresolved, NoThread, AsSlot, OnlyEnds, Releases, LaunchDue, TypeOK, Processing,
      At, Running, RunningPhase, Thread, rows, runner, SupervisionInv, AtMostOneProcessing,
      EngagedInv, LaunchInv, StartupInv, ResolveInv, Engaged, Launching, Resolving, ResolvePc,
      Quiet, Up, StartupPc
<1>24. ASSUME NEW j \in Job, Retry(j) PROVE AsSlot
  BY <1>24 DEF Retry, RetryableStatus, AsSlot, OnlyEnds, Releases, LaunchDue, TypeOK, Processing,
      At, Running, RunningPhase, Thread, rows, runner, SupervisionInv, AtMostOneProcessing,
      EngagedInv, LaunchInv, StartupInv, ResolveInv, Engaged, Launching, Resolving, ResolvePc,
      Quiet, Up, StartupPc
<1>25. ASSUME NEW t \in Thread, NEW j \in Job, ScanSkip(t, j) PROVE AsSlot
  BY <1>25 DEF ScanSkip, AsSlot, OnlyEnds, Releases, LaunchDue, TypeOK, Processing, At, Running,
      RunningPhase, Thread, rows, runner, SupervisionInv, AtMostOneProcessing, EngagedInv,
      LaunchInv, StartupInv, ResolveInv, Engaged, Launching, Resolving, ResolvePc, Quiet, Up,
      StartupPc
<1>26. ASSUME NEW t \in Thread, NEW j \in Job, ScanTake(t, j) PROVE AsSlot
  BY <1>26 DEF ScanTake, ThreadState, AsSlot, OnlyEnds, Releases, LaunchDue, TypeOK, Processing, At,
      Running, RunningPhase, Thread, rows, runner, SupervisionInv, AtMostOneProcessing, EngagedInv,
      LaunchInv, StartupInv, ResolveInv, Engaged, Launching, Resolving, ResolvePc, Quiet, Up,
      StartupPc
<1>27. ASSUME NEW t \in Thread, ScanDone(t) PROVE AsSlot
  <2>1. UNCHANGED <<status, proc>>
    BY <1>27 DEF ScanDone, rows
  <2>2. /\ \A u \in Thread \ {t} : thread'[u] = thread[u]
        /\ thread'[t].pc \in {"idle", "admit"}
    BY <1>27 DEF ScanDone, Finish, NoThread, Goto, TypeOK, Thread, ThreadState
  <2>3. LaunchDue' => LaunchDue
    BY <2>2 DEF LaunchDue, At, Thread
  <2>4. QED
    BY <2>1, <2>3 DEF AsSlot, OnlyEnds, Processing, Running
<1>28. ASSUME NEW t \in Thread, InspectRecorded(t) PROVE AsSlot
  BY <1>28 DEF InspectRecorded, OrphanResolved, Signalled, OrphanTargets, Goto, AsSlot, OnlyEnds,
      Releases, LaunchDue, TypeOK, Processing, At, Running, RunningPhase, Thread, rows, runner,
      SupervisionInv, AtMostOneProcessing, EngagedInv, LaunchInv, StartupInv, ResolveInv, Engaged,
      Launching, Resolving, ResolvePc, Quiet, Up, StartupPc
<1>29. ASSUME NEW t \in Thread, InspectUnrecorded(t) PROVE AsSlot
  BY <1>29 DEF InspectUnrecorded, OrphanResolved, Signalled, OrphanTargets, Goto, AsSlot, OnlyEnds,
      Releases, LaunchDue, TypeOK, Processing, At, Running, RunningPhase, Thread, rows, runner,
      SupervisionInv, AtMostOneProcessing, EngagedInv, LaunchInv, StartupInv, ResolveInv, Engaged,
      Launching, Resolving, ResolvePc, Quiet, Up, StartupPc
<1>30. ASSUME NEW t \in Thread, LeaseInactive(t) PROVE AsSlot
  BY <1>30 DEF LeaseInactive, Goto, AsSlot, OnlyEnds, Releases, LaunchDue, TypeOK, Processing, At,
      Running, RunningPhase, Thread, rows, runner, SupervisionInv, AtMostOneProcessing, EngagedInv,
      LaunchInv, StartupInv, ResolveInv, Engaged, Launching, Resolving, ResolvePc, Quiet, Up,
      StartupPc
<1>31. ASSUME NEW t \in Thread, StillUnconfirmed(t) PROVE AsSlot
  BY <1>31 DEF StillUnconfirmed, Leave, NoThread, AsSlot, OnlyEnds, Releases, LaunchDue, TypeOK,
      Processing, At, Running, RunningPhase, Thread, rows, runner, SupervisionInv,
      AtMostOneProcessing, EngagedInv, LaunchInv, StartupInv, ResolveInv, Engaged, Launching,
      Resolving, ResolvePc, Quiet, Up, StartupPc
<1>32. ASSUME NEW t \in Thread, Restore(t) PROVE AsSlot
  <2> DEFINE j == thread[t].job
  <2>1. /\ thread[t].pc = "restore" /\ UNCHANGED proc
        /\ LaunchDue' => LaunchDue
    BY <1>32 DEF Restore, Goto, At, LaunchDue, TypeOK, Thread
  <2>2. CASE UNCHANGED status
    BY <2>1, <2>2 DEF AsSlot, OnlyEnds, Processing, Running
  <2>3. CASE ~UNCHANGED status
    <3>1. j \in Processing /\ Processing' = Processing \ {j}
      BY <1>32, <2>3 DEF Restore, Transition, FinalManifest, ManifestFinalStatus, TypeOK,
          ResolveInv,
                        SupervisionInv, Resolving, ResolvePc, At, Processing
    <3>2. QED
      BY <2>1, <3>1, ResolvedRowIsQuiet, QuietRowReleases
  <2>4. QED
    BY <2>2, <2>3
<1>33. ASSUME NEW t \in Thread, Settle(t) PROVE AsSlot
  <2>1. UNCHANGED <<status, proc>>
    BY <1>33 DEF Settle, rows
  <2>2. /\ \A u \in Thread \ {t} : thread'[u] = thread[u]
        /\ thread'[t].pc \in {"interrupt", "scan"}
    BY <1>33 DEF Settle, Goto, Leave, NoThread, TypeOK, Thread, ThreadState
  <2>3. LaunchDue' => LaunchDue
    BY <2>2 DEF LaunchDue, At, Thread
  <2>4. QED
    BY <2>1, <2>3 DEF AsSlot, OnlyEnds, Processing, Running
<1>34. ASSUME NEW t \in Thread, Interrupt(t) PROVE AsSlot
  <2> DEFINE j == thread[t].job
  <2>1. thread[t].pc = "interrupt" /\ j \in Processing /\ Processing' = Processing \ {j}
    BY <1>34 DEF Interrupt, Transition, TypeOK, ResolveInv, SupervisionInv, Resolving, ResolvePc,
        At, Processing
  <2>2. QED
    BY <2>1, ResolvedRowIsQuiet, QuietRowReleases
<1>35. ASSUME NEW t \in Thread, InterruptRaises(t) PROVE AsSlot
  BY <1>35 DEF InterruptRaises, Finish, NoThread, AsSlot, OnlyEnds, Releases, LaunchDue, TypeOK,
      Processing, At, Running, RunningPhase, Thread, rows, runner, SupervisionInv,
      AtMostOneProcessing, EngagedInv, LaunchInv, StartupInv, ResolveInv, Engaged, Launching,
      Resolving, ResolvePc, Quiet, Up, StartupPc
<1>36. ASSUME NEW t \in Thread, ThreadFault(t) PROVE AsSlot
  BY <1>36 DEF ThreadFault, Finish, NoThread, AsSlot, OnlyEnds, Releases, LaunchDue, TypeOK,
      Processing, At, Running, RunningPhase, Thread, rows, runner, SupervisionInv,
      AtMostOneProcessing, EngagedInv, LaunchInv, StartupInv, ResolveInv, Engaged, Launching,
      Resolving, ResolvePc, Quiet, Up, StartupPc
<1>37. ASSUME NEW p \in Pid, WatchExit(p) PROVE AsSlot
  BY <1>37 DEF WatchExit, RunnerLockFree, AsSlot, OnlyEnds, Releases, LaunchDue, TypeOK, Processing,
      At, Running, RunningPhase, Thread, rows, runner, SupervisionInv, AtMostOneProcessing,
      EngagedInv, LaunchInv, StartupInv, ResolveInv, Engaged, Launching, Resolving, ResolvePc,
      Quiet, Up, StartupPc
<1>38. ASSUME NEW p \in Pid, FinishWorker(p) PROVE AsSlot
  <2> DEFINE j == proc[p].job
  <2>1. FinalStatus(p) # "processing"
    BY DEF FinalStatus
  <2>2. Engaged(p) /\ j \in Processing /\ Processing' = Processing \ {j}
    BY <1>38, <2>1 DEF FinishWorker, WatchEnds, Transition, TypeOK, SupervisionInv, EngagedInv,
        Engaged, Processing
  <2>3. ~Running(p) /\ ~LaunchDue
    BY <1>38, <2>2 DEF FinishWorker, WatchEnds, LaunchDue, At, SupervisionInv, EngagedInv,
        LaunchInv, Launching
  <2>4. Processing = {j} /\ \A q \in Pid : ~Running(q)
    BY <2>2, <2>3 DEF SupervisionInv, AtMostOneProcessing, EngagedInv, Engaged
  <2>5. QED
    BY <2>2, <2>3, <2>4 DEF AsSlot, Releases
<1>39. ASSUME NEW p \in Pid, FinishFails(p) PROVE AsSlot
  BY <1>39 DEF FinishFails, WatchEnds, NoProcess, AsSlot, OnlyEnds, Releases, LaunchDue, TypeOK,
      Processing, At, Running, RunningPhase, Thread, rows, runner, SupervisionInv,
      AtMostOneProcessing, EngagedInv, LaunchInv, StartupInv, ResolveInv, Engaged, Launching,
      Resolving, ResolvePc, Quiet, Up, StartupPc
<1>40. ASSUME NEW p \in Pid, Worker(p) PROVE AsSlot
  BY <1>40, WorkerStep DEF AsSlot, OnlyEnds, LaunchDue, At, Processing, WorkerOnly, rows
<1>41. CASE UNCHANGED vars
  BY <1>41 DEF AsSlot, OnlyEnds, LaunchDue, At, Processing, Running, vars, rows
<1>42. QED
  BY <1>1, <1>2, <1>3, <1>4, <1>5, <1>6, <1>7, <1>8, <1>9, <1>10, <1>11, <1>12, <1>13, <1>14, <1>15,
      <1>16, <1>17, <1>18, <1>19, <1>20, <1>21, <1>22, <1>23, <1>24, <1>25, <1>26, <1>27, <1>28,
      <1>29, <1>30, <1>31, <1>32, <1>33, <1>34, <1>35, <1>36, <1>37, <1>38, <1>39, <1>40, <1>41
  DEF Next, Startup, Pass, User, Recovery, Watch

------------------------------------------------------------------------------
(* The refinement mapping. *)

\* What the contract sees of a consistent state.
SeenAs(h, s) == HolderOfSlot = h /\ StateOfSlot = s

NoneRuns == \A p \in Pid : ~Running(p)

Mapped ==
  \/ Processing = {} /\ ~LaunchDue /\ NoneRuns /\ SeenAs(NoJob, "free")
  \/ \E j \in Job :
       /\ Processing = {j}
       /\ \/ ~NoneRuns /\ ~LaunchDue /\ SeenAs(j, "running")
          \/ NoneRuns /\ LaunchDue /\ SeenAs(j, "held")
          \/ NoneRuns /\ ~LaunchDue /\ SeenAs(j, "ended")

\* The inductive invariant implies what the refinement mapping needs.
LEMMA ConsistentIsMapped == SupervisionInv => Mapped
<1> SUFFICES ASSUME SupervisionInv PROVE Mapped
  OBVIOUS
<1>1. /\ LaunchDue => Processing # {} /\ NoneRuns
      /\ ~NoneRuns => Processing # {}
  BY DEF SupervisionInv, LaunchInv, EngagedInv, Engaged, Launching, LaunchDue, At, Processing,
      NoneRuns
<1>2. CASE Processing = {}
  BY <1>1, <1>2 DEF Mapped, SeenAs, HolderOfSlot, StateOfSlot
<1>3. CASE Processing # {}
  <2>1. PICK j \in Job : Processing = {j}
    BY <1>3 DEF SupervisionInv, AtMostOneProcessing, Processing
  <2>2. HolderOfSlot = j
    BY <2>1 DEF HolderOfSlot
  <2>3. QED
    BY <1>1, <2>1, <2>2 DEF Mapped, SeenAs, StateOfSlot, NoneRuns, LaunchDue
<1>4. QED
  BY <1>2, <1>3

\* Each of the four steps is a step of the contract or leaves it where it is.
LEMMA AsSlotIsSlotStep ==
  ASSUME SupervisionInv, SupervisionInv', AsSlot
  PROVE  [Slot!SlotNext]_(Slot!slotVars)
<1> USE DEF Mapped, SeenAs, NoneRuns, Slot!SlotNext, Slot!slotVars, Slot!ClaimSlot,
    Slot!StartWorker,
            Slot!EndWorker, Slot!ReleaseSlot, Slot!Free
<1>1. Mapped /\ Mapped'
  BY ConsistentIsMapped, PTL
<1>2. CASE OnlyEnds
  BY <1>1, <1>2 DEF OnlyEnds
<1>3. CASE Starts
  BY <1>1, <1>3 DEF Starts
<1>4. CASE Claims
  BY <1>1, <1>4 DEF Claims
<1>5. CASE Releases
  BY <1>1, <1>5 DEF Releases
<1>6. QED
  BY <1>2, <1>3, <1>4, <1>5 DEF AsSlot

\* The supervision implements the contract of WorkerRunner and claim_next_queued:
\* every behaviour, seen as one slot, is a behaviour of GpuSlot.
THEOREM SupervisionImplementsSlot == ASSUME ~LaunchKillMayFail PROVE Spec => SlotContract
<1>1. Init => Slot!Free
  BY DEF Init, Slot!Free, HolderOfSlot, StateOfSlot, Processing
<1>2. ASSUME TypeOK, SupervisionInv, SupervisionInv', [Next]_vars
      PROVE  [Slot!SlotNext]_(Slot!slotVars)
  BY <1>2, StepIsAsSlot, AsSlotIsSlotStep
<1>3. QED
  BY <1>1, <1>2, SupervisionHolds, PTL DEF Spec, SlotContract, Slot!SlotSpec
==============================================================================
