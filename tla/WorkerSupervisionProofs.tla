---------------------- MODULE WorkerSupervisionProofs ----------------------
(***************************************************************************)
(* Proofs about WorkerSupervision, for every number of jobs, processes,    *)
(* attempts, exits and faults.  Two inductive invariants: TrackInv, of the *)
(* runner's bookkeeping, holds whatever happens; SupervisionInv, of the    *)
(* processes and their rows, assumes that the kill which cleans up a       *)
(* failed launch succeeds (~LaunchKillMayFail).                            *)
(***************************************************************************)
EXTENDS WorkerSupervisionTypes

------------------------------------------------------------------------------
(* What the helpers of several actions do. *)

\* A kill stops its targets and nothing else, and no process changes its job.
LEMMA SignalledStops ==
  ASSUME TypeOK, NEW P, proc' = Signalled(P), NEW q \in Pid
  PROVE  proc'[q].job = proc[q].job /\ (Running(q)' <=> Running(q) /\ q \notin P)
BY DEF TypeOK, Process, Signalled, Running, RunningPhase

\* The transition table lets only a queued row start processing.
LEMMA OnlyQueuedIsClaimed ==
  ASSUME TypeOK, NEW j \in Job, Transition(j, "processing")
  PROVE  status[j] = "queued"
BY DEF TypeOK, Transition, AllowedTransitions, JobStatus

------------------------------------------------------------------------------
(* The worker's own steps: it never starts again, and keeps its job. *)

\* What a step of run_job, or the end of its process, may change.
LEMMA WorkerStep ==
  ASSUME TypeOK, NEW p \in Pid, Worker(p)
  PROVE  /\ WorkerOnly
         /\ \A q \in Pid : /\ Running(q)' => Running(q)
                           /\ Running(q)' \/ Held(q) => proc'[q].job = proc[q].job
<1>1. CASE AcquireLease(p)
  BY <1>1 DEF AcquireLease, TypeOK, Process, Running, RunningPhase
<1>2. CASE LeaseFails(p)
  BY <1>2 DEF LeaseFails, SetPhase, TypeOK, Process, Running, RunningPhase
<1>3. CASE BeginExport(p)
  BY <1>3 DEF BeginExport, SetPhase, TypeOK, Process, Running, RunningPhase
<1>4. CASE FinishExport(p)
  BY <1>4 DEF FinishExport, SetPhase, TypeOK, Process, Running, RunningPhase
<1>5. CASE WriteManifest(p)
  BY <1>5 DEF WriteManifest, SetPhase, TypeOK, Process, Running, RunningPhase
<1>6. CASE EmitCompleted(p)
  BY <1>6 DEF EmitCompleted, TypeOK, Process, Running, RunningPhase
<1>7. CASE WorkerCancelled(p)
  BY <1>7 DEF WorkerCancelled, TypeOK, Process, Running, RunningPhase
<1>8. CASE StageRaises(p)
  BY <1>8 DEF StageRaises, TypeOK, Process, Running, RunningPhase
<1>9. CASE WriteFailureManifest(p)
  BY <1>9 DEF WriteFailureManifest, SetPhase, TypeOK, Process, Running, RunningPhase
<1>10. CASE EmitFailed(p)
  BY <1>10 DEF EmitFailed, TypeOK, Process, Running, RunningPhase
<1>11. CASE ReleaseLease(p)
  BY <1>11 DEF ReleaseLease, TypeOK, Process, Running, RunningPhase
<1>12. CASE ExitWorker(p)
  BY <1>12 DEF ExitWorker, Gone, NoProcess, TypeOK, Process, Running, RunningPhase
<1>13. CASE WorkerDies(p)
  BY <1>13 DEF WorkerDies, Gone, NoProcess, TypeOK, Process, Running, RunningPhase
<1>14. CASE Reap(p)
  BY <1>14 DEF Reap, Gone, NoProcess, TypeOK, Process, Running, RunningPhase
<1>15. QED
  BY <1>1, <1>2, <1>3, <1>4, <1>5, <1>6, <1>7, <1>8, <1>9, <1>10, <1>11, <1>12, <1>13, <1>14 DEF
      Worker

\* Such steps disturb no part of the invariant.
LEMMA WorkerFrame ==
  ASSUME TypeOK, SupervisionInv, WorkerOnly,
         \A q \in Pid : /\ Running(q)' => Running(q)
                        /\ Running(q)' \/ Held(q) => proc'[q].job = proc[q].job
  PROVE  SupervisionInv'
<1>1. \A q \in Pid : Engaged(q)' => Engaged(q) /\ proc'[q].job = proc[q].job
  BY DEF Engaged, Held, WorkerOnly, runner
<1>2. AtMostOneProcessing' /\ RecordedInv'
  BY DEF SupervisionInv, AtMostOneProcessing, RecordedInv, Processing, WorkerOnly, rows
<1>3. EngagedInv'
  BY <1>1 DEF SupervisionInv, EngagedInv, WorkerOnly, rows, runner
<1>4. LaunchInv'
  BY <1>1 DEF SupervisionInv, LaunchInv, Launching, Processing, WorkerOnly, rows, runner, Held,
      TypeOK
<1>5. CurrentInv' /\ BlockedInv'
  BY DEF SupervisionInv, CurrentInv, BlockedInv, Processing, At, Held, WorkerOnly, rows, runner
<1>6. StartupInv'
  BY <1>1 DEF SupervisionInv, StartupInv, Quiet, Processing, Up, At, WorkerOnly, rows, runner
<1>7. ResolveInv'
  BY <1>1 DEF SupervisionInv, ResolveInv, Resolving, Quiet, Launching, Engaged, WorkerOnly, rows,
      runner
<1>8. QED
  BY <1>2, <1>3, <1>4, <1>5, <1>6, <1>7 DEF SupervisionInv

------------------------------------------------------------------------------
(* What stays true even when the kill that cleans up a failed launch fails:  *)
(* the runner's own bookkeeping, an inductive invariant of its own.          *)

\* The watched workers: at most one, and its row is processing and not blocked.
Watched(p) == watch[p] # "off"

WatchedInv ==
  /\ AtMostOneProcessing
  /\ \A p \in Pid : Watched(p) => proc[p].job \in Processing \ blocked
  /\ \A p, q \in Pid : Watched(p) /\ Watched(q) => p = q

\* A launch works on the processing row, and nothing else is watched or tracked.
TrackedLaunch ==
  Launching =>
    LET e == thread["executor"]
    IN /\ e.job \in Processing \ blocked
       /\ \A p \in Pid : ~Watched(p)
       /\ e.pc = "record" => e.pid \in Pid /\ current = e.pid /\ proc[e.pid].job = e.job

\* Nothing is watched while the GUI starts, and startup works on processing rows.
TrackedStartup ==
  ~Up => /\ At("executor", "idle")
         /\ \A p \in Pid : ~Watched(p)
         /\ LET u == thread["ui"]
            IN /\ u.pc \in {"orphans", "orphanLease"} => u.todo \subseteq Processing
               /\ u.pc = "orphanLease" => u.job \in Processing

\* A row being resolved is neither launched by the other thread nor watched.
TrackedResolve ==
  \A t \in Thread : Resolving(t) =>
    LET r == thread[t]
    IN /\ r.job \in Job
       /\ t = "ui" => /\ status[r.job] \notin {"waiting", "queued"}
                      /\ Launching => thread["executor"].job # r.job
       /\ \A p \in Pid : Watched(p) => proc[p].job # r.job
       /\ r.pc \in {"restore", "settle", "interrupt"} => r.job \notin blocked

\* What stays true when the kill that cleans up a failed launch fails.
TrackInv ==
  WatchedInv /\ TrackedLaunch /\ CurrentInv /\ BlockedRowsProcess /\ TrackedStartup /\ TrackedResolve

\* The worker's own steps leave it alone: the runner holds what it watches.
LEMMA WorkerTrackFrame ==
  ASSUME TypeOK, TrackInv, WorkerOnly,
         \A q \in Pid : /\ Running(q)' => Running(q)
                        /\ Running(q)' \/ Held(q) => proc'[q].job = proc[q].job
  PROVE  TrackInv'
<1>1. UNCHANGED <<rows, thread, blocked, runner>>
  BY DEF WorkerOnly
<1>2. \A q \in Pid : Watched(q) \/ current = q => proc'[q].job = proc[q].job
  BY DEF Watched, Held
<1> QED BY <1>1, <1>2 DEF TrackInv, WatchedInv, Watched, AtMostOneProcessing, TrackedLaunch, CurrentInv,
      BlockedRowsProcess, TrackedStartup, TrackedResolve, Processing, Launching, Resolving, ResolvePc,
      At, Up, rows, runner

\* Startup works on processing rows while nothing is watched.
LEMMA TrackStartupUnrecorded ==
  ASSUME TypeOK, TrackInv, NEW j \in Job, StartupUnrecorded(j)
  PROVE  TrackInv'
<1> USE DEF TrackInv
<1>1. \A q \in Pid : proc'[q].job = proc[q].job
  BY SignalledStops DEF StartupUnrecorded, OrphanResolved
<1>2. /\ thread["ui"].pc = "orphans" /\ j \in thread["ui"].todo
      /\ thread'["ui"].pc = "orphanLease" /\ thread'["ui"].job = j
      /\ thread'["ui"].todo = thread["ui"].todo \ {j}
      /\ thread'["executor"] = thread["executor"]
  BY DEF StartupUnrecorded, At, TypeOK, Thread, ThreadState
<1>3. UNCHANGED <<rows, blocked, runner>>
  BY DEF StartupUnrecorded
<1>4. thread["executor"].pc = "idle" /\ \A q \in Pid : ~Watched(q)
  BY <1>2 DEF TrackedStartup, Up, At, StartupPc
<1>5. WatchedInv' /\ BlockedRowsProcess'
  BY <1>1, <1>3 DEF WatchedInv, Watched, AtMostOneProcessing, BlockedRowsProcess, Processing, rows, runner
<1>6. TrackedLaunch' /\ CurrentInv'
  BY <1>2, <1>3, <1>4 DEF TrackedLaunch, CurrentInv, Launching, At, runner
<1>7. TrackedStartup'
  BY <1>2, <1>3, <1>4 DEF TrackedStartup, Watched, Up, StartupPc, At, Processing, rows, runner
<1>8. TrackedResolve'
  BY <1>2, <1>4 DEF TrackedResolve, Resolving, ResolvePc, Thread
<1>9. QED
  BY <1>5, <1>6, <1>7, <1>8

\* The claimed row is the only processing one, and no recovery works on it.
LEMMA TrackClaim ==
  ASSUME TypeOK, TrackInv, Claim
  PROVE  TrackInv'
<1> USE DEF TrackInv
<1>1. Head(queue) \in Job /\ status[Head(queue)] = "queued"
  BY OnlyQueuedIsClaimed DEF Claim, TypeOK
<1>2. /\ thread["executor"].pc = "claim"
      /\ thread'["executor"].pc = "launch" /\ thread'["executor"].job = Head(queue)
      /\ thread'["ui"] = thread["ui"]
      /\ \A j \in Job \ {Head(queue)} : status'[j] = status[j]
      /\ UNCHANGED <<proc, blocked, runner>>
  BY DEF Claim, At, Transition, TypeOK, Thread, ThreadState
<1>3. Processing = {} /\ Processing' = {Head(queue)}
  BY <1>1 DEF Claim, Transition, TypeOK, Processing
<1>4. \A p \in Pid : ~Watched(p) /\ ~Watched(p)'
  BY <1>2, <1>3 DEF WatchedInv, Watched, runner
<1>5. WatchedInv' /\ BlockedRowsProcess' /\ TrackedLaunch'
  BY <1>2, <1>3, <1>4 DEF WatchedInv, AtMostOneProcessing, BlockedRowsProcess, TrackedLaunch, Launching
<1>6. CurrentInv' /\ TrackedStartup'
  BY <1>2 DEF CurrentInv, TrackedStartup, Up, StartupPc, At, runner
<1>7. TrackedResolve'
  <2> SUFFICES ASSUME Resolving("ui")
               PROVE  /\ thread["ui"].job \in Job \ {Head(queue)}
                      /\ status'[thread["ui"].job] \notin {"waiting", "queued"}
                      /\ thread["ui"].pc \in {"restore", "settle", "interrupt"} => thread["ui"].job \notin blocked
    BY <1>2, <1>4 DEF TrackedResolve, Resolving, ResolvePc, Thread
  <2>1. thread["ui"].job \in Job /\ status[thread["ui"].job] \notin {"waiting", "queued"}
    BY DEF TrackedResolve, Thread
  <2> QED BY <1>1, <1>2, <2>1 DEF TrackedResolve, Thread
<1>8. QED
  BY <1>5, <1>6, <1>7

\* At a launch no watched worker is left, so the runner tracks none.
LEMMA FreeRunner == TypeOK /\ TrackInv => LaunchFindsRunnerFree
<1> SUFFICES ASSUME TypeOK, TrackInv, At("executor", "launch"), RunnerBusy PROVE FALSE
  BY DEF LaunchFindsRunnerFree
<1>1. current \in Pid /\ Watched(current)
  BY DEF RunnerBusy, TrackInv, CurrentInv, At, Watched, TypeOK
<1>2. QED
  BY <1>1 DEF TrackInv, TrackedLaunch, Launching, At

\* The launched worker is tracked, and it is the only one.
LEMMA TrackLaunch ==
  ASSUME TypeOK, TrackInv, NEW p \in Pid, Launch(p)
  PROVE  TrackInv'
<1> USE DEF TrackInv
<1>0. ~RunnerBusy
  BY FreeRunner DEF Launch, LaunchFindsRunnerFree
<1>1. /\ thread["executor"].pc = "launch"
      /\ thread'["executor"].pc = "record" /\ thread'["executor"].pid = p
      /\ thread'["executor"].job = thread["executor"].job
      /\ thread'["ui"] = thread["ui"]
      /\ UNCHANGED <<rows, blocked, watch>> /\ current' = p
      /\ proc'[p].job = thread["executor"].job
  BY <1>0 DEF Launch, At, TypeOK, Thread, ThreadState, rows
<1>2. \A q \in Pid : ~Watched(q) /\ ~Watched(q)'
  BY <1>1 DEF TrackedLaunch, Launching, Watched
<1>3. WatchedInv' /\ BlockedRowsProcess' /\ TrackedLaunch' /\ CurrentInv'
  BY <1>1, <1>2 DEF WatchedInv, AtMostOneProcessing, BlockedRowsProcess, TrackedLaunch, CurrentInv,
      Launching, At, Processing, rows
<1>4. TrackedStartup'
  BY <1>1 DEF TrackedStartup, Up, StartupPc, At
<1>5. TrackedResolve'
  BY <1>1, <1>2 DEF TrackedResolve, Resolving, ResolvePc, Launching, Thread, rows
<1>6. QED
  BY <1>3, <1>4, <1>5

\* The end of a scan and settling move one thread, which launches nothing.
LEMMA TrackMove ==
  ASSUME TypeOK, TrackInv, NEW t \in Thread, ScanDone(t) \/ Settle(t)
  PROVE  TrackInv'
<1> USE DEF TrackInv
<1>1. /\ thread[t].pc \in {"scan", "settle"} /\ UNCHANGED <<rows, proc, blocked, runner>>
      /\ \A u \in Thread \ {t} : thread'[u] = thread[u]
  BY DEF ScanDone, Settle, At, Finish, Goto, Leave, TypeOK, Thread
<1>2. \/ thread'[t].pc \in {"idle", "admit", "scan"}
      \/ /\ thread[t].pc = "settle" /\ thread'[t].pc = "interrupt"
         /\ thread'[t].job = thread[t].job
  <2>1. CASE ScanDone(t)
    BY <2>1 DEF ScanDone, Finish, NoThread, Goto, TypeOK, ThreadState
  <2>2. CASE Settle(t)
    BY <2>2 DEF Settle, At, Goto, Leave, NoThread, TypeOK, ThreadState
  <2> QED BY <2>1, <2>2
<1>3. /\ Launching' <=> Launching
      /\ Launching => thread'["executor"] = thread["executor"]
  BY <1>1, <1>2 DEF Launching, Thread
<1>4. Up /\ Up'
  BY <1>1, <1>2 DEF TrackedStartup, Up, At, StartupPc, Thread
<1>5. WatchedInv' /\ BlockedRowsProcess'
  BY <1>1 DEF WatchedInv, Watched, AtMostOneProcessing, BlockedRowsProcess, Processing, rows, runner
<1>6. TrackedLaunch'
  BY <1>1, <1>3 DEF TrackedLaunch, Watched, Processing, rows, runner
<1>7. CurrentInv'
  BY <1>1, <1>3 DEF CurrentInv, Launching, At, runner
<1>8. TrackedStartup'
  BY <1>4 DEF TrackedStartup
<1>9. TrackedResolve'
  BY <1>1, <1>2, <1>3 DEF TrackedResolve, Resolving, ResolvePc, Watched, Thread, rows, runner
<1>10. QED
  BY <1>5, <1>6, <1>7, <1>8, <1>9

\* A row is restored while neither thread launches or watches it.
LEMMA TrackRestore ==
  ASSUME TypeOK, TrackInv, NEW t \in Thread, Restore(t)
  PROVE  TrackInv'
<1> USE DEF TrackInv
<1> DEFINE r == thread[t].job
<1>1. /\ thread[t].pc = "restore" /\ UNCHANGED <<proc, blocked, runner>>
      /\ \A u \in Thread \ {t} : thread'[u] = thread[u]
      /\ thread'[t].pc = "settle" /\ thread'[t].job = r
  BY DEF Restore, At, Goto, TypeOK, Thread, ThreadState
<1>2. r \in Job /\ r \notin blocked /\ (\A p \in Pid : Watched(p) => proc[p].job # r)
  BY <1>1 DEF TrackedResolve, Resolving, ResolvePc
<1>3. /\ \A j \in Job \ {r} : status'[j] = status[j]
      /\ status'[r] = status[r] \/ (status[r] = "processing" /\ status'[r] \in ManifestFinalStatus)
  BY <1>2 DEF Restore, Transition, FinalManifest, TypeOK
<1>4. /\ Processing' \subseteq Processing /\ Processing \ {r} \subseteq Processing'
      /\ r \in Processing /\ r \notin Processing' => status'[r] \notin {"waiting", "queued"}
      /\ status[r] \notin {"waiting", "queued"} => status'[r] \notin {"waiting", "queued"}
  BY <1>2, <1>3 DEF Processing, ManifestFinalStatus
<1>5. /\ Launching' <=> Launching
      /\ Launching => /\ thread'["executor"] = thread["executor"]
                      /\ t = "ui" /\ thread["executor"].job # r
  BY <1>1 DEF Launching, TrackedResolve, Resolving, ResolvePc, Thread
<1>6. Up /\ Up'
  BY <1>1 DEF TrackedStartup, Up, At, StartupPc, Thread
<1>7. WatchedInv' /\ BlockedRowsProcess'
  BY <1>1, <1>2, <1>4 DEF WatchedInv, Watched, AtMostOneProcessing, BlockedRowsProcess, runner
<1>8. TrackedLaunch'
  BY <1>1, <1>4, <1>5 DEF TrackedLaunch, Watched, runner
<1>9. CurrentInv'
  BY <1>1, <1>5 DEF CurrentInv, Launching, At, runner
<1>10. TrackedStartup'
  BY <1>6 DEF TrackedStartup
<1>11. ASSUME NEW u \in Thread, Resolving(u)'
       PROVE  /\ thread'[u].job \in Job
              /\ u = "ui" => /\ status'[thread'[u].job] \notin {"waiting", "queued"}
                             /\ Launching' => thread'["executor"].job # thread'[u].job
              /\ \A p \in Pid : Watched(p)' => proc'[p].job # thread'[u].job
              /\ thread'[u].pc \in {"restore", "settle", "interrupt"} => thread'[u].job \notin blocked'
  <2>1. Resolving(u) /\ thread'[u].job = thread[u].job
        /\ (thread'[u].pc \in {"restore", "settle", "interrupt"} => thread[u].pc \in {"restore", "settle", "interrupt"})
    BY <1>1, <1>11 DEF Resolving, ResolvePc
  <2>2. u = "ui" => status'[thread[u].job] \notin {"waiting", "queued"}
    BY <1>3, <1>4, <2>1 DEF TrackedResolve
  <2> QED BY <1>1, <1>5, <2>1, <2>2 DEF TrackedResolve, Watched, runner
<1>12. TrackedResolve'
  BY <1>11 DEF TrackedResolve
<1>13. QED
  BY <1>7, <1>8, <1>9, <1>10, <1>12

\* The watcher that finishes was the only one, and no launch is under way.
LEMMA TrackFinishWorker ==
  ASSUME TypeOK, TrackInv, NEW p \in Pid, FinishWorker(p)
  PROVE  TrackInv'
<1> USE DEF TrackInv
<1>1. /\ watch[p] = "finishing" /\ watch' = [watch EXCEPT ![p] = "off"]
      /\ proc' = [proc EXCEPT ![p] = NoProcess]
      /\ UNCHANGED <<thread, blocked, current>>
  BY DEF FinishWorker, WatchEnds
<1>2. /\ proc[p].job \in Processing \ blocked /\ ~Launching
      /\ \A q \in Pid : Watched(q) => q = p
  BY <1>1 DEF WatchedInv, Watched, TrackedLaunch
<1>3. \A q \in Pid : ~Watched(q)'
  BY <1>1, <1>2 DEF Watched, TypeOK
<1>4. /\ \A j \in Job \ {proc[p].job} : status'[j] = status[j]
      /\ status'[proc[p].job] \in {"completed", "failed", "cancelled"}
  BY <1>2 DEF FinishWorker, Transition, FinalStatus, Processing, TypeOK
<1>5. Processing' = Processing \ {proc[p].job}
  BY <1>2, <1>4 DEF Processing
<1>6. WatchedInv' /\ BlockedRowsProcess' /\ TrackedLaunch'
  BY <1>1, <1>2, <1>3, <1>5 DEF WatchedInv, AtMostOneProcessing, BlockedRowsProcess, TrackedLaunch, Launching
<1>7. CurrentInv'
  BY <1>1, <1>2 DEF CurrentInv, Launching, At, Watched, TypeOK
<1>8. Up
  BY <1>1 DEF TrackedStartup, Watched
<1>9. TrackedStartup'
  BY <1>1, <1>8 DEF TrackedStartup, Up, StartupPc, At
<1>10. TrackedResolve'
  BY <1>1, <1>2, <1>3, <1>4 DEF TrackedResolve, Resolving, Launching, Thread
<1>11. QED
  BY <1>6, <1>7, <1>9, <1>10

\* It is inductive: it holds before the first start of the GUI,
LEMMA TrackInit == Init => TrackInv
BY DEF Init, TrackInv, WatchedInv, Watched, AtMostOneProcessing, TrackedLaunch, CurrentInv,
       BlockedRowsProcess, TrackedStartup, TrackedResolve, Processing, Launching, Resolving, ResolvePc,
       At, Up, StartupPc, Thread, NoThread

\* every step keeps it,
LEMMA TrackNext ==
  ASSUME TypeOK, TrackInv, [Next]_vars
  PROVE  TrackInv'
<1>1. ASSUME NEW p \in Pid, Worker(p) PROVE TrackInv'
  BY <1>1, WorkerStep, WorkerTrackFrame
<1>2. ASSUME NEW j \in Job, StartupUnrecorded(j) PROVE TrackInv'
  BY <1>2, TrackStartupUnrecorded
<1>3. ASSUME Claim PROVE TrackInv'
  BY <1>3, TrackClaim
<1>4. ASSUME NEW p \in Pid, Launch(p) PROVE TrackInv'
  BY <1>4, TrackLaunch
<1>5. ASSUME NEW t \in Thread, ScanDone(t) PROVE TrackInv'
  BY <1>5, TrackMove
<1>6. ASSUME NEW t \in Thread, Restore(t) PROVE TrackInv'
  BY <1>6, TrackRestore
<1>7. ASSUME NEW t \in Thread, Settle(t) PROVE TrackInv'
  BY <1>7, TrackMove
<1>8. ASSUME NEW p \in Pid, FinishWorker(p) PROVE TrackInv'
  BY <1>8, TrackFinishWorker
<1> USE DEF TypeOK, Process, TrackInv, WatchedInv, Watched, AtMostOneProcessing, TrackedLaunch, CurrentInv,
            BlockedRowsProcess, TrackedStartup, TrackedResolve, Processing, Launching, Resolving,
            ResolvePc, At, Up, StartupPc, Thread, rows, files, runner, bounds
<1>9. ASSUME RestoreManifests PROVE TrackInv'
  BY <1>9 DEF RestoreManifests, Goto, FinalManifest, ManifestFinalStatus
<1>10. ASSUME Sweep PROVE TrackInv'
  BY <1>10 DEF Sweep, Finish, NoThread
<1>11. ASSUME RecordFails PROVE TrackInv'
  BY <1>11 DEF RecordFails, Goto, Signalled, NoProcess
<1>12. ASSUME StartGui PROVE TrackInv'
  BY <1>12 DEF StartGui, NoThread
<1>13. ASSUME NEW j \in Job, StartupRecorded(j) PROVE TrackInv'
  BY <1>13 DEF StartupRecorded, OrphanResolved, Signalled, OrphanTargets
<1>14. ASSUME StartupLeaseInactive PROVE TrackInv'
  BY <1>14 DEF StartupLeaseInactive, Leave, NoThread
<1>15. ASSUME StartupLeaseUnconfirmed PROVE TrackInv'
  BY <1>15 DEF StartupLeaseUnconfirmed, Leave, NoThread
<1>16. ASSUME NEW j \in Job, StartupUnconfirmed(j) PROVE TrackInv'
  BY <1>16 DEF StartupUnconfirmed
<1>17. ASSUME StartupInspected PROVE TrackInv'
  BY <1>17 DEF StartupInspected, Goto
<1>18. ASSUME GuiExit PROVE TrackInv'
  BY <1>18 DEF GuiExit, NoThread, NoProcess
<1>19. ASSUME BeginPass PROVE TrackInv'
  BY <1>19 DEF BeginPass, NoThread
<1>20. ASSUME NEW j \in Job, Admit(j) PROVE TrackInv'
  BY <1>20 DEF Admit, Transition, TerminalStatus
<1>21. ASSUME Admitted PROVE TrackInv'
  BY <1>21 DEF Admitted, Goto
<1>22. ASSUME ClaimNothing PROVE TrackInv'
  BY <1>22 DEF ClaimNothing, Finish, NoThread
<1>23. ASSUME LaunchFails PROVE TrackInv'
  BY <1>23 DEF LaunchFails, Goto
<1>24. ASSUME RecordPid PROVE TrackInv'
  BY <1>24 DEF RecordPid, Finish, NoThread
<1>25. ASSUME FailLaunch PROVE TrackInv'
  BY <1>25 DEF FailLaunch, Transition, TerminalStatus, Finish, NoThread
<1>26. ASSUME StopCurrent PROVE TrackInv'
  BY <1>26 DEF StopCurrent, NoThread
<1>27. ASSUME KillCurrent PROVE TrackInv'
  BY <1>27 DEF KillCurrent, Finish, NoThread, Signalled
<1>28. ASSUME StopUnresolved PROVE TrackInv'
  BY <1>28 DEF StopUnresolved, NoThread
<1>29. ASSUME NEW j \in Job, Retry(j) PROVE TrackInv'
  BY <1>29 DEF Retry, RetryableStatus
<1>30. ASSUME NEW t \in Thread, NEW j \in Job, ScanSkip(t, j) PROVE TrackInv'
  BY <1>30 DEF ScanSkip
<1>31. ASSUME NEW t \in Thread, NEW j \in Job, ScanTake(t, j) PROVE TrackInv'
  BY <1>31 DEF ScanTake, ThreadState
<1>32. ASSUME NEW t \in Thread, InspectRecorded(t) PROVE TrackInv'
  BY <1>32 DEF InspectRecorded, OrphanResolved, Signalled, OrphanTargets, Goto
<1>33. ASSUME NEW t \in Thread, InspectUnrecorded(t) PROVE TrackInv'
  BY <1>33 DEF InspectUnrecorded, OrphanResolved, Signalled, OrphanTargets, Goto
<1>34. ASSUME NEW t \in Thread, LeaseInactive(t) PROVE TrackInv'
  BY <1>34 DEF LeaseInactive, Goto
<1>35. ASSUME NEW t \in Thread, StillUnconfirmed(t) PROVE TrackInv'
  BY <1>35 DEF StillUnconfirmed, Leave, NoThread
<1>36. ASSUME NEW t \in Thread, Interrupt(t) PROVE TrackInv'
  BY <1>36 DEF Interrupt, Transition, TerminalStatus, Leave, NoThread
<1>37. ASSUME NEW t \in Thread, InterruptRaises(t) PROVE TrackInv'
  BY <1>37 DEF InterruptRaises, Finish, NoThread
<1>38. ASSUME NEW t \in Thread, ThreadFault(t) PROVE TrackInv'
  BY <1>38 DEF ThreadFault, Finish, NoThread
<1>39. ASSUME NEW p \in Pid, WatchExit(p) PROVE TrackInv'
  BY <1>39 DEF WatchExit, RunnerLockFree
<1>40. ASSUME NEW p \in Pid, FinishFails(p) PROVE TrackInv'
  BY <1>40 DEF FinishFails, WatchEnds, NoProcess
<1>41. CASE UNCHANGED vars
  BY <1>41 DEF vars
<1> HIDE DEF TypeOK, Process, TrackInv, WatchedInv, Watched, AtMostOneProcessing, TrackedLaunch, CurrentInv,
            BlockedRowsProcess, TrackedStartup, TrackedResolve, Processing, Launching, Resolving,
            ResolvePc, At, Up, StartupPc, Thread, rows, files, runner, bounds
<1>42. QED
  BY <1>1, <1>2, <1>3, <1>4, <1>5, <1>6, <1>7, <1>8, <1>9, <1>10, <1>11, <1>12, <1>13, <1>14, <1>15,
      <1>16, <1>17, <1>18, <1>19, <1>20, <1>21, <1>22, <1>23, <1>24, <1>25, <1>26, <1>27, <1>28,
      <1>29, <1>30, <1>31, <1>32, <1>33, <1>34, <1>35, <1>36, <1>37, <1>38, <1>39, <1>40, <1>41
  DEF Next, Startup, Pass, User, Recovery, Watch, Thread

\* ... and so it always holds.
LEMMA TrackHolds == Spec => [](TypeOK /\ TrackInv)
<1>1. Init => TypeOK /\ TrackInv
  BY InitTypeOK, TrackInit
<1>2. TypeOK /\ TrackInv /\ [Next]_vars => (TypeOK /\ TrackInv)'
  BY NextTypeOK, TrackNext
<1>3. QED
  BY <1>1, <1>2, PTL DEF Spec

------------------------------------------------------------------------------
(* The steps that several parts of the invariant depend on. *)

\* A row whose worker startup could not find by PID is quiet from here on, and only the
\* mutex is left to ask.
LEMMA StartupUnrecordedKeeps ==
  ASSUME TypeOK, SupervisionInv, NEW j \in Job, StartupUnrecorded(j)
  PROVE  SupervisionInv'
<1> USE DEF SupervisionInv
<1>1. \A q \in Pid : /\ proc'[q].job = proc[q].job
                     /\ Running(q)' => Running(q) /\ proc[q].job # j
  BY SignalledStops DEF StartupUnrecorded, OrphanResolved, OrphanTargets
<1>2. /\ thread["ui"].pc = "orphans" /\ j \in thread["ui"].todo
      /\ thread'["ui"].pc = "orphanLease" /\ thread'["ui"].job = j
      /\ thread'["ui"].todo = thread["ui"].todo \ {j}
      /\ thread'["executor"] = thread["executor"]
  BY DEF StartupUnrecorded, At, TypeOK, Thread, ThreadState
<1>3. UNCHANGED <<rows, blocked, runner>>
  BY DEF StartupUnrecorded
<1>4. /\ \A q \in Pid : Engaged(q)' => Engaged(q) /\ proc[q].job # j
      /\ \A q \in Pid : watch[q] = "off"
  BY <1>1, <1>2, <1>3 DEF Engaged, StartupInv, Up, StartupPc, runner
<1>5. AtMostOneProcessing' /\ RecordedInv' /\ EngagedInv'
  BY <1>1, <1>3, <1>4 DEF AtMostOneProcessing, RecordedInv, EngagedInv, Processing, rows, runner
<1>6. LaunchInv' /\ CurrentInv' /\ BlockedInv'
  BY <1>1, <1>2, <1>3, <1>4 DEF LaunchInv, CurrentInv, BlockedInv, Launching, StartupInv, Up,
      StartupPc, At, Processing, rows, runner
<1>7. StartupInv'
  BY <1>1, <1>2, <1>3, <1>4 DEF StartupInv, Up, StartupPc, At, Processing, Quiet, rows, runner
<1>8. ResolveInv'
  BY <1>2 DEF ResolveInv, Resolving, ResolvePc, StartupInv, Up, StartupPc, At, Thread
<1>9. QED
  BY <1>5, <1>6, <1>7, <1>8

\* Startup restores quiet rows only, so the engaged worker keeps its row.
LEMMA RestoreManifestsKeeps ==
  ASSUME TypeOK, SupervisionInv, RestoreManifests
  PROVE  SupervisionInv'
<1> USE DEF SupervisionInv
<1>1. \A q \in Pid : Engaged(q) => proc[q].job \in blocked
  BY DEF RestoreManifests, EngagedInv, StartupInv, Up, StartupPc, At, Quiet, Processing
<1>2. \A j \in blocked : status'[j] = status[j] /\ workerPid'[j] = workerPid[j]
  BY DEF RestoreManifests, TypeOK
<1>3. UNCHANGED <<proc, watch>>
  BY DEF RestoreManifests, runner
<1>4. EngagedInv'
  BY <1>1, <1>2, <1>3 DEF EngagedInv, Engaged, Running
<1>5. AtMostOneProcessing' /\ RecordedInv'
  BY DEF RestoreManifests, Goto, FinalManifest, ManifestFinalStatus, TypeOK, AtMostOneProcessing,
      RecordedInv, Processing
<1>6. LaunchInv' /\ CurrentInv' /\ ResolveInv'
  BY DEF RestoreManifests, Goto, FinalManifest, ManifestFinalStatus, TypeOK, StartupInv, Up,
      StartupPc, LaunchInv, CurrentInv, ResolveInv, Launching, Resolving, ResolvePc, At, Thread,
      runner
<1>7. BlockedInv' /\ StartupInv'
  BY <1>2, <1>3 DEF RestoreManifests, Goto, FinalManifest, ManifestFinalStatus, TypeOK, BlockedInv,
      StartupInv, Up, StartupPc, Quiet, Engaged, Running, Processing, At, Thread
<1>8. QED
  BY <1>4, <1>5, <1>6, <1>7

\* Startup sweeps quiet rows only, so the engaged worker keeps its row.
LEMMA SweepKeeps ==
  ASSUME TypeOK, SupervisionInv, Sweep
  PROVE  SupervisionInv'
<1> USE DEF SupervisionInv
<1>1. \A q \in Pid : Engaged(q) => proc[q].job \in blocked
  BY DEF Sweep, EngagedInv, StartupInv, Up, StartupPc, At, Quiet, Processing
<1>2. \A j \in blocked : status'[j] = status[j] /\ workerPid'[j] = workerPid[j]
  BY DEF Sweep, TypeOK
<1>3. UNCHANGED <<proc, watch>>
  BY DEF Sweep, runner
<1>4. EngagedInv'
  BY <1>1, <1>2, <1>3 DEF EngagedInv, Engaged, Running
<1>5. AtMostOneProcessing' /\ RecordedInv'
  BY DEF Sweep, Finish, NoThread, TypeOK, AtMostOneProcessing, RecordedInv, Processing
<1>6. LaunchInv' /\ CurrentInv' /\ ResolveInv'
  BY DEF Sweep, Finish, NoThread, TypeOK, StartupInv, Up, StartupPc, LaunchInv, CurrentInv,
      ResolveInv, Launching, Resolving, ResolvePc, At, Thread, runner
<1>7. BlockedInv' /\ StartupInv'
  BY <1>2, <1>3 DEF Sweep, Finish, NoThread, TypeOK, BlockedInv, StartupInv, Up, StartupPc, Quiet,
      Engaged, Running, Processing, At, Thread
<1>8. QED
  BY <1>4, <1>5, <1>6, <1>7

\* The claimed row was queued, and no recovery of the UI thread works on a queued row.
LEMMA ClaimKeeps ==
  ASSUME TypeOK, SupervisionInv, Claim
  PROVE  SupervisionInv'
<1> USE DEF SupervisionInv
<1>1. Head(queue) \in Job /\ status[Head(queue)] = "queued"
  BY OnlyQueuedIsClaimed DEF Claim, TypeOK
<1>2. /\ thread'["executor"].pc = "launch" /\ thread'["executor"].job = Head(queue)
      /\ thread'["ui"] = thread["ui"]
      /\ \A j \in Job \ {Head(queue)} : status'[j] = status[j]
      /\ UNCHANGED <<proc, watch, blocked>>
  BY DEF Claim, Transition, TypeOK, Thread, ThreadState, runner
<1>3. Resolving("ui") => /\ thread["ui"].job \in Job \ {Head(queue)}
                         /\ status'[thread["ui"].job] = status[thread["ui"].job]
  BY <1>1, <1>2 DEF ResolveInv, Thread
<1>4. ASSUME NEW t \in Thread, Resolving(t)' PROVE t = "ui" /\ Resolving("ui")
  BY <1>2, <1>4 DEF Resolving, ResolvePc, Thread
<1>5. ResolveInv'
  BY <1>2, <1>3, <1>4 DEF ResolveInv, Quiet, Engaged, Running, Thread
<1>6. AtMostOneProcessing' /\ RecordedInv' /\ EngagedInv' /\ BlockedInv'
  BY <1>1 DEF Claim, Transition, TerminalStatus, TypeOK, AtMostOneProcessing, RecordedInv,
      EngagedInv, BlockedInv, Engaged, Running, Processing, runner
<1>7. \A q \in Pid : ~Engaged(q) /\ ~Engaged(q)'
  BY <1>2 DEF Claim, EngagedInv, Engaged, Running, Processing
<1>8. /\ Processing = {} /\ Processing' = {Head(queue)}
      /\ workerPid[Head(queue)] = NoPid /\ workerPid'[Head(queue)] = NoPid
      /\ UNCHANGED current
  BY <1>1 DEF Claim, Transition, TerminalStatus, TypeOK, RecordedInv, Processing, runner
<1>9. LaunchInv'
  BY <1>2, <1>7, <1>8 DEF LaunchInv, BlockedInv, Launching
<1>10. CurrentInv' /\ StartupInv'
  BY <1>2, <1>8 DEF Claim, CurrentInv, StartupInv, Up, StartupPc, At
<1>11. QED
  BY <1>5, <1>6, <1>9, <1>10

\* A launch finds no engaged worker, so the runner is free and the new worker is the only one.
LEMMA LaunchKeeps ==
  ASSUME TypeOK, SupervisionInv, NEW p \in Pid, Launch(p)
  PROVE  SupervisionInv'
<1> USE DEF SupervisionInv
<1> DEFINE e == thread["executor"]
<1>1. CASE RunnerBusy
  <2>1. current \in Pid /\ Engaged(current)
    BY <1>1 DEF Launch, RunnerBusy, CurrentInv, At, Engaged, TypeOK
  <2>2. QED
    BY <2>1 DEF Launch, At, LaunchInv, Launching
<1>2. CASE ~RunnerBusy
  <2>1. /\ thread'["executor"].pc = "record" /\ thread'["executor"].pid = p
        /\ thread'["executor"].job = e.job
        /\ thread'["ui"] = thread["ui"]
    BY <1>2 DEF Launch, TypeOK, Thread, ThreadState
  <2>2. /\ e.pc = "launch"
        /\ UNCHANGED <<rows, blocked, watch>> /\ current' = p
        /\ \A q \in Pid \ {p} : proc'[q] = proc[q]
        /\ proc'[p].phase = "startup" /\ proc'[p].job = e.job
        /\ watch[p] = "off"
    BY <1>2 DEF Launch, At, TypeOK, Held, rows
  <2>3. e.job \in Processing \ blocked /\ \A q \in Pid : ~Engaged(q)
    BY <2>2 DEF LaunchInv, Launching
  <2>4. \A q \in Pid : (Engaged(q)' <=> q = p) /\ watch'[q] = "off"
    BY <2>2, <2>3 DEF Engaged, Running, RunningPhase
  <2>5. workerPid[e.job] = NoPid
    BY <2>2 DEF LaunchInv, Launching
  <2>6. AtMostOneProcessing' /\ RecordedInv' /\ EngagedInv'
    BY <2>2, <2>3, <2>4, <2>5 DEF AtMostOneProcessing, RecordedInv, EngagedInv, Processing, rows
  <2>7. LaunchInv' /\ CurrentInv' /\ BlockedInv'
    BY <2>1, <2>2, <2>3, <2>4, <2>5 DEF LaunchInv, CurrentInv, BlockedInv, Launching, At,
        Processing, rows
  <2>8. StartupInv'
    BY <2>1, <2>2 DEF StartupInv, Up, StartupPc, At
  <2>9. ResolveInv'
    BY <2>1, <2>2, <2>3, <2>4 DEF ResolveInv, Resolving, ResolvePc, Quiet, Launching, Thread, rows
  <2>10. QED
    BY <2>6, <2>7, <2>8, <2>9
<1>3. QED
  BY <1>1, <1>2

\* A failed on_started leaves no worker running, because its kill succeeded.
LEMMA RecordFailsKeeps ==
  ASSUME TypeOK, SupervisionInv, ~LaunchKillMayFail, RecordFails
  PROVE  SupervisionInv'
<1> USE DEF SupervisionInv
<1> DEFINE e == thread["executor"]
<1>1. /\ e.pc = "record" /\ e.pid \in Pid
      /\ e.job \in Processing \ blocked
      /\ \A q \in Pid : Engaged(q) => q = e.pid /\ watch[q] = "off"
  BY DEF RecordFails, LaunchInv, Launching, At
<1>2. /\ thread'["executor"].pc = "launchFailed" /\ thread'["executor"].job = e.job
      /\ thread'["ui"] = thread["ui"]
      /\ UNCHANGED <<rows, blocked, watch>> /\ current' = NoPid
  BY DEF RecordFails, Goto, TypeOK, Thread, ThreadState
<1>3. proc'[e.pid].phase \notin RunningPhase
  <2>1. IF Running(e.pid) THEN proc' = Signalled({e.pid}) ELSE proc' = [proc EXCEPT ![e.pid] = NoProcess]
    BY DEF RecordFails
  <2>2. CASE Running(e.pid)
    BY <1>1, <2>1, <2>2 DEF Signalled, RunningPhase, TypeOK, Process
  <2>3. CASE ~Running(e.pid)
    BY <1>1, <2>1, <2>3 DEF NoProcess, Running, RunningPhase, TypeOK
  <2>4. QED
    BY <2>2, <2>3
<1>4. \A q \in Pid \ {e.pid} : proc'[q] = proc[q]
  BY DEF RecordFails, Signalled, TypeOK
<1>5. \A q \in Pid : ~Engaged(q)' /\ watch'[q] = "off"
  BY <1>1, <1>2, <1>3, <1>4 DEF Engaged, Running
<1>6. AtMostOneProcessing' /\ RecordedInv' /\ EngagedInv'
  BY <1>2, <1>5 DEF AtMostOneProcessing, RecordedInv, EngagedInv, Processing, rows
<1>7. LaunchInv' /\ CurrentInv' /\ BlockedInv'
  BY <1>1, <1>2, <1>5 DEF LaunchInv, CurrentInv, BlockedInv, Launching, Processing, rows
<1>8. StartupInv'
  BY <1>1, <1>2 DEF StartupInv, Up, StartupPc, At
<1>9. ResolveInv'
  BY <1>1, <1>2, <1>5 DEF ResolveInv, Resolving, ResolvePc, Quiet, Launching, Thread, rows
<1>10. QED
  BY <1>6, <1>7, <1>8, <1>9

\* Settling only moves the thread.
LEMMA SettleKeeps ==
  ASSUME TypeOK, SupervisionInv, NEW t \in Thread, Settle(t)
  PROVE  SupervisionInv'
<1> USE DEF SupervisionInv
<1>1. thread[t].pc = "settle" /\ UNCHANGED <<rows, proc, blocked, runner>>
  BY DEF Settle, At
<1>2. /\ \A u \in Thread \ {t} : thread'[u] = thread[u]
      /\ thread'[t].todo = thread[t].todo
      /\ \/ thread'[t].pc = "scan"
         \/ /\ thread'[t].pc = "interrupt"
            /\ thread'[t].job = thread[t].job
  BY DEF Settle, Goto, Leave, NoThread, TypeOK, ThreadState, Thread
<1>3. Launching' <=> Launching
  BY <1>1, <1>2 DEF Launching, Thread
<1>4. Launching => thread'["executor"] = thread["executor"]
  BY <1>1, <1>2 DEF Launching, Thread
<1>5. Up /\ Up'
  BY <1>1, <1>2 DEF StartupInv, Up, At, StartupPc, Thread
<1>6. AtMostOneProcessing' /\ RecordedInv' /\ EngagedInv' /\ BlockedInv'
  BY <1>1 DEF AtMostOneProcessing, RecordedInv, EngagedInv, BlockedInv, Engaged, Running,
      Processing, rows, runner
<1>7. LaunchInv'
  BY <1>1, <1>3, <1>4 DEF LaunchInv, Launching, Engaged, Running, Processing, rows, runner
<1>8. CurrentInv'
  BY <1>1, <1>2, <1>4 DEF CurrentInv, Launching, At, Thread, runner
<1>9. StartupInv'
  BY <1>5 DEF StartupInv
<1>10. ResolveInv'
  BY <1>1, <1>2, <1>3, <1>4 DEF ResolveInv, Resolving, ResolvePc, Quiet, Engaged, Running, Thread,
      rows, runner
<1>11. QED
  BY <1>6, <1>7, <1>8, <1>9, <1>10

\* A row is restored by a recovery to a final status, never to "processing".
LEMMA RestoreKeeps ==
  ASSUME TypeOK, SupervisionInv, NEW t \in Thread, Restore(t)
  PROVE  SupervisionInv'
<1>1. \/ UNCHANGED <<status, workerPid>>
      \/ /\ thread[t].job \in Processing
         /\ status' = [status EXCEPT ![thread[t].job] = manifest[thread[t].job].status]
         /\ workerPid' = [workerPid EXCEPT ![thread[t].job] = NoPid]
         /\ manifest[thread[t].job].status # "processing"
  BY DEF Restore, Transition, TerminalStatus, FinalManifest, ManifestFinalStatus, TypeOK,
      Processing,
         SupervisionInv, ResolveInv, Resolving, ResolvePc, At
<1>2. AtMostOneProcessing' /\ RecordedInv'
  <2>1. DOMAIN status = Job /\ DOMAIN workerPid = Job
    BY DEF TypeOK
  <2>2. /\ Processing' \subseteq Processing
        /\ \A k \in Job : workerPid'[k] \in {workerPid[k], NoPid}
        /\ \A k \in Processing \ Processing' : workerPid'[k] = NoPid
    BY <1>1, <2>1 DEF Processing
  <2>3. QED
    BY <2>2 DEF SupervisionInv, AtMostOneProcessing, RecordedInv, Processing
<1> USE DEF TypeOK, Process, SupervisionInv, AtMostOneProcessing, RecordedInv, EngagedInv,
            LaunchInv, CurrentInv, BlockedInv, StartupInv, ResolveInv, Engaged, Processing,
            Launching, Resolving, ResolvePc, Quiet, At, Up, StartupPc, Thread, Running,
            RunningPhase, rows, files, runner, bounds
<1>3. CurrentInv' /\ EngagedInv'
  BY <1>1 DEF Restore, Goto
<1>4. LaunchInv'
  BY <1>1 DEF Restore, Goto
<1>5. BlockedInv' /\ StartupInv' /\ ResolveInv'
  BY DEF Restore, Transition, TerminalStatus, Goto, FinalManifest, ManifestFinalStatus
<1>6. QED
  BY <1>2, <1>3, <1>4, <1>5

\* The end of a scan only moves the thread.
LEMMA ScanDoneKeeps ==
  ASSUME TypeOK, SupervisionInv, NEW t \in Thread, ScanDone(t)
  PROVE  SupervisionInv'
<1>1. /\ thread[t].pc = "scan" /\ UNCHANGED <<rows, proc, blocked, runner>>
      /\ \A u \in Thread \ {t} : thread'[u] = thread[u]
      /\ t = "ui" => thread'[t].pc = "idle"
      /\ t = "executor" => thread'[t].pc = "admit"
  BY DEF ScanDone, At, Finish, NoThread, Goto, TypeOK, Thread, ThreadState
<1>2. AtMostOneProcessing' /\ RecordedInv' /\ EngagedInv' /\ BlockedInv'
  BY <1>1 DEF SupervisionInv, AtMostOneProcessing, RecordedInv, EngagedInv, BlockedInv, Engaged,
      Running,
              Processing, rows, runner
<1>3. LaunchInv' /\ CurrentInv' /\ StartupInv'
  BY <1>1 DEF SupervisionInv, LaunchInv, CurrentInv, StartupInv, Launching, Engaged, Running,
      Processing,
              Up, StartupPc, At, Thread, rows, runner
<1>4. ResolveInv'
  BY <1>1 DEF SupervisionInv, ResolveInv, Resolving, ResolvePc, Launching, Quiet, Engaged, Running,
      Thread,
              rows, runner
<1>5. QED
  BY <1>2, <1>3, <1>4 DEF SupervisionInv

\* A finished watcher had the only engaged worker, and no launch was under way.
LEMMA FinishWorkerKeeps ==
  ASSUME TypeOK, SupervisionInv, NEW p \in Pid, FinishWorker(p)
  PROVE  SupervisionInv'
<1> USE DEF TypeOK, Process, SupervisionInv, AtMostOneProcessing, RecordedInv, EngagedInv,
            LaunchInv, CurrentInv, BlockedInv, StartupInv, ResolveInv, Engaged, Processing,
            Launching, Resolving, ResolvePc, Quiet, At, Up, StartupPc, Thread, Running,
            RunningPhase, rows, files, runner, bounds
<1>1. FinalStatus(p) \in {"completed", "failed", "cancelled"}
  BY DEF FinalStatus
<1>2. /\ proc[p].job \in Job /\ status[proc[p].job] = "processing"
      /\ ~Launching
  BY DEF FinishWorker, WatchEnds
<1>3. /\ status' = [status EXCEPT ![proc[p].job] = FinalStatus(p)]
      /\ workerPid' = [workerPid EXCEPT ![proc[p].job] = NoPid]
  BY <1>1, <1>2 DEF FinishWorker, Transition, TerminalStatus
<1>4. AtMostOneProcessing' /\ RecordedInv' /\ LaunchInv' /\ CurrentInv'
  BY <1>1, <1>2, <1>3 DEF FinishWorker, WatchEnds
<1>5. EngagedInv' /\ BlockedInv'
  BY <1>1, <1>2, <1>3 DEF FinishWorker, WatchEnds, NoProcess
<1>6. StartupInv' /\ ResolveInv'
  BY <1>1, <1>2, <1>3 DEF FinishWorker, WatchEnds, NoProcess
<1>7. QED
  BY <1>4, <1>5, <1>6

------------------------------------------------------------------------------
(* The invariant is inductive. *)

\* It holds before the first start of the GUI,
LEMMA SupervisionInit == Init => SupervisionInv
BY DEF Init, SupervisionInv, AtMostOneProcessing, RecordedInv, EngagedInv, LaunchInv, CurrentInv,
       BlockedInv, StartupInv, ResolveInv, Engaged, Processing, Launching, Resolving, ResolvePc,
       Quiet, At, Up, StartupPc, Thread, Running, RunningPhase, NoProcess, NoThread

\* ... every step keeps it, one step of the proof per operation,
LEMMA SupervisionNext ==
  ASSUME ~LaunchKillMayFail, TypeOK, SupervisionInv, [Next]_vars
  PROVE  SupervisionInv'
<1>1. ASSUME NEW j \in Job, StartupUnrecorded(j) PROVE SupervisionInv'
  BY <1>1, StartupUnrecordedKeeps
<1>2. ASSUME RestoreManifests PROVE SupervisionInv'
  BY <1>2, RestoreManifestsKeeps
<1>3. ASSUME Sweep PROVE SupervisionInv'
  BY <1>3, SweepKeeps
<1>4. ASSUME Claim PROVE SupervisionInv'
  BY <1>4, ClaimKeeps
<1>5. ASSUME NEW p \in Pid, Launch(p) PROVE SupervisionInv'
  BY <1>5, LaunchKeeps
<1>6. ASSUME RecordFails PROVE SupervisionInv'
  BY <1>6, RecordFailsKeeps
<1>7. ASSUME NEW t \in Thread, ScanDone(t) PROVE SupervisionInv'
  BY <1>7, ScanDoneKeeps
<1>8. ASSUME NEW t \in Thread, Restore(t) PROVE SupervisionInv'
  BY <1>8, RestoreKeeps
<1>9. ASSUME NEW t \in Thread, Settle(t) PROVE SupervisionInv'
  BY <1>9, SettleKeeps
<1>10. ASSUME NEW p \in Pid, FinishWorker(p) PROVE SupervisionInv'
  BY <1>10, FinishWorkerKeeps
<1>11. ASSUME NEW p \in Pid, Worker(p) PROVE SupervisionInv'
  BY <1>11, WorkerStep, WorkerFrame
<1> USE DEF TypeOK, Process, SupervisionInv, AtMostOneProcessing, RecordedInv, EngagedInv,
            LaunchInv, CurrentInv, BlockedInv, StartupInv, ResolveInv, Engaged, Processing,
            Launching, Resolving, ResolvePc, Quiet, At, Up, StartupPc, Thread, Running,
            RunningPhase, rows, files, runner, bounds
<1>12. ASSUME StartGui PROVE SupervisionInv'
  BY <1>12 DEF StartGui, NoThread
<1>13. ASSUME NEW j \in Job, StartupRecorded(j) PROVE SupervisionInv'
  BY <1>13 DEF StartupRecorded, OrphanResolved, Signalled, OrphanTargets
<1>14. ASSUME StartupLeaseInactive PROVE SupervisionInv'
  BY <1>14 DEF StartupLeaseInactive, Leave, NoThread
<1>15. ASSUME StartupLeaseUnconfirmed PROVE SupervisionInv'
  BY <1>15 DEF StartupLeaseUnconfirmed, Leave, NoThread
<1>16. ASSUME NEW j \in Job, StartupUnconfirmed(j) PROVE SupervisionInv'
  BY <1>16 DEF StartupUnconfirmed
<1>17. ASSUME StartupInspected PROVE SupervisionInv'
  BY <1>17 DEF StartupInspected, Goto
<1>18. ASSUME GuiExit PROVE SupervisionInv'
  BY <1>18 DEF GuiExit, NoThread, NoProcess
<1>19. ASSUME BeginPass PROVE SupervisionInv'
  BY <1>19 DEF BeginPass, NoThread
<1>20. ASSUME NEW j \in Job, Admit(j) PROVE SupervisionInv'
  BY <1>20 DEF Admit, Transition, TerminalStatus
<1>21. ASSUME Admitted PROVE SupervisionInv'
  BY <1>21 DEF Admitted, Goto
<1>22. ASSUME ClaimNothing PROVE SupervisionInv'
  BY <1>22 DEF ClaimNothing, Finish, NoThread
<1>23. ASSUME LaunchFails PROVE SupervisionInv'
  BY <1>23 DEF LaunchFails, Goto
<1>24. ASSUME RecordPid PROVE SupervisionInv'
  BY <1>24 DEF RecordPid, Finish, NoThread
<1>25. ASSUME FailLaunch PROVE SupervisionInv'
  BY <1>25 DEF FailLaunch, Transition, TerminalStatus, Finish, NoThread
<1>26. ASSUME StopCurrent PROVE SupervisionInv'
  BY <1>26 DEF StopCurrent, NoThread
<1>27. ASSUME KillCurrent PROVE SupervisionInv'
  BY <1>27 DEF KillCurrent, Finish, NoThread, Signalled
<1>28. ASSUME StopUnresolved PROVE SupervisionInv'
  BY <1>28 DEF StopUnresolved, NoThread
<1>29. ASSUME NEW j \in Job, Retry(j) PROVE SupervisionInv'
  BY <1>29 DEF Retry, RetryableStatus
<1>30. ASSUME NEW t \in Thread, NEW j \in Job, ScanSkip(t, j) PROVE SupervisionInv'
  BY <1>30 DEF ScanSkip
<1>31. ASSUME NEW t \in Thread, NEW j \in Job, ScanTake(t, j) PROVE SupervisionInv'
  BY <1>31 DEF ScanTake, ThreadState
<1>32. ASSUME NEW t \in Thread, InspectRecorded(t) PROVE SupervisionInv'
  BY <1>32 DEF InspectRecorded, OrphanResolved, Signalled, OrphanTargets, Goto
<1>33. ASSUME NEW t \in Thread, InspectUnrecorded(t) PROVE SupervisionInv'
  BY <1>33 DEF InspectUnrecorded, OrphanResolved, Signalled, OrphanTargets, Goto
<1>34. ASSUME NEW t \in Thread, LeaseInactive(t) PROVE SupervisionInv'
  BY <1>34 DEF LeaseInactive, Goto
<1>35. ASSUME NEW t \in Thread, StillUnconfirmed(t) PROVE SupervisionInv'
  BY <1>35 DEF StillUnconfirmed, Leave, NoThread
<1>36. ASSUME NEW t \in Thread, Interrupt(t) PROVE SupervisionInv'
  BY <1>36 DEF Interrupt, Transition, TerminalStatus, Leave, NoThread
<1>37. ASSUME NEW t \in Thread, InterruptRaises(t) PROVE SupervisionInv'
  BY <1>37 DEF InterruptRaises, Finish, NoThread
<1>38. ASSUME NEW t \in Thread, ThreadFault(t) PROVE SupervisionInv'
  BY <1>38 DEF ThreadFault, Finish, NoThread
<1>39. ASSUME NEW p \in Pid, WatchExit(p) PROVE SupervisionInv'
  BY <1>39 DEF WatchExit, RunnerLockFree
<1>40. ASSUME NEW p \in Pid, FinishFails(p) PROVE SupervisionInv'
  BY <1>40 DEF FinishFails, WatchEnds, NoProcess
<1>41. CASE UNCHANGED vars
  BY <1>41 DEF vars
<1> HIDE DEF TypeOK, Process, SupervisionInv, AtMostOneProcessing, RecordedInv, EngagedInv,
            LaunchInv, CurrentInv, BlockedInv, StartupInv, ResolveInv, Engaged, Processing,
            Launching, Resolving, ResolvePc, Quiet, At, Up, StartupPc, Thread, Running,
            RunningPhase, rows, files, runner, bounds
<1>42. QED
  BY <1>1, <1>2, <1>3, <1>4, <1>5, <1>6, <1>7, <1>8, <1>9, <1>10, <1>11, <1>12, <1>13, <1>14, <1>15,
      <1>16, <1>17, <1>18, <1>19, <1>20, <1>21, <1>22, <1>23, <1>24, <1>25, <1>26, <1>27, <1>28,
      <1>29, <1>30, <1>31, <1>32, <1>33, <1>34, <1>35, <1>36, <1>37, <1>38, <1>39, <1>40, <1>41
  DEF Next, Startup, Pass, User, Recovery, Watch, Thread

\* ... and so it always holds.
LEMMA SupervisionHolds == ASSUME ~LaunchKillMayFail PROVE Spec => [](TypeOK /\ SupervisionInv)
<1>1. Init => TypeOK /\ SupervisionInv
  BY InitTypeOK, SupervisionInit
<1>2. TypeOK /\ SupervisionInv /\ [Next]_vars => (TypeOK /\ SupervisionInv)'
  BY NextTypeOK, SupervisionNext
<1>3. QED
  BY <1>1, <1>2, PTL DEF Spec

------------------------------------------------------------------------------
(* What follows for the code. *)

\* The invariant itself: at every step the supervision of worker_runner.py and
\* controller.py keeps its rows, processes, threads and in-memory block consistent.
THEOREM SupervisionIsConsistent == ASSUME ~LaunchKillMayFail PROVE Spec => []SupervisionInv
BY SupervisionHolds, PTL

\* WorkerRunner owns one worker: no crash, restart, orphan, stop or retry lets two
\* worker processes run code at the same time.
THEOREM OneWorkerAtATime == ASSUME ~LaunchKillMayFail PROVE Spec => []OneRunningWorker
<1>1. SupervisionInv => OneRunningWorker
  BY DEF SupervisionInv, EngagedInv, Engaged, OneRunningWorker
<1>2. QED
  BY <1>1, SupervisionHolds, PTL

\* No row is finished, restored, swept or released while its worker still runs.
THEOREM NoRowLeavesItsWorker == ASSUME ~LaunchKillMayFail PROVE Spec => []RunningWorkerOwnsRow
<1>1. SupervisionInv => RunningWorkerOwnsRow
  BY DEF SupervisionInv, EngagedInv, Engaged, RunningWorkerOwnsRow
<1>2. QED
  BY <1>1, SupervisionHolds, PTL

\* WorkerRunner.start, called by _start_next_job with the row it has just claimed,
\* never raises WorkerBusyError, even when a failed launch left a worker running.
THEOREM RunnerIsFree == Spec => []LaunchFindsRunnerFree
BY FreeRunner, TrackHolds, PTL

\* _orphan_blocked_job_ids never outlives the processing row it stands for.
THEOREM BlockFollowsRow == Spec => []BlockedRowsProcess
<1>1. TrackInv => BlockedRowsProcess
  BY DEF TrackInv
<1>2. QED
  BY <1>1, TrackHolds, PTL
==============================================================================
