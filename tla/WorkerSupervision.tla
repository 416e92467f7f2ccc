-------------------------- MODULE WorkerSupervision --------------------------
(***************************************************************************)
(* How WorkCall Transcriber supervises its one GPU worker: the durable job *)
(* rows (database.py), the worker process and its named mutex (worker.py,  *)
(* worker_lock.py), the runner that launches, watches and stops it         *)
(* (worker_runner.py), and the controller's two threads that claim, finish *)
(* and recover jobs, over exits and restarts of the GUI (controller.py,    *)
(* queue_service.py).                                                      *)
(*                                                                         *)
(* Left to other modules: how a recording reaches the queue (here a row    *)
(* goes from "waiting" to "queued" in one step), the reconciliation lock   *)
(* (a pass may start whenever the executor is idle: the scheduler thread   *)
(* asks for one forever) and the inner stages of the pipeline.             *)
(***************************************************************************)
EXTENDS Naturals, Sequences, JobStates

CONSTANTS
  Job,                \* the job rows
  Pid,                \* process ids; the system reuses the id of a dead process
  NoJob, NoPid,       \* SQL NULL / Python None
  MaxAttempts,        \* bound: how often one job may be queued
  MaxExits,           \* bound: how often the GUI process may exit or crash
  MaxFaults,          \* bound: how often a database call may raise
  LaunchKillMayFail   \* may the kill that cleans up a failed launch fail?

ASSUME NoJobAssumption  == NoJob \notin Job
ASSUME NoPidAssumption  == NoPid \notin Pid
ASSUME BoundsAssumption == /\ MaxAttempts \in Nat \ {0}
                           /\ MaxExits \in Nat
                           /\ MaxFaults \in Nat
                           /\ LaunchKillMayFail \in BOOLEAN

VARIABLES
  \* durable: the SQLite rows and the files of each job's archive directory
  status,     \* status[j]: the row's status
  workerPid,  \* workerPid[j]: the row's worker_pid
  attempt,    \* attempt[j]: retry_count + 1
  queue,      \* the queued rows by queued_at
  manifest,   \* manifest[j]: the final status in manifest.json and who wrote it
  exports,    \* exports[j]: the five transcript files
  \* the operating system
  proc,       \* proc[p]: the worker process with id p
  \* volatile: the GUI process
  thread,     \* thread[t]: where the executor and the UI thread are
  blocked,    \* _orphan_blocked_job_ids
  current,    \* WorkerRunner._current
  cancelled,  \* processes whose _CurrentWorker.cancelled_by_user is set
  watch,      \* watch[p]: the runner's watcher thread of p
  \* counters of the bounds
  exits, faults

rows    == <<status, workerPid, attempt, queue>>
files   == <<manifest, exports>>
runner  == <<current, cancelled, watch>>
bounds  == <<exits, faults>>
vars    == <<rows, files, proc, thread, blocked, runner, bounds>>

Thread == {"executor", "ui"}

\* Where a thread can be while it runs _recover_unresolved_orphaned_workers.
RecoveryPc == {"scan", "inspect", "lease", "restore", "settle", "interrupt"}
StartupPc  == {"orphans", "orphanLease", "manifests", "sweep"}
ThreadPc   == RecoveryPc \cup StartupPc
              \cup {"idle", "down", "kill", "admit", "claim", "launch", "record", "launchFailed"}

RunningPhase == {"startup", "working", "exporting", "exported", "manifested",
                 "failing", "reporting", "closing"}
\* "dying": killed, but Windows has not torn the process down yet.
\* "exited": gone, but the runner still holds its handle.
Phase == RunningPhase \cup {"none", "dying", "exited"}

NoProcess == [phase |-> "none", job |-> NoJob, attempt |-> 0, lease |-> FALSE, event |-> "none"]

Process == [phase : Phase, job : Job \cup {NoJob}, attempt : 0..MaxAttempts,
            lease : BOOLEAN, event : {"none", "completed", "failed", "cancelled"}]

\* In two places a thread is bound to hold a job.
HoldingPc == {"orphanLease", "launch"}

ThreadState == {s \in [pc : ThreadPc, todo : SUBSET Job, job : Job \cup {NoJob}, pid : Pid \cup {NoPid}] :
                  s.pc \in HoldingPc => s.job \in Job}

TypeOK ==
  /\ status \in [Job -> JobStatus]
  /\ workerPid \in [Job -> Pid \cup {NoPid}]
  /\ attempt \in [Job -> 1..MaxAttempts]
  /\ queue \in Seq(Job)
  /\ manifest \in [Job -> [status : {"none"} \cup ManifestFinalStatus, attempt : 0..MaxAttempts]]
  /\ exports \in [Job -> {"absent", "torn", "whole"}]
  /\ proc \in [Pid -> Process]
  /\ thread \in [Thread -> ThreadState]
  /\ blocked \subseteq Job
  /\ current \in Pid \cup {NoPid}
  /\ cancelled \subseteq Pid
  /\ watch \in [Pid -> {"off", "reading", "finishing"}]
  /\ exits \in 0..MaxExits
  /\ faults \in 0..MaxFaults

------------------------------------------------------------------------------
(* The job rows. *)

Processing == {j \in Job : status[j] = "processing"}

\* JobRepository.transition with _update_row: a terminal target clears the PID.
Transition(j, target) ==
  /\ target \in AllowedTransitions[status[j]]
  /\ status' = [status EXCEPT ![j] = target]
  /\ workerPid' = IF target \in TerminalStatus THEN [workerPid EXCEPT ![j] = NoPid] ELSE workerPid

\* Mutant: a manifest that is not final counts, too.
FinalManifestOfAnyStatus(j) ==
  {s \in {"none"} \cup ManifestFinalStatus : /\ manifest[j].status = s
                                             /\ s = "completed" => exports[j] # "absent"}

\* _read_final_manifest: the result a recovery restores, {} when there is none.
FinalManifest(j) ==
  {s \in ManifestFinalStatus : /\ manifest[j].status = s
                               /\ s = "completed" => exports[j] # "absent"}

(* The worker processes, as the operating system sees them. *)

Running(p) == proc[p].phase \in RunningPhase

\* The runner holds a handle to p, which keeps the process object alive.
Held(p) == \/ current = p
           \/ watch[p] # "off"
           \/ thread["ui"].pc = "kill" /\ thread["ui"].pid = p

\* The launcher still reads the worker's stdout.
PipeOpen(p) == Held(p)

MutexHeld == \E p \in Pid : proc[p].lease

Gone(p) == IF Held(p) THEN [proc[p] EXCEPT !.phase = "exited", !.lease = FALSE] ELSE NoProcess

\* taskkill /F: the process runs no more code, its handles outlive it for a moment.
Signalled(P) == [p \in Pid |-> IF p \in P THEN [proc[p] EXCEPT !.phase = "dying"] ELSE proc[p]]

(* The threads of the GUI. *)

Up == thread["ui"].pc \notin StartupPc \cup {"down"}

At(t, pc) == thread[t].pc = pc

NoThread(pc) == [pc |-> pc, todo |-> {}, job |-> NoJob, pid |-> NoPid]

Goto(t, pc) == thread' = [thread EXCEPT ![t].pc = pc]

\* A thread that is done with its current job, or with its whole task.
Leave(t, pc) == thread' = [thread EXCEPT ![t] = [NoThread(pc) EXCEPT !.todo = thread[t].todo]]
Finish(t) == thread' = [thread EXCEPT ![t] = NoThread("idle")]

\* WorkerRunner.start holds the runner's lock from Popen to the end of on_started.
RunnerLockFree == ~At("executor", "record")

Init ==
  /\ status = [j \in Job |-> "waiting"]
  /\ workerPid = [j \in Job |-> NoPid]
  /\ attempt = [j \in Job |-> 1]
  /\ queue = <<>>
  /\ manifest = [j \in Job |-> [status |-> "none", attempt |-> 0]]
  /\ exports = [j \in Job |-> "absent"]
  /\ proc = [p \in Pid |-> NoProcess]
  /\ thread = [t \in Thread |-> NoThread(IF t = "ui" THEN "down" ELSE "idle")]
  /\ blocked = {}
  /\ current = NoPid
  /\ cancelled = {}
  /\ watch = [p \in Pid |-> "off"]
  /\ exits = 0
  /\ faults = 0

------------------------------------------------------------------------------
(* What a recovery may conclude about the worker of a processing row. *)

\* The processes whose exact command line names job j, or, when a PID was
\* recorded, that one process if it still is such a worker.
OrphanTargets(j, pid) ==
  {p \in Pid : Running(p) /\ proc[p].job = j /\ pid \in {NoPid, p}}

\* STOPPED, ABSENT or PID_REUSED: at most one match, and it has been killed.
OrphanResolved(j, pid) ==
  /\ \A p, q \in OrphanTargets(j, pid) : p = q
  /\ proc' = Signalled(OrphanTargets(j, pid))

------------------------------------------------------------------------------
(* AppController.start, on the UI thread. *)

StartGui ==
  /\ At("ui", "down")
  /\ thread' = [thread EXCEPT !["ui"] = [NoThread("orphans") EXCEPT !.todo = Processing]]
  /\ UNCHANGED <<rows, files, proc, blocked, runner, bounds>>

StartupRecorded(j) ==
  /\ At("ui", "orphans") /\ j \in thread["ui"].todo
  /\ workerPid[j] # NoPid
  /\ OrphanResolved(j, workerPid[j])
  /\ thread' = [thread EXCEPT !["ui"].todo = @ \ {j}]
  /\ UNCHANGED <<rows, files, blocked, runner, bounds>>

StartupUnrecorded(j) ==
  /\ At("ui", "orphans") /\ j \in thread["ui"].todo
  /\ workerPid[j] = NoPid
  /\ OrphanResolved(j, NoPid)
  /\ thread' = [thread EXCEPT !["ui"].pc = "orphanLease", !["ui"].job = j,
                              !["ui"].todo = @ \ {j}]
  /\ UNCHANGED <<rows, files, blocked, runner, bounds>>

\* INACTIVE lets the row be recovered; ACTIVE and UNCONFIRMED block it.
StartupLeaseInactive ==
  /\ At("ui", "orphanLease")
  /\ ~MutexHeld
  /\ Leave("ui", "orphans")
  /\ UNCHANGED <<rows, files, proc, blocked, runner, bounds>>

StartupLeaseUnconfirmed ==
  /\ At("ui", "orphanLease")
  /\ blocked' = blocked \cup {thread["ui"].job}
  /\ Leave("ui", "orphans")
  /\ UNCHANGED <<rows, files, proc, runner, bounds>>

\* Mutant: an unconfirmed worker does not block its row.
StartupUnconfirmedForgotten(j) ==
  /\ At("ui", "orphans") /\ j \in thread["ui"].todo
  /\ thread' = [thread EXCEPT !["ui"].todo = @ \ {j}]
  /\ UNCHANGED <<rows, files, proc, blocked, runner, bounds>>

\* UNCONFIRMED: the inspection or the kill failed, so the row blocks the queue.
StartupUnconfirmed(j) ==
  /\ At("ui", "orphans") /\ j \in thread["ui"].todo
  /\ blocked' = blocked \cup {j}
  /\ thread' = [thread EXCEPT !["ui"].todo = @ \ {j}]
  /\ UNCHANGED <<rows, files, proc, runner, bounds>>

StartupInspected ==
  /\ At("ui", "orphans") /\ thread["ui"].todo = {}
  /\ Goto("ui", "manifests")
  /\ UNCHANGED <<rows, files, proc, blocked, runner, bounds>>

\* recover_completed_manifests: each unblocked row with a final manifest takes its result.
RestoreManifests ==
  /\ At("ui", "manifests")
  /\ LET restored == {j \in Processing \ blocked : FinalManifest(j) # {}}
     IN /\ status' = [j \in Job |-> IF j \in restored THEN manifest[j].status ELSE status[j]]
        /\ workerPid' = [j \in Job |-> IF j \in restored THEN NoPid ELSE workerPid[j]]
  /\ Goto("ui", "sweep")
  /\ UNCHANGED <<attempt, queue, files, proc, blocked, runner, bounds>>

\* Mutant: the UPDATE does not exclude the blocked rows.
SweepBlockedToo ==
  /\ At("ui", "sweep")
  /\ status' = [j \in Job |-> IF j \in Processing THEN "interrupted" ELSE status[j]]
  /\ workerPid' = [j \in Job |-> IF j \in Processing THEN NoPid ELSE workerPid[j]]
  /\ Finish("ui")
  /\ UNCHANGED <<attempt, queue, files, proc, blocked, runner, bounds>>

\* JobRepository.recover_after_restart: one UPDATE over the unblocked active rows.
Sweep ==
  /\ At("ui", "sweep")
  /\ LET swept == Processing \ blocked
     IN /\ status' = [j \in Job |-> IF j \in swept THEN "interrupted" ELSE status[j]]
        /\ workerPid' = [j \in Job |-> IF j \in swept THEN NoPid ELSE workerPid[j]]
  /\ Finish("ui")
  /\ UNCHANGED <<attempt, queue, files, proc, blocked, runner, bounds>>

\* The process ends, by Quit or by a crash; a worker survives it.
GuiExit ==
  /\ ~At("ui", "down")
  /\ exits < MaxExits
  /\ exits' = exits + 1
  /\ thread' = [t \in Thread |-> NoThread(IF t = "ui" THEN "down" ELSE "idle")]
  /\ blocked' = {}
  /\ current' = NoPid
  /\ cancelled' = {}
  /\ watch' = [p \in Pid |-> "off"]
  /\ proc' = [p \in Pid |-> IF proc[p].phase = "exited" THEN NoProcess ELSE proc[p]]
  /\ UNCHANGED <<rows, files, faults>>

------------------------------------------------------------------------------
(* _recover_unresolved_orphaned_workers, on the executor or the UI thread. *)

ScanSkip(t, j) ==
  /\ At(t, "scan") /\ j \in thread[t].todo \ blocked
  /\ thread' = [thread EXCEPT ![t].todo = @ \ {j}]
  /\ UNCHANGED <<rows, files, proc, blocked, runner, bounds>>

\* Mutant: a pass resolves every processing row, not only the blocked ones.
ScanTakeUnblocked(t, j) ==
  /\ At(t, "scan") /\ j \in thread[t].todo
  /\ thread' = [thread EXCEPT ![t] = [pc |-> "inspect", todo |-> @.todo \ {j},
                                      job |-> j, pid |-> workerPid[j]]]
  /\ UNCHANGED <<rows, files, proc, blocked, runner, bounds>>

ScanTake(t, j) ==
  /\ At(t, "scan") /\ j \in thread[t].todo \cap blocked
  /\ thread' = [thread EXCEPT ![t] = [pc |-> "inspect", todo |-> @.todo \ {j},
                                      job |-> j, pid |-> workerPid[j]]]
  /\ UNCHANGED <<rows, files, proc, blocked, runner, bounds>>

ScanDone(t) ==
  /\ At(t, "scan") /\ thread[t].todo = {}
  /\ IF t = "ui" THEN Finish(t) ELSE Goto(t, "admit")
  /\ UNCHANGED <<rows, files, proc, blocked, runner, bounds>>

\* Mutant: the block is not discarded.
InspectRecordedKeepsBlock(t) ==
  /\ At(t, "inspect") /\ thread[t].pid # NoPid
  /\ OrphanResolved(thread[t].job, thread[t].pid)
  /\ Goto(t, "restore")
  /\ UNCHANGED <<rows, files, blocked, runner, bounds>>

\* A recorded worker is resolved by its process alone, an unrecorded one also
\* needs the mutex to be free.
InspectRecorded(t) ==
  /\ At(t, "inspect") /\ thread[t].pid # NoPid
  /\ OrphanResolved(thread[t].job, thread[t].pid)
  /\ blocked' = blocked \ {thread[t].job}
  /\ Goto(t, "restore")
  /\ UNCHANGED <<rows, files, runner, bounds>>

InspectUnrecorded(t) ==
  /\ At(t, "inspect") /\ thread[t].pid = NoPid
  /\ OrphanResolved(thread[t].job, NoPid)
  /\ Goto(t, "lease")
  /\ UNCHANGED <<rows, files, blocked, runner, bounds>>

LeaseInactive(t) ==
  /\ At(t, "lease") /\ ~MutexHeld
  /\ blocked' = blocked \ {thread[t].job}
  /\ Goto(t, "restore")
  /\ UNCHANGED <<rows, files, proc, runner, bounds>>

StillUnconfirmed(t) ==
  /\ At(t, "inspect") \/ At(t, "lease")
  /\ Leave(t, "scan")
  /\ UNCHANGED <<rows, files, proc, blocked, runner, bounds>>

\* _release_orphan_block: the manifest first, then the row if it still is processing.
Restore(t) ==
  /\ At(t, "restore")
  /\ LET j == thread[t].job
     IN IF status[j] = "processing" /\ FinalManifest(j) # {}
        THEN Transition(j, manifest[j].status)
        ELSE UNCHANGED <<status, workerPid>>
  /\ Goto(t, "settle")
  /\ UNCHANGED <<attempt, queue, files, proc, blocked, runner, bounds>>

Settle(t) ==
  /\ At(t, "settle")
  /\ IF status[thread[t].job] = "processing" THEN Goto(t, "interrupt") ELSE Leave(t, "scan")
  /\ UNCHANGED <<rows, files, proc, blocked, runner, bounds>>

Interrupt(t) ==
  /\ At(t, "interrupt") /\ status[thread[t].job] = "processing"
  /\ Transition(thread[t].job, "interrupted")
  /\ Leave(t, "scan")
  /\ UNCHANGED <<attempt, queue, files, proc, blocked, runner, bounds>>

\* The other thread was faster: InvalidJobTransition ends the pass or the click.
InterruptRaises(t) ==
  /\ At(t, "interrupt") /\ status[thread[t].job] # "processing"
  /\ Finish(t)
  /\ UNCHANGED <<rows, files, proc, blocked, runner, bounds>>

\* A database call raises and the exception ends what the thread was doing.
ThreadFault(t) ==
  /\ thread[t].pc \in {"scan", "restore", "settle", "interrupt", "admit", "claim",
                       "launch", "launchFailed"}
  /\ faults < MaxFaults
  /\ faults' = faults + 1
  /\ Finish(t)
  /\ UNCHANGED <<rows, files, proc, blocked, runner, exits>>
------------------------------------------------------------------------------
(* The executor: _run_reconciliation and _start_next_job. *)

BeginPass ==
  /\ Up /\ At("executor", "idle")
  /\ thread' = [thread EXCEPT !["executor"] = [NoThread("scan") EXCEPT !.todo = Processing]]
  /\ UNCHANGED <<rows, files, proc, blocked, runner, bounds>>

\* QueueService.reconcile: an imported recording joins the queue.
Admit(j) ==
  /\ At("executor", "admit")
  /\ status[j] = "waiting"
  /\ Transition(j, "queued")
  /\ queue' = Append(queue, j)
  /\ UNCHANGED <<attempt, files, proc, thread, blocked, runner, bounds>>

Admitted ==
  /\ At("executor", "admit")
  /\ Goto("executor", "claim")
  /\ UNCHANGED <<rows, files, proc, blocked, runner, bounds>>

Claim ==
  /\ At("executor", "claim")
  /\ Processing = {} /\ queue # <<>>
  /\ Transition(Head(queue), "processing")
  /\ queue' = Tail(queue)
  /\ thread' = [thread EXCEPT !["executor"].pc = "launch", !["executor"].job = Head(queue)]
  /\ UNCHANGED <<attempt, files, proc, blocked, runner, bounds>>

ClaimNothing ==
  /\ At("executor", "claim")
  /\ Processing # {} \/ queue = <<>>
  /\ Finish("executor")
  /\ UNCHANGED <<rows, files, proc, blocked, runner, bounds>>

\* poll() of the tracked worker is still None.
RunnerBusy == current # NoPid /\ proc[current].phase # "exited"

\* WorkerRunner.start up to Popen; a busy runner costs the job this attempt.
Launch(p) ==
  /\ At("executor", "launch")
  /\ LET j == thread["executor"].job
     IN IF RunnerBusy
        THEN /\ Transition(j, "interrupted")
             /\ Finish("executor")
             /\ UNCHANGED <<proc, current>>
        ELSE /\ proc[p].phase = "none" /\ ~Held(p)
             /\ proc' = [proc EXCEPT ![p] = [phase |-> "startup", job |-> j,
                           attempt |-> attempt[j], lease |-> FALSE, event |-> "none"]]
             /\ current' = p
             /\ thread' = [thread EXCEPT !["executor"].pc = "record", !["executor"].pid = p]
             /\ UNCHANGED <<status, workerPid>>
  /\ UNCHANGED <<attempt, queue, files, blocked, cancelled, watch, bounds>>

\* The interpreter is missing, the spec cannot be written or Popen fails.
LaunchFails ==
  /\ At("executor", "launch") /\ ~RunnerBusy
  /\ Goto("executor", "launchFailed")
  /\ UNCHANGED <<rows, files, proc, blocked, runner, bounds>>

\* Mutant: the watcher thread is not started.
RecordPidUnwatched ==
  /\ At("executor", "record")
  /\ workerPid' = [workerPid EXCEPT ![thread["executor"].job] = thread["executor"].pid]
  /\ Finish("executor")
  /\ UNCHANGED <<status, attempt, queue, files, proc, blocked, runner, bounds>>

\* on_started: set_worker_pid commits, then the watcher thread starts.
RecordPid ==
  /\ At("executor", "record")
  /\ workerPid' = [workerPid EXCEPT ![thread["executor"].job] = thread["executor"].pid]
  /\ watch' = [watch EXCEPT ![thread["executor"].pid] = "reading"]
  /\ Finish("executor")
  /\ UNCHANGED <<status, attempt, queue, files, proc, blocked, current, cancelled, bounds>>

\* Mutant: the worker of a failed launch is not killed.
RecordFailsWithoutKill ==
  /\ At("executor", "record")
  /\ faults < MaxFaults
  /\ faults' = faults + 1
  /\ current' = NoPid
  /\ Goto("executor", "launchFailed")
  /\ UNCHANGED <<rows, files, proc, blocked, cancelled, watch, exits>>

\* on_started raises: the worker is untracked, then killed, and nobody looks at
\* the result of that kill.
RecordFails ==
  /\ At("executor", "record")
  /\ faults < MaxFaults
  /\ faults' = faults + 1
  /\ current' = NoPid
  /\ LET p == thread["executor"].pid
     IN IF Running(p)
        THEN \/ proc' = Signalled({p})
             \/ LaunchKillMayFail /\ proc' = proc
        ELSE proc' = [proc EXCEPT ![p] = NoProcess]
  /\ Goto("executor", "launchFailed")
  /\ UNCHANGED <<rows, files, blocked, cancelled, watch, exits>>

\* Mutant: the handler of a failed launch leaves the row processing.
FailLaunchSilently ==
  /\ At("executor", "launchFailed")
  /\ Finish("executor")
  /\ UNCHANGED <<rows, files, proc, blocked, runner, bounds>>

FailLaunch ==
  /\ At("executor", "launchFailed")
  /\ Transition(thread["executor"].job, "failed")
  /\ Finish("executor")
  /\ UNCHANGED <<attempt, queue, files, proc, blocked, runner, bounds>>

------------------------------------------------------------------------------
(* The watcher thread of a launched worker: WorkerRunner._watch and            *)
(* AppController._on_worker_finished.  The pipe is read to its end before the  *)
(* process is waited for, so every event the worker emitted has arrived.       *)

WatchExit(p) ==
  /\ watch[p] = "reading" /\ proc[p].phase = "exited"
  /\ RunnerLockFree
  /\ watch' = [watch EXCEPT ![p] = "finishing"]
  /\ current' = IF current = p THEN NoPid ELSE current
  /\ UNCHANGED <<rows, files, proc, thread, blocked, cancelled, bounds>>

\* Mutant: a worker that ended without a final event is taken for a success.
FinalStatusOfSilence(p) ==
  CASE p \in cancelled \/ proc[p].event = "cancelled" -> "cancelled"
    [] p \notin cancelled /\ proc[p].event # "failed" -> "completed"
    [] OTHER -> "failed"

\* A stop by the user outranks whatever the worker reported.
FinalStatus(p) ==
  CASE p \in cancelled \/ proc[p].event = "cancelled" -> "cancelled"
    [] p \notin cancelled /\ proc[p].event = "completed" -> "completed"
    [] OTHER -> "failed"

WatchEnds(p) ==
  /\ watch[p] = "finishing"
  /\ watch' = [watch EXCEPT ![p] = "off"]
  /\ cancelled' = cancelled \ {p}
  /\ proc' = [proc EXCEPT ![p] = NoProcess]

\* Mutant: a worker that ended without a final event leaves its row processing.
FinishReportedWorker(p) ==
  /\ WatchEnds(p)
  /\ IF status[proc[p].job] = "processing" /\ (p \in cancelled \/ proc[p].event # "none")
     THEN Transition(proc[p].job, FinalStatus(p))
     ELSE UNCHANGED <<status, workerPid>>
  /\ UNCHANGED <<attempt, queue, files, thread, blocked, current, bounds>>

FinishWorker(p) ==
  /\ WatchEnds(p)
  /\ IF status[proc[p].job] = "processing"
     THEN Transition(proc[p].job, FinalStatus(p))
     ELSE UNCHANGED <<status, workerPid>>
  /\ UNCHANGED <<attempt, queue, files, thread, blocked, current, bounds>>

\* A database call raises: the exception is logged and the row stays processing.
FinishFails(p) ==
  /\ WatchEnds(p)
  /\ faults < MaxFaults
  /\ faults' = faults + 1
  /\ UNCHANGED <<rows, files, thread, blocked, current, exits>>

------------------------------------------------------------------------------
(* The user, on the UI thread. *)

\* stop_current marks the worker under the lock and kills it after releasing it.
StopCurrent ==
  /\ At("ui", "idle") /\ RunnerLockFree /\ RunnerBusy
  /\ cancelled' = cancelled \cup {current}
  /\ thread' = [thread EXCEPT !["ui"] = [NoThread("kill") EXCEPT !.pid = current]]
  /\ UNCHANGED <<rows, files, proc, blocked, current, watch, bounds>>

KillCurrent ==
  /\ At("ui", "kill")
  /\ proc[thread["ui"].pid].phase \in RunningPhase \cup {"dying"}
  /\ proc' = Signalled({thread["ui"].pid})
  /\ Finish("ui")
  /\ UNCHANGED <<rows, files, blocked, runner, bounds>>

\* Nothing to stop, or the kill failed: look for a blocked worker instead.
StopUnresolved ==
  /\ \/ At("ui", "idle") /\ RunnerLockFree /\ ~RunnerBusy
     \/ At("ui", "kill")
  /\ thread' = [thread EXCEPT !["ui"] = [NoThread("scan") EXCEPT !.todo = Processing]]
  /\ UNCHANGED <<rows, files, proc, blocked, runner, bounds>>

\* JobRepository.retry of a job whose archived recording is intact.
Retry(j) ==
  /\ At("ui", "idle")
  /\ status[j] \in RetryableStatus
  /\ attempt[j] < MaxAttempts
  /\ status' = [status EXCEPT ![j] = "queued"]
  /\ workerPid' = [workerPid EXCEPT ![j] = NoPid]
  /\ attempt' = [attempt EXCEPT ![j] = @ + 1]
  /\ queue' = Append(queue, j)
  /\ UNCHANGED <<files, proc, thread, blocked, runner, bounds>>

------------------------------------------------------------------------------
(* The worker process: worker.main and run_job.  An emit raises once the GUI   *)
(* that launched the worker is gone, because nobody holds the pipe's other end. *)

SetPhase(p, from, to) ==
  /\ proc[p].phase = from
  /\ proc' = [proc EXCEPT ![p].phase = to]

WorkerOnly == UNCHANGED <<rows, thread, blocked, runner, bounds>>

AcquireLease(p) ==
  /\ proc[p].phase = "startup" /\ ~MutexHeld
  /\ proc' = [proc EXCEPT ![p].phase = "working", ![p].lease = TRUE]
  /\ UNCHANGED files /\ WorkerOnly

\* The mutex exists (WorkerLeaseBusyError) or cannot be created (OSError): fails
\* like any other error, without the mutex.
LeaseFails(p) ==
  /\ SetPhase(p, "startup", "failing")
  /\ UNCHANGED files /\ WorkerOnly

\* write_transcript_outputs overwrites the five files one by one.
BeginExport(p) ==
  /\ PipeOpen(p)
  /\ SetPhase(p, "working", "exporting")
  /\ LET j == proc[p].job
     IN \E e \in IF exports[j] = "absent" THEN {"absent", "torn"} ELSE {"torn"} :
          exports' = [exports EXCEPT ![j] = e]
  /\ UNCHANGED manifest /\ WorkerOnly

FinishExport(p) ==
  /\ SetPhase(p, "exporting", "exported")
  /\ exports' = [exports EXCEPT ![proc[p].job] = "whole"]
  /\ UNCHANGED manifest /\ WorkerOnly

\* Mutant: the manifest is written before the last export.
WriteManifestEarly(p) ==
  /\ SetPhase(p, "exporting", "manifested")
  /\ manifest' = [manifest EXCEPT ![proc[p].job] =
                    [status |-> "completed", attempt |-> proc[p].attempt]]
  /\ UNCHANGED exports /\ WorkerOnly

WriteManifest(p) ==
  /\ SetPhase(p, "exported", "manifested")
  /\ manifest' = [manifest EXCEPT ![proc[p].job] =
                    [status |-> "completed", attempt |-> proc[p].attempt]]
  /\ UNCHANGED exports /\ WorkerOnly

EmitCompleted(p) ==
  /\ PipeOpen(p)
  /\ proc[p].phase = "manifested"
  /\ proc' = [proc EXCEPT ![p].phase = "closing", ![p].event = "completed"]
  /\ UNCHANGED files /\ WorkerOnly

\* KeyboardInterrupt, at any point of run_job's try: no manifest is written.
WorkerCancelled(p) ==
  /\ proc[p].phase \in {"startup", "working", "exporting", "exported", "manifested"}
  /\ proc' = [proc EXCEPT ![p].phase = "closing",
                          ![p].event = IF PipeOpen(p) THEN "cancelled" ELSE "none"]
  /\ UNCHANGED files /\ WorkerOnly

\* Any error of a stage, an export or an emit ends in the failure handler.
StageRaises(p) ==
  /\ \/ proc[p].phase \in {"working", "exporting", "exported"}
     \/ proc[p].phase = "manifested" /\ ~PipeOpen(p)
  /\ proc' = [proc EXCEPT ![p].phase = "failing"]
  /\ UNCHANGED files /\ WorkerOnly

\* _write_failure_manifest replaces manifest.json, or logs that it could not.
WriteFailureManifest(p) ==
  /\ SetPhase(p, "failing", "reporting")
  /\ \/ manifest' = [manifest EXCEPT ![proc[p].job] =
                       [status |-> "failed", attempt |-> proc[p].attempt]]
     \/ UNCHANGED manifest
  /\ UNCHANGED exports /\ WorkerOnly

EmitFailed(p) ==
  /\ proc[p].phase = "reporting"
  /\ proc' = [proc EXCEPT ![p].phase = "closing",
                          ![p].event = IF PipeOpen(p) THEN "failed" ELSE "none"]
  /\ UNCHANGED files /\ WorkerOnly

ReleaseLease(p) ==
  /\ proc[p].phase = "closing" /\ proc[p].lease
  /\ proc' = [proc EXCEPT ![p].lease = FALSE]
  /\ UNCHANGED files /\ WorkerOnly

ExitWorker(p) ==
  /\ proc[p].phase = "closing" /\ ~proc[p].lease
  /\ proc' = [proc EXCEPT ![p] = Gone(p)]
  /\ UNCHANGED files /\ WorkerOnly

\* The process crashes or is killed from outside; the system frees its mutex.
WorkerDies(p) ==
  /\ Running(p)
  /\ proc' = [proc EXCEPT ![p] = Gone(p)]
  /\ UNCHANGED files /\ WorkerOnly

\* The system has torn a killed process down.
Reap(p) ==
  /\ proc[p].phase = "dying"
  /\ proc' = [proc EXCEPT ![p] = Gone(p)]
  /\ UNCHANGED files /\ WorkerOnly

------------------------------------------------------------------------------

Startup ==
  \/ StartGui \/ StartupLeaseInactive \/ StartupLeaseUnconfirmed
  \/ StartupInspected \/ RestoreManifests \/ Sweep
  \/ \E j \in Job : StartupRecorded(j) \/ StartupUnrecorded(j) \/ StartupUnconfirmed(j)

Recovery(t) ==
  \/ \E j \in Job : ScanSkip(t, j) \/ ScanTake(t, j)
  \/ ScanDone(t) \/ InspectRecorded(t) \/ InspectUnrecorded(t) \/ LeaseInactive(t)
  \/ StillUnconfirmed(t) \/ Restore(t) \/ Settle(t) \/ Interrupt(t) \/ InterruptRaises(t)

Pass ==
  \/ BeginPass \/ Admitted \/ Claim \/ ClaimNothing
  \/ (\E j \in Job : Admit(j))
  \/ (\E p \in Pid : Launch(p))
  \/ LaunchFails \/ RecordPid \/ RecordFails \/ FailLaunch

Watch(p) == WatchExit(p) \/ FinishWorker(p) \/ FinishFails(p)

User == StopCurrent \/ KillCurrent \/ StopUnresolved \/ \E j \in Job : Retry(j)

Worker(p) ==
  \/ AcquireLease(p) \/ LeaseFails(p) \/ BeginExport(p) \/ FinishExport(p)
  \/ WriteManifest(p) \/ EmitCompleted(p) \/ WorkerCancelled(p) \/ StageRaises(p)
  \/ WriteFailureManifest(p) \/ EmitFailed(p) \/ ReleaseLease(p) \/ ExitWorker(p)
  \/ WorkerDies(p) \/ Reap(p)

Next ==
  \/ Startup \/ GuiExit \/ Pass \/ User
  \/ \E t \in Thread : Recovery(t) \/ ThreadFault(t)
  \/ \E p \in Pid : Watch(p) \/ Worker(p)

Spec == Init /\ [][Next]_vars
(* Fairness: the scheduler asks for a pass forever, a thread that runs goes on, *)
(* a worker stage ends or raises, Windows tears a killed process down, and the  *)
(* GUI is started again after it exited.  An inspection that can succeed does   *)
(* not stay inconclusive forever.  No retry, stop or exit is ever due.          *)
Fairness ==
  /\ WF_vars(Startup)
  /\ WF_vars(Pass)
  /\ WF_vars(KillCurrent \/ (At("ui", "kill") /\ StopUnresolved))
  /\ \A t \in Thread : /\ WF_vars(Recovery(t))
                       /\ SF_vars(InspectRecorded(t) \/ InspectUnrecorded(t))
                       /\ SF_vars(LeaseInactive(t))
  /\ \A p \in Pid : WF_vars(Watch(p)) /\ WF_vars(Worker(p))

FairSpec == Spec /\ Fairness

------------------------------------------------------------------------------
(* Safety. *)

\* claim_next_queued never gives the GPU to a second job, whatever was
\* restored, swept, retried or left behind in the meantime.
AtMostOneProcessing == \A i, j \in Processing : i = j

\* WorkerRunner: "Own exactly one child worker and its process tree at a time",
\* over every crash, orphan and failed launch: two workers never run at once.
OneRunningWorker == \A p, q \in Pid : Running(p) /\ Running(q) => p = q

\* A row leaves "processing" (is finished, restored, swept or released) only when
\* its worker runs no more, so a retry cannot meet the previous attempt's worker.
RunningWorkerOwnsRow == \A p \in Pid : Running(p) => status[proc[p].job] = "processing"

\* _on_worker_finished and _read_final_manifest: a job is completed only with the
\* whole transcript of one attempt in its archive directory, never with a mixture
\* that an interrupted export left behind.
CompletedTranscriptIsWhole == \A j \in Job : status[j] = "completed" => exports[j] = "whole"

\* With retries that can fail in one way only: while its manifest is of the row's own
\* attempt, a completed row has the whole transcript. The exception is an earlier
\* attempt's manifest, which recovery may restore over a later attempt's exports.
CompletedIsWholeOrStale ==
  \A j \in Job :
    status[j] = "completed" /\ manifest[j].attempt = attempt[j] => exports[j] = "whole"

\* _start_next_job has claimed the only processing row, so the runner it then
\* asks cannot be busy: the worker_busy branch is never taken.
LaunchFindsRunnerFree == At("executor", "launch") => ~RunnerBusy

\* A job id in _orphan_blocked_job_ids always has a processing row: the in-memory
\* block is never left over from a job that was released or finished.
BlockedRowsProcess == blocked \subseteq Processing

\* A worker's completed manifest, once written, is not replaced by a failure of
\* the same attempt, so that recovery can restore the completed work.
CompletedManifestKept ==
  [][\A j \in Job : /\ manifest[j].status = "completed"
                    /\ manifest'[j].status = "failed"
                    => manifest'[j].attempt # manifest[j].attempt]_vars

------------------------------------------------------------------------------
(* Liveness. *)

\* claim_next_queued: no job waits in the queue forever, not even behind a row
\* that a crash left processing or that recovery blocked.
QueuedIsClaimed == \A j \in Job : status[j] = "queued" ~> status[j] = "processing"

\* Every claimed job is finished, restored, swept or released in the end: a row
\* blocks the queue only while its worker is unresolved.
ProcessingEnds == \A j \in Job : status[j] = "processing" ~> status[j] # "processing"

------------------------------------------------------------------------------
(* Why the safety properties hold: the inductive invariant of the proofs. *)

\* p may still change its job's row: it runs, or its watcher has yet to finish it.
Engaged(p) == Running(p) \/ watch[p] # "off"

Quiet(j) == \A p \in Pid : Engaged(p) => proc[p].job # j

\* Thread t has taken job j out of the scan and is resolving its worker.
ResolvePc == {"inspect", "lease", "restore", "settle", "interrupt"}
Resolving(t) == thread[t].pc \in ResolvePc

Launching == thread["executor"].pc \in {"launch", "record", "launchFailed"}

\* Only a processing row records a PID.
RecordedInv == \A j \in Job \ Processing : workerPid[j] = NoPid

\* At most one worker is engaged, and it owns the processing row.
EngagedInv ==
  /\ \A p \in Pid : Engaged(p) => /\ proc[p].job \in Job
                                  /\ status[proc[p].job] = "processing"
                                  /\ workerPid[proc[p].job] \in {NoPid, p}
  /\ \A p, q \in Pid : Engaged(p) /\ Engaged(q) => p = q
  /\ \A p \in Pid : watch[p] = "finishing" => ~Running(p)

\* A launch works on the processing row, and no other worker is engaged.
LaunchInv ==
  Launching =>
    LET e == thread["executor"]
    IN /\ e.job \in Processing \ blocked
       /\ \A p \in Pid : Engaged(p) => e.pc = "record" /\ p = e.pid /\ watch[p] = "off"
       /\ workerPid[e.job] = NoPid
       /\ e.pc = "record" => /\ e.pid \in Pid
                             /\ current = e.pid
                             /\ proc[e.pid].job = e.job

\* The runner tracks the worker it launches or watches, and no other.
CurrentInv ==
  current # NoPid => \/ watch[current] = "reading"
                     \/ At("executor", "record") /\ thread["executor"].pid = current

BlockedInv ==
  /\ blocked \subseteq Processing
  /\ \A p \in Pid : watch[p] # "off" => proc[p].job \notin blocked

\* While the GUI starts nothing else runs in it, and a row that startup has
\* resolved and not blocked has no worker left.
StartupInv ==
  ~Up => /\ At("executor", "idle")
         /\ \A p \in Pid : watch[p] = "off"
         /\ LET u == thread["ui"]
            IN /\ u.pc \in StartupPc => \A j \in Processing \ (blocked \cup u.todo) : Quiet(j)
               /\ u.pc \in {"manifests", "sweep"} => u.todo = {}
               /\ u.pc \in {"orphans", "orphanLease"} => u.todo \subseteq Processing
               /\ u.pc = "orphanLease" => u.job \in Processing

\* A job being resolved is not launched or watched again until that is over, and
\* once its worker is resolved it is quiet.
ResolveInv ==
  \A t \in Thread : Resolving(t) =>
    LET r == thread[t]
    IN /\ r.job \in Job
       /\ t = "ui" => /\ status[r.job] \notin {"waiting", "queued"}
                      /\ Launching => thread["executor"].job # r.job
       /\ r.pc = "inspect" =>
            \A p \in Pid : Engaged(p) /\ proc[p].job = r.job => Running(p) /\ watch[p] = "off" /\ r.pid \in {NoPid, p}
       /\ r.pc # "inspect" => Quiet(r.job)
       /\ r.pc \in {"restore", "settle", "interrupt"} => r.job \notin blocked

\* The inductive invariant: each conjunct is needed to preserve another.
SupervisionInv ==
  /\ AtMostOneProcessing
  /\ RecordedInv /\ EngagedInv /\ LaunchInv /\ CurrentInv /\ BlockedInv /\ StartupInv /\ ResolveInv

------------------------------------------------------------------------------
(* The contract of GpuSlot. *)

HolderOfSlot == IF Processing = {} THEN NoJob ELSE CHOOSE j \in Processing : TRUE

StateOfSlot ==
  CASE Processing = {} -> "free"
    [] Processing # {} /\ (\E p \in Pid : Running(p)) -> "running"
    [] Processing # {} /\ (\A p \in Pid : ~Running(p)) /\ At("executor", "launch") -> "held"
    [] OTHER -> "ended"

Slot == INSTANCE GpuSlot WITH holder <- HolderOfSlot, slot <- StateOfSlot

\* The supervision implements the one-slot contract: a claim starts at most one
\* worker, and the slot is free again only after that worker has stopped running.
SlotContract == Slot!SlotSpec
==============================================================================
