---------------------------- MODULE ReconcileLoop ----------------------------
(***************************************************************************)
(* The threads that ask for a reconciliation and the executor that runs    *)
(* it (controller.py): the UI thread, the scheduler, the Inbox observer    *)
(* and the runner's watcher threads all call request_reconciliation, which *)
(* drops a request that meets a running pass; Quit stops some of them      *)
(* while others go on.                                                     *)
(*                                                                         *)
(* Left to other modules: how a recording is imported (ArchiveImport), and *)
(* crashes, orphans and the steps of a launch (WorkerSupervision).  A row  *)
(* whose worker ended in this session is not retried here, so each job has *)
(* at most one watcher thread, which bears the job's name.                 *)
(***************************************************************************)
EXTENDS Naturals, Sequences

CONSTANTS
  Job,        \* the recordings and their rows
  NoJob,      \* Python None
  MaxFaults   \* bound: how many passes and callbacks may end with an exception

\* The threads that are not watchers of a worker.
Resident == {"ui", "scheduler", "observer"}

ASSUME JobAssumption   == Job \cap Resident = {} /\ NoJob \notin Job
ASSUME FaultAssumption == MaxFaults \in Nat

VARIABLES
  row,        \* row[j]: the recording's way through the queue
  queue,      \* the queued jobs, in the order of queued_at
  pc,         \* pc[t]: where thread t is
  locked,     \* _reconcile_lock
  submitted,  \* passes that wait in the executor
  pass,       \* where the executor's pass is
  claimed,    \* the job that pass has claimed
  worker,     \* the job of the running worker process
  observing,  \* _observer is set
  stop,       \* _stop_event
  open,       \* the executor accepts passes
  faults

executor == <<submitted, pass, claimed>>
vars == <<row, queue, pc, locked, executor, worker, observing, stop, open, faults>>

Thread == Resident \cup Job

RowState == {"absent", "waiting", "queued", "processing", "ended", "failed"}
PassPc   == {"idle", "import", "claim", "launch", "release"}
AskPc    == {"idle", "asking", "submitting", "dead"}
UiPc     == AskPc \cup {"joining", "stopping", "closing", "stoppingAgain", "exiting", "exited"}
WatchPc  == AskPc \cup {"reading", "finishing"}

TypeOK ==
  /\ row \in [Job -> RowState]
  /\ queue \in Seq(Job)
  /\ pc \in [Thread -> UiPc \cup WatchPc]
  /\ pc["ui"] \in UiPc
  /\ locked \in BOOLEAN
  /\ submitted \in Nat
  /\ pass \in PassPc
  /\ claimed \in Job \cup {NoJob}
  /\ pass = "launch" => claimed \in Job
  /\ worker \in Job \cup {NoJob}
  /\ observing \in BOOLEAN
  /\ stop \in BOOLEAN
  /\ open \in BOOLEAN
  /\ faults \in 0..MaxFaults

At(t, p) == pc[t] = p
Goto(t, p) == pc' = [pc EXCEPT ![t] = p]

Processing == {j \in Job : row[j] = "processing"}

\* AppController.start has started the scheduler and asks for the first pass.
\* A row of an earlier session may be waiting for a retry.
Init ==
  /\ row \in [Job -> {"absent", "failed"}]
  /\ queue = <<>>
  /\ pc = [t \in Thread |-> IF t = "ui" THEN "asking" ELSE "idle"]
  /\ locked = FALSE
  /\ submitted = 0
  /\ pass = "idle"
  /\ claimed = NoJob
  /\ worker = NoJob
  /\ observing \in BOOLEAN
  /\ stop = FALSE
  /\ open = TRUE
  /\ faults = 0

------------------------------------------------------------------------------
(* request_reconciliation, on any thread. *)

\* Mutant: the request does not try the lock, it joins the executor's queue.
AskAnyway(t) ==
  /\ At(t, "asking")
  /\ locked' = TRUE
  /\ Goto(t, "submitting")
  /\ UNCHANGED <<row, queue, executor, worker, observing, stop, open, faults>>

\* The lock is only tried: a request that meets a pass is dropped.
Ask(t) ==
  /\ At(t, "asking")
  /\ locked' = TRUE
  /\ Goto(t, IF locked THEN "idle" ELSE "submitting")
  /\ UNCHANGED <<row, queue, executor, worker, observing, stop, open, faults>>

Submit(t) ==
  /\ At(t, "submitting") /\ open
  /\ submitted' = submitted + 1
  /\ Goto(t, "idle")
  /\ UNCHANGED <<row, queue, locked, pass, claimed, worker, observing, stop, open, faults>>

\* The executor is closed: RuntimeError.  The observer logs it, a scheduler or
\* a watcher thread dies of it; the lock stays taken.
SubmitRaises(t) ==
  /\ At(t, "submitting") /\ ~open
  /\ Goto(t, IF t = "observer" THEN "idle" ELSE "dead")
  /\ UNCHANGED <<row, queue, locked, executor, worker, observing, stop, open, faults>>

(* The scheduler and the observer. *)

\* Mutant: only the first tick asks.
SchedulerTickOnce ==
  /\ At("scheduler", "idle") /\ ~stop /\ At("ui", "asking")
  /\ Goto("scheduler", "asking")
  /\ UNCHANGED <<row, queue, locked, executor, worker, observing, stop, open, faults>>

SchedulerTick ==
  /\ At("scheduler", "idle") /\ ~stop
  /\ Goto("scheduler", "asking")
  /\ UNCHANGED <<row, queue, locked, executor, worker, observing, stop, open, faults>>

SchedulerEnds ==
  /\ At("scheduler", "idle") /\ stop
  /\ Goto("scheduler", "dead")
  /\ UNCHANGED <<row, queue, locked, executor, worker, observing, stop, open, faults>>

\* _on_watcher_candidate: an event of a recording that has not been imported.
ObserverEvent ==
  /\ observing /\ At("observer", "idle")
  /\ \E j \in Job : row[j] = "waiting"
  /\ Goto("observer", "asking")
  /\ UNCHANGED <<row, queue, locked, executor, worker, observing, stop, open, faults>>

RecordingArrives(j) ==
  /\ row[j] = "absent"
  /\ row' = [row EXCEPT ![j] = "waiting"]
  /\ UNCHANGED <<queue, pc, locked, executor, worker, observing, stop, open, faults>>

------------------------------------------------------------------------------
(* The UI thread. *)

ProcessManual(j) ==
  /\ At("ui", "idle") /\ row[j] = "absent"
  /\ row' = [row EXCEPT ![j] = "waiting"]
  /\ Goto("ui", "asking")
  /\ UNCHANGED <<queue, locked, executor, worker, observing, stop, open, faults>>

Retry(j) ==
  /\ At("ui", "idle") /\ row[j] = "failed"
  /\ row' = [row EXCEPT ![j] = "queued"]
  /\ queue' = Append(queue, j)
  /\ Goto("ui", "asking")
  /\ UNCHANGED <<locked, executor, worker, observing, stop, open, faults>>

StopButton ==
  /\ At("ui", "idle") /\ worker # NoJob
  /\ worker' = NoJob
  /\ UNCHANGED <<row, queue, pc, locked, executor, observing, stop, open, faults>>

\* update_settings stops the observer and joins its thread, which may be inside
\* a callback, for five seconds at most.
ChangeSettings ==
  /\ At("ui", "idle")
  /\ observing' = FALSE
  /\ Goto("ui", "joining")
  /\ UNCHANGED <<row, queue, locked, executor, worker, stop, open, faults>>

\* The new observer, unless it cannot start; then the request, if enabled.
Rewatch ==
  /\ \/ observing' = TRUE /\ Goto("ui", "asking")
     \/ observing' = FALSE /\ \E p \in {"idle", "asking"} : Goto("ui", p)
  /\ UNCHANGED <<row, queue, locked, executor, worker, stop, open, faults>>

JoinObserver == At("ui", "joining") /\ At("observer", "idle") /\ Rewatch
JoinTimesOut == At("ui", "joining") /\ ~At("observer", "idle") /\ Rewatch

\* Quit: AppController.shutdown, a second time when the event loop has ended,
\* then the end of the interpreter.
Quit ==
  /\ At("ui", "idle")
  /\ stop' = TRUE
  /\ observing' = FALSE
  /\ Goto("ui", "stopping")
  /\ UNCHANGED <<row, queue, locked, executor, worker, open, faults>>

\* The kill may fail: shutdown ignores what stop_current returns.
StopKnownWorker ==
  /\ At("ui", "stopping") \/ At("ui", "stoppingAgain")
  /\ worker' \in {worker, NoJob}
  /\ Goto("ui", IF At("ui", "stopping") THEN "closing" ELSE "exiting")
  /\ UNCHANGED <<row, queue, locked, executor, observing, stop, open, faults>>

\* Mutant: the passes that wait in the executor are not cancelled.
CloseKeepsPasses ==
  /\ At("ui", "closing")
  /\ open' = FALSE
  /\ Goto("ui", "stoppingAgain")
  /\ UNCHANGED <<row, queue, locked, executor, worker, observing, stop, faults>>

CloseExecutor ==
  /\ At("ui", "closing")
  /\ open' = FALSE
  /\ submitted' = 0
  /\ Goto("ui", "stoppingAgain")
  /\ UNCHANGED <<row, queue, locked, pass, claimed, worker, observing, stop, faults>>

\* Mutant: the end of the program waits for the lock, not for the executor.
ExitWhenUnlocked ==
  /\ At("ui", "exiting") /\ ~locked
  /\ pc' = [t \in Thread |-> IF t = "ui" THEN "exited" ELSE "dead"]
  /\ UNCHANGED <<row, queue, locked, executor, worker, observing, stop, open, faults>>

\* The interpreter joins the executor's thread; all other threads are daemons.
Exit ==
  /\ At("ui", "exiting") /\ pass = "idle" /\ submitted = 0
  /\ pc' = [t \in Thread |-> IF t = "ui" THEN "exited" ELSE "dead"]
  /\ UNCHANGED <<row, queue, locked, executor, worker, observing, stop, open, faults>>

------------------------------------------------------------------------------
(* The executor: _run_reconciliation. *)

BeginPass ==
  /\ pass = "idle" /\ submitted > 0
  /\ submitted' = submitted - 1
  /\ pass' = "import"
  /\ UNCHANGED <<row, queue, pc, locked, claimed, worker, observing, stop, open, faults>>

\* QueueService.reconcile: a stable recording joins the queue.
Import(j) ==
  /\ pass = "import" /\ row[j] = "waiting"
  /\ row' = [row EXCEPT ![j] = "queued"]
  /\ queue' = Append(queue, j)
  /\ UNCHANGED <<pc, locked, executor, worker, observing, stop, open, faults>>

Imported ==
  /\ pass = "import"
  /\ pass' = "claim"
  /\ UNCHANGED <<row, queue, pc, locked, submitted, claimed, worker, observing, stop, open, faults>>

\* Mutant: the newest queued job is claimed.
ClaimNewest(j) ==
  /\ pass = "claim" /\ Processing = {} /\ queue # <<>> /\ j = queue[Len(queue)]
  /\ row' = [row EXCEPT ![j] = "processing"]
  /\ queue' = SubSeq(queue, 1, Len(queue) - 1)
  /\ claimed' = j
  /\ pass' = "launch"
  /\ UNCHANGED <<pc, locked, submitted, worker, observing, stop, open, faults>>

\* claim_next_queued: none while a row is processing, else the oldest.
Claim(j) ==
  /\ pass = "claim" /\ Processing = {} /\ queue # <<>> /\ j = Head(queue)
  /\ row' = [row EXCEPT ![j] = "processing"]
  /\ queue' = Tail(queue)
  /\ claimed' = j
  /\ pass' = "launch"
  /\ UNCHANGED <<pc, locked, submitted, worker, observing, stop, open, faults>>

\* Mutant: there is no return when no job could be claimed.
NothingClaimedLaunches ==
  /\ pass = "claim"
  /\ Processing # {} \/ queue = <<>>
  /\ pass' = "launch"
  /\ UNCHANGED <<row, queue, pc, locked, submitted, claimed, worker, observing, stop, open, faults>>

NothingToClaim ==
  /\ pass = "claim"
  /\ Processing # {} \/ queue = <<>>
  /\ pass' = "release"
  /\ UNCHANGED <<row, queue, pc, locked, submitted, claimed, worker, observing, stop, open, faults>>

Launch ==
  /\ pass = "launch"
  /\ worker' = claimed
  /\ Goto(claimed, "reading")
  /\ pass' = "release"
  /\ UNCHANGED <<row, queue, locked, submitted, claimed, observing, stop, open, faults>>

\* Mutant: the handler of a failed launch leaves the row as it is.
LaunchFailsSilently ==
  /\ pass = "launch"
  /\ pass' = "release"
  /\ UNCHANGED <<row, queue, pc, locked, submitted, claimed, worker, observing, stop, open, faults>>

\* The archive is missing, start raises, or the runner is busy: the row is made
\* FAILED or INTERRUPTED, which the user can retry.
LaunchFails ==
  /\ pass = "launch"
  /\ row' = [row EXCEPT ![claimed] = "failed"]
  /\ pass' = "release"
  /\ UNCHANGED <<queue, pc, locked, submitted, claimed, worker, observing, stop, open, faults>>

\* An exception that reaches _run_reconciliation: of the import, of the claim, or
\* after the claim of what is outside the try of _start_next_job (the settings,
\* the profiles) or of a transition in its handlers.  The claimed row is then
\* processing without a worker.  The finally clause releases the lock.
PassRaises ==
  /\ pass \in {"import", "claim", "launch"}
  /\ faults < MaxFaults
  /\ faults' = faults + 1
  /\ pass' = "release"
  /\ UNCHANGED <<row, queue, pc, locked, submitted, claimed, worker, observing, stop, open>>

ReleasePass ==
  /\ pass = "release"
  /\ pass' = "idle"
  /\ locked' = FALSE
  /\ UNCHANGED <<row, queue, pc, submitted, claimed, worker, observing, stop, open, faults>>

(* The worker and the runner's watcher thread of job j. *)

WorkerEnds ==
  /\ worker # NoJob
  /\ worker' = NoJob
  /\ UNCHANGED <<row, queue, pc, locked, executor, observing, stop, open, faults>>

\* Mutant: the end of the output is taken for the end of the process.
ReadToEndOfOutput(j) ==
  /\ At(j, "reading")
  /\ Goto(j, "finishing")
  /\ UNCHANGED <<row, queue, locked, executor, worker, observing, stop, open, faults>>

\* _watch: end of the output, then the end of the process.
ReadToEnd(j) ==
  /\ At(j, "reading") /\ worker # j
  /\ Goto(j, "finishing")
  /\ UNCHANGED <<row, queue, locked, executor, worker, observing, stop, open, faults>>

\* _on_worker_finished: the row's final status, then a request in any case.
FinishRow(j) ==
  /\ At(j, "finishing")
  /\ row' = [row EXCEPT ![j] = "ended"]
  /\ Goto(j, "asking")
  /\ UNCHANGED <<queue, locked, executor, worker, observing, stop, open, faults>>

\* A database call in it raises: logged, and the row stays processing.
FinishRaises(j) ==
  /\ At(j, "finishing")
  /\ faults < MaxFaults
  /\ faults' = faults + 1
  /\ Goto(j, "asking")
  /\ UNCHANGED <<row, queue, locked, executor, worker, observing, stop, open>>

------------------------------------------------------------------------------
Request(t) == Ask(t) \/ Submit(t) \/ SubmitRaises(t)

UiProceeds == JoinObserver \/ StopKnownWorker \/ CloseExecutor \/ Exit

PassProceeds ==
  \/ BeginPass \/ Imported \/ (\E j \in Job : Claim(j)) \/ NothingToClaim
  \/ Launch \/ LaunchFails \/ ReleasePass

WatcherProceeds(j) == ReadToEnd(j) \/ FinishRow(j)

UiCommand ==
  \/ \E j \in Job : ProcessManual(j) \/ Retry(j)
  \/ StopButton \/ ChangeSettings \/ JoinTimesOut \/ Quit

Next ==
  \/ \E t \in Thread : Request(t)
  \/ SchedulerTick \/ SchedulerEnds
  \/ ObserverEvent
  \/ \E j \in Job : RecordingArrives(j) \/ Import(j) \/ WatcherProceeds(j)
  \/ UiCommand \/ UiProceeds
  \/ PassProceeds
  \/ PassRaises \/ \E j \in Job : FinishRaises(j)
  \/ WorkerEnds

Spec == Init /\ [][Next]_vars

\* Every thread that can move moves, the scheduler's wait ends, and so does a
\* worker.  Nothing is assumed of the user, of recordings, or of exceptions.
Fairness ==
  /\ \A t \in Thread : WF_vars(Request(t))
  /\ WF_vars(SchedulerTick)
  /\ WF_vars(UiProceeds)
  /\ WF_vars(PassProceeds)
  /\ \A j \in Job : WF_vars(WatcherProceeds(j))
  /\ WF_vars(WorkerEnds)

FairSpec == Spec /\ Fairness

------------------------------------------------------------------------------
(* Properties. *)

Submitting == {t \in Thread : At(t, "submitting")}

\* Until Quit closes the executor, the lock is held exactly while one request
\* is on its way: being submitted, waiting in the executor, or running.  So no
\* backlog builds up however many threads ask, and no exception leaks the lock
\* (request_reconciliation, _run_reconciliation).
LockIsOneRequest ==
  open =>
    /\ locked <=> Submitting # {} \/ submitted # 0 \/ pass # "idle"
    /\ \A t, u \in Submitting : t = u
    /\ submitted <= 1
    /\ Submitting # {} => submitted = 0 /\ pass = "idle"
    /\ submitted # 0 => pass = "idle"

\* A running worker's row is processing, whatever the user, Quit or another
\* thread has done meanwhile: it is what stops a second claim, and what the
\* next start of the program looks for after a Quit the worker has survived.
WorkerKeepsItsRow == worker # NoJob => row[worker] = "processing"

\* Somebody will still take the row of j out of processing: its watcher thread,
\* or the pass that launches it.
Attended(j) ==
  \/ pc[j] \in {"reading", "finishing"}
  \/ pass = "launch" /\ claimed = j

\* No thread of this session will ever change the row, and claim_next_job
\* claims nothing while it is processing.
Abandoned == \E j \in Processing : ~Attended(j)

\* Only an exception, or the end of the program, abandons a processing row:
\* dropped requests, failed launches, Stop, a Quit that cancels passes and
\* watchers that die of the closed executor do not (_start_next_job,
\* _on_worker_finished, shutdown).
ProcessingIsAttended == Abandoned => faults > 0 \/ At("ui", "exited")

\* A queued job is claimed in the end although requests are dropped, passes end
\* with exceptions, and launches of other jobs fail and are retried for ever,
\* unless the user quits, or an exception after a claim or in
\* _on_worker_finished has abandoned a row: from then on every pass of the
\* session claims nothing.
QueuedIsPickedUp ==
  \A j \in Job : row[j] = "queued" ~> row[j] # "queued" \/ stop \/ Abandoned

\* The UI thread returns from every command, also when its join does not time
\* out, and a Quit ends the process although requests may have lost the lock.
UiReturns == ~At("ui", "idle") ~> At("ui", "idle") \/ At("ui", "exited")

\* The contract WorkerSupervision relies on.
Loop == INSTANCE PassLoop WITH running <- pass # "idle"
PassContract == Loop!LoopSpec
==============================================================================
