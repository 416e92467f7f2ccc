# WorkCall Transcriber: specifications, model checking and proofs

WorkCall Transcriber is a Windows desktop utility. It takes recordings from a
fixed Inbox folder or from the user, moves or copies each into an archive
directory of its own, and transcribes one at a time in a separate GPU worker
process. What is hard in it is not the transcription: it is that the queue lives
in SQLite, the worker in another process, the result in files, and that any of
the three may stop while the other two go on.

All paths below are relative to `src/src/workcall_transcriber/`.

## Inventory

| Component | State | Operations | Interacts with | Correct when |
| --- | --- | --- | --- | --- |
| Job rows (`database.py`, `models.py`) | one SQLite row per job: status, `worker_pid`, archive paths, hash, `retry_count` | `detect`, `transition`, `claim_next_queued`, `restore_terminal_from_manifest`, `recover_after_restart`, `retry`; each one transaction | every thread of the GUI | at most one row is processing; a row leaves processing only when its worker is gone |
| Controller (`controller.py`) | `_orphan_blocked_job_ids`, `_reconcile_lock`, `_terminal_events`, one executor thread, the scheduler thread, the Inbox observer | `start`, `_run_reconciliation`, `_start_next_job`, `_on_worker_finished`, `_recover_unresolved_orphaned_workers`, `stop_current_processing`, `retry_job` | rows, runner, queue service; called on the UI thread, the executor, the watcher of the worker | startup resolves or blocks each orphan before it touches its row; the queue never stops for good |
| Worker runner (`worker_runner.py`) | `_current`, one watcher thread per worker, `_lock` | `start`, `stop_current`, `stop_orphaned_worker`, `stop_unrecorded_worker`, `_watch` | Windows processes, controller callbacks | one worker at a time |
| Worker (`worker.py`, `exports.py`, `manifest.py`, `worker_lock.py`) | named mutex, temp directory, five exports and `manifest.json` in the archive directory | `run_job` with its failure handler | its pipe to the GUI, the files recovery reads | the final manifest tells what the exports are |
| Queue service (`queue_service.py`, `archive.py`, `stability.py`) | rows, source and archive files | `observe_inbox`, `enqueue_manual`, `reconcile`, `retry`, import recovery | rows, settings, files, the user's recorder | no recording is lost, no partial copy is queued, a disable is respected |
| Settings, credential, autostart (`config.py`, `security.py`, `autostart.py`) | a JSON file, a DPAPI blob, a registry value | load, save | the settings dialog and the toggle (`ui.py`), the Inbox watcher, each launch | the registry and the watcher follow the file; a refused save leaves it as it was |
| Speaker profiles (`speaker_profiles.py`, `database.py`) | centroids and reference counts | `save_speaker_profile`, `delete_speaker_profile`, running mean, cosine match | worker and dialog | a name in a transcript was typed, or is a clear match with a profile the user saved |
| Exports (`exports.py`) | five files per job | `write_transcript_outputs` | worker, speakers dialog, recovery | no export is ahead of `transcript.json` |
| Interface (`ui.py`, `tray.py`, `main.py`) | the settings and speakers dialogs, each with what it read when it was built | save with rollback, toggle, rename, remember, Quit | controller, stores, exports | the UI thread returns from every command |
| Glue (`single_instance.py`, `paths.py`, `runtime.py`, `logging_config.py`) | none that interacts | | | |

The behaviours that are hard to test, with the line where each bites and the
properties that cover it, are listed under `hazards` in `PROJECT.json`.

## Modules

| Module | Contents |
| --- | --- |
| `JobStates` | the statuses of a row and the transition table |
| `GpuSlot` | abstract: one slot, claimed, used by at most one worker, released |
| `WorkerSupervision` | rows, processes, mutex, runner, both threads of the controller, crash and restart; its properties, its inductive invariant, its refinement mapping to `GpuSlot` |
| `MCWorkerSupervision` | symmetry of jobs and process ids for TLC |
| `WorkerSupervisionTypes` | proof of the type invariant |
| `WorkerSupervisionProofs` | proofs that `TrackInv` and `SupervisionInv` are inductive, and the safety properties that follow |
| `WorkerTranscriptProofs` | proofs of what a completed row has in its directory |
| `GpuSlotProofs` | proof that `WorkerSupervision` implements `GpuSlot` |
| `ArchiveImport` | recordings, source paths, archive directories, rows: detection, stability, import, duplicates, retry, recovery of an interrupted import |
| `MCArchiveImport` | symmetry of rows, recordings and Inbox paths for TLC |
| `ArchiveImportProofs` | proofs of all its safety properties, two of them for files that do not change once stable |
| `PassLoop` | abstract: passes run one after the other, none begins after the close, until then another always begins |
| `ReconcileLoop` | the threads that request a pass, the lock that drops their requests, the executor, the observer, Quit; its refinement mapping to `PassLoop` |
| `ReconcileLoopProofs` | proofs of its types, its lock, its worker's row, who abandons a row, and the safety part of `PassLoop` |
| `SettingsCommit` | the settings file and the autostart value, the dialogs and the toggle that write them, the rollback, the watcher |
| `SettingsCommitProofs` | proofs of all its properties |
| `SpeakerLabels` | profiles, token, the worker's labels and warnings, the five exports, the speakers dialog |
| `MCSpeakerLabels` | the voices of a small instance, symmetry of names |
| `SpeakerLabelsProofs` | proofs of all its properties |

`WorkerSupervision` and `ArchiveImport` share `JobStates` and meet at the queued row:
`WorkerSupervision` takes it from "queued" on, `ArchiveImport` up to there, each with
a coarse step for the other's part (`Admit`; `Claim` and `FinishJob`). Both let a pass
begin whenever the last one has ended, and `WorkerSupervision` assumes that one
does: that is `PassLoop`, which `ReconcileLoop` is shown to implement. `SettingsCommit`
and `SpeakerLabels` stand beside them: what a pass reads of the settings is a field of
`ArchiveImport`'s step, and a row of `SpeakerLabels` ends as its worker does.

### How WorkerSupervision corresponds to the code

*Rows.* `status`, `workerPid`, `attempt` (`retry_count` + 1) and `queue` (the
queued rows in the order of `queued_at`). A database call is one transaction and
so one step; between two calls of one handler there is a program counter.
`completed` stands for COMPLETED and COMPLETED_WITH_WARNINGS.

*Threads.* `thread["ui"]` runs startup, Stop and Retry; `thread["executor"]` runs
one reconciliation after the other. `todo` is the list of processing rows a scan
has read, `job` and `pid` the row it works on and the PID it read with it. The
program counters name what is about to happen: `inspect` (process inspection and
kill), `lease` (mutex probe), `restore`, `settle` and `interrupt` (the three
database calls of `_release_orphan_block`), `admit`, `claim`, `launch` (up to
`Popen`), `record` (`on_started`), `launchFailed`. While the executor is at
`record` it holds the runner's lock.

*Processes.* `proc[p]` is the process with id `p`. A kill makes it `dying`: it
runs no more code, but Windows has not yet closed its mutex handle. A dead process
stays `exited` while the runner holds its handle, so its id cannot be reused;
after that the id is free. `event` is the last final event in the pipe: the watcher
reads the pipe to its end before it waits for the process, so it has read that
event when it finishes the job. When the GUI is gone the pipe is broken and an
emit raises (`PipeOpen`).

*Files.* `manifest[j]` is the final status in `manifest.json` with the attempt
that wrote it; `exports[j]` says whether the five files are absent, torn (some
overwritten, some not) or whole.

*Inconclusive answers.* A process inspection, a kill or a mutex probe may answer
"unconfirmed" at any time: `StartupUnconfirmed`, `StartupLeaseUnconfirmed`,
`StillUnconfirmed`. A database call may raise (`ThreadFault`, `RecordFails`,
`FinishFails`).

*Simplifications of WorkerSupervision.* A waiting row is admitted to the queue in one step. A retry is
that of a job whose archived recording is intact; the one that must import again
belongs to the import. The `archive_missing` branch of `_start_next_job` cannot be
taken by a queued row of this model and is left out. The stages of the
pipeline before the export are one phase. An inspection that lists a running worker sees
its command line: `stop_unrecorded_worker` counts a listed process whose command line or
executable it cannot read as no match, and relies on the mutex then. That a thread cannot be started after the PID was recorded
(`worker_runner.py:176`) is left out. Every process is a worker of this program: a stranger
with a reused PID is an absent worker.

### How ArchiveImport corresponds to the code

*Files.* A file is its identity (what its SHA-256 tells) and its length; a recorder
creates an empty file, appends and closes it, or a finished file appears at once. An
Inbox path may be reused after its recording has left. `media[j]` is the list of
archive directories of row `j` with the published original of each, because each
import of a row makes a directory of its own; staging files are never read by
anything else and are part of `step`.

*Rows.* `seen` is the last observation, `dir` the directory that `archive_dir` and
`archived_media_path` name, `size` and `sha` the recorded size and hash, `again` the
"reprocess" flag of the metadata. Each database call is one step.

*The importer.* `step` is the one thread that imports: the startup on the UI thread,
then one reconciliation at a time (`_reconcile_lock`). It carries what a pass has read
and not read again: the setting, the listed paths and rows, the digest of the source,
the staged copy, the answer of the duplicate check. The program counter names what is
about to happen: `plan` (directory and intent), `move`, `digest`, `copy`, `publish`,
`unlink` (the fallback and the manual copy), `record` and `hash` (`set_archive`,
`set_source_hash`), `lookup`, `settle`, and at startup `remove`. The UI thread
(`EnqueueManual`, `MarkAgain`, `Retry`, `ToggleAutomatic`) and the observer
(`ObserveInbox`) step in anywhere after startup.

*Failures.* `ImportFails` is an OSError or a lack of space, which the handler turns
into a failed row; `PassFails` is a database error, which ends the pass and leaves the
row importing; `GuiExit` ends everything at any step. A file that cannot be read at
the moment is the second branch of `Retry` and `RecoverInterrupted`.

*Simplifications.* The stability window is any span of time (`AssessStable`,
`AssessWaiting`). Hashing, the check for an active row and the detection that follows
are one step in `enqueue_manual` and in `_detect_if_new`, and the comparison and the
`unlink` of `_remove_verified_inbox_source` are one step, and so are the detection of a path
and the observation it records (`DetectAs`). Names, times, free space and
the initial manifest are left out.

### How ReconcileLoop corresponds to the code

`pc[t]` says where a thread is in `request_reconciliation` ("asking" before the lock is
tried, "submitting" between the lock and `submit`) or in its own loop. The threads are
the UI thread, the scheduler, the observer's, and one watcher thread per worker, named
after its job. `submitted` and `pass` are the executor with its one thread, `locked` is
`_reconcile_lock`, `open` turns false when `shutdown` closes the executor. The UI thread
is also where `update_settings` joins the observer's thread ("joining", which a join with
a timeout may leave while that thread is inside a callback), and where Quit runs:
`stopping`, `closing`, then `shutdown` once more after the event loop has ended, then the
end of the interpreter, which waits for the executor's thread (`Exit`).

After the close, a request that already has the lock raises (`SubmitRaises`): the
observer's callback logs it, the other threads die of it, and the lock stays taken.
`LockIsOneRequest` is therefore stated until then, and `UiReturns` says that the process
ends in spite of it.

`queue` holds the queued jobs in the order of `queued_at`: `Import` and `Retry` append,
`Claim` takes the first. A launch that fails in one of the ways `_start_next_job` handles makes
the row failed, which the user may retry at once (`LaunchFails`). An exception it does not
handle ends the pass where it is (`PassRaises`): after the claim, the row stays processing
without a worker. So it does when `_on_worker_finished` raises (`FinishRaises`). No thread of the
session attends to such a row (`Abandoned`), and `claim_next_queued` claims nothing beside it.

*Simplifications.* A row is absent, waiting, queued, processing, failed or ended; whether automatic
processing admits it is `ArchiveImport`'s. A row whose worker ended in this session is not
retried (one whose launch failed is), so that a job has one watcher thread. A second
observer started while the first is still in a callback is the same thread. The Stop button
takes effect at once or not at all; the steps of a stop are `WorkerSupervision`'s.

### How SettingsCommit corresponds to the code

`file` is what a read of the settings file gives when it succeeds: `automatic`,
`autostart`, and one value for all fields that nothing else depends on. A read that fails
is answered with the first-run defaults (`Loads`); a write or a registry call that raises
has changed nothing. `step` is the UI thread inside `SettingsDialog.save` or
`toggle_automatic`: the registry value, then the file (`Update`), then the watcher
(`Refresh`, or `Accept` for a save that succeeds), and the undo steps. `dialogs` is the
stack of open dialogs; the tray's menu is taken to work while one is open, as a menu of
the system tray does. A save reads the settings again, so that only the fields the form
shows are the dialog's. `UpdateRaises` comes before the file is replaced: of what follows in
`update_settings`, the restart of the watcher logs its own errors, and the request for a pass
raises only once the executor is closed, which is left out.

`doubt` and `blind` are history: why the two stores may differ (a toggle wrote defaults
it had misread, the user was told that a rollback failed, an exit came between two
writes), and that the last restart of the watcher failed. The properties say that these
are the only reasons. The installer has written the autostart value (`README.md:79`),
which is what a missing file says, too. The token is in `SpeakerLabels`: the dialog stores
it at once, outside of the save.

### How SpeakerLabels corresponds to the code

A voice is a point on a line and the similarity of two voices falls with their distance,
which keeps what the properties are about: a threshold, a margin, ties, and a centroid
that moves towards each voice folded into it. The code's vectors are normalised after
each fold; the mean here is not. `Match` and `Fold` are `match_embedding` and
`updated_centroid`.

`Launch` copies profiles, threshold and the token that could be read. `Transcribe` is the
stages up to the export. What diarization has made of the speakers is the field `speakers` of
a transcript: "missing" when there was no token or it raised, "nobody" when it found no
speaker, "labelled" when it gave labels without embeddings, "voiced" with both; the
adapter's type allows each of them (`worker.py:88`). Alignment, diarization and the matching of
profiles may each raise, which is a warning (`Warned`); a match that raises leaves the labels
without names. `files`
holds the version, the speakers and the names in each of the five exports; `Write` writes one, in the
order of the code, and `CutShort` is a write that fails or is killed: `transcript.json` is
replaced atomically, the other four are written in place and may be left torn. The
speakers dialog has the transcript it has read, renames in it and writes all five again;
when that fails nothing reads it again (`RenameRaises`) until the next rename, or a change of
the profiles (`ChangeProfile`), loads it. `typed` and `launched` are history, for the properties.

*Simplifications.* Diarization labels all voices of a recording or none, and gives embeddings
for all of them or none; what pyannote returns is external. Embeddings of another dimension
and similarities that are no number (`speaker_profiles.py:46`, 54) have no place on the line of
voices. A row ends as its worker did, with the recovery left to
`WorkerSupervision`, and so is what may fail after the manifest. Profiles are known by their
name, which the table makes unique.

## Runs

The runs of `WorkerSupervision` do not check deadlock: with their bounds the system
really ends (no exit, retry or job is left), and neither does `reconcile_loop`, where the
program ends. The others do: a pass can always begin, the user can always open a dialog
or toggle.

| Run | Instance | Checks |
| --- | --- | --- |
| `two_jobs` | 2 jobs, 2 process ids, 1 attempt, 1 exit, 1 fault, a clean-up kill may fail | `TypeOK`, `LaunchFindsRunnerFree`, `CompletedTranscriptIsWhole` |
| `one_job` | 1 job, 2 process ids, 2 attempts, 2 exits, 1 fault | `OneRunningWorker`, `RunningWorkerOwnsRow`, `BlockedRowsProcess`, `SupervisionInv`, `CompletedIsWholeOrStale`, `SlotContract` |
| `crash_liveness` | 1 job, 2 process ids, 2 attempts, 1 exit, fair | `ProcessingEnds` |
| `queue_liveness` | 2 jobs, 1 process id, 1 attempt, fair | `QueuedIsClaimed` |
| `import_inbox` | 1 row, 1 Inbox path and 1 other, 2 recordings, 2 files, 1 retry, 1 exit, 1 fault, fair | `TypeOK`, `QueuedHasOriginal`, `ArchivedInboxIsRetryable`, `RemovedOnlyWhenArchived`, `ImportSettles` |
| `import_duplicates` | 2 rows, 1 Inbox path, 2 recordings, 2 files, 1 exit | `DuplicateOfCompleted` |
| `reconcile_loop` | 2 jobs, 1 exception, fair | `TypeOK`, `LockIsOneRequest`, `WorkerKeepsItsRow`, `ProcessingIsAttended`, `QueuedIsPickedUp`, `UiReturns`, `PassContract` |
| `settings_dialog` | 2 dialogs, 1 failed read, 2 failed writes, 1 exit | `TypeOK`, `StoresAgree`, `RefusedSaveKeepsFile`, `WatcherFollowsFile`, `SaveKeepsAutomatic` |
| `speaker_labels` | 2 recordings of 2 speakers, 2 names, 2 launches, 1 rename, 2 changes of profiles, 1 fault | `TypeOK`, `JsonIsNewest`, `CompletedExportsAgree`, `NamesAreConsented`, `UndiarizedIsWarned`, `NamesAreKept` |
| `broken_pipe`, `stale_manifest` | 1 job, 2 process ids, 2 attempts, 1 exit | one property each, violated (below) |
| `paused_recorder` | 1 row, Inbox only | `RemovedOnlyWhenArchived`, violated (below) |

Bounds. Two process ids are what two workers at once, or an orphan and its
successor, need; the ids are reused, so more launches than two happen. Two jobs are
what a claim that passes over another job's row needs; one job with two attempts is
the stronger test of orphans, because the orphan and the new worker then share the
row, the directory and the command line. Two exits let a startup be interrupted by
a second exit. `MaxAttempts`, `MaxExits` and `MaxFaults` bound counters in the
guards of `Retry`, `GuiExit` and the faults, and nothing else. Jobs and process
ids are symmetric: no definition orders them or names one. The liveness runs use no
symmetry.

In `ArchiveImport`, two recordings and two files are what a path needs whose file is
replaced by another; the two may also be identical. One row with a retry is imported
twice, into two directories; the second row of `import_duplicates` is the duplicate of
the first, found at import or by startup. An exit, a fault and a retry may hit any step.
`MaxLength` is 1 (an empty and a finished version of each recording) where the file that
is being imported does not change, and 2 in `paused_recorder`, where it does.

`StableMayChange` says whether a file that has passed the stability check may still be
written. The passing runs take what the stability window is for: it may not (a user may
still delete it). `RemovedOnlyWhenArchived` then holds; `paused_recorder` drops the
assumption and it does not. `ArchivedInboxIsRetryable` is stated for the first import
of a row, for the reason given below.

In `reconcile_loop` the only bound is the one exception: jobs, threads, requests and retries are
not counted, because a request that meets the lock is dropped. Two jobs are what two
watcher threads, a queue behind a running worker, and a job that is retried for ever before
another need; one exception is enough to abandon a row. In `settings_dialog`, two failed
writes are a save that fails and its rollback that fails; two dialogs are the one of the
window and the one the tray opens over it. In `speaker_labels` the voices 2, 4 and 9 are
alike, a tie, and far apart; two changes of the profiles are two profiles, one with two
references, or one that is removed again; two launches are both recordings, or one and its retry.

In `two_jobs` there is no retry, so `CompletedTranscriptIsWhole` holds: a first
attempt that completes has the whole transcript of that attempt, whatever crashes.
`stale_manifest` shows that with a retry it does not. `CompletedIsWholeOrStale` says
that the stale manifest of that run is the only reason: `one_job`, with its retry, two exits
and a fault, finds no completed row without its whole transcript whose manifest is of
the row's own attempt.

### Fairness

`FairSpec` assumes: a thread that can move moves (the scheduler thread asks for a
reconciliation forever, which is a pass that may always begin); a worker's stage
ends or raises; Windows tears a killed process down; the GUI is started again after
it exited. A process inspection or mutex probe that can succeed again and again is
not inconclusive forever (strong fairness on `InspectRecorded`, `InspectUnrecorded`
and `LeaseInactive`): `StillUnconfirmed` stands for a PowerShell timeout or an
access error, which the code retries on each pass. No fairness is assumed of
the user, of exits, or of faults. The liveness runs set `MaxFaults = 0`: a database
error in `_on_worker_finished` is only logged, and the row then stays processing
until the next restart (a hazard the list names).

`FairSpec` of `ArchiveImport` assumes that a step of an import and a step of startup
that can be taken is taken, and that the GUI is started again after it exited. Passes,
the user, exits and faults need no fairness for `ImportSettles`, because a row becomes
importing only within a pass that goes on with it. A database error in an import leaves
the row importing until the next restart, which nothing forces: `ImportSettles` promises
nothing once there was one.

`FairSpec` of `ReconcileLoop` assumes that each thread that can move moves, that the
scheduler's wait ends, and that a worker ends. Nothing is assumed of the user, of
recordings, or of exceptions: requests may be dropped, launches fail and be retried without
end. `QueuedIsPickedUp` rests on the scheduler, as its mutant shows: with its first tick only, a
queued job whose request was dropped is never claimed. It rests on the order of the queue, too:
if the newest job were claimed, one that fails to launch and is retried again and again would
keep the other waiting. And it is conditional: once an exception has abandoned a processing row
it promises nothing, and `ProcessingIsAttended` says that nothing else abandons one.

### What the code does that its documents do not say

- `broken_pipe`: after the GUI has died, the worker's own `completed` event raises,
  and the failure handler replaces the completed manifest.
- `stale_manifest`: a retry leaves the previous attempt's manifest in place; if GUI
  and worker end while the retry overwrites the exports, recovery restores the old
  result over a mixture of two transcripts.
- `paused_recorder`: the move fallback does not compare the source with the archived
  copy again before it unlinks it; what was written in between is lost.

The properties are stated as far as the code keeps them. Where they stop short, the
models contain these behaviours, which no run refutes by name:

- When `set_worker_pid` raises, `WorkerRunner.start` ignores the result of the clean-up
  kill (`worker_runner.py:167`). If it failed, the worker runs on, and a retry starts a
  second one beside it, although the class says "Own exactly one child worker and its process
  tree at a time." What relates processes to rows is therefore proved for
  `~LaunchKillMayFail`; the types, `LaunchFindsRunnerFree`, `BlockedRowsProcess` and what a
  first attempt leaves behind are proved without it.
- An exception after the claim that `_start_next_job` does not handle (the settings and the
  profiles are read outside of its `try`, `controller.py:213` to `:240`; the transitions in its handlers
  may raise as well), or in `_on_worker_finished` (`controller.py:406`), leaves a processing row
  that nothing in the session ends, and nothing else is claimed before the next start.
- A diarization that finds nobody is no failure: the recording is completed without labels and
  without a warning. `UndiarizedIsWarned` therefore speaks of a diarization that was not done
  or raised.
- A pass that has read the setting goes on accepting Inbox recordings after it has been
  switched off (`queue_service.py:97`), where the comment at line 112 says "A disable is
  immediate for automatic work".
- `shutdown` stops the worker it knows and then closes the executor (`controller.py:120`):
  a pass that is about to launch launches after that. The second `shutdown`, after the event
  loop, may come too early as well, and the worker outlives the program that "Quit
  actually terminates". Its row is still processing (`WorkerKeepsItsRow`), so that the next
  start finds it.
- `quit_application` gives up the instance name before the pass under way has ended
  (`Exit` waits for it), so that a program started then works beside it. All
  modules assume one GUI process.
- A toggle that cannot read the settings file writes the first-run defaults over it
  (`config.py:32`); `StoresAgree` holds again from the next accepted save.
- A rename that fails stays in the dialog's transcript until that is loaded again, and a later
  rename publishes it.
- The recovery of a worker with a recorded PID does not look at the mutex, so a
  retried job's worker can find the mutex of the dying one and end as worker_busy.
- The duplicate check runs once, at the end of the import: two identical recordings
  imported before either completes are both transcribed.
  `DuplicateOfCompleted` therefore says only that no row is set aside wrongly.
- An error after the move is reported as "The original source was left intact".
- A retry that goes straight to the queue does not record the hash it has verified, and
  a row that failed between the move and the hash completes without one
  (the second case of `QueuedHasOriginal`).
- A second import of a row keeps the first one's hash in its intent. If the archived
  original could not be verified and another recording has appeared at the path, an
  exit after the move strands that recording: neither startup nor Retry accepts it.
  `ArchivedInboxIsRetryable` is stated for the first import.

## Proofs

`TypesAreRight` proves `Spec => []TypeOK` with one step per action, from lemmas on
what the helpers that build process and thread records return.

`SupervisionInv` is the inductive invariant. None of the safety properties is
inductive alone. That no row leaves its running worker needs, for every place
where a row may leave "processing", the reason why its worker is quiet there:

- `EngagedInv`: at most one process runs or is being watched, and its job's row is
  processing and records no other PID;
- `LaunchInv`: a launch works on the processing row, unblocked, and until `Popen`
  nothing is engaged;
- `CurrentInv`: the runner tracks only the worker it launches or watches;
- `BlockedInv`: blocked rows are processing and not watched;
- `StartupInv`: nothing else runs in a GUI that starts, and a row that startup has
  resolved and not blocked is quiet;
- `ResolveInv`: a row being released by a thread is not launched or watched again
  until that thread is done, and is quiet once its worker is resolved. This is where
  the two threads meet: when one thread releases a row, the other may still be
  working on the same row with its older snapshot;
- `RecordedInv`: only a processing row records a PID;
- `AtMostOneProcessing`.

`SupervisionInit` and `SupervisionNext` prove it inductive, for all constants with
`~LaunchKillMayFail`. From it follow `OneWorkerAtATime` and `NoRowLeavesItsWorker`.

`TrackInv` is what remains when a clean-up kill may fail and a worker that nobody tracks
may run: it speaks only of the runner's bookkeeping. At most one process is watched
and its row is processing and not blocked; a launch works on the processing row while
nothing is watched; the runner tracks only what it launches or watches; startup and a
thread that releases a row work on rows that nobody launches or watches. It is
inductive without an assumption, and `RunnerIsFree` and `BlockFollowsRow` follow from it.

*Transcripts.* `WorkerTranscriptProofs` gives each process to one attempt of its row. `AttemptsInv`:
nothing of an attempt exists before it is launched, and it is launched once, so that
no two processes are of one attempt. `TranscriptInv`: a process the GUI still tracks
is of the current attempt; the process of the current attempt writes the exports before the
manifest and the manifest before the completed event; and a row or a manifest of the
current attempt that says "completed" comes after the whole transcript. This needs that no process of an
earlier attempt writes into the same directory, which holds for a first attempt (there is
none) and, by `SupervisionInv`, when clean-up kills succeed (`Pure`). Hence
`FirstAttempt`, without any assumption; `SingleAttempt`, which is `CompletedTranscriptIsWhole`
where no job may be retried; and `WholeOrStale`, for any number of retries.

`SupervisionImplementsSlot` maps the processing row to the holder of the slot. Each
step of the supervision is one of four kinds (`StepIsAsSlot`): it claims, it starts
a worker, it releases a quiet row, or it only ends things; each kind is a step
of `GpuSlot` or a stutter.

*ArchiveImport.* `RowStep` lists what any step may do to one row and its archive directories
(`NextRowStep`); every invariant of rows is proved case by case along that list. `ImportInv` is
the inductive invariant: `RowInv` bounds a row's directories by its retries and says that a
hash recorded by a first import is that of its original; `StepInv` says, for each place of the
importer, what the directory, the original and the hash of the row being imported are, and
that nobody else's step changes them; `WritingInv` that an open file exists. `QueuedHasOriginal`
follows because only `Settle` and `Retry` lead to the queue, and `DuplicateOfCompleted` because a
completed row and its original stay. With `~StableMayChange`, `SizeInv` and `SourceInv` add
that the recorded size and the source are those of the file that passed the check, which
gives `ArchivedInboxIsRetryable` and `RemovedOnlyWhenArchived`. Without it both are false:
the run `paused_recorder` shows it of the second, and the first fails when the file grows
between the plan, which records its size, and the move.

*ReconcileLoop.* `OneRequestHoldsTheLock` needs `ClosedInv`: nothing waits in a closed
executor, and the UI thread has closed it before it stops the worker a second time. `RunningRowIsProcessing` needs
`WorkerInv`: the row a watcher thread reads for or finishes is processing, a running worker
is read by its watcher, and between claim and launch the row is processing and nothing runs.
`OnlyFaultsAbandon` needs only the types: every action that ends the attention of a
watcher or a pass either takes the row out of processing, counts as an exception, or is the
end of the program.
`LoopKeepsContract` is the safety part of `PassContract`; its liveness is left to TLC.

*SettingsCommit.* `DialogInv` ties the pc to an open dialog; `StoresInv` says at each pc of a
save or a rollback which of the two stores already has its new value, and that
the file is what the save has read until it is replaced and after it is put back;
`WatcherInv` exempts the time between a change of the file and the restart it causes. All
four safety properties and `SaveKeepsAutomatic` are proved, for any number of dialogs,
failures and exits.

*SpeakerLabels.* `NamedRecordingIsFinal` needs `OwnerInv`: the dialog's recording is a completed one, the
worker's is processing, so the two never write the same files. `ExportsFollowJson` needs
`JsonInv`: whoever writes has the newest version the recording has, and after the first
of its five writes `transcript.json` has that version, too. `CompletedExportsAreOne`
needs `ResultInv`: the exports a worker has passed hold what it made, and the dialog writes
only into recordings that have names. `UndiarizedHasWarning` needs `ToldInv`: what the worker has made
agrees with its token and its warning until its row has ended (`WorkerTold`), and what the dialog
holds agrees with the launch of its recording (`DialogTold`), so that a rename, which keeps
`speakers`, writes nothing that a completed recording would need a warning for. `LabelTypes` needs that a completed recording
has a whole transcript (`DoneIsWhole`), because the dialog loads it unchecked, and that
the references of a profile are among the changes counted.

`NamesHaveConsent` needs `ConsentInv`: the names the worker and the dialog hold in memory have the
same right to be there as those in `transcript.json`. The launch a name is judged by changes
only with the export of the worker that was so launched, never under an open dialog
(`OwnerInv`); a name once typed stays typed. `MatchIsClear` is the lemma about
`match_embedding`: the name it returns is of a profile that reaches the threshold and is ahead
of every other by the margin. The code sorts the candidates; the model takes the most
similar one (`MostSimilar`), and `MostSimilarIsFirst` shows that there is one for every set of
profiles, because distances are natural numbers and these are well-founded.

Only model-checked: liveness, which rests on fairness and is beyond the prover
(`ProcessingEnds`, `QueuedIsClaimed`, `ImportSettles`, `QueuedIsPickedUp`, `UiReturns`), with
the fairness part of `PassContract`. Every other property of a passing run is stated by a
theorem, under the assumptions named here: `~LaunchKillMayFail`, `~StableMayChange`,
`MaxAttempts = 1`.

## Not modelled

- `worker_protocol.py`: the text of events. The redaction in `security.py`, the rendering
  in `exports.py`, `logging_config.py`, `paths.py`, `runtime.py`: text, paths and
  cryptography without state that interacts.
- The widgets of `ui.py` and `tray.py` and their refresh; the commands they give are
  actions.
- More than one GUI process: `single_instance.py` is assumed to work, and the
  overlap after Quit (above) is outside the models.
- The worker's audio extraction and temporary directory, whose name is made of the job's
  id: two workers of one job would share it, which `OneRunningWorker` excludes.
- What Windows and Qt guarantee: a replaced file is the old or the new one, a registry
  call that raises has changed nothing, a menu of the tray works beside a modal dialog.
- One reading of a settings file that fails in another thread (the scheduler, a pass, a
  launch): it lasts for that one reading and writes nothing.

## Plan

1. Done: `JobStates`, `GpuSlot`, `WorkerSupervision` with its runs and proofs.
2. Done: `ArchiveImport` with its runs and proofs.
3. Done: `PassLoop` and `ReconcileLoop` with their run and proofs.
4. Done: `SettingsCommit` with its run and proofs.
5. Done: `SpeakerLabels` with its run and proofs; the transcript of a completed row.
6. Two GUI processes: the instance name, the overlap after Quit, and what recovery does to
   rows the old process still works on.
