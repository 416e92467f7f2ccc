---------------------------- MODULE ArchiveImport ----------------------------
(***************************************************************************)
(* How a recording gets from its source path into the queue: detection,    *)
(* the stability check, the move or verified copy into the job's archive   *)
(* directory, the duplicate check, the retry of a failed import, and the   *)
(* recovery of an import that the end of the GUI interrupted               *)
(* (queue_service.py, stability.py, archive.py, database.py).              *)
(*                                                                         *)
(* Left to WorkerSupervision: what happens to a queued row (Claim and      *)
(* FinishJob stand for it).  One pass runs at a time (_reconcile_lock) and *)
(* none before startup has recovered, so both are the one "importer".      *)
(***************************************************************************)
EXTENDS Naturals, Sequences, JobStates

CONSTANTS
  Job,               \* the row ids
  Inbox, Elsewhere,  \* source paths: direct children of the Inbox, and others
  Recording,         \* what is recorded
  NoJob, NoFile,
  MaxLength,         \* bound: how far a recording grows
  MaxFiles,          \* bound: how many files appear at the source paths
  MaxRetries,        \* bound: how often one row may be retried
  MaxExits,          \* bound: how often the GUI may end
  MaxFaults,         \* bound: how often a database call may raise
  StableMayChange    \* may a file that passed the stability check still change?

ASSUME PathAssumption == Inbox \cap Elsewhere = {}
ASSUME NoJobInRows    == NoJob \notin Job
ASSUME LimitsAssumption ==
  /\ MaxLength \in Nat \ {0}
  /\ {MaxFiles, MaxRetries, MaxExits, MaxFaults} \subseteq Nat
  /\ StableMayChange \in BOOLEAN

Source == Inbox \cup Elsewhere

\* A file by its identity (its SHA-256): the length tells versions of one
\* recording apart, as size and mtime do.  A file of length 0 is empty.
Content == [rec : Recording, length : 0..MaxLength]
ASSUME NoFileAssumption == NoFile \notin Content
File == Content \cup {NoFile}

VARIABLES
  source,     \* source[s]: the file at path s
  writing,    \* the paths that a recorder still has open
  media,      \* media[j]: the published originals of j's archive directories, in order
  row,        \* row[j]: the row of job j
  automatic,  \* the setting automatic_enabled
  step,       \* where the importer is, and its local variables
  marking,    \* the row that enqueue_manual is about to mark for reprocessing
  count       \* counters of the bounds

vars == <<source, writing, media, row, automatic, step, marking, count>>

Row == [status : JobStatus \cup {"none"}, source : Source \cup {NoFile},
        origin : {"inbox", "manual"}, seen : File, dir : 0..(MaxRetries + 1),
        size : 0..MaxLength, sha : File, again : BOOLEAN, retries : 0..MaxRetries]

NoRow == [status |-> "none", source |-> NoFile, origin |-> "inbox", seen |-> NoFile, dir |-> 0,
          size |-> 0, sha |-> NoFile, again |-> FALSE, retries |-> 0]

ImportPc == {"plan", "move", "digest", "copy", "publish", "unlink", "record", "hash", "lookup", "settle",
             "remove"}
Pc == {"down", "recover", "idle", "detect", "advance"} \cup ImportPc

\* job: the row being imported; auto, again: settings and metadata as last read;
\* digest, copied: of the source and of the staged copy; dup: what the duplicate
\* check found; recovering: whether startup finishes the import.
Step == [pc : Pc, paths : SUBSET Inbox, todo : SUBSET Job, job : Job \cup {NoJob},
         auto : BOOLEAN, again : BOOLEAN, dup : BOOLEAN, recovering : BOOLEAN,
         digest : File, copied : File]

At(pc) == step.pc = pc

NoStep(pc) == [pc |-> pc, paths |-> {}, todo |-> {}, job |-> NoJob, auto |-> FALSE,
               again |-> FALSE, dup |-> FALSE, recovering |-> FALSE,
               digest |-> NoFile, copied |-> NoFile]

TypeOK ==
  /\ source \in [Source -> File]
  /\ writing \subseteq Source
  /\ media \in [Job -> Seq(File)]
  /\ row \in [Job -> Row]
  /\ \A j \in Job : row[j].dir <= Len(media[j])
  /\ automatic \in BOOLEAN
  /\ step \in Step
  /\ marking \in Job \cup {NoJob}
  /\ count \in [files : 0..MaxFiles, exits : 0..MaxExits, faults : 0..MaxFaults]

Init ==
  /\ source = [s \in Source |-> NoFile]
  /\ writing = {}
  /\ media = [j \in Job |-> <<>>]
  /\ row = [j \in Job |-> NoRow]
  /\ automatic = FALSE
  /\ step = NoStep("down")
  /\ marking = NoJob
  /\ count = [files |-> 0, exits |-> 0, faults |-> 0]

files == <<source, writing>>
gui   == <<automatic, marking, count>>

------------------------------------------------------------------------------
(* Rows and archive directories. *)

With(S) == {j \in Job : row[j].status \in S}

Active(s) == {j \in With(ActiveStatus) : row[j].source = s}

\* The original in the directory that the row names, if it has been published.
Original(j) == IF row[j].dir = 0 THEN NoFile ELSE media[j][row[j].dir]

\* Mutant: the archive intent is believed without looking for the file.
VerifiedByIntent(j) == row[j].dir # 0

\* _verified_archived_media: by the recorded hash, or by the live source, or, for
\* an Inbox row whose source is not that file any more, by its recorded size.
Verified(j) ==
  LET r == row[j]
  IN /\ Original(j) # NoFile
     /\ IF r.sha # NoFile THEN Original(j) = r.sha
        ELSE \/ source[r.source] = Original(j)
             \/ r.origin = "inbox" /\ r.size = Original(j).length

\* Mutant: a row that has not completed counts, too.
CompletedHashOfAnyRow(h) == \E k \in Job : row[k].sha = h

\* find_completed_by_hash.
CompletedHash(h) == \E k \in With({"completed"}) : row[k].sha = h

SetStatus(j, target) ==
  /\ row[j].status # "none"
  /\ target \in AllowedTransitions[row[j].status]
  /\ row' = [row EXCEPT ![j].status = target]

\* JobRepository.detect and update_observation: one active row per path.
DetectAs(s, origin) ==
  /\ source[s] # NoFile /\ Active(s) = {}
  /\ \E j \in With({"none"}) :
       row' = [row EXCEPT ![j] = [NoRow EXCEPT !.status = "waiting", !.source = s,
                                               !.origin = origin, !.seen = source[s]]]

\* Startup has recovered; the UI thread takes commands and the observer runs.
Up == step.pc \notin {"down", "recover"} /\ ~step.recovering

\* The importer goes on with the next row of its list.
NextRow == step' = [step EXCEPT !.pc = IF step.recovering THEN "recover" ELSE "advance",
                                !.todo = @ \ {step.job}, !.job = NoJob, !.again = FALSE,
                                !.dup = FALSE, !.digest = NoFile, !.copied = NoFile]

Goto(pc) == step' = [step EXCEPT !.pc = pc]

Publish(file) == media' = [media EXCEPT ![step.job][row[step.job].dir] = file]

------------------------------------------------------------------------------
(* The user and the recorder. *)

\* The path of the recording that is being imported.
Importing(s) == step.pc \in ImportPc /\ row[step.job].source = s

\* A recorder creates a file, or the user copies a finished one to the path.
NewFile(s) ==
  /\ source[s] = NoFile
  /\ StableMayChange \/ ~Importing(s)
  /\ count.files < MaxFiles
  /\ count' = [count EXCEPT !.files = @ + 1]
  /\ \/ \E c \in Content : c.length > 0 /\ source' = [source EXCEPT ![s] = c] /\ UNCHANGED writing
     \/ \E r \in Recording : /\ source' = [source EXCEPT ![s] = [rec |-> r, length |-> 0]]
                             /\ writing' = writing \cup {s}
  /\ UNCHANGED <<media, row, automatic, step, marking>>

Write(s) ==
  /\ s \in writing /\ source[s].length < MaxLength
  /\ source' = [source EXCEPT ![s].length = @ + 1]
  /\ UNCHANGED <<writing, media, row, step, gui>>

Close(s) ==
  /\ s \in writing /\ source[s].length > 0
  /\ writing' = writing \ {s}
  /\ UNCHANGED <<source, media, row, step, gui>>

UserDeletes(s) ==
  /\ source[s] # NoFile /\ s \notin writing
  /\ source' = [source EXCEPT ![s] = NoFile]
  /\ UNCHANGED <<writing, media, row, step, gui>>

\* set_automatic_enabled.
ToggleAutomatic ==
  /\ Up /\ marking = NoJob
  /\ automatic' = ~automatic
  /\ UNCHANGED <<files, media, row, step, marking, count>>

\* enqueue_manual: a path that is active keeps its row; a completed hash is
\* refused unless the user chose to reprocess, which is recorded in a second call.
EnqueueManual(s) ==
  /\ Up /\ marking = NoJob
  /\ source[s] # NoFile
  /\ \E again \in BOOLEAN :
       /\ again \/ ~CompletedHash(source[s])
       /\ IF Active(s) = {} THEN DetectAs(s, "manual") ELSE UNCHANGED row
       /\ marking' \in IF again THEN {j \in Job : row'[j].status \in ActiveStatus /\ row'[j].source = s}
                                ELSE {NoJob}
  /\ UNCHANGED <<files, media, automatic, step, count>>

MarkAgain ==
  /\ marking # NoJob
  /\ row' = [row EXCEPT ![marking].again = TRUE]
  /\ marking' = NoJob
  /\ UNCHANGED <<files, media, automatic, step, count>>

\* QueueService.retry: straight to the queue if the archived original is verified,
\* back to the stability check if it is not or could not be read.
Retry(j) ==
  /\ Up /\ marking = NoJob
  /\ row[j].status \in RetryableStatus /\ row[j].retries < MaxRetries
  /\ \/ /\ Verified(j)
        /\ row' = [row EXCEPT ![j].status = "queued", ![j].retries = @ + 1]
     \/ row' = [row EXCEPT ![j].status = "waiting", ![j].retries = @ + 1, ![j].seen = NoFile]
  /\ UNCHANGED <<files, media, step, gui>>

\* observe_inbox, on the observer's thread.
ObserveInbox(s) ==
  /\ Up
  /\ automatic /\ s \in Inbox
  /\ DetectAs(s, "inbox")
  /\ UNCHANGED <<files, media, step, gui>>

------------------------------------------------------------------------------
(* Startup: _recover_importing_jobs, then recover_after_restart. *)

StartGui ==
  /\ At("down")
  /\ step' = [NoStep("recover") EXCEPT !.todo = With({"importing"})]
  /\ UNCHANGED <<files, media, row, gui>>

\* The original is where the row says: finish the import that was interrupted.
RecoverVerified(j) ==
  /\ At("recover") /\ j \in step.todo
  /\ Verified(j)
  /\ step' = [step EXCEPT !.pc = "record", !.job = j, !.recovering = TRUE]
  /\ UNCHANGED <<files, media, row, gui>>

\* Mutant: a row without an archive intent is overlooked.
RecoverInterruptedWithIntent(j) ==
  /\ At("recover") /\ j \in step.todo
  /\ IF row[j].dir = 0 THEN UNCHANGED row ELSE SetStatus(j, "interrupted")
  /\ step' = [step EXCEPT !.todo = @ \ {j}]
  /\ UNCHANGED <<files, media, gui>>

\* It is not, or it could not be read.
RecoverInterrupted(j) ==
  /\ At("recover") /\ j \in step.todo
  /\ SetStatus(j, "interrupted")
  /\ step' = [step EXCEPT !.todo = @ \ {j}]
  /\ UNCHANGED <<files, media, gui>>

Recovered ==
  /\ At("recover") /\ step.todo = {}
  /\ step' = NoStep("idle")
  /\ UNCHANGED <<files, media, row, gui>>

\* Mutant: the source is not compared with the archived original again.
RemoveSourceUnchecked ==
  /\ At("remove")
  /\ LET s == row[step.job].source
     IN row[step.job].origin = "inbox" /\ s \notin writing /\ source' = [source EXCEPT ![s] = NoFile]
  /\ NextRow
  /\ UNCHANGED <<writing, media, row, gui>>

\* _remove_verified_inbox_source, after the row has been settled.
RemoveSource ==
  /\ At("remove")
  /\ LET r == row[step.job]
         same == r.origin = "inbox" /\ source[r.source] = r.sha
     IN \/ source' = source
        \/ same /\ r.source \notin writing /\ source' = [source EXCEPT ![r.source] = NoFile]
  /\ NextRow
  /\ UNCHANGED <<writing, media, row, gui>>

------------------------------------------------------------------------------
(* A reconciliation pass: detect, then advance each waiting row. *)

\* The settings are read once.
BeginPass ==
  /\ At("idle")
  /\ step' = [NoStep("detect") EXCEPT !.auto = automatic,
                !.paths = IF automatic THEN {s \in Inbox : source[s] # NoFile} ELSE {}]
  /\ UNCHANGED <<files, media, row, gui>>

DetectInPass(s) ==
  /\ At("detect") /\ s \in step.paths
  /\ \/ DetectAs(s, "inbox")
     \/ (source[s] = NoFile \/ Active(s) # {} \/ With({"none"}) = {}) /\ UNCHANGED row
  /\ step' = [step EXCEPT !.paths = @ \ {s}]
  /\ UNCHANGED <<files, media, gui>>

ListWaiting ==
  /\ At("detect") /\ step.paths = {}
  /\ step' = [step EXCEPT !.pc = "advance", !.todo = With({"waiting"})]
  /\ UNCHANGED <<files, media, row, gui>>

PassEnds ==
  /\ At("advance") /\ step.todo = {}
  /\ step' = NoStep("idle")
  /\ UNCHANGED <<files, media, row, gui>>

\* The rows that this pass may advance: a disabled Inbox row is left alone.
Eligible(j) == step.auto \/ row[j].origin # "inbox"

Assessing(j) ==
  /\ At("advance") /\ j \in step.todo
  /\ step' = [step EXCEPT !.todo = @ \ {j}]

SkipDisabled(j) ==
  /\ Assessing(j) /\ ~Eligible(j)
  /\ UNCHANGED <<files, media, row, gui>>

AssessMissing(j) ==
  /\ Assessing(j) /\ Eligible(j)
  /\ source[row[j].source] = NoFile
  /\ SetStatus(j, "failed")
  /\ UNCHANGED <<files, media, gui>>

\* A file of no bytes.
AssessIneligible(j) ==
  /\ Assessing(j) /\ Eligible(j)
  /\ LET f == source[row[j].source] IN f # NoFile /\ f.length = 0
  /\ SetStatus(j, "cancelled")
  /\ UNCHANGED <<files, media, gui>>

\* The file that the checker sees at j's source, if it may be a recording.
Candidate(j) == {f \in {source[row[j].source]} \ {NoFile} : f.length > 0}

AssessChanged(j) ==
  /\ Assessing(j) /\ Eligible(j)
  /\ \E f \in Candidate(j) : f # row[j].seen /\ row' = [row EXCEPT ![j].seen = f]
  /\ UNCHANGED <<files, media, gui>>

\* The window has not elapsed, or the file cannot be opened or probed.
AssessWaiting(j) ==
  /\ Assessing(j) /\ Eligible(j)
  /\ row[j].seen \in Candidate(j)
  /\ UNCHANGED <<files, media, row, gui>>

\* The window, at least a second, may also elapse within a pass that is busy with
\* other rows.
AssessStable(j) ==
  /\ At("advance") /\ j \in step.todo /\ Eligible(j)
  /\ row[j].seen \in Candidate(j)
  /\ row[j].source \notin writing \/ StableMayChange
  /\ SetStatus(j, "importing")
  /\ step' = [step EXCEPT !.pc = "plan", !.job = j]
  /\ UNCHANGED <<files, media, gui>>

------------------------------------------------------------------------------
(* The import of step.job. *)

\* Mutant: the intent names a directory that does not exist yet.
PlanImportBeforeDirectory ==
  /\ At("plan")
  /\ LET j == step.job
         s == row[j].source
     IN /\ source[s] # NoFile
        /\ row' = [row EXCEPT ![j].dir = Len(media[j]) + 1, ![j].size = source[s].length]
        /\ Goto(IF row[j].origin = "inbox" THEN "move" ELSE "digest")
  /\ UNCHANGED <<files, media, gui>>

\* Mutant: the intent does not record the final size of the source.
PlanImportWithoutSize ==
  /\ At("plan")
  /\ LET j == step.job
         s == row[j].source
     IN /\ source[s] # NoFile
        /\ media' = [media EXCEPT ![j] = Append(@, NoFile)]
        /\ row' = [row EXCEPT ![j].dir = Len(media[j]) + 1]
        /\ Goto(IF row[j].origin = "inbox" THEN "move" ELSE "digest")
  /\ UNCHANGED <<files, gui>>

\* create_job_directory, planned_target and set_archive_intent.
PlanImport ==
  /\ At("plan")
  /\ LET j == step.job
         s == row[j].source
     IN /\ source[s] # NoFile
        /\ media' = [media EXCEPT ![j] = Append(@, NoFile)]
        /\ row' = [row EXCEPT ![j].dir = Len(media[j]) + 1, ![j].size = source[s].length]
        /\ Goto(IF row[j].origin = "inbox" THEN "move" ELSE "digest")
  /\ UNCHANGED <<files, gui>>

\* import_inbox: os.replace, which Windows refuses while a recorder has the file open;
\* also a move that reports an error after it has happened.
Move ==
  /\ At("move")
  /\ LET s == row[step.job].source
     IN /\ source[s] # NoFile /\ s \notin writing
        /\ Publish(source[s])
        /\ source' = [source EXCEPT ![s] = NoFile]
  /\ Goto("record")
  /\ UNCHANGED <<writing, row, gui>>

\* ... or it fails for any other reason: fall back to a copy.
MoveFails ==
  /\ At("move")
  /\ Goto("digest")
  /\ UNCHANGED <<files, media, row, gui>>

Digest ==
  /\ At("digest")
  /\ LET f == source[row[step.job].source]
     IN f # NoFile /\ step' = [step EXCEPT !.pc = "copy", !.digest = f]
  /\ UNCHANGED <<files, media, row, gui>>

\* shutil.copy2 into the ".copying" file.
Copy ==
  /\ At("copy")
  /\ LET f == source[row[step.job].source]
     IN f # NoFile /\ step' = [step EXCEPT !.pc = "publish", !.copied = f]
  /\ UNCHANGED <<files, media, row, gui>>

\* The copy has the digest of the source as it was read: publish it.
PublishCopy ==
  /\ At("publish") /\ step.copied = step.digest
  /\ Publish(step.copied)
  /\ Goto(IF row[step.job].origin = "inbox" THEN "unlink" ELSE "record")
  /\ UNCHANGED <<files, row, gui>>

\* source.unlink() of the fallback.
Unlink ==
  /\ At("unlink")
  /\ LET s == row[step.job].source
     IN /\ source[s] # NoFile /\ s \notin writing
        /\ source' = [source EXCEPT ![s] = NoFile]
  /\ Goto("record")
  /\ UNCHANGED <<writing, media, row, gui>>

\* An OSError or too little disk space anywhere up to the hash of the original:
\* the handler fails the row.
ImportFails ==
  /\ step.pc \in {"plan", "move", "digest", "copy", "publish", "unlink", "record"}
  /\ ~step.recovering
  /\ SetStatus(step.job, "failed")
  /\ NextRow
  /\ UNCHANGED <<files, media, gui>>

\* _finish_import: set_archive; the directory is the one of the intent.
RecordArchive ==
  /\ At("record")
  /\ row' = [row EXCEPT ![step.job].size = Original(step.job).length]
  /\ Goto("hash")
  /\ UNCHANGED <<files, media, gui>>

\* set_source_hash; the row is read back with its metadata.
RecordHash ==
  /\ At("hash")
  /\ row' = [row EXCEPT ![step.job].sha = Original(step.job)]
  /\ step' = [step EXCEPT !.pc = "lookup", !.again = row[step.job].again]
  /\ UNCHANGED <<files, media, gui>>

LookupDuplicate ==
  /\ At("lookup")
  /\ step' = [step EXCEPT !.pc = "settle", !.dup = CompletedHash(row[step.job].sha)]
  /\ UNCHANGED <<files, media, row, gui>>

Settle ==
  /\ At("settle")
  /\ LET r == row[step.job]
         refused == step.dup /\ (r.origin = "inbox" \/ ~step.again)
     IN SetStatus(step.job, IF refused THEN "duplicate" ELSE "queued")
  /\ IF step.recovering THEN Goto("remove") ELSE NextRow
  /\ UNCHANGED <<files, media, gui>>

------------------------------------------------------------------------------
(* What goes wrong around the importer, and what happens to queued rows. *)

GuiExit ==
  /\ ~At("down")
  /\ count.exits < MaxExits
  /\ count' = [count EXCEPT !.exits = @ + 1]
  /\ step' = NoStep("down")
  /\ marking' = NoJob
  /\ UNCHANGED <<files, media, row, automatic>>

\* A database call raises: sqlite3.Error is no OSError, so it ends the pass and
\* leaves the row as it is.
PassFails ==
  /\ Up /\ ~At("idle")
  /\ count.faults < MaxFaults
  /\ count' = [count EXCEPT !.faults = @ + 1]
  /\ step' = NoStep("idle")
  /\ UNCHANGED <<files, media, row, automatic, marking>>

\* claim_next_queued, by the pass that has just ended.
Claim(j) ==
  /\ At("idle") /\ With({"processing"}) = {}
  /\ SetStatus(j, "processing")
  /\ UNCHANGED <<files, media, step, gui>>

\* The worker has finished, or has been stopped or recovered.
FinishJob(j) ==
  /\ row[j].status = "processing"
  /\ \E target \in AllowedTransitions["processing"] : SetStatus(j, target)
  /\ UNCHANGED <<files, media, step, gui>>

------------------------------------------------------------------------------

World == \E s \in Source : NewFile(s) \/ Write(s) \/ Close(s) \/ UserDeletes(s)

User ==
  \/ ToggleAutomatic \/ MarkAgain
  \/ (\E s \in Source : EnqueueManual(s) \/ ObserveInbox(s))
  \/ (\E j \in Job : Retry(j))

Startup ==
  \/ StartGui \/ Recovered \/ RemoveSource
  \/ \E j \in Job : RecoverVerified(j) \/ RecoverInterrupted(j)

Import ==
  \/ PlanImport \/ Move \/ MoveFails \/ Digest \/ Copy \/ PublishCopy \/ Unlink
  \/ ImportFails \/ RecordArchive \/ RecordHash \/ LookupDuplicate \/ Settle

Pass ==
  \/ BeginPass \/ ListWaiting \/ PassEnds
  \/ (\E s \in Inbox : DetectInPass(s))
  \/ (\E j \in Job : \/ SkipDisabled(j) \/ AssessMissing(j) \/ AssessIneligible(j)
                    \/ AssessChanged(j) \/ AssessWaiting(j) \/ AssessStable(j))

Next ==
  \/ World \/ User \/ Startup \/ Pass \/ Import \/ GuiExit \/ PassFails
  \/ \E j \in Job : Claim(j) \/ FinishJob(j)

Spec == Init /\ [][Next]_vars

\* Startup runs to its end and is repeated after an exit, and an import goes on.
FairSpec == Spec /\ WF_vars(Startup) /\ WF_vars(Import)

------------------------------------------------------------------------------
(* Properties. *)

\* _finish_import and retry: a job that may be transcribed, or counts as a
\* duplicate, has its published original in the directory that its row names, and
\* the hash of that original; only a retry may have left the hash out.
QueuedHasOriginal ==
  \A j \in With({"queued", "processing", "completed", "duplicate"}) :
    /\ Original(j) # NoFile
    /\ \/ row[j].sha = Original(j)
       \/ row[j].sha = NoFile /\ row[j].retries > 0

\* ArchiveManager: the app removes a file only from the Inbox, for an Inbox row,
\* and only when that very file is a published original in an archive directory.
RemovedOnlyWhenArchived ==
  [][step' # step =>
       \A s \in Source : source[s] # NoFile /\ source'[s] = NoFile =>
         /\ s \in Inbox
         /\ row[step.job].origin = "inbox"
         /\ \E i \in DOMAIN media'[step.job] : media'[step.job][i] = source[s]]_vars

\* set_archive_intent: an Inbox recording that its first import has brought to the
\* archive is not stranded there by a failure or an exit: Retry can queue it without
\* its source.
ArchivedInboxIsRetryable ==
  \A j \in With(RetryableStatus) :
    row[j].origin = "inbox" /\ row[j].retries = 0 /\ Original(j) # NoFile => Verified(j)

\* "An identical completed recording already exists in the archive": a row is set
\* aside as a duplicate only of a completed one with the same original.
DuplicateOfCompleted ==
  \A j \in With({"duplicate"}) : \E k \in With({"completed"}) : Original(k) = Original(j)

\* No row stays importing forever: the import ends, or a restart settles it, unless
\* a database error has ended the pass in the middle of the import.
ImportSettles ==
  \A j \in Job : row[j].status = "importing" ~> row[j].status # "importing" \/ count.faults > 0
==============================================================================
