------------------------- MODULE ArchiveImportProofs -------------------------
(***************************************************************************)
(* Proofs about ArchiveImport, for any sets of rows, paths and recordings  *)
(* and any bounds: a queued row has its original, a duplicate duplicates a *)
(* completed one, and, if a stable file no longer changes, nothing leaves  *)
(* the Inbox unarchived and nothing archived is stranded.                  *)
(***************************************************************************)
EXTENDS ArchiveImport, SequenceTheorems, TLAPS

\* Where an import has its directory, and where it has its original, too.
HasDirectory == {"move", "digest", "copy", "publish"}
HasOriginal  == {"unlink", "record", "hash", "lookup", "settle", "remove"}

\* A row has a directory for each attempt; what it knows of its first original is true.
RowInv(j) ==
  /\ row[j].status = "none" => media[j] = <<>>
  /\ row[j].status # "none" => /\ row[j].source \in Source
                               /\ row[j].origin = "inbox" => row[j].source \in Inbox
  /\ Len(media[j]) <= row[j].retries + 1
  /\ row[j].status = "waiting" => Len(media[j]) <= row[j].retries
  /\ row[j].retries = 0 /\ row[j].sha # NoFile => row[j].sha = Original(j)

RowsInv == \A j \in Job : RowInv(j)

\* What the importer's place says of the row that it imports.
StepInv ==
  /\ \A j \in step.todo : row[j].status # "none"
  /\ step.pc = "recover" \/ step.recovering =>
       \A j \in step.todo \ {step.job} : row[j].status = "importing"
  /\ step.pc \notin ImportPc => step.job = NoJob
  /\ step.pc \in {"detect", "advance"} => ~step.recovering
  /\ step.pc \in ImportPc => step.job \in Job /\ row[step.job].status # "none"
  /\ step.pc \in ImportPc \ {"remove"} => row[step.job].status = "importing"
  /\ step.pc = "plan" => Len(media[step.job]) <= row[step.job].retries
  /\ step.pc \in HasDirectory => row[step.job].dir # 0 /\ Original(step.job) = NoFile
  /\ step.pc \in HasOriginal => row[step.job].dir # 0 /\ Original(step.job) \in Content
  /\ step.pc = "publish" => step.copied \in Content
  /\ step.pc \in {"lookup", "settle", "remove"} => row[step.job].sha = Original(step.job)
  /\ step.pc \in {"move", "unlink"} => row[step.job].origin = "inbox"
  /\ step.pc = "settle" /\ step.dup => CompletedHash(row[step.job].sha)

\* A recorder has no file open that is not there.
WritingInv == \A s \in writing : source[s] # NoFile

ImportInv == TypeOK /\ RowsInv /\ StepInv /\ WritingInv

------------------------------------------------------------------------------
(* Facts about the constants and the transition table. *)

\* What the transition table allows.
LEMMA Transitions ==
  \A s \in JobStatus : \A t \in AllowedTransitions[s] :
    /\ t \in JobStatus \ {"waiting"}
    /\ s \in ActiveStatus
    /\ t \in {"importing"} => s = "waiting"
    /\ t \in {"queued", "duplicate"} => s \in {"waiting", "importing"}
    /\ t = "processing" => s = "queued"
    /\ t = "completed" => s = "processing"
  BY DEF AllowedTransitions, JobStatus, ActiveStatus

\* The least lengths, counts and directories.
LEMMA Lengths == 0 \in 0..MaxLength /\ 0 \in 0..MaxRetries /\ 0 \in 0..(MaxRetries + 1)
                 /\ MaxRetries \in Nat /\ MaxLength \in Nat
  BY LimitsAssumption

\* A file is a content or nothing.
LEMMA Files ==
  /\ \A f \in Content : f \in File /\ f # NoFile /\ f.length \in 0..MaxLength
  /\ \A f \in File : f # NoFile => f \in Content
  /\ NoFile \in File
  BY NoFileAssumption DEF File, Content

\* An unused row and the importer between two rows have their types.
LEMMA NoRowType == NoRow \in Row
  BY Lengths, Files DEF NoRow, Row

LEMMA NoStepType == \A p \in Pc : NoStep(p) \in Step
  BY Files DEF NoStep, Step

\* The original that a row names is a file or nothing.
LEMMA OriginalType ==
  ASSUME TypeOK, NEW j \in Job
  PROVE  /\ Original(j) \in File
         /\ row[j].dir # 0 => /\ row[j].dir \in 1..Len(media[j])
                              /\ Original(j) = media[j][row[j].dir]
<1>1. /\ row[j].dir \in Nat /\ media[j] \in Seq(File)
      /\ row[j].dir <= Len(media[j]) /\ Len(media[j]) \in Nat
  BY Lengths, LenProperties DEF TypeOK, Row
<1>2. row[j].dir # 0 => row[j].dir \in 1..Len(media[j])
  BY <1>1
<1>3. row[j].dir # 0 => media[j][row[j].dir] \in File
  BY <1>1, <1>2, ElementOfSeq
<1> QED BY <1>2, <1>3, Files DEF Original

------------------------------------------------------------------------------
(* What a step may do to one row and its directories. *)

Same(k) == row'[k] = row[k] /\ media'[k] = media[k]

\* A transition; Settle and Retry have their own, and the importer an importing row.
Moved(k) ==
  /\ media'[k] = media[k]
  /\ row[k].status # "none"
  /\ row[k].status = "importing" => step' # step
  /\ \E t \in AllowedTransitions[row[k].status] \ {"queued", "duplicate"} :
       row'[k] = [row[k] EXCEPT !.status = t]

Settled(k) ==
  /\ media'[k] = media[k]
  /\ step.pc = "settle" /\ k = step.job
  /\ \E t \in {"queued", "duplicate"} :
       row'[k] = [row[k] EXCEPT !.status = t] /\ (t = "duplicate" => step.dup)

Detected(k) ==
  /\ media'[k] = media[k]
  /\ row[k].status = "none"
  /\ \E s \in Source, o \in {"inbox", "manual"} :
       /\ source[s] # NoFile
       /\ o = "inbox" => s \in Inbox
       /\ row'[k] = [NoRow EXCEPT !.status = "waiting", !.source = s, !.origin = o,
                                  !.seen = source[s]]

Noted(k) ==
  /\ media'[k] = media[k]
  /\ \/ row'[k] = [row[k] EXCEPT !.again = TRUE]
     \/ \E f \in File : row'[k] = [row[k] EXCEPT !.seen = f]

Retried(k) ==
  /\ media'[k] = media[k]
  /\ row[k].status \in RetryableStatus /\ row[k].retries < MaxRetries
  /\ \/ /\ Verified(k)
        /\ row'[k] = [row[k] EXCEPT !.status = "queued", !.retries = @ + 1]
     \/ row'[k] = [row[k] EXCEPT !.status = "waiting", !.retries = @ + 1, !.seen = NoFile]

Planned(k) ==
  /\ step.pc = "plan" /\ k = step.job
  /\ source[row[k].source] # NoFile
  /\ media'[k] = Append(media[k], NoFile)
  /\ row'[k] = [row[k] EXCEPT !.dir = Len(media[k]) + 1,
                              !.size = source[row[k].source].length]

Published(k) ==
  /\ row'[k] = row[k]
  /\ k = step.job
  /\ \E f \in Content :
       /\ media'[k] = [media[k] EXCEPT ![row[k].dir] = f]
       /\ \/ step.pc = "move" /\ f = source[row[k].source]
          \/ step.pc = "publish" /\ f = step.copied /\ f = step.digest

Recorded(k) ==
  /\ media'[k] = media[k]
  /\ k = step.job
  /\ \/ step.pc = "record" /\ row'[k] = [row[k] EXCEPT !.size = Original(k).length]
     \/ step.pc = "hash" /\ row'[k] = [row[k] EXCEPT !.sha = Original(k)]

RowStep(k) ==
  \/ Same(k) \/ Moved(k) \/ Detected(k) \/ Noted(k) \/ Retried(k)
  \/ step' # step /\ (Settled(k) \/ Planned(k) \/ Published(k) \/ Recorded(k))

\* A transition changes one row, and nothing but its status.
LEMMA SetStatusStep ==
  ASSUME TypeOK, UNCHANGED media, NEW j \in Job, NEW t, SetStatus(j, t),
         t \notin {"queued", "duplicate"}, row[j].status = "importing" => step' # step
  PROVE  (\A k \in Job : RowStep(k)) /\ row' \in [Job -> Row]
<1>1. row[j] \in Row /\ row[j].status \in JobStatus /\ row[j].status # "none" /\ t \in JobStatus
  BY Transitions DEF TypeOK, SetStatus, Row
<1>2. row' = [row EXCEPT ![j].status = t]
  BY DEF SetStatus
<1>3. row' \in [Job -> Row]
  BY <1>1, <1>2 DEF TypeOK, Row
<1>4. Moved(j)
  BY <1>1, <1>2 DEF Moved, SetStatus, TypeOK
<1>5. \A k \in Job : k # j => Same(k)
  BY <1>2 DEF Same, TypeOK
<1> QED BY <1>3, <1>4, <1>5 DEF RowStep

\* Detection turns one unused row into a waiting one.
LEMMA DetectStep ==
  ASSUME TypeOK, UNCHANGED media, NEW s \in Source, NEW o \in {"inbox", "manual"},
         o = "inbox" => s \in Inbox, DetectAs(s, o)
  PROVE  (\A k \in Job : RowStep(k)) /\ row' \in [Job -> Row]
<1>1. PICK j \in With({"none"}) :
        row' = [row EXCEPT ![j] = [NoRow EXCEPT !.status = "waiting", !.source = s,
                                                !.origin = o, !.seen = source[s]]]
  BY DEF DetectAs
<1>2. j \in Job /\ row[j].status = "none"
  BY DEF With
<1>3. row' \in [Job -> Row]
  BY <1>1, <1>2, Lengths, Files DEF TypeOK, Row, NoRow, JobStatus
<1>4. Detected(j)
  BY <1>1, <1>2 DEF Detected, DetectAs, TypeOK
<1>5. \A k \in Job : k # j => Same(k)
  BY <1>1 DEF Same, TypeOK
<1> QED BY <1>3, <1>4, <1>5 DEF RowStep

\* The importer's own steps change the row and the directories of step.job only.
LEMMA ImportStep ==
  ASSUME TypeOK, RowsInv, StepInv, Import
  PROVE  (\A k \in Job : RowStep(k)) /\ row' \in [Job -> Row] /\ media' \in [Job -> Seq(File)]
<1>j. step.job \in Job /\ row[step.job] \in Row /\ media[step.job] \in Seq(File)
      /\ row[step.job].status = "importing"
  BY DEF Import, PlanImport, Move, MoveFails, Digest, Copy, PublishCopy, Unlink, ImportFails,
         RecordArchive, RecordHash, LookupDuplicate, Settle, At, StepInv, ImportPc, TypeOK
<1>n. step' # step
  <2>1. step \in Step /\ step.pc \in ImportPc /\ "recover" \notin ImportPc /\ "advance" \notin ImportPc
    BY <1>j DEF Import, PlanImport, Move, MoveFails, Digest, Copy, PublishCopy, Unlink, ImportFails,
           RecordArchive, RecordHash, LookupDuplicate, Settle, At, ImportPc, TypeOK
  <2>2. NextRow => step'.pc \in {"recover", "advance"}
    BY <2>1 DEF NextRow, Step
  <2> QED BY <2>1, <2>2 DEF Import, PlanImport, Move, MoveFails, Digest, Copy, PublishCopy, Unlink, ImportFails,
           RecordArchive, RecordHash, LookupDuplicate, Settle, At, Goto, Step
<1>s. row[step.job].source \in Source
  BY <1>j DEF RowsInv, RowInv
<1>o. \A k \in Job : k # step.job /\ row'[k] = row[k] /\ media'[k] = media[k] => RowStep(k)
  BY DEF RowStep, Same
<1>1. CASE PlanImport
  <2>1. source[row[step.job].source] \in Content
    BY <1>1, <1>s, Files DEF PlanImport, TypeOK
  <2>2. /\ Append(media[step.job], NoFile) \in Seq(File)
        /\ Len(media[step.job]) \in Nat /\ Len(media[step.job]) <= row[step.job].retries
    BY <1>1, <1>j, Files, AppendProperties, LenProperties DEF PlanImport, At, StepInv
  <2>3. Len(media[step.job]) + 1 \in 0..(MaxRetries + 1)
    BY <2>2, <1>j, Lengths DEF Row
  <2>4. source[row[step.job].source].length \in 0..MaxLength
    BY <2>1 DEF Content
  <2>5. /\ row' = [row EXCEPT ![step.job].dir = Len(media[step.job]) + 1,
                              ![step.job].size = source[row[step.job].source].length]
        /\ media' = [media EXCEPT ![step.job] = Append(@, NoFile)]
    BY <1>1 DEF PlanImport
  <2>6. row' \in [Job -> Row] /\ media' \in [Job -> Seq(File)]
    BY <1>j, <2>2, <2>3, <2>4, <2>5 DEF TypeOK, Row
  <2>7. Planned(step.job)
    BY <1>1, <1>j, <2>5 DEF Planned, PlanImport, At, TypeOK
  <2>8. \A k \in Job : k # step.job => row'[k] = row[k] /\ media'[k] = media[k]
    BY <2>5 DEF TypeOK
  <2> QED BY <2>6, <2>7, <2>8, <1>o, <1>n DEF RowStep
<1>2. ASSUME NEW f \in Content, Publish(f), UNCHANGED row, row[step.job].dir # 0,
             \/ step.pc = "move" /\ f = source[row[step.job].source]
             \/ step.pc = "publish" /\ f = step.copied /\ f = step.digest
      PROVE  (\A k \in Job : RowStep(k)) /\ row' \in [Job -> Row] /\ media' \in [Job -> Seq(File)]
  <2>1. row[step.job].dir \in 1..Len(media[step.job])
    BY <1>j, <1>2, OriginalType
  <2>2. media' = [media EXCEPT ![step.job] = [media[step.job] EXCEPT ![row[step.job].dir] = f]]
    BY <1>2, <1>j DEF Publish, TypeOK
  <2>3. [media[step.job] EXCEPT ![row[step.job].dir] = f] \in Seq(File)
    BY <1>j, <1>2, <2>1, Files, ExceptSeq
  <2>4. media' \in [Job -> Seq(File)]
    BY <2>2, <2>3 DEF TypeOK
  <2>5. Published(step.job)
    BY <1>2, <1>j, <2>2 DEF Published, TypeOK
  <2>6. \A k \in Job : k # step.job => row'[k] = row[k] /\ media'[k] = media[k]
    BY <1>2, <2>2 DEF TypeOK
  <2> QED BY <1>2, <2>4, <2>5, <2>6, <1>o, <1>n DEF RowStep, TypeOK
<1>3. CASE Move
  <2>1. source[row[step.job].source] \in Content /\ row[step.job].dir # 0
    BY <1>3, <1>s, Files DEF Move, TypeOK, At, StepInv, HasDirectory
  <2> QED BY <1>2, <1>3, <2>1 DEF Move, At
<1>4. CASE PublishCopy
  <2>1. step.copied \in Content /\ row[step.job].dir # 0
    BY <1>4 DEF PublishCopy, At, StepInv, HasDirectory
  <2> QED BY <1>2, <1>4, <2>1 DEF PublishCopy, At
<1>5. CASE MoveFails \/ Digest \/ Copy \/ Unlink \/ LookupDuplicate
  BY <1>5 DEF MoveFails, Digest, Copy, Unlink, LookupDuplicate, RowStep, Same, TypeOK
<1>6. CASE ImportFails
  BY <1>6, <1>j, <1>n, SetStatusStep DEF ImportFails, TypeOK
<1>7. CASE RecordArchive
  <2>1. Original(step.job) \in Content
    BY <1>7 DEF RecordArchive, At, StepInv, HasOriginal
  <2>2. row' = [row EXCEPT ![step.job].size = Original(step.job).length]
    BY <1>7 DEF RecordArchive
  <2>3. row' \in [Job -> Row]
    BY <2>1, <2>2, <1>j DEF TypeOK, Row, Content
  <2>4. Recorded(step.job)
    BY <1>7, <1>j, <2>2 DEF Recorded, RecordArchive, At, TypeOK
  <2>5. \A k \in Job : k # step.job => row'[k] = row[k] /\ media'[k] = media[k]
    BY <1>7, <2>2 DEF TypeOK, RecordArchive
  <2> QED BY <2>3, <2>4, <2>5, <1>o, <1>n, <1>7 DEF RowStep, TypeOK, RecordArchive
<1>8. CASE RecordHash
  <2>1. Original(step.job) \in File
    BY <1>j, OriginalType
  <2>2. row' = [row EXCEPT ![step.job].sha = Original(step.job)]
    BY <1>8 DEF RecordHash
  <2>3. row' \in [Job -> Row]
    BY <2>1, <2>2, <1>j DEF TypeOK, Row
  <2>4. Recorded(step.job)
    BY <1>8, <1>j, <2>2 DEF Recorded, RecordHash, At, TypeOK
  <2>5. \A k \in Job : k # step.job => row'[k] = row[k] /\ media'[k] = media[k]
    BY <1>8, <2>2 DEF TypeOK, RecordHash
  <2> QED BY <2>3, <2>4, <2>5, <1>o, <1>n, <1>8 DEF RowStep, TypeOK, RecordHash
<1>9. CASE Settle
  <2>1. PICK t \in {"queued", "duplicate"} :
          /\ row' = [row EXCEPT ![step.job].status = t]
          /\ t = "duplicate" => step.dup
    BY <1>9 DEF Settle, SetStatus
  <2>2. row' \in [Job -> Row]
    BY <2>1, <1>j DEF TypeOK, Row, JobStatus
  <2>3. Settled(step.job)
    BY <1>9, <1>j, <2>1 DEF Settled, Settle, At, TypeOK
  <2>4. \A k \in Job : k # step.job => row'[k] = row[k] /\ media'[k] = media[k]
    BY <1>9, <2>1 DEF TypeOK, Settle
  <2> QED BY <2>2, <2>3, <2>4, <1>o, <1>n, <1>9 DEF RowStep, TypeOK, Settle
<1> QED BY <1>1, <1>3, <1>4, <1>5, <1>6, <1>7, <1>8, <1>9 DEF Import

\* The UI thread, the observer and the queue change one row each, and no directory.
LEMMA UserStep ==
  ASSUME TypeOK, RowsInv, User \/ \E j \in Job : Claim(j) \/ FinishJob(j)
  PROVE  (\A k \in Job : RowStep(k)) /\ row' \in [Job -> Row] /\ UNCHANGED media
<1> DEFINE Done == (\A k \in Job : RowStep(k)) /\ row' \in [Job -> Row] /\ UNCHANGED media
<1>1. CASE ToggleAutomatic
  BY <1>1 DEF ToggleAutomatic, RowStep, Same, TypeOK
<1>2. CASE MarkAgain
  <2>1. row' = [row EXCEPT ![marking].again = TRUE] /\ marking \in Job /\ UNCHANGED media
    BY <1>2 DEF MarkAgain, TypeOK
  <2>2. row' \in [Job -> Row]
    <3>1. row[marking] \in Row
      BY <2>1 DEF TypeOK
    <3>2. [row[marking] EXCEPT !.again = TRUE] \in Row
      BY <3>1 DEF Row
    <3> QED BY <2>1, <3>2 DEF TypeOK
  <2>3. \A k \in Job : k # marking => Same(k)
    BY <2>1 DEF TypeOK, Same
  <2>4. Noted(marking)
    BY <2>1 DEF TypeOK, Noted
  <2> QED BY <2>1, <2>2, <2>3, <2>4 DEF RowStep
<1>3. ASSUME NEW s \in Source, EnqueueManual(s) PROVE Done
  <2>1. UNCHANGED media /\ (DetectAs(s, "manual") \/ UNCHANGED row)
    BY <1>3 DEF EnqueueManual
  <2>2. CASE UNCHANGED row
    BY <2>1, <2>2 DEF RowStep, Same, TypeOK
  <2> QED BY <2>1, <2>2, DetectStep
<1>4. ASSUME NEW s \in Source, ObserveInbox(s) PROVE Done
  BY <1>4, DetectStep DEF ObserveInbox
<1>5. ASSUME NEW j \in Job, Retry(j) PROVE Done
  <2>1. row[j] \in Row /\ row[j].retries + 1 \in 0..MaxRetries
    BY <1>5, Lengths DEF Retry, TypeOK, Row
  <2>2. \/ row' = [row EXCEPT ![j].status = "queued", ![j].retries = @ + 1]
        \/ row' = [row EXCEPT ![j].status = "waiting", ![j].retries = @ + 1, ![j].seen = NoFile]
    BY <1>5 DEF Retry
  <2>3. row' \in [Job -> Row]
    <3>1. /\ [row[j] EXCEPT !.status = "queued", !.retries = @ + 1] \in Row
          /\ [row[j] EXCEPT !.status = "waiting", !.retries = @ + 1, !.seen = NoFile] \in Row
      BY <2>1, Files DEF Row, JobStatus
    <3>2. \/ row' = [row EXCEPT ![j] = [row[j] EXCEPT !.status = "queued", !.retries = @ + 1]]
          \/ row' = [row EXCEPT ![j] = [row[j] EXCEPT !.status = "waiting", !.retries = @ + 1,
                                                        !.seen = NoFile]]
      BY <2>2 DEF TypeOK
    <3> QED BY <3>1, <3>2 DEF TypeOK
  <2>4. Retried(j)
    BY <1>5 DEF Retry, Retried, TypeOK
  <2>5. \A k \in Job : k # j => Same(k)
    BY <1>5, <2>2 DEF TypeOK, Same, Retry
  <2> QED BY <1>5, <2>3, <2>4, <2>5 DEF RowStep, Retry
<1>6. ASSUME NEW j \in Job, Claim(j) PROVE Done
  <2>1. SetStatus(j, "processing") /\ UNCHANGED media
    BY <1>6 DEF Claim
  <2>2. row[j].status # "importing"
    BY <2>1, Transitions DEF SetStatus, JobStatus
  <2> QED BY <2>1, <2>2, SetStatusStep
<1>7. ASSUME NEW j \in Job, FinishJob(j) PROVE Done
  <2>1. PICK t \in AllowedTransitions["processing"] : SetStatus(j, t)
    BY <1>7 DEF FinishJob
  <2>2. t \notin {"queued", "duplicate"}
    BY Transitions DEF JobStatus
  <2> QED BY <1>7, <2>1, <2>2, SetStatusStep DEF FinishJob
<1> QED BY <1>1, <1>2, <1>3, <1>4, <1>5, <1>6, <1>7 DEF User

\* So do the passes and startup.
LEMMA PassStep ==
  ASSUME TypeOK, RowsInv, StepInv, Startup \/ Pass
  PROVE  (\A k \in Job : RowStep(k)) /\ row' \in [Job -> Row] /\ UNCHANGED media
<1> DEFINE Done == (\A k \in Job : RowStep(k)) /\ row' \in [Job -> Row] /\ UNCHANGED media
<1>0. UNCHANGED row => (\A k \in Job : Same(k) \/ media'[k] # media[k]) /\ row' \in [Job -> Row]
  BY DEF Same, TypeOK
<1>1. CASE StartGui \/ Recovered \/ RemoveSource \/ BeginPass \/ ListWaiting \/ PassEnds
  BY <1>0, <1>1 DEF StartGui, Recovered, RemoveSource, BeginPass, ListWaiting, PassEnds, RowStep
<1>2. ASSUME NEW j \in Job, RecoverVerified(j) \/ SkipDisabled(j) \/ AssessWaiting(j)
      PROVE  Done
  BY <1>0, <1>2 DEF RecoverVerified, SkipDisabled, AssessWaiting, RowStep
<1>3. ASSUME NEW j \in Job,
             RecoverInterrupted(j) \/ AssessMissing(j) \/ AssessIneligible(j) \/ AssessStable(j)
      PROVE  Done
  <2>1. step' # step
    <3>1. step \in Step
      BY DEF TypeOK
    <3>2. CASE AssessStable(j)
      BY <3>1, <3>2 DEF AssessStable, At, Step
    <3>3. ASSUME step' = [step EXCEPT !.todo = @ \ {j}], j \in step.todo PROVE step' # step
      BY <3>1, <3>3 DEF Step
    <3> QED BY <1>3, <3>2, <3>3 DEF RecoverInterrupted, AssessMissing, AssessIneligible, Assessing
  <2> QED BY <1>3, <2>1, SetStatusStep
       DEF RecoverInterrupted, AssessMissing, AssessIneligible, AssessStable
<1>4. ASSUME NEW j \in Job, AssessChanged(j)
      PROVE  Done
  <2>1. PICK f \in Candidate(j) : row' = [row EXCEPT ![j].seen = f]
    BY <1>4 DEF AssessChanged
  <2>2. f \in Content
    <3>1. row[j].source \in Source
      BY <1>4 DEF AssessChanged, Assessing, StepInv, RowsInv, RowInv
    <3> QED BY <2>1, <3>1, Files DEF Candidate, TypeOK
  <2>3. row' \in [Job -> Row]
    <3>1. row[j] \in Row
      BY DEF TypeOK
    <3>2. [row[j] EXCEPT !.seen = f] \in Row
      BY <2>2, <3>1, Files DEF Row
    <3> QED BY <2>1, <3>2 DEF TypeOK
  <2>4. UNCHANGED media
    BY <1>4 DEF AssessChanged
  <2>5. Noted(j)
    BY <2>1, <2>2, <2>4, Files DEF Noted, TypeOK
  <2>6. \A k \in Job : k # j => Same(k)
    BY <2>1, <2>4 DEF Same, TypeOK
  <2> QED BY <2>3, <2>4, <2>5, <2>6 DEF RowStep
<1>5. ASSUME NEW s \in Inbox, DetectInPass(s)
      PROVE  Done
  <2>1. UNCHANGED media /\ (DetectAs(s, "inbox") \/ UNCHANGED row) /\ s \in Source
    BY <1>5 DEF DetectInPass, Source
  <2> QED BY <1>0, <2>1, DetectStep DEF RowStep
<1> QED BY <1>1, <1>2, <1>3, <1>4, <1>5 DEF Startup, Pass

\* What holds of a row and its directories after a step follows from RowStep.
LEMMA NextRowStep ==
  ASSUME ImportInv, [Next]_vars
  PROVE  /\ \A k \in Job : RowStep(k)
         /\ row' \in [Job -> Row] /\ media' \in [Job -> Seq(File)]
<1> USE DEF ImportInv
<1>1. UNCHANGED <<row, media>> => (\A k \in Job : RowStep(k)) /\ row' \in [Job -> Row]
  BY DEF RowStep, Same, TypeOK
<1>2. UNCHANGED media => media' \in [Job -> Seq(File)]
  BY DEF TypeOK
<1>3. CASE UNCHANGED vars
  BY <1>1, <1>2, <1>3 DEF vars
<1>4. CASE World
  BY <1>1, <1>2, <1>4 DEF World, NewFile, Write, Close, UserDeletes
<1>5. CASE GuiExit \/ PassFails
  BY <1>1, <1>2, <1>5 DEF GuiExit, PassFails
<1>6. CASE User \/ \E j \in Job : Claim(j) \/ FinishJob(j)
  BY <1>2, <1>6, UserStep
<1>7. CASE Startup \/ Pass
  BY <1>2, <1>7, PassStep
<1>8. CASE Import
  BY <1>8, ImportStep
<1> QED BY <1>3, <1>4, <1>5, <1>6, <1>7, <1>8 DEF Next

\* After a step, too, a row names a directory that there is.
LEMMA DirectoryStep ==
  ASSUME ImportInv, [Next]_vars, NEW k \in Job
  PROVE  row'[k].dir <= Len(media'[k])
<1> USE DEF ImportInv
<1>1. /\ row[k] \in Row /\ media[k] \in Seq(File) /\ row[k].dir <= Len(media[k])
      /\ Len(media[k]) \in Nat
  BY LenProperties DEF TypeOK
<1>2. CASE Same(k) \/ Moved(k) \/ Settled(k) \/ Noted(k) \/ Retried(k) \/ Recorded(k)
  <2>1. row'[k].dir = row[k].dir /\ media'[k] = media[k]
    BY <1>1, <1>2 DEF Same, Moved, Settled, Noted, Retried, Recorded, Row
  <2> QED BY <1>1, <2>1
<1>3. CASE Detected(k)
  <2>1. row'[k].dir = 0 /\ media'[k] = media[k]
    BY <1>3 DEF Detected, NoRow
  <2> QED BY <1>1, <2>1
<1>4. CASE Planned(k)
  <2>1. row'[k].dir = Len(media[k]) + 1 /\ media'[k] = Append(media[k], NoFile)
    BY <1>1, <1>4 DEF Planned, Row
  <2> QED BY <1>1, <2>1, Files, AppendProperties
<1>5. CASE Published(k)
  <2>1. PICK f \in Content : media'[k] = [media[k] EXCEPT ![row[k].dir] = f]
    BY <1>5 DEF Published
  <2>2. Len(media'[k]) = Len(media[k]) /\ row'[k] = row[k]
    <3>1. row[k].dir = 0 \/ row[k].dir \in 1..Len(media[k])
      BY OriginalType
    <3>2. step.pc \in HasDirectory /\ k = step.job
      BY <1>5 DEF Published, HasDirectory
    <3>3. row[k].dir # 0
      BY <3>2 DEF StepInv
    <3> QED BY <1>1, <1>5, <2>1, <3>1, <3>3, Files, ExceptSeq DEF Published
  <2> QED BY <1>1, <2>2
<1> QED BY <1>2, <1>3, <1>4, <1>5, NextRowStep DEF RowStep

------------------------------------------------------------------------------
(* The rows. *)

\* What holds of every row is kept by every step.
LEMMA RowsInvStep ==
  ASSUME ImportInv, [Next]_vars
  PROVE  RowsInv'
<1> USE DEF ImportInv
<1> SUFFICES ASSUME NEW k \in Job PROVE RowInv(k)'
  BY DEF RowsInv
<1>1. /\ row[k] \in Row /\ media[k] \in Seq(File) /\ row[k].dir <= Len(media[k])
      /\ Len(media[k]) \in Nat /\ row[k].retries \in Nat
  BY LenProperties, Lengths DEF TypeOK, Row
<1>2. row'[k].dir = row[k].dir /\ media'[k] = media[k] => Original(k)' = Original(k)
  BY DEF Original
<1>3. CASE Same(k) \/ Noted(k)
  <2>1. /\ row'[k].dir = row[k].dir /\ media'[k] = media[k] /\ row'[k].status = row[k].status
        /\ row'[k].source = row[k].source /\ row'[k].origin = row[k].origin
        /\ row'[k].retries = row[k].retries /\ row'[k].sha = row[k].sha
    BY <1>1, <1>3 DEF Same, Noted, Row
  <2> QED BY <1>2, <2>1 DEF RowsInv, RowInv
<1>4. CASE Moved(k) \/ Settled(k)
  <2>1. /\ row[k].status # "none"
        /\ row'[k].status \notin {"none", "waiting"}
    <3>1. CASE Moved(k)
      <4>1. PICK t \in AllowedTransitions[row[k].status] : row'[k] = [row[k] EXCEPT !.status = t]
        BY <3>1 DEF Moved
      <4>2. row[k].status \in JobStatus
        BY <1>1, <3>1 DEF Row, Moved
      <4>3. t \in JobStatus \ {"waiting"}
        BY <4>1, <4>2, Transitions
      <4>4. row'[k].status = t
        BY <1>1, <4>1 DEF Row
      <4> QED BY <3>1, <4>3, <4>4 DEF Moved, JobStatus
    <3>2. CASE Settled(k)
      <4>1. row[k].status # "none"
        BY <3>2 DEF Settled, StepInv, ImportPc
      <4> QED BY <1>1, <3>2, <4>1 DEF Settled, Row
    <3> QED BY <1>4, <3>1, <3>2
  <2>2. /\ row'[k].dir = row[k].dir /\ media'[k] = media[k]
        /\ row'[k].source = row[k].source /\ row'[k].origin = row[k].origin
        /\ row'[k].retries = row[k].retries /\ row'[k].sha = row[k].sha
    BY <1>1, <1>4 DEF Moved, Settled, Row
  <2> QED BY <1>2, <2>1, <2>2 DEF RowsInv, RowInv
<1>5. CASE Detected(k)
  <2>1. media'[k] = <<>> /\ Len(media'[k]) = 0
    BY <1>5 DEF Detected, RowsInv, RowInv
  <2>2. /\ row'[k].status = "waiting" /\ row'[k].source \in Source /\ row'[k].retries = 0
        /\ row'[k].origin = "inbox" => row'[k].source \in Inbox
        /\ row'[k].sha = NoFile
    BY <1>5 DEF Detected, NoRow
  <2> QED BY <2>1, <2>2 DEF RowsInv, RowInv
<1>6. CASE Retried(k)
  <2>1. /\ row[k].status # "none" /\ row'[k].status # "none"
        /\ row'[k].retries = row[k].retries + 1 /\ media'[k] = media[k]
        /\ row'[k].source = row[k].source /\ row'[k].origin = row[k].origin
    BY <1>1, <1>6 DEF Retried, Row, RetryableStatus
  <2> QED BY <1>1, <2>1 DEF RowsInv, RowInv
<1>7. CASE Planned(k)
  <2>1. /\ row[k].status = "importing" /\ Len(media[k]) <= row[k].retries
    BY <1>7 DEF Planned, StepInv, ImportPc
  <2>2. /\ row'[k].status = row[k].status /\ row'[k].source = row[k].source
        /\ row'[k].origin = row[k].origin /\ row'[k].retries = row[k].retries
        /\ row'[k].sha = row[k].sha
        /\ media'[k] = Append(media[k], NoFile)
    BY <1>1, <1>7 DEF Planned, Row
  <2>3. Len(media'[k]) = Len(media[k]) + 1
    BY <1>1, <2>2, Files, AppendProperties
  <2>4. row[k].retries = 0 => row[k].sha = NoFile
    <3>1. row[k].dir \in Nat /\ (row[k].retries = 0 => row[k].dir = 0)
      BY <1>1, <2>1, Lengths DEF Row
    <3> QED BY <3>1 DEF RowsInv, RowInv, Original
  <2> QED BY <1>1, <2>1, <2>2, <2>3, <2>4 DEF RowsInv, RowInv
<1>8. CASE Published(k)
  <2>1. PICK f \in Content : media'[k] = [media[k] EXCEPT ![row[k].dir] = f]
    BY <1>8 DEF Published
  <2>2. row'[k] = row[k] /\ row[k].status = "importing" /\ Original(k) = NoFile /\ row[k].dir # 0
    BY <1>8 DEF Published, StepInv, ImportPc, HasDirectory
  <2>3. Len(media'[k]) = Len(media[k])
    BY <1>1, <2>1, <2>2, OriginalType, Files, ExceptSeq
  <2>4. row[k].retries = 0 => row[k].sha = NoFile
    BY <2>2 DEF RowsInv, RowInv
  <2> QED BY <2>2, <2>3, <2>4 DEF RowsInv, RowInv
<1>9. CASE Recorded(k)
  <2>1. /\ row[k].status = "importing"
        /\ media'[k] = media[k] /\ row'[k].dir = row[k].dir
        /\ row'[k].status = row[k].status /\ row'[k].source = row[k].source
        /\ row'[k].origin = row[k].origin /\ row'[k].retries = row[k].retries
        /\ row'[k].sha \in {row[k].sha, Original(k)}
    BY <1>1, <1>9 DEF Recorded, StepInv, ImportPc, Row
  <2> QED BY <1>2, <2>1 DEF RowsInv, RowInv
<1> QED BY <1>3, <1>4, <1>5, <1>6, <1>7, <1>8, <1>9, NextRowStep DEF RowStep

------------------------------------------------------------------------------
(* Types. *)

\* The importer's place and its local variables keep their types.
LEMMA StepType ==
  ASSUME TypeOK, RowsInv, StepInv, Startup \/ Pass \/ Import \/ GuiExit \/ PassFails
  PROVE  step' \in Step
<1>s. step \in Step
  BY DEF TypeOK
<1>1. \A p \in Pc : [step EXCEPT !.pc = p] \in Step
  BY <1>s DEF Step
<1>2. \A S \in SUBSET Job, p \in Pc : [NoStep(p) EXCEPT !.todo = S] \in Step
  BY NoStepType DEF Step
<1>e. \A x \in Step, b \in BOOLEAN : /\ [x EXCEPT !.auto = b] \in Step
                                      /\ [x EXCEPT !.again = b] \in Step
                                      /\ [x EXCEPT !.dup = b] \in Step
                                      /\ [x EXCEPT !.recovering = b] \in Step
  BY DEF Step
<1>3. \A P \in SUBSET Inbox, b \in BOOLEAN : [NoStep("detect") EXCEPT !.auto = b, !.paths = P] \in Step
  <2>1. TAKE P \in SUBSET Inbox, b \in BOOLEAN
  <2>2. NoStep("detect") \in Step
    BY NoStepType DEF Pc
  <2>3. [[NoStep("detect") EXCEPT !.auto = b] EXCEPT !.paths = P] \in Step
    <3>1. [NoStep("detect") EXCEPT !.auto = b] \in Step
      BY <1>e, <2>2
    <3>2. \A x \in Step : [x EXCEPT !.paths = P] \in Step
      BY DEF Step
    <3> QED BY <3>1, <3>2
  <2>4. [NoStep("detect") EXCEPT !.auto = b, !.paths = P] =
          [[NoStep("detect") EXCEPT !.auto = b] EXCEPT !.paths = P]
    OBVIOUS
  <2> QED BY <2>3, <2>4
<1>4. Pc = {"down", "recover", "idle", "detect", "advance", "plan", "move", "digest", "copy", "publish",
            "unlink", "record", "hash", "lookup", "settle", "remove"}
  BY DEF Pc, ImportPc
<1>5. NextRow => step' \in Step
  <2>1. \A p \in Pc : [step EXCEPT !.pc = p, !.todo = @ \ {step.job}, !.job = NoJob,
                                   !.digest = NoFile, !.copied = NoFile] \in Step
    BY <1>s, Files DEF Step
  <2>2. \A p \in Pc : [[[step EXCEPT !.pc = p, !.todo = @ \ {step.job}, !.job = NoJob,
                                     !.digest = NoFile, !.copied = NoFile]
                         EXCEPT !.again = FALSE] EXCEPT !.dup = FALSE] \in Step
    BY <1>e, <2>1
  <2>3. \A p \in Pc : [step EXCEPT !.pc = p, !.todo = @ \ {step.job}, !.job = NoJob, !.again = FALSE,
                                   !.dup = FALSE, !.digest = NoFile, !.copied = NoFile] =
                      [[[step EXCEPT !.pc = p, !.todo = @ \ {step.job}, !.job = NoJob,
                                     !.digest = NoFile, !.copied = NoFile]
                         EXCEPT !.again = FALSE] EXCEPT !.dup = FALSE]
    OBVIOUS
  <2>4. "recover" \in Pc /\ "advance" \in Pc
    BY <1>4
  <2>5. CASE step.recovering
    BY <2>2, <2>3, <2>4, <2>5 DEF NextRow
  <2>6. CASE ~step.recovering
    BY <2>2, <2>3, <2>4, <2>6 DEF NextRow
  <2> QED BY <2>5, <2>6
<1>6. step.job \in Job \cup {NoJob}
  BY <1>s DEF Step
<1>7. CASE StartGui \/ Recovered \/ BeginPass \/ PassEnds \/ GuiExit \/ PassFails
  <2>1. automatic \in BOOLEAN /\ With({"importing"}) \in SUBSET Job
        /\ {s \in Inbox : source[s] # NoFile} \in SUBSET Inbox
    BY DEF TypeOK, With
  <2>2. step' = [NoStep("detect") EXCEPT !.auto = automatic,
                !.paths = IF automatic THEN {s \in Inbox : source[s] # NoFile} ELSE {}] => step' \in Step
    BY <1>3, <2>1
  <2> QED BY <1>2, <1>4, <1>7, <2>1, <2>2, NoStepType
        DEF StartGui, Recovered, BeginPass, PassEnds, GuiExit, PassFails
<1>8. CASE RemoveSource
  BY <1>5, <1>8 DEF RemoveSource
<1>9. CASE ListWaiting
  <2>1. With({"waiting"}) \in SUBSET Job
    BY DEF With
  <2> QED BY <1>9, <2>1, <1>s, <1>4 DEF ListWaiting, Step
<1>10. ASSUME NEW j \in Job,
              \/ RecoverVerified(j) \/ RecoverInterrupted(j) \/ SkipDisabled(j) \/ AssessMissing(j)
              \/ AssessIneligible(j) \/ AssessChanged(j) \/ AssessWaiting(j) \/ AssessStable(j)
       PROVE  step' \in Step
  <2>1. \/ step' = [step EXCEPT !.todo = @ \ {j}]
        \/ step' = [step EXCEPT !.pc = "record", !.job = j, !.recovering = TRUE]
        \/ step' = [step EXCEPT !.pc = "plan", !.job = j]
    BY <1>10 DEF RecoverVerified, RecoverInterrupted, SkipDisabled, AssessMissing, AssessIneligible,
                 AssessChanged, AssessWaiting, AssessStable, Assessing
  <2>2. [step EXCEPT !.todo = @ \ {j}] \in Step
    BY <1>s DEF Step
  <2>3. [step EXCEPT !.pc = "plan", !.job = j] \in Step
    BY <1>s, <1>4 DEF Step
  <2>4. [step EXCEPT !.pc = "record", !.job = j, !.recovering = TRUE] \in Step
    <3>1. [step EXCEPT !.pc = "record", !.job = j] \in Step
      BY <1>s, <1>4 DEF Step
    <3>2. \A x \in Step : [x EXCEPT !.recovering = TRUE] \in Step
      BY DEF Step
    <3>3. [step EXCEPT !.pc = "record", !.job = j, !.recovering = TRUE] =
            [[step EXCEPT !.pc = "record", !.job = j] EXCEPT !.recovering = TRUE]
      OBVIOUS
    <3> QED BY <3>1, <3>2, <3>3
  <2> QED BY <2>1, <2>2, <2>3, <2>4
<1>11. ASSUME NEW s \in Inbox, DetectInPass(s) PROVE step' \in Step
  BY <1>11, <1>s DEF DetectInPass, Step
<1>12. CASE Import
  <2>j. step.job \in Job /\ row[step.job] \in Row
    BY <1>12 DEF Import, PlanImport, Move, MoveFails, Digest, Copy, PublishCopy, Unlink, ImportFails,
         RecordArchive, RecordHash, LookupDuplicate, Settle, At, StepInv, ImportPc, TypeOK
  <2>1. CASE ImportFails \/ Settle
    BY <2>1, <1>5, <1>1, <1>4 DEF ImportFails, Settle, Goto
  <2>2. CASE PlanImport \/ Move \/ MoveFails \/ PublishCopy \/ Unlink \/ RecordArchive
    BY <2>2, <1>1, <1>4 DEF PlanImport, Move, MoveFails, PublishCopy, Unlink, RecordArchive, Goto
  <2>3. CASE Digest \/ Copy
    <3>1. PICK f : f # NoFile /\ f = source[row[step.job].source]
      BY <2>3 DEF Digest, Copy
    <3>2. f \in File
      <4>1. row[step.job].source \in Source
        BY <2>3, <2>j DEF Digest, Copy, At, StepInv, ImportPc, RowsInv, RowInv
      <4> QED BY <3>1, <4>1 DEF TypeOK
    <3> QED BY <2>3, <3>1, <3>2, <1>s, <1>4 DEF Digest, Copy, Step
  <2>4. CASE RecordHash
    BY <2>4, <2>j, <1>s, <1>4 DEF RecordHash, Step, Row
  <2>5. CASE LookupDuplicate
    BY <2>5, <1>s, <1>4 DEF LookupDuplicate, Step, CompletedHash
  <2> QED BY <1>12, <2>1, <2>2, <2>3, <2>4, <2>5 DEF Import
<1> QED BY <1>7, <1>8, <1>9, <1>10, <1>11, <1>12 DEF Startup, Pass

\* Who changes the files at the source paths.
LEMMA FilesStep == [Next]_vars => World \/ Move \/ Unlink \/ RemoveSource \/ UNCHANGED files
<1>1. UNCHANGED vars => UNCHANGED files
  BY DEF vars, files
<1>2. User \/ GuiExit \/ PassFails \/ (\E j \in Job : Claim(j) \/ FinishJob(j)) => UNCHANGED files
  BY DEF User, ToggleAutomatic, MarkAgain, EnqueueManual, ObserveInbox, Retry, Claim, FinishJob,
         GuiExit, PassFails
<1>3. Startup \/ Pass => RemoveSource \/ UNCHANGED files
  BY DEF Startup, Pass, StartGui, Recovered, RecoverVerified, RecoverInterrupted, BeginPass, ListWaiting,
         PassEnds, DetectInPass, SkipDisabled, AssessMissing, AssessIneligible, AssessChanged, AssessWaiting,
         AssessStable
<1>4. Import => Move \/ Unlink \/ UNCHANGED files
  BY DEF Import, PlanImport, MoveFails, Digest, Copy, PublishCopy, ImportFails, RecordArchive, RecordHash,
         LookupDuplicate, Settle
<1> QED BY <1>1, <1>2, <1>3, <1>4 DEF Next

\* Every step keeps the types, and every open file is there.
LEMMA TypeOKStep ==
  ASSUME ImportInv, [Next]_vars
  PROVE  TypeOK' /\ WritingInv'
<1> USE DEF ImportInv
<1>1. step' \in Step
  <2>1. step \in Step
    BY DEF TypeOK
  <2>2. CASE Startup \/ Pass \/ Import \/ GuiExit \/ PassFails
    BY <2>2, StepType
  <2>3. CASE World \/ User \/ (\E j \in Job : Claim(j) \/ FinishJob(j)) \/ UNCHANGED vars
    <3>1. UNCHANGED step
      BY <2>3 DEF World, NewFile, Write, Close, UserDeletes, User, ToggleAutomatic, MarkAgain,
                  EnqueueManual, ObserveInbox, Retry, Claim, FinishJob, vars
    <3> QED BY <2>1, <3>1
  <2> QED BY <2>2, <2>3 DEF Next
<1> DEFINE FilesOK == source' \in [Source -> File] /\ writing' \subseteq Source /\ WritingInv'
<1>2. FilesOK
  <2>1. UNCHANGED files => FilesOK
    BY DEF TypeOK, WritingInv, files
  <2>2. ASSUME NEW s \in Source, s \notin writing, source' = [source EXCEPT ![s] = NoFile], UNCHANGED writing
        PROVE  FilesOK
    <3>1. source' \in [Source -> File] /\ writing' \subseteq Source
      BY <2>2, Files DEF TypeOK
    <3>2. \A t \in writing : t \in Source /\ source'[t] = source[t]
      BY <2>2 DEF TypeOK
    <3> QED BY <2>2, <3>1, <3>2 DEF WritingInv
  <2>3. ASSUME NEW s \in Source, NEW c \in Content, source' = [source EXCEPT ![s] = c],
               writing' \subseteq writing \cup {s}
        PROVE  FilesOK
    <3>1. source' \in [Source -> File] /\ writing' \subseteq Source
      BY <2>3, Files DEF TypeOK
    <3>2. \A t \in writing' : t \in Source /\ (t = s \/ t \in writing)
      BY <2>3 DEF TypeOK
    <3>3. source'[s] # NoFile /\ \A t \in Source \ {s} : source'[t] = source[t]
      BY <2>3, Files DEF TypeOK
    <3> QED BY <3>1, <3>2, <3>3 DEF WritingInv
  <2>4. ASSUME NEW s \in Source, NewFile(s)
        PROVE  FilesOK
    <3>1. CASE \E c \in Content : source' = [source EXCEPT ![s] = c] /\ UNCHANGED writing
      BY <3>1, <2>3
    <3>2. CASE \E r \in Recording : /\ source' = [source EXCEPT ![s] = [rec |-> r, length |-> 0]]
                                    /\ writing' = writing \cup {s}
      <4>1. \A r \in Recording : [rec |-> r, length |-> 0] \in Content
        BY Lengths DEF Content
      <4> QED BY <3>2, <4>1, <2>3
    <3> QED BY <2>4, <3>1, <3>2 DEF NewFile
  <2>5. ASSUME NEW s \in Source, Write(s)
        PROVE  FilesOK
    <3>1. source[s] \in Content
      BY <2>5, Files DEF Write, WritingInv, TypeOK
    <3>2. [source[s] EXCEPT !.length = @ + 1] \in Content
      BY <2>5, <3>1, Lengths DEF Write, Content
    <3>3. source' = [source EXCEPT ![s] = [source[s] EXCEPT !.length = @ + 1]] /\ UNCHANGED writing
      BY <2>5 DEF Write, TypeOK
    <3> QED BY <2>3, <3>2, <3>3
  <2>6. ASSUME NEW s \in Source, Close(s)
        PROVE  FilesOK
    BY <2>6 DEF Close, TypeOK, WritingInv
  <2>7. ASSUME NEW s \in Source, UserDeletes(s)
        PROVE  FilesOK
    BY <2>7, <2>2 DEF UserDeletes
  <2>8. ASSUME Move \/ Unlink \/ RemoveSource
        PROVE  FilesOK
    <3>1. row[step.job].source \in Source
      BY <2>8 DEF Move, Unlink, RemoveSource, At, StepInv, ImportPc, RowsInv, RowInv
    <3>2. CASE UNCHANGED files
      BY <2>1, <3>2
    <3>3. CASE /\ row[step.job].source \notin writing /\ UNCHANGED writing
               /\ source' = [source EXCEPT ![row[step.job].source] = NoFile]
      BY <2>2, <3>1, <3>3
    <3> QED BY <2>8, <3>2, <3>3 DEF Move, Unlink, RemoveSource, files
  <2>9. World => FilesOK
    BY <2>4, <2>5, <2>6, <2>7 DEF World
  <2> QED BY <2>1, <2>8, <2>9, FilesStep
<1>3. automatic' \in BOOLEAN /\ marking' \in Job \cup {NoJob}
      /\ count' \in [files : 0..MaxFiles, exits : 0..MaxExits, faults : 0..MaxFaults]
  <2>1. /\ automatic \in BOOLEAN /\ marking \in Job \cup {NoJob}
        /\ count \in [files : 0..MaxFiles, exits : 0..MaxExits, faults : 0..MaxFaults]
    BY DEF TypeOK
  <2>2. UNCHANGED gui \/ \/ automatic' = ~automatic /\ UNCHANGED <<marking, count>>
                         \/ marking' \in Job \cup {NoJob} /\ UNCHANGED <<automatic, count>>
                         \/ /\ UNCHANGED automatic /\ marking' \in {marking, NoJob}
                            /\ \/ count.files < MaxFiles /\ count' = [count EXCEPT !.files = @ + 1]
                               \/ count.exits < MaxExits /\ count' = [count EXCEPT !.exits = @ + 1]
                               \/ count.faults < MaxFaults /\ count' = [count EXCEPT !.faults = @ + 1]
    <3>1. UNCHANGED vars => UNCHANGED gui
      BY DEF vars, gui
    <3>2. ASSUME NEW s \in Source, EnqueueManual(s)
          PROVE  marking' \in Job \cup {NoJob} /\ UNCHANGED <<automatic, count>>
      BY <3>2 DEF EnqueueManual
    <3>3. (\E s \in Source : ObserveInbox(s)) \/ (\E j \in Job : Retry(j) \/ Claim(j) \/ FinishJob(j))
            => UNCHANGED gui
      BY DEF ObserveInbox, Retry, Claim, FinishJob, gui
    <3>4. Startup \/ Pass => UNCHANGED gui
      BY DEF Startup, Pass, StartGui, Recovered, RecoverVerified, RecoverInterrupted, BeginPass, ListWaiting,
             PassEnds, DetectInPass, SkipDisabled, AssessMissing, AssessIneligible, AssessChanged, AssessWaiting,
             AssessStable, RemoveSource, gui
    <3>5. Import => UNCHANGED gui
      BY DEF Import, PlanImport, Move, MoveFails, Digest, Copy, PublishCopy, Unlink, ImportFails, RecordArchive,
             RecordHash, LookupDuplicate, Settle, gui
    <3>6. World => UNCHANGED gui \/ /\ UNCHANGED <<automatic, marking>> /\ count.files < MaxFiles
                                    /\ count' = [count EXCEPT !.files = @ + 1]
      BY DEF World, NewFile, Write, Close, UserDeletes, gui
    <3>7. ToggleAutomatic => automatic' = ~automatic /\ UNCHANGED <<marking, count>>
      BY DEF ToggleAutomatic
    <3>8. MarkAgain => marking' \in Job \cup {NoJob} /\ UNCHANGED <<automatic, count>>
      BY DEF MarkAgain
    <3>9. GuiExit => /\ UNCHANGED automatic /\ marking' \in {marking, NoJob}
                     /\ count.exits < MaxExits /\ count' = [count EXCEPT !.exits = @ + 1]
      BY DEF GuiExit
    <3>10. PassFails => /\ UNCHANGED automatic /\ marking' \in {marking, NoJob}
                        /\ count.faults < MaxFaults /\ count' = [count EXCEPT !.faults = @ + 1]
      BY DEF PassFails
    <3> QED BY <3>1, <3>2, <3>3, <3>4, <3>5, <3>6, <3>7, <3>8, <3>9, <3>10 DEF Next, User
  <2>3. count' \in [files : 0..MaxFiles, exits : 0..MaxExits, faults : 0..MaxFaults]
    BY <2>1, <2>2, LimitsAssumption DEF gui
  <2>4. automatic' \in BOOLEAN /\ marking' \in Job \cup {NoJob}
    BY <2>1, <2>2 DEF gui
  <2> QED BY <2>3, <2>4
<1> QED BY <1>1, <1>2, <1>3, NextRowStep, DirectoryStep DEF TypeOK

------------------------------------------------------------------------------
(* The importer. *)

\* What every step leaves of a row that the importer has not moved.
Kept(k) ==
  /\ row[k].status # "none" => /\ row'[k].status # "none"
                               /\ row'[k].dir = row[k].dir /\ row'[k].sha = row[k].sha
                               /\ row'[k].origin = row[k].origin
                               /\ row'[k].source = row[k].source /\ row'[k].size = row[k].size
  /\ row[k].status = "importing" => /\ row'[k].status = "importing"
                                    /\ row'[k].retries = row[k].retries
  /\ row[k].status = "completed" => row'[k].status = "completed"

\* A step of somebody else leaves the import's row and directories alone.
LEMMA KeptRows ==
  ASSUME ImportInv, [Next]_vars, NEW k \in Job
  PROVE  /\ row[k].status # "none" => row'[k].status # "none"
         /\ row[k].status = "completed" => row'[k].status = "completed" /\ row'[k].sha = row[k].sha
         /\ step' = step => Kept(k) /\ media'[k] = media[k]
<1> USE DEF ImportInv
<1>1. row[k] \in Row
  BY DEF TypeOK
<1>2. CASE Same(k) \/ Noted(k)
  BY <1>1, <1>2 DEF Same, Noted, Kept, Row
<1>3. CASE Moved(k)
  <2>1. PICK t \in AllowedTransitions[row[k].status] : row'[k] = [row[k] EXCEPT !.status = t]
    BY <1>3 DEF Moved
  <2>2. row[k].status \in JobStatus
    BY <1>1, <1>3 DEF Row, Moved
  <2>3. t \in JobStatus /\ row[k].status \in ActiveStatus
    BY <2>1, <2>2, Transitions
  <2>4. row'[k].status # "none" /\ row[k].status # "completed"
    BY <1>1, <2>1, <2>3 DEF Row, JobStatus, ActiveStatus
  <2>5. /\ row'[k].dir = row[k].dir /\ row'[k].sha = row[k].sha /\ row'[k].origin = row[k].origin
        /\ row'[k].source = row[k].source /\ row'[k].size = row[k].size
    BY <1>1, <2>1 DEF Row
  <2> QED BY <1>3, <2>4, <2>5 DEF Kept, Moved
<1>4. CASE Detected(k)
  BY <1>4 DEF Detected, NoRow, Kept
<1>5. CASE Retried(k)
  <2>1. /\ row[k].status \in RetryableStatus /\ row'[k].status \in {"queued", "waiting"}
        /\ row'[k].dir = row[k].dir /\ row'[k].sha = row[k].sha /\ row'[k].origin = row[k].origin
        /\ row'[k].source = row[k].source /\ row'[k].size = row[k].size
        /\ media'[k] = media[k]
    BY <1>1, <1>5 DEF Retried, Row
  <2> QED BY <2>1 DEF Kept, RetryableStatus
<1>6. CASE step' # step /\ (Settled(k) \/ Planned(k) \/ Published(k) \/ Recorded(k))
  <2>1. row[k].status = "importing"
    BY <1>6 DEF Settled, Planned, Published, Recorded, StepInv, ImportPc
  <2>2. row'[k].status \in {"importing", "queued", "duplicate"}
    <3>1. CASE Settled(k)
      BY <1>1, <3>1 DEF Settled, Row
    <3>2. CASE Planned(k)
      BY <1>1, <2>1, <3>2 DEF Planned, Row
    <3>3. CASE Published(k) \/ Recorded(k)
      BY <1>1, <2>1, <3>3 DEF Published, Recorded, Row
    <3> QED BY <1>6, <3>1, <3>2, <3>3
  <2> QED BY <1>6, <2>1, <2>2
<1> QED BY <1>2, <1>3, <1>4, <1>5, <1>6, NextRowStep DEF RowStep

\* While another process or thread takes a step, the import stays what it is.
LEMMA OthersStep ==
  ASSUME ImportInv, [Next]_vars, step' = step
  PROVE  StepInv'
<1> USE DEF ImportInv
<1>1. step.todo \subseteq Job /\ (step.pc \in ImportPc => step.job \in Job)
  BY DEF TypeOK, Step, StepInv
<1>2. \A k \in Job : Kept(k) /\ media'[k] = media[k]
  BY KeptRows
<1>3. step.pc \in ImportPc =>
        /\ Original(step.job)' = Original(step.job) /\ row'[step.job].dir = row[step.job].dir
        /\ row'[step.job].sha = row[step.job].sha /\ row'[step.job].origin = row[step.job].origin
        /\ row'[step.job].status # "none" /\ media'[step.job] = media[step.job]
  BY <1>1, <1>2 DEF Kept, StepInv, Original
<1>4. step.pc = "settle" /\ step.dup => CompletedHash(row[step.job].sha)'
  <2>1. CASE step.pc = "settle" /\ step.dup
    <3>1. CompletedHash(row[step.job].sha)
      BY <2>1 DEF StepInv
    <3>2. PICK k \in Job : row[k].status = "completed" /\ row[k].sha = row[step.job].sha
      BY <3>1 DEF CompletedHash, With
    <3>3. row'[k].status = "completed" /\ row'[k].sha = row'[step.job].sha
      BY <1>3, <2>1, <3>2, KeptRows DEF ImportPc
    <3> QED BY <3>3 DEF CompletedHash, With
  <2> QED BY <2>1
<1>5. \A j \in step'.todo : row'[j].status # "none"
  BY <1>1, <1>2 DEF Kept, StepInv
<1>6. step'.pc = "recover" \/ step'.recovering =>
        \A j \in step'.todo \ {step'.job} : row'[j].status = "importing"
  BY <1>1, <1>2 DEF Kept, StepInv
<1>7. /\ step'.pc \in ImportPc \ {"remove"} => row'[step'.job].status = "importing"
      /\ step'.pc = "plan" => Len(media'[step'.job]) <= row'[step'.job].retries
  BY <1>1, <1>2 DEF Kept, StepInv, ImportPc
<1>8. /\ step'.pc \notin ImportPc => step'.job = NoJob
      /\ step'.pc \in {"detect", "advance"} => ~step'.recovering
      /\ step'.pc \in ImportPc => step'.job \in Job /\ row'[step'.job].status # "none"
      /\ step'.pc = "publish" => step'.copied \in Content
  BY <1>1, <1>3 DEF StepInv
<1>9. /\ step'.pc \in HasDirectory => row'[step'.job].dir # 0 /\ Original(step.job)' = NoFile
      /\ step'.pc \in HasOriginal => row'[step'.job].dir # 0 /\ Original(step.job)' \in Content
      /\ step'.pc \in {"lookup", "settle", "remove"} => row'[step'.job].sha = Original(step.job)'
      /\ step'.pc \in {"move", "unlink"} => row'[step'.job].origin = "inbox"
  BY <1>3 DEF StepInv, HasDirectory, HasOriginal, ImportPc
<1> QED BY <1>4, <1>5, <1>6, <1>7, <1>8, <1>9 DEF StepInv

\* Outside an import only the importer's list matters.
LEMMA IdleStep ==
  ASSUME ImportInv, [Next]_vars, step'.pc \notin ImportPc,
         Startup \/ Pass \/ ImportFails \/ GuiExit \/ PassFails \/ (Settle /\ ~step.recovering)
  PROVE  StepInv'
<1> USE DEF ImportInv
<1>s. step \in Step /\ step.todo \subseteq Job
  BY DEF TypeOK, Step
<1>k. \A k \in Job : row[k].status # "none" => row'[k].status # "none"
  BY KeptRows
<1>e. \A pc : ~NoStep(pc).recovering /\ NoStep(pc).todo = {} /\ NoStep(pc).job = NoJob /\ NoStep(pc).pc = pc
  BY DEF NoStep
<1>n. NextRow => /\ step'.todo = step.todo \ {step.job} /\ step'.job = NoJob
                 /\ step'.recovering = step.recovering
                 /\ step'.pc = IF step.recovering THEN "recover" ELSE "advance"
  BY <1>s DEF NextRow, Step
<1>w. /\ With({"waiting"}) \subseteq Job /\ With({"importing"}) \subseteq Job
      /\ \A k \in With({"waiting"}) \cup With({"importing"}) : row[k].status # "none"
      /\ \A k \in With({"importing"}) : row[k].status = "importing"
  BY DEF With
<1> DEFINE Listed ==
      /\ \A k \in step'.todo : row'[k].status # "none"
      /\ step'.pc = "recover" \/ step'.recovering =>
           \A k \in step'.todo : row'[k].status = "importing"
      /\ step'.job = NoJob
      /\ step'.pc \in {"detect", "advance"} => ~step'.recovering
<1> SUFFICES Listed
  BY DEF StepInv, ImportPc, HasDirectory, HasOriginal
<1>1. CASE StartGui
  BY <1>1, <1>s, <1>k, <1>w DEF StartGui, NoStep
<1>2. CASE Recovered \/ PassEnds \/ GuiExit \/ PassFails \/ BeginPass
  <2>1. step'.todo = {} /\ step'.job = NoJob
    BY <1>2, <1>e DEF Recovered, PassEnds, GuiExit, PassFails, BeginPass, NoStep
  <2>2. ~step'.recovering
    BY <1>2, <1>e DEF Recovered, PassEnds, GuiExit, PassFails, BeginPass, NoStep
  <2> QED BY <2>1, <2>2
<1>3. CASE ListWaiting
  <2>1. /\ step'.todo = With({"waiting"}) /\ step'.job = step.job /\ step'.recovering = step.recovering
        /\ step'.pc = "advance" /\ step.pc = "detect" /\ UNCHANGED row
    BY <1>3, <1>s DEF ListWaiting, At, Step
  <2> QED BY <2>1, <1>w, <1>k DEF StepInv, ImportPc
<1>4. ASSUME NEW j \in Job, RecoverInterrupted(j)
      PROVE  Listed
  <2>1. /\ step'.todo = step.todo \ {j} /\ step'.job = step.job /\ step.pc = "recover" /\ step'.pc = "recover"
    BY <1>4, <1>s DEF RecoverInterrupted, At, Step
  <2>2. \A i \in Job \ {j} : row'[i] = row[i]
    BY <1>4 DEF RecoverInterrupted, SetStatus, TypeOK
  <2> QED BY <1>s, <1>k, <2>1, <2>2, NoJobInRows DEF StepInv, ImportPc
<1>5. ASSUME NEW j \in Job,
             \/ SkipDisabled(j) \/ AssessMissing(j) \/ AssessIneligible(j) \/ AssessChanged(j) \/ AssessWaiting(j)
      PROVE  Listed
  <2>1. Assessing(j)
    BY <1>5 DEF SkipDisabled, AssessMissing, AssessIneligible, AssessChanged, AssessWaiting
  <2>2. /\ step'.todo = step.todo \ {j} /\ step'.job = step.job /\ step.pc = "advance"
      /\ step'.recovering = step.recovering /\ step'.pc = "advance"
    BY <2>1, <1>s DEF Assessing, At, Step
  <2> QED BY <1>s, <1>k, <2>1, <2>2 DEF StepInv, ImportPc
<1>6. ASSUME NEW s \in Inbox, DetectInPass(s)
      PROVE  Listed
  <2>1. /\ step'.todo = step.todo /\ step'.job = step.job /\ step'.recovering = step.recovering
        /\ step.pc = "detect" /\ step'.pc = "detect"
    BY <1>6, <1>s DEF DetectInPass, At, Step
  <2> QED BY <1>s, <1>k, <2>1 DEF StepInv, ImportPc
<1>7. CASE NextRow /\ (RemoveSource \/ ImportFails \/ Settle)
  <2>1. \A i \in Job \ {step.job} : row'[i] = row[i]
    BY <1>7 DEF RemoveSource, ImportFails, Settle, SetStatus, TypeOK
  <2> QED BY <1>7, <1>n, <1>s, <1>k, <2>1 DEF StepInv
<1>8. ASSUME NEW j \in Job, RecoverVerified(j) \/ AssessStable(j) PROVE FALSE
  BY <1>8, <1>s DEF RecoverVerified, AssessStable, ImportPc, Step
<1> QED BY <1>1, <1>2, <1>3, <1>4, <1>5, <1>6, <1>7, <1>8
     DEF Startup, Pass, RemoveSource, ImportFails, Settle

\* An import begins, for a row of the list that is waiting or was interrupted.
LEMMA BeginImportStep ==
  ASSUME ImportInv, [Next]_vars, NEW j \in Job, RecoverVerified(j) \/ AssessStable(j)
  PROVE  StepInv'
<1> USE DEF ImportInv
<1>s. step \in Step /\ step.todo \subseteq Job /\ row[j] \in Row
  BY DEF TypeOK, Step
<1>k. \A k \in step.todo : k \in Job /\ row'[k].status # "none"
  BY <1>s, KeptRows DEF StepInv
<1>1. CASE RecoverVerified(j)
  <2>1. /\ step'.pc = "record" /\ step'.job = j /\ step'.todo = step.todo
        /\ UNCHANGED <<row, media>> /\ j \in step.todo /\ Verified(j) /\ step.pc = "recover"
    BY <1>1, <1>s DEF RecoverVerified, At, Step
  <2>2. \A k \in step.todo : row[k].status = "importing"
    BY <1>s, <2>1, NoJobInRows DEF StepInv, ImportPc
  <2>3. Original(j) \in Content /\ row[j].dir # 0 /\ Original(j)' = Original(j)
    BY <2>1, OriginalType, Files DEF Verified, Original
  <2> QED BY <1>k, <1>s, <2>1, <2>2, <2>3 DEF StepInv, ImportPc, HasDirectory, HasOriginal
<1>2. CASE AssessStable(j)
  <2>1. /\ step'.pc = "plan" /\ step'.job = j /\ step'.todo = step.todo
        /\ step'.recovering = step.recovering /\ ~step.recovering
        /\ UNCHANGED media /\ row' = [row EXCEPT ![j].status = "importing"] /\ row[j].status # "none"
    BY <1>2, <1>s DEF AssessStable, SetStatus, At, Step, StepInv
  <2>2. row[j].status = "waiting"
    <3>1. row[j].status \in JobStatus /\ "importing" \in AllowedTransitions[row[j].status]
      BY <1>2, <1>s DEF AssessStable, SetStatus, Row
    <3> QED BY <3>1, Transitions
  <2>3. row'[j].status = "importing" /\ Len(media'[j]) <= row'[j].retries
    BY <1>s, <2>1, <2>2 DEF RowsInv, RowInv, TypeOK, Row
  <2> QED BY <1>k, <2>1, <2>3 DEF StepInv, ImportPc, HasDirectory, HasOriginal
<1> QED BY <1>1, <1>2

\* The import goes on: what each place requires is what the step before it has done.
LEMMA GoOnStep ==
  ASSUME ImportInv, [Next]_vars, Import, step'.pc \in ImportPc
  PROVE  StepInv'
<1> USE DEF ImportInv
<1> DEFINE job == step.job
<1>s. step \in Step /\ step.pc \in ImportPc /\ ImportPc \cap {"recover", "detect", "advance"} = {}
      /\ step.todo \subseteq Job
  BY DEF TypeOK, Step, Import, PlanImport, Move, MoveFails, Digest, Copy, PublishCopy, Unlink, ImportFails,
         RecordArchive, RecordHash, LookupDuplicate, Settle, At, ImportPc
<1>j. job \in Job /\ row[job] \in Row /\ media[job] \in Seq(File)
  BY <1>s DEF StepInv, TypeOK
<1>k. \A k \in step.todo : k \in Job /\ row'[k].status # "none"
  BY <1>s, KeptRows DEF StepInv
<1>n. ~NextRow
  BY <1>s DEF NextRow, Step
<1>o. \A k \in Job \ {job} : row'[k] = row[k]
  BY DEF Import, PlanImport, Move, MoveFails, Digest, Copy, PublishCopy, Unlink, ImportFails, SetStatus,
         RecordArchive, RecordHash, LookupDuplicate, Settle, TypeOK
<1>p. step'.job = job /\ step'.todo = step.todo /\ step'.recovering = step.recovering
  BY <1>n, <1>s DEF Import, PlanImport, Move, MoveFails, Digest, Copy, PublishCopy, Unlink, ImportFails,
         RecordArchive, RecordHash, LookupDuplicate, Settle, Goto, Step
<1> DEFINE HereInv ==
      /\ row[job].status # "none"
      /\ step.pc \in ImportPc \ {"remove"} => row[job].status = "importing"
      /\ step.pc = "plan" => Len(media[job]) <= row[job].retries
      /\ step.pc \in HasDirectory => row[job].dir # 0 /\ Original(job) = NoFile
      /\ step.pc \in HasOriginal => row[job].dir # 0 /\ Original(job) \in Content
      /\ step.pc = "publish" => step.copied \in Content
      /\ step.pc \in {"lookup", "settle", "remove"} => row[job].sha = Original(job)
      /\ step.pc \in {"move", "unlink"} => row[job].origin = "inbox"
      /\ step.pc = "settle" /\ step.dup => CompletedHash(row[job].sha)
<1>i. HereInv
  BY <1>s DEF StepInv
<1>h. ASSUME HereInv' PROVE StepInv'
  <2>1. step'.recovering => \A k \in step'.todo \ {step'.job} : row'[k].status = "importing"
    BY <1>o, <1>k, <1>p DEF StepInv
  <2>2. /\ \A k \in step'.todo : row'[k].status # "none"
        /\ step'.job \in Job /\ step'.pc \notin {"recover", "detect", "advance"}
    BY <1>j, <1>k, <1>p, <1>s
  <2> QED BY <1>h, <2>1, <2>2 DEF StepInv
<1>d. row[job].dir # 0 => row[job].dir \in 1..Len(media[job]) /\ Original(job) = media[job][row[job].dir]
  BY <1>j, OriginalType
<1>1. CASE PlanImport
  <2>1. /\ row' = [row EXCEPT ![job].dir = Len(media[job]) + 1,
                              ![job].size = source[row[job].source].length]
        /\ media' = [media EXCEPT ![job] = Append(@, NoFile)]
        /\ step' = [step EXCEPT !.pc = IF row[job].origin = "inbox" THEN "move" ELSE "digest"]
        /\ step.pc = "plan"
    BY <1>1 DEF PlanImport, Goto, At
  <2>2. /\ step'.pc \in {"move", "digest"} /\ (step'.pc = "move" => row[job].origin = "inbox")
    BY <2>1, <1>s DEF Step
  <2>3. /\ row'[job].dir = Len(media[job]) + 1 /\ row'[job].status = row[job].status
        /\ row'[job].origin = row[job].origin
        /\ media'[job] = Append(media[job], NoFile)
    BY <2>1, <1>j DEF TypeOK, Row
  <2>4. row'[job].dir # 0 /\ media'[job][row'[job].dir] = NoFile
    BY <1>j, <2>3, Files, LenProperties, AppendProperties
  <2>5. Original(job)' = NoFile
    BY <1>p, <2>4 DEF Original
  <2> QED BY <1>h, <1>i, <1>p, <2>1, <2>2, <2>3, <2>4, <2>5 DEF ImportPc, HasDirectory, HasOriginal
<1>2. ASSUME NEW f \in Content, Publish(f), UNCHANGED row, step.pc \in HasDirectory,
             step'.pc \in {"unlink", "record"}, step'.pc = "unlink" => row[job].origin = "inbox"
      PROVE  StepInv'
  <2>1. row[job].dir \in 1..Len(media[job]) /\ row[job].dir # 0
    BY <1>2, <1>i, <1>d
  <2>2. media'[job] = [media[job] EXCEPT ![row[job].dir] = f]
    BY <1>2, <1>j DEF Publish, TypeOK
  <2>3. media'[job][row[job].dir] = f
    BY <1>j, <1>2, <2>1, <2>2, Files, ExceptSeq
  <2>4. Original(job)' = f
    BY <1>2, <1>p, <2>1, <2>3 DEF Original
  <2>5. row[job].status = "importing"
    BY <1>2, <1>i DEF HasDirectory, ImportPc
  <2> QED BY <1>h, <1>2, <1>p, <2>1, <2>4, <2>5 DEF ImportPc, HasDirectory, HasOriginal
<1>3. CASE Move
  <2>1. source[row[job].source] \in Content
    BY <1>3, <1>s, Files DEF Move, StepInv, RowsInv, RowInv, TypeOK
  <2>2. step'.pc = "record" /\ step.pc = "move"
    BY <1>3, <1>s DEF Move, Goto, At, Step
  <2> QED BY <1>2, <1>3, <2>1, <2>2 DEF Move, HasDirectory
<1>4. CASE PublishCopy
  <2>1. step.copied \in Content /\ step.pc = "publish"
    BY <1>4 DEF PublishCopy, At, StepInv
  <2>2. step'.pc = IF row[job].origin = "inbox" THEN "unlink" ELSE "record"
    BY <1>4, <1>s DEF PublishCopy, Goto, Step
  <2> QED BY <1>2, <1>4, <2>1, <2>2 DEF PublishCopy, HasDirectory
<1>5. CASE MoveFails \/ Digest
  <2>1. UNCHANGED <<row, media>> /\ step.pc \in {"move", "digest"} /\ step'.pc \in {"digest", "copy"}
    BY <1>5, <1>s DEF MoveFails, Digest, Goto, At, Step
  <2>2. Original(job)' = Original(job)
    BY <2>1, <1>p DEF Original
  <2> QED BY <1>h, <1>i, <1>p, <2>1, <2>2 DEF ImportPc, HasDirectory, HasOriginal
<1>6. CASE Copy
  <2>1. /\ UNCHANGED <<row, media>> /\ step.pc = "copy" /\ step'.pc = "publish"
        /\ step'.copied = source[row[job].source] /\ step'.copied # NoFile
    BY <1>6, <1>s DEF Copy, At, Step
  <2>2. Original(job)' = Original(job)
    BY <2>1, <1>p DEF Original
  <2>3. step'.copied \in Content
    BY <1>s, <2>1, Files DEF StepInv, RowsInv, RowInv, TypeOK
  <2> QED BY <1>h, <1>i, <1>p, <2>1, <2>2, <2>3 DEF ImportPc, HasDirectory, HasOriginal
<1>7. CASE Unlink
  <2>1. UNCHANGED <<row, media>> /\ step.pc = "unlink" /\ step'.pc = "record"
    BY <1>7, <1>s DEF Unlink, Goto, At, Step
  <2>2. Original(job)' = Original(job)
    BY <2>1, <1>p DEF Original
  <2> QED BY <1>h, <1>i, <1>p, <2>1, <2>2 DEF ImportPc, HasDirectory, HasOriginal
<1>8. CASE RecordArchive \/ RecordHash
  <2>1. /\ UNCHANGED media /\ step.pc \in {"record", "hash"}
        /\ row'[job].status = row[job].status /\ row'[job].dir = row[job].dir
        /\ row'[job].origin = row[job].origin
    BY <1>8, <1>j DEF RecordArchive, RecordHash, At, TypeOK, Row
  <2>2. Original(job)' = Original(job)
    BY <2>1, <1>p DEF Original
  <2>3. step'.pc = "hash" \/ (step'.pc = "lookup" /\ row'[job].sha = Original(job))
    <3>1. CASE RecordArchive
      BY <3>1, <1>s DEF RecordArchive, Goto, Step
    <3>2. CASE RecordHash
      BY <3>2, <1>j, <1>s DEF RecordHash, TypeOK, Step, Row
    <3> QED BY <1>8, <3>1, <3>2
  <2> QED BY <1>h, <1>i, <1>p, <2>1, <2>2, <2>3 DEF ImportPc, HasDirectory, HasOriginal
<1>9. CASE LookupDuplicate
  <2>1. /\ UNCHANGED <<row, media>> /\ step.pc = "lookup" /\ step'.pc = "settle"
        /\ step'.dup = CompletedHash(row[job].sha)
    BY <1>9, <1>s DEF LookupDuplicate, At, Step
  <2>2. Original(job)' = Original(job) /\ CompletedHash(row[job].sha)' = CompletedHash(row[job].sha)
    BY <2>1, <1>p DEF Original, CompletedHash, With
  <2> QED BY <1>h, <1>i, <1>p, <2>1, <2>2 DEF ImportPc, HasDirectory, HasOriginal
<1>10. CASE Settle
  <2>1. /\ UNCHANGED media /\ step.pc = "settle" /\ step'.pc = "remove"
    BY <1>10, <1>s, <1>n DEF Settle, Goto, At, Step
  <2>2. PICK t \in {"queued", "duplicate"} : row' = [row EXCEPT ![job].status = t]
    BY <1>10 DEF Settle, SetStatus
  <2>3. /\ row'[job].status # "none" /\ row'[job].dir = row[job].dir /\ row'[job].sha = row[job].sha
    BY <1>j, <2>2 DEF TypeOK, Row
  <2>4. Original(job)' = Original(job)
    BY <2>1, <2>3, <1>p DEF Original
  <2> QED BY <1>h, <1>i, <1>p, <2>1, <2>3, <2>4 DEF ImportPc, HasDirectory, HasOriginal
<1> QED BY <1>1, <1>3, <1>4, <1>5, <1>6, <1>7, <1>8, <1>9, <1>10, <1>n DEF Import, ImportFails

\* Only these steps begin an import.
LEMMA ImportBegins ==
  ASSUME step \in Step, Startup \/ Pass \/ GuiExit \/ PassFails
  PROVE  step'.pc \notin ImportPc \/ \E j \in Job : RecoverVerified(j) \/ AssessStable(j)
<1>1. {"down", "recover", "idle", "detect", "advance"} \cap ImportPc = {}
  BY DEF ImportPc
<1>2. StartGui \/ Recovered \/ BeginPass \/ PassEnds \/ GuiExit \/ PassFails => step'.pc \notin ImportPc
  <2>1. StartGui => step'.pc = "recover"
    BY DEF StartGui, NoStep
  <2>2. BeginPass => step'.pc = "detect"
    BY DEF BeginPass, NoStep
  <2>3. Recovered \/ PassEnds \/ PassFails \/ GuiExit => step'.pc \in {"idle", "down"}
    BY DEF Recovered, PassEnds, GuiExit, PassFails, NoStep
  <2> QED BY <1>1, <2>1, <2>2, <2>3
<1>3. RemoveSource \/ ListWaiting => step'.pc \notin ImportPc
  BY <1>1 DEF RemoveSource, NextRow, ListWaiting, Step
<1>4. ASSUME NEW j \in Job, RecoverInterrupted(j) PROVE step'.pc \notin ImportPc
  BY <1>1, <1>4 DEF RecoverInterrupted, At, Step
<1>5. ASSUME NEW j \in Job, \/ SkipDisabled(j) \/ AssessMissing(j) \/ AssessIneligible(j)
                            \/ AssessChanged(j) \/ AssessWaiting(j)
      PROVE  step'.pc \notin ImportPc
  <2>1. Assessing(j)
    BY <1>5 DEF SkipDisabled, AssessMissing, AssessIneligible, AssessChanged, AssessWaiting
  <2> QED BY <1>1, <2>1 DEF Assessing, At, Step
<1>6. ASSUME NEW s \in Inbox, DetectInPass(s) PROVE step'.pc \notin ImportPc
  BY <1>1, <1>6 DEF DetectInPass, At, Step
<1> QED BY <1>2, <1>3, <1>4, <1>5, <1>6 DEF Startup, Pass

\* The importer's place is true of its row after every step.
LEMMA StepInvStep ==
  ASSUME ImportInv, [Next]_vars
  PROVE  StepInv'
<1>1. CASE World \/ User \/ (\E j \in Job : Claim(j) \/ FinishJob(j)) \/ UNCHANGED vars
  <2>1. UNCHANGED step
    BY <1>1 DEF World, NewFile, Write, Close, UserDeletes, User, ToggleAutomatic, MarkAgain,
                EnqueueManual, ObserveInbox, Retry, Claim, FinishJob, vars
  <2> QED BY <2>1, OthersStep
<1>2. CASE step'.pc \in ImportPc /\ Import
  BY <1>2, GoOnStep
<1>3. CASE \E j \in Job : RecoverVerified(j) \/ AssessStable(j)
  BY <1>3, BeginImportStep
<1>4. CASE step'.pc \notin ImportPc
           /\ (Startup \/ Pass \/ ImportFails \/ GuiExit \/ PassFails \/ (Settle /\ ~step.recovering))
  BY <1>4, IdleStep
<1>5. step \in Step
  BY DEF ImportInv, TypeOK
<1>6. Import /\ step'.pc \notin ImportPc => ImportFails \/ (Settle /\ ~step.recovering)
  BY <1>5 DEF Import, PlanImport, Move, MoveFails, Digest, Copy, PublishCopy, Unlink, RecordArchive,
              RecordHash, LookupDuplicate, Settle, Goto, Step, ImportPc
<1> QED BY <1>1, <1>2, <1>3, <1>4, <1>5, <1>6, ImportBegins DEF Next

\* Before the first start nothing has been detected.
LEMMA InitInv == Init => ImportInv
<1> SUFFICES ASSUME Init PROVE ImportInv
  OBVIOUS
<1>1. /\ step = NoStep("down") /\ "down" \in Pc /\ "down" \notin ImportPc
      /\ step.pc = "down" /\ step.todo = {} /\ step.job = NoJob
  BY DEF Init, NoStep, Pc, ImportPc
<1>2. \A j \in Job : /\ media[j] = <<>> /\ <<>> \in Seq(File) /\ Len(media[j]) = 0
                     /\ row[j] = NoRow /\ row[j].dir = 0 /\ row[j].status = "none" /\ row[j].sha = NoFile
                     /\ row[j].retries = 0
  BY EmptySeq DEF Init, NoRow
<1>3. TypeOK
  <2>1. row \in [Job -> Row] /\ media \in [Job -> Seq(File)] /\ source \in [Source -> File]
    BY <1>2, NoRowType, Files DEF Init
  <2>2. step \in Step /\ automatic \in BOOLEAN /\ marking \in Job \cup {NoJob} /\ writing \subseteq Source
    BY <1>1, NoStepType DEF Init
  <2>3. count \in [files : 0..MaxFiles, exits : 0..MaxExits, faults : 0..MaxFaults]
    BY LimitsAssumption DEF Init
  <2> QED BY <1>2, <2>1, <2>2, <2>3 DEF TypeOK
<1>4. RowsInv
  BY <1>2 DEF RowsInv, RowInv
<1>5. StepInv
  BY <1>1 DEF StepInv, HasDirectory, HasOriginal, ImportPc
<1>6. WritingInv
  BY DEF Init, WritingInv
<1> QED BY <1>3, <1>4, <1>5, <1>6 DEF ImportInv

\* The invariant is inductive.
LEMMA NextInv == ImportInv /\ [Next]_vars => ImportInv'
BY TypeOKStep, RowsInvStep, StepInvStep DEF ImportInv

\* The importer always knows where it is: its row and the archive are what its place says.
THEOREM ImportInvHolds == Spec => []ImportInv
<1>1. Init => ImportInv
  BY InitInv
<1>2. ImportInv /\ [Next]_vars => ImportInv'
  BY NextInv
<1> QED BY <1>1, <1>2, PTL DEF Spec

\* Rows, archive directories and the importer keep their types, and no row names a
\* directory that has not been created.
THEOREM ArchiveTypes == Spec => []TypeOK
<1>1. ImportInv => TypeOK
  BY DEF ImportInv
<1> QED BY <1>1, ImportInvHolds, PTL

------------------------------------------------------------------------------
(* Queued rows and duplicates. *)

\* Only Settle and Retry lead to the queue, and both have seen the original.
LEMMA QueuedStep ==
  ASSUME ImportInv, [Next]_vars, QueuedHasOriginal
  PROVE  QueuedHasOriginal'
<1> DEFINE S == {"queued", "processing", "completed", "duplicate"}
           Has(j) == row[j].status \in S =>
                       /\ Original(j) # NoFile
                       /\ row[j].sha = Original(j) \/ (row[j].sha = NoFile /\ row[j].retries > 0)
<1> USE DEF ImportInv
<1>1. (\A j \in Job : Has(j)') => QueuedHasOriginal'
  BY DEF QueuedHasOriginal, With
<1> SUFFICES ASSUME NEW k \in Job PROVE Has(k)'
  BY <1>1
<1>2. Has(k)
  BY DEF QueuedHasOriginal, With
<1>3. row[k] \in Row /\ row[k].retries \in Nat
  BY Lengths DEF TypeOK, Row
<1>4. row'[k].dir = row[k].dir /\ media'[k] = media[k] => Original(k)' = Original(k)
  BY DEF Original
<1>5. CASE Same(k) \/ Noted(k)
  <2>1. /\ row'[k].dir = row[k].dir /\ media'[k] = media[k] /\ row'[k].status = row[k].status
        /\ row'[k].retries = row[k].retries /\ row'[k].sha = row[k].sha
    BY <1>3, <1>5 DEF Same, Noted, Row
  <2> QED BY <1>2, <1>4, <2>1
<1>6. CASE Moved(k)
  <2>1. PICK t \in AllowedTransitions[row[k].status] \ {"queued", "duplicate"} :
          row'[k] = [row[k] EXCEPT !.status = t]
    BY <1>6 DEF Moved
  <2>2. t \in S => row[k].status \in S
    <3>1. row[k].status \in JobStatus
      BY <1>3, <1>6 DEF Row, Moved
    <3> QED BY <2>1, <3>1, Transitions
  <2>3. /\ row'[k].dir = row[k].dir /\ media'[k] = media[k] /\ row'[k].status = t
        /\ row'[k].retries = row[k].retries /\ row'[k].sha = row[k].sha
    BY <1>3, <1>6, <2>1 DEF Moved, Row
  <2> QED BY <1>2, <1>4, <2>2, <2>3
<1>7. CASE Settled(k)
  <2>1. /\ row'[k].dir = row[k].dir /\ media'[k] = media[k] /\ row'[k].sha = row[k].sha
    BY <1>3, <1>7 DEF Settled, Row
  <2>2. Original(k) \in Content /\ row[k].sha = Original(k)
    BY <1>7 DEF Settled, StepInv, HasOriginal
  <2> QED BY <1>4, <2>1, <2>2, Files
<1>8. CASE Detected(k)
  <2>1. row'[k].status = "waiting"
    BY <1>8 DEF Detected, NoRow
  <2> QED BY <2>1
<1>9. CASE Retried(k)
  <2>1. /\ row'[k].dir = row[k].dir /\ media'[k] = media[k] /\ row'[k].sha = row[k].sha
        /\ row'[k].status \notin S \/ Verified(k)
        /\ row'[k].retries = row[k].retries + 1
    BY <1>3, <1>9 DEF Retried, Row
  <2>2. row'[k].retries > 0
    BY <1>3, <2>1
  <2>3. Verified(k) => Original(k) # NoFile /\ (row[k].sha = NoFile \/ row[k].sha = Original(k))
    BY DEF Verified
  <2> QED BY <1>4, <2>1, <2>2, <2>3
<1>10. CASE Planned(k) \/ Published(k) \/ Recorded(k)
  <2>1. row[k].status = "importing"
    BY <1>10 DEF Planned, Published, Recorded, StepInv, ImportPc
  <2>2. row'[k].status = "importing"
    <3>1. CASE Planned(k)
      BY <1>3, <2>1, <3>1 DEF Planned, Row
    <3>2. CASE Published(k) \/ Recorded(k)
      BY <1>3, <2>1, <3>2 DEF Published, Recorded, Row
    <3> QED BY <1>10, <3>1, <3>2
  <2> QED BY <2>2
<1> QED BY <1>5, <1>6, <1>7, <1>8, <1>9, <1>10, NextRowStep DEF RowStep

\* A job that may be transcribed, or counts as a duplicate, has its original and the hash
\* of it, through every failure, exit and retry.
THEOREM QueuedHasItsOriginal == Spec => []QueuedHasOriginal
<1>1. Init => QueuedHasOriginal
  BY DEF Init, NoRow, QueuedHasOriginal, With
<1>2. ImportInv /\ QueuedHasOriginal /\ [Next]_vars => QueuedHasOriginal'
  BY QueuedStep
<1> QED BY <1>1, <1>2, ImportInvHolds, PTL DEF Spec

\* Completed rows and duplicates stay what they are.
LEMMA DuplicateStep ==
  ASSUME ImportInv, [Next]_vars, QueuedHasOriginal, DuplicateOfCompleted
  PROVE  DuplicateOfCompleted'
<1> USE DEF ImportInv
<1> DEFINE Of(j, k) == row[k].status = "completed" /\ Original(k) = Original(j)
<1>1. \A k \in Job : row[k].status \in {"completed", "duplicate"} =>
        row'[k].status = row[k].status /\ Original(k)' = Original(k)
  <2>1. TAKE k \in Job
  <2>2. SUFFICES ASSUME row[k].status \in {"completed", "duplicate"}
                 PROVE  row'[k].status = row[k].status /\ row'[k].dir = row[k].dir /\ media'[k] = media[k]
    BY DEF Original
  <2>3. row[k] \in Row
    BY DEF TypeOK
  <2>4. CASE Same(k) \/ Noted(k)
    BY <2>3, <2>4 DEF Same, Noted, Row
  <2>5. ~Moved(k)
    BY <2>2, Transitions DEF Moved, JobStatus, ActiveStatus
  <2>6. ~Detected(k) /\ ~Retried(k)
    BY <2>2 DEF Detected, Retried, RetryableStatus
  <2>7. ~Settled(k) /\ ~Planned(k) /\ ~Published(k) /\ ~Recorded(k)
    BY <2>2 DEF Settled, Planned, Published, Recorded, StepInv, ImportPc
  <2> QED BY <2>4, <2>5, <2>6, <2>7, NextRowStep DEF RowStep
<1>2. ASSUME NEW j \in Job, row'[j].status = "duplicate"
      PROVE  \E k \in Job : row[k].status = "completed" /\ Original(k) = Original(j)'
  <2>1. row[j] \in Row
    BY DEF TypeOK
  <2>2. CASE row[j].status = "duplicate"
    BY <1>1, <2>2 DEF DuplicateOfCompleted, With
  <2>3. CASE Settled(j) /\ row[j].status # "duplicate"
    <3>1. /\ step.pc = "settle" /\ step.dup /\ j = step.job
          /\ row'[j].dir = row[j].dir /\ media'[j] = media[j]
      BY <1>2, <2>1, <2>3 DEF Settled, Row
    <3>2. /\ CompletedHash(row[j].sha) /\ row[j].sha = Original(j) /\ Original(j) \in Content
      BY <3>1 DEF StepInv, HasOriginal
    <3>3. PICK k \in Job : row[k].status = "completed" /\ row[k].sha = row[j].sha
      BY <3>2 DEF CompletedHash, With
    <3>4. row[k].sha = Original(k)
      BY <3>2, <3>3, Files DEF QueuedHasOriginal, With
    <3>5. Original(j)' = Original(j)
      BY <3>1 DEF Original
    <3> QED BY <3>2, <3>3, <3>4, <3>5
  <2>4. CASE row[j].status # "duplicate" /\ ~Settled(j)
    <3>1. CASE Same(j) \/ Noted(j)
      BY <1>2, <2>1, <2>4, <3>1 DEF Same, Noted, Row
    <3>2. CASE Moved(j)
      BY <1>2, <2>1, <3>2 DEF Moved, Row
    <3>3. CASE Detected(j)
      BY <1>2, <3>3 DEF Detected, NoRow
    <3>4. CASE Retried(j)
      BY <1>2, <2>1, <3>4 DEF Retried, Row
    <3>5. CASE Planned(j)
      BY <1>2, <2>1, <2>4, <3>5 DEF Planned, Row
    <3>6. CASE Published(j) \/ Recorded(j)
      BY <1>2, <2>1, <2>4, <3>6 DEF Published, Recorded, Row
    <3> QED BY <2>4, <3>1, <3>2, <3>3, <3>4, <3>5, <3>6, NextRowStep DEF RowStep
  <2> QED BY <2>2, <2>3, <2>4
<1>3. ASSUME NEW j \in Job, row'[j].status = "duplicate"
      PROVE  \E k \in Job : row'[k].status = "completed" /\ Original(k)' = Original(j)'
  <2>1. PICK k \in Job : row[k].status = "completed" /\ Original(k) = Original(j)'
    BY <1>2, <1>3
  <2> QED BY <1>1, <2>1
<1> QED BY <1>3 DEF DuplicateOfCompleted, With

\* A row that is set aside as a duplicate is one: a completed row has the same original.
THEOREM DuplicatesAreOfCompleted == Spec => []DuplicateOfCompleted
<1>1. Init => DuplicateOfCompleted
  BY DEF Init, NoRow, DuplicateOfCompleted, With
<1>2. ImportInv /\ QueuedHasOriginal /\ DuplicateOfCompleted /\ [Next]_vars => DuplicateOfCompleted'
  BY DuplicateStep
<1> QED BY <1>1, <1>2, ImportInvHolds, QueuedHasItsOriginal, PTL DEF Spec

------------------------------------------------------------------------------
(* A file that has passed the stability check and does not change any more. *)

\* The recorded size of a first original is its size.
SizeInv ==
  \A j \in Job : row[j].retries = 0 /\ row[j].sha = NoFile /\ Original(j) # NoFile
                   => row[j].size = Original(j).length

\* Until it is in the archive the source is the file that the import planned to take.
SourceInv ==
  LET here == row[step.job].source
      file == source[here]
  IN /\ step.pc \in HasDirectory \cup {"plan", "unlink"} => here \notin writing
     /\ step.pc \in HasDirectory \cup {"unlink"} /\ file # NoFile => file.length = row[step.job].size
     /\ step.pc \in {"copy", "publish"} => /\ step.digest \in Content
                                           /\ step.digest.length = row[step.job].size
                                           /\ file \in {NoFile, step.digest}
     /\ step.pc = "unlink" => file \in {NoFile, Original(step.job)}

\* What is published is the file whose size was recorded.
LEMMA SizeStep ==
  ASSUME ImportInv, [Next]_vars, SizeInv, SourceInv
  PROVE  SizeInv'
<1> USE DEF ImportInv
<1> DEFINE Sized(k) == row[k].retries = 0 /\ row[k].sha = NoFile /\ Original(k) # NoFile
                         => row[k].size = Original(k).length
<1> SUFFICES ASSUME NEW k \in Job PROVE Sized(k)'
  BY DEF SizeInv
<1>1. Sized(k) /\ row[k] \in Row /\ row[k].retries \in Nat
  BY Lengths DEF SizeInv, TypeOK, Row
<1>2. row'[k].dir = row[k].dir /\ media'[k] = media[k] => Original(k)' = Original(k)
  BY DEF Original
<1>3. CASE Same(k) \/ Noted(k) \/ Moved(k) \/ Settled(k)
  <2>1. /\ row'[k].dir = row[k].dir /\ media'[k] = media[k]
        /\ row'[k].retries = row[k].retries /\ row'[k].sha = row[k].sha /\ row'[k].size = row[k].size
    <3>1. CASE Same(k) \/ Noted(k)
      BY <1>1, <3>1 DEF Same, Noted, Row
    <3>2. CASE Moved(k) \/ Settled(k)
      BY <1>1, <3>2 DEF Moved, Settled, Row
    <3> QED BY <1>3, <3>1, <3>2
  <2> QED BY <1>1, <1>2, <2>1
<1>4. CASE Detected(k)
  <2>1. Original(k)' = NoFile
    BY <1>4 DEF Detected, NoRow, Original
  <2> QED BY <2>1
<1>5. CASE Retried(k)
  <2>1. row'[k].retries = row[k].retries + 1
    BY <1>1, <1>5 DEF Retried, Row
  <2> QED BY <1>1, <2>1
<1>6. CASE Planned(k)
  <2>1. row'[k].dir = Len(media[k]) + 1 /\ media'[k] = Append(media[k], NoFile) /\ media[k] \in Seq(File)
    BY <1>1, <1>6 DEF Planned, Row, TypeOK
  <2>2. media'[k][row'[k].dir] = NoFile
    BY <2>1, Files, LenProperties, AppendProperties
  <2>3. Original(k)' = NoFile
    BY <2>2 DEF Original
  <2> QED BY <2>3
<1>7. CASE Published(k)
  <2>1. PICK f \in Content :
          /\ media'[k] = [media[k] EXCEPT ![row[k].dir] = f]
          /\ \/ step.pc = "move" /\ f = source[row[k].source]
             \/ step.pc = "publish" /\ f = step.copied /\ f = step.digest
    BY <1>7 DEF Published
  <2>2. row'[k] = row[k] /\ k = step.job /\ row[k].dir # 0 /\ media[k] \in Seq(File)
    BY <1>7, <2>1 DEF Published, StepInv, HasDirectory, TypeOK
  <2>3. f.length = row[k].size
    BY <2>1, <2>2, Files DEF SourceInv, HasDirectory
  <2>4. media'[k][row[k].dir] = f
    BY <2>1, <2>2, OriginalType, Files, ExceptSeq
  <2>5. Original(k)' = f
    BY <2>2, <2>4 DEF Original
  <2> QED BY <2>2, <2>3, <2>5
<1>8. CASE Recorded(k)
  <2>1. row'[k].dir = row[k].dir /\ media'[k] = media[k]
    BY <1>1, <1>8 DEF Recorded, Row
  <2>2. CASE step.pc = "record"
    <3>1. row'[k].size = Original(k).length
      BY <1>1, <1>8, <2>2 DEF Recorded, Row
    <3> QED BY <1>2, <2>1, <3>1
  <2>3. CASE step.pc = "hash"
    <3>1. row'[k].sha = Original(k) /\ Original(k) # NoFile
      BY <1>1, <1>8, <2>3, Files DEF Recorded, Row, StepInv, HasOriginal
    <3> QED BY <3>1
  <2> QED BY <1>8, <2>2, <2>3 DEF Recorded
<1> QED BY <1>3, <1>4, <1>5, <1>6, <1>7, <1>8, NextRowStep DEF RowStep

\* Nobody else touches the source of an import, but the user may delete it.
LEMMA SourceStays ==
  ASSUME ImportInv, [Next]_vars, step' = step, ~StableMayChange, step.pc \in ImportPc,
         row[step.job].source \notin writing
  PROVE  /\ row[step.job].source \notin writing'
         /\ source'[row[step.job].source] \in {NoFile, source[row[step.job].source]}
<1> USE DEF ImportInv
<1> DEFINE here == row[step.job].source
<1>1. here \in Source
  BY DEF StepInv, RowsInv, RowInv
<1>2. UNCHANGED files => here \notin writing' /\ source'[here] \in {NoFile, source[here]}
  BY DEF files
<1>3. CASE World
  <2>1. ASSUME NEW s \in Source, NewFile(s) PROVE s # here /\ writing' \subseteq writing \cup {s}
                                                  /\ \E c : source' = [source EXCEPT ![s] = c]
    BY <2>1 DEF NewFile, Importing
  <2>2. ASSUME NEW s \in Source, Write(s) PROVE s # here /\ writing' = writing
                                                /\ \E c : source' = [source EXCEPT ![s] = c]
    <3>1. source' = [source EXCEPT ![s] = [source[s] EXCEPT !.length = @ + 1]]
      BY <2>2 DEF Write, TypeOK
    <3> QED BY <2>2, <3>1 DEF Write
  <2>3. ASSUME NEW s \in Source, Close(s) PROVE here \notin writing' /\ source' = source
    BY <2>3 DEF Close
  <2>4. ASSUME NEW s \in Source, UserDeletes(s)
        PROVE  writing' = writing /\ source'[here] \in {NoFile, source[here]}
    BY <1>1, <2>4 DEF UserDeletes, TypeOK
  <2> QED BY <1>1, <1>3, <2>1, <2>2, <2>3, <2>4 DEF World, TypeOK
<1>4. CASE ~World
  <2>1. step \in Step
    BY DEF TypeOK
  <2>2. ~Move /\ ~Unlink /\ ~RemoveSource
    <3>1. NextRow => step'.pc \in {"recover", "advance"}
      BY <2>1 DEF NextRow, Step
    <3> QED BY <2>1, <3>1 DEF Move, Unlink, RemoveSource, At, Goto, Step, ImportPc
  <2> QED BY <1>2, <1>4, <2>2, FilesStep
<1> QED BY <1>3, <1>4

\* The importer's view of the source stays true.
LEMMA SourceStep ==
  ASSUME ImportInv, [Next]_vars, SizeInv, SourceInv, ~StableMayChange
  PROVE  SourceInv'
<1> USE DEF ImportInv
<1> DEFINE here == row[step.job].source
<1>s. step \in Step
  BY DEF TypeOK
<1>j. step.pc \in ImportPc => step.job \in Job /\ row[step.job] \in Row /\ here \in Source
  BY DEF StepInv, TypeOK, RowsInv, RowInv
<1>p. /\ HasDirectory \cup {"plan", "unlink"} = {"plan", "move", "digest", "copy", "publish", "unlink"}
      /\ HasDirectory \cup {"unlink"} = {"move", "digest", "copy", "publish", "unlink"}
      /\ {"plan", "move", "digest", "copy", "publish", "unlink"} \subseteq ImportPc
  BY DEF HasDirectory, ImportPc
<1>e. step'.pc \notin {"plan", "move", "digest", "copy", "publish", "unlink"} => SourceInv'
  BY DEF SourceInv, HasDirectory
<1>1. CASE step' = step /\ step.pc \in {"plan", "move", "digest", "copy", "publish", "unlink"}
  <2>1. step.pc \in ImportPc \ {"remove"}
    BY <1>1 DEF ImportPc
  <2>2. here \notin writing
    BY <1>1 DEF SourceInv, HasDirectory
  <2>3. here \notin writing' /\ source'[here] \in {NoFile, source[here]}
    BY <1>1, <2>1, <2>2, SourceStays
  <2>4. /\ row'[step.job].source = here /\ row'[step.job].size = row[step.job].size
        /\ row'[step.job].dir = row[step.job].dir /\ media'[step.job] = media[step.job]
    BY <1>1, <1>j, <2>1, KeptRows DEF Kept, StepInv
  <2>5. Original(step.job)' = Original(step.job)
    BY <1>1, <2>4 DEF Original
  <2>6. /\ step.pc \in {"move", "digest", "copy", "publish", "unlink"} /\ source'[here] # NoFile
             => source'[here].length = row'[step.job].size
        /\ step.pc \in {"copy", "publish"} => /\ step.digest \in Content
                                              /\ step.digest.length = row'[step.job].size
                                              /\ source'[here] \in {NoFile, step.digest}
        /\ step.pc = "unlink" => source'[here] \in {NoFile, Original(step.job)}
    BY <2>3, <2>4, <1>p DEF SourceInv
  <2> QED BY <1>1, <1>p, <2>3, <2>4, <2>5, <2>6 DEF SourceInv
<1>2. ASSUME NEW j \in Job, AssessStable(j) PROVE SourceInv'
  <2>1. /\ step'.pc = "plan" /\ step'.job = j /\ row[j].source \notin writing /\ UNCHANGED writing
        /\ row' = [row EXCEPT ![j].status = "importing"]
    BY <1>2, <1>s DEF AssessStable, SetStatus, Step, files
  <2>2. row'[j].source = row[j].source
    BY <2>1 DEF TypeOK, Row
  <2> QED BY <2>1, <2>2 DEF SourceInv, HasDirectory
<1>3. CASE PlanImport
  <2>1. /\ row' = [row EXCEPT ![step.job].dir = Len(media[step.job]) + 1,
                              ![step.job].size = source[here].length]
        /\ step.pc = "plan" /\ UNCHANGED <<source, writing>>
        /\ step' = [step EXCEPT !.pc = IF row[step.job].origin = "inbox" THEN "move" ELSE "digest"]
    BY <1>3 DEF PlanImport, Goto, At, files
  <2>2. step'.pc \in {"move", "digest"} /\ step'.job = step.job
    BY <2>1, <1>s DEF Step
  <2>3. row'[step.job].source = here /\ row'[step.job].size = source[here].length
    BY <2>1, <1>j DEF TypeOK, Row, ImportPc
  <2>4. here \notin writing
    BY <2>1 DEF SourceInv
  <2> QED BY <2>1, <2>2, <2>3, <2>4 DEF SourceInv
<1>4. CASE MoveFails \/ Digest \/ Copy
  <2>1. /\ UNCHANGED <<source, writing, row, media>> /\ step'.job = step.job
        /\ \/ step.pc = "move" /\ step'.pc = "digest"
           \/ step.pc = "digest" /\ step'.pc = "copy" /\ step'.digest = source[here] /\ source[here] # NoFile
           \/ step.pc = "copy" /\ step'.pc = "publish" /\ step'.digest = step.digest
    BY <1>4, <1>s DEF MoveFails, Digest, Copy, Goto, At, Step, files
  <2>2. source[here] # NoFile => source[here] \in Content
    BY <2>1, <1>j, Files DEF TypeOK, ImportPc
  <2> QED BY <2>1, <2>2, <1>p DEF SourceInv
<1>5. CASE PublishCopy
  <2>1. /\ UNCHANGED <<source, writing, row>> /\ step'.job = step.job /\ step.pc = "publish"
        /\ step.copied = step.digest /\ Publish(step.copied)
    BY <1>5, <1>s DEF PublishCopy, Goto, At, Step, files
  <2>2. step'.pc \in {"unlink", "record"}
    BY <1>5, <1>s DEF PublishCopy, Goto, Step
  <2>3. /\ step.job \in Job /\ media[step.job] \in Seq(File) /\ row[step.job].dir # 0
        /\ step.copied \in Content
    BY <2>1, <1>j DEF StepInv, HasDirectory, TypeOK, ImportPc
  <2>4. media'[step.job] = [media[step.job] EXCEPT ![row[step.job].dir] = step.copied]
    BY <2>1, <2>3 DEF Publish, TypeOK
  <2>5. media'[step.job][row[step.job].dir] = step.copied
    BY <2>3, <2>4, OriginalType, Files, ExceptSeq
  <2>6. Original(step.job)' = step.copied
    BY <2>1, <2>3, <2>5 DEF Original
  <2>7. /\ here \notin writing /\ source[here] \in {NoFile, step.digest}
        /\ step.digest.length = row[step.job].size
    BY <2>1 DEF SourceInv, HasDirectory
  <2> QED BY <2>1, <2>2, <2>6, <2>7 DEF SourceInv, HasDirectory
<1>6. \/ step' = step
      \/ (\E j \in Job : AssessStable(j)) \/ PlanImport \/ MoveFails \/ Digest \/ Copy \/ PublishCopy
      \/ step'.pc \notin {"plan", "move", "digest", "copy", "publish", "unlink"}
  <2>1. World \/ User \/ (\E j \in Job : Claim(j) \/ FinishJob(j)) \/ UNCHANGED vars => step' = step
    BY DEF World, NewFile, Write, Close, UserDeletes, User, ToggleAutomatic, MarkAgain,
           EnqueueManual, ObserveInbox, Retry, Claim, FinishJob, vars
  <2>2. \/ ~(Startup \/ Pass \/ GuiExit \/ PassFails) \/ (\E j \in Job : AssessStable(j))
        \/ step'.pc \notin ImportPc \/ step'.pc = "record"
    <3>1. ASSUME NEW j \in Job, RecoverVerified(j) PROVE step'.pc = "record"
      BY <1>s, <3>1 DEF RecoverVerified, Step
    <3> QED BY <1>s, <3>1, ImportBegins
  <2>3. NextRow => step'.pc \in {"recover", "advance"}
    BY <1>s DEF NextRow, Step
  <2>4. \/ ~Import \/ PlanImport \/ MoveFails \/ Digest \/ Copy \/ PublishCopy
        \/ step'.pc \in {"record", "hash", "lookup", "settle", "remove", "recover", "advance"}
    BY <1>s, <2>3 DEF Import, Move, Unlink, ImportFails, RecordArchive, RecordHash, LookupDuplicate, Settle,
                      Goto, Step
  <2> QED BY <2>1, <2>2, <2>4, <1>p DEF Next
<1> QED BY <1>e, <1>1, <1>2, <1>3, <1>4, <1>5, <1>6

\* If a stable file no longer changes, the recorded sizes and the importer's view of the
\* source are right.
THEOREM SteadyInv == ASSUME ~StableMayChange PROVE Spec => [](SizeInv /\ SourceInv)
<1>1. Init => SizeInv /\ SourceInv
  <2>1. ASSUME Init PROVE \A j \in Job : Original(j) = NoFile
    BY <2>1 DEF Init, NoRow, Original
  <2>2. ASSUME Init PROVE step.pc = "down"
    BY <2>2 DEF Init, NoStep
  <2> QED BY <2>1, <2>2 DEF SizeInv, SourceInv, HasDirectory
<1>2. ImportInv /\ SizeInv /\ SourceInv /\ [Next]_vars => (SizeInv /\ SourceInv)'
  BY SizeStep, SourceStep
<1> QED BY <1>1, <1>2, ImportInvHolds, PTL DEF Spec

\* If a stable file no longer changes, Retry can queue an Inbox recording that its first
\* import has brought to the archive, without its source.
THEOREM ArchivedIsRetryable == ASSUME ~StableMayChange PROVE Spec => []ArchivedInboxIsRetryable
<1>1. ImportInv /\ SizeInv => ArchivedInboxIsRetryable
  BY DEF ImportInv, RowsInv, RowInv, SizeInv, ArchivedInboxIsRetryable, Verified, With
<1> QED BY <1>1, SteadyInv, ImportInvHolds, PTL

\* If a stable file no longer changes, the app removes a source only from the Inbox, for
\* an Inbox row, and only if that very file is an original in an archive directory.
THEOREM RemovedIsArchived == ASSUME ~StableMayChange PROVE Spec => RemovedOnlyWhenArchived
<1> DEFINE here == row[step.job].source
           Removed == step' # step => \A s \in Source : source[s] # NoFile /\ source'[s] = NoFile =>
                        /\ s \in Inbox
                        /\ row[step.job].origin = "inbox"
                        /\ \E i \in DOMAIN media'[step.job] : media'[step.job][i] = source[s]
<1>1. ASSUME ImportInv, SourceInv, [Next]_vars PROVE [Removed]_vars
  <2> SUFFICES ASSUME step' # step, NEW s \in Source, source[s] # NoFile, source'[s] = NoFile
               PROVE  /\ s \in Inbox
                      /\ row[step.job].origin = "inbox"
                      /\ \E i \in DOMAIN media'[step.job] : media'[step.job][i] = source[s]
    OBVIOUS
  <2> USE <1>1 DEF ImportInv
  <2>1. Move \/ Unlink \/ RemoveSource
    <3>1. World => step' = step
      BY DEF World, NewFile, Write, Close, UserDeletes
    <3> QED BY <3>1, FilesStep DEF files
  <2>2. /\ step.pc \in {"move", "unlink", "remove"} /\ step.job \in Job
        /\ row[step.job].origin = "inbox" /\ here \in Inbox
    BY <2>1 DEF Move, Unlink, RemoveSource, At, StepInv, ImportPc, RowsInv, RowInv
  <2>3. s = here
    BY <2>1, <2>2 DEF Move, Unlink, RemoveSource, TypeOK
  <2>4. media[step.job] \in Seq(File) /\ row[step.job].dir # 0
        /\ row[step.job].dir \in 1..Len(media[step.job]) /\ Original(step.job) = media[step.job][row[step.job].dir]
    BY <2>2, OriginalType DEF TypeOK, StepInv, HasDirectory, HasOriginal
  <2>5. CASE Move
    <3>1. media'[step.job] = [media[step.job] EXCEPT ![row[step.job].dir] = source[here]]
          /\ source[here] \in File
      BY <2>2, <2>5 DEF Move, Publish, TypeOK, Source
    <3>2. media'[step.job][row[step.job].dir] = source[here] /\ row[step.job].dir \in DOMAIN media'[step.job]
      BY <2>4, <3>1, ExceptSeq
    <3> QED BY <2>2, <2>3, <3>2
  <2>6. CASE Unlink \/ RemoveSource
    <3>1. source[here] = Original(step.job) /\ UNCHANGED media
      BY <2>3, <2>6 DEF Unlink, RemoveSource, At, SourceInv, StepInv
    <3>2. row[step.job].dir \in DOMAIN media[step.job]
      BY <2>4, LenProperties
    <3> QED BY <2>2, <2>3, <2>4, <3>1, <3>2
  <2> QED BY <2>1, <2>5, <2>6
<1>2. ImportInv /\ SourceInv /\ [Next]_vars => [Removed]_vars
  BY <1>1
<1> QED BY <1>2, SteadyInv, ImportInvHolds, PTL DEF Spec, RemovedOnlyWhenArchived
==============================================================================
