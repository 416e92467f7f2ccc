------------------------- MODULE SpeakerLabelsProofs -------------------------
(***************************************************************************)
(* Proofs about SpeakerLabels: a recording whose speakers have names is    *)
(* not transcribed again, no export is ahead of transcript.json, what a    *)
(* completed recording holds is one whole transcript, diarized or with a   *)
(* warning, and every name in it was typed for that speaker or is of the  *)
(* one profile that matched clearly at the launch; for any recordings,     *)
(* voices, thresholds and bounds.                                          *)
(***************************************************************************)
EXTENDS SpeakerLabels, TLAPS, WellFoundedInduction

Statuses == {"queued", "processing", "failed", "completed", "warned"}
Done     == {"completed", "warned"}

\* The shapes of the variables, as far as the proofs need them.
IsWorker == worker = [pc |-> worker.pc, rec |-> worker.rec, made |-> worker.made,
                      next |-> worker.next, warned |-> worker.warned, launch |-> worker.launch]
IsDialog == dialog = [pc |-> dialog.pc, rec |-> dialog.rec, made |-> dialog.made,
                      next |-> dialog.next]

Shape ==
  /\ row \in [Recording -> Statuses]
  /\ typed \in [Recording -> [Label -> SUBSET Name]]
  /\ count = [runs |-> count.runs, renames |-> count.renames, references |-> count.references,
              faults |-> count.faults, v |-> count.v]
  /\ count.v \in [Recording -> Nat]
  /\ worker.pc # "idle" => IsWorker /\ worker.rec \in Recording
  /\ dialog.pc # "closed" => IsDialog /\ dialog.rec \in Recording

\* A worker has a processing row, the dialog a completed one.
OwnerInv ==
  /\ worker.pc # "idle" => row[worker.rec] = "processing"
  /\ dialog.pc # "closed" => row[dialog.rec] \in Done
  /\ NamesAreKept

LEMMA InitOwner == Init => Shape /\ OwnerInv
  BY DEF Init, Shape, OwnerInv, NamesAreKept, Statuses, NoWorker, Closed

\* The dialog changes a profile and loads its transcript again.
ProfileChanges == dialog.pc = "open" /\ \E n \in Name : \E profile : ChangeProfile(n, profile)

LEMMA ProfileActs ==
  /\ \A s \in Label, n \in Name : Remember(s, n) => ProfileChanges
  /\ \A n \in Name : RemoveProfile(n) => ProfileChanges
  BY Zenon DEF Remember, RemoveProfile, ProfileChanges

LEMMA ProfileEffect ==
  ASSUME Shape, ProfileChanges
  PROVE  /\ IsDialog' /\ dialog'.pc = "open" /\ dialog'.rec = dialog.rec
         /\ dialog'.next = dialog.next /\ dialog'.made \in Loads(dialog.rec)
         /\ count'.v = count.v
         /\ count' = [runs |-> count'.runs, renames |-> count'.renames,
                      references |-> count'.references, faults |-> count'.faults, v |-> count'.v]
         /\ UNCHANGED <<token, row, files, worker, typed, launched>>
  BY DEF ProfileChanges, ChangeProfile, Shape, IsDialog

LEMMA StepOwner == Shape /\ OwnerInv /\ [Next]_vars => Shape' /\ OwnerInv'
<1> SUFFICES ASSUME Shape, OwnerInv, [Next]_vars PROVE Shape' /\ OwnerInv'
  OBVIOUS
<1> USE DEF Shape, OwnerInv, NamesAreKept
<1>u. CASE UNCHANGED vars
  BY <1>u DEF vars, IsWorker, IsDialog
<1>f. Fault => count'.v = count.v
               /\ count' = [runs |-> count'.runs, renames |-> count'.renames,
                            references |-> count'.references, faults |-> count'.faults,
                            v |-> count'.v]
  BY DEF Fault
<1>1. ASSUME NEW r \in Recording, Launch(r) PROVE Shape' /\ OwnerInv'
  <2>1. /\ row[r] = "queued" /\ row' = [row EXCEPT ![r] = "processing"]
        /\ worker'.pc = "run" /\ worker'.rec = r /\ IsWorker'
    BY <1>1 DEF Launch, IsWorker
  <2>2. /\ count'.v = count.v
        /\ count' = [runs |-> count'.runs, renames |-> count'.renames,
                     references |-> count'.references, faults |-> count'.faults, v |-> count'.v]
    BY <1>1 DEF Launch
  <2> QED BY <1>1, <2>1, <2>2 DEF Launch, IsDialog, Statuses, Done
<1>2. CASE Transcribe
  <2>1. /\ worker'.pc = "write" /\ worker'.rec = worker.rec /\ IsWorker'
        /\ worker.pc # "idle"
    BY <1>2 DEF Transcribe, IsWorker
  <2>2. /\ count'.v = [count.v EXCEPT ![worker.rec] = @ + 1]
        /\ count' = [runs |-> count'.runs, renames |-> count'.renames,
                     references |-> count'.references, faults |-> count'.faults, v |-> count'.v]
    BY <1>2 DEF Transcribe
  <2>3. count'.v \in [Recording -> Nat]
    BY <2>1, <2>2
  <2> QED BY <1>2, <2>1, <2>2, <2>3 DEF Transcribe, IsDialog
<1>3. CASE Export \/ Manifest
  <2>1. /\ worker'.pc # "idle" /\ worker'.rec = worker.rec /\ IsWorker' /\ worker.pc # "idle"
        /\ UNCHANGED <<row, dialog, typed, count>>
    BY <1>3 DEF Export, Manifest, IsWorker
  <2> QED BY <2>1 DEF IsDialog
<1>4. CASE WorkerFails
  <2>1. /\ worker'.pc # "idle" /\ worker'.rec = worker.rec /\ IsWorker' /\ worker.pc # "idle"
        /\ UNCHANGED <<row, dialog, typed>>
    BY <1>4 DEF WorkerFails, IsWorker
  <2> QED BY <1>4, <1>f, <2>1 DEF WorkerFails, IsDialog
<1>5. CASE RowEnds
  <2>1. /\ worker.pc \in Statuses /\ worker.pc # "idle"
        /\ row' = [row EXCEPT ![worker.rec] = worker.pc]
        /\ worker'.pc = "idle" /\ UNCHANGED <<dialog, typed, count>>
    BY <1>5 DEF RowEnds, Statuses, NoWorker
  <2> QED BY <2>1 DEF IsDialog, Statuses, Done
<1>6. ASSUME NEW r \in Recording, Retry(r) PROVE Shape' /\ OwnerInv'
  BY <1>6 DEF Retry, IsWorker, IsDialog, Statuses, Done
<1>7. ASSUME NEW r \in Recording, OpenSpeakers(r) PROVE Shape' /\ OwnerInv'
  <2>1. /\ row[r] \in Done /\ dialog'.pc = "open" /\ dialog'.rec = r /\ IsDialog'
        /\ UNCHANGED <<row, worker, typed>>
    BY <1>7 DEF OpenSpeakers, Done, IsDialog
  <2>2. /\ count'.v = count.v
        /\ count' = [runs |-> count'.runs, renames |-> count'.renames,
                     references |-> count'.references, faults |-> count'.faults, v |-> count'.v]
    BY <1>7 DEF OpenSpeakers
  <2> QED BY <2>1, <2>2 DEF IsWorker
<1>8. ASSUME NEW s \in Label, NEW n \in Name, Rename(s, n) PROVE Shape' /\ OwnerInv'
  <2>1. /\ dialog.pc = "open" /\ UNCHANGED <<row, worker>>
        /\ typed' = [typed EXCEPT ![dialog.rec][s] = @ \cup {n}]
        /\ count'.v = [count.v EXCEPT ![dialog.rec] = @ + 1]
        /\ count' = [runs |-> count'.runs, renames |-> count'.renames,
                     references |-> count'.references, faults |-> count'.faults, v |-> count'.v]
    BY <1>8 DEF Rename
  <2>2. dialog'.rec = dialog.rec /\ IsDialog'
    BY <1>8, <2>1 DEF Rename, IsDialog
  <2>3. typed' \in [Recording -> [Label -> SUBSET Name]]
        /\ \A r \in Recording, t \in Label : typed'[r][t] # {} => typed[r][t] # {} \/ r = dialog.rec
    BY <2>1
  <2>4. count'.v \in [Recording -> Nat]
    BY <2>1
  <2> QED BY <2>1, <2>2, <2>3, <2>4 DEF IsWorker, Done
<1>9. CASE RenameWrites
  <2>1. /\ dialog.pc = "write" /\ dialog'.rec = dialog.rec /\ IsDialog'
        /\ UNCHANGED <<row, worker, typed>>
    BY <1>9 DEF RenameWrites, IsDialog
  <2>2. /\ count'.v = count.v
        /\ count' = [runs |-> count'.runs, renames |-> count'.renames,
                     references |-> count'.references, faults |-> count'.faults, v |-> count'.v]
    BY <1>9 DEF RenameWrites
  <2> QED BY <2>1, <2>2 DEF IsWorker
<1>10. CASE RenameRaises
  <2>1. /\ dialog.pc = "write" /\ dialog'.rec = dialog.rec /\ IsDialog'
        /\ UNCHANGED <<row, worker, typed>>
    BY <1>10 DEF RenameRaises, IsDialog
  <2> QED BY <1>10, <1>f, <2>1 DEF RenameRaises, IsWorker
<1>11. CASE CloseSpeakers
  BY <1>11, <1>f DEF CloseSpeakers, Closed, IsWorker
<1>12. CASE ProfileChanges
  <2>1. dialog.pc = "open"
    BY <1>12 DEF ProfileChanges
  <2> QED BY <1>12, <2>1, ProfileEffect DEF IsWorker
<1>13. CASE SetToken
  BY <1>13 DEF SetToken, IsWorker, IsDialog
<1> HIDE DEF Shape, OwnerInv, NamesAreKept
<1> QED
  BY <1>u, <1>1, <1>2, <1>3, <1>4, <1>5, <1>6, <1>7, <1>8, <1>9, <1>10, <1>11, <1>12, <1>13,
     ProfileActs, Zenon DEF Next, WorkerSteps, DialogSteps, UserActs

\* A recording the user has named a speaker of is not transcribed again: the
\* dialog opens only for rows that Retry refuses (MainWindow.open_speakers,
\* JobRepository.retry).
THEOREM NamedRecordingIsFinal == Spec => []NamesAreKept
<1>1. OwnerInv => NamesAreKept
  BY DEF OwnerInv
<1> QED BY <1>1, InitOwner, StepOwner, PTL DEF Spec

------------------------------------------------------------------------------
(* The exports. *)

FilesShape ==
  /\ files = [r \in Recording |-> files[r]]
  /\ \A r \in Recording : files[r] = [f \in Format |-> files[r][f]]
  /\ \A r \in Recording, f \in Format : files[r][f].v \in Int

\* Whoever writes has the newest version, and transcript.json is written first.
Writes(p, r, made) ==
  /\ p \in 1..5 /\ made.v = count.v[r]
  /\ p > 1 => files[r]["json"].v = made.v

WorkerWrites == Writes(worker.next, worker.rec, worker.made)
DialogWrites == Writes(dialog.next, dialog.rec, dialog.made)

JsonInv ==
  /\ FilesShape
  /\ \A r \in Recording : Json(r).v >= 0 /\ Json(r).v <= count.v[r]
  /\ JsonIsNewest
  /\ worker.pc = "run" => worker.next = 1
  /\ worker.pc = "write" => WorkerWrites
  /\ dialog.pc = "write" => DialogWrites

LEMMA FormatOrder ==
  /\ Len(Formats) = 5
  /\ \A k \in 1..5 : Formats[k] \in Format /\ (Formats[k] = "json" <=> k = 1)
  BY DEF Formats, Format

\* One export of one recording is replaced.
Replaces(r, f, content) == files' = [files EXCEPT ![r][f] = content]

LEMMA OneFile ==
  ASSUME FilesShape, NEW r \in Recording, NEW f \in Format, NEW content, content.v \in Int,
         Replaces(r, f, content)
  PROVE  /\ FilesShape'
         /\ \A q \in Recording, g \in Format :
              files'[q][g] = IF q = r /\ g = f THEN content ELSE files[q][g]
<1>0. files' = [files EXCEPT ![r][f] = content]
  BY DEF Replaces
<1>1. \A q \in Recording : files'[q] = IF q = r THEN [files[r] EXCEPT ![f] = content] ELSE files[q]
  BY <1>0 DEF FilesShape
<1>2. \A q \in Recording, g \in Format :
        files'[q][g] = IF q = r /\ g = f THEN content ELSE files[q][g]
  BY <1>1 DEF FilesShape
<1>3. files' = [q \in Recording |-> files'[q]]
  BY <1>0 DEF FilesShape
<1>4. \A q \in Recording : files'[q] = [g \in Format |-> files'[q][g]]
  BY <1>1 DEF FilesShape
<1>5. \A q \in Recording, g \in Format : files'[q][g].v \in Int
  BY <1>2 DEF FilesShape
<1> QED BY <1>2, <1>3, <1>4, <1>5 DEF FilesShape

\* What a finished write of one export, and one that is cut short, do.
LEMMA WriteKeepsJson ==
  ASSUME Shape, JsonInv, NEW r \in Recording, NEW k \in 1..5, NEW made,
         Writes(k, r, made), Write(r, k, made)
  PROVE  /\ FilesShape' /\ JsonIsNewest'
         /\ \A q \in Recording : /\ Json(q)'.v >= 0 /\ Json(q)'.v <= count.v[q]
                                 /\ q # r => Json(q)' = Json(q)
         /\ Json(r)'.v = made.v
<1>1. Formats[k] \in Format /\ (Formats[k] = "json" <=> k = 1) /\ "json" \in Format
  BY FormatOrder DEF Format
<1>2. made.v \in Int /\ made.v >= 0 /\ made.v = count.v[r]
  BY DEF Writes, Shape
<1>3. /\ FilesShape'
      /\ \A q \in Recording, g \in Format :
           files'[q][g] = IF q = r /\ g = Formats[k] THEN made ELSE files[q][g]
  <2>1. Replaces(r, Formats[k], made) /\ FilesShape
    BY DEF Write, Replaces, JsonInv
  <2> QED BY <1>1, <1>2, <2>1, OneFile
<1>4. /\ \A q \in Recording \ {r} : Json(q)' = Json(q)
      /\ Json(r)'.v = made.v
  BY <1>1, <1>3 DEF Json, Writes
<1>5. \A q \in Recording, g \in Format :
        Json(q).v \in Int /\ files[q][g].v \in Int /\ files[q][g].v <= Json(q).v
        /\ Json(q).v <= count.v[q] /\ count.v[q] \in Int
  BY <1>1 DEF JsonInv, JsonIsNewest, FilesShape, Json, Shape
<1>6. JsonIsNewest'
  <2> SUFFICES ASSUME NEW q \in Recording, NEW g \in Format
               PROVE  files'[q][g].v <= Json(q)'.v
    BY DEF JsonIsNewest
  <2>1. CASE q = r /\ g = Formats[k]
    BY <1>2, <1>3, <1>4, <2>1
  <2>2. CASE q = r /\ g # Formats[k]
    BY <1>2, <1>3, <1>4, <1>5, <2>2
  <2>3. CASE q # r
    BY <1>3, <1>4, <1>5, <2>3
  <2> QED BY <2>1, <2>2, <2>3
<1>7. \A q \in Recording : Json(q)'.v >= 0 /\ Json(q)'.v <= count.v[q]
  BY <1>2, <1>4, <1>5 DEF JsonInv
<1> QED BY <1>3, <1>4, <1>6, <1>7

LEMMA CutKeepsJson ==
  ASSUME Shape, JsonInv, NEW r \in Recording, NEW k \in 1..5, CutShort(r, k)
  PROVE  /\ FilesShape' /\ JsonIsNewest'
         /\ \A q \in Recording : Json(q)' = Json(q)
<1>1. CASE files' = files
  BY <1>1 DEF JsonInv, FilesShape, JsonIsNewest, Json
<1>2. CASE Formats[k] # "json" /\ files' = [files EXCEPT ![r][Formats[k]] = Torn]
  <2>1. Formats[k] \in Format /\ "json" \in Format /\ Torn.v = -1
    BY FormatOrder DEF Format, Torn
  <2>2. /\ FilesShape'
        /\ \A q \in Recording, g \in Format :
             files'[q][g] = IF q = r /\ g = Formats[k] THEN Torn ELSE files[q][g]
    <3>1. FilesShape /\ Torn.v \in Int /\ Replaces(r, Formats[k], Torn)
      BY <1>2, <2>1 DEF JsonInv, Replaces
    <3> QED BY <2>1, <3>1, OneFile
  <2>3. \A q \in Recording : Json(q)' = Json(q)
    BY <1>2, <2>1, <2>2 DEF Json
  <2>4. JsonIsNewest'
    <3> SUFFICES ASSUME NEW q \in Recording, NEW g \in Format
                 PROVE  files'[q][g].v <= Json(q)'.v
      BY DEF JsonIsNewest
    <3>1. Json(q).v \in Int /\ Json(q).v >= 0 /\ files[q][g].v <= Json(q).v
      BY <2>1 DEF JsonInv, JsonIsNewest, FilesShape, Json
    <3> QED BY <2>1, <2>2, <2>3, <3>1
  <2> QED BY <2>2, <2>3, <2>4
<1> QED BY <1>1, <1>2 DEF CutShort

LEMMA InitJson == Init => JsonInv
  BY DEF Init, JsonInv, FilesShape, JsonIsNewest, Json, Missing, Format, NoWorker, Closed

LEMMA StepJson == Shape /\ OwnerInv /\ JsonInv /\ [Next]_vars => JsonInv'
<1> SUFFICES ASSUME Shape, OwnerInv, JsonInv, [Next]_vars PROVE JsonInv'
  OBVIOUS
<1>d. worker.pc # "idle" /\ dialog.pc # "closed" => worker.rec # dialog.rec
  BY DEF OwnerInv, Done
<1>n. count.v \in [Recording -> Nat]
  BY DEF Shape
<1>k. UNCHANGED files => FilesShape' /\ JsonIsNewest' /\ \A q \in Recording : Json(q)' = Json(q)
  BY DEF JsonInv, FilesShape, JsonIsNewest, Json
<1>j. \A q \in Recording : Json(q).v >= 0 /\ Json(q).v <= count.v[q] /\ Json(q).v \in Int
  BY DEF JsonInv, FilesShape, Json, Format
<1>w. worker.pc = "write" => WorkerWrites /\ worker.next \in 1..5
  BY DEF JsonInv, WorkerWrites, DialogWrites, Writes
<1>x. dialog.pc = "write" => DialogWrites /\ dialog.next \in 1..5
  BY DEF JsonInv, WorkerWrites, DialogWrites, Writes
<1>q. ASSUME UNCHANGED <<files, worker, dialog>>, count'.v = count.v PROVE JsonInv'
  BY <1>q, <1>k DEF JsonInv, WorkerWrites, DialogWrites, Writes
<1>u. CASE UNCHANGED vars
  BY <1>u, <1>q DEF vars
<1>1. ASSUME NEW r \in Recording, Launch(r) PROVE JsonInv'
  <2>1. /\ worker'.pc = "run" /\ worker'.next = 1 /\ count'.v = count.v
        /\ UNCHANGED <<files, dialog>>
    BY <1>1 DEF Launch, Shape
  <2> QED BY <1>k, <1>j, <1>x, <2>1 DEF JsonInv, WorkerWrites, DialogWrites, Writes
<1>2. CASE Transcribe
  <2>1. /\ worker.pc = "run" /\ worker.rec \in Recording /\ UNCHANGED <<files, dialog>>
        /\ worker'.pc = "write" /\ worker'.rec = worker.rec /\ worker'.next = 1
        /\ worker'.made.v = count.v[worker.rec] + 1
        /\ count'.v = [count.v EXCEPT ![worker.rec] = @ + 1]
    BY <1>2 DEF Transcribe, Shape, IsWorker, JsonInv
  <2>2. WorkerWrites'
    BY <1>n, <2>1 DEF WorkerWrites, DialogWrites, Writes
  <2>3. dialog'.pc = "write" => DialogWrites'
    <3> SUFFICES ASSUME dialog.pc = "write" PROVE DialogWrites'
      BY <2>1
    <3>1. dialog.rec \in Recording /\ dialog.rec # worker.rec
      BY <1>d, <2>1 DEF Shape
    <3>2. count'.v[dialog.rec] = count.v[dialog.rec] /\ Json(dialog.rec)' = Json(dialog.rec)
      BY <1>n, <1>k, <2>1, <3>1 DEF Json
    <3> QED BY <1>x, <2>1, <3>2 DEF WorkerWrites, DialogWrites, Writes
  <2>4. \A q \in Recording : Json(q)'.v >= 0 /\ Json(q)'.v <= count'.v[q]
    BY <1>k, <1>j, <1>n, <2>1
  <2> QED BY <1>k, <2>1, <2>2, <2>3, <2>4 DEF JsonInv
<1>3. CASE Export
  <2>1. /\ worker.pc = "write" /\ Write(worker.rec, worker.next, worker.made)
        /\ worker.rec \in Recording /\ worker'.rec = worker.rec /\ worker'.made = worker.made
        /\ UNCHANGED <<dialog, count>>
        /\ \/ worker'.pc = "manifest"
           \/ worker'.pc = "write" /\ worker'.next = worker.next + 1 /\ worker.next < 5
    BY <1>3, FormatOrder DEF Export, Shape, IsWorker
  <2>2. /\ FilesShape' /\ JsonIsNewest'
        /\ \A q \in Recording : /\ Json(q)'.v >= 0 /\ Json(q)'.v <= count.v[q]
                                /\ q # worker.rec => Json(q)' = Json(q)
        /\ Json(worker.rec)'.v = worker.made.v
    BY <1>w, <2>1, WriteKeepsJson DEF WorkerWrites
  <2>3. worker'.pc = "write" => WorkerWrites'
    BY <1>w, <2>1, <2>2 DEF WorkerWrites, DialogWrites, Writes, Json
  <2>4. dialog'.pc = "write" => DialogWrites'
    BY <1>x, <1>d, <2>1, <2>2 DEF DialogWrites, Writes, Shape, Json
  <2> QED BY <2>1, <2>2, <2>3, <2>4 DEF JsonInv
<1>4. CASE Manifest
  <2>1. worker'.pc \in {"completed", "warned"} /\ UNCHANGED <<files, dialog, count>>
    BY <1>4 DEF Manifest, Shape, IsWorker
  <2> QED BY <1>k, <1>x, <2>1 DEF JsonInv, WorkerWrites, DialogWrites, Writes
<1>5. CASE WorkerFails
  <2>1. /\ worker'.pc = "failed" /\ UNCHANGED dialog /\ count'.v = count.v
        /\ worker.pc = "write" => CutShort(worker.rec, worker.next) /\ worker.rec \in Recording
        /\ worker.pc # "write" => UNCHANGED files
    BY <1>5 DEF WorkerFails, Fault, Shape, IsWorker
  <2>2. FilesShape' /\ JsonIsNewest' /\ \A q \in Recording : Json(q)' = Json(q)
    BY <1>k, <1>w, <2>1, CutKeepsJson
  <2> QED BY <1>j, <1>x, <2>1, <2>2 DEF JsonInv, WorkerWrites, DialogWrites, Writes, Shape, Json
<1>6. CASE RowEnds
  <2>1. worker'.pc = "idle" /\ UNCHANGED <<files, dialog, count>>
    BY <1>6 DEF RowEnds, NoWorker
  <2> QED BY <1>k, <1>x, <2>1 DEF JsonInv, WorkerWrites, DialogWrites, Writes
<1>7. ASSUME NEW r \in Recording, Retry(r) PROVE JsonInv'
  BY <1>7, <1>q DEF Retry
<1>8. ASSUME NEW r \in Recording, OpenSpeakers(r) PROVE JsonInv'
  <2>1. dialog'.pc = "open" /\ count'.v = count.v /\ UNCHANGED <<files, worker>>
    BY <1>8 DEF OpenSpeakers, Shape
  <2> QED BY <1>k, <1>w, <2>1 DEF JsonInv, WorkerWrites, DialogWrites, Writes
<1>9. ASSUME NEW s \in Label, NEW n \in Name, Rename(s, n) PROVE JsonInv'
  <2>1. /\ dialog.pc = "open" /\ dialog.rec \in Recording /\ UNCHANGED <<files, worker>>
        /\ dialog'.pc = "write" /\ dialog'.rec = dialog.rec /\ dialog'.next = 1
        /\ count'.v = [count.v EXCEPT ![dialog.rec] = @ + 1]
    BY <1>9 DEF Rename, Shape, IsDialog
  <2>2. dialog'.made.v = count.v[dialog.rec] + 1
    BY <1>9, <2>1 DEF Rename, Shape, IsDialog
  <2>3. DialogWrites'
    BY <1>n, <2>1, <2>2 DEF WorkerWrites, DialogWrites, Writes
  <2>4. worker'.pc = "write" => WorkerWrites'
    <3> SUFFICES ASSUME worker.pc = "write" PROVE WorkerWrites'
      BY <2>1
    <3>1. worker.rec \in Recording /\ dialog.rec # worker.rec
      BY <1>d, <2>1 DEF Shape
    <3>2. count'.v[worker.rec] = count.v[worker.rec] /\ Json(worker.rec)' = Json(worker.rec)
      BY <1>n, <1>k, <2>1, <3>1 DEF Json
    <3> QED BY <1>w, <2>1, <3>2 DEF WorkerWrites, DialogWrites, Writes
  <2>5. \A q \in Recording : Json(q)'.v >= 0 /\ Json(q)'.v <= count'.v[q]
    BY <1>k, <1>j, <1>n, <2>1
  <2> QED BY <1>k, <2>1, <2>3, <2>4, <2>5 DEF JsonInv
<1>10. CASE RenameWrites
  <2>1. /\ dialog.pc = "write" /\ Write(dialog.rec, dialog.next, dialog.made)
        /\ dialog.rec \in Recording /\ dialog'.rec = dialog.rec
        /\ UNCHANGED worker /\ count'.v = count.v
        /\ \/ dialog'.pc = "open"
           \/ /\ dialog'.pc = "write" /\ dialog'.next = dialog.next + 1
              /\ dialog.next < 5 /\ dialog'.made = dialog.made
    BY <1>10, FormatOrder DEF RenameWrites, Shape, IsDialog
  <2>2. /\ FilesShape' /\ JsonIsNewest'
        /\ \A q \in Recording : /\ Json(q)'.v >= 0 /\ Json(q)'.v <= count.v[q]
                                /\ q # dialog.rec => Json(q)' = Json(q)
        /\ Json(dialog.rec)'.v = dialog.made.v
    BY <1>x, <2>1, WriteKeepsJson DEF DialogWrites
  <2>3. dialog'.pc = "write" => DialogWrites'
    BY <1>x, <2>1, <2>2 DEF WorkerWrites, DialogWrites, Writes, Json
  <2>4. worker'.pc = "write" => WorkerWrites'
    BY <1>w, <1>d, <2>1, <2>2 DEF WorkerWrites, Writes, Shape, Json
  <2> QED BY <2>1, <2>2, <2>3, <2>4 DEF JsonInv
<1>11. CASE RenameRaises \/ CloseSpeakers
  <2>1. /\ dialog'.pc # "write" /\ UNCHANGED worker /\ count'.v = count.v
        /\ UNCHANGED files \/ (dialog.pc = "write" /\ dialog.rec \in Recording
                               /\ CutShort(dialog.rec, dialog.next))
    <3>1. CASE RenameRaises
      BY <3>1 DEF RenameRaises, Fault, Shape, IsDialog
    <3>2. CASE CloseSpeakers
      BY <3>2 DEF CloseSpeakers, Closed, Fault, Shape, IsDialog
    <3> QED BY <1>11, <3>1, <3>2
  <2>2. FilesShape' /\ JsonIsNewest' /\ \A q \in Recording : Json(q)' = Json(q)
    BY <1>k, <1>x, <2>1, CutKeepsJson
  <2> QED BY <1>j, <1>w, <2>1, <2>2 DEF JsonInv, WorkerWrites, DialogWrites, Writes, Shape, Json
<1>12. CASE ProfileChanges
  <2>1. dialog'.pc = "open" /\ count'.v = count.v /\ UNCHANGED <<files, worker>>
    BY <1>12, ProfileEffect
  <2> QED BY <1>k, <1>w, <2>1 DEF JsonInv, WorkerWrites, DialogWrites, Writes
<1>13. CASE SetToken
  BY <1>13, <1>q DEF SetToken
<1> QED
  BY <1>u, <1>1, <1>2, <1>3, <1>4, <1>5, <1>6, <1>7, <1>8, <1>9, <1>10, <1>11, <1>12, <1>13,
     ProfileActs, Zenon DEF Next, WorkerSteps, DialogSteps, UserActs

\* No export is ahead of transcript.json, whatever writes fail or are cut short
\* (write_transcript_outputs, for the worker and for the dialog).
THEOREM ExportsFollowJson == Spec => []JsonIsNewest
<1>1. JsonInv => JsonIsNewest
  BY DEF JsonInv
<1> QED BY <1>1, InitOwner, InitJson, StepOwner, StepJson, PTL DEF Spec

------------------------------------------------------------------------------
(* What a completed recording holds. *)

\* The five exports are one transcript.
Agree(r) == Whole(Json(r)) /\ \A f \in Format : files[r][f] = Json(r)

Unnamed(r) == \A s \in Label : typed[r][s] = {}

\* What the worker has written so far, and what it knows of it.
WorkerResult ==
  /\ worker.pc \in {"write", "manifest"} => worker.made.v > 0
  /\ worker.pc = "write" =>
       \A k \in 1..5 : k < worker.next => files[worker.rec][Formats[k]] = worker.made
  /\ worker.pc = "manifest" => \A f \in Format : files[worker.rec][f] = worker.made
  /\ worker.pc \in {"completed", "warned"} => Agree(worker.rec)

\* The dialog writes transcripts of recordings that have names.
DialogResult == dialog.pc = "write" => ~Unnamed(dialog.rec)

RowsResult == \A r \in Recording : row[r] \in Done /\ Unnamed(r) => Agree(r)

ResultInv == WorkerResult /\ DialogResult /\ RowsResult

\* All exports have been written when the fifth has.
LEMMA AllFormats ==
  /\ \A f \in Format : \E k \in 1..5 : f = Formats[k]
  /\ \A j, k \in 1..5 : Formats[j] = Formats[k] => j = k
  /\ "json" \in Format /\ \A k \in 1..5 : Formats[k] \in Format
  BY DEF Formats, Format

\* The exports of a recording are left as they are.
SameFiles(r) == \A f \in Format : files'[r][f] = files[r][f]

\* What a write of one export changes, and one that is cut short.
LEMMA WriteEffect ==
  ASSUME FilesShape, NEW r \in Recording, NEW k \in 1..5, NEW made, made.v \in Int, Write(r, k, made)
  PROVE  \A q \in Recording, f \in Format :
           files'[q][f] = IF q = r /\ f = Formats[k] THEN made ELSE files[q][f]
<1>1. Formats[k] \in Format /\ Replaces(r, Formats[k], made)
  BY AllFormats DEF Write, Replaces
<1> QED BY <1>1, OneFile

LEMMA CutEffect ==
  ASSUME Shape, JsonInv, NEW r \in Recording, NEW k \in 1..5, CutShort(r, k)
  PROVE  /\ \A q \in Recording : files'[q]["json"] = files[q]["json"]
         /\ \A q \in Recording \ {r} : SameFiles(q)
<1>1. \A q \in Recording : files'[q]["json"] = files[q]["json"]
  BY CutKeepsJson DEF Json
<1>2. \A q \in Recording \ {r} : SameFiles(q)
  BY DEF CutShort, JsonInv, FilesShape, SameFiles
<1> QED BY <1>1, <1>2

\* A step of another leaves what the worker, the dialog and the rows rest on.
LEMMA OthersKeepWorker ==
  ASSUME WorkerResult, UNCHANGED worker, worker.pc # "idle" => SameFiles(worker.rec)
  PROVE  WorkerResult'
<1>1. worker.pc \in {"write", "manifest", "completed", "warned"} =>
        \A f \in Format : files'[worker.rec][f] = files[worker.rec][f]
  BY DEF SameFiles
<1>2. \A k \in 1..5 : Formats[k] \in Format
  BY AllFormats
<1>3. worker.pc \in {"completed", "warned"} =>
        files'[worker.rec]["json"] = files[worker.rec]["json"]
  BY <1>1, AllFormats
<1> QED BY <1>1, <1>2, <1>3 DEF WorkerResult, Agree, Json, Whole

LEMMA OthersKeepDialog ==
  ASSUME DialogResult, UNCHANGED <<dialog, typed>> \/ dialog'.pc # "write"
  PROVE  DialogResult'
  BY DEF DialogResult, Unnamed

LEMMA OthersKeepRows ==
  ASSUME RowsResult, UNCHANGED typed,
         \A r \in Recording : row'[r] \in Done => row'[r] = row[r] /\ SameFiles(r)
  PROVE  RowsResult'
<1>1. \A r \in Recording : row'[r] \in Done => files'[r]["json"] = files[r]["json"]
  BY AllFormats DEF SameFiles
<1> QED BY <1>1 DEF RowsResult, Agree, Json, Whole, Unnamed, SameFiles

LEMMA InitResult == Init => ResultInv
  BY DEF Init, ResultInv, WorkerResult, DialogResult, RowsResult,
         NoWorker, Closed, Done

LEMMA StepResult == Shape /\ OwnerInv /\ JsonInv /\ ResultInv /\ [Next]_vars => ResultInv'
<1> SUFFICES ASSUME Shape, OwnerInv, JsonInv, ResultInv, [Next]_vars PROVE ResultInv'
  OBVIOUS
<1>0. WorkerResult /\ DialogResult /\ RowsResult
  BY DEF ResultInv
<1>d. worker.pc # "idle" /\ dialog.pc # "closed" => worker.rec # dialog.rec
  BY DEF OwnerInv, Done
<1>k. UNCHANGED files => \A r \in Recording : SameFiles(r)
  BY DEF SameFiles
<1>w. /\ worker.pc # "idle" => worker.rec \in Recording /\ row[worker.rec] \notin Done
      /\ worker.pc = "write" => worker.next \in 1..5 /\ worker.made.v \in Int
  BY DEF Shape, OwnerInv, JsonInv, WorkerWrites, Writes, Done
<1>x. dialog.pc = "write" => dialog.rec \in Recording /\ dialog.next \in 1..5 /\ dialog.made.v \in Int
  BY DEF Shape, JsonInv, DialogWrites, Writes
<1>v. FilesShape
  BY DEF JsonInv
\* A step that writes nothing and completes no row.
<1>q. ASSUME UNCHANGED <<files, worker, typed>>, UNCHANGED dialog \/ dialog'.pc # "write",
             \A r \in Recording : row'[r] \in Done => row'[r] = row[r]
      PROVE  ResultInv'
  <2>1. WorkerResult'
    BY <1>0, <1>k, <1>w, <1>q, OthersKeepWorker
  <2>2. DialogResult'
    BY <1>0, <1>q, OthersKeepDialog
  <2>3. RowsResult'
    BY <1>0, <1>k, <1>q, OthersKeepRows
  <2> QED BY <2>1, <2>2, <2>3 DEF ResultInv
<1>u. CASE UNCHANGED vars
  BY <1>u, <1>q DEF vars
\* A step of the worker that leaves the rows and the dialog alone.
<1>p. ASSUME UNCHANGED <<row, dialog, typed>>, worker.pc # "idle",
             \A r \in Recording \ {worker.rec} : SameFiles(r)
      PROVE  DialogResult' /\ RowsResult'
  <2>1. \A r \in Recording : row'[r] \in Done => row'[r] = row[r] /\ SameFiles(r)
    BY <1>p, <1>w
  <2> QED BY <1>0, <1>p, <2>1, OthersKeepDialog, OthersKeepRows
<1>1. ASSUME NEW r \in Recording, Launch(r) PROVE ResultInv'
  <2>1. /\ worker'.pc = "run" /\ UNCHANGED <<files, dialog, typed>>
        /\ \A q \in Recording : row'[q] \in Done => row'[q] = row[q]
    BY <1>1 DEF Launch, Shape, Done
  <2>2. WorkerResult'
    BY <2>1 DEF WorkerResult
  <2> QED BY <1>0, <1>k, <2>1, <2>2, OthersKeepDialog, OthersKeepRows DEF ResultInv
<1>2. CASE Transcribe
  <2>1. /\ worker.pc = "run" /\ UNCHANGED <<row, files, dialog, typed>>
        /\ worker'.pc = "write" /\ worker'.next = 1 /\ worker'.made.v = count.v[worker.rec] + 1
        /\ worker.rec \in Recording
    BY <1>2 DEF Transcribe, Shape, IsWorker, JsonInv
  <2>2. worker'.made.v > 0
    BY <2>1 DEF Shape
  <2>3. WorkerResult'
    BY <2>1, <2>2 DEF WorkerResult
  <2> QED BY <1>k, <1>p, <2>1, <2>3 DEF ResultInv
<1>3. CASE Export
  <2>1. /\ worker.pc = "write" /\ Write(worker.rec, worker.next, worker.made)
        /\ worker'.rec = worker.rec /\ worker'.made = worker.made
        /\ UNCHANGED <<row, dialog, typed>>
        /\ \/ worker'.pc = "manifest" /\ worker.next = 5
           \/ worker'.pc = "write" /\ worker'.next = worker.next + 1 /\ worker.next < 5
    BY <1>3, <1>w, FormatOrder DEF Export, Shape, IsWorker
  <2>2. \A q \in Recording, f \in Format : files'[q][f] =
          IF q = worker.rec /\ f = Formats[worker.next] THEN worker.made ELSE files[q][f]
    BY <1>w, <1>v, <2>1, WriteEffect
  <2>3. \A k \in 1..5 : k < worker.next + 1 => files'[worker.rec][Formats[k]] = worker.made
    <3> SUFFICES ASSUME NEW k \in 1..5, k < worker.next + 1
                 PROVE  files'[worker.rec][Formats[k]] = worker.made
      OBVIOUS
    <3>1. CASE k < worker.next
      <4>1. files[worker.rec][Formats[k]] = worker.made
        BY <1>0, <2>1, <3>1 DEF WorkerResult
      <4> QED BY <1>w, <2>1, <2>2, <4>1, AllFormats
    <3>2. CASE k = worker.next
      BY <1>w, <2>1, <2>2, <3>2, AllFormats
    <3> QED BY <1>w, <2>1, <3>1, <3>2
  <2>4. worker.next = 5 => \A f \in Format : files'[worker.rec][f] = worker.made
    BY <2>3, AllFormats
  <2>5. \A r \in Recording \ {worker.rec} : SameFiles(r)
    BY <2>2 DEF SameFiles
  <2>6. worker.made.v > 0
    BY <1>0, <2>1 DEF WorkerResult
  <2>7. WorkerResult'
    BY <2>1, <2>3, <2>4, <2>6 DEF WorkerResult
  <2> QED BY <1>p, <2>1, <2>5, <2>7 DEF ResultInv
<1>4. CASE Manifest
  <2>1. /\ worker.pc = "manifest" /\ UNCHANGED <<row, files, dialog, typed>>
        /\ worker'.rec = worker.rec /\ worker.rec \in Recording
    BY <1>4 DEF Manifest, Shape, IsWorker
  <2>2. worker'.pc \in {"completed", "warned"}
    BY <1>4 DEF Manifest, Shape, IsWorker
  <2>3. /\ \A f \in Format : files[worker.rec][f] = worker.made
        /\ worker.made.v > 0
    BY <1>0, <2>1 DEF WorkerResult
  <2>4. WorkerResult'
    BY <2>1, <2>2, <2>3, AllFormats DEF WorkerResult, Agree, Json, Whole
  <2> QED BY <1>k, <1>p, <2>1, <2>4 DEF ResultInv
<1>5. CASE WorkerFails
  <2>1. /\ worker'.pc = "failed" /\ UNCHANGED <<row, dialog, typed>> /\ worker.pc # "idle"
        /\ worker.pc = "write" => CutShort(worker.rec, worker.next)
        /\ worker.pc # "write" => UNCHANGED files
    BY <1>5 DEF WorkerFails, Shape, IsWorker
  <2>2. \A r \in Recording \ {worker.rec} : SameFiles(r)
    BY <1>k, <1>w, <2>1, CutEffect
  <2>3. WorkerResult'
    BY <2>1 DEF WorkerResult
  <2> QED BY <1>p, <2>1, <2>2, <2>3 DEF ResultInv
<1>6. CASE RowEnds
  <2>1. /\ row' = [row EXCEPT ![worker.rec] = worker.pc] /\ UNCHANGED <<files, dialog, typed>>
        /\ worker.pc \in {"completed", "warned", "failed"} /\ worker'.pc = "idle"
    BY <1>6 DEF RowEnds, NoWorker
  <2>2. \A r \in Recording : row'[r] = IF r = worker.rec THEN worker.pc ELSE row[r]
    BY <2>1 DEF Shape
  <2>4. RowsResult'
    BY <1>0, <2>1, <2>2 DEF WorkerResult, RowsResult, Unnamed, Done, Agree, Json, Whole
  <2>5. WorkerResult'
    BY <2>1 DEF WorkerResult
  <2> QED BY <1>0, <2>1, <2>4, <2>5, OthersKeepDialog DEF ResultInv
<1>7. ASSUME NEW r \in Recording, Retry(r) PROVE ResultInv'
  <2>1. UNCHANGED <<files, worker, typed, dialog>>
    BY <1>7 DEF Retry
  <2>2. \A q \in Recording : row'[q] \in Done => row'[q] = row[q]
    BY <1>7 DEF Retry, Shape, Done
  <2> QED BY <1>q, <2>1, <2>2
<1>8. ASSUME NEW r \in Recording, OpenSpeakers(r) PROVE ResultInv'
  <2>1. UNCHANGED <<files, worker, typed, row>> /\ dialog'.pc # "write"
    BY <1>8 DEF OpenSpeakers
  <2> QED BY <1>q, <2>1
<1>9. ASSUME NEW s \in Label, NEW n \in Name, Rename(s, n) PROVE ResultInv'
  <2>1. /\ dialog.pc = "open" /\ dialog.rec \in Recording /\ UNCHANGED <<files, worker, row>>
        /\ dialog'.pc = "write" /\ dialog'.rec = dialog.rec
        /\ typed' = [typed EXCEPT ![dialog.rec][s] = @ \cup {n}]
    BY <1>9 DEF Rename, Shape, IsDialog
  <2>3. /\ n \in typed'[dialog.rec][s]
        /\ \A r \in Recording, t \in Label : typed'[r][t] = {} => typed[r][t] = {}
    BY <2>1 DEF Shape
  <2>4. DialogResult'
    BY <2>1, <2>3 DEF DialogResult, Unnamed
  <2>5. RowsResult'
    BY <1>0, <2>1, <2>3 DEF RowsResult, Unnamed, Agree, Json, Whole
  <2>7. WorkerResult'
    BY <1>0, <1>k, <1>w, <2>1, OthersKeepWorker
  <2> QED BY <2>4, <2>5, <2>7 DEF ResultInv
\* The dialog writes into one recording, which has names.
<1>r. ASSUME dialog.pc = "write", UNCHANGED <<row, worker, typed>>,
             \A r \in Recording \ {dialog.rec} : SameFiles(r),
             dialog'.pc # "write" \/ (dialog'.made = dialog.made /\ dialog'.rec = dialog.rec)
      PROVE  ResultInv'
  <2>1. ~Unnamed(dialog.rec) /\ dialog.rec \in Recording
    BY <1>0, <1>r, <1>x DEF DialogResult
  <2>2. \A r \in Recording \ {dialog.rec} : files'[r]["json"] = files[r]["json"]
    BY <1>r, AllFormats DEF SameFiles
  <2>3. RowsResult'
    <3> SUFFICES ASSUME NEW r \in Recording, row'[r] \in Done, Unnamed(r)' PROVE Agree(r)'
      BY DEF RowsResult
    <3>1. r # dialog.rec /\ Unnamed(r) /\ row[r] \in Done
      BY <1>r, <2>1 DEF Unnamed
    <3>2. Agree(r)
      BY <1>0, <3>1 DEF RowsResult
    <3> QED BY <1>r, <2>2, <3>1, <3>2 DEF Agree, Json, Whole, SameFiles
  <2>5. DialogResult'
    BY <1>r, <2>1 DEF DialogResult, Unnamed
  <2>6. worker.pc # "idle" => worker.rec \in Recording \ {dialog.rec}
    BY <1>d, <1>r, <1>w
  <2>7. WorkerResult'
    BY <1>0, <1>r, <2>6, OthersKeepWorker
  <2> QED BY <2>3, <2>5, <2>7 DEF ResultInv
<1>10. CASE RenameWrites
  <2>1. /\ dialog.pc = "write" /\ Write(dialog.rec, dialog.next, dialog.made)
        /\ UNCHANGED <<row, worker, typed>>
        /\ dialog'.pc # "write" \/ (dialog'.made = dialog.made /\ dialog'.rec = dialog.rec)
    BY <1>10 DEF RenameWrites, Shape, IsDialog
  <2>2. \A q \in Recording, f \in Format :
          files'[q][f] = IF q = dialog.rec /\ f = Formats[dialog.next] THEN dialog.made ELSE files[q][f]
    BY <1>x, <1>v, <2>1, WriteEffect
  <2>3. \A r \in Recording \ {dialog.rec} : SameFiles(r)
    BY <2>2 DEF SameFiles
  <2> QED BY <1>r, <2>1, <2>3
<1>11. CASE RenameRaises \/ CloseSpeakers
  <2>1. /\ dialog'.pc # "write" /\ UNCHANGED <<row, worker, typed>>
        /\ UNCHANGED files \/ (dialog.pc = "write" /\ CutShort(dialog.rec, dialog.next))
    <3>1. CASE RenameRaises
      BY <3>1 DEF RenameRaises, Shape, IsDialog
    <3>2. CASE CloseSpeakers
      BY <3>2 DEF CloseSpeakers, Closed
    <3> QED BY <1>11, <3>1, <3>2
  <2>2. CASE UNCHANGED files
    BY <1>q, <2>1, <2>2
  <2>3. CASE dialog.pc = "write" /\ CutShort(dialog.rec, dialog.next)
    <3>1. \A r \in Recording \ {dialog.rec} : SameFiles(r)
      BY <1>x, <2>3, CutEffect
    <3> QED BY <1>r, <2>1, <2>3, <3>1
  <2> QED BY <2>1, <2>2, <2>3
<1>12. CASE ProfileChanges
  <2>1. dialog'.pc # "write" /\ UNCHANGED <<files, row, worker, typed>>
    BY <1>12, ProfileEffect
  <2> QED BY <1>q, <2>1
<1>13. CASE SetToken
  BY <1>13, <1>q DEF SetToken
<1> QED
  BY <1>u, <1>1, <1>2, <1>3, <1>4, <1>5, <1>6, <1>7, <1>8, <1>9, <1>10, <1>11, <1>12, <1>13,
     ProfileActs, Zenon DEF Next, WorkerSteps, DialogSteps, UserActs

LEMMA ResultHolds == Spec => []ResultInv
<1> QED BY InitOwner, InitJson, InitResult, StepOwner, StepJson, StepResult, PTL DEF Spec

\* The five exports of a completed recording are one whole transcript until the user
\* renames a speaker in it: an attempt that was cut short is never taken for a result
\* (write_transcript_outputs, the completed event and the manifest).
THEOREM CompletedExportsAreOne == Spec => []CompletedExportsAgree
<1>1. ResultInv => CompletedExportsAgree
  BY DEF ResultInv, RowsResult, CompletedExportsAgree, Agree, Unnamed, Done
<1> QED BY <1>1, ResultHolds, PTL

------------------------------------------------------------------------------
LEMMA MostSimilarIsFirst ==
  ASSUME NEW v \in Nat, NEW table \in Profiles, NEW C, C \subseteq Name, C # {}
  PROVE  /\ MostSimilar(v, table, C) \in C
         /\ \A m \in C : Similarity(v, table[m]) <= Similarity(v, table[MostSimilar(v, table, C)])
<1> DEFINE D(n) == IF v < table[n].at THEN table[n].at - v ELSE v - table[n].at
           R == OpToRel(<, Nat)
<1>1. \A n \in C : D(n) \in Nat /\ Similarity(v, table[n]) = MaxSimilarity - D(n)
  BY DEF Similarity, Profiles
<1>2. PICK d \in {D(n) : n \in C} : \A e \in {D(n) : n \in C} : ~ (<<e, d>> \in R)
  <2>1. {D(n) : n \in C} \subseteq Nat /\ {D(n) : n \in C} # {}
    BY <1>1
  <2>2. IsWellFoundedOn(R, Nat)
    BY NatLessThanWellFounded
  <2> HIDE DEF D, R
  <2> QED BY <2>1, <2>2, WFMin
<1>3. PICK n \in C : d = D(n)
  BY <1>2
<1>4. \A m \in C : D(m) \in Nat /\ D(n) \in Nat /\ ~(D(m) < D(n))
  BY <1>1, <1>2, <1>3 DEF OpToRel
<1>5. \A m \in C : Similarity(v, table[m]) <= Similarity(v, table[n])
  <2> HIDE DEF D, R
  <2> QED BY <1>1, <1>4, VoiceAssumption
<1> QED BY <1>5 DEF MostSimilar

\* match_embedding names a voice only after the one profile that matches it clearly.
LEMMA MatchIsClear ==
  ASSUME NEW v \in Nat, NEW launch \in Launches
  PROVE  LET n == Match(v, launch.profiles, launch.threshold)
         IN  n \in Name \cup {NoName} /\ (n # NoName => ClearMatch(n, v, launch))
<1> DEFINE table == launch.profiles
           S(n) == Similarity(v, table[n])
           best == MostSimilar(v, table, Known(table))
           others == Known(table) \ {best}
           second == MostSimilar(v, table, others)
<1>1. table \in Profiles /\ launch.threshold \in Nat
  BY VoiceAssumption DEF Launches
<1>2. Known(table) \subseteq Name
  BY DEF Known
<1>3. \A n \in Name : S(n) \in Int
  BY <1>1, VoiceAssumption DEF Similarity, Profiles
<1>4. CASE Match(v, table, launch.threshold) = NoName
  BY <1>4
<1>5. CASE Match(v, table, launch.threshold) # NoName
  <2>1. /\ Match(v, table, launch.threshold) = best
        /\ Known(table) # {} /\ ~(S(best) < launch.threshold)
        /\ others = {} \/ ~(S(best) - S(second) < Margin)
    BY <1>5 DEF Match
  <2>2. best \in Known(table)
    BY <1>1, <1>2, <2>1, MostSimilarIsFirst
  <2>3. \A m \in others : S(m) <= S(second) /\ second \in others
    BY <1>1, <1>2, MostSimilarIsFirst
  <2>4. S(best) \in Int /\ S(best) >= launch.threshold
    BY <1>1, <1>2, <1>3, <2>1, <2>2
  <2>5. ASSUME NEW m \in others PROVE S(best) >= S(m) + Margin
    <3>1. S(m) \in Int /\ S(second) \in Int /\ S(m) <= S(second)
      BY <1>2, <1>3, <2>3
    <3>2. ~(S(best) - S(second) < Margin)
      BY <2>1, <2>5
    <3> HIDE DEF S, best, second
    <3> QED BY <2>4, <3>1, <3>2, VoiceAssumption
  <2> QED BY <1>2, <2>1, <2>2, <2>4, <2>5 DEF ClearMatch
<1> QED BY <1>4, <1>5

------------------------------------------------------------------------------
(* Types. *)

\* Which steps change which variables.
Footprint ==
  /\ UNCHANGED worker \/ WorkerSteps \/ \E r \in Recording : Launch(r)
  /\ UNCHANGED dialog \/ DialogSteps \/ (\E r \in Recording : OpenSpeakers(r))
       \/ (\E s \in Label, n \in Name : Rename(s, n)) \/ ProfileChanges
  /\ UNCHANGED files \/ Export \/ WorkerFails \/ DialogSteps
  /\ UNCHANGED profiles \/ ProfileChanges
  /\ UNCHANGED launched \/ Export
  /\ UNCHANGED typed \/ \E s \in Label, n \in Name : Rename(s, n)
  /\ UNCHANGED row \/ RowEnds \/ \E r \in Recording : Launch(r) \/ Retry(r)
  /\ UNCHANGED token \/ SetToken

LEMMA StepsChange == [Next]_vars => Footprint
<1> SUFFICES ASSUME [Next]_vars PROVE Footprint
  OBVIOUS
<1> USE DEF Footprint, WorkerSteps, DialogSteps
<1>1. ASSUME NEW r \in Recording, Launch(r) PROVE Footprint
  BY <1>1 DEF Launch
<1>2. CASE Transcribe
  BY <1>2 DEF Transcribe
<1>3. CASE Export
  BY <1>3 DEF Export
<1>4. CASE Manifest
  BY <1>4 DEF Manifest
<1>5. CASE WorkerFails
  BY <1>5 DEF WorkerFails
<1>6. CASE RowEnds
  BY <1>6 DEF RowEnds
<1>7. ASSUME NEW r \in Recording, Retry(r) PROVE Footprint
  BY <1>7 DEF Retry
<1>8. ASSUME NEW r \in Recording, OpenSpeakers(r) PROVE Footprint
  BY <1>8 DEF OpenSpeakers
<1>9. ASSUME NEW s \in Label, NEW n \in Name, Rename(s, n) PROVE Footprint
  BY <1>9 DEF Rename
<1>10. CASE DialogSteps
  BY <1>10 DEF RenameWrites, RenameRaises, CloseSpeakers
<1>11. CASE ProfileChanges
  BY <1>11 DEF ProfileChanges, ChangeProfile
<1>13. CASE SetToken
  BY <1>13 DEF SetToken
<1>14. CASE UNCHANGED vars
  BY <1>14 DEF vars
<1> HIDE DEF Footprint
<1> QED
  BY <1>1, <1>2, <1>3, <1>4, <1>5, <1>6, <1>7, <1>8, <1>9, <1>10, <1>11, <1>13, <1>14, ProfileActs,
     Zenon DEF Next, WorkerSteps, UserActs

WorkerType ==
  IF worker.pc = "idle" THEN worker = NoWorker
  ELSE /\ worker.pc \in {"run", "write", "manifest", "completed", "warned", "failed"}
       /\ worker.launch \in Launches /\ worker.made \in Transcript
       /\ worker.next \in 1..5 /\ worker.warned \in BOOLEAN

DialogType ==
  IF dialog.pc = "closed" THEN dialog = Closed
  ELSE dialog.pc \in {"open", "write"} /\ dialog.made \in Transcript /\ dialog.next \in 1..5

FilesType == \A r \in Recording, f \in Format : files[r][f] \in Transcript \cup {Missing, Torn}

\* The dialog reads only what has been written.
DoneIsWhole == \A r \in Recording : row[r] \in Done => Whole(Json(r))

CountType ==
  /\ count.runs \in 0..MaxRuns /\ count.renames \in 0..MaxRenames
  /\ count.references \in 0..MaxReferences /\ count.faults \in 0..MaxFaults

\* No profile is made of more voices than were remembered.
ProfilesType == profiles \in Profiles /\ \A n \in Name : profiles[n].refs <= count.references

TypeInv ==
  /\ WorkerType /\ DialogType /\ FilesType /\ DoneIsWhole /\ CountType /\ ProfilesType
  /\ launched \in [Recording -> Launches] /\ token \in BOOLEAN

Established == Shape /\ OwnerInv /\ JsonInv /\ ResultInv

LEMMA InitTypes == Init => TypeInv
<1> SUFFICES ASSUME Init PROVE TypeInv
  OBVIOUS
<1>1. WorkerType /\ DialogType
  BY DEF Init, WorkerType, DialogType, NoWorker, Closed
<1>2. FilesType /\ DoneIsWhole
  BY DEF Init, FilesType, DoneIsWhole, Done
<1>3. CountType /\ ProfilesType /\ token \in BOOLEAN
  BY BoundsAssumption DEF Init, CountType, ProfilesType, Profiles
<1>4. launched \in [Recording -> Launches]
  BY <1>3, VoiceAssumption DEF Init, Launches, ProfilesType
<1> QED BY <1>1, <1>2, <1>3, <1>4 DEF TypeInv

\* What the dialog shows when transcript.json cannot be read has no names.
LEMMA EmptyTranscript == Empty \in Transcript
  BY DEF Empty, Transcript, Speakers

\* What a completed recording's transcript.json holds is a transcript.
LEMMA DoneTranscript == ASSUME FilesType, DoneIsWhole, NEW r \in Recording, row[r] \in Done
                        PROVE  Json(r) \in Transcript
<1>1. Whole(Json(r)) /\ Json(r) \in Transcript \cup {Missing, Torn}
  BY AllFormats DEF DoneIsWhole, FilesType, Json
<1>2. ~Whole(Missing) /\ ~Whole(Torn)
  BY DEF Whole, Missing, Torn
<1> QED BY <1>1, <1>2

LEMMA StepWorkerType == ASSUME Established, TypeInv, [Next]_vars PROVE WorkerType'
<1>1. ASSUME NEW r \in Recording, Launch(r) PROVE WorkerType'
  <2>1. PICK threshold \in Threshold, found \in BOOLEAN :
          worker' = [pc |-> "run", rec |-> r, made |-> Empty, next |-> 1, warned |-> FALSE,
                     launch |-> [profiles |-> profiles, threshold |-> threshold, token |-> found]]
    BY <1>1 DEF Launch
  <2>2. worker'.launch \in Launches
    BY <2>1 DEF TypeInv, ProfilesType, Launches
  <2> QED BY <2>1, <2>2, EmptyTranscript DEF WorkerType
<1>2. CASE Transcribe
  <2> DEFINE l == worker.launch
             r == worker.rec
  <2>1. l \in Launches /\ r \in Recording /\ IsWorker /\ worker.pc = "run"
    BY <1>2 DEF Transcribe, TypeInv, WorkerType, Established, Shape
  <2>2. PICK aligned, matched \in BOOLEAN, speakers \in Speakers :
          worker' = [worker EXCEPT !.pc = "write",
            !.warned = Warned(l, aligned, speakers, matched),
            !.made = [v |-> count.v[r] + 1, speakers |-> speakers,
                      names |-> Matched(r, l, speakers = "voiced" /\ matched)]]
    BY <1>2 DEF Transcribe
  <2>3. /\ worker'.pc = "write" /\ worker'.launch = l /\ worker'.next = worker.next
        /\ worker'.warned = Warned(l, aligned, speakers, matched)
        /\ worker'.made = [v |-> count.v[r] + 1, speakers |-> speakers,
                      names |-> Matched(r, l, speakers = "voiced" /\ matched)]
    BY <2>1, <2>2 DEF IsWorker
  <2>4. \A s \in Label : Match(Speaks[r][s], l.profiles, l.threshold) \in Name \cup {NoName}
    BY <2>1, MatchIsClear, VoiceAssumption
  <2>5. worker'.made \in Transcript
    BY <2>1, <2>3, <2>4 DEF Matched, Transcript, Established, Shape
  <2> QED BY <2>1, <2>3, <2>5 DEF TypeInv, WorkerType, Warned
<1>3. CASE Export
  <2>1. /\ worker.pc = "write" /\ worker'.launch = worker.launch /\ worker'.made = worker.made
        /\ worker'.warned = worker.warned
        /\ \/ worker'.pc = "manifest" /\ worker'.next = worker.next
           \/ worker'.pc = "write" /\ worker'.next = worker.next + 1 /\ worker.next < 5
    BY <1>3, FormatOrder DEF Export, Established, Shape, IsWorker
  <2> QED BY <2>1 DEF TypeInv, WorkerType
<1>4. CASE Manifest \/ WorkerFails
  <2>1. /\ worker.pc # "idle" /\ worker'.launch = worker.launch /\ worker'.made = worker.made
        /\ worker'.warned = worker.warned /\ worker'.next = worker.next
        /\ worker'.pc \in {"completed", "warned", "failed"}
    BY <1>4 DEF Manifest, WorkerFails, Established, Shape, IsWorker
  <2> QED BY <2>1 DEF TypeInv, WorkerType
<1>5. CASE RowEnds
  BY <1>5 DEF RowEnds, WorkerType, NoWorker
<1>6. CASE UNCHANGED worker
  BY <1>6 DEF TypeInv, WorkerType
<1> QED BY <1>1, <1>2, <1>3, <1>4, <1>5, <1>6, StepsChange DEF Footprint, WorkerSteps

LEMMA StepDialogType == ASSUME Established, TypeInv, [Next]_vars PROVE DialogType'
<1>0. FilesType /\ DoneIsWhole
  BY DEF TypeInv
<1>1. ASSUME NEW r \in Recording, OpenSpeakers(r) PROVE DialogType'
  <2>1. Json(r) \in Transcript
    BY <1>0, <1>1, DoneTranscript DEF OpenSpeakers, Done
  <2>2. PICK made \in Loads(r) : dialog' = [pc |-> "open", rec |-> r, made |-> made, next |-> 1]
    BY <1>1 DEF OpenSpeakers
  <2>3. made \in Transcript
    BY <2>1, EmptyTranscript DEF Loads, Json
  <2> QED BY <2>2, <2>3 DEF DialogType
<1>2. ASSUME NEW s \in Label, NEW n \in Name, Rename(s, n) PROVE DialogType'
  <2> DEFINE r == dialog.rec
  <2>1. /\ dialog.pc = "open" /\ r \in Recording /\ IsDialog /\ dialog.made \in Transcript
    BY <1>2 DEF Rename, TypeInv, DialogType, Established, Shape
  <2>2. /\ dialog'.pc = "write" /\ dialog'.next = 1
        /\ dialog'.made = [v |-> count.v[r] + 1, speakers |-> dialog.made.speakers,
                           names |-> [dialog.made.names EXCEPT ![s] = n]]
    BY <1>2, <2>1 DEF Rename, IsDialog
  <2>3. dialog'.made \in Transcript
    BY <2>1, <2>2 DEF Transcript, Established, Shape
  <2> QED BY <2>2, <2>3 DEF DialogType
<1>3. CASE RenameWrites
  <2>1. /\ dialog.pc = "write" /\ dialog.rec \in Recording /\ IsDialog
        /\ dialog.made \in Transcript /\ dialog.next \in 1..5
    BY <1>3 DEF RenameWrites, TypeInv, DialogType, Established, Shape
  <2>2. CASE dialog.next < Len(Formats)
    BY <1>3, <2>1, <2>2, FormatOrder DEF RenameWrites, DialogType, IsDialog
  <2>3. CASE ~(dialog.next < Len(Formats))
    <3>1. PICK made \in Loads(dialog.rec) :
            dialog' = [dialog EXCEPT !.pc = "open", !.next = 1, !.made = made]
      BY <1>3, <2>3 DEF RenameWrites
    <3>2. Json(dialog.rec) \in Transcript
      BY <1>0, <2>1, DoneTranscript DEF Established, OwnerInv
    <3>3. made \in Transcript
      BY <3>2, EmptyTranscript DEF Loads, Json
    <3> QED BY <2>1, <3>1, <3>3 DEF DialogType, IsDialog
  <2> QED BY <2>2, <2>3
<1>4. CASE RenameRaises
  BY <1>4 DEF RenameRaises, TypeInv, DialogType, Established, Shape, IsDialog
<1>5. CASE CloseSpeakers
  BY <1>5 DEF CloseSpeakers, DialogType, Closed
<1>6. CASE UNCHANGED dialog
  BY <1>6 DEF TypeInv, DialogType
<1>7. CASE ProfileChanges
  <2>1. /\ dialog.pc = "open" /\ dialog.rec \in Recording /\ dialog.next \in 1..5
    BY <1>7 DEF ProfileChanges, TypeInv, DialogType, Established, Shape
  <2>2. dialog'.pc = "open" /\ dialog'.next = dialog.next /\ dialog'.made \in Loads(dialog.rec)
    BY <1>7, ProfileEffect DEF Established
  <2>3. Json(dialog.rec) \in Transcript
    BY <1>0, <2>1, DoneTranscript DEF Established, OwnerInv
  <2>4. dialog'.made \in Transcript
    BY <2>2, <2>3, EmptyTranscript DEF Loads, Json
  <2> QED BY <2>1, <2>2, <2>4 DEF DialogType
<1> QED BY <1>1, <1>2, <1>3, <1>4, <1>5, <1>6, <1>7, StepsChange DEF Footprint, DialogSteps

\* Whatever is written is a transcript, and what is cut short is torn.
LEMMA StepFilesType == ASSUME Established, TypeInv, [Next]_vars PROVE FilesType'
<1> USE DEF TypeInv
<1>0. Shape /\ JsonInv /\ FilesShape /\ FilesType
  BY DEF Established, JsonInv
<1>1. ASSUME NEW r \in Recording, NEW k \in 1..5, NEW made \in Transcript, Write(r, k, made)
      PROVE  FilesType'
  <2>1. made.v \in Int
    BY DEF Transcript
  <2> QED BY <1>0, <1>1, <2>1, WriteEffect DEF FilesType
<1>2. ASSUME NEW r \in Recording, NEW k \in 1..5, CutShort(r, k) PROVE FilesType'
  <2>1. CASE files' = files
    BY <1>0, <2>1 DEF FilesType
  <2>2. CASE files' = [files EXCEPT ![r][Formats[k]] = Torn]
    <3>1. Formats[k] \in Format /\ Torn.v \in Int /\ Replaces(r, Formats[k], Torn)
      BY <2>2, AllFormats DEF Torn, Replaces
    <3>2. \A q \in Recording, f \in Format :
            files'[q][f] = IF q = r /\ f = Formats[k] THEN Torn ELSE files[q][f]
      BY <1>0, <3>1, OneFile
    <3> QED BY <1>0, <3>2 DEF FilesType
  <2> QED BY <1>2, <2>1, <2>2 DEF CutShort
<1>3. CASE Export
  BY <1>1, <1>3 DEF Export, WorkerType, Established, Shape
<1>4. CASE WorkerFails
  <2>1. CASE worker.pc = "write"
    BY <1>2, <1>4, <2>1 DEF WorkerFails, WorkerType, Established, Shape
  <2>2. CASE worker.pc # "write"
    BY <1>0, <1>4, <2>2 DEF WorkerFails, FilesType
  <2> QED BY <2>1, <2>2
<1>5. CASE RenameWrites
  BY <1>1, <1>5 DEF RenameWrites, DialogType, Established, Shape
<1>6. CASE RenameRaises \/ CloseSpeakers
  <2>1. CASE dialog.pc = "write"
    BY <1>2, <1>6, <2>1 DEF RenameRaises, CloseSpeakers, DialogType, Established, Shape
  <2>2. CASE dialog.pc # "write"
    BY <1>0, <1>6, <2>2 DEF RenameRaises, CloseSpeakers, FilesType
  <2> QED BY <2>1, <2>2
<1>7. CASE UNCHANGED files
  BY <1>0, <1>7 DEF FilesType
<1> QED BY <1>3, <1>4, <1>5, <1>6, <1>7, StepsChange DEF Footprint, DialogSteps

\* How transcript.json changes: only by the first export of a worker or of a rename.
JsonChange(r) ==
  \/ Json(r)' = Json(r)
  \/ Export /\ r = worker.rec /\ worker.next = 1 /\ Json(r)' = worker.made
  \/ RenameWrites /\ r = dialog.rec /\ dialog.next = 1 /\ Json(r)' = dialog.made

LEMMA JsonChanges ==
  ASSUME Established, TypeInv, [Next]_vars, NEW r \in Recording PROVE JsonChange(r)
<1> USE DEF TypeInv, JsonChange
<1>0. Shape /\ JsonInv /\ FilesShape
  BY DEF Established, JsonInv
<1>1. ASSUME NEW q \in Recording, NEW k \in 1..5, NEW made \in Transcript, Write(q, k, made)
      PROVE  Json(r)' = IF r = q /\ k = 1 THEN made ELSE Json(r)
  <2>1. made.v \in Int /\ (Formats[k] = "json" <=> k = 1)
    BY FormatOrder DEF Transcript
  <2> QED BY <1>0, <1>1, <2>1, WriteEffect, AllFormats DEF Json
<1>2. ASSUME NEW q \in Recording, NEW k \in 1..5, CutShort(q, k) PROVE Json(r)' = Json(r)
  BY <1>0, <1>2, CutEffect DEF Json
<1>3. CASE Export
  BY <1>1, <1>3 DEF Export, WorkerType, Established, Shape
<1>4. CASE WorkerFails
  <2>1. CASE worker.pc = "write"
    BY <1>2, <1>4, <2>1 DEF WorkerFails, WorkerType, Established, Shape
  <2>2. CASE worker.pc # "write"
    BY <1>4, <2>2 DEF WorkerFails, Json
  <2> QED BY <2>1, <2>2
<1>5. CASE RenameWrites
  BY <1>1, <1>5 DEF RenameWrites, DialogType, Established, Shape
<1>6. CASE RenameRaises \/ CloseSpeakers
  <2>1. CASE dialog.pc = "write"
    BY <1>2, <1>6, <2>1 DEF RenameRaises, CloseSpeakers, DialogType, Established, Shape
  <2>2. CASE dialog.pc # "write"
    BY <1>6, <2>2 DEF RenameRaises, CloseSpeakers, Json
  <2> QED BY <2>1, <2>2
<1>7. CASE UNCHANGED files
  BY <1>7 DEF Json
<1> QED BY <1>3, <1>4, <1>5, <1>6, <1>7, StepsChange DEF Footprint, DialogSteps

LEMMA StepDoneIsWhole == ASSUME Established, TypeInv, [Next]_vars PROVE DoneIsWhole'
<1> SUFFICES ASSUME NEW r \in Recording, row'[r] \in Done PROVE Whole(Json(r))'
  BY DEF DoneIsWhole
<1>0. Shape /\ OwnerInv /\ JsonInv /\ ResultInv /\ DoneIsWhole
  BY DEF Established, TypeInv
<1>1. CASE RowEnds
  <2>1. row' = [row EXCEPT ![worker.rec] = worker.pc] /\ files' = files /\ worker.pc # "idle"
    BY <1>1 DEF RowEnds
  <2>2. CASE r = worker.rec
    <3>1. worker.pc \in Done
      BY <1>0, <2>1, <2>2 DEF Shape
    <3> QED BY <1>0, <2>1, <2>2, <3>1 DEF ResultInv, WorkerResult, Agree, Done, Whole, Json
  <2>3. CASE r # worker.rec
    BY <1>0, <2>1, <2>3 DEF Shape, DoneIsWhole, Whole, Json
  <2> QED BY <2>2, <2>3
<1>2. CASE ~RowEnds
  <2>1. row[r] \in Done
    <3>1. UNCHANGED row \/ \E q \in Recording : Launch(q) \/ Retry(q)
      BY <1>2, StepsChange DEF Footprint
    <3>2. ASSUME NEW q \in Recording, Launch(q) PROVE row[r] \in Done
      BY <1>0, <3>2 DEF Launch, Shape, Done
    <3>3. ASSUME NEW q \in Recording, Retry(q) PROVE row[r] \in Done
      BY <1>0, <3>3 DEF Retry, Shape, Done
    <3> QED BY <3>1, <3>2, <3>3
  <2>2. Whole(Json(r)) /\ Json(r).v \in Int
    BY <1>0, <2>1, AllFormats DEF DoneIsWhole, JsonInv, FilesShape, Json
  <2>3. CASE Json(r)' = Json(r)
    BY <2>2, <2>3 DEF Whole
  <2>4. CASE RenameWrites /\ r = dialog.rec /\ Json(r)' = dialog.made
    <3>1. dialog.made.v = count.v[r]
      BY <1>0, <2>4 DEF RenameWrites, JsonInv, DialogWrites, Writes
    <3>2. Json(r).v <= count.v[r] /\ count.v[r] \in Int
      BY <1>0 DEF JsonInv, Shape
    <3>3. dialog.made.v > 0
      BY <2>2, <3>1, <3>2 DEF Whole
    <3> QED BY <2>4, <3>3 DEF Whole
  <2>5. CASE Export /\ r = worker.rec
    BY <1>0, <2>1, <2>5 DEF Export, OwnerInv, Done
  <2> QED BY <2>3, <2>4, <2>5, JsonChanges DEF JsonChange
<1> QED BY <1>1, <1>2

\* The bounds, and the profiles: a fold is a mean of natural numbers.
LEMMA FoldIsNat == ASSUME NEW a \in Nat, NEW k \in Nat, NEW v \in Nat
                   PROVE  (a * k + v) \div (k + 1) \in Nat
<1>1. a * k \in Nat
  OBVIOUS
<1>2. a * k + v \in Nat /\ k + 1 \in Nat /\ k + 1 > 0
  BY <1>1
<1>3. \A x \in Nat, d \in Nat : d > 0 => x \div d \in Nat
  OBVIOUS
<1> QED BY <1>2, <1>3

LEMMA StepCounts == ASSUME Established, TypeInv, [Next]_vars PROVE CountType' /\ ProfilesType'
<1> USE BoundsAssumption DEF TypeInv, CountType, ProfilesType
<1>0. count = [runs |-> count.runs, renames |-> count.renames, references |-> count.references,
               faults |-> count.faults, v |-> count.v]
  BY DEF Established, Shape
<1>f. ASSUME Fault, UNCHANGED profiles PROVE CountType' /\ ProfilesType'
  BY <1>0, <1>f DEF Fault
<1>1. ASSUME NEW r \in Recording, Launch(r) PROVE CountType' /\ ProfilesType'
  <2>1. PICK found \in BOOLEAN :
          /\ token /\ ~found => count.faults < MaxFaults
          /\ count' = [count EXCEPT !.runs = @ + 1, !.faults = @ + (IF token /\ ~found THEN 1 ELSE 0)]
    BY <1>1 DEF Launch
  <2>2. /\ count'.runs = count.runs + 1 /\ count.runs < MaxRuns
        /\ count'.faults \in {count.faults, count.faults + 1}
        /\ count'.faults = count.faults \/ count.faults < MaxFaults
        /\ count'.renames = count.renames /\ count'.references = count.references
        /\ UNCHANGED profiles
    BY <1>0, <1>1, <2>1 DEF Launch
  <2> QED BY <2>2
<1>2. CASE Transcribe
  BY <1>0, <1>2 DEF Transcribe
<1>3. CASE Export \/ Manifest \/ RowEnds \/ SetToken
  BY <1>3 DEF Export, Manifest, RowEnds, SetToken
<1>4. CASE WorkerFails \/ RenameRaises
  BY <1>f, <1>4 DEF WorkerFails, RenameRaises
<1>5. CASE CloseSpeakers
  BY <1>f, <1>5 DEF CloseSpeakers
<1>6. ASSUME NEW r \in Recording, Retry(r) PROVE CountType' /\ ProfilesType'
  BY <1>6 DEF Retry
\* A transcript is misread only while a fault is left.
<1>m. ASSUME NEW r \in Recording, NEW made \in Loads(r), UNCHANGED profiles,
             count' = [count EXCEPT !.faults = @ + Misread(r, made)]
      PROVE  CountType' /\ ProfilesType'
  <2>1. Misread(r, made) \in {0, 1} /\ (Misread(r, made) = 0 \/ count.faults < MaxFaults)
    BY DEF Misread, Loads
  <2>2. /\ count'.faults = count.faults + Misread(r, made) /\ count'.runs = count.runs
        /\ count'.renames = count.renames /\ count'.references = count.references
    BY <1>0, <1>m
  <2> QED BY <1>m, <2>1, <2>2
<1>7. ASSUME NEW r \in Recording, OpenSpeakers(r) PROVE CountType' /\ ProfilesType'
  BY <1>7, <1>m DEF OpenSpeakers
<1>8. ASSUME NEW s \in Label, NEW n \in Name, Rename(s, n) PROVE CountType' /\ ProfilesType'
  BY <1>0, <1>8 DEF Rename
<1>9. CASE RenameWrites
  <2>1. CASE dialog.next < Len(Formats)
    BY <1>9, <2>1 DEF RenameWrites
  <2>2. CASE ~(dialog.next < Len(Formats))
    <3>1. dialog.rec \in Recording
      BY <1>9 DEF RenameWrites, Established, Shape
    <3> QED BY <1>9, <1>m, <2>2, <3>1 DEF RenameWrites
  <2> QED BY <2>1, <2>2
\* A change of a profile makes it a mean of at most one voice more.
<1>p. ASSUME NEW n \in Name, NEW at \in Nat, NEW refs \in Nat, refs <= count.references + 1,
             dialog.rec \in Recording, ChangeProfile(n, [at |-> at, refs |-> refs])
      PROVE  CountType' /\ ProfilesType'
  <2>1. PICK made \in Loads(dialog.rec) : count' =
          [count EXCEPT !.references = @ + 1, !.faults = @ + Misread(dialog.rec, made)]
    BY <1>p DEF ChangeProfile
  <2>2. Misread(dialog.rec, made) \in {0, 1} /\ (Misread(dialog.rec, made) = 0 \/ count.faults < MaxFaults)
    BY <2>1 DEF Misread, Loads
  <2>3. /\ count'.references = count.references + 1 /\ count'.runs = count.runs
        /\ count'.renames = count.renames /\ count'.faults = count.faults + Misread(dialog.rec, made)
    BY <1>0, <2>1
  <2>4. count.references < MaxReferences /\ profiles' = [profiles EXCEPT ![n] = [at |-> at, refs |-> refs]]
    BY <1>p DEF ChangeProfile
  <2>5. profiles' \in Profiles /\ \A m \in Name : profiles'[m].refs <= count'.references
    BY <1>p, <2>3, <2>4 DEF Profiles
  <2> QED BY <2>2, <2>3, <2>4, <2>5
<1>10. ASSUME NEW s \in Label, NEW n \in Name, Remember(s, n) PROVE CountType' /\ ProfilesType'
  <2> DEFINE q == profiles[n]
             v == Speaks[dialog.rec][s]
  <2>1. dialog.rec \in Recording /\ v \in Nat
    BY <1>10, VoiceAssumption DEF Remember, Established, Shape
  <2>2. q.at \in Nat /\ q.refs \in Nat /\ q.refs <= count.references
    BY DEF Profiles
  <2>3. Fold(q, v).at \in Nat /\ Fold(q, v).refs = q.refs + 1
        /\ Fold(q, v) = [at |-> Fold(q, v).at, refs |-> Fold(q, v).refs]
    BY <2>1, <2>2, FoldIsNat DEF Fold
  <2>4. ChangeProfile(n, Fold(q, v))
    BY <1>10 DEF Remember
  <2> HIDE DEF q, v
  <2> QED BY <1>p, <2>1, <2>2, <2>3, <2>4
<1>11. ASSUME NEW n \in Name, RemoveProfile(n) PROVE CountType' /\ ProfilesType'
  <2>1. dialog.rec \in Recording /\ ChangeProfile(n, [at |-> 0, refs |-> 0])
    BY <1>11 DEF RemoveProfile, Established, Shape
  <2> QED BY <1>p, <2>1
<1>12. CASE UNCHANGED vars
  BY <1>12 DEF vars
<1> HIDE DEF TypeInv, CountType, ProfilesType
<1> QED
  BY <1>1, <1>2, <1>3, <1>4, <1>5, <1>6, <1>7, <1>8, <1>9, <1>10, <1>11, <1>12,
     Zenon DEF Next, WorkerSteps, DialogSteps, UserActs

LEMMA StepTypes == Established /\ TypeInv /\ [Next]_vars => TypeInv'
<1> SUFFICES ASSUME Established, TypeInv, [Next]_vars PROVE TypeInv'
  OBVIOUS
<1>1. token' \in BOOLEAN
  BY StepsChange DEF Footprint, SetToken, TypeInv
<1>2. launched' \in [Recording -> Launches]
  <2>1. CASE Export
    BY <2>1 DEF Export, TypeInv, WorkerType, Established, Shape
  <2>2. CASE UNCHANGED launched
    BY <2>2 DEF TypeInv
  <2> QED BY <2>1, <2>2, StepsChange DEF Footprint
<1> QED
  BY <1>1, <1>2, StepWorkerType, StepDialogType, StepFilesType, StepDoneIsWhole, StepCounts DEF TypeInv

LEMMA TypesHold == Spec => [](Established /\ TypeInv)
<1>1. Init => Established /\ TypeInv
  BY InitOwner, InitJson, InitResult, InitTypes DEF Established
<1>2. Established /\ TypeInv /\ [Next]_vars => (Established /\ TypeInv)'
  BY StepOwner, StepJson, StepResult, StepTypes DEF Established
<1> QED BY <1>1, <1>2, PTL DEF Spec

\* Every variable keeps its type: exports are absent, torn or a whole transcript, and
\* transcript.json is never torn; profiles stay means of as many voices as they count.
THEOREM LabelTypes == Spec => []TypeOK
<1>1. Established /\ TypeInv => TypeOK
  <2> SUFFICES ASSUME Established, TypeInv PROVE TypeOK
    OBVIOUS
  <2>1. \A r \in Recording : files[r]["json"] # Torn
    <3>1. \A r \in Recording : Json(r).v >= 0
      BY DEF Established, JsonInv
    <3>2. Torn.v = -1
      BY DEF Torn
    <3>3. ~(Torn.v >= 0)
      BY <3>2
    <3> HIDE DEF Torn
    <3> QED BY <3>1, <3>3 DEF Json
  <2>2. /\ count.runs <= MaxRuns /\ count.renames <= MaxRenames
        /\ count.references <= MaxReferences /\ count.faults <= MaxFaults
    BY BoundsAssumption DEF TypeInv, CountType
  <2>3. \/ worker = NoWorker
        \/ /\ worker.pc \in {"run", "write", "manifest", "completed", "warned", "failed"}
           /\ worker.rec \in Recording /\ worker.launch \in Launches
           /\ worker.made \in Transcript /\ worker.next \in 1..5 /\ worker.warned \in BOOLEAN
    BY DEF TypeInv, WorkerType, Established, Shape
  <2>4. \/ dialog = Closed
        \/ /\ dialog.pc \in {"open", "write"} /\ dialog.rec \in Recording
           /\ dialog.made \in Transcript /\ dialog.next \in 1..5
    BY DEF TypeInv, DialogType, Established, Shape
  <2> QED BY <2>1, <2>2, <2>3, <2>4 DEF TypeOK, TypeInv, ProfilesType, FilesType, Established, Shape, Statuses
<1> QED BY <1>1, TypesHold, PTL

------------------------------------------------------------------------------
(* The warning of a recording that was not diarized. *)

\* Without a token nothing was diarized.
Honest(speakers, allowed) == ~allowed => speakers = "missing"

\* What the worker has made, and what its last attempt is known by.
WorkerTold ==
  /\ worker.pc \in {"write", "manifest"} =>
       /\ Honest(worker.made.speakers, worker.launch.token)
       /\ worker.made.speakers = "missing" => worker.warned
  /\ worker.pc = "manifest" => launched[worker.rec] = worker.launch
  /\ worker.pc \in {"completed", "warned"} =>
       /\ Honest(Json(worker.rec).speakers, launched[worker.rec].token)
       /\ Json(worker.rec).speakers = "missing" => worker.pc = "warned"

\* The dialog writes only transcripts whose speakers can be selected.
DialogTold ==
  /\ dialog.pc # "closed" => Honest(dialog.made.speakers, launched[dialog.rec].token)
  /\ dialog.pc = "write" => dialog.made.speakers # "missing"

ToldInv == WorkerTold /\ DialogTold /\ UndiarizedIsWarned

LEMMA InitTold == Init => ToldInv
  BY DEF Init, ToldInv, WorkerTold, DialogTold, UndiarizedIsWarned, NoWorker, Closed

\* Only the worker of a recording replaces its launch.
LEMMA LaunchedChanges ==
  ASSUME TypeInv, [Next]_vars, NEW r \in Recording, ~(worker.pc = "write" /\ r = worker.rec)
  PROVE  launched'[r] = launched[r]
<1>1. ASSUME Export PROVE launched'[r] = launched[r]
  BY <1>1 DEF Export, TypeInv
<1> QED BY <1>1, StepsChange DEF Footprint

LEMMA StepWorkerTold == ASSUME Established, TypeInv, ToldInv, [Next]_vars PROVE WorkerTold'
<1>0. Shape /\ OwnerInv /\ ResultInv /\ WorkerTold
  BY DEF Established, ToldInv
<1>1. ASSUME NEW r \in Recording, Launch(r) PROVE WorkerTold'
  <2>1. worker'.pc = "run"
    BY <1>1 DEF Launch
  <2> QED BY <2>1 DEF WorkerTold
<1>2. CASE Transcribe
  <2>1. IsWorker /\ worker.pc = "run"
    BY <1>0, <1>2 DEF Transcribe, Shape
  <2>2. PICK aligned \in BOOLEAN, matched \in BOOLEAN, speakers \in Speakers :
          /\ speakers # "missing" => worker.launch.token
          /\ worker'.pc = "write" /\ worker'.launch = worker.launch
          /\ worker'.warned = Warned(worker.launch, aligned, speakers, matched)
          /\ worker'.made.speakers = speakers
    BY <1>2, <2>1 DEF Transcribe, IsWorker
  <2> QED BY <2>2 DEF WorkerTold, Honest, Warned
<1>3. CASE Export
  <2>1. /\ worker.pc = "write" /\ worker.rec \in Recording /\ worker'.rec = worker.rec
        /\ worker'.made = worker.made /\ worker'.warned = worker.warned
        /\ worker'.launch = worker.launch /\ worker'.pc \in {"write", "manifest"}
    BY <1>0, <1>3 DEF Export, Shape, IsWorker
  <2>2. launched'[worker.rec] = worker.launch
    BY <1>3, <2>1 DEF Export, TypeInv
  <2> QED BY <1>0, <2>1, <2>2 DEF WorkerTold
<1>4. CASE Manifest
  <2>1. /\ worker.pc = "manifest" /\ worker'.rec = worker.rec /\ UNCHANGED <<files, launched>>
        /\ worker'.pc = IF worker.warned THEN "warned" ELSE "completed"
    BY <1>0, <1>4 DEF Manifest, Shape, IsWorker
  <2>2. Json(worker.rec) = worker.made
    BY <1>0, <2>1, AllFormats DEF ResultInv, WorkerResult, Json
  <2> QED BY <1>0, <2>1, <2>2 DEF WorkerTold, Json
<1>5. CASE WorkerFails
  <2>1. worker'.pc = "failed"
    BY <1>0, <1>5 DEF WorkerFails, Shape, IsWorker
  <2> QED BY <2>1 DEF WorkerTold
<1>6. CASE RowEnds
  BY <1>6 DEF RowEnds, NoWorker, WorkerTold
<1>7. CASE UNCHANGED worker
  <2>1. CASE worker.pc \in {"manifest", "completed", "warned"}
    <3>1. worker.rec \in Recording
      BY <1>0, <2>1 DEF Shape
    <3>2. launched'[worker.rec] = launched[worker.rec]
      BY <2>1, <3>1, LaunchedChanges
    <3>3. ~(RenameWrites /\ worker.rec = dialog.rec)
      BY <1>0, <2>1 DEF RenameWrites, OwnerInv, Done
    <3>4. JsonChange(worker.rec) /\ ~Export
      BY <2>1, <3>1, JsonChanges DEF Export
    <3>5. Json(worker.rec)' = Json(worker.rec)
      BY <3>3, <3>4 DEF JsonChange
    <3> QED BY <1>0, <1>7, <3>2, <3>5 DEF WorkerTold, Json
  <2>2. CASE worker.pc \notin {"manifest", "completed", "warned"}
    BY <1>0, <1>7, <2>2 DEF WorkerTold
  <2> QED BY <2>1, <2>2
<1> QED
  BY <1>1, <1>2, <1>3, <1>4, <1>5, <1>6, <1>7, StepsChange DEF Footprint, WorkerSteps

LEMMA StepDialogTold == ASSUME Established, TypeInv, ToldInv, [Next]_vars PROVE DialogTold'
<1>0. Shape /\ OwnerInv /\ DialogTold /\ UndiarizedIsWarned
  BY DEF Established, ToldInv
\* What the dialog can load.
<1>m. ASSUME NEW r \in Recording, row[r] \in Done, NEW made \in Loads(r)
      PROVE  Honest(made.speakers, launched[r].token)
  <2>1. made = Empty \/ made = Json(r)
    BY DEF Loads, Json
  <2> QED BY <1>0, <1>m, <2>1 DEF Honest, Empty, UndiarizedIsWarned, Done
<1>1. ASSUME NEW r \in Recording, OpenSpeakers(r) PROVE DialogTold'
  <2>1. PICK made \in Loads(r) : dialog' = [pc |-> "open", rec |-> r, made |-> made, next |-> 1]
    BY <1>1 DEF OpenSpeakers
  <2>2. row[r] \in Done /\ UNCHANGED launched
    BY <1>1 DEF OpenSpeakers, Done
  <2> QED BY <1>m, <2>1, <2>2 DEF DialogTold
<1>2. ASSUME NEW s \in Label, NEW n \in Name, Rename(s, n) PROVE DialogTold'
  <2>1. dialog.pc = "open" /\ IsDialog /\ UNCHANGED launched /\ dialog.made.speakers \in Selectable
    BY <1>0, <1>2 DEF Rename, Shape
  <2>2. dialog'.rec = dialog.rec /\ dialog'.made.speakers = dialog.made.speakers
    BY <1>2, <2>1 DEF Rename, IsDialog
  <2> QED BY <1>0, <2>1, <2>2 DEF DialogTold, Selectable
<1>3. CASE RenameWrites
  <2>1. /\ dialog.pc = "write" /\ dialog.rec \in Recording /\ IsDialog /\ UNCHANGED launched
        /\ row[dialog.rec] \in Done
    BY <1>0, <1>3 DEF RenameWrites, Shape, OwnerInv
  <2>2. /\ dialog'.rec = dialog.rec
        /\ dialog'.made = dialog.made \/ (dialog'.pc = "open" /\ dialog'.made \in Loads(dialog.rec))
    BY <1>3, <2>1 DEF RenameWrites, IsDialog
  <2> QED BY <1>0, <1>m, <2>1, <2>2 DEF DialogTold
<1>4. CASE RenameRaises
  <2>1. dialog.pc = "write" /\ IsDialog /\ UNCHANGED launched
    BY <1>0, <1>4 DEF RenameRaises, Shape
  <2>2. dialog'.rec = dialog.rec /\ dialog'.made = dialog.made
    BY <1>4, <2>1 DEF RenameRaises, IsDialog
  <2> QED BY <1>0, <2>1, <2>2 DEF DialogTold
<1>5. CASE CloseSpeakers
  BY <1>5 DEF CloseSpeakers, Closed, DialogTold
<1>6. CASE UNCHANGED dialog
  <2>1. CASE dialog.pc = "closed"
    BY <1>6, <2>1 DEF DialogTold
  <2>2. CASE dialog.pc # "closed"
    <3>1. dialog.rec \in Recording /\ ~(worker.pc = "write" /\ dialog.rec = worker.rec)
      BY <1>0, <2>2 DEF Shape, OwnerInv, Done
    <3>2. launched'[dialog.rec] = launched[dialog.rec]
      BY <3>1, LaunchedChanges
    <3> QED BY <1>0, <1>6, <3>2 DEF DialogTold
  <2> QED BY <2>1, <2>2
<1>7. CASE ProfileChanges
  <2>1. dialog.rec \in Recording /\ row[dialog.rec] \in Done
    BY <1>0, <1>7 DEF ProfileChanges, Shape, OwnerInv
  <2> QED BY <1>0, <1>7, <1>m, <2>1, ProfileEffect DEF DialogTold
<1> QED BY <1>1, <1>2, <1>3, <1>4, <1>5, <1>6, <1>7, StepsChange DEF Footprint, DialogSteps

LEMMA StepRowsTold == ASSUME Established, TypeInv, ToldInv, [Next]_vars PROVE UndiarizedIsWarned'
<1>0. Shape /\ OwnerInv /\ WorkerTold /\ DialogTold /\ UndiarizedIsWarned
  BY DEF Established, ToldInv
<1> SUFFICES ASSUME NEW r \in Recording, row'[r] \in Done
             PROVE  /\ Honest(Json(r)'.speakers, launched'[r].token)
                    /\ Json(r)'.speakers = "missing" => row'[r] = "warned"
  BY DEF UndiarizedIsWarned, Honest, Done, Json
<1>1. CASE RowEnds /\ r = worker.rec
  <2>1. row'[r] = worker.pc /\ UNCHANGED <<files, launched>>
    BY <1>0, <1>1 DEF RowEnds, Shape
  <2> QED BY <1>0, <1>1, <2>1 DEF WorkerTold, Done, Json
<1>2. CASE ~(RowEnds /\ r = worker.rec)
  <2>1. row[r] \in Done /\ row'[r] = row[r]
    <3>1. UNCHANGED row \/ RowEnds \/ \E q \in Recording : Launch(q) \/ Retry(q)
      BY StepsChange DEF Footprint
    <3>2. ASSUME NEW q \in Recording, Launch(q) PROVE row[r] \in Done /\ row'[r] = row[r]
      BY <1>0, <3>2 DEF Launch, Shape, Done
    <3>3. ASSUME NEW q \in Recording, Retry(q) PROVE row[r] \in Done /\ row'[r] = row[r]
      BY <1>0, <3>3 DEF Retry, Shape, Done
    <3>4. CASE RowEnds
      BY <1>0, <1>2, <3>4 DEF RowEnds, Shape
    <3> QED BY <3>1, <3>2, <3>3, <3>4
  <2>2. ~(worker.pc = "write" /\ r = worker.rec)
    BY <1>0, <2>1 DEF OwnerInv, Done
  <2>3. launched'[r] = launched[r]
    BY <2>2, LaunchedChanges
  <2>4. Json(r)' = Json(r) \/ (RenameWrites /\ r = dialog.rec /\ Json(r)' = dialog.made)
    BY <2>2, JsonChanges DEF JsonChange, Export
  <2>5. CASE Json(r)' = Json(r)
    BY <1>0, <2>1, <2>3, <2>5 DEF UndiarizedIsWarned, Honest, Done
  <2>6. CASE RenameWrites /\ r = dialog.rec /\ Json(r)' = dialog.made
    BY <1>0, <2>3, <2>6 DEF DialogTold, RenameWrites
  <2> QED BY <2>4, <2>5, <2>6
<1> QED BY <1>1, <1>2

\* Without a readable token, and when diarization failed, a completed recording has
\* no labels and a warning, whatever its other attempts had (_start_next_job,
\* run_job, write_transcript_outputs).
THEOREM UndiarizedHasWarning == Spec => []UndiarizedIsWarned
<1>1. Established /\ TypeInv /\ ToldInv /\ [Next]_vars => ToldInv'
  BY StepWorkerTold, StepDialogTold, StepRowsTold DEF ToldInv
<1>2. ToldInv => UndiarizedIsWarned
  BY DEF ToldInv
<1> QED BY <1>1, <1>2, InitTold, TypesHold, PTL DEF Spec

------------------------------------------------------------------------------
(* The names. *)

\* Each of these names was typed for its speaker, or is of a clear match at this launch.
Consented(names, r, launch, given) ==
  \A s \in Label : \/ names[s] \in given[s] \cup {NoName}
                   \/ ClearMatch(names[s], Speaks[r][s], launch)

WorkerConsent == worker.pc = "write" =>
  Consented(worker.made.names, worker.rec, worker.launch, typed[worker.rec])
DialogConsent == dialog.pc # "closed" =>
  Consented(dialog.made.names, dialog.rec, launched[dialog.rec], typed[dialog.rec])

\* A name in memory has the same right to be there as one in transcript.json.
ConsentInv == WorkerConsent /\ DialogConsent /\ NamesAreConsented

LEMMA InitConsent == Init => ConsentInv
  BY DEF Init, ConsentInv, WorkerConsent, DialogConsent, NamesAreConsented, NoWorker, Closed,
         Json, Whole, Missing, Format

LEMMA JsonConsent == NamesAreConsented <=>
  \A r \in Recording : Whole(Json(r)) => Consented(Json(r).names, r, launched[r], typed[r])
  BY DEF NamesAreConsented, Consented

\* What the user has typed is never forgotten.
LEMMA TypedGrows ==
  ASSUME Shape, [Next]_vars
  PROVE  \A r \in Recording : \A s \in Label : typed[r][s] \subseteq typed'[r][s]
<1>1. ASSUME NEW s \in Label, NEW n \in Name, Rename(s, n)
      PROVE  \A r \in Recording : \A t \in Label : typed[r][t] \subseteq typed'[r][t]
  <2>1. typed' = [typed EXCEPT ![dialog.rec][s] = @ \cup {n}] /\ dialog.rec \in Recording
    BY <1>1 DEF Rename, Shape
  <2> QED BY <2>1 DEF Shape
<1> QED BY <1>1, StepsChange DEF Footprint

LEMMA ConsentGrows ==
  ASSUME NEW names, NEW r, NEW launch, NEW given, NEW more,
         Consented(names, r, launch, given), \A s \in Label : given[s] \subseteq more[s]
  PROVE  Consented(names, r, launch, more)
  BY DEF Consented

\* The worker's names are NoName or a clear match from the moment it has them.
LEMMA StepWorkerConsent ==
  ASSUME Established, TypeInv, ConsentInv, [Next]_vars PROVE WorkerConsent'
<1>0. Shape
  BY DEF Established
<1>1. CASE Transcribe
  <2> DEFINE l == worker.launch
             r == worker.rec
  <2>1. l \in Launches /\ r \in Recording /\ IsWorker /\ worker.pc = "run"
    BY <1>1 DEF Transcribe, TypeInv, WorkerType, Established, Shape
  <2>2. PICK aligned, matched \in BOOLEAN, speakers \in Speakers :
          worker' = [worker EXCEPT !.pc = "write",
            !.warned = Warned(l, aligned, speakers, matched),
            !.made = [v |-> count.v[r] + 1, speakers |-> speakers,
                      names |-> Matched(r, l, speakers = "voiced" /\ matched)]]
    BY <1>1 DEF Transcribe
  <2>3. /\ worker'.launch = l /\ worker'.rec = r
        /\ worker'.made.names = Matched(r, l, speakers = "voiced" /\ matched)
    BY <2>1, <2>2 DEF IsWorker
  <2>4. \A s \in Label : LET n == Match(Speaks[r][s], l.profiles, l.threshold)
                         IN  n = NoName \/ ClearMatch(n, Speaks[r][s], l)
    BY <2>1, MatchIsClear, VoiceAssumption
  <2>5. \A s \in Label : \/ worker'.made.names[s] = NoName
                         \/ ClearMatch(worker'.made.names[s], Speaks[r][s], l)
    BY <2>3, <2>4 DEF Matched
  <2> QED BY <2>3, <2>5 DEF WorkerConsent, Consented
<1>2. CASE Export
  <2>1. /\ worker.pc = "write" /\ IsWorker /\ typed' = typed
    BY <1>2, <1>0 DEF Export, Shape
  <2>2. worker'.made = worker.made /\ worker'.rec = worker.rec /\ worker'.launch = worker.launch
    BY <1>2, <2>1 DEF Export, IsWorker
  <2> QED BY <2>1, <2>2 DEF ConsentInv, WorkerConsent
<1>3. CASE Manifest \/ WorkerFails \/ RowEnds \/ \E r \in Recording : Launch(r)
  <2>1. ASSUME NEW r \in Recording, Launch(r) PROVE worker'.pc # "write"
    BY <2>1 DEF Launch
  <2>2. CASE Manifest \/ WorkerFails
    <3>1. worker.pc # "idle" /\ IsWorker
      BY <1>0, <2>2 DEF Manifest, WorkerFails, Shape
    <3>2. worker'.pc # "write"
      BY <2>2, <3>1 DEF Manifest, WorkerFails, IsWorker
    <3> QED BY <3>2 DEF WorkerConsent
  <2>3. CASE RowEnds
    BY <2>3 DEF RowEnds, NoWorker, WorkerConsent
  <2> QED BY <1>3, <2>1, <2>2, <2>3 DEF WorkerConsent
<1>4. CASE UNCHANGED worker
  <2> SUFFICES ASSUME worker.pc = "write"
               PROVE  Consented(worker.made.names, worker.rec, worker.launch, typed'[worker.rec])
    BY <1>4 DEF WorkerConsent
  <2>1. worker.rec \in Recording
    BY <1>0 DEF Shape
  <2> QED BY <1>0, <2>1, TypedGrows, ConsentGrows DEF ConsentInv, WorkerConsent
<1> QED BY <1>1, <1>2, <1>3, <1>4, StepsChange DEF Footprint, WorkerSteps

LEMMA EmptyConsent == ASSUME NEW r, NEW launch, NEW given
                      PROVE  Consented(Empty.names, r, launch, given)
  BY DEF Consented, Empty

\* The dialog holds what it has loaded, and what the user typed since.
LEMMA StepDialogConsent ==
  ASSUME Established, TypeInv, ConsentInv, NamesAreConsented', [Next]_vars PROVE DialogConsent'
<1>0. Shape /\ FilesType /\ DoneIsWhole /\ OwnerInv
  BY DEF Established, TypeInv
<1>1. ASSUME NEW r \in Recording, OpenSpeakers(r) PROVE DialogConsent'
  <2>1. PICK made \in Loads(r) : dialog' = [pc |-> "open", rec |-> r, made |-> made, next |-> 1]
    BY <1>1 DEF OpenSpeakers
  <2>2. Whole(Json(r)) /\ UNCHANGED <<launched, typed>>
    BY <1>0, <1>1 DEF OpenSpeakers, DoneIsWhole, Done
  <2>3. made = Empty \/ made = Json(r)
    BY DEF Loads, Json
  <2>4. Consented(made.names, r, launched[r], typed[r])
    BY <2>2, <2>3, EmptyConsent, JsonConsent DEF ConsentInv
  <2> QED BY <2>1, <2>2, <2>4 DEF DialogConsent
<1>2. ASSUME NEW s \in Label, NEW n \in Name, Rename(s, n) PROVE DialogConsent'
  <2> DEFINE r == dialog.rec
  <2>1. /\ dialog.pc = "open" /\ r \in Recording /\ IsDialog /\ dialog.made \in Transcript
        /\ launched' = launched /\ typed' = [typed EXCEPT ![r][s] = @ \cup {n}]
    BY <1>2 DEF Rename, TypeInv, DialogType, Established, Shape
  <2>2. dialog'.rec = r /\ dialog'.made.names = [dialog.made.names EXCEPT ![s] = n]
    BY <1>2, <2>1 DEF Rename, IsDialog
  <2>3. n \in typed'[r][s]
    BY <1>0, <2>1 DEF Shape
  <2>4. Consented(dialog.made.names, r, launched[r], typed'[r])
    BY <1>0, <2>1, TypedGrows, ConsentGrows DEF ConsentInv, DialogConsent
  <2>5. Consented(dialog'.made.names, r, launched[r], typed'[r])
    BY <2>1, <2>2, <2>3, <2>4 DEF Consented, Transcript
  <2> QED BY <2>1, <2>2, <2>5 DEF DialogConsent
<1>3. CASE RenameWrites
  <2> DEFINE r == dialog.rec
  <2>1. dialog.pc = "write" /\ r \in Recording /\ IsDialog /\ UNCHANGED <<launched, typed>>
    BY <1>3, <1>0 DEF RenameWrites, Shape
  <2>2. dialog'.rec = r /\ (dialog'.made = dialog.made \/ dialog'.made \in Loads(r))
    BY <1>3, <2>1 DEF RenameWrites, IsDialog
  <2>3. ASSUME dialog'.made \in Loads(r)
        PROVE  Consented(dialog'.made.names, r, launched[r], typed[r])
    <3>1. Whole(Json(r))
      BY <1>0, <2>1 DEF OwnerInv, DoneIsWhole
    <3>2. dialog'.made = Empty \/ dialog'.made = Json(r)
      BY <2>3 DEF Loads, Json
    <3> QED BY <2>1, <3>1, <3>2, EmptyConsent, JsonConsent DEF ConsentInv
  <2> QED BY <2>1, <2>2, <2>3 DEF ConsentInv, DialogConsent
<1>4. CASE RenameRaises
  <2>1. /\ dialog.pc = "write" /\ IsDialog /\ UNCHANGED <<launched, typed>>
    BY <1>4, <1>0 DEF RenameRaises, Shape
  <2>2. dialog'.rec = dialog.rec /\ dialog'.made = dialog.made
    BY <1>4, <2>1 DEF RenameRaises, IsDialog
  <2> QED BY <2>1, <2>2 DEF ConsentInv, DialogConsent
<1>5. CASE CloseSpeakers
  BY <1>5 DEF CloseSpeakers, Closed, DialogConsent
<1>6. CASE UNCHANGED dialog
  <2> SUFFICES ASSUME dialog.pc # "closed"
               PROVE  Consented(dialog.made.names, dialog.rec, launched'[dialog.rec], typed'[dialog.rec])
    BY <1>6 DEF DialogConsent
  <2>1. dialog.rec \in Recording
    BY <1>0 DEF Shape
  <2>2. launched'[dialog.rec] = launched[dialog.rec]
    <3>1. ASSUME Export PROVE launched'[dialog.rec] = launched[dialog.rec]
      <4>1. worker.rec # dialog.rec
        BY <1>0, <3>1 DEF Export, OwnerInv, Done
      <4> QED BY <2>1, <3>1, <4>1 DEF Export, TypeInv
    <3> QED BY <3>1, StepsChange DEF Footprint
  <2> QED BY <1>0, <2>1, <2>2, TypedGrows, ConsentGrows DEF ConsentInv, DialogConsent
<1>7. CASE ProfileChanges
  <2> DEFINE r == dialog.rec
  <2>1. r \in Recording /\ dialog'.rec = r /\ dialog'.made \in Loads(r) /\ UNCHANGED <<launched, typed>>
    BY <1>0, <1>7, ProfileEffect DEF ProfileChanges, Shape
  <2>2. Whole(Json(r))
    BY <1>0, <1>7, <2>1 DEF ProfileChanges, OwnerInv, DoneIsWhole
  <2>3. dialog'.made = Empty \/ dialog'.made = Json(r)
    BY <2>1 DEF Loads, Json
  <2>4. Consented(dialog'.made.names, r, launched[r], typed[r])
    BY <2>1, <2>2, <2>3, EmptyConsent, JsonConsent DEF ConsentInv
  <2> QED BY <2>1, <2>4 DEF DialogConsent
<1> QED BY <1>1, <1>2, <1>3, <1>4, <1>5, <1>6, <1>7, StepsChange DEF Footprint, DialogSteps

\* transcript.json gets its names, and launched its launch, from one worker, or
\* its names from the dialog.
LEMMA StepJsonConsent ==
  ASSUME Established, TypeInv, ConsentInv, [Next]_vars PROVE NamesAreConsented'
<1>0. Shape /\ JsonInv /\ ResultInv
  BY DEF Established
<1> SUFFICES ASSUME NEW r \in Recording, Whole(Json(r))'
             PROVE  Consented(Json(r)'.names, r, launched'[r], typed'[r])
  BY DEF NamesAreConsented, Consented
<1>1. \A s \in Label : typed[r][s] \subseteq typed'[r][s]
  BY <1>0, TypedGrows
<1>2. CASE Export /\ r = worker.rec
  <2>1. worker.pc = "write" /\ worker.next \in 1..5 /\ launched'[r] = worker.launch
    BY <1>2 DEF Export, TypeInv, WorkerType
  <2>2. Json(r)' = worker.made
    <3>1. CASE worker.next = 1
      <4>1. Write(r, 1, worker.made) /\ worker.made.v \in Int /\ FilesShape
        BY <1>2, <1>0, <3>1 DEF Export, JsonInv, TypeInv, WorkerType, Transcript
      <4> QED BY <4>1, WriteEffect, FormatOrder, AllFormats DEF Json
    <3>2. CASE worker.next # 1
      <4>1. Json(r) = worker.made
        BY <1>0, <1>2, <2>1, <3>2, FormatOrder DEF ResultInv, WorkerResult, Json
      <4>2. ~(RenameWrites /\ r = dialog.rec)
        BY <1>2, <2>1 DEF RenameWrites, Established, OwnerInv, Done
      <4>3. Json(r)' = Json(r)
        BY <3>2, <4>2, JsonChanges DEF JsonChange
      <4> QED BY <4>1, <4>3
    <3> QED BY <3>1, <3>2
  <2>3. Consented(worker.made.names, r, worker.launch, typed[r])
    BY <1>2, <2>1 DEF ConsentInv, WorkerConsent
  <2> QED BY <1>1, <2>1, <2>2, <2>3, ConsentGrows
<1>3. CASE ~(Export /\ r = worker.rec)
  <2>1. launched'[r] = launched[r]
    <3>1. ASSUME Export PROVE launched'[r] = launched[r]
      BY <1>3, <3>1 DEF Export, TypeInv
    <3> QED BY <3>1, StepsChange DEF Footprint
  <2>2. CASE Json(r)' = Json(r)
    <3>1. Whole(Json(r))
      BY <2>2 DEF Whole
    <3>2. Consented(Json(r).names, r, launched[r], typed[r])
      BY <3>1, JsonConsent DEF ConsentInv
    <3> QED BY <1>1, <2>1, <2>2, <3>2, ConsentGrows
  <2>3. CASE RenameWrites /\ r = dialog.rec /\ Json(r)' = dialog.made
    <3>1. Consented(dialog.made.names, r, launched[r], typed[r])
      BY <2>3 DEF ConsentInv, DialogConsent, RenameWrites
    <3> QED BY <1>1, <2>1, <2>3, <3>1, ConsentGrows
  <2> QED BY <1>3, <2>2, <2>3, JsonChanges DEF JsonChange
<1> QED BY <1>2, <1>3

\* A name in a transcript was typed by the user for that speaker, or is of the one
\* profile that matched clearly when the worker was launched (match_embedding,
\* SpeakerDialog.rename_selected).
THEOREM NamesHaveConsent == Spec => []NamesAreConsented
<1>1. Init => Established /\ TypeInv /\ ConsentInv
  BY InitOwner, InitJson, InitResult, InitTypes, InitConsent DEF Established
<1>2. Established /\ TypeInv /\ ConsentInv /\ [Next]_vars => (Established /\ TypeInv /\ ConsentInv)'
  BY StepOwner, StepJson, StepResult, StepTypes, StepWorkerConsent, StepDialogConsent,
     StepJsonConsent DEF Established, ConsentInv
<1>3. ConsentInv => NamesAreConsented
  BY DEF ConsentInv
<1> QED BY <1>1, <1>2, <1>3, PTL DEF Spec
==============================================================================
