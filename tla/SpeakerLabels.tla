---------------------------- MODULE SpeakerLabels ----------------------------
(***************************************************************************)
(* How a speaker gets a name.  The profiles of voices the user asked to    *)
(* remember (database.py) are copied to each worker at its launch          *)
(* (controller.py); the worker matches the recording's voices with the     *)
(* copy (speaker_profiles.py) and writes the five exports one after the    *)
(* other (exports.py); the dialog of a completed recording renames its     *)
(* speakers by writing all five again (ui.py).                             *)
(*                                                                         *)
(* A voice is a point on a line, the centroid of a profile another, and    *)
(* their similarity falls with the distance.  What becomes of the rows and *)
(* processes is WorkerSupervision's; here a row ends as its worker does.   *)
(***************************************************************************)
EXTENDS Integers, Sequences

CONSTANTS
  Recording, Label, Name, NoName,
  Voice,          \* the voices, natural numbers
  Speaks,         \* the voice behind each label of each recording
  Threshold,      \* the values the user may give speaker_match_threshold
  Margin,         \* ambiguity_margin
  MaxSimilarity,  \* of a voice with itself
  MaxRuns,        \* bound: launches
  MaxRenames,     \* bound: renames
  MaxReferences,  \* bound: voices remembered and profiles removed
  MaxFaults       \* bound: failed writes and reads, processes that die

ASSUME VoiceAssumption ==
  /\ Voice \subseteq Nat /\ Threshold \subseteq Nat /\ Threshold # {}
  /\ Margin \in Nat \ {0} /\ MaxSimilarity \in Nat
  /\ Speaks \in [Recording -> [Label -> Voice]]
  /\ NoName \notin Name
ASSUME BoundsAssumption ==
  MaxRuns \in Nat /\ MaxRenames \in Nat /\ MaxReferences \in Nat /\ MaxFaults \in Nat

VARIABLES
  profiles,   \* the table: the centroid of each name and how many voices it is made of
  token,      \* a diarization token is saved
  row,        \* the status of each recording
  files,      \* what each of the five exports holds
  worker,     \* the worker process
  dialog,     \* the speakers dialog
  typed,      \* history: the names the user has typed for each speaker
  launched,   \* history: the launch whose result is in transcript.json
  count       \* what the bounds limit, and the versions of each transcript

vars == <<profiles, token, row, files, worker, dialog, typed, launched, count>>

\* Mutant: transcript.json is written when the others are.
FormatsTextFirst == <<"txt", "srt", "vtt", "tsv", "json">>

Formats == <<"json", "txt", "srt", "vtt", "tsv">>
Format  == {"json", "txt", "srt", "vtt", "tsv"}

\* What diarization has made of the speakers: it was not done or failed, it found
\* nobody, it gave labels without or with embeddings of the voices.
Speakers   == {"missing", "nobody", "labelled", "voiced"}
Selectable == {"labelled", "voiced"}

\* A transcript: its version, its speakers, and their names.
Transcript == [v : Nat, speakers : Speakers, names : [Label -> Name \cup {NoName}]]
Empty   == [v |-> 0, speakers |-> "missing", names |-> [l \in Label |-> NoName]]
Missing == [v |-> 0]
Torn    == [v |-> -1]    \* opened for writing, and not written to its end
Whole(content) == content.v > 0

Profiles == [Name -> [at : Nat, refs : 0..MaxReferences]]
Launches == [profiles : Profiles, threshold : Threshold, token : BOOLEAN]
NoWorker == [pc |-> "idle"]
Closed   == [pc |-> "closed"]

TypeOK ==
  /\ profiles \in Profiles
  /\ token \in BOOLEAN
  /\ row \in [Recording -> {"queued", "processing", "failed", "completed", "warned"}]
  /\ \A r \in Recording, f \in Format :
       files[r][f] \in Transcript \cup {Missing, Torn} /\ files[r]["json"] # Torn
  /\ \/ worker = NoWorker
     \/ /\ worker.pc \in {"run", "write", "manifest", "completed", "warned", "failed"}
        /\ worker.rec \in Recording /\ worker.launch \in Launches
        /\ worker.made \in Transcript /\ worker.next \in 1..5 /\ worker.warned \in BOOLEAN
  /\ \/ dialog = Closed
     \/ /\ dialog.pc \in {"open", "write"} /\ dialog.rec \in Recording
        /\ dialog.made \in Transcript /\ dialog.next \in 1..5
  /\ typed \in [Recording -> [Label -> SUBSET Name]]
  /\ launched \in [Recording -> Launches]
  /\ count.runs <= MaxRuns /\ count.renames <= MaxRenames
  /\ count.references <= MaxReferences /\ count.faults <= MaxFaults

Init ==
  /\ profiles = [n \in Name |-> [at |-> 0, refs |-> 0]]
  /\ token \in BOOLEAN
  /\ row = [r \in Recording |-> "queued"]
  /\ files = [r \in Recording |-> [f \in Format |-> Missing]]
  /\ worker = NoWorker
  /\ dialog = Closed
  /\ typed = [r \in Recording |-> [l \in Label |-> {}]]
  /\ launched = [r \in Recording |->
       [profiles |-> profiles, threshold |-> CHOOSE t \in Threshold : TRUE, token |-> FALSE]]
  /\ count = [runs |-> 0, renames |-> 0, references |-> 0, faults |-> 0,
              v |-> [r \in Recording |-> 0]]

Fault == count.faults < MaxFaults /\ count' = [count EXCEPT !.faults = @ + 1]

------------------------------------------------------------------------------
(* speaker_profiles.py *)

Known(table)      == {n \in Name : table[n].refs > 0}
Similarity(v, p)  == MaxSimilarity - (IF v < p.at THEN p.at - v ELSE v - p.at)

\* The candidate that a sort by falling similarity puts first.
MostSimilar(v, table, candidates) ==
  CHOOSE n \in candidates : \A m \in candidates : Similarity(v, table[m]) <= Similarity(v, table[n])

\* Mutant: a near tie goes to the first.
MatchBest(v, table, threshold) ==
  LET best == MostSimilar(v, table, Known(table))
  IN  IF Known(table) = {} \/ Similarity(v, table[best]) < threshold THEN NoName ELSE best

\* match_embedding: the best candidate must reach the threshold and be ahead of
\* the second by the margin.
Match(v, table, threshold) ==
  LET best   == MostSimilar(v, table, Known(table))
      others == Known(table) \ {best}
      S(n)   == Similarity(v, table[n])
  IN  IF \/ Known(table) = {}
         \/ S(best) < threshold
         \/ others # {} /\ S(best) - S(MostSimilar(v, table, others)) < Margin
      THEN NoName
      ELSE best

\* apply_profile_matches: the name of every label, and none when it did not run.
Matched(r, launch, ran) ==
  [s \in Label |-> IF ran THEN Match(Speaks[r][s], launch.profiles, launch.threshold) ELSE NoName]

\* updated_centroid
Fold(p, v) == [at |-> (p.at * p.refs + v) \div (p.refs + 1), refs |-> p.refs + 1]

------------------------------------------------------------------------------
(* write_transcript_outputs, for the worker and for the dialog. *)

\* Export k is written: transcript.json first and by replacement, the others in place.
Write(r, k, content) == files' = [files EXCEPT ![r][Formats[k]] = content]

\* Mutant: transcript.json is written in place, too.
CutAnywhere(r, k) ==
  \/ files' = files
  \/ files' = [files EXCEPT ![r][Formats[k]] = Torn]

\* The write of export k is cut short: only transcript.json is never torn.
CutShort(r, k) ==
  \/ files' = files
  \/ Formats[k] # "json" /\ files' = [files EXCEPT ![r][Formats[k]] = Torn]

------------------------------------------------------------------------------
(* The controller and the worker. *)

\* _start_next_job: the token is read, or cannot be; the profiles and the
\* threshold are copied.
Launch(r) ==
  /\ worker = NoWorker /\ row[r] = "queued" /\ count.runs < MaxRuns
  /\ \E threshold \in Threshold, found \in BOOLEAN :
       /\ found => token
       /\ token /\ ~found => count.faults < MaxFaults
       /\ worker' = [pc |-> "run", rec |-> r, made |-> Empty, next |-> 1, warned |-> FALSE,
                     launch |-> [profiles |-> profiles, threshold |-> threshold, token |-> found]]
       /\ count' = [count EXCEPT !.runs = @ + 1, !.faults = @ + (IF token /\ ~found THEN 1 ELSE 0)]
  /\ row' = [row EXCEPT ![r] = "processing"]
  /\ UNCHANGED <<profiles, token, files, dialog, typed, launched>>

\* Mutant: a missing token is not worth a warning.
WarnedIfFailed(launch, aligned, speakers, matched) ==
  ~aligned \/ (launch.token /\ speakers = "missing") \/ ~matched

\* A failed alignment, a missing token, and an exception of diarization or of the
\* profile matching each add a warning; a diarization that finds nobody does not.
Warned(launch, aligned, speakers, matched) ==
  ~aligned \/ speakers = "missing" \/ ~matched

\* The stages of run_job up to the exports; what a failed stage would have added
\* is missing from the transcript, which is kept.
Transcribe ==
  /\ worker.pc = "run"
  /\ LET r == worker.rec
         l == worker.launch IN
     \E aligned, matched \in BOOLEAN, speakers \in Speakers :
       /\ speakers # "missing" => l.token
       /\ ~matched => speakers = "voiced"
       /\ worker' = [worker EXCEPT !.pc = "write",
            !.warned = Warned(l, aligned, speakers, matched),
            !.made = [v |-> count.v[r] + 1, speakers |-> speakers,
                      names |-> Matched(r, l, speakers = "voiced" /\ matched)]]
       /\ count' = [count EXCEPT !.v[r] = @ + 1]
  /\ UNCHANGED <<profiles, token, row, files, dialog, typed, launched>>

\* Mutant: the last export is forgotten.
ExportButOne ==
  /\ worker.pc = "write"
  /\ Write(worker.rec, worker.next, worker.made)
  /\ worker' = IF worker.next < Len(Formats) - 1 THEN [worker EXCEPT !.next = @ + 1]
               ELSE [worker EXCEPT !.pc = "manifest"]
  /\ launched' = [launched EXCEPT ![worker.rec] = worker.launch]
  /\ UNCHANGED <<profiles, token, row, dialog, typed, count>>

Export ==
  /\ worker.pc = "write"
  /\ Write(worker.rec, worker.next, worker.made)
  /\ worker' = IF worker.next < Len(Formats) THEN [worker EXCEPT !.next = @ + 1]
               ELSE [worker EXCEPT !.pc = "manifest"]
  /\ launched' = [launched EXCEPT ![worker.rec] = worker.launch]
  /\ UNCHANGED <<profiles, token, row, dialog, typed, count>>

\* write_manifest, and the status it and the completed event carry.
Manifest ==
  /\ worker.pc = "manifest"
  /\ worker' = [worker EXCEPT !.pc = IF worker.warned THEN "warned" ELSE "completed"]
  /\ UNCHANGED <<profiles, token, row, files, dialog, typed, launched, count>>

\* A stage or a write raises, the user stops the worker, or it dies.
WorkerFails ==
  /\ worker.pc \in {"run", "write", "manifest"} /\ Fault
  /\ \/ worker.pc = "write" /\ CutShort(worker.rec, worker.next)
     \/ worker.pc # "write" /\ files' = files
  /\ worker' = [worker EXCEPT !.pc = "failed"]
  /\ UNCHANGED <<profiles, token, row, dialog, typed, launched>>

\* The row ends as the worker did, by its last event or by its manifest.
RowEnds ==
  /\ worker.pc \in {"completed", "warned", "failed"}
  /\ row' = [row EXCEPT ![worker.rec] = worker.pc]
  /\ worker' = NoWorker
  /\ UNCHANGED <<profiles, token, files, dialog, typed, launched, count>>

\* Mutant: every row that has ended can be retried.
RetryAny(r) ==
  /\ row[r] \in {"failed", "completed", "warned"}
  /\ row' = [row EXCEPT ![r] = "queued"]
  /\ UNCHANGED <<profiles, token, files, worker, dialog, typed, launched, count>>

Retry(r) ==
  /\ row[r] = "failed"
  /\ row' = [row EXCEPT ![r] = "queued"]
  /\ UNCHANGED <<profiles, token, files, worker, dialog, typed, launched, count>>

------------------------------------------------------------------------------
(* The speakers dialog, and the token in the settings dialog. *)

\* A transcript that cannot be read is shown as one without speakers.
Loads(r) == {files[r]["json"]} \cup (IF count.faults < MaxFaults THEN {Empty} ELSE {})
Misread(r, made) == IF made = files[r]["json"] THEN 0 ELSE 1

OpenSpeakers(r) ==
  /\ dialog = Closed
  /\ row[r] \in {"completed", "warned"}
  /\ \E made \in Loads(r) :
       /\ dialog' = [pc |-> "open", rec |-> r, made |-> made, next |-> 1]
       /\ count' = [count EXCEPT !.faults = @ + Misread(r, made)]
  /\ UNCHANGED <<profiles, token, row, files, worker, typed, launched>>

\* rename_selected changes the transcript in memory, then writes all of it.
Rename(s, n) ==
  /\ dialog.pc = "open" /\ dialog.made.speakers \in Selectable
  /\ count.renames < MaxRenames
  /\ LET r == dialog.rec IN
       /\ dialog' = [dialog EXCEPT !.pc = "write", !.next = 1,
            !.made = [v |-> count.v[r] + 1, speakers |-> @.speakers,
                      names |-> [@.names EXCEPT ![s] = n]]]
       /\ typed' = [typed EXCEPT ![r][s] = @ \cup {n}]
       /\ count' = [count EXCEPT !.renames = @ + 1, !.v[r] = @ + 1]
  /\ UNCHANGED <<profiles, token, row, files, worker, launched>>

\* The last export is followed by _load.
RenameWrites ==
  /\ dialog.pc = "write"
  /\ Write(dialog.rec, dialog.next, dialog.made)
  /\ IF dialog.next < Len(Formats)
     THEN dialog' = [dialog EXCEPT !.next = @ + 1] /\ UNCHANGED count
     ELSE \E made \in Loads(dialog.rec) :
            /\ dialog' = [dialog EXCEPT !.pc = "open", !.next = 1, !.made = made]
            /\ count' = [count EXCEPT !.faults = @ + Misread(dialog.rec, made)]
  /\ UNCHANGED <<profiles, token, row, worker, typed, launched>>

\* Nothing catches it: the list is not loaded again, the name stays in memory
\* until the dialog writes or loads the next time.
RenameRaises ==
  /\ dialog.pc = "write" /\ Fault
  /\ CutShort(dialog.rec, dialog.next)
  /\ dialog' = [dialog EXCEPT !.pc = "open", !.next = 1]
  /\ UNCHANGED <<profiles, token, row, worker, typed, launched>>

\* The dialog is closed, or the program exits while it writes.
CloseSpeakers ==
  /\ \/ dialog.pc = "open" /\ UNCHANGED <<files, count>>
     \/ dialog.pc = "write" /\ Fault /\ CutShort(dialog.rec, dialog.next)
  /\ dialog' = Closed
  /\ UNCHANGED <<profiles, token, row, worker, typed, launched>>

\* A change of the profiles is followed by _load, too.
ChangeProfile(n, profile) ==
  /\ count.references < MaxReferences
  /\ profiles' = [profiles EXCEPT ![n] = profile]
  /\ \E made \in Loads(dialog.rec) :
       /\ dialog' = [dialog EXCEPT !.made = made]
       /\ count' = [count EXCEPT !.references = @ + 1, !.faults = @ + Misread(dialog.rec, made)]
  /\ UNCHANGED <<token, row, files, worker, typed, launched>>

\* Without an embedding the user is told that there is nothing to remember.
Remember(s, n) ==
  /\ dialog.pc = "open" /\ dialog.made.speakers = "voiced"
  /\ ChangeProfile(n, Fold(profiles[n], Speaks[dialog.rec][s]))

RemoveProfile(n) ==
  /\ dialog.pc = "open" /\ n \in Known(profiles)
  /\ ChangeProfile(n, [at |-> 0, refs |-> 0])

SetToken ==
  /\ token' = ~token
  /\ UNCHANGED <<profiles, row, files, worker, dialog, typed, launched, count>>

------------------------------------------------------------------------------
WorkerSteps == Transcribe \/ Export \/ Manifest \/ WorkerFails \/ RowEnds
DialogSteps == RenameWrites \/ RenameRaises \/ CloseSpeakers
UserActs ==
  \/ SetToken
  \/ \E r \in Recording : Retry(r) \/ OpenSpeakers(r)
  \/ \E s \in Label, n \in Name : Rename(s, n) \/ Remember(s, n)
  \/ \E n \in Name : RemoveProfile(n)

Next == WorkerSteps \/ DialogSteps \/ UserActs \/ \E r \in Recording : Launch(r)

Spec == Init /\ [][Next]_vars

------------------------------------------------------------------------------
(* Properties. *)

Json(r) == files[r]["json"]

\* No export is ahead of transcript.json, which is what the dialog and recovery
\* read: a rename or an attempt that was cut short leaves every whole export at
\* the version of transcript.json or an older one.
JsonIsNewest ==
  \A r \in Recording, f \in Format : files[r][f].v <= Json(r).v

\* What the worker wrote stays whole: while nobody renames in it, the five
\* exports of a completed recording are one version of one transcript.
CompletedExportsAgree ==
  \A r \in Recording :
    row[r] \in {"completed", "warned"} /\ (\A s \in Label : typed[r][s] = {}) =>
      Whole(Json(r)) /\ \A f \in Format : files[r][f] = Json(r)

\* A name in a transcript was typed by the user for that speaker, or it is of the
\* one profile that, when the worker was launched, was similar enough and ahead
\* of every other by the margin; never of one that was remembered meanwhile
\* ("Return a match only when it is strong and clearly better than alternatives").
ClearMatch(n, v, launch) ==
  LET table == launch.profiles IN
  /\ n \in Known(table) /\ Similarity(v, table[n]) >= launch.threshold
  /\ \A m \in Known(table) \ {n} :
       Similarity(v, table[n]) >= Similarity(v, table[m]) + Margin

NamesAreConsented ==
  \A r \in Recording : Whole(Json(r)) =>
    \A s \in Label : LET n == Json(r).names[s] IN
      n \in typed[r][s] \cup {NoName} \/ ClearMatch(n, Speaks[r][s], launched[r])

\* Without a token that could be read, a completed recording has no labels and a
\* warning, and so it has when diarization failed: after any number of attempts
\* with and without a token, what is shown belongs to the attempt whose transcript
\* is there (README.md, the requirements of diarization).  A diarization that finds
\* nobody is no failure: such a recording completes without labels or warning.
UndiarizedIsWarned ==
  \A r \in Recording : row[r] \in {"completed", "warned"} =>
    /\ ~launched[r].token => Json(r).speakers = "missing"
    /\ Json(r).speakers = "missing" => row[r] = "warned"

\* A recording the user has named a speaker of is not transcribed again: no later
\* attempt overwrites the names.
NamesAreKept ==
  \A r \in Recording, s \in Label :
    typed[r][s] # {} => row[r] \in {"completed", "warned"}
==============================================================================
