----------------------- MODULE WorkerTranscriptProofs ------------------------
(***************************************************************************)
(* Proofs about WorkerSupervision: what a completed row has in its archive *)
(* directory, for every number of jobs, processes, attempts, exits and     *)
(* faults.  Each process belongs to one attempt of its row; of the row's   *)
(* current attempt there is at most one, it writes the exports before the  *)
(* manifest, and the row completes only after both.                        *)
(***************************************************************************)
EXTENDS WorkerSupervisionProofs

------------------------------------------------------------------------------
(* The inductive invariant. *)

\* p is the process of j's current attempt.
Of(p, j) == proc[p].job = j /\ proc[p].attempt = attempt[j]

\* p may still change its row, or is about to be watched.
Tracked(p) == Engaged(p) \/ (At("executor", "record") /\ thread["executor"].pid = p)

\* The current attempt of j has no process yet.
Unstarted(j) ==
  \/ status[j] \in {"waiting", "queued"}
  \/ At("executor", "launch") /\ thread["executor"].job = j

\* Nothing of an attempt exists before it is launched, and it is launched once.
AttemptsOf(j) ==
  /\ manifest[j].attempt <= attempt[j]
  /\ manifest[j].status # "none" \/ status[j] = "completed" => manifest[j].attempt > 0
  /\ \A p \in Pid : proc[p].job = j =>
       /\ proc[p].attempt <= attempt[j] /\ proc[p].attempt > 0
       /\ proc[p].phase = "manifested" \/ proc[p].event = "completed" => manifest[j].attempt > 0
  /\ Unstarted(j) => manifest[j].attempt < attempt[j] /\ \A p \in Pid : ~Of(p, j)
  /\ \A p, q \in Pid : Of(p, j) /\ Of(q, j) => p = q

AttemptsInv == \A j \in Job : AttemptsOf(j)

Exporting == {"startup", "working", "exporting", "exported"}

\* The process of the current attempt writes the exports, then the manifest, then
\* reports; whatever tells of a completed attempt comes after the whole transcript.
TranscriptOf(j) ==
  /\ \A p \in Pid : Tracked(p) /\ proc[p].job = j => Of(p, j)
  /\ \A p \in Pid : Of(p, j) =>
       /\ proc[p].phase \in Exporting => manifest[j].attempt < attempt[j]
       /\ proc[p].phase = "exported" => exports[j] = "whole"
       /\ proc[p].phase = "manifested" \/ proc[p].event = "completed" =>
            exports[j] = "whole" /\ manifest[j].attempt = attempt[j]
  /\ manifest[j].attempt = attempt[j] /\ (manifest[j].status = "completed" \/ status[j] = "completed") =>
       exports[j] = "whole"

\* No process of an earlier attempt can be left: there was none, or it was killed.
Pure(j) == attempt[j] = 1 \/ ~LaunchKillMayFail

TranscriptInv == \A j \in Job : Pure(j) => TranscriptOf(j)

\* What the proof of a step may assume.
Before == TypeOK /\ TrackInv /\ AttemptsInv /\ TranscriptInv /\ (~LaunchKillMayFail => SupervisionInv)

------------------------------------------------------------------------------
(* Steps that write no file and start no attempt. *)

\* A row completes by its manifest or by the last event of its tracked process.
Earned(j) ==
  \/ manifest[j].status = "completed"
  \/ \E p \in Pid : Tracked(p) /\ proc[p].job = j /\ proc[p].event = "completed"

KeepsFiles      == UNCHANGED <<attempt, manifest, exports>>
StartsNone      == \A j \in Job : Unstarted(j)' => Unstarted(j)
CompletesEarned == \A j \in Job : status'[j] = "completed" => status[j] = "completed" \/ Earned(j)
TracksNone      == \A p \in Pid : Tracked(p)' /\ proc'[p].job \in Job => Tracked(p)

\* A process ends, or goes on with its job.
GoesOn(p) ==
  proc'[p].job \in Job =>
    /\ proc'[p].job = proc[p].job /\ proc'[p].attempt = proc[p].attempt
    /\ proc'[p].phase \in Exporting => proc[p].phase \in Exporting
    /\ proc'[p].phase = "exported" => proc[p].phase = "exported"
    /\ proc'[p].phase = "manifested" => proc[p].phase = "manifested"
    /\ proc'[p].event = "completed" => proc[p].event = "completed" \/ proc[p].phase = "manifested"

KeepsProcesses == \A p \in Pid : GoesOn(p)

Frame == KeepsFiles /\ StartsNone /\ CompletesEarned /\ TracksNone /\ KeepsProcesses

LEMMA FrameKeeps == ASSUME Before, Frame PROVE AttemptsInv' /\ TranscriptInv'
<1> USE DEF Before, Frame
<1>0. \A j \in Job : attempt'[j] = attempt[j] /\ manifest'[j] = manifest[j] /\ exports'[j] = exports[j]
  BY DEF KeepsFiles
<1>1. \A j \in Job, p \in Pid : Of(p, j)' => Of(p, j)
  BY <1>0 DEF Of, KeepsProcesses, GoesOn
<1>2. ASSUME NEW j \in Job PROVE AttemptsOf(j)'
  <2>1. AttemptsOf(j)
    BY DEF AttemptsInv
  <2>2. status'[j] = "completed" => manifest[j].attempt > 0
    BY <2>1 DEF CompletesEarned, Earned, AttemptsOf
  <2>3. ASSUME NEW p \in Pid, proc'[p].job = j
        PROVE  /\ proc'[p].attempt <= attempt[j] /\ proc'[p].attempt > 0
               /\ proc'[p].phase = "manifested" \/ proc'[p].event = "completed" => manifest[j].attempt > 0
    BY <2>1, <2>3 DEF KeepsProcesses, GoesOn, AttemptsOf
  <2>4. Unstarted(j)' => manifest[j].attempt < attempt[j] /\ \A p \in Pid : ~Of(p, j)'
    BY <1>1, <2>1 DEF StartsNone, AttemptsOf
  <2>5. \A p, q \in Pid : Of(p, j)' /\ Of(q, j)' => p = q
    BY <1>1, <2>1 DEF AttemptsOf
  <2> QED BY <1>0, <2>1, <2>2, <2>3, <2>4, <2>5 DEF AttemptsOf
<1>3. ASSUME NEW j \in Job, Pure(j)' PROVE TranscriptOf(j)'
  <2>1. TranscriptOf(j)
    BY <1>0, <1>3 DEF Pure, TranscriptInv
  <2>2. \A p \in Pid : Tracked(p)' /\ proc'[p].job = j => Of(p, j)'
    <3> SUFFICES ASSUME NEW p \in Pid, Tracked(p)', proc'[p].job = j PROVE Of(p, j)'
      OBVIOUS
    <3>1. Tracked(p) /\ proc[p].job = j /\ proc'[p].attempt = proc[p].attempt
      BY DEF TracksNone, KeepsProcesses, GoesOn
    <3> QED BY <1>0, <2>1, <3>1 DEF TranscriptOf, Of
  <2>3. ASSUME NEW p \in Pid, Of(p, j)'
        PROVE  /\ proc'[p].phase \in Exporting => manifest[j].attempt < attempt[j]
               /\ proc'[p].phase = "exported" => exports[j] = "whole"
               /\ proc'[p].phase = "manifested" \/ proc'[p].event = "completed" =>
                    exports[j] = "whole" /\ manifest[j].attempt = attempt[j]
    <3>1. Of(p, j) /\ proc'[p].job = j
      BY <1>1, <2>3 DEF Of
    <3> QED BY <2>1, <3>1 DEF TranscriptOf, KeepsProcesses, GoesOn
  <2>4. manifest[j].attempt = attempt[j] /\ status'[j] = "completed" => exports[j] = "whole"
    BY <2>1 DEF CompletesEarned, Earned, TranscriptOf
  <2> QED BY <1>0, <2>1, <2>2, <2>3, <2>4 DEF TranscriptOf
<1> QED BY <1>2, <1>3 DEF AttemptsInv, TranscriptInv

------------------------------------------------------------------------------
(* The steps that write files. *)

\* What they have in common: p is of its row's attempt where the row is pure.
WritesFiles(p, to) ==
  /\ proc' = [proc EXCEPT ![p].phase = to]
  /\ UNCHANGED <<status, attempt, thread, watch>>

WriterEffect(p, to) ==
  /\ \A q \in Pid : /\ proc'[q].job = proc[q].job /\ proc'[q].attempt = proc[q].attempt
                    /\ proc'[q].event = proc[q].event
                    /\ proc'[q].phase = IF q = p THEN to ELSE proc[q].phase
  /\ \A q \in Pid, j \in Job : Of(q, j)' <=> Of(q, j)
  /\ \A q \in Pid : Tracked(q)' => Tracked(q)
  /\ \A j \in Job : Unstarted(j)' <=> Unstarted(j)
  /\ \A j \in Job : proc[p].job = j /\ Pure(j) => Of(p, j)

LEMMA WriterStep ==
  ASSUME Before, NEW p \in Pid, Running(p), NEW to \in Phase, WritesFiles(p, to)
  PROVE  WriterEffect(p, to)
<1>1. \A q \in Pid : proc'[q] = IF q = p THEN [proc[p] EXCEPT !.phase = to] ELSE proc[q]
  BY DEF WritesFiles, Before, TypeOK
<1>2. \A q \in Pid : /\ proc'[q].job = proc[q].job /\ proc'[q].attempt = proc[q].attempt
                     /\ proc'[q].event = proc[q].event
                     /\ proc'[q].phase = IF q = p THEN to ELSE proc[q].phase
  BY <1>1 DEF Before, TypeOK, Process
<1>3. \A q \in Pid, j \in Job : Of(q, j)' <=> Of(q, j)
  BY <1>2 DEF Of, WritesFiles
<1>4. \A q \in Pid : Tracked(q)' => Tracked(q)
  BY <1>2 DEF Tracked, Engaged, Running, At, WritesFiles
<1>5. \A j \in Job : Unstarted(j)' <=> Unstarted(j)
  BY DEF Unstarted, At, WritesFiles
<1>6. \A j \in Job : proc[p].job = j /\ Pure(j) => Of(p, j)
  BY DEF Before, TranscriptInv, TranscriptOf, Tracked, Engaged
<1> QED BY <1>2, <1>3, <1>4, <1>5, <1>6 DEF WriterEffect

\* Rows whose own files are left alone.
LEMMA OthersAttempts ==
  ASSUME NEW p \in Pid, NEW to, WriterEffect(p, to), NEW j \in Job, AttemptsOf(j),
         attempt'[j] = attempt[j], manifest'[j] = manifest[j], status'[j] = status[j],
         to # "manifested" \/ proc[p].job # j
  PROVE  AttemptsOf(j)'
<1>1. ASSUME NEW q \in Pid, proc'[q].job = j
      PROVE  /\ proc'[q].attempt <= attempt[j] /\ proc'[q].attempt > 0
             /\ proc'[q].phase = "manifested" \/ proc'[q].event = "completed" => manifest[j].attempt > 0
  <2>1. proc[q].job = j /\ (proc'[q].phase = "manifested" => proc[q].phase = "manifested")
    BY <1>1 DEF WriterEffect
  <2> QED BY <2>1 DEF WriterEffect, AttemptsOf
<1>2. Unstarted(j)' => manifest[j].attempt < attempt[j] /\ \A q \in Pid : ~Of(q, j)'
  BY DEF WriterEffect, AttemptsOf
<1>3. \A q, u \in Pid : Of(q, j)' /\ Of(u, j)' => q = u
  BY DEF WriterEffect, AttemptsOf
<1>4. /\ manifest[j].attempt <= attempt[j]
      /\ manifest[j].status # "none" \/ status[j] = "completed" => manifest[j].attempt > 0
  BY DEF AttemptsOf
<1> QED BY <1>1, <1>2, <1>3, <1>4 DEF AttemptsOf

LEMMA OthersTranscript ==
  ASSUME NEW p \in Pid, NEW to, WriterEffect(p, to), NEW j \in Job, TranscriptOf(j), proc[p].job # j,
         attempt'[j] = attempt[j], manifest'[j] = manifest[j], status'[j] = status[j],
         exports'[j] = exports[j]
  PROVE  TranscriptOf(j)'
<1>1. \A q \in Pid : Tracked(q)' /\ proc'[q].job = j => Of(q, j)'
  BY DEF WriterEffect, TranscriptOf
<1>2. ASSUME NEW q \in Pid, Of(q, j)'
      PROVE  /\ proc'[q].phase \in Exporting => manifest[j].attempt < attempt[j]
             /\ proc'[q].phase = "exported" => exports[j] = "whole"
             /\ proc'[q].phase = "manifested" \/ proc'[q].event = "completed" =>
                  exports[j] = "whole" /\ manifest[j].attempt = attempt[j]
  <2>1. Of(q, j) /\ q # p
    BY <1>2 DEF WriterEffect, Of
  <2> QED BY <2>1 DEF WriterEffect, TranscriptOf
<1>3. manifest[j].attempt = attempt[j] /\ (manifest[j].status = "completed" \/ status[j] = "completed") =>
        exports[j] = "whole"
  BY DEF TranscriptOf
<1> QED BY <1>1, <1>2, <1>3 DEF TranscriptOf

\* The exports are torn, or become whole, while the manifest is of an earlier attempt.
LEMMA ExportKeeps ==
  ASSUME Before, NEW p \in Pid, NEW to \in {"exporting", "exported"}, WritesFiles(p, to),
         proc[p].phase \in {"working", "exporting"}, UNCHANGED manifest,
         proc[p].job \in Job, NEW e, exports' = [exports EXCEPT ![proc[p].job] = e],
         to = "exported" => e = "whole"
  PROVE  AttemptsInv' /\ TranscriptInv'
<1> USE DEF Before
<1>r. Running(p) /\ to \in Phase
  BY DEF Running, RunningPhase, Phase
<1>w. WriterEffect(p, to)
  BY <1>r, WriterStep
<1>0. \A j \in Job : attempt'[j] = attempt[j] /\ manifest'[j] = manifest[j] /\ status'[j] = status[j]
                     /\ exports'[j] = IF j = proc[p].job THEN e ELSE exports[j]
  BY DEF WritesFiles, TypeOK
<1>1. ASSUME NEW j \in Job PROVE AttemptsOf(j)'
  BY <1>0, <1>w, OthersAttempts DEF AttemptsInv
<1>2. ASSUME NEW j \in Job, Pure(j)', j # proc[p].job PROVE TranscriptOf(j)'
  <2>1. TranscriptOf(j)
    BY <1>0, <1>2 DEF Pure, TranscriptInv
  <2> QED BY <1>0, <1>2, <1>w, <2>1, OthersTranscript
<1>3. ASSUME NEW j \in Job, Pure(j)', j = proc[p].job PROVE TranscriptOf(j)'
  <2>1. TranscriptOf(j) /\ AttemptsOf(j) /\ Pure(j)
    BY <1>0, <1>3 DEF Pure, TranscriptInv, AttemptsInv
  <2>2. Of(p, j) /\ \A q \in Pid : Of(q, j) => q = p
    BY <1>3, <2>1, <1>w DEF AttemptsOf, WriterEffect
  <2>3. manifest[j].attempt < attempt[j] /\ proc[p].event # "completed"
    BY <2>1, <2>2 DEF TranscriptOf, Exporting, AttemptsOf, TypeOK
  <2>4. manifest[j].attempt # attempt[j]
    BY <2>3 DEF TypeOK
  <2>5. \A q \in Pid : Tracked(q)' /\ proc'[q].job = j => Of(q, j)'
    BY <2>1, <1>w DEF TranscriptOf, WriterEffect
  <2>6. ASSUME NEW q \in Pid, Of(q, j)'
        PROVE  /\ proc'[q].phase = to /\ proc'[q].event # "completed"
    BY <2>2, <2>3, <2>6, <1>w DEF WriterEffect
  <2> QED BY <1>0, <1>3, <2>3, <2>4, <2>5, <2>6 DEF TranscriptOf
<1> QED BY <1>0, <1>1, <1>2, <1>3 DEF AttemptsInv, TranscriptInv

\* A manifest is of the attempt of the process that writes it.
Replaced(p, s) ==
  manifest' = [manifest EXCEPT ![proc[p].job] = [status |-> s, attempt |-> proc[p].attempt]]

\* The completed manifest follows the exports.
LEMMA ManifestKeeps ==
  ASSUME Before, NEW p \in Pid, NEW to \in {"manifested", "reporting"}, WritesFiles(p, to),
         Running(p), proc[p].job \in Job, UNCHANGED exports, NEW s \in ManifestFinalStatus, Replaced(p, s),
         \/ proc[p].phase = "exported" /\ to = "manifested" /\ s = "completed"
         \/ proc[p].phase = "failing" /\ to = "reporting" /\ s = "failed"
  PROVE  AttemptsInv' /\ TranscriptInv'
<1> USE DEF Before
<1>r. to \in Phase
  BY DEF RunningPhase, Phase
<1>w. WriterEffect(p, to)
  BY <1>r, WriterStep
<1>t. proc[p].attempt \in Nat /\ \A j \in Job : attempt[j] \in Nat /\ manifest[j].attempt \in Nat
  BY BoundsAssumption DEF TypeOK, Process
<1>0. \A j \in Job : /\ attempt'[j] = attempt[j] /\ exports'[j] = exports[j] /\ status'[j] = status[j]
                     /\ j # proc[p].job => manifest'[j] = manifest[j]
                     /\ j = proc[p].job => /\ manifest'[j].status = s
                                           /\ manifest'[j].attempt = proc[p].attempt
  BY DEF WritesFiles, TypeOK, Replaced
<1>1. ASSUME NEW j \in Job, j # proc[p].job PROVE AttemptsOf(j)'
  BY <1>0, <1>1, <1>w, OthersAttempts DEF AttemptsInv
<1>2. ASSUME NEW j \in Job, Pure(j)', j # proc[p].job PROVE TranscriptOf(j)'
  <2>1. TranscriptOf(j)
    BY <1>0, <1>2 DEF Pure, TranscriptInv
  <2> QED BY <1>0, <1>2, <1>w, <2>1, OthersTranscript
<1>3. ASSUME NEW j \in Job, j = proc[p].job PROVE AttemptsOf(j)'
  <2>1. AttemptsOf(j)
    BY DEF AttemptsInv
  <2>2. proc[p].attempt <= attempt[j] /\ proc[p].attempt > 0
    BY <1>3, <2>1 DEF AttemptsOf
  <2>3. Unstarted(j) => proc[p].attempt < attempt[j]
    BY <1>3, <1>t, <2>1, <2>2 DEF AttemptsOf, Of
  <2>4. ASSUME NEW q \in Pid, proc'[q].job = j
        PROVE  proc'[q].attempt <= attempt[j] /\ proc'[q].attempt > 0
    BY <2>1, <2>4, <1>w DEF AttemptsOf, WriterEffect
  <2>5. Unstarted(j)' => \A q \in Pid : ~Of(q, j)'
    BY <2>1, <1>w DEF AttemptsOf, WriterEffect
  <2>6. \A q, u \in Pid : Of(q, j)' /\ Of(u, j)' => q = u
    BY <2>1, <1>w DEF AttemptsOf, WriterEffect
  <2>7. Unstarted(j)' => Unstarted(j)
    BY <1>w DEF WriterEffect
  <2> QED BY <1>0, <1>3, <1>r, <2>2, <2>3, <2>4, <2>5, <2>6, <2>7 DEF AttemptsOf
<1>4. ASSUME NEW j \in Job, Pure(j)', j = proc[p].job PROVE TranscriptOf(j)'
  <2>1. TranscriptOf(j) /\ AttemptsOf(j) /\ Pure(j)
    BY <1>0, <1>4 DEF Pure, TranscriptInv, AttemptsInv
  <2>2. Of(p, j) /\ \A q \in Pid : Of(q, j) => q = p
    BY <1>4, <2>1, <1>w DEF AttemptsOf, WriterEffect
  <2>3. manifest'[j].attempt = attempt[j]
    BY <1>0, <1>4, <2>2 DEF Of
  <2>4. \A q \in Pid : Tracked(q)' /\ proc'[q].job = j => Of(q, j)'
    BY <2>1, <1>w DEF TranscriptOf, WriterEffect
  <2>5. proc[p].phase = "exported" => exports[j] = "whole"
    BY <2>1, <2>2 DEF TranscriptOf
  <2>6. proc[p].event = "completed" => exports[j] = "whole"
    BY <2>1, <2>2 DEF TranscriptOf
  <2>7. ASSUME NEW q \in Pid, Of(q, j)'
        PROVE  proc'[q].phase = to /\ (proc'[q].event = "completed" <=> proc[p].event = "completed")
    BY <2>2, <2>7, <1>w DEF WriterEffect
  <2>8. s = "failed" /\ status[j] = "completed" => exports[j] = "whole"
    <3> SUFFICES ASSUME s = "failed", status[j] = "completed" PROVE exports[j] = "whole"
      OBVIOUS
    <3>1. CASE attempt[j] = 1
      <4>1. manifest[j].attempt > 0 /\ manifest[j].attempt <= attempt[j]
        BY <2>1 DEF AttemptsOf
      <4>2. manifest[j].attempt = attempt[j]
        BY <1>t, <3>1, <4>1
      <4> QED BY <2>1, <4>2 DEF TranscriptOf
    <3>2. CASE ~LaunchKillMayFail
      BY <1>4, <3>2 DEF SupervisionInv, EngagedInv, Engaged
    <3> QED BY <2>1, <3>1, <3>2 DEF Pure
  <2>9. ASSUME NEW q \in Pid, Of(q, j)'
        PROVE  /\ proc'[q].phase \in Exporting => manifest'[j].attempt < attempt'[j]
               /\ proc'[q].phase = "exported" => exports'[j] = "whole"
               /\ proc'[q].phase = "manifested" \/ proc'[q].event = "completed" =>
                    exports'[j] = "whole" /\ manifest'[j].attempt = attempt'[j]
    BY <1>0, <2>3, <2>5, <2>6, <2>7, <2>9 DEF Exporting
  <2>10. manifest'[j].status = "completed" \/ status'[j] = "completed" => exports'[j] = "whole"
    BY <1>0, <1>4, <2>5, <2>8
  <2> QED BY <2>4, <2>9, <2>10 DEF TranscriptOf
<1> QED BY <1>0, <1>1, <1>2, <1>3, <1>4 DEF AttemptsInv, TranscriptInv
------------------------------------------------------------------------------
(* The steps that start an attempt. *)

\* A launch makes the one process of its row's attempt.
LEMMA LaunchStartsAttempt ==
  ASSUME Before, NEW p \in Pid, Launch(p)
  PROVE  AttemptsInv' /\ TranscriptInv'
<1> USE DEF Before
<1> DEFINE job == thread["executor"].job
<1>0. ~RunnerBusy
  BY FreeRunner DEF Launch, LaunchFindsRunnerFree
<1>1. /\ At("executor", "launch") /\ job \in Processing
      /\ proc[p].phase = "none" /\ ~Held(p)
      /\ proc' = [proc EXCEPT ![p] = [phase |-> "startup", job |-> job,
                    attempt |-> attempt[job], lease |-> FALSE, event |-> "none"]]
      /\ thread' = [thread EXCEPT !["executor"].pc = "record", !["executor"].pid = p]
      /\ UNCHANGED <<status, attempt, manifest, exports, watch>>
  BY <1>0 DEF Launch, At, TrackInv, TrackedLaunch, Launching, files
<1>2. /\ \A q \in Pid \ {p} : proc'[q] = proc[q]
      /\ proc'[p].phase = "startup" /\ proc'[p].job = job
      /\ proc'[p].attempt = attempt[job] /\ proc'[p].event = "none"
  BY <1>1 DEF TypeOK
<1>3. thread'["executor"].pc = "record" /\ thread'["executor"].pid = p
  BY <1>1 DEF TypeOK, Thread, ThreadState
<1>4. Unstarted(job) /\ \A j \in Job : Unstarted(j)' => Unstarted(j) /\ j # job
  BY <1>1, <1>3 DEF Unstarted, At, Processing
<1>5. \A q \in Pid \ {p} : Tracked(q)' => Tracked(q)
  BY <1>1, <1>2, <1>3 DEF Tracked, Engaged, Running, At
<1>6. /\ job \in Job /\ AttemptsOf(job)
      /\ \A q \in Pid : ~Of(q, job)
      /\ manifest[job].attempt < attempt[job] /\ attempt[job] > 0 /\ attempt[job] <= attempt[job]
  BY <1>1, <1>4, BoundsAssumption DEF AttemptsInv, AttemptsOf, Processing, TypeOK
<1>7. \A q \in Pid, j \in Job : q # p \/ j # job => (Of(q, j)' => Of(q, j))
  BY <1>1, <1>2 DEF Of
<1>8. ASSUME NEW j \in Job PROVE AttemptsOf(j)'
  <2>1. AttemptsOf(j)
    BY DEF AttemptsInv
  <2>2. ASSUME NEW q \in Pid, proc'[q].job = j
        PROVE  /\ proc'[q].attempt <= attempt[j] /\ proc'[q].attempt > 0
               /\ proc'[q].phase = "manifested" \/ proc'[q].event = "completed" => manifest[j].attempt > 0
    BY <1>2, <1>6, <2>1, <2>2 DEF AttemptsOf
  <2>3. Unstarted(j)' => manifest[j].attempt < attempt[j] /\ \A q \in Pid : ~Of(q, j)'
    BY <1>4, <1>7, <2>1 DEF AttemptsOf
  <2>4. \A q, u \in Pid : Of(q, j)' /\ Of(u, j)' => q = u
    <3>1. CASE j = job
      BY <1>6, <1>7, <3>1
    <3>2. CASE j # job
      BY <1>7, <2>1, <3>2 DEF AttemptsOf
    <3> QED BY <3>1, <3>2
  <2> QED BY <1>1, <2>1, <2>2, <2>3, <2>4 DEF AttemptsOf
<1>9. ASSUME NEW j \in Job, Pure(j)' PROVE TranscriptOf(j)'
  <2>1. TranscriptOf(j)
    BY <1>1, <1>9 DEF Pure, TranscriptInv
  <2>2. ASSUME NEW q \in Pid, Tracked(q)', proc'[q].job = j PROVE Of(q, j)'
    <3>1. CASE q = p
      BY <1>1, <1>2, <2>2, <3>1 DEF Of
    <3>2. CASE q # p
      BY <1>1, <1>2, <1>5, <2>1, <2>2, <3>2 DEF TranscriptOf, Of
    <3> QED BY <3>1, <3>2
  <2>3. ASSUME NEW q \in Pid, Of(q, j)'
        PROVE  /\ proc'[q].phase \in Exporting => manifest[j].attempt < attempt[j]
               /\ proc'[q].phase = "exported" => exports[j] = "whole"
               /\ proc'[q].phase = "manifested" \/ proc'[q].event = "completed" =>
                    exports[j] = "whole" /\ manifest[j].attempt = attempt[j]
    <3>1. CASE q = p
      <4>1. j = job
        BY <1>2, <2>3, <3>1 DEF Of
      <4> QED BY <1>2, <1>6, <3>1, <4>1
    <3>2. CASE q # p
      BY <1>2, <1>7, <2>1, <2>3, <3>2 DEF TranscriptOf
    <3> QED BY <3>1, <3>2
  <2>4. manifest[j].attempt = attempt[j] /\ (manifest[j].status = "completed" \/ status[j] = "completed") =>
          exports[j] = "whole"
    BY <2>1 DEF TranscriptOf
  <2> QED BY <1>1, <2>2, <2>3, <2>4 DEF TranscriptOf
<1> QED BY <1>8, <1>9 DEF AttemptsInv, TranscriptInv

\* A retry starts an attempt that has neither a manifest nor a process, and, when
\* kills succeed, leaves no process that is still tracked for the row.
LEMMA RetryStartsAttempt ==
  ASSUME Before, NEW j \in Job, Retry(j)
  PROVE  AttemptsInv' /\ TranscriptInv'
<1> USE DEF Before
<1>1. /\ status[j] \in RetryableStatus /\ status' = [status EXCEPT ![j] = "queued"]
      /\ attempt' = [attempt EXCEPT ![j] = @ + 1]
      /\ UNCHANGED <<manifest, exports, proc, thread, watch>>
  BY DEF Retry, files, runner
<1>2. /\ attempt'[j] = attempt[j] + 1 /\ status'[j] = "queued"
      /\ \A k \in Job \ {j} : attempt'[k] = attempt[k] /\ status'[k] = status[k]
  BY <1>1 DEF TypeOK
<1>t. /\ \A k \in Job : attempt[k] \in Nat /\ attempt[k] > 0 /\ manifest[k].attempt \in Nat
      /\ \A q \in Pid : proc[q].attempt \in Nat
  BY BoundsAssumption DEF TypeOK, Process
<1>3. AttemptsOf(j)
  BY DEF AttemptsInv
<1>4. manifest[j].attempt < attempt'[j] /\ \A q \in Pid : proc[q].job = j => proc[q].attempt < attempt'[j]
  BY <1>2, <1>3, <1>t DEF AttemptsOf
<1>5. \A q \in Pid : ~Of(q, j)'
  BY <1>1, <1>4, <1>t DEF Of
<1>6. \A q \in Pid, k \in Job \ {j} : Of(q, k)' => Of(q, k)
  BY <1>1, <1>2 DEF Of
<1>7. \A q \in Pid : Tracked(q)' => Tracked(q)
  BY <1>1 DEF Tracked, Engaged, Running, At
<1>8. ASSUME NEW k \in Job PROVE AttemptsOf(k)'
  <2>1. CASE k = j
    <3>1. manifest[j].attempt <= attempt'[j]
      BY <1>4, <1>2, <1>t
    <3>2. manifest[j].status # "none" \/ status'[j] = "completed" => manifest[j].attempt > 0
      BY <1>2, <1>3 DEF AttemptsOf
    <3>3. ASSUME NEW q \in Pid, proc[q].job = j
          PROVE  /\ proc[q].attempt <= attempt'[j] /\ proc[q].attempt > 0
                 /\ proc[q].phase = "manifested" \/ proc[q].event = "completed" => manifest[j].attempt > 0
      <4>1. proc[q].attempt <= attempt'[j]
        BY <1>2, <1>4, <1>t, <3>3
      <4> QED BY <1>3, <3>3, <4>1 DEF AttemptsOf
    <3> QED BY <1>1, <1>4, <1>5, <2>1, <3>1, <3>2, <3>3 DEF AttemptsOf
  <2>2. CASE k # j
    <3>1. AttemptsOf(k) /\ (Unstarted(k)' => Unstarted(k))
      BY <1>1, <1>2, <2>2 DEF AttemptsInv, Unstarted, At
    <3> QED BY <1>1, <1>2, <1>6, <2>2, <3>1 DEF AttemptsOf
  <2> QED BY <2>1, <2>2
<1>9. ASSUME NEW k \in Job, Pure(k)' PROVE TranscriptOf(k)'
  <2>1. CASE k = j
    <3>1. attempt'[j] # 1 /\ manifest[j].attempt # attempt'[j]
      BY <1>2, <1>4, <1>t
    <3>2. SupervisionInv
      BY <1>9, <2>1, <3>1 DEF Pure
    <3>3. \A q \in Pid : Tracked(q) => proc[q].job # j
      BY <1>1, <3>2 DEF Tracked, SupervisionInv, EngagedInv, LaunchInv, Launching, At, Processing,
                        RetryableStatus
    <3> QED BY <1>1, <1>5, <1>7, <2>1, <3>1, <3>3 DEF TranscriptOf
  <2>2. CASE k # j
    <3>1. TranscriptOf(k)
      BY <1>2, <1>9, <2>2 DEF Pure, TranscriptInv
    <3>2. \A q \in Pid : Tracked(q)' /\ proc'[q].job = k => Of(q, k)'
      BY <1>1, <1>2, <1>7, <2>2, <3>1 DEF TranscriptOf, Of
    <3> QED BY <1>1, <1>2, <1>6, <2>2, <3>1, <3>2 DEF TranscriptOf
  <2> QED BY <2>1, <2>2
<1> QED BY <1>8, <1>9 DEF AttemptsInv, TranscriptInv

------------------------------------------------------------------------------
(* The worker's own steps. *)

\* A step that changes p alone, does not start it and writes no file.
LEMMA OneProcessFrame ==
  ASSUME TypeOK, NEW p \in Pid, UNCHANGED files, WorkerOnly,
         \A q \in Pid \ {p} : proc'[q] = proc[q],
         GoesOn(p), proc'[p].job \in Job /\ Running(p)' => Running(p)
  PROVE  Frame
<1>1. UNCHANGED <<status, attempt, manifest, exports, thread, watch>>
  BY DEF WorkerOnly, rows, files, runner
<1>2. KeepsFiles /\ StartsNone /\ CompletesEarned
  BY <1>1 DEF KeepsFiles, StartsNone, Unstarted, At, CompletesEarned
<1>3. TracksNone
  BY <1>1 DEF TracksNone, Tracked, Engaged, Running, At
<1>4. KeepsProcesses
  BY DEF KeepsProcesses, GoesOn
<1> QED BY <1>2, <1>3, <1>4 DEF Frame

\* A worker whose job is no row writes no row's files.
LEMMA NoRowFrame ==
  ASSUME TypeOK, NEW p \in Pid, NEW to, WritesFiles(p, to), UNCHANGED files, proc[p].job \notin Job
  PROVE  Frame
<1>1. UNCHANGED <<status, attempt, manifest, exports, thread, watch>>
  BY DEF WritesFiles, files
<1>2. KeepsFiles /\ StartsNone /\ CompletesEarned
  BY <1>1 DEF KeepsFiles, StartsNone, Unstarted, At, CompletesEarned
<1>3. \A q \in Pid : proc'[q].job = proc[q].job /\ (q # p => proc'[q] = proc[q])
  BY DEF WritesFiles, TypeOK, Process
<1>4. TracksNone
  BY <1>1, <1>3 DEF TracksNone, Tracked, Engaged, Running, At
<1>5. KeepsProcesses
  BY <1>3 DEF KeepsProcesses, GoesOn
<1> QED BY <1>2, <1>4, <1>5 DEF Frame

LEMMA WorkerKeeps ==
  ASSUME Before, NEW p \in Pid, Worker(p)
  PROVE  AttemptsInv' /\ TranscriptInv'
<1> DEFINE Quietly == /\ UNCHANGED files
                      /\ WorkerOnly
                      /\ \A q \in Pid \ {p} : proc'[q] = proc[q]
                      /\ GoesOn(p)
                      /\ proc'[p].job \in Job /\ Running(p)' => Running(p)
<1>0. TypeOK
  BY DEF Before
<1>q. Quietly => AttemptsInv' /\ TranscriptInv'
  BY <1>0, OneProcessFrame, FrameKeeps
<1>1. CASE AcquireLease(p)
  BY <1>0, <1>1, <1>q DEF AcquireLease, GoesOn, Running, RunningPhase, Exporting, TypeOK, Process
<1>2. CASE LeaseFails(p)
  BY <1>0, <1>2, <1>q DEF LeaseFails, SetPhase, GoesOn, Running, RunningPhase, Exporting, TypeOK, Process
<1>3. CASE BeginExport(p)
  <2>1. /\ WritesFiles(p, "exporting") /\ UNCHANGED manifest /\ proc[p].phase = "working"
        /\ \E e \in {"absent", "torn"} : exports' = [exports EXCEPT ![proc[p].job] = e]
    BY <1>3 DEF BeginExport, SetPhase, WritesFiles, WorkerOnly, rows, runner
  <2>2. CASE proc[p].job \in Job
    BY <2>1, <2>2, ExportKeeps
  <2>3. CASE proc[p].job \notin Job
    <3>1. UNCHANGED files
      BY <1>0, <2>1, <2>3 DEF files, TypeOK
    <3> QED BY <1>0, <2>1, <2>3, <3>1, NoRowFrame, FrameKeeps
  <2> QED BY <2>2, <2>3
<1>4. CASE FinishExport(p)
  <2>1. /\ WritesFiles(p, "exported") /\ UNCHANGED manifest /\ proc[p].phase = "exporting"
        /\ exports' = [exports EXCEPT ![proc[p].job] = "whole"]
    BY <1>4 DEF FinishExport, SetPhase, WritesFiles, WorkerOnly, rows, runner
  <2>2. CASE proc[p].job \in Job
    BY <2>1, <2>2, ExportKeeps
  <2>3. CASE proc[p].job \notin Job
    <3>1. UNCHANGED files
      BY <1>0, <2>1, <2>3 DEF files, TypeOK
    <3> QED BY <1>0, <2>1, <2>3, <3>1, NoRowFrame, FrameKeeps
  <2> QED BY <2>2, <2>3
<1>5. CASE WriteManifest(p)
  <2>1. /\ WritesFiles(p, "manifested") /\ UNCHANGED exports /\ proc[p].phase = "exported"
        /\ Replaced(p, "completed")
    BY <1>5 DEF WriteManifest, SetPhase, WritesFiles, WorkerOnly, Replaced, rows, runner
  <2>2. CASE proc[p].job \in Job
    BY <2>1, <2>2, ManifestKeeps DEF Running, RunningPhase, ManifestFinalStatus
  <2>3. CASE proc[p].job \notin Job
    <3>1. UNCHANGED files
      BY <1>0, <2>1, <2>3 DEF files, TypeOK, Replaced
    <3> QED BY <1>0, <2>1, <2>3, <3>1, NoRowFrame, FrameKeeps
  <2> QED BY <2>2, <2>3
<1>6. CASE EmitCompleted(p)
  BY <1>0, <1>6, <1>q DEF EmitCompleted, GoesOn, Running, RunningPhase, Exporting, TypeOK, Process
<1>7. CASE WorkerCancelled(p)
  BY <1>0, <1>7, <1>q DEF WorkerCancelled, GoesOn, Running, RunningPhase, Exporting, TypeOK, Process
<1>8. CASE StageRaises(p)
  BY <1>0, <1>8, <1>q DEF StageRaises, GoesOn, Running, RunningPhase, Exporting, TypeOK, Process
<1>9. CASE WriteFailureManifest(p)
  <2>1. /\ WritesFiles(p, "reporting") /\ UNCHANGED exports /\ proc[p].phase = "failing"
        /\ Replaced(p, "failed") \/ UNCHANGED manifest
    BY <1>9 DEF WriteFailureManifest, SetPhase, WritesFiles, WorkerOnly, Replaced, rows, runner
  <2>2. CASE proc[p].job \in Job /\ Replaced(p, "failed")
    BY <2>1, <2>2, ManifestKeeps DEF Running, RunningPhase, ManifestFinalStatus
  <2>3. CASE proc[p].job \notin Job
    <3>1. UNCHANGED files
      BY <1>0, <2>1, <2>3 DEF files, TypeOK, Replaced
    <3> QED BY <1>0, <2>1, <2>3, <3>1, NoRowFrame, FrameKeeps
  <2>4. CASE UNCHANGED manifest
    <3>1. UNCHANGED files /\ WorkerOnly
      BY <1>9, <2>1, <2>4 DEF files, WriteFailureManifest
    <3> QED BY <1>0, <2>1, <3>1, <1>q DEF WritesFiles, GoesOn, Running, RunningPhase, Exporting, TypeOK, Process
  <2> QED BY <2>1, <2>2, <2>3, <2>4
<1>10. CASE EmitFailed(p)
  BY <1>0, <1>10, <1>q DEF EmitFailed, GoesOn, Running, RunningPhase, Exporting, TypeOK, Process
<1>11. CASE ReleaseLease(p)
  BY <1>0, <1>11, <1>q DEF ReleaseLease, GoesOn, Running, RunningPhase, Exporting, TypeOK, Process
<1>12. CASE ExitWorker(p)
  BY <1>0, <1>12, <1>q, NoJobAssumption DEF ExitWorker, Gone, NoProcess, GoesOn, Running, RunningPhase, Exporting, TypeOK, Process
<1>13. CASE WorkerDies(p)
  BY <1>0, <1>13, <1>q, NoJobAssumption DEF WorkerDies, Gone, NoProcess, GoesOn, Running, RunningPhase, Exporting, TypeOK, Process
<1>14. CASE Reap(p)
  BY <1>0, <1>14, <1>q, NoJobAssumption DEF Reap, Gone, NoProcess, GoesOn, Running, RunningPhase, Exporting, TypeOK, Process
<1>15. QED
  BY <1>1, <1>2, <1>3, <1>4, <1>5, <1>6, <1>7, <1>8, <1>9, <1>10, <1>11, <1>12, <1>13, <1>14 DEF Worker

------------------------------------------------------------------------------
(* The steps of the GUI. *)

\* What a step that moves threads and kills processes does.
LEMMA ThreadsFrame ==
  ASSUME TypeOK, UNCHANGED <<status, attempt, manifest, exports, watch>>,
         thread'["executor"] = thread["executor"] \/ thread'["executor"].pc \notin {"launch", "record"},
         NEW P, proc' = proc \/ proc' = Signalled(P)
  PROVE  Frame
<1>1. \A p \in Pid : /\ proc'[p].job = proc[p].job /\ proc'[p].attempt = proc[p].attempt
                     /\ proc'[p].event = proc[p].event
                     /\ proc'[p].phase \in {proc[p].phase, "dying"}
  BY DEF TypeOK, Process, Signalled
<1>2. KeepsFiles /\ StartsNone /\ CompletesEarned
  BY DEF KeepsFiles, StartsNone, Unstarted, At, CompletesEarned
<1>3. TracksNone
  BY <1>1 DEF TracksNone, Tracked, Engaged, Running, RunningPhase, At
<1>4. KeepsProcesses
  BY <1>1 DEF KeepsProcesses, GoesOn, Exporting
<1> QED BY <1>2, <1>3, <1>4 DEF Frame

\* A claim starts no attempt of its own: its row was queued.
LEMMA ClaimFrame == ASSUME TypeOK, Claim PROVE Frame
<1>1. Head(queue) \in Job /\ status[Head(queue)] = "queued"
  BY OnlyQueuedIsClaimed DEF Claim, TypeOK
<1>2. /\ thread'["executor"].pc = "launch" /\ thread'["executor"].job = Head(queue)
      /\ status' = [status EXCEPT ![Head(queue)] = "processing"]
      /\ UNCHANGED <<attempt, manifest, exports, proc, watch>>
  BY DEF Claim, Transition, TypeOK, Thread, ThreadState, files, runner
<1>3. KeepsFiles /\ StartsNone /\ CompletesEarned
  BY <1>1, <1>2 DEF KeepsFiles, StartsNone, Unstarted, At, CompletesEarned, TypeOK
<1>4. TracksNone /\ KeepsProcesses
  BY <1>2 DEF TracksNone, Tracked, Engaged, Running, At, KeepsProcesses, GoesOn
<1> QED BY <1>3, <1>4 DEF Frame

\* The kill of a worker whose PID could not be recorded may fail: it was tracked.
LEMMA RecordFailsFrame == ASSUME TypeOK, RecordFails PROVE Frame
<1> DEFINE e == thread["executor"]
<1>1. /\ e.pc = "record" /\ thread'["executor"].pc = "launchFailed"
      /\ UNCHANGED <<status, attempt, manifest, exports, watch>>
      /\ \/ proc' = proc \/ proc' = Signalled({e.pid})
         \/ proc' = [proc EXCEPT ![e.pid] = NoProcess]
  BY DEF RecordFails, Goto, At, TypeOK, Thread, ThreadState, rows, files
<1>2. CASE proc' = proc \/ proc' = Signalled({e.pid})
  BY <1>1, <1>2, ThreadsFrame
<1>3. CASE proc' = [proc EXCEPT ![e.pid] = NoProcess]
  <2>1. \A p \in Pid : proc'[p] = proc[p] \/ proc'[p] = NoProcess
    BY <1>3 DEF TypeOK
  <2>2. KeepsFiles /\ StartsNone /\ CompletesEarned
    BY <1>1 DEF KeepsFiles, StartsNone, Unstarted, At, CompletesEarned
  <2>3. TracksNone /\ KeepsProcesses
    BY <1>1, <2>1, NoJobAssumption DEF TracksNone, Tracked, Engaged, Running, At, KeepsProcesses, GoesOn, NoProcess
  <2> QED BY <2>2, <2>3 DEF Frame
<1> QED BY <1>1, <1>2, <1>3

\* They write no file; only a retry and a launch start an attempt, and a row completes
\* by its manifest or by the last event of the worker whose watcher finishes it.
LEMMA GuiFrame ==
  ASSUME TypeOK, [Next]_vars,
         \A p \in Pid : ~Worker(p) /\ ~Launch(p), \A j \in Job : ~Retry(j)
  PROVE  Frame
<1>1. CASE Claim
  BY <1>1, ClaimFrame
<1>2. CASE RecordFails
  BY <1>2, RecordFailsFrame
<1>3. ASSUME NEW j \in Job, StartupUnrecorded(j) PROVE Frame
  BY <1>3, ThreadsFrame DEF StartupUnrecorded, OrphanResolved, TypeOK, Thread, rows, files, runner
<1>4. ASSUME NEW t \in Thread, ScanDone(t) PROVE Frame
  <2>1. UNCHANGED <<status, attempt, manifest, exports, watch, proc>>
    BY <1>4 DEF ScanDone, rows, files, runner
  <2>2. thread'["executor"] = thread["executor"] \/ thread'["executor"].pc \in {"idle", "admit"}
    BY <1>4 DEF ScanDone, Finish, Goto, NoThread, TypeOK, Thread, ThreadState
  <2> QED BY <2>1, <2>2, ThreadsFrame
<1>5. ASSUME NEW t \in Thread, Settle(t) PROVE Frame
  <2>1. UNCHANGED <<status, attempt, manifest, exports, watch, proc>>
    BY <1>5 DEF Settle, rows, files, runner
  <2>2. thread'["executor"] = thread["executor"] \/ thread'["executor"].pc \in {"interrupt", "scan"}
    BY <1>5 DEF Settle, Goto, Leave, NoThread, TypeOK, Thread, ThreadState
  <2> QED BY <2>1, <2>2, ThreadsFrame
<1>6. CASE UNCHANGED vars
  BY <1>6, ThreadsFrame DEF vars, rows, files, runner
<1> USE NoJobAssumption DEF TypeOK, Process, Thread, ThreadState, Frame, KeepsFiles, StartsNone, Unstarted, CompletesEarned, Earned,
            TracksNone, KeepsProcesses, GoesOn, Tracked, Engaged, Running, RunningPhase, Exporting, Processing, At,
            rows, files, runner, bounds
<1>7. CASE StartGui
  BY <1>7 DEF StartGui, NoThread
<1>8. ASSUME NEW j \in Job, StartupRecorded(j) PROVE Frame
  BY <1>8 DEF StartupRecorded, OrphanResolved, Signalled, OrphanTargets
<1>9. ASSUME NEW j \in Job, StartupUnconfirmed(j) PROVE Frame
  BY <1>9 DEF StartupUnconfirmed
<1>10. CASE StartupLeaseInactive
  BY <1>10 DEF StartupLeaseInactive, Leave, NoThread
<1>11. CASE StartupLeaseUnconfirmed
  BY <1>11 DEF StartupLeaseUnconfirmed, Leave, NoThread
<1>12. CASE StartupInspected
  BY <1>12 DEF StartupInspected, Goto
<1>13. CASE RestoreManifests
  BY <1>13 DEF RestoreManifests, Goto, FinalManifest, ManifestFinalStatus
<1>14. CASE Sweep
  BY <1>14 DEF Sweep, Finish, NoThread
<1>15. CASE GuiExit
  BY <1>15 DEF GuiExit, NoThread, NoProcess
<1>16. ASSUME NEW t \in Thread, NEW j \in Job, ScanSkip(t, j) PROVE Frame
  BY <1>16 DEF ScanSkip
<1>17. ASSUME NEW t \in Thread, NEW j \in Job, ScanTake(t, j) PROVE Frame
  BY <1>17 DEF ScanTake
<1>18. ASSUME NEW t \in Thread, InspectRecorded(t) PROVE Frame
  BY <1>18 DEF InspectRecorded, OrphanResolved, Signalled, OrphanTargets, Goto
<1>19. ASSUME NEW t \in Thread, InspectUnrecorded(t) PROVE Frame
  BY <1>19 DEF InspectUnrecorded, OrphanResolved, Signalled, OrphanTargets, Goto
<1>20. ASSUME NEW t \in Thread, LeaseInactive(t) PROVE Frame
  BY <1>20 DEF LeaseInactive, Goto
<1>21. ASSUME NEW t \in Thread, StillUnconfirmed(t) PROVE Frame
  BY <1>21 DEF StillUnconfirmed, Leave, NoThread
<1>22. ASSUME NEW t \in Thread, Restore(t) PROVE Frame
  BY <1>22 DEF Restore, Transition, TerminalStatus, FinalManifest, ManifestFinalStatus, Goto
<1>23. ASSUME NEW t \in Thread, Interrupt(t) PROVE Frame
  BY <1>23 DEF Interrupt, Transition, TerminalStatus, Leave, NoThread
<1>24. ASSUME NEW t \in Thread, InterruptRaises(t) PROVE Frame
  BY <1>24 DEF InterruptRaises, Finish, NoThread
<1>25. ASSUME NEW t \in Thread, ThreadFault(t) PROVE Frame
  BY <1>25 DEF ThreadFault, Finish, NoThread
<1>26. CASE BeginPass
  BY <1>26 DEF BeginPass, NoThread
<1>27. ASSUME NEW j \in Job, Admit(j) PROVE Frame
  BY <1>27 DEF Admit, Transition, TerminalStatus
<1>28. CASE Admitted
  BY <1>28 DEF Admitted, Goto
<1>29. CASE ClaimNothing
  BY <1>29 DEF ClaimNothing, Finish, NoThread
<1>30. CASE LaunchFails
  BY <1>30 DEF LaunchFails, Goto
<1>31. CASE RecordPid
  BY <1>31 DEF RecordPid, Finish, NoThread
<1>32. CASE FailLaunch
  BY <1>32 DEF FailLaunch, Transition, TerminalStatus, Finish, NoThread
<1>33. ASSUME NEW p \in Pid, WatchExit(p) PROVE Frame
  BY <1>33 DEF WatchExit
<1>34. ASSUME NEW p \in Pid, FinishWorker(p) PROVE Frame
  <2>1. \A k \in Job : status'[k] = status[k] \/ (k = proc[p].job /\ status'[k] = FinalStatus(p))
    BY <1>34 DEF FinishWorker, Transition
  <2>2. FinalStatus(p) \in {"completed", "failed", "cancelled"} /\ (FinalStatus(p) = "completed" => proc[p].event = "completed")
    BY DEF FinalStatus
  <2>3. CompletesEarned /\ StartsNone
    BY <1>34, <2>1, <2>2 DEF FinishWorker, WatchEnds
  <2> QED BY <1>34, <2>3 DEF FinishWorker, WatchEnds, NoProcess
<1>35. ASSUME NEW p \in Pid, FinishFails(p) PROVE Frame
  BY <1>35 DEF FinishFails, WatchEnds, NoProcess
<1>36. CASE StopCurrent
  BY <1>36 DEF StopCurrent, NoThread
<1>37. CASE KillCurrent
  BY <1>37 DEF KillCurrent, Finish, NoThread, Signalled
<1>38. CASE StopUnresolved
  BY <1>38 DEF StopUnresolved, NoThread
<1> HIDE DEF TypeOK, Process, Thread, ThreadState, Frame, KeepsFiles, StartsNone, Unstarted, CompletesEarned, Earned,
            TracksNone, KeepsProcesses, GoesOn, Tracked, Engaged, Running, RunningPhase, Exporting, Processing, At,
            rows, files, runner, bounds
<1>39. QED
  BY <1>1, <1>2, <1>3, <1>4, <1>5, <1>6, <1>7, <1>8, <1>9, <1>10, <1>11, <1>12, <1>13, <1>14,
     <1>15, <1>16, <1>17, <1>18, <1>19, <1>20, <1>21, <1>22, <1>23, <1>24, <1>25, <1>26, <1>27, <1>28,
     <1>29, <1>30, <1>31, <1>32, <1>33, <1>34, <1>35, <1>36, <1>37, <1>38
  DEF Next, Startup, Pass, User, Recovery, Watch, Thread

------------------------------------------------------------------------------
(* The invariant is inductive. *)

\* Before the first start nothing has been launched or written.
LEMMA TranscriptInit == Init => AttemptsInv /\ TranscriptInv
<1> SUFFICES ASSUME Init PROVE AttemptsInv /\ TranscriptInv
  OBVIOUS
<1>1. /\ \A j \in Job : /\ status[j] = "waiting" /\ attempt[j] = 1
                        /\ manifest[j].status = "none" /\ manifest[j].attempt = 0
      /\ \A p \in Pid : proc[p].job = NoJob
  BY DEF Init, NoProcess
<1>2. \A p \in Pid, j \in Job : proc[p].job # j /\ ~Of(p, j)
  BY <1>1, NoJobAssumption DEF Of
<1>3. AttemptsInv
  BY <1>1, <1>2 DEF AttemptsInv, AttemptsOf
<1>4. TranscriptInv
  BY <1>1, <1>2 DEF TranscriptInv, TranscriptOf
<1> QED BY <1>3, <1>4

\* Only workers, launches and retries touch attempts and files.
LEMMA TranscriptNext == ASSUME Before, [Next]_vars PROVE AttemptsInv' /\ TranscriptInv'
<1>0. TypeOK
  BY DEF Before
<1>1. ASSUME NEW p \in Pid, Worker(p) PROVE AttemptsInv' /\ TranscriptInv'
  BY <1>1, WorkerKeeps
<1>2. ASSUME NEW p \in Pid, Launch(p) PROVE AttemptsInv' /\ TranscriptInv'
  BY <1>2, LaunchStartsAttempt
<1>3. ASSUME NEW j \in Job, Retry(j) PROVE AttemptsInv' /\ TranscriptInv'
  BY <1>3, RetryStartsAttempt
<1>4. QED
  BY <1>0, <1>1, <1>2, <1>3, GuiFrame, FrameKeeps

\* TypeOK, TrackInv and SupervisionInv have proofs of their own.
LEMMA TranscriptHolds == Spec => [](TypeOK /\ AttemptsInv /\ TranscriptInv)
<1>1. Init => Before
  BY InitTypeOK, TrackInit, SupervisionInit, TranscriptInit DEF Before
<1>2. Before /\ [Next]_vars => Before'
  <2> SUFFICES ASSUME Before, [Next]_vars PROVE Before'
    OBVIOUS
  <2>1. TypeOK' /\ TrackInv'
    BY NextTypeOK, TrackNext DEF Before
  <2>2. (~LaunchKillMayFail => SupervisionInv)'
    BY SupervisionNext DEF Before
  <2> QED BY <2>1, <2>2, TranscriptNext DEF Before
<1>3. Before => TypeOK /\ AttemptsInv /\ TranscriptInv
  BY DEF Before
<1>4. QED
  BY <1>1, <1>2, <1>3, PTL DEF Spec

------------------------------------------------------------------------------
(* What follows for the code. *)

\* What TranscriptInv says of a completed row whose attempt is pure.
LEMMA CompletedIsPure ==
  ASSUME AttemptsInv, TranscriptInv, TypeOK, NEW j \in Job, Pure(j), status[j] = "completed"
  PROVE  /\ manifest[j].attempt \in 1..attempt[j]
         /\ manifest[j].attempt = attempt[j] => exports[j] = "whole"
<1>1. manifest[j].attempt \in Nat /\ attempt[j] \in Nat
  BY BoundsAssumption DEF TypeOK
<1>2. AttemptsOf(j) /\ TranscriptOf(j)
  BY DEF AttemptsInv, TranscriptInv
<1> QED BY <1>1, <1>2 DEF AttemptsOf, TranscriptOf

\* A row that was never retried is completed only with its whole transcript.
FirstAttemptIsWhole == \A j \in Job : attempt[j] = 1 /\ status[j] = "completed" => exports[j] = "whole"

\* Whatever crashes, failed kills, orphans and recoveries happen on the way: run_job
\* writes the manifest after the exports, and _on_worker_finished and _read_final_manifest
\* take a completed result only from what follows them.
THEOREM FirstAttempt == Spec => []FirstAttemptIsWhole
<1>1. TypeOK /\ AttemptsInv /\ TranscriptInv => FirstAttemptIsWhole
  BY CompletedIsPure DEF FirstAttemptIsWhole, Pure
<1>2. QED
  BY <1>1, TranscriptHolds, PTL

\* Without retries, every completed job has the whole transcript of its one attempt,
\* even when the kill that cleans up a failed launch fails.
THEOREM SingleAttempt == ASSUME MaxAttempts = 1 PROVE Spec => []CompletedTranscriptIsWhole
<1>1. TypeOK /\ FirstAttemptIsWhole => CompletedTranscriptIsWhole
  BY DEF TypeOK, FirstAttemptIsWhole, CompletedTranscriptIsWhole
<1>2. Spec => []TypeOK
  BY TranscriptHolds, PTL
<1>3. QED
  BY <1>1, <1>2, FirstAttempt, PTL

\* With retries, a completed row whose manifest.json is of the row's own attempt has
\* that attempt's whole transcript: _read_final_manifest can only err by a stale manifest.
THEOREM WholeOrStale == ASSUME ~LaunchKillMayFail PROVE Spec => []CompletedIsWholeOrStale
<1>1. TypeOK /\ AttemptsInv /\ TranscriptInv => CompletedIsWholeOrStale
  BY CompletedIsPure DEF CompletedIsWholeOrStale, Pure
<1>2. QED
  BY <1>1, TranscriptHolds, PTL
==============================================================================
