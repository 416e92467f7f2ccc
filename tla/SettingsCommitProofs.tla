------------------------- MODULE SettingsCommitProofs -------------------------
(***************************************************************************)
(* Proofs about SettingsCommit: the two stores agree, a refused save keeps *)
(* the file, and the watcher follows it, whatever fails and for any bounds.*)
(***************************************************************************)
EXTENDS SettingsCommit, SequenceTheorems, TLAPS

\* What a sequence of dialogs stays when one opens and when the newest closes.
LEMMA DialogTypes ==
  ASSUME dialogs \in Seq(Settings), Len(dialogs) <= MaxDialogs
  PROVE  /\ \A s \in Settings : /\ Append(dialogs, s) \in Seq(Settings)
                                /\ Len(Append(dialogs, s)) = Len(dialogs) + 1
         /\ dialogs # <<>> => /\ Front(dialogs) \in Seq(Settings)
                              /\ Len(Front(dialogs)) <= MaxDialogs
<1>1. \A s \in Settings : /\ Append(dialogs, s) \in Seq(Settings)
                          /\ Len(Append(dialogs, s)) = Len(dialogs) + 1
  BY AppendProperties
<1>2. ASSUME dialogs # <<>>
      PROVE  Front(dialogs) \in Seq(Settings) /\ Len(Front(dialogs)) <= MaxDialogs
  <2>1. Len(dialogs) \in Nat /\ Len(dialogs) # 0
    BY <1>2, EmptySeq, LenProperties
  <2>2. /\ Front(dialogs) \in Seq(Settings)
        /\ Len(Front(dialogs)) = Len(dialogs) - 1
    <3>1. Len(dialogs) - 1 \in Int /\ \A i \in 1..(Len(dialogs) - 1) : dialogs[i] \in Settings
      BY <2>1, ElementOfSeq
    <3>2. Front(dialogs) = SubSeq(dialogs, 1, Len(dialogs) - 1)
      BY DEF Front
    <3>3. /\ SubSeq(dialogs, 1, Len(dialogs) - 1) \in Seq(Settings)
          /\ Len(SubSeq(dialogs, 1, Len(dialogs) - 1)) =
               IF 1 <= Len(dialogs) - 1 THEN Len(dialogs) - 1 - 1 + 1 ELSE 0
      BY <3>1, SubSeqProperties
    <3>4. Len(SubSeq(dialogs, 1, Len(dialogs) - 1)) = Len(dialogs) - 1
      <4>1. CASE Len(dialogs) = 1
        BY <3>3, <4>1
      <4>2. CASE Len(dialogs) # 1
        <5>1. 1 <= Len(dialogs) - 1
          BY <2>1, <4>2
        <5>2. Len(dialogs) - 1 - 1 + 1 = Len(dialogs) - 1
          BY <2>1
        <5>3. Len(SubSeq(dialogs, 1, Len(dialogs) - 1)) = Len(dialogs) - 1 - 1 + 1
          BY <3>3, <5>1, Zenon
        <5> QED BY <5>2, <5>3, Zenon
      <4> QED BY <4>1, <4>2
    <3> QED BY <3>2, <3>3, <3>4
  <2>3. Len(dialogs) - 1 <= MaxDialogs
    BY <2>1, BoundAssumption
  <2> QED BY <2>2, <2>3
<1> QED BY <1>1, <1>2

LEMMA QuietTypes ==
  /\ Defaults \in Settings
  /\ Quiet \in Step
  /\ \A p \in Pc : [Quiet EXCEPT !.pc = p] \in Step
  BY OptionAssumption DEF Defaults, Settings, Quiet, Step, Pc

\* A dialog is open until its save ends.
DialogInv ==
  /\ step.then # "idle" \/ step.pc = "undoUpdate" => dialogs # <<>>
  /\ step.pc \in {"idle", "down"} => step.then = "idle"

LEMMA StepTypes == TypeOK /\ DialogInv /\ [Next]_vars => TypeOK' /\ DialogInv'
<1> SUFFICES ASSUME TypeOK, DialogInv, [Next]_vars PROVE TypeOK' /\ DialogInv'
  OBVIOUS
<1> USE BoundAssumption, QuietTypes DEF TypeOK, DialogInv
<1>u. CASE UNCHANGED vars
  BY <1>u DEF vars, stores
<1>c. count \in [misreads : 0..MaxMisreads, faults : 0..MaxFaults, exits : 0..MaxExits]
      /\ step \in Step /\ file \in Settings
  OBVIOUS
<1>k. \A k \in Misreads : [count EXCEPT !.misreads = k]
        \in [misreads : 0..MaxMisreads, faults : 0..MaxFaults, exits : 0..MaxExits]
  BY <1>c DEF Misreads
<1>f. Fault => count' \in [misreads : 0..MaxMisreads, faults : 0..MaxFaults, exits : 0..MaxExits]
  BY <1>c DEF Fault
<1>s. /\ \A p \in Pc : /\ [step EXCEPT !.pc = p] \in Step
                        /\ [step EXCEPT !.pc = p].then = step.then
                        /\ [step EXCEPT !.pc = p].pc = p
      /\ [pc |-> "refresh", old |-> step.old, new |-> step.new,
          misread |-> step.misread, then |-> "undoAutostart"] \in Step
      /\ step.old \in Settings /\ step.new \in Settings
  <2>1. ASSUME NEW p \in Pc PROVE [step EXCEPT !.pc = p] \in Step
    BY <1>c DEF Step
  <2>4. step.old \in Settings /\ step.new \in Settings
    BY <1>c DEF Step
  <2>3. [pc |-> "refresh", old |-> step.old, new |-> step.new,
         misread |-> step.misread, then |-> "undoAutostart"] \in Step
    <3>2. step.misread \in BOOLEAN
      BY <1>c DEF Step
    <3> QED BY <3>2, <2>4 DEF Step, Pc
  <2>5. \A p \in Pc : /\ [step EXCEPT !.pc = p].then = step.then
                     /\ [step EXCEPT !.pc = p].pc = p
    BY <1>c DEF Step
  <2> QED BY <2>1, <2>3, <2>4, <2>5
<1>n. \A s \in Settings, a \in BOOLEAN, o \in Option \ {BadOption} :
        /\ [s EXCEPT !.autostart = a, !.other = o] \in Settings
        /\ [s EXCEPT !.automatic = a] \in Settings
        /\ s.automatic \in BOOLEAN /\ s.autostart \in BOOLEAN
  BY DEF Settings
<1>b. \A s \in Settings : s.automatic \in BOOLEAN /\ s.autostart \in BOOLEAN
  BY DEF Settings
<1>1. CASE Start
  <2>1. step' \in Step /\ step'.then = "idle" /\ step'.pc # "undoUpdate"
    BY <1>1 DEF Start, Quiet, Pc
  <2> QED BY <1>1, <2>1 DEF Start, stores
<1>2. CASE Exit
  <2>1. count' \in [misreads : 0..MaxMisreads, faults : 0..MaxFaults, exits : 0..MaxExits]
    BY <1>2, <1>c DEF Exit
  <2>2. dialogs' \in Seq(Settings) /\ Len(dialogs') <= MaxDialogs
    BY <1>2, EmptySeq DEF Exit
  <2>3. step' \in Step /\ step'.then = "idle" /\ step'.pc # "undoUpdate"
    BY <1>2 DEF Exit, Quiet, Pc
  <2> QED BY <1>2, <2>1, <2>2, <2>3 DEF Exit, stores
<1>3. CASE OpenSettings
  <2>1. PICK s \in Settings, k \in Misreads :
          dialogs' = Append(dialogs, s) /\ count' = [count EXCEPT !.misreads = k]
    BY <1>3 DEF OpenSettings
  <2>2. dialogs' \in Seq(Settings) /\ Len(dialogs') <= MaxDialogs /\ dialogs' # <<>>
    BY <1>3, <2>1, DialogTypes, LenProperties, EmptySeq DEF OpenSettings
  <2>3. count' \in [misreads : 0..MaxMisreads, faults : 0..MaxFaults, exits : 0..MaxExits]
    BY <2>1, <1>k
  <2> QED BY <1>3, <2>2, <2>3 DEF OpenSettings, stores
<1>4. CASE Cancel
  BY <1>4, DialogTypes DEF Cancel, At, Quiet, stores
<1>5. ASSUME NEW a \in BOOLEAN, NEW o \in Option, Save(a, o) PROVE TypeOK' /\ DialogInv'
  <2>1. PICK old \in Settings, k \in Misreads :
          /\ count' = [count EXCEPT !.misreads = k]
          /\ step' = [pc |-> "autostart", old |-> old, misread |-> old # file,
                      then |-> "accept", new |-> [old EXCEPT !.autostart = a, !.other = o]]
    BY <1>5 DEF Save
  <2>2. [old EXCEPT !.autostart = a, !.other = o] \in Settings
    BY <1>5, <1>n DEF Save
  <2>3. step' \in Step
    BY <2>1, <2>2 DEF Step, Pc
  <2>4. count' \in [misreads : 0..MaxMisreads, faults : 0..MaxFaults, exits : 0..MaxExits]
    BY <2>1, <1>k
  <2> QED BY <1>5, <2>3, <2>4 DEF Save, stores
<1>6. CASE Toggle
  <2>1. PICK shown \in Settings, old \in Settings, n \in Misreads, k \in Misreads :
          /\ count' = [count EXCEPT !.misreads = k]
          /\ step' = [pc |-> "update", old |-> old, misread |-> old # file, then |-> "idle",
                      new |-> [old EXCEPT !.automatic = ~shown.automatic]]
    BY <1>6 DEF Toggle
  <2>2. [old EXCEPT !.automatic = ~shown.automatic] \in Settings
    BY <1>n DEF Settings
  <2>3. step' \in Step /\ step'.then = "idle" /\ step'.pc # "undoUpdate"
    BY <2>1, <2>2 DEF Step, Pc
  <2>4. count' \in [misreads : 0..MaxMisreads, faults : 0..MaxFaults, exits : 0..MaxExits]
    BY <2>1, <1>k
  <2> QED BY <1>6, <2>3, <2>4 DEF Toggle, stores
<1>7. CASE SetAutostart
  <2>1. step' \in Step /\ step'.then = step.then /\ step'.pc # "undoUpdate"
    BY <1>7, <1>s DEF SetAutostart, Pc
  <2>2. registry' \in BOOLEAN
    <3>1. registry' = step.new.autostart
      BY <1>7 DEF SetAutostart
    <3> QED BY <3>1, <1>s, <1>b, Zenon
  <2> QED BY <1>7, <2>1, <2>2 DEF SetAutostart
<1>8. CASE SetAutostartRaises
  <2>1. step' \in Step /\ step'.then = step.then /\ step'.pc # "undoUpdate"
    BY <1>8, <1>s DEF SetAutostartRaises, Pc
  <2> QED BY <1>8, <2>1, <1>f DEF SetAutostartRaises, stores
<1>9. CASE Update
  <2>1. step' \in Step /\ step'.then = step.then /\ step'.pc # "undoUpdate"
    BY <1>9, <1>s DEF Update, Pc
  <2> QED BY <1>9, <2>1, <1>s DEF Update
<1>10. CASE UpdateRaises
  <2>1. /\ step' \in Step
        /\ step'.then = step.then \/ step'.then = "idle"
        /\ step'.pc = "undoUpdate" => step.then = "accept"
        /\ step'.pc \in {"idle", "down"} => step'.then = "idle"
    BY <1>10, <1>s DEF UpdateRaises, Pc, Quiet
  <2> QED BY <1>10, <2>1, <1>f DEF UpdateRaises, stores
<1>11. CASE Refresh \/ Accept
  <2>1. PICK s \in Settings, k \in Misreads :
          /\ count' = [count EXCEPT !.misreads = k]
          /\ observing' \in {FALSE, s.automatic}
          /\ blind' = (s # file \/ observing' # s.automatic)
    BY <1>11 DEF Refresh, Accept, RestartWatcher
  <2>2. count' \in [misreads : 0..MaxMisreads, faults : 0..MaxFaults, exits : 0..MaxExits]
    BY <2>1, <1>k
  <2>3. observing' \in BOOLEAN /\ blind' \in BOOLEAN
    <3>1. observing' \in {FALSE, s.automatic} /\ s.automatic \in BOOLEAN
      BY <2>1, <1>b, Zenon
    <3>2. observing' \in BOOLEAN
      BY <3>1, Zenon
    <3>3. blind' \in BOOLEAN
      BY <2>1, Zenon
    <3> QED BY <3>2, <3>3
  <2>4. CASE Refresh
    <3>1. /\ step' \in Step /\ step'.pc # "undoUpdate"
          /\ step'.then = step.then \/ step'.then = "idle"
      BY <2>4, <1>s DEF Refresh, Pc, Quiet
    <3> QED BY <2>2, <2>3, <2>4, <3>1 DEF Refresh, stores
  <2>5. CASE Accept
    BY <2>2, <2>3, <2>5, DialogTypes DEF Accept, stores, Quiet
  <2> QED BY <1>11, <2>4, <2>5
<1>12. CASE UndoUpdate
  <2>1. dialogs # <<>>
    BY <1>12 DEF UndoUpdate, At
  <2>2. step' \in Step
    BY <1>12, <1>s DEF UndoUpdate
  <2> QED BY <1>12, <2>1, <2>2, <1>s DEF UndoUpdate
<1>13. CASE UndoUpdateRaises
  <2>1. step' \in Step /\ step'.then = step.then /\ step'.pc # "undoUpdate"
    BY <1>13, <1>s DEF UndoUpdateRaises, Pc
  <2> QED BY <1>13, <2>1, <1>f DEF UndoUpdateRaises, stores
<1>14. CASE UndoAutostart
  <2>1. registry' \in BOOLEAN
    <3>1. registry' = step.old.autostart
      BY <1>14 DEF UndoAutostart
    <3> QED BY <3>1, <1>s, <1>b, Zenon
  <2>2. doubt' \subseteq {"misread", "rollback", "exit"}
    BY <1>14 DEF UndoAutostart
  <2> QED BY <1>14, <2>1, <2>2 DEF UndoAutostart, Quiet
<1>15. CASE UndoAutostartRaises
  BY <1>15, <1>f DEF UndoAutostartRaises, Quiet, stores
<1> HIDE DEF TypeOK, DialogInv
<1> QED
  BY <1>u, <1>1, <1>2, <1>3, <1>4, <1>5, <1>6, <1>7, <1>8, <1>9, <1>10, <1>11, <1>12,
     <1>13, <1>14, <1>15, Zenon DEF Next, UserActs, Saving

LEMMA InitTypes == Init => TypeOK /\ DialogInv
<1> SUFFICES ASSUME Init PROVE TypeOK /\ DialogInv
  OBVIOUS
<1>1. step \in Step /\ step.pc = "down" /\ step.then = "idle"
  BY QuietTypes DEF Init, Quiet, Pc
<1>2. registry \in BOOLEAN
  <2>1. registry = file.autostart /\ file \in Settings
    BY DEF Init
  <2>2. file.autostart \in BOOLEAN
    BY <2>1 DEF Settings
  <2> QED BY <2>1, <2>2, Zenon
<1>3. dialogs \in Seq(Settings) /\ Len(dialogs) <= MaxDialogs
  BY EmptySeq, BoundAssumption DEF Init
<1>4. count \in [misreads : 0..MaxMisreads, faults : 0..MaxFaults, exits : 0..MaxExits]
  BY BoundAssumption DEF Init
<1> QED BY <1>1, <1>2, <1>3, <1>4 DEF Init, TypeOK, DialogInv

\* Every state of the settings has its type: the file, the registry value, the
\* open dialogs, and the settings a save or a toggle works on (config.py, ui.py).
THEOREM SettingsKeepTypes == Spec => []TypeOK
  BY InitTypes, StepTypes, PTL DEF Spec

------------------------------------------------------------------------------
(* The two stores. *)

\* Where a save or a toggle is, and what the stores hold there.
Settled ==
  \/ step.pc \in {"idle", "down", "autostart"}
  \/ step.pc \in {"update", "refresh"} /\ step.then = "idle"
Unwritten ==
  \/ step.pc \in {"autostart", "update", "undoUpdate", "undoAutostart"}
  \/ step.pc = "refresh" /\ step.then = "undoAutostart"

StoresInv ==
  /\ Settled /\ doubt = {} => registry = file.autostart
  /\ step.pc = "update" /\ step.then = "accept" => registry = step.new.autostart
  /\ step.pc = "refresh" /\ step.then = "accept" => registry = file.autostart
  /\ Unwritten /\ step.misread = FALSE => file = step.old
  /\ step.pc \in {"autostart", "undoUpdate"} => step.then = "accept"
  /\ step.pc = "update" => step.then # "undoAutostart"
  /\ step.then = "accept" => step.new.automatic = step.old.automatic
  /\ step.pc = "update" /\ step.then = "idle" => step.new.autostart = step.old.autostart

\* A step that moves on within a save keeps the save's data.
LEMMA StepMoves ==
  ASSUME step \in Step, NEW p \in Pc
  PROVE  LET s == [step EXCEPT !.pc = p] IN
           /\ s.pc = p /\ s.then = step.then /\ s.misread = step.misread
           /\ s.old = step.old /\ s.new = step.new
  BY DEF Step

LEMMA QuietFields ==
  /\ Quiet.pc = "idle" /\ Quiet.then = "idle"
  /\ \A p \in Pc : [Quiet EXCEPT !.pc = p].pc = p /\ [Quiet EXCEPT !.pc = p].then = "idle"
  BY DEF Quiet

LEMMA StepStores == TypeOK /\ DialogInv /\ StoresInv /\ [Next]_vars => StoresInv'
<1> SUFFICES ASSUME TypeOK, DialogInv, StoresInv, [Next]_vars PROVE StoresInv'
  OBVIOUS
<1>t. step \in Step /\ step.pc \in Pc /\ step.then \in {"idle", "accept", "undoAutostart"}
  BY DEF TypeOK, Step
<1>d. step.pc \in {"idle", "down"} => step.then = "idle"
  BY DEF DialogInv
<1> USE DEF StoresInv, Settled, Unwritten
<1>m. step.misread = FALSE \/ step.misread = TRUE
  BY <1>t DEF Step
<1>u. CASE UNCHANGED vars
  BY <1>u DEF vars, stores
<1>1. CASE Start
  <2>1. step'.pc = "refresh" /\ step'.then = "idle" /\ UNCHANGED <<file, registry, doubt>>
    BY <1>1, QuietFields DEF Start, stores, Pc
  <2>2. doubt = {} => registry = file.autostart
    BY <1>1 DEF Start, At
  <2> QED BY <2>1, <2>2
<1>2. CASE Exit
  <2>1. step'.pc = "down" /\ step'.then = "idle" /\ file' = file /\ registry' = registry
    BY <1>2, QuietFields DEF Exit, stores, Pc
  <2>2. CASE HalfSaved
    BY <1>2, <2>1, <2>2 DEF Exit
  <2>3. CASE ~HalfSaved
    <3>1. doubt' = doubt /\ step.pc # "down"
      BY <1>2, <2>3 DEF Exit, At
    <3>2. doubt = {} => registry = file.autostart
      BY <1>t, <2>3, <3>1 DEF HalfSaved, At, Pc
    <3> QED BY <2>1, <3>1, <3>2
  <2> QED BY <2>2, <2>3
<1>3. CASE OpenSettings
  BY <1>3 DEF OpenSettings, stores
<1>4. CASE Cancel
  BY <1>4 DEF Cancel, stores
<1>5. ASSUME NEW a \in BOOLEAN, NEW o \in Option, Save(a, o) PROVE StoresInv'
  <2>1. PICK old \in Settings :
          step' = [pc |-> "autostart", old |-> old, misread |-> old # file, then |-> "accept",
                   new |-> [old EXCEPT !.autostart = a, !.other = o]]
    BY <1>5 DEF Save
  <2>2. /\ step'.pc = "autostart" /\ step'.then = "accept"
        /\ step'.misread = FALSE => file = step'.old
        /\ step'.new.automatic = step'.old.automatic
    BY <2>1 DEF Settings
  <2> QED BY <1>5, <2>2 DEF Save, At, stores
<1>6. CASE Toggle
  <2>1. PICK shown \in Settings, old \in Settings :
          step' = [pc |-> "update", old |-> old, misread |-> old # file, then |-> "idle",
                   new |-> [old EXCEPT !.automatic = ~shown.automatic]]
    BY <1>6 DEF Toggle
  <2>2. /\ step'.pc = "update" /\ step'.then = "idle"
        /\ step'.misread = FALSE => file = step'.old
        /\ step'.new.autostart = step'.old.autostart
    BY <2>1 DEF Settings
  <2>3. UNCHANGED <<file, registry, doubt>> /\ step.pc = "idle"
    BY <1>6 DEF Toggle, At, stores
  <2> QED BY <2>2, <2>3
<1>7. CASE SetAutostart
  BY <1>7, <1>t, StepMoves DEF SetAutostart, At, Pc
<1>8. CASE SetAutostartRaises
  BY <1>8, <1>t, StepMoves DEF SetAutostartRaises, At, Pc, stores
<1>9. CASE Update
  <2>1. /\ step'.pc = "refresh" /\ step'.then = step.then /\ step'.new = step.new
        /\ step'.old = step.old /\ file' = step.new /\ registry' = registry
        /\ step.pc = "update"
    BY <1>9, <1>t, StepMoves DEF Update, At, Pc
  <2>2. doubt' = {} /\ step.then = "idle" => doubt = {} /\ step.misread = FALSE
    BY <1>9, <1>m DEF Update
  <2> QED BY <2>1, <2>2
<1>10. CASE UpdateRaises
  BY <1>10, <1>t, StepMoves, QuietFields DEF UpdateRaises, At, Pc, stores
<1>11. CASE Refresh
  BY <1>11, <1>t, StepMoves, QuietFields DEF Refresh, At, Pc, stores
<1>12. CASE Accept
  BY <1>12, QuietFields DEF Accept, At, stores
<1>13. CASE UndoUpdate
  BY <1>13 DEF UndoUpdate, At
<1>14. CASE UndoUpdateRaises
  BY <1>14, <1>t, StepMoves DEF UndoUpdateRaises, At, Pc, stores
<1>15. CASE UndoAutostart
  <2>1. /\ step.pc = "undoAutostart" /\ step'.pc = "idle" /\ step'.then = "idle"
        /\ registry' = step.old.autostart /\ file' = file
    BY <1>15, QuietFields DEF UndoAutostart, At
  <2>2. doubt' = {} => step.misread = FALSE
    BY <1>15, <1>m DEF UndoAutostart
  <2> QED BY <2>1, <2>2
<1>16. CASE UndoAutostartRaises
  BY <1>16, QuietFields DEF UndoAutostartRaises, At, stores
<1> HIDE DEF StoresInv, Settled, Unwritten
<1> QED
  BY <1>u, <1>1, <1>2, <1>3, <1>4, <1>5, <1>6, <1>7, <1>8, <1>9, <1>10, <1>11, <1>12,
     <1>13, <1>14, <1>15, <1>16, Zenon DEF Next, UserActs, Saving

LEMMA InitStores == Init => TypeOK /\ DialogInv /\ StoresInv
<1>1. Init => step.pc = "down" /\ step.then = "idle" /\ registry = file.autostart
  BY QuietFields DEF Init, Pc
<1> QED BY <1>1, InitTypes DEF StoresInv, Unwritten

\* Whenever the UI thread is done, the registry says what the settings file
\* says, unless a read failed, a rollback failed, or an exit cut a save short
\* (SettingsDialog.save and its rollback).
THEOREM StoresStayTogether == Spec => []StoresAgree
<1>1. StoresInv => StoresAgree
  BY DEF StoresInv, Settled, StoresAgree, At
<1> QED BY <1>1, InitStores, StepTypes, StepStores, PTL DEF Spec

\* When a save comes to undo the autostart value, the settings file is what it
\* was when the save began (update_settings raises only before the replacement).
THEOREM RefusedSaveUndone == Spec => []RefusedSaveKeepsFile
<1>1. TypeOK /\ StoresInv => RefusedSaveKeepsFile
  BY DEF TypeOK, Step, StoresInv, Unwritten, RefusedSaveKeepsFile, At
<1> QED BY <1>1, InitStores, StepTypes, StepStores, PTL DEF Spec

\* A save never turns automatic processing on or off, whatever was toggled
\* while its dialog was open (SettingsDialog.save reads the file again).
THEOREM SaveLeavesAutomatic == Spec => SaveKeepsAutomatic
<1> DEFINE Kept == step.then = "accept" /\ ~step.misread => file'.automatic = file.automatic
<1>1. TypeOK /\ DialogInv /\ StoresInv /\ [Next]_vars => [Kept]_vars
  <2> SUFFICES ASSUME TypeOK, DialogInv, StoresInv, Next, step.then = "accept", ~step.misread
               PROVE  file'.automatic = file.automatic
    OBVIOUS
  <2>m. step.misread = FALSE
    BY DEF TypeOK, Step
  <2>1. CASE Update
    BY <2>1, <2>m DEF Update, StoresInv, Unwritten, At
  <2>2. CASE UndoUpdate
    BY <2>2, <2>m DEF UndoUpdate, StoresInv, Unwritten, At
  <2>3. CASE ~Update /\ ~UndoUpdate
    BY <2>3 DEF Next, UserActs, Saving, Start, Exit, OpenSettings, Cancel, Toggle, Save,
      SetAutostart, Refresh, Accept, UndoAutostart, SetAutostartRaises, UpdateRaises,
      UndoUpdateRaises, UndoAutostartRaises, stores
  <2> QED BY <2>1, <2>2, <2>3
<1> QED BY <1>1, InitStores, StepTypes, StepStores, PTL DEF Spec, SaveKeepsAutomatic

------------------------------------------------------------------------------
(* The watcher. *)

\* Except between a change of the file and the restart it causes.
WatcherInv ==
  step.pc \notin {"refresh", "down"} =>
    /\ observing => file.automatic
    /\ file.automatic /\ ~blind => observing

LEMMA StepWatcher == TypeOK /\ WatcherInv /\ [Next]_vars => WatcherInv'
<1> SUFFICES ASSUME TypeOK, WatcherInv, [Next]_vars PROVE WatcherInv'
  OBVIOUS
<1>t. step \in Step
  BY DEF TypeOK
<1> USE DEF WatcherInv
<1>u. CASE UNCHANGED vars
  BY <1>u DEF vars, stores
<1>1. CASE Start \/ Exit
  BY <1>1, QuietFields DEF Start, Exit, Pc
<1>2. CASE OpenSettings \/ Cancel
  BY <1>2 DEF OpenSettings, Cancel, stores
<1>3. CASE Toggle \/ \E a \in BOOLEAN, o \in Option : Save(a, o)
  BY <1>3 DEF Toggle, Save, At, stores
<1>4. CASE Refresh \/ Accept
  <2>1. PICK s \in Settings :
          /\ s = file \/ s = Defaults
          /\ observing' \in {FALSE, s.automatic}
          /\ blind' = (s # file \/ observing' # s.automatic)
    BY <1>4 DEF Refresh, Accept, RestartWatcher, Loads
  <2>2. file' = file
    BY <1>4 DEF Refresh, Accept, stores
  <2>3. observing' => s = file /\ file.automatic
    <3>1. Defaults.automatic = FALSE
      BY DEF Defaults
    <3> QED BY <2>1, <3>1, Zenon
  <2>4. file.automatic /\ ~blind' => observing'
    BY <2>1, Zenon
  <2> QED BY <2>2, <2>3, <2>4, Zenon
<1>5. CASE Update \/ UndoUpdate
  <2>1. CASE Update
    BY <2>1, <1>t, StepMoves DEF Update, Pc
  <2>2. CASE UndoUpdate
    BY <2>2 DEF UndoUpdate
  <2> QED BY <1>5, <2>1, <2>2
<1>6. CASE SetAutostart \/ SetAutostartRaises \/ UpdateRaises \/ UndoUpdateRaises
             \/ UndoAutostart \/ UndoAutostartRaises
  BY <1>6 DEF SetAutostart, SetAutostartRaises, UpdateRaises, UndoUpdateRaises, UndoAutostart,
              UndoAutostartRaises, At, stores
<1> HIDE DEF WatcherInv
<1> QED
  BY <1>u, <1>1, <1>2, <1>3, <1>4, <1>5, <1>6, Zenon DEF Next, UserActs, Saving

\* No watcher runs while the file says that automatic processing is off, and one
\* runs while it is on, unless its last restart failed or misread the file
\* (WorkCallController._refresh_watcher, also within the dialog's rollback).
THEOREM WatcherAgreesWithFile == Spec => []WatcherFollowsFile
<1>1. WatcherInv => WatcherFollowsFile
  BY DEF WatcherInv, WatcherFollowsFile, At
<1>2. Init => WatcherInv
  BY QuietFields DEF Init, WatcherInv, Pc
<1> QED BY <1>1, <1>2, InitStores, StepTypes, StepWatcher, PTL DEF Spec
==============================================================================
