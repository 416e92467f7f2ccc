---------------------------- MODULE SettingsCommit ----------------------------
(***************************************************************************)
(* The two stores that a saved settings dialog changes one after the       *)
(* other, the settings file (config.py) and the autostart value in the     *)
(* registry (autostart.py), with the dialog's rollback by hand (ui.py);    *)
(* the toggle of automatic processing in the window and the tray, and the  *)
(* Inbox watcher that each change of the file restarts (controller.py).    *)
(*                                                                         *)
(* All steps are the UI thread's.  A step may fail because another thread  *)
(* or program has the file open: a write raises, and a read that raises    *)
(* is answered with the first-run defaults.                                *)
(***************************************************************************)
EXTENDS Naturals, Sequences, SequencesExt

CONSTANTS
  Option,         \* the values of all other fields together
  DefaultOption,  \* their first-run value
  BadOption,      \* a value that Settings.validate refuses
  MaxDialogs,     \* bound: settings dialogs open at once (window and tray)
  MaxMisreads,    \* bound: reads that fail
  MaxFaults,      \* bound: writes that fail
  MaxExits        \* bound: exits of the program

ASSUME OptionAssumption ==
  DefaultOption \in Option /\ BadOption \in Option /\ DefaultOption # BadOption
ASSUME BoundAssumption ==
  MaxDialogs \in Nat /\ MaxMisreads \in Nat /\ MaxFaults \in Nat /\ MaxExits \in Nat

Settings == [automatic : BOOLEAN, autostart : BOOLEAN, other : Option \ {BadOption}]
Defaults == [automatic |-> FALSE, autostart |-> TRUE, other |-> DefaultOption]

VARIABLES
  file,       \* what a read of the settings file gives when it succeeds
  registry,   \* the autostart value is in the registry
  observing,  \* the Inbox watcher runs
  dialogs,    \* the open settings dialogs, each with the settings it was built from
  step,       \* what the UI thread is doing
  doubt,      \* history: why the two stores may differ
  blind,      \* history: the last refresh misread the file, or could not start the watcher
  count       \* what the bounds limit

stores == <<file, registry>>
vars   == <<stores, observing, dialogs, step, doubt, blind, count>>

\* pc "update" writes step.new, "refresh" restarts the watcher and goes on to
\* step.then; the "undo" steps are the rollback of a save.
Pc   == {"idle", "down", "autostart", "update", "refresh", "undoUpdate", "undoAutostart"}
Step == [pc : Pc, old : Settings, new : Settings, misread : BOOLEAN,
         then : {"idle", "accept", "undoAutostart"}]

TypeOK ==
  /\ file \in Settings
  /\ registry \in BOOLEAN
  /\ observing \in BOOLEAN
  /\ dialogs \in Seq(Settings) /\ Len(dialogs) <= MaxDialogs
  /\ step \in Step
  /\ doubt \subseteq {"misread", "rollback", "exit"}
  /\ blind \in BOOLEAN
  /\ count \in [misreads : 0..MaxMisreads, faults : 0..MaxFaults, exits : 0..MaxExits]

At(p) == step.pc = p
Quiet == [pc |-> "idle", old |-> Defaults, new |-> Defaults, misread |-> FALSE, then |-> "idle"]

\* The installer has written the autostart value; there is no file yet, or one
\* that agrees with it.  The program is about to start.
Init ==
  /\ file \in Settings
  /\ registry = file.autostart
  /\ observing = FALSE
  /\ dialogs = <<>>
  /\ step = [Quiet EXCEPT !.pc = "down"]
  /\ doubt = {}
  /\ blind = FALSE
  /\ count = [misreads |-> 0, faults |-> 0, exits |-> 0]

\* SettingsStore.load returns s, with n reads that have failed before, k after it.
Loads(s, n, k) ==
  \/ s = file /\ k = n
  \/ s = Defaults /\ s # file /\ k = n + 1 /\ k <= MaxMisreads

Misreads == 0..MaxMisreads

Fault == count.faults < MaxFaults /\ count' = [count EXCEPT !.faults = @ + 1]

------------------------------------------------------------------------------
(* The start of the program, and its end at any moment. *)

Start ==
  /\ At("down")
  /\ step' = [Quiet EXCEPT !.pc = "refresh"]
  /\ UNCHANGED <<stores, observing, dialogs, doubt, blind, count>>

\* One store is changed, or changed back, and the other not yet.
HalfSaved == \/ At("update") /\ step.then = "accept"
             \/ At("undoUpdate") \/ At("undoAutostart")
             \/ At("refresh") /\ step.then = "undoAutostart"

Exit ==
  /\ ~At("down")
  /\ count.exits < MaxExits
  /\ count' = [count EXCEPT !.exits = @ + 1]
  /\ step' = [Quiet EXCEPT !.pc = "down"]
  /\ observing' = FALSE
  /\ dialogs' = <<>>
  /\ doubt' = IF HalfSaved THEN doubt \cup {"exit"} ELSE doubt
  /\ UNCHANGED <<stores, blind>>

------------------------------------------------------------------------------
(* The user: the dialog, and the toggle, which the tray offers at any time. *)

OpenSettings ==
  /\ At("idle") /\ Len(dialogs) < MaxDialogs
  /\ \E s \in Settings, k \in Misreads :
       /\ Loads(s, count.misreads, k)
       /\ dialogs' = Append(dialogs, s)
       /\ count' = [count EXCEPT !.misreads = k]
  /\ UNCHANGED <<stores, observing, step, doubt, blind>>

Cancel ==
  /\ At("idle") /\ dialogs # <<>>
  /\ dialogs' = Front(dialogs)
  /\ UNCHANGED <<stores, observing, step, doubt, blind, count>>

\* Mutant: the save starts from the settings the dialog was built from.
SaveShown(autostart, other) ==
  /\ At("idle") /\ dialogs # <<>> /\ other # BadOption
  /\ LET old == Last(dialogs) IN
       step' = [pc |-> "autostart", old |-> old, misread |-> FALSE, then |-> "accept",
                new |-> [old EXCEPT !.autostart = autostart, !.other = other]]
  /\ UNCHANGED <<stores, observing, dialogs, doubt, blind, count>>

\* Mutant: the form is not validated.
SaveUnchecked(autostart, other) ==
  /\ At("idle") /\ dialogs # <<>>
  /\ step' = [pc |-> "autostart", old |-> file, misread |-> FALSE, then |-> "accept",
              new |-> [file EXCEPT !.autostart = autostart, !.other = other]]
  /\ UNCHANGED <<stores, observing, dialogs, doubt, blind, count>>

\* SettingsDialog.save: what the form does not show is read again.  A form that
\* does not validate changes nothing.
Save(autostart, other) ==
  /\ At("idle") /\ dialogs # <<>> /\ other # BadOption
  /\ \E old \in Settings, k \in Misreads :
       /\ Loads(old, count.misreads, k)
       /\ count' = [count EXCEPT !.misreads = k]
       /\ step' = [pc |-> "autostart", old |-> old, misread |-> old # file, then |-> "accept",
                   new |-> [old EXCEPT !.autostart = autostart, !.other = other]]
  /\ UNCHANGED <<stores, observing, dialogs, doubt, blind>>

\* toggle_automatic and set_automatic_enabled each read the file.
Toggle ==
  /\ At("idle")
  /\ \E shown \in Settings, old \in Settings, n \in Misreads, k \in Misreads :
       /\ Loads(shown, count.misreads, n)
       /\ Loads(old, n, k)
       /\ count' = [count EXCEPT !.misreads = k]
       /\ step' = [pc |-> "update", old |-> old, misread |-> old # file, then |-> "idle",
                   new |-> [old EXCEPT !.automatic = ~shown.automatic]]
  /\ UNCHANGED <<stores, observing, dialogs, doubt, blind>>

------------------------------------------------------------------------------
(* AutostartManager.set_enabled and WorkCallController.update_settings. *)

SetAutostart ==
  /\ At("autostart")
  /\ registry' = step.new.autostart
  /\ step' = [step EXCEPT !.pc = "update"]
  /\ UNCHANGED <<file, observing, dialogs, doubt, blind, count>>

SetAutostartRaises ==
  /\ At("autostart") /\ Fault
  /\ step' = [step EXCEPT !.pc = "undoAutostart"]
  /\ UNCHANGED <<stores, observing, dialogs, doubt, blind>>

\* The replacement of the file.  A toggle that misread it has reset all of it.
Update ==
  /\ At("update")
  /\ file' = step.new
  /\ step' = [step EXCEPT !.pc = "refresh"]
  /\ doubt' = IF step.misread /\ step.then = "idle" THEN doubt \cup {"misread"} ELSE doubt
  /\ UNCHANGED <<registry, observing, dialogs, blind, count>>

\* Mutant: a failure is reported after the file has been replaced.
UpdateRaisesLate ==
  /\ At("update") /\ Fault
  /\ file' = step.new
  /\ step' = IF step.then = "accept" THEN [step EXCEPT !.pc = "undoUpdate"] ELSE Quiet
  /\ UNCHANGED <<registry, observing, dialogs, doubt, blind>>

\* Folders, temporary file and replacement come before anything else changes.
\* The toggle only shows the error.
UpdateRaises ==
  /\ At("update") /\ Fault
  /\ step' = IF step.then = "accept" THEN [step EXCEPT !.pc = "undoUpdate"] ELSE Quiet
  /\ UNCHANGED <<stores, observing, dialogs, doubt, blind>>

\* _refresh_watcher stops the watcher and starts one if the file, read once
\* more, says so; a watcher that cannot start is only logged.
RestartWatcher ==
  \E s \in Settings, k \in Misreads :
    /\ Loads(s, count.misreads, k)
    /\ count' = [count EXCEPT !.misreads = k]
    /\ observing' \in {FALSE, s.automatic}
    /\ blind' = (s # file \/ observing' # s.automatic)

\* After a toggle, at the start of the program, and within the rollback.
Refresh ==
  /\ At("refresh") /\ step.then # "accept"
  /\ RestartWatcher
  /\ step' = IF step.then = "idle" THEN Quiet ELSE [step EXCEPT !.pc = "undoAutostart"]
  /\ UNCHANGED <<stores, dialogs, doubt>>

\* At the end of a save: the dialog closes.
Accept ==
  /\ At("refresh") /\ step.then = "accept"
  /\ RestartWatcher
  /\ dialogs' = Front(dialogs)
  /\ step' = Quiet
  /\ doubt' = {}
  /\ UNCHANGED stores

(* The rollback. *)

\* Mutant: the rollback writes the file and leaves the watcher alone.
UndoKeepsWatcher ==
  /\ At("undoUpdate")
  /\ file' = step.old
  /\ step' = [step EXCEPT !.pc = "undoAutostart"]
  /\ UNCHANGED <<registry, observing, dialogs, doubt, blind, count>>

UndoUpdate ==
  /\ At("undoUpdate")
  /\ file' = step.old
  /\ step' = [pc |-> "refresh", old |-> step.old, new |-> step.new,
              misread |-> step.misread, then |-> "undoAutostart"]
  /\ UNCHANGED <<registry, observing, dialogs, doubt, blind, count>>

UndoUpdateRaises ==
  /\ At("undoUpdate") /\ Fault
  /\ step' = [step EXCEPT !.pc = "undoAutostart"]
  /\ UNCHANGED <<stores, observing, dialogs, doubt, blind>>

\* Mutant: the rollback sets the autostart value the user has asked for.
UndoToNew ==
  /\ At("undoAutostart")
  /\ registry' = step.new.autostart
  /\ step' = Quiet
  /\ doubt' = IF step.misread THEN doubt \cup {"misread"} ELSE {}
  /\ UNCHANGED <<file, observing, dialogs, blind, count>>

UndoAutostart ==
  /\ At("undoAutostart")
  /\ registry' = step.old.autostart
  /\ step' = Quiet
  /\ doubt' = IF step.misread THEN doubt \cup {"misread"} ELSE {}
  /\ UNCHANGED <<file, observing, dialogs, blind, count>>

\* The message of the refused save names it.
UndoAutostartRaises ==
  /\ At("undoAutostart") /\ Fault
  /\ step' = Quiet
  /\ doubt' = doubt \cup {"rollback"} \cup (IF step.misread THEN {"misread"} ELSE {})
  /\ UNCHANGED <<stores, observing, dialogs, blind>>

------------------------------------------------------------------------------
UserActs ==
  \/ OpenSettings \/ Cancel \/ Toggle
  \/ \E autostart \in BOOLEAN, other \in Option : Save(autostart, other)

Saving ==
  \/ SetAutostart \/ Update \/ Refresh \/ Accept \/ UndoUpdate \/ UndoAutostart
  \/ SetAutostartRaises \/ UpdateRaises \/ UndoUpdateRaises \/ UndoAutostartRaises

Next == UserActs \/ Saving \/ Start \/ Exit

Spec == Init /\ [][Next]_vars

------------------------------------------------------------------------------
(* Properties. *)

\* Whenever the UI thread is done, the registry says what the settings file
\* says, unless a read failed, the user was told that a rollback failed, or an
\* exit cut a save short; and the next save that is accepted ends every such
\* disagreement (SettingsDialog.save, its rollback, and the toggle, which
\* writes the whole file but never the registry).
StoresAgree == (At("idle") \/ At("down")) /\ doubt = {} => registry = file.autostart

\* When a save comes to undo the autostart value, the settings file is what it
\* was when the save began, also if the rollback of the file failed: update_settings
\* raises only before it has replaced the file.
RefusedSaveKeepsFile == At("undoAutostart") /\ ~step.misread => file = step.old

\* A save of the dialog never turns automatic processing on or off, although
\* the tray may toggle it while the dialog is open.
SaveKeepsAutomatic ==
  [][step.then = "accept" /\ ~step.misread => file'.automatic = file.automatic]_vars

\* No watcher runs while the file says that automatic processing is off, and
\* one runs while it is on unless its last restart failed or misread the file;
\* also after a save that was refused and rolled back.
WatcherFollowsFile ==
  At("idle") => /\ observing => file.automatic
                /\ file.automatic /\ ~blind => observing
==============================================================================
