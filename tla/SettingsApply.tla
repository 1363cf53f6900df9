--------------------------- MODULE SettingsApply ----------------------------
(***************************************************************************)
(* bridge/settings.py from the moment the official settings window is      *)
(* opened on a copy of the configuration to the end of main(): what the    *)
(* person changed is merged into the live configuration of the keyboard    *)
(* engine, which has to be stopped for that and started again.             *)
(*                                                                         *)
(*   app   pc: the place in main(); before, after: the copy as it was and  *)
(*         as the window left it; current: the live configuration as last  *)
(*         read; reread: it was read again at line 181; active:            *)
(*         was_active; end: how main() ended                               *)
(*   opens   how often the window was opened                               *)
(*   pref  the preference in smart-organize.json, NoPref while there is no *)
(*         such file                                                       *)
(*                                                                         *)
(* A second settings program is refused by a lock of its own and does      *)
(* nothing.  Each step is one file access, one lock operation or one call  *)
(* of systemctl that changes something (owns_service() and is-active only  *)
(* look, and are one); the program may be killed between any two.          *)
(***************************************************************************)
EXTENDS PrefixService, Installer

CONSTANTS NoPref, MaxOpens
ASSUME PrefAssumption == NoPref \notin {Off, On} /\ MaxOpens \in Nat

VARIABLES app, pref, opens
appVars == <<app, pref, opens>>

Places == {"closed", "open", "looking", "calling", "stopping", "locking", "merging", "writing",
           "unlocking", "starting", "waiting", "undoing", "undoStopping", "relocking",
           "restoring", "undoUnlocking", "undoStarting", "enabling"}
Ends == {"", "unchanged", "applied", "failed", "refused", "stopFailed", "notRestored",
         "notRestarted", "notEnabled", "killed"}

SettingsTypeOK ==
    /\ app \in [pc : Places, before : Configs \cup {NoConfig},
                after : Configs \cup {NoConfig}, current : Configs \cup {NoConfig},
                reread : BOOLEAN, active : BOOLEAN, end : Ends]
    /\ pref \in {Off, On, NoPref} /\ opens \in 0..MaxOpens

Closing(end) == [app EXCEPT !.pc = "closed", !.end = end, !.before = NoConfig,
                            !.after = NoConfig, !.current = NoConfig, !.reread = FALSE]
Closed(end) == app' = Closing(end)
Goes(from, to) == app.pc = from /\ app' = [app EXCEPT !.pc = to]

SettingsInit ==
    /\ app = [pc |-> "closed", before |-> NoConfig, after |-> NoConfig,
              current |-> NoConfig, reread |-> FALSE, active |-> FALSE, end |-> ""]
    /\ pref = NoPref /\ opens = 0

-----------------------------------------------------------------------------
(* merge_keyboard(), merge_supported_settings() *)

\* enabled() of bridge/organize.py: the preference, else what the engine's file says.
Enabled == IF pref = NoPref THEN conf[Smart] ELSE pref

Requested == Differing(app.before, app.after)

\* No requested setting was changed to a third value meanwhile.
MayMerge(current) == \A k \in Requested : current[k] \in {app.before[k], app.after[k]}

\* What the window changed goes over what the file says now.
Merged(current) == [k \in Keys |-> IF k \in Requested THEN app.after[k] ELSE current[k]]

-----------------------------------------------------------------------------
(* The window *)

Open ==
    /\ app.pc = "closed" /\ opens < MaxOpens /\ opens' = opens + 1
    /\ LET copy == [conf EXCEPT ![Smart] = Enabled] IN
       app' = [app EXCEPT !.pc = "open", !.end = "", !.active = FALSE,
                          !.before = copy]
    /\ UNCHANGED <<prefixVars, installVars, pref>>

\* The window ends abnormally or its backend does not start.
WindowFails ==
    /\ app.pc = "open" /\ Closed("unchanged")
    /\ UNCHANGED <<prefixVars, installVars, pref, opens>>

\* The window is closed: the live file is read and the merge tried for the first time.
WindowCloses(after) ==
    /\ app.pc = "open"
    /\ LET asked == [app EXCEPT !.after = after, !.current = conf]
           changed == Differing(app.before, after) IN
       app' = IF changed = {} \/ \E k \in changed : conf[k] \notin {app.before[k], after[k]}
              THEN Closing("unchanged")
              ELSE [asked EXCEPT !.pc = "looking"]
    /\ UNCHANGED <<prefixVars, installVars, pref, opens>>

-----------------------------------------------------------------------------
(* Stop, lock, write, unlock, start, wait *)

\* owns_service(): the unit is the one this checkout has installed, unmodified.
OwnsService == UnitFile \in manifest /\ file[UnitFile] = "ours"

\* is-active says no while the unit stops or waits for its restart.
Looks ==
    /\ app.pc = "looking"
    /\ LET active == OwnsService /\ unit = "active" IN
       app' = [app EXCEPT !.active = active, !.pc = IF active THEN "calling" ELSE "locking"]
    /\ UNCHANGED <<prefixVars, installVars, pref, opens>>

Stops ==
    /\ Goes("calling", "stopping") /\ StopUnit
    /\ UNCHANGED <<lock, broker, engine, conf, changes, faults, fresh, left, installVars, pref, opens>>

Stopped ==
    /\ Goes("stopping", "locking") /\ unit # "stopping"
    /\ UNCHANGED <<prefixVars, installVars, pref, opens>>

\* systemctl stop fails or takes more than 25 s: main() ends here.
StopFails ==
    /\ app.pc = "stopping" /\ Closed("stopFailed") /\ Fails
    /\ UNCHANGED <<runVars, conf, changes, fresh, left, installVars, pref, opens>>

MayLockFaulty == TRUE                 \* a refused lock is ignored
MayLock == lock \in {Free, "settings"}

Locks ==
    /\ Goes("locking", "merging") /\ MayLock /\ lock' = "settings" /\ fresh' = {}
    /\ UNCHANGED <<unit, wrap, broker, engine, conf, changes, faults, left, installVars, pref, opens>>

\* Somebody else runs the engine.  A service that was stopped stays stopped.
LockFails ==
    /\ app.pc = "locking" /\ ~MayLock /\ Closed("refused")
    /\ UNCHANGED <<prefixVars, installVars, pref, opens>>

RereadFaulty == app.current           \* the file as it was before the service was stopped
\* The file is read again, now that the engine has saved and stopped.
Reread == conf

Merges ==
    /\ app.pc = "merging"
    /\ app' = [app EXCEPT !.current = Reread, !.reread = TRUE,
                          !.pc = IF MayMerge(Reread) THEN "writing" ELSE "undoing"]
    /\ UNCHANGED <<prefixVars, installVars, pref, opens>>

\* The file cannot be read again, or not be written.
FileFails ==
    /\ app.pc \in {"merging", "writing"} /\ app' = [app EXCEPT !.pc = "undoing"] /\ Fails
    /\ UNCHANGED <<runVars, conf, changes, fresh, left, installVars, pref, opens>>

Writes ==
    /\ Goes("writing", "unlocking") /\ conf' = Merged(app.current)
    /\ UNCHANGED <<runVars, changes, faults, fresh, left, installVars, pref, opens>>

Released == IF lock = "settings" THEN Free ELSE lock

UnlockedFaulty == lock                \* the service is started under the lock
Unlocked == Released

Unlocks ==
    /\ app.pc = "unlocking" /\ lock' = Unlocked
    /\ app' = [app EXCEPT !.pc = IF app.active THEN "starting" ELSE "enabling"]
    /\ UNCHANGED <<unit, wrap, broker, engine, conf, changes, faults, fresh, left, installVars, pref, opens>>

Starts ==
    /\ Goes("starting", "waiting") /\ StartUnit
    /\ UNCHANGED <<lock, broker, engine, conf, changes, faults, fresh, left, installVars, pref, opens>>

StartFails ==
    /\ Goes("starting", "undoing") /\ Fails
    /\ UNCHANGED <<runVars, conf, changes, fresh, left, installVars, pref, opens>>

ServingFaulty == TRUE                 \* started is taken for ready
\* wait_keyboard(): somebody listens at the keyboard's socket, a broker started by hand or
\* left by a killed wrapper included.
Serving == Listening

Connects ==
    /\ Goes("waiting", "enabling") /\ Serving
    /\ UNCHANGED <<prefixVars, installVars, pref, opens>>

\* 30 s have passed.  They are enough for a service that starts undisturbed.
OnItsWay == \/ unit = "active" /\ wrap["service"] = "starting" /\ lock = Free
            \/ wrap["service"] \in {"locked", "up"}

WaitFails ==
    /\ Goes("waiting", "undoing") /\ ~OnItsWay
    /\ UNCHANGED <<prefixVars, installVars, pref, opens>>

\* A slow machine.
WaitTooShort ==
    /\ Goes("waiting", "undoing") /\ OnItsWay /\ Fails
    /\ UNCHANGED <<runVars, conf, changes, fresh, left, installVars, pref, opens>>

-----------------------------------------------------------------------------
(* except Exception: the former configuration and the service are brought back *)

Undoes ==
    /\ app.pc = "undoing"
    /\ app' = [app EXCEPT !.pc = IF app.active THEN "undoStopping" ELSE "relocking"]
    /\ IF app.active THEN StopUnit ELSE UNCHANGED <<unit, wrap>>
    /\ UNCHANGED <<lock, broker, engine, conf, changes, faults, fresh, left, installVars, pref, opens>>

UndoStopped ==
    /\ Goes("undoStopping", "relocking") /\ unit # "stopping"
    /\ UNCHANGED <<prefixVars, installVars, pref, opens>>

Relocks ==
    /\ Goes("relocking", "restoring") /\ MayLock /\ lock' = "settings"
    /\ UNCHANGED <<unit, wrap, broker, engine, conf, changes, faults, fresh, left, installVars, pref, opens>>

\* The stop, the lock or the file fails once more: nothing is restored, nothing started.
UndoFails ==
    /\ \/ app.pc \in {"undoStopping", "restoring"} /\ Fails
       \/ app.pc = "relocking" /\ ~MayLock /\ UNCHANGED faults
    /\ Closed("notRestored") /\ lock' = Released
    /\ UNCHANGED <<unit, wrap, broker, engine, conf, changes, fresh, left, installVars, pref, opens>>

Restores ==
    /\ Goes("restoring", "undoUnlocking") /\ conf' = app.current
    /\ UNCHANGED <<runVars, changes, faults, fresh, left, installVars, pref, opens>>

UndoUnlocks ==
    /\ app.pc = "undoUnlocking" /\ lock' = Released
    /\ IF app.active THEN app' = [app EXCEPT !.pc = "undoStarting"] ELSE Closed("failed")
    /\ UNCHANGED <<unit, wrap, broker, engine, conf, changes, faults, fresh, left, installVars, pref, opens>>

UndoStartsFaulty == UNCHANGED <<unit, wrap>>    \* the service is not started again
UndoStarts == StartUnit

UndoEndsStarting ==
    /\ app.pc = "undoStarting" /\ UndoStarts /\ Closed("failed")
    /\ UNCHANGED <<lock, broker, engine, conf, changes, faults, fresh, left, installVars, pref, opens>>

\* This call of systemctl start has no check=True: it fails unnoticed, or takes more than
\* 40 s.
UndoStartFails ==
    /\ app.pc = "undoStarting" /\ Closed("notRestarted") /\ Fails
    /\ UNCHANGED <<runVars, conf, changes, fresh, left, installVars, pref, opens>>

-----------------------------------------------------------------------------
(* After the configuration *)

\* set_enabled(), then the program ends.
Enables ==
    /\ app.pc = "enabling" /\ Closed("applied")
    /\ pref' = IF Smart \in Requested THEN app.after[Smart] ELSE pref
    /\ UNCHANGED <<prefixVars, installVars, opens>>

\* The preference cannot be written; the configuration is not taken back.
EnableFails ==
    /\ app.pc = "enabling" /\ Smart \in Requested /\ Closed("notEnabled") /\ Fails
    /\ UNCHANGED <<runVars, conf, changes, fresh, left, installVars, pref, opens>>

\* The lock goes with the process.
Killed ==
    /\ app.pc # "closed" /\ Closed("killed") /\ lock' = Released /\ Fails
    /\ UNCHANGED <<unit, wrap, broker, engine, conf, changes, fresh, left, installVars, pref, opens>>

\* doubao-voice organize-on, organize-off
SwitchesPreference ==
    /\ changes < MaxChanges /\ changes' = changes + 1
    /\ pref' \in {Off, On} \ {pref}
    /\ UNCHANGED <<runVars, conf, faults, fresh, left, installVars, app, opens>>

SettingsStep ==
    \/ Open \/ WindowFails \/ Looks \/ Stops \/ Stopped \/ StopFails \/ Locks \/ LockFails
    \/ Merges \/ FileFails \/ Writes \/ Unlocks \/ Starts \/ StartFails \/ Connects
    \/ WaitFails \/ WaitTooShort \/ Undoes \/ UndoStopped \/ Relocks \/ UndoFails
    \/ Restores \/ UndoUnlocks \/ UndoEndsStarting \/ UndoStartFails \/ Enables
    \/ EnableFails \/ Killed
    \/ \E after \in Configs : (\A k \in Keys : after[k] \in {Off, On}) /\ WindowCloses(after)
    \/ SwitchesPreference
=============================================================================
