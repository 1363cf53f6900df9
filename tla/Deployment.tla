----------------------------- MODULE Deployment -----------------------------
(***************************************************************************)
(* The installer, the keyboard service, wrappers run by hand and the       *)
(* settings program beside each other, and the person who uses them.       *)
(*                                                                         *)
(*   wanted   history: the person's last systemctl call was a start        *)
(*   crossed  history: while the settings program was at work, the person  *)
(*            started or stopped the service, ran a wrapper by hand, or    *)
(*            took the launcher away from a service that was starting      *)
(***************************************************************************)
EXTENDS SettingsApply

VARIABLES wanted, crossed
vars == <<prefixVars, installVars, appVars, wanted, crossed>>

\* A fresh checkout, or one whose files are installed.
Init ==
    /\ PrefixInit /\ SettingsInit /\ wanted = FALSE /\ crossed = FALSE
    /\ \/ InstallInit
       \/ /\ file = [f \in Files |-> "ours"] /\ manifest = Files /\ inst = IdleInstaller
          /\ meddled = 0 /\ trouble = 0 /\ orphans = {} /\ late = {}

AtWork == app.pc \notin {"closed", "open"}

\* systemctl --user start, stop by the person or the session.
UserStarts ==
    /\ unit = "inactive" /\ file[UnitFile] # "absent"
    /\ StartUnit /\ wanted' = TRUE /\ crossed' = (crossed \/ AtWork)
    /\ UNCHANGED <<lock, broker, engine, conf, changes, faults, fresh, left, installVars, appVars>>

UserStops ==
    /\ unit \in {"active", "restarting"} /\ StopUnit
    /\ wanted' = FALSE /\ crossed' = (crossed \/ AtWork)
    /\ UNCHANGED <<lock, broker, engine, conf, changes, faults, fresh, left, installVars, appVars>>

\* The launcher the unit names is not there any more.
NoLauncher ==
    /\ wrap["service"] = "starting" /\ file[UnitFile] = "absent"
    /\ wrap' = [wrap EXCEPT !["service"] = "none"]
    /\ UNCHANGED <<lock, unit, broker, engine, conf, changes, faults, fresh, left>>

EngineRuns ==
    /\ \/ PrefixStep /\ crossed' = (crossed \/ (AtWork /\ wrap'["manual"] # "none"))
       \/ NoLauncher /\ crossed' = (crossed \/ AtWork)
    /\ UNCHANGED <<installVars, appVars, wanted>>

InstallerRuns ==
    /\ \/ \E plan \in SUBSET Files : UnitFile \in plan /\ Install(plan)
       \/ Uninstall(unit = "active")
       \/ InstallerStep
    /\ UNCHANGED <<prefixVars, appVars, wanted, crossed>>

SettingsRun ==
    /\ SettingsStep
    /\ crossed' = (crossed \/ wrap["manual"] # "none")
    /\ UNCHANGED wanted

Next == UserStarts \/ UserStops \/ EngineRuns \/ InstallerRuns \/ SettingsRun
Spec == Init /\ [][Next]_vars

-----------------------------------------------------------------------------

DeploymentTypeOK ==
    PrefixTypeOK /\ InstallTypeOK /\ SettingsTypeOK /\ wanted \in BOOLEAN /\ crossed \in BOOLEAN

\* A wrapper that runs holds the lock.
EngineUnderLock == \A w \in Wrappers : wrap[w] \in {"locked", "up", "ending"} => lock = w

\* The settings program writes the live configuration.
WritesFile == app' # app /\ conf' # conf

\* The settings program never writes beside a running engine, unless the wrapper of that
\* engine has ended before it (killed, or wineserver out of time, headless.py:61-62): then
\* the lock of settings.py:176 cannot tell.
WritesAlone ==
    [][WritesFile => \A w \in Wrappers :
          engine[w] # NoConfig => wrap[w] = "none" /\ w \in left]_vars

\* What the settings program may write over: settings the person changed in the window,
\* between their value there before and after, and what an engine has changed since the
\* program took the lock, which only an engine that outlived its wrapper or one that was
\* restarted before the rollback (settings.py:193 writes what line 181 read) can have done.
MayWriteOver(k) ==
    \/ k \in Requested /\ {conf[k], conf'[k]} \subseteq {app.before[k], app.after[k]}
    \/ k \in fresh

\* Whatever it writes, forwards or back, what the engine saved while the window was open or
\* while it was being stopped survives ("Recheck after the engine has saved and stopped",
\* settings.py:180), but for the rollback after that recheck itself has failed: it writes
\* what line 168 read before the service was stopped.
OthersKept ==
    [][WritesFile /\ (app.pc = "restoring" => app.reread) =>
          \A k \in Differing(conf, conf') : MayWriteOver(k)]_vars

Finishes == app.pc # "closed" /\ app'.pc = "closed"

\* "Saved" is reported only when the file and the preference say what was requested, and,
\* where a service was running, when the broker that answers at the socket has an engine
\* that loaded it: neither the gap between unlock and start (settings.py:185-187) nor a
\* wrapper started by hand in that gap leaves an engine of the old configuration behind
\* wait_keyboard().  The exception: a broker whose wrapper was killed, beside which the new
\* one cannot serve.
EndsWait == app.pc = "waiting" /\ app'.pc = "enabling"
Effective(w) == engine[w] # NoConfig /\ \A k \in Requested : engine[w][k] = app.after[k] \/ k \in fresh

AppliedMeansEffective ==
    [][/\ app'.end = "applied" /\ Finishes => \A k \in Requested :
             /\ conf[k] = app.after[k] \/ k \in fresh
             /\ k = Smart => pref' = app.after[k]
       /\ EndsWait => \E w \in Wrappers : broker[w] = "listening" /\ (w \in left \/ Effective(w))]_vars

\* A service the program stopped is running again when it ends, but for five ways out: stop
\* failed, the lock was refused after the stop (settings.py:178), the rollback failed before
\* its start (191-194) or with it (196), or the program was killed.
StoppedForAReason ==
    [][Finishes /\ app.active /\ wanted /\ unit' = "inactive" =>
          app'.end \in {"stopFailed", "refused", "notRestored", "notRestarted", "killed"}]_vars

\* Nothing fails by itself: with no fault, no other user of the prefix and no change
\* elsewhere, stopping, writing and starting again succeeds, so neither the service nor
\* wait_keyboard() can be kept waiting by a lock the program still holds.
SucceedsUndisturbed ==
    [][Finishes /\ app.active /\ ~crossed /\ faults' = 0 /\ changes = 0 => app'.end = "applied"]_vars

\* Every file of this installation can be removed: it is in the manifest, or the call that
\* created it still runs, or that call was killed or interrupted before it could record or
\* delete it (install.py:94-110).
NothingOrphaned ==
    \A f \in Files : file[f] \in {"reserved", "ours", "edited"} =>
        f \in manifest \cup inst.written \cup orphans

\* Neither install, nor its rollback, nor uninstall changes or deletes a file of another
\* program or one the person has edited, unless that happened after this very call had
\* looked at the file (install.py:97 and 117-120).
NothingForeignTouched ==
    [][\A f \in Files : file[f] \in {"foreign", "edited"} /\ file'[f] # file[f] =>
          f \in late \/ meddled' # meddled]_vars
=============================================================================
