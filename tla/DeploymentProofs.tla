-------------------------- MODULE DeploymentProofs --------------------------
(***************************************************************************)
(* What the settings program, the keyboard service and the installer keep  *)
(* for any settings, files, faults and number of calls.                    *)
(*                                                                         *)
(* Installing and the rest share two variables only, which the rest merely *)
(* reads: InstallInv is inductive for the one, and for the rest RunningOK, *)
(* DataOK, RestartOK and UndisturbedOK, one resting on the other.          *)
(***************************************************************************)
EXTENDS Deployment, TLAPS

-----------------------------------------------------------------------------
(* Installing *)

\* What the installer has created is unmodified, and so is what it has looked at
\* before removing it, unless the person came in between.
CreatedIsOurs ==
    inst.pc \in {"reserving", "recording", "undoing"} =>
        \A f \in inst.written \ late : file[f] \in {"reserved", "ours"}

CheckedIsOurs ==
    /\ inst.pc = "checking" => \A f \in manifest \ (inst.todo \cup late) : Unmodified(f)
    /\ inst.pc = "removing" => \A f \in manifest \ late : Unmodified(f)

\* A manifest is written only where there is none, and dropped only when its files are
\* gone.
ManifestMatches ==
    /\ inst.pc \in {"reserving", "recording", "undoing"} => manifest = {}
    /\ inst.pc \in {"idle", "checking", "removing"} => inst.written = {}
    /\ inst.pc \in {"checking", "removing"} => inst.todo \subseteq manifest
    /\ inst.pc = "removing" =>
          \A f \in manifest \ inst.todo : file[f] \in {"absent", "foreign"}

InstallInv ==
    InstallTypeOK /\ CreatedIsOurs /\ CheckedIsOurs /\ ManifestMatches /\ NothingOrphaned

LEMMA InstallInvInit == Init => InstallInv
  BY FileAssumption
     DEF Init, InstallInit, IdleInstaller, InstallInv, InstallTypeOK, CreatedIsOurs,
         CheckedIsOurs, ManifestMatches, NothingOrphaned

\* The settings program only looks at files and manifest.
LEMMA SettingsLeaveFiles == SettingsStep => UNCHANGED installVars
  BY DEF SettingsStep, Open, WindowFails, WindowCloses, Looks, Stops, Stopped, StopFails, Locks,
         LockFails, Merges, FileFails, Writes, Unlocks, Starts, StartFails, Connects,
         WaitFails, WaitTooShort, Undoes, UndoStopped, Relocks, UndoFails, Restores,
         UndoUnlocks, UndoEndsStarting, UndoStartFails, Enables, EnableFails, Killed, SwitchesPreference,
         installVars

\* Each step of the installer keeps its invariant.
LEMMA InstallSteps ==
    ASSUME InstallInv, InstallerStep
    PROVE  InstallInv'
<1> USE FileAssumption
    DEF InstallInv, InstallTypeOK, CreatedIsOurs, CheckedIsOurs, ManifestMatches,
        NothingOrphaned, IdleInstaller, Unmodified
<1>1. ASSUME NEW f \in Files, Reserve(f) PROVE InstallInv'
  BY <1>1 DEF Reserve, MayReserve
<1>2. ASSUME NEW f \in Files, Fill(f) PROVE InstallInv'
  BY <1>2 DEF Fill
<1>3. ASSUME NEW f \in Files, Undo(f) PROVE InstallInv'
  BY <1>3 DEF Undo, Undone
<1>4. ASSUME NEW f \in Files, Check(f) PROVE InstallInv'
  BY <1>4 DEF Check, Checked
<1>5. ASSUME NEW f \in Files, Unlink(f) PROVE InstallInv'
  BY <1>5 DEF Unlink
<1>6. CASE Record
  BY <1>6 DEF Record
<1>7. CASE ApplyFails
  BY <1>7 DEF ApplyFails, Trouble
<1>8. CASE UndoEnds
  BY <1>8 DEF UndoEnds
<1>9. CASE Unlist
  BY <1>9 DEF Unlist
<1>10. CASE Breaks
  BY <1>10 DEF Breaks, Trouble
<1>11. CASE Meddle
  BY <1>11 DEF Meddle, LookedAt
<1>12. ASSUME NEW f \in Files, ReserveInterrupted(f) PROVE InstallInv'
  BY <1>12 DEF ReserveInterrupted, MayReserve, Trouble
<1> QED BY <1>1, <1>2, <1>3, <1>4, <1>5, <1>6, <1>7, <1>8, <1>9, <1>10, <1>11, <1>12
        DEF InstallerStep

\* Nobody else touches the files or the manifest.
LEMMA OnlyInstaller == [Next]_vars => InstallerRuns \/ UNCHANGED installVars
<1>1. EngineRuns \/ UserStarts \/ UserStops => UNCHANGED installVars
  BY DEF EngineRuns, UserStarts, UserStops
<1>2. SettingsRun => UNCHANGED installVars
  BY SettingsLeaveFiles DEF SettingsRun
<1> QED BY <1>1, <1>2 DEF Next, vars

LEMMA InstallInvStep == InstallInv /\ [Next]_vars => InstallInv'
<1> SUFFICES ASSUME InstallInv, [Next]_vars PROVE InstallInv'
  OBVIOUS
<1>1. ASSUME NEW plan \in SUBSET Files, Install(plan) PROVE InstallInv'
  BY <1>1 DEF Install, Conflicts, InstallInv, InstallTypeOK, CreatedIsOurs, CheckedIsOurs,
              ManifestMatches, NothingOrphaned, IdleInstaller
<1>2. CASE Uninstall(unit = "active")
  BY <1>2 DEF Uninstall, InstallInv, InstallTypeOK, CreatedIsOurs, CheckedIsOurs,
              ManifestMatches, NothingOrphaned, IdleInstaller
<1>3. CASE UNCHANGED installVars
  BY <1>3 DEF installVars, InstallInv, InstallTypeOK, CreatedIsOurs, CheckedIsOurs,
              ManifestMatches, NothingOrphaned, Unmodified
<1> QED BY <1>1, <1>2, <1>3, InstallSteps, OnlyInstaller DEF InstallerRuns

LEMMA InstallInvariant == Spec => []InstallInv
  BY InstallInvInit, InstallInvStep, PTL DEF Spec

\* Every file this installation has created is removable: it is listed in the manifest
\* or the call that created it still has it, unless that call was broken off.
THEOREM FilesAccounted == Spec => []NothingOrphaned
  BY InstallInvariant, PTL DEF InstallInv

\* No step of install or uninstall changes a file of another program or one the person has
\* edited, unless that came after the look at it.
THEOREM ForeignUntouched == Spec => NothingForeignTouched
<1>1. InstallInv /\ [Next]_vars =>
        [\A f \in Files : file[f] \in {"foreign", "edited"} /\ file'[f] # file[f] =>
            f \in late \/ meddled' # meddled]_vars
  <2> SUFFICES ASSUME InstallInv, [Next]_vars, NEW f \in Files,
                      file[f] \in {"foreign", "edited"}, file'[f] # file[f],
                      f \notin late, meddled' = meddled
               PROVE  FALSE
    OBVIOUS
  <2>1. InstallerRuns
    BY OnlyInstaller DEF installVars
  <2>2. PICK g \in Files :
            Reserve(g) \/ ReserveInterrupted(g) \/ Fill(g) \/ Undo(g) \/ Unlink(g)
    <3>1. ~Meddle
      BY FileAssumption DEF Meddle, InstallInv, InstallTypeOK
    <3> QED
      BY <2>1, <3>1 DEF InstallerRuns, Install, Uninstall, InstallerStep, Check, Record,
                        ApplyFails, UndoEnds, Unlist, Breaks
  <2> QED
    BY <2>2 DEF Reserve, ReserveInterrupted, MayReserve, Fill, Undo, Undone, Unlink, InstallInv, InstallTypeOK,
                CreatedIsOurs, CheckedIsOurs, ManifestMatches, Unmodified
<1> QED BY <1>1, InstallInvariant, PTL DEF Spec, NothingForeignTouched

-----------------------------------------------------------------------------
(* The service, the wrappers and the settings program: types *)

\* The copies of the configuration are there as long as main() needs them.
CopiesOK ==
    /\ app.pc = "open" => app.before \in Configs
    /\ app.pc \notin {"closed", "open"} =>
          app.before \in Configs /\ app.after \in Configs /\ app.current \in Configs

EngineTypeOK ==
    /\ PrefixTypeOK /\ SettingsTypeOK /\ CopiesOK
    /\ wanted \in BOOLEAN /\ crossed \in BOOLEAN

LEMMA OffConfig == [k \in Keys |-> Off] \in Configs
  BY ConfigAssumption DEF Configs

LEMMA MergedTyped ==
    ASSUME app.after \in Configs, NEW current \in Configs
    PROVE  Merged(current) \in Configs
  BY ConfigAssumption DEF Merged, Configs

LEMMA CopyTyped ==
    ASSUME PrefixTypeOK, SettingsTypeOK
    PROVE  [conf EXCEPT ![Smart] = Enabled] \in Configs
<1>1. Enabled \in {Off, On}
  BY DEF Enabled, PrefixTypeOK, SettingsTypeOK, Configs
<1> QED BY <1>1, ConfigAssumption DEF Configs, PrefixTypeOK

\* A setting that an engine has changed.
LEMMA ChangeTyped ==
    ASSUME PrefixTypeOK, NEW w \in Wrappers, engine[w] # NoConfig,
           NEW k \in Keys \ {Smart}, NEW v \in Values
    PROVE  [engine EXCEPT ![w][k] = v] \in [Wrappers -> Configs \cup {NoConfig}]
<1>1. engine[w] \in Configs
  BY DEF PrefixTypeOK
<1>2. [engine[w] EXCEPT ![k] = v] \in Configs
  <2>1. engine[w] \in [Keys -> Values] /\ engine[w][Smart] \in {Off, On}
    BY <1>1 DEF Configs
  <2>2. [engine[w] EXCEPT ![k] = v] \in [Keys -> Values]
    BY <2>1
  <2>3. [engine[w] EXCEPT ![k] = v][Smart] = engine[w][Smart]
    BY <2>1, ConfigAssumption
  <2> QED BY <2>1, <2>2, <2>3 DEF Configs
<1> QED BY <1>2 DEF PrefixTypeOK

LEMMA ChangedEngine ==
    ASSUME PrefixTypeOK, NEW w \in Wrappers, EngineChanges(w)
    PROVE  engine'[w] # NoConfig
<1>1. engine[w] \in Configs
  BY DEF PrefixTypeOK, EngineChanges
<1>2. PICK k \in Keys \ {Smart}, v \in Values : engine' = [engine EXCEPT ![w][k] = v]
  BY DEF EngineChanges
<1>3. engine'[w] = [engine[w] EXCEPT ![k] = v]
  BY <1>2 DEF PrefixTypeOK
<1>4. [engine[w] EXCEPT ![k] = v] \in [Keys -> Values]
  BY <1>1 DEF Configs
<1>5. [engine[w] EXCEPT ![k] = v][Smart] = engine[w][Smart]
  BY <1>1, ConfigAssumption DEF Configs
<1>6. engine'[w] \in Configs
  BY <1>1, <1>3, <1>4, <1>5 DEF Configs
<1> QED BY <1>6, ConfigAssumption

LEMMA FailsTyped == ASSUME PrefixTypeOK, Fails PROVE faults' \in 0..MaxFaults
  BY BoundAssumption DEF PrefixTypeOK, Fails

LEMMA EngineTypeInit == Init => EngineTypeOK
<1> SUFFICES ASSUME Init PROVE EngineTypeOK
  OBVIOUS
<1>1. PrefixTypeOK
  BY OffConfig, BoundAssumption DEF Init, PrefixInit, PrefixTypeOK
<1>2. SettingsTypeOK
  <2>1. app = [pc |-> "closed", before |-> NoConfig, after |-> NoConfig,
               current |-> NoConfig, reread |-> FALSE, active |-> FALSE, end |-> ""]
    BY DEF Init, SettingsInit
  <2>2. pref = NoPref /\ opens = 0
    BY DEF Init, SettingsInit
  <2>3. 0 \in 0..MaxOpens
    BY PrefAssumption
  <2>4. "closed" \in Places /\ "" \in Ends
    BY DEF Places, Ends
  <2> QED BY <2>1, <2>2, <2>3, <2>4 DEF SettingsTypeOK
<1> QED BY <1>1, <1>2 DEF Init, SettingsInit, EngineTypeOK, CopiesOK

\* systemctl start and stop.
LEMMA UnitTyped ==
    ASSUME PrefixTypeOK, StartUnit \/ StopUnit \/ UNCHANGED <<unit, wrap>>
    PROVE  /\ unit' \in {"inactive", "active", "stopping", "restarting"}
           /\ wrap' \in [Wrappers -> {"none", "starting", "locked", "up", "ending"}]
  BY DEF StartUnit, StopUnit, Terminated, PrefixTypeOK, Wrappers

LEMMA PrefixStepTyped ==
    ASSUME EngineTypeOK, PrefixStep
    PROVE  PrefixTypeOK'
<1> USE DEF EngineTypeOK
<1>1. CASE UnitEnds \/ UnitRestarts
  BY <1>1, UnitTyped DEF UnitEnds, UnitRestarts, Ended, PrefixTypeOK
<1>2. CASE StartByHand \/ StopByHand \/ EndLeftover
  BY <1>2 DEF StartByHand, StopByHand, EndLeftover, Ended, Terminated, PrefixTypeOK, Wrappers
<1>3. ASSUME NEW w \in Wrappers, TakeLock(w) \/ LockRefused(w) \/ ChildStarts(w) \/ CleanUp(w)
      PROVE  PrefixTypeOK'
  BY <1>3 DEF TakeLock, LockRefused, ChildStarts, CleanUp, PrefixTypeOK
<1>4. ASSUME NEW w \in Wrappers, ChildEnds(w) \/ CleanUpFails(w) \/ Abandon(w)
      PROVE  PrefixTypeOK'
  BY <1>4, FailsTyped DEF ChildEnds, CleanUpFails, Abandon, PrefixTypeOK
<1>5. ASSUME NEW w \in Wrappers, EngineChanges(w)
      PROVE  PrefixTypeOK'
  <2>1. PICK k \in Keys \ {Smart}, v \in Values :
            engine' = [engine EXCEPT ![w][k] = v] /\ fresh' = fresh \cup {k}
    BY <1>5 DEF EngineChanges
  <2>2. engine' \in [Wrappers -> Configs \cup {NoConfig}]
    BY <2>1, <1>5, ChangeTyped DEF EngineChanges
  <2>3. changes' \in 0..MaxChanges
    BY <1>5, BoundAssumption DEF EngineChanges, PrefixTypeOK
  <2> QED BY <2>1, <2>2, <2>3, <1>5 DEF EngineChanges, PrefixTypeOK
<1>6. ASSUME NEW w \in Wrappers, EngineSaves(w)
      PROVE  PrefixTypeOK'
  BY <1>6 DEF EngineSaves, PrefixTypeOK, runVars, Differing
<1>7. ASSUME NEW w \in Wrappers, Listens(w) \/ BrokerEnds(w)
      PROVE  PrefixTypeOK'
  BY <1>7 DEF Listens, BrokerEnds, PrefixTypeOK
<1> QED BY <1>1, <1>2, <1>3, <1>4, <1>5, <1>6, <1>7 DEF PrefixStep, WrapperStep

\* What a step of the settings program does to the prefix: it takes or gives back its own
\* lock, starts or stops the unit, or writes the file, one at a time.
SettingsEffect ==
    /\ UNCHANGED <<engine, left, broker>>
    /\ \/ UNCHANGED lock
       \/ lock \in {Free, "settings"} /\ lock' \in {Free, "settings"} /\ UNCHANGED <<unit, wrap>>
    /\ UNCHANGED <<unit, wrap>> \/ StartUnit \/ StopUnit

LEMMA SettingsEffects == SettingsStep => SettingsEffect
<1> USE DEF SettingsEffect, prefixVars, runVars, Released, MayLock, Unlocked, Fails
<1>1. Open \/ WindowFails \/ Stopped \/ Connects \/ WaitFails \/ UndoStopped \/ Enables
        \/ LockFails => SettingsEffect
  BY DEF Open, WindowFails, Stopped, Connects, WaitFails, UndoStopped, Enables, LockFails
<1>2. \A after \in Configs : WindowCloses(after) => SettingsEffect
  BY DEF WindowCloses
<1>3. StopFails \/ FileFails \/ StartFails \/ WaitTooShort \/ EnableFails \/ Merges \/ Writes
        \/ Restores \/ SwitchesPreference \/ UndoStartFails \/ Looks => SettingsEffect
  BY DEF StopFails, FileFails, StartFails, WaitTooShort, EnableFails, Merges, Writes, Restores,
         SwitchesPreference, UndoStartFails, Looks
<1>4. Stops \/ Undoes \/ Starts \/ UndoEndsStarting => SettingsEffect
  BY DEF Stops, Undoes, Starts, UndoEndsStarting, UndoStarts
<1>5. Locks \/ Relocks \/ Unlocks \/ UndoUnlocks \/ UndoFails \/ Killed => SettingsEffect
  BY DEF Locks, Relocks, Unlocks, UndoUnlocks, UndoFails, Killed
<1> QED BY <1>1, <1>2, <1>3, <1>4, <1>5 DEF SettingsStep

LEMMA OpensTyped == ASSUME opens \in 0..MaxOpens, Open PROVE opens' \in 0..MaxOpens
  BY PrefAssumption DEF Open

\* Whichever of its steps it takes, the program is at a place of main() and has the
\* copies it needs there.
LEMMA AppTyped ==
    ASSUME EngineTypeOK, SettingsStep
    PROVE  SettingsTypeOK' /\ CopiesOK'
<1> USE DEF EngineTypeOK, SettingsTypeOK, CopiesOK, Places, Ends
<1>1. CASE Open
  <2>1. opens' \in 0..MaxOpens /\ pref' = pref
    BY <1>1, OpensTyped DEF Open
  <2>2. PICK copy \in Configs :
          app' = [app EXCEPT !.pc = "open", !.end = "", !.active = FALSE, !.before = copy]
    BY <1>1, CopyTyped DEF Open
  <2> QED BY <2>1, <2>2
<1>2. CASE \E end \in Ends : app' = Closing(end) /\ UNCHANGED <<pref, opens>>
  <2>1. PICK end \in Ends :
          app' = [app EXCEPT !.pc = "closed", !.end = end, !.before = NoConfig,
                             !.after = NoConfig, !.current = NoConfig, !.reread = FALSE]
    BY <1>2 DEF Closing
  <2>2. app'.pc = "closed" /\ UNCHANGED <<pref, opens>>
    BY <1>2, <2>1
  <2> QED BY <2>1, <2>2
<1>3. CASE WindowFails \/ StopFails \/ LockFails \/ UndoFails \/ EnableFails \/ Killed
             \/ UndoStartFails
  BY <1>2, <1>3 DEF WindowFails, StopFails, LockFails, UndoFails, EnableFails, Killed,
                    UndoStartFails, Closed
<1>4. ASSUME NEW after \in Configs, WindowCloses(after)
      PROVE  SettingsTypeOK' /\ CopiesOK'
  <2>1. CASE app' = Closing("unchanged")
    BY <1>2, <1>4, <2>1 DEF WindowCloses
  <2>2. CASE app' = [app EXCEPT !.after = after, !.current = conf, !.pc = "looking"]
    BY <1>4, <2>2 DEF WindowCloses, PrefixTypeOK
  <2> QED BY <1>4, <2>1, <2>2 DEF WindowCloses
<1>5. CASE \E to \in Places \ {"closed", "open"} :
              /\ app.pc \notin {"closed", "open"}
              /\ app' = [app EXCEPT !.pc = to] /\ UNCHANGED <<pref, opens>>
  <2>1. PICK to \in Places \ {"closed", "open"} : app' = [app EXCEPT !.pc = to]
    BY <1>5
  <2>2. UNCHANGED <<pref, opens>> /\ app.pc \notin {"closed", "open"}
    BY <1>5
  <2>3. /\ app'.pc = to /\ UNCHANGED <<app.before, app.after, app.current>>
        /\ app' \in [pc : Places, before : Configs \cup {NoConfig},
                     after : Configs \cup {NoConfig}, current : Configs \cup {NoConfig},
                     reread : BOOLEAN, active : BOOLEAN, end : Ends]
    BY <2>1
  <2> QED BY <2>2, <2>3
<1>6. CASE Stops \/ Stopped \/ Locks \/ Writes \/ Starts \/ StartFails \/ Connects \/ WaitFails
             \/ WaitTooShort \/ UndoStopped \/ Relocks \/ Restores \/ FileFails
  BY <1>5, <1>6 DEF Stops, Stopped, Locks, Writes, Starts, StartFails, Connects, WaitFails,
     WaitTooShort, UndoStopped, Relocks, Restores, FileFails, Goes
<1>7. CASE Unlocks \/ Undoes
  BY <1>5, <1>7 DEF Unlocks, Undoes
<1>8. CASE Looks
  <2>1. PICK active \in BOOLEAN, to \in {"calling", "locking"} :
          app' = [app EXCEPT !.active = active, !.pc = to]
    BY <1>8 DEF Looks, OwnsService
  <2> QED BY <1>8, <2>1 DEF Looks
<1>9. CASE Merges
  <2>1. PICK to \in {"writing", "undoing"} :
          app' = [app EXCEPT !.current = conf, !.reread = TRUE, !.pc = to]
    BY <1>9 DEF Merges, Reread
  <2> QED BY <1>9, <2>1 DEF Merges, PrefixTypeOK
<1>10. CASE UndoUnlocks
  BY <1>2, <1>5, <1>10 DEF UndoUnlocks, Closed
<1>11. CASE UndoEndsStarting
  BY <1>2, <1>11 DEF UndoEndsStarting, Closed
<1>12. CASE Enables
  <2>1. pref' \in {Off, On, NoPref}
    BY <1>12 DEF Enables, Configs
  <2> QED BY <1>12, <2>1 DEF Enables, Closed, Closing
<1>13. CASE SwitchesPreference
  <2>1. UNCHANGED <<app, opens>> /\ pref' \in {Off, On, NoPref}
    BY <1>13 DEF SwitchesPreference
  <2> QED BY <2>1
<1> QED BY <1>1, <1>3, <1>4, <1>6, <1>7, <1>8, <1>9, <1>10, <1>11, <1>12, <1>13
        DEF SettingsStep

\* The file, its history and the counters, through a step of the settings program.
LEMMA SettingsData ==
    ASSUME EngineTypeOK, SettingsStep
    PROVE  /\ conf' \in Configs /\ fresh' \subseteq Keys
           /\ changes' \in 0..MaxChanges /\ faults' \in 0..MaxFaults
<1> USE DEF EngineTypeOK, PrefixTypeOK, prefixVars
<1>1. CASE Open \/ WindowFails \/ Stopped \/ Connects \/ WaitFails \/ UndoStopped \/ Enables
             \/ LockFails
  BY <1>1 DEF Open, WindowFails, Stopped, Connects, WaitFails, UndoStopped, Enables, LockFails
<1>2. CASE (\E after \in Configs : WindowCloses(after)) \/ Merges
  BY <1>2 DEF WindowCloses, Merges
<1>3. CASE StopFails \/ FileFails \/ StartFails \/ WaitTooShort \/ EnableFails \/ Killed
             \/ UndoStartFails
  BY <1>3, FailsTyped DEF StopFails, FileFails, StartFails, WaitTooShort, EnableFails, Killed,
                          UndoStartFails
<1>4. CASE UndoFails
  BY <1>4, FailsTyped DEF UndoFails
<1>5. CASE Looks \/ Stops \/ Undoes \/ Starts \/ UndoEndsStarting \/ Locks \/ Relocks
             \/ Unlocks \/ UndoUnlocks
  BY <1>5 DEF Looks, Stops, Undoes, Starts, UndoEndsStarting, Locks, Relocks, Unlocks, UndoUnlocks
<1>6. CASE Writes
  BY <1>6, MergedTyped DEF Writes, Goes, CopiesOK
<1>7. CASE Restores
  BY <1>7 DEF Restores, Goes, CopiesOK
<1>8. CASE SwitchesPreference
  BY <1>8, BoundAssumption DEF SwitchesPreference
<1> QED BY <1>1, <1>2, <1>3, <1>4, <1>5, <1>6, <1>7, <1>8 DEF SettingsStep

LEMMA EngineTypeStep == EngineTypeOK /\ [Next]_vars => EngineTypeOK'
<1> SUFFICES ASSUME EngineTypeOK, [Next]_vars PROVE EngineTypeOK'
  OBVIOUS
<1> USE DEF EngineTypeOK
<1>1. CASE UserStarts \/ UserStops
  BY <1>1, UnitTyped
     DEF UserStarts, UserStops, PrefixTypeOK, SettingsTypeOK, CopiesOK, appVars
<1>2. CASE EngineRuns
  <2>1. PrefixTypeOK'
    BY <1>2, PrefixStepTyped DEF EngineRuns, NoLauncher, PrefixTypeOK, Wrappers
  <2>2. SettingsTypeOK' /\ CopiesOK' /\ wanted' \in BOOLEAN
    BY <1>2 DEF EngineRuns, appVars, SettingsTypeOK, CopiesOK
  <2>3. crossed' \in BOOLEAN
    BY <1>2 DEF EngineRuns
  <2> QED BY <2>1, <2>2, <2>3
<1>3. CASE InstallerRuns \/ UNCHANGED vars
  BY <1>3 DEF InstallerRuns, vars, prefixVars, runVars, appVars, PrefixTypeOK, SettingsTypeOK,
              CopiesOK
<1>4. CASE SettingsRun
  <2>1. PrefixTypeOK'
    <3>1. UNCHANGED <<engine, left, broker>> /\ lock' \in Wrappers \cup {"settings", Free}
      BY <1>4, SettingsEffects DEF SettingsRun, SettingsEffect, PrefixTypeOK
    <3>2. /\ unit' \in {"inactive", "active", "stopping", "restarting"}
          /\ wrap' \in [Wrappers -> {"none", "starting", "locked", "up", "ending"}]
      BY <1>4, SettingsEffects, UnitTyped DEF SettingsRun, SettingsEffect
    <3>3. /\ conf' \in Configs /\ fresh' \subseteq Keys
          /\ changes' \in 0..MaxChanges /\ faults' \in 0..MaxFaults
      BY <1>4, SettingsData DEF SettingsRun
    <3> QED BY <3>1, <3>2, <3>3 DEF PrefixTypeOK
  <2>2. SettingsTypeOK' /\ CopiesOK' /\ wanted' \in BOOLEAN
    BY <1>4, AppTyped DEF SettingsRun
  <2>3. crossed' \in BOOLEAN
    BY <1>4 DEF SettingsRun
  <2> QED BY <2>1, <2>2, <2>3
<1> QED BY <1>1, <1>2, <1>3, <1>4 DEF Next

LEMMA EngineTypeInvariant == Spec => []EngineTypeOK
  BY EngineTypeInit, EngineTypeStep, PTL DEF Spec

\* Every variable keeps its type.
THEOREM DeploymentTyped == Spec => []DeploymentTypeOK
<1>1. EngineTypeOK /\ InstallInv => DeploymentTypeOK
  BY DEF EngineTypeOK, InstallInv, DeploymentTypeOK
<1> QED BY <1>1, EngineTypeInvariant, InstallInvariant, PTL

-----------------------------------------------------------------------------
(* Who holds the lock and who has an engine *)

\* An engine runs under its wrapper, or its wrapper ended before it.
EngineKnown ==
    \A w \in Wrappers : engine[w] # NoConfig => wrap[w] \in {"up", "ending"} \/ w \in left

\* A broker runs under its wrapper and has an engine, or its wrapper ended before it.
BrokerKnown ==
    \A w \in Wrappers : broker[w] # "none" =>
        w \in left \/ (wrap[w] \in {"up", "ending"} /\ engine[w] # NoConfig)

LeftKnown == \A w \in left : wrap[w] = "none"

\* The unit has a wrapper, or what it left, only while it is not inactive.
UnitKnown ==
    unit \in {"inactive", "restarting"} => wrap["service"] = "none" /\ "service" \notin left

\* Where the settings program reads, writes and gives back it holds the lock.
Holding ==
    app.pc \in {"merging", "writing", "unlocking", "restoring", "undoUnlocking"} =>
        lock = "settings"

PrefixOK  == EngineUnderLock /\ EngineKnown /\ BrokerKnown /\ LeftKnown /\ UnitKnown
RunningOK == PrefixOK /\ Holding

LEMMA RunningInit == Init => RunningOK
<1> SUFFICES ASSUME Init PROVE RunningOK
  OBVIOUS
<1>1. /\ wrap = [w \in Wrappers |-> "none"] /\ engine = [w \in Wrappers |-> NoConfig]
      /\ broker = [w \in Wrappers |-> "none"] /\ left = {}
  BY DEF Init, PrefixInit
<1>2. app = [pc |-> "closed", before |-> NoConfig, after |-> NoConfig,
             current |-> NoConfig, reread |-> FALSE, active |-> FALSE, end |-> ""]
  BY DEF Init, SettingsInit
<1>3. app.pc = "closed"
  BY <1>2
<1> QED
  BY <1>1, <1>3 DEF RunningOK, PrefixOK, EngineUnderLock, EngineKnown, BrokerKnown, LeftKnown,
                    UnitKnown, Holding, Wrappers

\* Starting and stopping the unit leaves locks and engines alone.
LEMMA UnitRunning ==
    ASSUME PrefixTypeOK, PrefixOK, StartUnit \/ StopUnit \/ UNCHANGED <<unit, wrap>>,
           UNCHANGED <<lock, engine, left, broker>>
    PROVE  PrefixOK'
<1> USE DEF PrefixTypeOK, PrefixOK, EngineUnderLock, EngineKnown, BrokerKnown, LeftKnown,
            UnitKnown, Wrappers
<1>1. CASE StartUnit
  BY <1>1 DEF StartUnit
<1>2. CASE StopUnit
  BY <1>2 DEF StopUnit, Terminated
<1>3. CASE UNCHANGED <<unit, wrap>>
  BY <1>3
<1> QED BY <1>1, <1>2, <1>3

LEMMA PrefixRunning ==
    ASSUME PrefixTypeOK, PrefixOK, PrefixStep \/ NoLauncher
    PROVE  PrefixOK'
<1> USE DEF PrefixTypeOK, PrefixOK, EngineUnderLock, EngineKnown, BrokerKnown, LeftKnown,
            UnitKnown, Wrappers, Free
<1>1. CASE UnitRestarts
  BY <1>1, UnitRunning DEF UnitRestarts
<1>2. CASE UnitEnds \/ EndLeftover
  <2>1. CASE UnitEnds
    BY <2>1 DEF UnitEnds, Ended
  <2>2. CASE EndLeftover
    BY <2>2 DEF EndLeftover, Ended
  <2> QED BY <1>2, <2>1, <2>2
<1>3. CASE NoLauncher \/ StartByHand \/ StopByHand
  <2>1. CASE NoLauncher
    BY <2>1 DEF NoLauncher
  <2>2. CASE StartByHand
    BY <2>2 DEF StartByHand
  <2>3. CASE StopByHand
    BY <2>3 DEF StopByHand, Terminated
  <2> QED BY <1>3, <2>1, <2>2, <2>3
<1>4. ASSUME NEW w \in Wrappers, TakeLock(w) \/ LockRefused(w) \/ ChildEnds(w)
      PROVE  PrefixOK'
  <2>1. CASE TakeLock(w)
    BY <2>1 DEF TakeLock, CanLock
  <2>2. CASE LockRefused(w)
    BY <2>2 DEF LockRefused
  <2>3. CASE ChildEnds(w)
    BY <2>3 DEF ChildEnds
  <2> QED BY <1>4, <2>1, <2>2, <2>3
<1>5. ASSUME NEW w \in Wrappers, ChildStarts(w)
      PROVE  PrefixOK'
  BY <1>5, ConfigAssumption DEF ChildStarts
\* The lock says that no other wrapper has an engine that could be ended here.
<1>6. ASSUME NEW w \in Wrappers, CleanUp(w)
      PROVE  PrefixOK'
  BY <1>6 DEF CleanUp
<1>7. ASSUME NEW w \in Wrappers, Abandon(w) \/ CleanUpFails(w)
      PROVE  PrefixOK'
  <2>1. CASE Abandon(w)
    BY <2>1 DEF Abandon
  <2>2. CASE CleanUpFails(w)
    BY <2>2 DEF CleanUpFails
  <2> QED BY <1>7, <2>1, <2>2
<1>8. ASSUME NEW w \in Wrappers, EngineChanges(w)
      PROVE  PrefixOK'
  <2>1. PICK k \in Keys \ {Smart}, v \in Values : engine' = [engine EXCEPT ![w][k] = v]
    BY <1>8 DEF EngineChanges
  <2>2. \A u \in Wrappers \ {w} : engine'[u] = engine[u]
    BY <2>1
  <2>3. engine[w] # NoConfig /\ engine'[w] # NoConfig
    BY <1>8, ChangedEngine DEF EngineChanges
  <2> QED BY <1>8, <2>2, <2>3 DEF EngineChanges
<1>9. ASSUME NEW w \in Wrappers, EngineSaves(w)
      PROVE  PrefixOK'
  BY <1>9 DEF EngineSaves, runVars
<1>10. ASSUME NEW w \in Wrappers, Listens(w) \/ BrokerEnds(w)
      PROVE  PrefixOK'
  <2>1. CASE Listens(w)
    BY <2>1 DEF Listens
  <2>2. CASE BrokerEnds(w)
    BY <2>2 DEF BrokerEnds
  <2> QED BY <1>10, <2>1, <2>2
<1> QED BY <1>1, <1>2, <1>3, <1>4, <1>5, <1>6, <1>7, <1>8, <1>9, <1>10 DEF PrefixStep, WrapperStep

\* The program comes to those places with the lock, and gives it back on leaving them.
LEMMA SettingsHolding ==
    ASSUME EngineTypeOK, RunningOK, SettingsStep
    PROVE  Holding'
<1> USE DEF EngineTypeOK, SettingsTypeOK, RunningOK, Holding
<1>1. CASE WindowFails \/ StopFails \/ LockFails \/ UndoFails \/ EnableFails \/ Killed
             \/ UndoEndsStarting \/ UndoStartFails \/ Enables
  BY <1>1 DEF WindowFails, StopFails, LockFails, UndoFails, EnableFails, Killed,
              UndoEndsStarting, UndoStartFails, Enables, Closed, Closing
<1>2. CASE Open \/ (\E after \in Configs : WindowCloses(after)) \/ SwitchesPreference
  BY <1>2 DEF Open, WindowCloses, Closing, SwitchesPreference, runVars
<1>3. CASE Stops \/ Stopped \/ Starts \/ StartFails \/ Connects \/ WaitFails \/ WaitTooShort
             \/ UndoStopped \/ FileFails
  BY <1>3 DEF Stops, Stopped, Starts, StartFails, Connects, WaitFails, WaitTooShort, UndoStopped,
              FileFails, Goes
<1>4. CASE Locks \/ Relocks
  BY <1>4 DEF Locks, Relocks, Goes
<1>5. CASE Writes \/ Restores
  BY <1>5 DEF Writes, Restores, Goes, runVars
<1>6. CASE Merges
  BY <1>6 DEF Merges, prefixVars, runVars
<1>7. CASE Looks \/ Undoes \/ Unlocks
  BY <1>7 DEF Looks, Undoes, Unlocks
<1>8. CASE UndoUnlocks
  BY <1>8 DEF UndoUnlocks, Closed, Closing
<1> QED BY <1>1, <1>2, <1>3, <1>4, <1>5, <1>6, <1>7, <1>8 DEF SettingsStep

LEMMA RunningStep == EngineTypeOK /\ RunningOK /\ [Next]_vars => RunningOK'
<1> SUFFICES ASSUME EngineTypeOK, RunningOK, [Next]_vars PROVE RunningOK'
  OBVIOUS
<1>1. CASE UserStarts \/ UserStops
  <2>1. PrefixOK'
    BY <1>1, UnitRunning DEF UserStarts, UserStops, EngineTypeOK, RunningOK
  <2> QED BY <1>1, <2>1 DEF UserStarts, UserStops, appVars, RunningOK, Holding
<1>2. CASE EngineRuns
  <2>1. PrefixOK'
    BY <1>2, PrefixRunning DEF EngineRuns, EngineTypeOK, RunningOK
  <2>2. Holding'
    <3>1. UNCHANGED app
      BY <1>2 DEF EngineRuns, appVars
    <3>2. lock = "settings" => lock' = "settings"
      BY <1>2 DEF EngineRuns, NoLauncher, PrefixStep, WrapperStep, UnitEnds, UnitRestarts,
         StartByHand, StopByHand, EndLeftover, TakeLock, CanLock, Free, LockRefused, ChildStarts,
         ChildEnds, CleanUp, CleanUpFails, Abandon, Listens, BrokerEnds, EngineChanges,
         EngineSaves, runVars, RunningOK, PrefixOK, EngineUnderLock, Wrappers
    <3> QED BY <3>1, <3>2 DEF RunningOK, Holding
  <2> QED BY <2>1, <2>2 DEF RunningOK
<1>3. CASE InstallerRuns \/ UNCHANGED vars
  BY <1>3 DEF InstallerRuns, vars, prefixVars, runVars, appVars, RunningOK, PrefixOK,
              EngineUnderLock, EngineKnown, BrokerKnown, LeftKnown, UnitKnown, Holding
<1>4. CASE SettingsRun
  <2>1. Holding'
    BY <1>4, SettingsHolding DEF SettingsRun
  <2>2. SettingsEffect
    BY <1>4, SettingsEffects DEF SettingsRun
  <2>3. PrefixOK'
    <3>1. CASE UNCHANGED lock
      BY <2>2, <3>1, UnitRunning DEF SettingsEffect, EngineTypeOK, RunningOK
    <3>2. CASE lock \in {Free, "settings"} /\ lock' \in {Free, "settings"} /\ UNCHANGED <<unit, wrap>>
      BY <2>2, <3>2 DEF SettingsEffect, RunningOK, PrefixOK, EngineUnderLock, EngineKnown,
                        BrokerKnown, LeftKnown, UnitKnown, Wrappers, Free
    <3> QED BY <2>2, <3>1, <3>2 DEF SettingsEffect
  <2> QED BY <2>1, <2>3 DEF RunningOK
<1> QED BY <1>1, <1>2, <1>3, <1>4 DEF Next

LEMMA RunningInvariant == Spec => []RunningOK
  BY RunningInit, RunningStep, EngineTypeInvariant, PTL DEF Spec

\* A wrapper that has passed the lock has it until it is gone.
THEOREM LockHeld == Spec => []EngineUnderLock
  BY RunningInvariant, PTL DEF RunningOK, PrefixOK

\* The two steps that write the configuration for the settings program.
LEMMA WritersOfFile == [Next]_vars /\ WritesFile => Writes \/ Restores
<1> SUFFICES ASSUME [Next]_vars, app' # app, conf' # conf PROVE Writes \/ Restores
  BY DEF WritesFile
<1>1. SettingsStep
  BY DEF Next, vars, UserStarts, UserStops, EngineRuns, InstallerRuns, SettingsRun, appVars
<1> QED
  BY <1>1 DEF SettingsStep, Open, WindowFails, WindowCloses, Looks, Stops, Stopped, StopFails, Locks,
     LockFails, Merges, FileFails, Unlocks, Starts, StartFails, Connects, WaitFails,
     WaitTooShort, Undoes, UndoStopped, Relocks, UndoFails, UndoUnlocks, UndoEndsStarting, UndoStartFails,
     Enables, EnableFails, Killed, SwitchesPreference, prefixVars, runVars

\* The settings program writes the configuration beside no engine but one whose wrapper
\* ended before it.
THEOREM WrittenAlone == Spec => WritesAlone
<1>1. EngineTypeOK /\ RunningOK /\ [Next]_vars =>
        [WritesFile => \A w \in Wrappers :
            engine[w] # NoConfig => wrap[w] = "none" /\ w \in left]_vars
  <2> SUFFICES ASSUME EngineTypeOK, RunningOK, [Next]_vars, WritesFile, NEW w \in Wrappers,
                      engine[w] # NoConfig
               PROVE  wrap[w] = "none" /\ w \in left
    OBVIOUS
  <2>1. lock = "settings"
    BY WritersOfFile DEF Writes, Restores, Goes, RunningOK, Holding
  <2>2. wrap[w] \notin {"locked", "up", "ending"}
    BY <2>1 DEF RunningOK, PrefixOK, EngineUnderLock, Wrappers
  <2> QED BY <2>2 DEF RunningOK, PrefixOK, EngineKnown, LeftKnown
<1> QED BY <1>1, RunningInvariant, EngineTypeInvariant, PTL DEF Spec, WritesAlone

-----------------------------------------------------------------------------
(* What the file and the engines say *)

\* Since the file was read again only the merge and the engines have changed it, the merge
\* only what was requested and did not conflict.
AfterReread == Places \ {"closed", "open", "looking", "calling", "stopping", "locking", "merging"}

FileExplained ==
    /\ app.reread =>
          /\ app.pc \in AfterReread
          /\ \A k \in Keys \ fresh :
                \/ conf[k] = app.current[k]
                \/ /\ k \in Requested /\ conf[k] = app.after[k]
                   /\ app.current[k] \in {app.before[k], app.after[k]}
    /\ app.pc = "writing" => app.reread /\ MayMerge(app.current)

\* Once it is written the file says what was requested, and so does every engine that has
\* started since; none has run on but what ended wrappers have left.
FileEffective ==
    /\ app.pc \in {"unlocking", "starting", "waiting", "enabling"} =>
          \A k \in Requested \ fresh : conf[k] = app.after[k]
    /\ app.pc \in {"unlocking", "starting", "waiting"} =>
          \A w \in Wrappers \ left : engine[w] # NoConfig =>
             \A k \in Requested \ fresh : engine[w][k] = app.after[k]

DataOK == FileExplained /\ FileEffective

LEMMA DataInit == Init => DataOK
<1> SUFFICES ASSUME Init PROVE DataOK
  OBVIOUS
<1>1. app = [pc |-> "closed", before |-> NoConfig, after |-> NoConfig,
             current |-> NoConfig, reread |-> FALSE, active |-> FALSE, end |-> ""]
  BY DEF Init, SettingsInit
<1>2. app.pc = "closed" /\ ~app.reread
  BY <1>1
<1> QED BY <1>2 DEF DataOK, FileExplained, FileEffective

\* The engines explain what they change, and load what the file says.
LEMMA PrefixData ==
    ASSUME EngineTypeOK, DataOK, PrefixStep \/ NoLauncher, UNCHANGED app
    PROVE  DataOK'
<1> USE DEF EngineTypeOK, PrefixTypeOK, CopiesOK, DataOK, FileExplained, FileEffective,
            Requested, Differing, MayMerge
<1>1. CASE UnitEnds \/ UnitRestarts \/ NoLauncher
  BY <1>1 DEF UnitEnds, Ended, UnitRestarts, NoLauncher
<1>2. CASE StartByHand \/ StopByHand \/ EndLeftover
  BY <1>2 DEF StartByHand, StopByHand, EndLeftover, Ended
<1>3. ASSUME NEW w \in Wrappers, TakeLock(w) \/ LockRefused(w) \/ ChildEnds(w) \/ Listens(w)
                                 \/ BrokerEnds(w)
      PROVE  DataOK'
  BY <1>3 DEF TakeLock, LockRefused, ChildEnds, Listens, BrokerEnds
<1>4. ASSUME NEW w \in Wrappers, CleanUp(w) \/ CleanUpFails(w) \/ Abandon(w)
      PROVE  DataOK'
  BY <1>4 DEF CleanUp, CleanUpFails, Abandon
<1>5. ASSUME NEW w \in Wrappers, ChildStarts(w)
      PROVE  DataOK'
  BY <1>5 DEF ChildStarts
<1>6. ASSUME NEW w \in Wrappers, EngineChanges(w)
      PROVE  DataOK'
  <2>1. PICK k \in Keys \ {Smart}, v \in Values :
            engine' = [engine EXCEPT ![w][k] = v] /\ fresh' = fresh \cup {k}
    BY <1>6 DEF EngineChanges
  <2>2. UNCHANGED <<conf, left>> /\ engine[w] # NoConfig
    BY <1>6 DEF EngineChanges
  <2>3. engine[w] \in Configs
    BY <1>6 DEF EngineChanges
  <2>4. \A u \in Wrappers, j \in Keys \ {k} : engine'[u][j] = engine[u][j]
    BY <2>1, <2>3 DEF Configs
  <2>5. \A u \in Wrappers : engine'[u] # NoConfig => engine[u] # NoConfig
    BY <2>1, <2>2
  <2> QED BY <2>1, <2>2, <2>4, <2>5
<1>7. ASSUME NEW w \in Wrappers, EngineSaves(w)
      PROVE  DataOK'
  BY <1>7 DEF EngineSaves, runVars
<1> QED BY <1>1, <1>2, <1>3, <1>4, <1>5, <1>6, <1>7 DEF PrefixStep, WrapperStep

LEMMA SettingsKeepData ==
    ASSUME EngineTypeOK, RunningOK, DataOK, SettingsStep
    PROVE  DataOK'
<1>0. UNCHANGED <<engine, left>>
  BY SettingsEffects DEF SettingsEffect
<1> USE DEF EngineTypeOK, SettingsTypeOK, DataOK, FileExplained, FileEffective, Requested,
            Differing, AfterReread
\* At a place before the file is read again there is nothing to show.
<1>1. CASE app'.pc \notin AfterReread /\ ~app'.reread
  BY <1>1 DEF Places
<1>2. CASE WindowFails \/ StopFails \/ LockFails \/ UndoFails \/ EnableFails \/ Killed
             \/ UndoEndsStarting \/ UndoStartFails \/ Enables \/ Open
  <2>1. CASE Open
    <3>1. PICK copy \in Configs :
            app' = [app EXCEPT !.pc = "open", !.end = "", !.active = FALSE, !.before = copy]
      BY <2>1, CopyTyped DEF Open
    <3> QED BY <1>1, <2>1, <3>1 DEF Open
  <2>2. CASE \E end \in Ends : app' = Closing(end)
    BY <1>1, <2>2 DEF Closing
  <2> QED
    BY <1>2, <2>1, <2>2 DEF WindowFails, StopFails, LockFails, UndoFails, EnableFails, Killed,
       UndoEndsStarting, UndoStartFails, Enables, Closed, Ends
<1>3. ASSUME NEW after \in Configs, WindowCloses(after)
      PROVE  DataOK'
  <2>1. CASE app' = Closing("unchanged")
    BY <1>1, <2>1 DEF Closing
  <2>2. CASE app' = [app EXCEPT !.after = after, !.current = conf, !.pc = "looking"]
    BY <1>1, <1>3, <2>2 DEF WindowCloses
  <2> QED BY <1>3, <2>1, <2>2 DEF WindowCloses
<1>4. CASE Looks
  <2>1. PICK active \in BOOLEAN, to \in {"calling", "locking"} :
          app' = [app EXCEPT !.active = active, !.pc = to]
    BY <1>4 DEF Looks, OwnsService
  <2> QED BY <1>1, <1>4, <2>1 DEF Looks
<1>5. CASE Stops \/ Stopped \/ Locks
  BY <1>1, <1>5 DEF Stops, Stopped, Locks, Goes
\* To a place where what was written may have been taken back.
<1>6. CASE StartFails \/ WaitFails \/ WaitTooShort \/ UndoStopped \/ Relocks \/ FileFails
  <2>1. /\ UNCHANGED <<conf, fresh>>
        /\ \E to \in {"undoing", "relocking", "restoring"} : app' = [app EXCEPT !.pc = to]
    BY <1>6 DEF StartFails, WaitFails, WaitTooShort, UndoStopped, Relocks, FileFails, Goes,
                prefixVars, runVars
  <2> QED BY <2>1 DEF Places
<1>7. CASE Undoes
  <2>1. /\ UNCHANGED <<conf, fresh>>
        /\ \E to \in {"undoStopping", "relocking"} : app' = [app EXCEPT !.pc = to]
    BY <1>7 DEF Undoes
  <2> QED BY <2>1 DEF Places
<1>8. CASE UndoUnlocks
  <2>1. CASE app.active
    <3>1. app' = [app EXCEPT !.pc = "undoStarting"] /\ UNCHANGED <<conf, fresh>>
          /\ app.pc = "undoUnlocking"
      BY <1>8, <2>1 DEF UndoUnlocks
    <3> QED BY <3>1 DEF Places
  <2>2. CASE ~app.active
    <3>1. PICK end \in Ends : app' = Closing(end)
      BY <1>8, <2>2 DEF UndoUnlocks, Closed, Ends
    <3>2. app'.pc = "closed" /\ ~app'.reread
      BY <3>1 DEF Closing
    <3> QED BY <1>1, <3>2
  <2> QED BY <2>1, <2>2
<1>9. CASE Restores
  BY <1>9 DEF Restores, Goes, Places, runVars
<1>10. CASE Merges
  <2>1. CASE MayMerge(conf)
    <3>1. app' = [app EXCEPT !.current = conf, !.reread = TRUE, !.pc = "writing"]
      BY <1>10, <2>1 DEF Merges, Reread
    <3>2. /\ app'.current = conf /\ app'.pc = "writing" /\ app'.reread
          /\ app'.before = app.before /\ app'.after = app.after
      BY <3>1
    <3> QED BY <1>10, <2>1, <3>2 DEF Merges, prefixVars, MayMerge, Places
  <2>2. CASE ~MayMerge(conf)
    <3>1. app' = [app EXCEPT !.current = conf, !.reread = TRUE, !.pc = "undoing"]
      BY <1>10, <2>2 DEF Merges, Reread
    <3>2. /\ app'.current = conf /\ app'.pc = "undoing" /\ app'.reread
          /\ app'.before = app.before /\ app'.after = app.after
      BY <3>1
    <3> QED BY <1>10, <3>2 DEF Merges, prefixVars, Places
  <2> QED BY <2>1, <2>2
<1>11. CASE Writes
  <2>1. /\ app.pc = "writing" /\ app' = [app EXCEPT !.pc = "unlocking"]
        /\ conf' = Merged(app.current) /\ UNCHANGED fresh
    BY <1>11 DEF Writes, Goes, runVars
  <2>2. lock = "settings"
    BY <2>1 DEF RunningOK, Holding
  <2>3. \A w \in Wrappers \ left : engine[w] = NoConfig
    BY <2>2 DEF RunningOK, PrefixOK, EngineUnderLock, EngineKnown, Wrappers
  <2>4. app'.pc = "unlocking" /\ UNCHANGED <<app.before, app.after, app.current, app.reread>>
    BY <2>1
  <2>5. FileEffective'
    BY <1>0, <2>1, <2>3, <2>4 DEF Merged
  <2>6. FileExplained'
    BY <2>1, <2>4 DEF Merged, MayMerge, Places
  <2> QED BY <2>5, <2>6
<1>12. CASE Unlocks \/ Starts \/ Connects
  <2>1. /\ UNCHANGED <<conf, fresh>>
        /\ \/ app.pc = "unlocking" /\ app' = [app EXCEPT !.pc = "starting"]
           \/ app.pc = "unlocking" /\ app' = [app EXCEPT !.pc = "enabling"]
           \/ app.pc = "starting" /\ app' = [app EXCEPT !.pc = "waiting"]
           \/ app.pc = "waiting" /\ app' = [app EXCEPT !.pc = "enabling"]
    BY <1>12 DEF Unlocks, Starts, Connects, Goes, prefixVars
  <2> QED BY <1>0, <2>1 DEF Places
<1>13. CASE SwitchesPreference
  BY <1>0, <1>13 DEF SwitchesPreference, runVars, MayMerge
<1> QED BY <1>2, <1>3, <1>4, <1>5, <1>6, <1>7, <1>8, <1>9, <1>10, <1>11, <1>12, <1>13
        DEF SettingsStep

LEMMA DataStep == EngineTypeOK /\ RunningOK /\ DataOK /\ [Next]_vars => DataOK'
<1> SUFFICES ASSUME EngineTypeOK, RunningOK, DataOK, [Next]_vars PROVE DataOK'
  OBVIOUS
<1>1. CASE UserStarts \/ UserStops
  BY <1>1 DEF UserStarts, UserStops, appVars, DataOK, FileExplained, FileEffective, Requested,
              Differing, MayMerge
<1>2. CASE EngineRuns
  BY <1>2, PrefixData DEF EngineRuns, appVars
<1>3. CASE InstallerRuns \/ UNCHANGED vars
  BY <1>3 DEF InstallerRuns, vars, prefixVars, runVars, appVars, DataOK, FileExplained,
              FileEffective, Requested, Differing, MayMerge
<1>4. CASE SettingsRun
  BY <1>4, SettingsKeepData DEF SettingsRun
<1> QED BY <1>1, <1>2, <1>3, <1>4 DEF Next

LEMMA DataInvariant == Spec => []DataOK
  BY DataInit, DataStep, EngineTypeInvariant, RunningInvariant, PTL DEF Spec

\* Writing the configuration, forwards or back from a file that was read again, changes
\* requested settings only, and what an engine has changed since the lock was taken.
THEOREM OthersSurvive == Spec => OthersKept
<1>1. EngineTypeOK /\ DataOK /\ [Next]_vars =>
        [WritesFile /\ (app.pc = "restoring" => app.reread) =>
            \A k \in Differing(conf, conf') : MayWriteOver(k)]_vars
  <2> SUFFICES ASSUME EngineTypeOK, DataOK, [Next]_vars, WritesFile,
                      app.pc = "restoring" => app.reread,
                      NEW k \in Keys, conf[k] # conf'[k], k \notin fresh
               PROVE  /\ k \in Requested
                      /\ {conf[k], conf'[k]} \subseteq {app.before[k], app.after[k]}
    BY DEF Differing, MayWriteOver
  <2> USE DEF EngineTypeOK, CopiesOK, DataOK, FileExplained
  <2>1. CASE Writes
    BY <2>1 DEF Writes, Goes, Merged, MayMerge
  <2>2. CASE Restores
    BY <2>2 DEF Restores, Goes
  <2> QED BY <2>1, <2>2, WritersOfFile
<1> QED BY <1>1, EngineTypeInvariant, DataInvariant, PTL DEF Spec, OthersKept

\* The steps that end the wait for the keyboard and the whole program with success.
LEMMA EndOfWait ==
    /\ [Next]_vars /\ EndsWait /\ EngineTypeOK => Connects
    /\ [Next]_vars /\ app'.end = "applied" /\ Finishes /\ EngineTypeOK => Enables
<1>1. ASSUME [Next]_vars, app' # app PROVE SettingsStep
  BY <1>1 DEF Next, vars, UserStarts, UserStops, EngineRuns, InstallerRuns, SettingsRun, appVars
<1> USE DEF Goes, Closed, Closing, Finishes, EngineTypeOK, SettingsTypeOK
<1>2. ASSUME SettingsStep, EngineTypeOK, app.pc = "waiting", app'.pc = "enabling" PROVE Connects
  BY <1>2 DEF SettingsStep, Open, WindowFails, WindowCloses, Looks, Stops, Stopped, StopFails, Locks,
     LockFails, Merges, FileFails, Writes, Unlocks, Starts, StartFails,
     WaitFails, WaitTooShort, Undoes, UndoStopped, Relocks, UndoFails, Restores,
     UndoUnlocks, UndoEndsStarting, UndoStartFails, Enables, EnableFails, Killed, SwitchesPreference
<1>3. ASSUME SettingsStep, EngineTypeOK, app'.end = "applied", Finishes PROVE Enables
  BY <1>3 DEF SettingsStep, Open, WindowFails, WindowCloses, Looks, Stops, Stopped, StopFails, Locks,
     LockFails, Merges, FileFails, Writes, Unlocks, Starts, StartFails, Connects,
     WaitFails, WaitTooShort, Undoes, UndoStopped, Relocks, UndoFails, Restores,
     UndoUnlocks, UndoEndsStarting, UndoStartFails, EnableFails, Killed, SwitchesPreference
<1> QED BY <1>1, <1>2, <1>3 DEF EndsWait

\* "Saved" means that the file and the preference say what was requested, and that the
\* broker that answers has an engine which loaded it or outlives the wrapper it came from.
THEOREM SavedIsEffective == Spec => AppliedMeansEffective
<1> DEFINE Saved ==
      /\ app'.end = "applied" /\ Finishes => \A k \in Requested :
             /\ conf[k] = app.after[k] \/ k \in fresh
             /\ k = Smart => pref' = app.after[k]
      /\ EndsWait => \E w \in Wrappers : broker[w] = "listening" /\ (w \in left \/ Effective(w))
<1>1. EngineTypeOK /\ RunningOK /\ DataOK /\ [Next]_vars => [Saved]_vars
  <2> SUFFICES ASSUME EngineTypeOK, RunningOK, DataOK, [Next]_vars PROVE Saved
    OBVIOUS
  <2> USE DEF DataOK, FileEffective
  <2>1. ASSUME app'.end = "applied", Finishes, NEW k \in Requested
        PROVE  /\ conf[k] = app.after[k] \/ k \in fresh
               /\ k = Smart => pref' = app.after[k]
    <3>1. Enables
      BY <2>1, EndOfWait
    <3> QED BY <3>1 DEF Enables, Requested, Differing
  <2>2. ASSUME EndsWait
        PROVE  \E w \in Wrappers : broker[w] = "listening" /\ (w \in left \/ Effective(w))
    <3>1. Connects
      BY <2>2, EndOfWait
    <3>2. PICK w \in Wrappers : broker[w] = "listening"
      BY <3>1 DEF Connects, Serving, Listening
    <3>3. w \in left \/ engine[w] # NoConfig
      BY <3>2 DEF RunningOK, PrefixOK, BrokerKnown
    <3> QED BY <2>2, <3>2, <3>3 DEF EndsWait, Effective
  <2> QED BY <2>1, <2>2
<1> QED BY <1>1, EngineTypeInvariant, RunningInvariant, DataInvariant, PTL
        DEF Spec, AppliedMeansEffective

-----------------------------------------------------------------------------
(* The service that was stopped is started again *)

BeforeStop == {"open", "looking"}
AfterStop  == Places \ (BeforeStop \cup {"closed", "calling", "stopping", "undoStopping"})

\* Once the program's own stop has come to its end nobody but the person stops the unit;
\* once it is started again it is active or about to be restarted.
RestartOK ==
    /\ app.pc \in BeforeStop => ~app.active
    /\ app.active /\ wanted /\ app.pc \in AfterStop => unit # "stopping"
    /\ app.active /\ wanted /\ app.pc \in {"waiting", "enabling"} =>
          unit \in {"active", "restarting"}

LEMMA RestartInit == Init => RestartOK
<1> SUFFICES ASSUME Init PROVE RestartOK
  OBVIOUS
<1>1. app = [pc |-> "closed", before |-> NoConfig, after |-> NoConfig,
             current |-> NoConfig, reread |-> FALSE, active |-> FALSE, end |-> ""]
  BY DEF Init, SettingsInit
<1>2. app.pc = "closed"
  BY <1>1
<1> QED BY <1>2 DEF RestartOK, BeforeStop, AfterStop

LEMMA SettingsRestart ==
    ASSUME EngineTypeOK, RestartOK, SettingsStep, UNCHANGED wanted
    PROVE  RestartOK'
<1> USE DEF EngineTypeOK, PrefixTypeOK, SettingsTypeOK, RestartOK, BeforeStop, AfterStop
<1>1. CASE app'.pc = "closed"
  BY <1>1
<1>2. CASE \E end \in Ends : app' = Closing(end)
  BY <1>1, <1>2 DEF Closing
<1>3. CASE WindowFails \/ StopFails \/ LockFails \/ UndoFails \/ EnableFails \/ Killed
             \/ UndoEndsStarting \/ UndoStartFails \/ Enables
  BY <1>2, <1>3 DEF WindowFails, StopFails, LockFails, UndoFails, EnableFails, Killed,
     UndoEndsStarting, UndoStartFails, Enables, Closed, Ends
<1>4. CASE Open
  <2>1. PICK copy \in Configs :
          app' = [app EXCEPT !.pc = "open", !.end = "", !.active = FALSE, !.before = copy]
    BY <1>4, CopyTyped DEF Open
  <2> QED BY <2>1
<1>5. ASSUME NEW after \in Configs, WindowCloses(after)
      PROVE  RestartOK'
  <2>1. app.pc = "open"
    BY <1>5 DEF WindowCloses
  <2>2. CASE app' = Closing("unchanged")
    BY <1>1, <2>2 DEF Closing
  <2>3. CASE app' = [app EXCEPT !.after = after, !.current = conf, !.pc = "looking"]
    BY <2>1, <2>3
  <2> QED BY <1>5, <2>2, <2>3 DEF WindowCloses
<1>6. CASE Looks
  <2>1. CASE unit = "active" /\ OwnsService
    <3>1. app' = [app EXCEPT !.active = TRUE, !.pc = "calling"]
      BY <1>6, <2>1 DEF Looks
    <3> QED BY <3>1
  <2>2. CASE ~(unit = "active" /\ OwnsService)
    <3>1. app' = [app EXCEPT !.active = FALSE, !.pc = "locking"]
      BY <1>6, <2>2 DEF Looks
    <3> QED BY <1>6, <3>1 DEF Looks
  <2> QED BY <2>1, <2>2
<1>7. CASE Stops \/ Stopped \/ UndoStopped
  BY <1>7 DEF Stops, Stopped, UndoStopped, Goes, prefixVars, runVars
\* Between places that ask for nothing more.
<1>8. CASE /\ app.pc \in AfterStop /\ UNCHANGED unit
           /\ \E to \in AfterStop \ {"waiting", "enabling"} : app' = [app EXCEPT !.pc = to]
  BY <1>8
<1>9. CASE Locks \/ FileFails \/ StartFails \/ WaitFails \/ WaitTooShort \/ Relocks
             \/ Writes \/ Restores
  BY <1>8, <1>9 DEF Locks, FileFails, StartFails, WaitFails, WaitTooShort, Relocks, Writes,
     Restores, Goes, runVars, prefixVars, Places
<1>10. CASE Merges
  <2>1. PICK to \in {"writing", "undoing"} :
          app' = [app EXCEPT !.current = conf, !.reread = TRUE, !.pc = to]
    BY <1>10 DEF Merges, Reread
  <2> QED BY <1>10, <2>1 DEF Merges, prefixVars, runVars, Places
<1>11. CASE Unlocks
  BY <1>11 DEF Unlocks, Places
<1>12. CASE Starts
  BY <1>12 DEF Starts, StartUnit, Goes, Places
<1>13. CASE Connects
  BY <1>13 DEF Connects, Goes, prefixVars, runVars, Places
<1>14. CASE Undoes
  BY <1>14 DEF Undoes, Places
<1>15. CASE UndoUnlocks
  BY <1>1, <1>8, <1>15 DEF UndoUnlocks, Closed, Closing, Places
<1>16. CASE SwitchesPreference
  BY <1>16 DEF SwitchesPreference, runVars
<1> QED BY <1>3, <1>4, <1>5, <1>6, <1>7, <1>9, <1>10, <1>11, <1>12, <1>13, <1>14, <1>15, <1>16
        DEF SettingsStep

LEMMA RestartStep == EngineTypeOK /\ RestartOK /\ [Next]_vars => RestartOK'
<1> SUFFICES ASSUME EngineTypeOK, RestartOK, [Next]_vars PROVE RestartOK'
  OBVIOUS
<1>1. CASE UserStarts
  BY <1>1 DEF UserStarts, StartUnit, appVars, RestartOK
<1>2. CASE UserStops
  BY <1>2 DEF UserStops, appVars, RestartOK
<1>3. CASE EngineRuns
  <2>1. UNCHANGED <<app, wanted>>
    BY <1>3 DEF EngineRuns, appVars
  <2>2. \/ UNCHANGED unit \/ unit' = "active"
        \/ unit = "stopping" /\ unit' = "inactive"
        \/ unit = "active" /\ unit' = "restarting"
    BY <1>3 DEF EngineRuns, NoLauncher, PrefixStep, WrapperStep, UnitEnds, UnitRestarts, StartUnit,
       StartByHand, StopByHand, EndLeftover, TakeLock, LockRefused, ChildStarts, ChildEnds,
       CleanUp, CleanUpFails, Abandon, Listens, BrokerEnds, EngineChanges, EngineSaves, runVars
  <2> QED BY <2>1, <2>2 DEF RestartOK, AfterStop, BeforeStop, Places
<1>4. CASE InstallerRuns \/ UNCHANGED vars
  BY <1>4 DEF InstallerRuns, vars, prefixVars, runVars, appVars, RestartOK
<1>5. CASE SettingsRun
  BY <1>5, SettingsRestart DEF SettingsRun
<1> QED BY <1>1, <1>2, <1>3, <1>4, <1>5 DEF Next

LEMMA RestartInvariant == Spec => []RestartOK
  BY RestartInit, RestartStep, EngineTypeInvariant, PTL DEF Spec

\* A service that was stopped for new settings is started again but for five named ways out.
THEOREM ServiceRestored == Spec => StoppedForAReason
<1>1. EngineTypeOK /\ RestartOK /\ [Next]_vars =>
        [Finishes /\ app.active /\ wanted /\ unit' = "inactive" =>
            app'.end \in {"stopFailed", "refused", "notRestored", "notRestarted", "killed"}]_vars
  <2> SUFFICES ASSUME EngineTypeOK, RestartOK, [Next]_vars,
                      Finishes, app.active, wanted, unit' = "inactive"
               PROVE  app'.end \in {"stopFailed", "refused", "notRestored", "notRestarted", "killed"}
    OBVIOUS
  <2> USE DEF EngineTypeOK, PrefixTypeOK, SettingsTypeOK, RestartOK, Finishes, BeforeStop
  <2>1. SettingsStep
    BY DEF Next, vars, UserStarts, UserStops, EngineRuns, InstallerRuns, SettingsRun, appVars
  <2>2. CASE StopFails \/ LockFails \/ UndoFails \/ UndoStartFails \/ Killed
    BY <2>2 DEF StopFails, LockFails, UndoFails, UndoStartFails, Killed, Closed, Closing
  <2>3. ~Enables /\ ~EnableFails
    BY DEF Enables, EnableFails, prefixVars, runVars
  <2>4. ~UndoEndsStarting
    BY DEF UndoEndsStarting, UndoStarts, StartUnit, AfterStop, Places
  <2>5. ~WindowFails /\ (\A after \in Configs : ~WindowCloses(after)) /\ ~UndoUnlocks
    BY DEF WindowFails, WindowCloses, UndoUnlocks
  <2> QED
    BY <2>1, <2>2, <2>3, <2>4, <2>5
       DEF SettingsStep, Open, Looks, Stops, Stopped, Locks, Merges, FileFails, Writes, Unlocks,
           Starts, StartFails, Connects, WaitFails, WaitTooShort, Undoes, UndoStopped, Relocks,
           Restores, SwitchesPreference, Goes
<1> QED BY <1>1, EngineTypeInvariant, RestartInvariant, PTL DEF Spec, StoppedForAReason

-----------------------------------------------------------------------------
(* Nothing fails by itself *)

\* A lock is held by somebody at work: a wrapper that has passed it, or the settings
\* program between taking it and giving it back.
LockUsed ==
    /\ \A w \in Wrappers : lock = w => wrap[w] \in {"locked", "up", "ending"}
    /\ lock = "settings" =>
          app.pc \in {"merging", "writing", "unlocking", "undoing", "undoStopping", "relocking",
                     "restoring", "undoUnlocking"}

\* While nothing failed and no setting was changed elsewhere every engine has what the
\* file says, and what the window changed can still be merged.
Steady == faults = 0 /\ changes = 0
EnginesAgree ==
    /\ faults = 0 => left = {}
    /\ Steady => \A w \in Wrappers : engine[w] \in {NoConfig, conf}
    /\ Steady /\ app.pc \in {"looking", "calling", "stopping", "locking", "merging"} => MayMerge(conf)

\* The way of main() when nobody crosses it: the service stops, stays stopped until it is
\* started, and then comes up.
Straight ==
    /\ AtWork /\ ~crossed => wrap["manual"] = "none"
    /\ Steady /\ ~crossed /\ app.active =>
          /\ app.pc \in {"closed", "calling", "stopping", "locking", "merging", "writing", "unlocking",
                        "starting", "waiting", "enabling"}
          /\ app.pc = "stopping" => unit \in {"stopping", "inactive"}
          /\ app.pc \in {"locking", "merging", "writing", "unlocking", "starting"} => unit = "inactive"
          /\ app.pc = "waiting" => OnItsWay

UndisturbedOK == LockUsed /\ EnginesAgree /\ Straight

\* Nobody is at work at first.
LEMMA UndisturbedInit == Init => UndisturbedOK
<1> SUFFICES ASSUME Init PROVE UndisturbedOK
  OBVIOUS
<1>1. app = [pc |-> "closed", before |-> NoConfig, after |-> NoConfig,
             current |-> NoConfig, reread |-> FALSE, active |-> FALSE, end |-> ""]
  BY DEF Init, SettingsInit
<1>2. app.pc = "closed" /\ ~app.active
  BY <1>1
<1>3. /\ lock = Free /\ wrap = [w \in Wrappers |-> "none"] /\ left = {}
      /\ engine = [w \in Wrappers |-> NoConfig]
  BY DEF Init, PrefixInit
<1> QED BY <1>2, <1>3 DEF UndisturbedOK, LockUsed, EnginesAgree, Straight, AtWork, Wrappers, Free

\* Starting and stopping the unit gives nobody a lock and takes none away.
LEMMA UnitLockUsed ==
    ASSUME EngineTypeOK, RunningOK, UndisturbedOK, StartUnit \/ StopUnit \/ UNCHANGED <<unit, wrap>>,
           UNCHANGED lock
    PROVE  \A w \in Wrappers : lock' = w => wrap'[w] \in {"locked", "up", "ending"}
<1> USE DEF EngineTypeOK, PrefixTypeOK, RunningOK, PrefixOK, UnitKnown, UndisturbedOK, LockUsed,
           Wrappers
<1>1. CASE StartUnit
  BY <1>1 DEF StartUnit
<1>2. CASE StopUnit
  BY <1>2 DEF StopUnit, Terminated
<1> QED BY <1>1, <1>2

\* The wrappers, the unit and the engines.
LEMMA PrefixUndisturbed ==
    ASSUME EngineTypeOK, RunningOK, UndisturbedOK, EngineRuns
    PROVE  UndisturbedOK'
<1> USE DEF EngineTypeOK, PrefixTypeOK, RunningOK, UndisturbedOK
<1>1. UNCHANGED app
  BY DEF EngineRuns, appVars
<1>2. LockUsed'
  <2>1. CASE UnitRestarts
    BY <1>1, <2>1, UnitLockUsed DEF UnitRestarts, LockUsed
  <2>2. CASE UnitEnds \/ StartByHand \/ EndLeftover \/ NoLauncher
    BY <1>1, <2>2 DEF UnitEnds, StartByHand, EndLeftover, NoLauncher, LockUsed, Wrappers
  <2>3. CASE StopByHand
    BY <1>1, <2>3 DEF StopByHand, Terminated, LockUsed, Wrappers
  <2>4. ASSUME NEW w \in Wrappers, TakeLock(w) \/ LockRefused(w) \/ ChildStarts(w) \/ ChildEnds(w)
                                   \/ Listens(w) \/ BrokerEnds(w)
        PROVE  LockUsed'
    BY <1>1, <2>4 DEF TakeLock, LockRefused, ChildStarts, ChildEnds, Listens, BrokerEnds, LockUsed,
                      Wrappers
  <2>5. ASSUME NEW w \in Wrappers, CleanUp(w) \/ CleanUpFails(w) \/ Abandon(w) PROVE LockUsed'
    BY <1>1, <2>5 DEF CleanUp, CleanUpFails, Abandon, LockUsed, Wrappers, Free
  <2>6. ASSUME NEW w \in Wrappers, EngineChanges(w) \/ EngineSaves(w) PROVE LockUsed'
    BY <1>1, <2>6 DEF EngineChanges, EngineSaves, runVars, LockUsed
  <2> QED BY <2>1, <2>2, <2>3, <2>4, <2>5, <2>6 DEF EngineRuns, PrefixStep, WrapperStep
<1>3. EnginesAgree'
  <2> USE DEF EnginesAgree, Steady, MayMerge, Requested
  <2>1. CASE UnitRestarts \/ UnitEnds \/ StartByHand \/ EndLeftover \/ NoLauncher \/ StopByHand
    BY <1>1, <2>1 DEF UnitRestarts, UnitEnds, StartByHand, EndLeftover, NoLauncher, StopByHand, Ended
  <2>2. ASSUME NEW w \in Wrappers, TakeLock(w) \/ LockRefused(w) \/ ChildStarts(w) \/ CleanUp(w)
                                   \/ Listens(w) \/ BrokerEnds(w)
        PROVE  EnginesAgree'
    BY <1>1, <2>2 DEF TakeLock, LockRefused, ChildStarts, CleanUp, Listens, BrokerEnds
  <2>3. ASSUME NEW w \in Wrappers, ChildEnds(w) \/ CleanUpFails(w) \/ Abandon(w) PROVE EnginesAgree'
    <3>1. faults' # 0
      BY <2>3 DEF ChildEnds, CleanUpFails, Abandon, Fails
    <3> QED BY <3>1
  <2>4. ASSUME NEW w \in Wrappers, EngineChanges(w) PROVE EnginesAgree'
    <3>1. changes' # 0 /\ UNCHANGED <<faults, left>>
      BY <2>4 DEF EngineChanges
    <3> QED BY <3>1
  <2>5. ASSUME NEW w \in Wrappers, EngineSaves(w) PROVE EnginesAgree'
    <3>1. UNCHANGED <<changes, faults, left>> /\ engine[w] \notin {NoConfig, conf}
      BY <2>5 DEF EngineSaves
    <3> QED BY <3>1
  <2> QED BY <2>1, <2>2, <2>3, <2>4, <2>5 DEF EngineRuns, PrefixStep, WrapperStep
<1>4. Straight'
  <2> USE DEF Straight, Steady, AtWork
  <2>1. CASE NoLauncher /\ crossed' = (crossed \/ AtWork)
    BY <1>1, <2>1 DEF NoLauncher
  <2>2. CASE PrefixStep /\ crossed' = (crossed \/ (AtWork /\ wrap'["manual"] # "none"))
    <3>1. faults \in Nat /\ changes \in Nat /\ faults' >= faults /\ changes' >= changes
      BY <2>2, BoundAssumption DEF PrefixStep, WrapperStep, UnitEnds, UnitRestarts, StartByHand, StopByHand,
         EndLeftover, TakeLock, LockRefused, ChildStarts, ChildEnds, CleanUp, CleanUpFails, Abandon,
         Listens, BrokerEnds, EngineChanges, EngineSaves, Fails, runVars
    <3>2. AtWork' /\ ~crossed' => wrap'["manual"] = "none"
      BY <1>1, <2>2
    <3>3. SUFFICES ASSUME Steady', ~crossed', app.active, AtWork
                   PROVE  /\ app.pc = "stopping" => unit' \in {"stopping", "inactive"}
                          /\ app.pc \in {"locking", "merging", "writing", "unlocking", "starting"} =>
                                unit' = "inactive"
                          /\ app.pc = "waiting" => OnItsWay'
      BY <1>1, <2>2, <3>1, <3>2
    <3>4. /\ Steady /\ ~crossed /\ wrap["manual"] = "none" /\ wrap'["manual"] = "none"
          /\ app.pc = "stopping" => unit \in {"stopping", "inactive"}
          /\ app.pc \in {"locking", "merging", "writing", "unlocking", "starting"} => unit = "inactive"
          /\ app.pc = "waiting" => OnItsWay
          /\ app.pc \in {"calling", "stopping", "locking", "merging", "writing", "unlocking", "starting",
                         "waiting", "enabling"}
      <4>1. Steady
        BY <3>1, <3>3
      <4>2. ~crossed /\ wrap'["manual"] = "none"
        BY <2>2, <3>3, Zenon
      <4>3. wrap["manual"] = "none"
        BY <3>3, <4>2
      <4> QED BY <3>3, <4>1, <4>2, <4>3
    <3> USE DEF OnItsWay, Wrappers
    <3>5. CASE UnitEnds \/ UnitRestarts
      BY <3>4, <3>5 DEF UnitEnds, UnitRestarts, StartUnit, PrefixOK, UnitKnown
    <3>6. CASE StartByHand \/ StopByHand \/ EndLeftover
      BY <3>4, <3>6 DEF StartByHand, StopByHand, EndLeftover
    <3>7. ASSUME NEW w \in Wrappers, TakeLock(w) \/ LockRefused(w) \/ ChildStarts(w) \/ CleanUp(w)
          PROVE  w = "service" /\ UNCHANGED unit /\ (app.pc = "waiting" => OnItsWay')
      BY <3>4, <3>7 DEF TakeLock, CanLock, LockRefused, ChildStarts, CleanUp
    <3>8. ASSUME NEW w \in Wrappers,
                 ChildEnds(w) \/ CleanUpFails(w) \/ Abandon(w) \/ EngineChanges(w) PROVE FALSE
      BY <3>3, <3>4, <3>8 DEF ChildEnds, CleanUpFails, Abandon, EngineChanges, Fails
    <3>9. ASSUME NEW w \in Wrappers, EngineSaves(w) \/ Listens(w) PROVE UNCHANGED <<lock, unit, wrap>>
      BY <3>9 DEF EngineSaves, Listens, runVars
    \* A broker that runs has an engine and finds nobody at the socket.
    <3>10. ASSUME NEW w \in Wrappers, BrokerEnds(w) PROVE FALSE
      BY <3>4, <3>10 DEF BrokerEnds, MustEnd, Listening, PrefixOK, BrokerKnown, EnginesAgree
    <3> QED BY <2>2, <3>4, <3>5, <3>6, <3>7, <3>8, <3>9, <3>10 DEF PrefixStep, WrapperStep
  <2> QED BY <2>1, <2>2 DEF EngineRuns
<1> QED BY <1>2, <1>3, <1>4

\* The settings program has its own lock only between taking it and giving it back.
LEMMA SettingsLockUsed ==
    ASSUME EngineTypeOK, RunningOK, UndisturbedOK, SettingsStep
    PROVE  LockUsed'
<1> USE DEF EngineTypeOK, PrefixTypeOK, SettingsTypeOK, UndisturbedOK
<1>1. \A w \in Wrappers : lock' = w => wrap'[w] \in {"locked", "up", "ending"}
  <2>1. SettingsEffect
    BY SettingsEffects
  <2>2. CASE UNCHANGED lock
    BY <2>1, <2>2, UnitLockUsed DEF SettingsEffect
  <2>3. CASE lock' \in {Free, "settings"}
    BY <2>3 DEF Wrappers, Free
  <2> QED BY <2>1, <2>2, <2>3 DEF SettingsEffect
<1> SUFFICES ASSUME lock' = "settings"
             PROVE  app'.pc \in {"merging", "writing", "unlocking", "undoing", "undoStopping", "relocking",
                                "restoring", "undoUnlocking"}
  BY <1>1 DEF LockUsed
<1>2. CASE WindowFails \/ StopFails \/ LockFails \/ EnableFails \/ UndoEndsStarting \/ Enables
             \/ UndoStartFails
  BY <1>2 DEF WindowFails, StopFails, LockFails, EnableFails, UndoEndsStarting, UndoStartFails, Enables,
              LockUsed, prefixVars, runVars, MayLock
<1>3. CASE UndoFails \/ Killed \/ UndoUnlocks \/ Unlocks
  BY <1>3 DEF UndoFails, Killed, UndoUnlocks, Unlocks, Unlocked, Released, Free
<1>4. CASE Open \/ (\E after \in Configs : WindowCloses(after)) \/ SwitchesPreference
  BY <1>4 DEF Open, WindowCloses, SwitchesPreference, prefixVars, runVars, LockUsed
<1>5. CASE Stops \/ Stopped \/ Starts \/ StartFails \/ Connects \/ WaitFails \/ WaitTooShort \/ Looks
  BY <1>5 DEF Stops, Stopped, Starts, StartFails, Connects, WaitFails, WaitTooShort, Looks, Goes, prefixVars,
              runVars, LockUsed
<1>6. CASE Locks \/ Relocks \/ Writes \/ Restores \/ UndoStopped \/ FileFails
  BY <1>6 DEF Locks, Relocks, Writes, Restores, UndoStopped, FileFails, Goes
<1>7. CASE Merges \/ Undoes
  BY <1>7 DEF Merges, Undoes
<1> QED BY <1>2, <1>3, <1>4, <1>5, <1>6, <1>7 DEF SettingsStep

\* What failed and what changed stays counted.
LEMMA CountsGrow ==
    ASSUME PrefixTypeOK, SettingsStep
    PROVE  /\ faults' = 0 => faults = 0
           /\ changes' = 0 => changes = 0
<1> USE DEF PrefixTypeOK
<1>1. UNCHANGED <<faults, changes>> \/ (Fails /\ UNCHANGED changes) \/ SwitchesPreference
  BY DEF SettingsStep, Open, WindowFails, WindowCloses, Looks, Stops, Stopped, StopFails, Locks,
     LockFails, Merges, FileFails, Writes, Unlocks, Starts, StartFails, Connects,
     WaitFails, WaitTooShort, Undoes, UndoStopped, Relocks, UndoFails, Restores,
     UndoUnlocks, UndoEndsStarting, UndoStartFails, Enables, EnableFails, Killed, prefixVars, runVars
<1>2. Fails => faults' # 0
  BY BoundAssumption DEF Fails
<1>3. SwitchesPreference => changes' # 0 /\ UNCHANGED faults
  BY BoundAssumption DEF SwitchesPreference
<1> QED BY <1>1, <1>2, <1>3

\* No engine runs where the file is written, and what the window changed stays mergeable.
LEMMA SettingsAgree ==
    ASSUME EngineTypeOK, RunningOK, UndisturbedOK, SettingsStep
    PROVE  EnginesAgree'
<1> USE DEF EngineTypeOK, PrefixTypeOK, SettingsTypeOK, UndisturbedOK, EnginesAgree, Steady
<1>1. UNCHANGED <<engine, left>>
  BY SettingsEffects DEF SettingsEffect
<1>2. /\ faults' = 0 => faults = 0
      /\ changes' = 0 => changes = 0
  BY CountsGrow
<1>3. Steady' => \A w \in Wrappers : engine'[w] \in {NoConfig, conf'}
  <2>1. CASE conf' = conf
    BY <1>1, <1>2, <2>1
  <2>2. CASE Writes \/ Restores
    <3>1. lock = "settings"
      BY <2>2 DEF Writes, Restores, Goes, RunningOK, Holding
    <3>2. \A w \in Wrappers : engine[w] # NoConfig => w \in left
      BY <3>1 DEF RunningOK, PrefixOK, EngineUnderLock, EngineKnown, Wrappers
    <3> QED BY <1>1, <1>2, <3>2
  <2>3. conf' = conf \/ Writes \/ Restores
    BY DEF SettingsStep, Open, WindowFails, WindowCloses, Looks, Stops, Stopped, StopFails, Locks,
     LockFails, Merges, FileFails, Unlocks, Starts, StartFails, Connects,
     WaitFails, WaitTooShort, Undoes, UndoStopped, Relocks, UndoFails,
     UndoUnlocks, UndoEndsStarting, UndoStartFails, Enables, EnableFails, Killed, SwitchesPreference,
     prefixVars, runVars
  <2> QED BY <2>1, <2>2, <2>3
<1>4. ASSUME Steady', app'.pc \in {"looking", "calling", "stopping", "locking", "merging"}
      PROVE  MayMerge(conf)'
  <2>1. CASE UNCHANGED <<conf, app>>
    BY <1>2, <1>4, <2>1 DEF MayMerge, Requested
  <2>2. ASSUME NEW after \in Configs, WindowCloses(after) PROVE MayMerge(conf)'
    <3>1. app' = [app EXCEPT !.after = after, !.current = conf, !.pc = "looking"]
      BY <1>4, <2>2 DEF WindowCloses, Closing
    <3>2. \A k \in Differing(app.before, after) : conf[k] \in {app.before[k], after[k]}
      BY <1>4, <2>2 DEF WindowCloses, Closing
    <3>3. app'.before = app.before /\ app'.after = after /\ conf' = conf
      BY <2>2, <3>1 DEF WindowCloses, prefixVars
    <3> QED BY <3>2, <3>3 DEF MayMerge, Requested
  <2>3. ASSUME app.pc \in {"looking", "calling", "stopping", "locking", "merging"}, conf' = conf,
               app'.before = app.before, app'.after = app.after
        PROVE  MayMerge(conf)'
    BY <1>2, <1>4, <2>3 DEF MayMerge, Requested
  <2>4. CASE Looks
    <3>1. PICK active \in BOOLEAN, to \in {"calling", "locking"} :
             app' = [app EXCEPT !.active = active, !.pc = to]
      BY <2>4 DEF Looks, OwnsService
    <3> QED BY <2>3, <2>4, <3>1 DEF Looks, prefixVars
  <2>5. CASE Stops \/ Stopped \/ Locks
    BY <2>3, <2>5 DEF Stops, Stopped, Locks, Goes, prefixVars
  <2>6. ~(\E end \in Ends : app' = Closing(end))
    BY <1>4 DEF Closing
  <2>7. ~(\E to \in Places \ {"looking", "calling", "stopping", "locking", "merging"} : app'.pc = to)
    BY <1>4
  <2>8. CASE WindowFails \/ StopFails \/ LockFails \/ UndoFails \/ EnableFails \/ Killed
             \/ UndoEndsStarting \/ UndoStartFails \/ Enables
    BY <2>6, <2>8 DEF WindowFails, StopFails, LockFails, UndoFails, EnableFails, Killed,
       UndoEndsStarting, UndoStartFails, Enables, Closed, Ends
  <2>9. CASE Open \/ Merges \/ Unlocks \/ Undoes
    BY <2>7, <2>9 DEF Open, Merges, Unlocks, Undoes, Places
  <2>10. CASE FileFails \/ StartFails \/ WaitFails \/ WaitTooShort \/ Relocks \/ Writes \/ Restores
             \/ Starts \/ Connects \/ UndoStopped
    BY <2>7, <2>10 DEF FileFails, StartFails, WaitFails, WaitTooShort, Relocks, Writes, Restores,
       Starts, Connects, UndoStopped, Goes, Places
  <2>11. CASE UndoUnlocks
    BY <2>6, <2>7, <2>11 DEF UndoUnlocks, Closed, Places, Ends
  <2>12. CASE SwitchesPreference
    BY <2>1, <2>12 DEF SwitchesPreference
  <2> QED BY <2>2, <2>4, <2>5, <2>8, <2>9, <2>10, <2>11, <2>12 DEF SettingsStep
<1> QED BY <1>1, <1>2, <1>3, <1>4

\* A step of main() that nobody crosses leads to the next place on its way.
LEMMA SettingsStraight ==
    ASSUME EngineTypeOK, RunningOK, UndisturbedOK, SettingsRun
    PROVE  Straight'
<1> USE DEF EngineTypeOK, PrefixTypeOK, SettingsTypeOK
<1>1. SettingsStep
  BY DEF SettingsRun
<1>2. wrap'["manual"] = wrap["manual"]
  BY <1>1, SettingsEffects DEF SettingsEffect, StartUnit, StopUnit, Terminated, Wrappers
<1>3. ~crossed' => ~crossed /\ wrap["manual"] = "none"
  BY DEF SettingsRun
<1>4. ASSUME Steady', ~crossed', app'.active
      PROVE  /\ app'.pc \in {"closed", "calling", "stopping", "locking", "merging", "writing", "unlocking",
                            "starting", "waiting", "enabling"}
             /\ app'.pc = "stopping" => unit' \in {"stopping", "inactive"}
             /\ app'.pc \in {"locking", "merging", "writing", "unlocking", "starting"} => unit' = "inactive"
             /\ app'.pc = "waiting" => OnItsWay'
  <2>1. Steady /\ ~Fails /\ ~SwitchesPreference
    <3>1. Steady
      BY <1>1, <1>4, CountsGrow DEF Steady
    <3>2. ~Fails /\ ~SwitchesPreference
      BY <1>4, <3>1, BoundAssumption DEF Steady, Fails, SwitchesPreference
    <3> QED BY <3>1, <3>2
  <2>2. wrap["manual"] = "none" /\ lock # "manual"
    BY <1>3, <1>4 DEF UndisturbedOK, LockUsed, Wrappers
  <2>3. app.active =>
          /\ app.pc \in {"closed", "calling", "stopping", "locking", "merging", "writing", "unlocking",
                        "starting", "waiting", "enabling"}
          /\ app.pc = "stopping" => unit \in {"stopping", "inactive"}
          /\ app.pc \in {"locking", "merging", "writing", "unlocking", "starting"} => unit = "inactive"
          /\ app.pc = "waiting" => OnItsWay
    BY <1>3, <1>4, <2>1 DEF UndisturbedOK, Straight
  <2>4. unit = "inactive" => wrap["service"] = "none" /\ lock # "service"
    BY DEF RunningOK, PrefixOK, UnitKnown, UndisturbedOK, LockUsed, Wrappers
  <2>5. CASE app'.pc = "closed"
    BY <2>5
  <2>6. CASE \E end \in Ends : app' = Closing(end)
    BY <2>5, <2>6 DEF Closing
  <2>7. CASE WindowFails \/ LockFails \/ UndoEndsStarting \/ Enables
    BY <2>6, <2>7 DEF WindowFails, LockFails, UndoEndsStarting, UndoStartFails, Enables, Closed, Ends
  <2>8. CASE Open
    <3>1. PICK copy \in Configs :
             app' = [app EXCEPT !.pc = "open", !.end = "", !.active = FALSE, !.before = copy]
      BY <2>8, CopyTyped DEF Open
    <3> QED BY <1>4, <3>1
  <2>9. ASSUME NEW after \in Configs, WindowCloses(after) PROVE app'.pc = "closed"
    <3>1. app.pc = "open"
      BY <2>9 DEF WindowCloses
    <3>2. CASE app' = Closing("unchanged")
      BY <3>2 DEF Closing
    <3>3. CASE app' = [app EXCEPT !.after = after, !.current = conf, !.pc = "looking"]
      <4>1. app'.active = app.active
        BY <3>3
      <4> QED BY <1>4, <2>3, <3>1, <4>1
    <3> QED BY <2>9, <3>2, <3>3 DEF WindowCloses
  <2>10. CASE Looks
    <3>1. CASE unit = "active" /\ OwnsService
      <4>1. app' = [app EXCEPT !.active = TRUE, !.pc = "calling"]
        BY <2>10, <3>1 DEF Looks
      <4> QED BY <4>1
    <3>2. CASE ~(unit = "active" /\ OwnsService)
      <4>1. app' = [app EXCEPT !.active = FALSE, !.pc = "locking"]
        BY <2>10, <3>2 DEF Looks
      <4> QED BY <1>4, <4>1
    <3> QED BY <3>1, <3>2
  <2>11. CASE Stops \/ Stopped \/ UndoStopped
    BY <1>4, <2>3, <2>11 DEF Stops, StopUnit, Stopped, UndoStopped, Goes, prefixVars, runVars
  <2>12. CASE Locks \/ Writes \/ Relocks \/ Restores
    BY <1>4, <2>3, <2>12 DEF Locks, Writes, Relocks, Restores, Goes, runVars
  <2>13. CASE Merges
    <3>1. MayMerge(conf)
      BY <2>1, <2>13 DEF UndisturbedOK, EnginesAgree, Merges
    <3>2. /\ app' = [app EXCEPT !.current = conf, !.reread = TRUE, !.pc = "writing"]
          /\ unit' = unit /\ app.pc = "merging"
      BY <2>13, <3>1 DEF Merges, Reread, prefixVars, runVars
    <3> QED BY <1>4, <2>3, <3>2
  <2>14. CASE Unlocks
    BY <1>4, <2>3, <2>14 DEF Unlocks
  <2>15. CASE Starts
    <3>1. app.active /\ app.pc = "starting" /\ app' = [app EXCEPT !.pc = "waiting"]
      BY <1>4, <2>15 DEF Starts, Goes
    <3>2. lock = Free
      BY <2>2, <2>3, <2>4, <3>1 DEF UndisturbedOK, LockUsed, Wrappers
    <3>3. unit' = "active" /\ wrap'["service"] = "starting" /\ lock' = Free
      BY <2>3, <2>15, <3>1, <3>2 DEF Starts, StartUnit, Wrappers
    <3> QED BY <3>1, <3>3 DEF OnItsWay
  <2>16. CASE Connects
    BY <2>16 DEF Connects, Goes
  <2>17. ~WaitFails
    BY <1>4, <2>3 DEF WaitFails, Goes
  <2>18. ~(Undoes \/ UndoUnlocks \/ UndoFails)
    <3>1. app.pc \in {"undoing", "undoUnlocking", "undoStopping", "restoring", "relocking"} =>
             ~app.active
      BY <2>3
    <3>2. ~Undoes
      BY <1>4, <3>1 DEF Undoes
    <3>3. UndoUnlocks \/ UndoFails => app'.active = app.active
      BY DEF UndoUnlocks, UndoFails, Closed, Closing
    <3> QED BY <1>4, <3>1, <3>2, <3>3 DEF UndoUnlocks, UndoFails
  <2>19. ~(StopFails \/ FileFails \/ StartFails \/ WaitTooShort \/ UndoStartFails \/ EnableFails \/ Killed)
    BY <2>1 DEF StopFails, FileFails, StartFails, WaitTooShort, UndoStartFails, EnableFails, Killed
  <2> QED BY <1>1, <2>1, <2>5, <2>7, <2>8, <2>9, <2>10, <2>11, <2>12, <2>13, <2>14, <2>15, <2>16,
             <2>17, <2>18, <2>19 DEF SettingsStep
<1> QED BY <1>2, <1>3, <1>4 DEF Straight

LEMMA UndisturbedStep ==
    EngineTypeOK /\ RunningOK /\ UndisturbedOK /\ [Next]_vars => UndisturbedOK'
<1> SUFFICES ASSUME EngineTypeOK, RunningOK, UndisturbedOK, [Next]_vars PROVE UndisturbedOK'
  OBVIOUS
<1>1. CASE UserStarts \/ UserStops
  <2>1. LockUsed'
    <3>1. \A w \in Wrappers : lock' = w => wrap'[w] \in {"locked", "up", "ending"}
      BY <1>1, UnitLockUsed DEF UserStarts, UserStops
    <3>2. UNCHANGED <<lock, app>>
      BY <1>1 DEF UserStarts, UserStops, appVars
    <3> QED BY <3>1, <3>2 DEF UndisturbedOK, LockUsed
  <2>2. EnginesAgree'
    BY <1>1 DEF UserStarts, UserStops, appVars, UndisturbedOK, EnginesAgree, Steady, MayMerge, Requested
  <2>3. Straight'
    <3>1. UNCHANGED <<app, faults, changes>> /\ crossed' = (crossed \/ AtWork)
      BY <1>1 DEF UserStarts, UserStops, appVars
    <3>2. AtWork => crossed'
      BY <3>1
    <3>3. ~AtWork => crossed' = crossed
      BY <3>1 DEF EngineTypeOK
    <3> QED BY <3>1, <3>2, <3>3 DEF UndisturbedOK, Straight, Steady, AtWork
  <2> QED BY <2>1, <2>2, <2>3 DEF UndisturbedOK
<1>2. CASE EngineRuns
  BY <1>2, PrefixUndisturbed
<1>3. CASE InstallerRuns \/ UNCHANGED vars
  BY <1>3 DEF InstallerRuns, vars, prefixVars, runVars, appVars, UndisturbedOK, LockUsed, EnginesAgree,
              Straight, Steady, AtWork, MayMerge, Requested, OnItsWay
<1>4. CASE SettingsRun
  BY <1>4, SettingsLockUsed, SettingsAgree, SettingsStraight DEF SettingsRun, UndisturbedOK
<1> QED BY <1>1, <1>2, <1>3, <1>4 DEF Next

LEMMA UndisturbedInvariant == Spec => []UndisturbedOK
  BY UndisturbedInit, UndisturbedStep, EngineTypeInvariant, RunningInvariant, PTL DEF Spec

\* While nothing fails and nobody interferes, new settings for a service that was running are
\* applied: stopping, locking, writing, starting and waiting all succeed.
THEOREM UndisturbedSucceeds == Spec => SucceedsUndisturbed
<1>1. EngineTypeOK /\ RunningOK /\ UndisturbedOK /\ [Next]_vars =>
        [Finishes /\ app.active /\ ~crossed /\ faults' = 0 /\ changes = 0 => app'.end = "applied"]_vars
  <2> SUFFICES ASSUME EngineTypeOK, RunningOK, UndisturbedOK, [Next]_vars,
                      Finishes, app.active, ~crossed, faults' = 0, changes = 0
               PROVE  app'.end = "applied"
    OBVIOUS
  <2> USE DEF EngineTypeOK, PrefixTypeOK, SettingsTypeOK, Finishes
  <2>1. SettingsStep
    BY DEF Next, vars, UserStarts, UserStops, EngineRuns, InstallerRuns, SettingsRun, appVars
  <2>2. Steady /\ ~Fails
    BY <2>1, CountsGrow, BoundAssumption DEF Steady, Fails
  <2>3. /\ app.pc \in {"calling", "stopping", "locking", "merging", "writing", "unlocking", "starting", "waiting",
                       "enabling"}
        /\ app.pc = "locking" => unit = "inactive"
        /\ wrap["manual"] = "none"
    BY <2>2 DEF UndisturbedOK, Straight, AtWork
  <2>4. CASE Enables
    BY <2>4 DEF Enables, Closed, Closing
  <2>5. ~LockFails
    BY <2>3 DEF LockFails, MayLock, UndisturbedOK, LockUsed, RunningOK, PrefixOK, UnitKnown, Wrappers
  <2>6. ~(StopFails \/ UndoStartFails \/ EnableFails \/ Killed)
    BY <2>2 DEF StopFails, UndoStartFails, EnableFails, Killed
  <2>7. ~(WindowFails \/ UndoFails \/ UndoEndsStarting \/ UndoUnlocks)
        /\ \A after \in Configs : ~WindowCloses(after)
    BY <2>3 DEF WindowFails, UndoFails, UndoEndsStarting, UndoUnlocks, WindowCloses
  <2> QED
    BY <2>1, <2>4, <2>5, <2>6, <2>7
       DEF SettingsStep, Open, Looks, Stops, Stopped, Locks, Merges, FileFails, Writes, Unlocks,
           Starts, StartFails, Connects, WaitFails, WaitTooShort, Undoes, UndoStopped, Relocks,
           Restores, SwitchesPreference, Goes
<1> QED BY <1>1, EngineTypeInvariant, RunningInvariant, UndisturbedInvariant, PTL
        DEF Spec, SucceedsUndisturbed
=============================================================================
