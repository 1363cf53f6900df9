--------------------------- MODULE PrefixService ----------------------------
(***************************************************************************)
(* Who runs the keyboard engine in its Wine prefix: the wrapper            *)
(* scripts/headless.py, started by the systemd user unit that              *)
(* scripts/install.py writes, or by hand.  A wrapper takes a file lock for *)
(* as long as it lives; the engine itself knows nothing of that lock.      *)
(*                                                                         *)
(*   lock     who holds wineprefix.lock: a wrapper, "settings" or Free     *)
(*   unit     the systemd unit; "restarting" waits for RestartSec          *)
(*   wrap     each wrapper: "none", "starting" (before the lock), "locked" *)
(*            (private X server), "up" (its child runs), "ending" (finally)*)
(*   broker   the child of each wrapper, bridge/keyboard_broker.py: "none",*)
(*            "starting" (its engine runs) or "listening" at the socket    *)
(*   engine   the configuration the engine of a wrapper has in memory      *)
(*   conf     the configuration file of the prefix                         *)
(*   changes, faults   how often an engine changed a setting, what failed  *)
(*   fresh    history: settings an engine changed or saved since the       *)
(*            settings program took the lock to write the file             *)
(*   left     wrappers that ended before their child or its engine, for as *)
(*            long as something of them may still run                      *)
(*                                                                         *)
(* The engine is not in the repository: that it loads the file once, keeps *)
(* it and saves all of it is what docs/voice.md and bridge/settings.py     *)
(* ("after the engine has saved and stopped") say of it.                   *)
(***************************************************************************)
EXTENDS Naturals

CONSTANTS Keys,          \* the settings of the engine
          Values,        \* what a setting may be
          Smart,         \* the setting for smart text organization, a boolean
          Off, On,       \* the two values of Smart
          NoConfig,      \* no engine
          MaxChanges, MaxFaults

Configs == {c \in [Keys -> Values] : c[Smart] \in {Off, On}}

ASSUME ConfigAssumption ==
    /\ Smart \in Keys /\ {Off, On} \subseteq Values /\ Off # On /\ NoConfig \notin Configs
ASSUME BoundAssumption == MaxChanges \in Nat /\ MaxFaults \in Nat

VARIABLES lock, unit, wrap, broker, engine, conf, changes, faults, fresh, left
runVars    == <<lock, unit, wrap, broker, engine>>
prefixVars == <<runVars, conf, changes, faults, fresh, left>>

Wrappers == {"service", "manual"}
Free     == "free"

PrefixTypeOK ==
    /\ lock \in Wrappers \cup {"settings", Free}
    /\ unit \in {"inactive", "active", "stopping", "restarting"}
    /\ wrap \in [Wrappers -> {"none", "starting", "locked", "up", "ending"}]
    /\ broker \in [Wrappers -> {"none", "starting", "listening"}]
    /\ engine \in [Wrappers -> Configs \cup {NoConfig}]
    /\ conf \in Configs
    /\ changes \in 0..MaxChanges /\ faults \in 0..MaxFaults
    /\ fresh \subseteq Keys /\ left \subseteq Wrappers

PrefixInit ==
    /\ lock = Free /\ unit = "inactive" /\ wrap = [w \in Wrappers |-> "none"]
    /\ broker = [w \in Wrappers |-> "none"] /\ engine = [w \in Wrappers |-> NoConfig]
    /\ conf = [k \in Keys |-> Off]
    /\ changes = 0 /\ faults = 0 /\ fresh = {} /\ left = {}

Fails == faults < MaxFaults /\ faults' = faults + 1

Differing(c, d) == {k \in Keys : c[k] # d[k]}

-----------------------------------------------------------------------------
(* The unit: Type=simple, Restart=on-failure, KillMode=mixed. *)

\* systemctl start: returns once the wrapper is spawned, whatever becomes of it.
StartUnit ==
    IF unit \in {"inactive", "restarting"}
    THEN unit' = "active" /\ wrap' = [wrap EXCEPT !["service"] = "starting"]
    ELSE UNCHANGED <<unit, wrap>>

\* systemctl stop: SIGTERM to the wrapper; it returns when unit is "inactive".
Terminated(w) ==
    CASE wrap[w] = "starting" -> [wrap EXCEPT ![w] = "none"]
      [] wrap[w] \in {"locked", "up"} -> [wrap EXCEPT ![w] = "ending"]
      [] OTHER -> wrap

StopUnit ==
    /\ unit' = CASE unit = "active" -> "stopping" [] unit = "restarting" -> "inactive"
                 [] OTHER -> unit
    /\ wrap' = IF unit = "active" THEN Terminated("service") ELSE wrap

\* Nothing of a wrapper runs any more.
Ended(w) ==
    /\ broker' = [broker EXCEPT ![w] = "none"] /\ engine' = [engine EXCEPT ![w] = NoConfig]
    /\ left' = left \ {w}

\* The wrapper is gone: what it left in the unit is killed, then the unit is restarted
\* unless it was stopped.
UnitEnds ==
    /\ unit \in {"active", "stopping"} /\ wrap["service"] = "none"
    /\ Ended("service") /\ unit' = IF unit = "stopping" THEN "inactive" ELSE "restarting"
    /\ UNCHANGED <<lock, wrap, conf, changes, faults, fresh>>

UnitRestarts ==
    /\ unit = "restarting" /\ StartUnit
    /\ UNCHANGED <<lock, broker, engine, conf, changes, faults, fresh, left>>

-----------------------------------------------------------------------------
(* headless.py *)

\* Bound: one wrapper by hand at a time, what a killed one left included.
StartByHand ==
    /\ wrap["manual"] = "none" /\ "manual" \notin left
    /\ wrap' = [wrap EXCEPT !["manual"] = "starting"]
    /\ UNCHANGED <<lock, unit, broker, engine, conf, changes, faults, fresh, left>>

StopByHand ==
    /\ wrap["manual"] \in {"starting", "locked", "up"} /\ wrap' = Terminated("manual")
    /\ UNCHANGED <<lock, unit, broker, engine, conf, changes, faults, fresh, left>>

\* flock(LOCK_EX | LOCK_NB)
CanLock == lock = Free

TakeLock(w) ==
    /\ wrap[w] = "starting" /\ CanLock
    /\ lock' = w /\ wrap' = [wrap EXCEPT ![w] = "locked"]
    /\ UNCHANGED <<unit, broker, engine, conf, changes, faults, fresh, left>>

\* "Wine prefix already in use": the wrapper ends with an error.
LockRefused(w) ==
    /\ wrap[w] = "starting" /\ ~CanLock
    /\ wrap' = [wrap EXCEPT ![w] = "none"]
    /\ UNCHANGED <<lock, unit, broker, engine, conf, changes, faults, fresh, left>>

\* The child runs once the private X server has answered; its engine reads the file.
ChildStarts(w) ==
    /\ wrap[w] = "locked"
    /\ wrap' = [wrap EXCEPT ![w] = "up"]
    /\ broker' = [broker EXCEPT ![w] = "starting"] /\ engine' = [engine EXCEPT ![w] = conf]
    /\ UNCHANGED <<lock, unit, conf, changes, faults, fresh, left>>

\* No X server within 10 s, or the child ends by itself.
ChildEnds(w) ==
    /\ wrap[w] \in {"locked", "up"} /\ Fails
    /\ wrap' = [wrap EXCEPT ![w] = "ending"] /\ broker' = [broker EXCEPT ![w] = "none"]
    /\ UNCHANGED <<lock, unit, engine, conf, changes, fresh, left>>

\* finally: the child, then every program of the prefix (wineserver -k, -w), an engine
\* somebody else left there included, and the X server are ended; the lock goes with the
\* process.
CleanUp(w) ==
    /\ wrap[w] = "ending"
    /\ wrap' = [wrap EXCEPT ![w] = "none"] /\ broker' = [broker EXCEPT ![w] = "none"]
    /\ engine' = [v \in Wrappers |-> NoConfig]
    /\ lock' = Free
    /\ UNCHANGED <<unit, conf, changes, faults, fresh, left>>

\* wineserver takes more than 10 s: the lock is free although the engine may still run.
CleanUpFails(w) ==
    /\ wrap[w] = "ending" /\ Fails
    /\ wrap' = [wrap EXCEPT ![w] = "none"] /\ broker' = [broker EXCEPT ![w] = "none"]
    /\ lock' = Free /\ left' = left \cup {w}
    /\ UNCHANGED <<unit, engine, conf, changes, fresh>>

\* The wrapper is killed: the lock is free and its child goes on.
Abandon(w) ==
    /\ wrap[w] \in {"locked", "up", "ending"} /\ Fails
    /\ wrap' = [wrap EXCEPT ![w] = "none"] /\ lock' = Free /\ left' = left \cup {w}
    /\ UNCHANGED <<unit, broker, engine, conf, changes, fresh>>

\* What a wrapper started by hand has left ends by itself or is found and ended.
EndLeftover ==
    /\ "manual" \in left /\ Ended("manual")
    /\ UNCHANGED <<lock, unit, wrap, conf, changes, faults, fresh>>

-----------------------------------------------------------------------------
(* The child: keyboard_broker.py *)

\* Somebody accepts connections at the keyboard's socket.
Listening == \E w \in Wrappers : broker[w] = "listening"

\* The engine is ready and nobody answers at the socket: a file there is a stale one.
Listens(w) ==
    /\ broker[w] = "starting" /\ engine[w] # NoConfig /\ ~Listening
    /\ broker' = [broker EXCEPT ![w] = "listening"]
    /\ UNCHANGED <<lock, unit, wrap, engine, conf, changes, faults, fresh, left>>

\* "Keyboard socket already owned by another service", or the engine was ended by the
\* wineserver of another wrapper, which a broker that listens finds out at the next key:
\* the child ends, and its wrapper cleans up.
MustEnd(w) ==
    IF broker[w] = "starting" THEN Listening \/ engine[w] = NoConfig
    ELSE broker[w] = "listening" /\ engine[w] = NoConfig

BrokerEnds(w) ==
    /\ MustEnd(w) /\ broker' = [broker EXCEPT ![w] = "none"]
    /\ wrap' = IF wrap[w] = "up" THEN [wrap EXCEPT ![w] = "ending"] ELSE wrap
    /\ UNCHANGED <<lock, unit, engine, conf, changes, faults, fresh, left>>

-----------------------------------------------------------------------------
(* The engine *)

EngineChanges(w) ==
    /\ engine[w] # NoConfig /\ changes < MaxChanges /\ changes' = changes + 1
    /\ \E k \in Keys \ {Smart}, v \in Values :
          /\ v # engine[w][k] /\ engine' = [engine EXCEPT ![w][k] = v]
          /\ fresh' = fresh \cup {k}
    /\ UNCHANGED <<lock, unit, wrap, broker, conf, faults, left>>

EngineSaves(w) ==
    /\ engine[w] \notin {NoConfig, conf}
    /\ conf' = engine[w] /\ fresh' = fresh \cup Differing(conf, engine[w])
    /\ UNCHANGED <<runVars, changes, faults, left>>

WrapperStep(w) ==
    \/ TakeLock(w) \/ LockRefused(w) \/ ChildStarts(w) \/ ChildEnds(w) \/ CleanUp(w)
    \/ CleanUpFails(w) \/ Abandon(w) \/ Listens(w) \/ BrokerEnds(w)
    \/ EngineChanges(w) \/ EngineSaves(w)

PrefixStep ==
    \/ UnitEnds \/ UnitRestarts \/ StartByHand \/ StopByHand \/ EndLeftover
    \/ \E w \in Wrappers : WrapperStep(w)
=============================================================================
