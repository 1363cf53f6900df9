# A TLA+ model of doubao-ime-linux

doubao-ime-linux runs the official Doubao input method for Windows under Wine and
connects it to Fcitx 5 on Linux. This directory holds TLA+ modules of the parts of it
that have state and run beside each other, TLC configurations that check them on small
instances, and proofs, checked by TLAPS, of what matters most for every instance.
Source paths below are those of the repository.

## 1. The system

| Part | Source | State it keeps | Operations |
|---|---|---|---|
| Dictation addon | `fcitx5/voice.cpp` | the one pending `Delivery` (ticket, sender, field, expiry, preview flag); the hotkey state | key, focus, reset, capability and destroy events; `Begin`, `BeginForContext`, `Valid`, `Cancel`, `Preview`, `Commit`; owner watch; options |
| Voice coordinator | `bridge/daemon.py` | phase, token, generation, hold generation, session, time of the phase, last outcome | `Command`, `Status`; `Shortcut` and `Invalidated` signals; session events; 250 ms tick; SIGTERM |
| Recording session | `bridge/audio.py` | stop and cancel flags, capture process, audio queue, provider results | `run`, `reader`, `receive`, `send`, `finish`; cancellation; organizing |
| Organizer | `bridge/organize.py` | the helper process, its output, cancel flag | `organize`, `finish`, `close`, `parse_sse` |
| Local cleanup | `bridge/cleanup.py` | none | text in, text out |
| Keyboard frontend | `fcitx5/keyboard.cpp` | target field, candidates, their generation, broker socket | key events, candidate choice, activate, deactivate, reset |
| Keyboard broker | `bridge/keyboard_broker.py` | the engine process, its selector | accepts a frontend, forwards one command at a time |
| Wine RPC host | `bridge/keyboard_host.c` | the engine's composition | `F`, `R`, `K`, `S` commands |
| Settings | `bridge/settings.py`, `bridge/settings_launcher.cs` | configuration file of the engine, preference, service state, prefix lock | open a copy, merge, stop, write, start, roll back, enable |
| Wine prefix | `scripts/headless.py`, `bridge/runtime.py`, the unit of `scripts/install.py` | lock file, private X server, child, wineserver; systemd's state of the unit | acquire, run, clean up, restart |
| Installer | `scripts/install.py` | installed files and their manifest | apply with rollback, remove, look at the services |
| Others | `scripts/*.py`, `bridge/organize_*.c` | none that outlives a call | download, check, build, diagnose |

How they interact. The addon runs on Fcitx's event loop and the coordinator on a GLib
loop of its own; they speak over the D-Bus session bus. A shortcut travels as a signal;
the coordinator answers it with a synchronous call that opens a dictation, and keeps a
ticket. A recording thread posts events to the coordinator's loop through
`GLib.idle_add`. While the coordinator waits for the addon (up to 1500 ms) nothing else
runs on its loop, but the addon, the user and the recording thread go on. The keyboard
path is a chain of synchronous requests over a socket and two pipes. Settings stop the
keyboard service to take the prefix lock, and start it again.

What is hard. Who is right when a key press, a change of focus and a `Commit` call cross
each other; a call that timed out and is served later; a coordinator or Fcitx that
restarts in the middle; a release of the hotkey that races the start it belongs to;
events of a session that is over; a helper program that cannot be started; phases that
nothing but a timer ends. The hazards are listed line by line in `PROJECT.json`.

What makes each part correct:

- addon: a ticket is a single-use right to enter text in one field, and ends when the
  field is disturbed (`docs/voice.md`: a commit permit binds the calling process and the
  field and is used once); a preview leaves with its ticket.
- coordinator: every session finds its way back to idle; a held recording ends with the
  key; what it reports is what happened; a dictation starts in the field it was asked in.
- recording session: the microphone is closed before the outcome is reported, whatever
  the flags and failures; only an acknowledged text is an outcome.
- organizer: only a stream in the right order yields text; cancel wins.
- keyboard: an answer belongs to the request it answers; a candidate is chosen from the
  list on the screen.
- settings: the engine never runs while its files are changed; a failure leaves the
  former configuration and the service as it was.
- installer: nothing foreign is overwritten or removed.

## 2. Modules

| Module | What it is |
|---|---|
| `VoiceBus` | the bus between addon and coordinator: calls in order, the one awaited answer, signals in order, process names, faults |
| `DictationAddon` | `fcitx5/voice.cpp` |
| `RecordingSession` | what `bridge/audio.py` shows the coordinator |
| `VoiceBridge` | class `Bridge` of `bridge/daemon.py` |
| `VoiceSystem` | the three composed, fairness, and the properties |
| `DeliveryGrant` | the abstract single-use grant the addon implements |
| `AudioSession` | `bridge/audio.py` from inside, shown to implement `RecordingSession` |
| `KeyboardSocket` | the socket between keyboard frontend and broker: backlog, one command, one answer |
| `KeyboardFrontend` | `fcitx5/keyboard.cpp` |
| `KeyboardBroker` | `bridge/keyboard_broker.py`, `bridge/keyboard_host.c` and the engine behind them |
| `KeyboardSystem` | frontend and broker composed, and the properties |
| `Organizer` | `bridge/organize.py`: the helper process, its output, `parse_sse()` |
| `Transcript` | `run_with_organizer()` of `bridge/audio.py` around it: which text a dictation ends with |
| `PrefixService` | the wrapper `scripts/headless.py`, the systemd unit around it, the engine in it |
| `Installer` | `scripts/install.py` and a person who changes files meanwhile |
| `SettingsApply` | `bridge/settings.py` from the copy of the configuration to the end of `main()` |
| `Deployment` | the last three composed with the person who uses them, and the properties |
| `MCVoice`, `MCAudio`, `MCKeyboard`, `MCTranscript`, `MCDeployment` | instances for TLC |
| `VoiceTypeProofs`, `DeliveryGrantProofs`, `VoiceProofs`, `VoiceSafetyProofs`, `AudioProofs`, `KeyboardProofs`, `TranscriptProofs`, `DeploymentProofs` | theorems |

`VoiceSystem` extends addon, bridge, session and bus; `KeyboardSystem` extends frontend,
broker and socket; `Deployment` extends `SettingsApply`, which extends `PrefixService` and
`Installer`; `Transcript` extends `Organizer`. `AudioSession` refers to `RecordingSession`,
and `VoiceSystem` to `DeliveryGrant`, by a refinement mapping.

### How state and steps correspond

`DictationAddon`. `pending` is `pending` of the class with `preview` and the comparison
of the clock with `expires` (`expired`, set by the clock at any time: 180 s are never
counted). `hot` holds `altDown`, `holdStarted`, `chordUsed`, `spaceDown`, `hotkeyField`
and whether the hold timer is armed. Tickets are random in the code; here they are
numbered as they are drawn and `MaxTickets` is where `getrandom` fails. Each key or field
event and each D-Bus method is one action: Fcitx runs them on one thread. A key press is
one step through `hotkey()` and the key branch of `observe()`; what it does to the input
method engine behind is not in the source, so a key that reaches the engine leaves its
composition empty or not (`panel`). Organized text, newlines and UTF-8 are reduced to
what `safeText` tells apart: `""`, a safe text, an unsafe one. `issued`, `spoiled` and
`written` are history: the field a ticket was begun in, whether that field was disturbed
since, what was delivered where. Nothing in the addon reads them.

`VoiceBridge`. One action per dispatched handler, split where the code blocks in
`fcitx()`: the first half sends the call and sets `wait`, the second (`...Answered`)
continues with `reply`. All other steps of the loop need `wait.for = ""`. A timeout
(`CallTimeout`) answers `"error"` and leaves the call on its way. `overdue` stands for
the comparison of the monotonic clock with the limit of the phase; it may become true at
any time and is cleared when the phase changes. Reasons for a cancel are two: those the
user gets a notification about and those he does not. `NotifyWorks` says whether
`notify-send` can be started; when it cannot, each handler ends at the line that raises.
`Exit` is both the end of a shutdown and a crash: the capture process and the session end
with the process, the bus tells the addon after the last call of that process.

`RecordingSession`. `rec` is `self.session` with its two flags, the capture process
and the outcome; `events` are the callbacks in `GLib.idle_add`. It is the contract the
coordinator is checked against, deliberately more permissive than `audio.py`: a recording
may fail at any moment and, when stopped and not cancelled, may end with any text. What
is kept is the order: the microphone is opened only when no flag is set, the outcome is
decided by a last look at the flags, the capture process is reaped before `done` is
posted.

`AudioSession` is the code behind that contract. `main` is the place of `run()` between
two awaits, `feed` and `reader` are its two tasks; they take turns at awaits, while the
flags are set from the coordinator's thread at any time and both processes die when they
like. The loop of `run()` is `Top` (terminate the capture once stop is set), the drain of
the queue (`SendChunk`, `SendFinish`, `SendFails`), `Last` (a capture that ended by itself)
and the exits to `ending` and `reap`; whatever raises goes to `reap`, the finally clause.
Chunks are numbered, so that `sent` says what the provider got and in which order. What
the provider writes is not constrained: any line may be read at any time. `Outline` maps
this state to `rec`: a session that is past its last look at `cancel` is "decided".

`KeyboardFrontend`. `target` is `target_`, `paging` is `pagingKeys_` reduced to one
physical key, `panel` is what a field shows, with `current` for the comparison of
`generation_`. Each event of Fcitx that needs the engine sends its request and sets
`call`; the event loop is blocked in `request()` (`Idle` guards every user step) until
`Answered` or `TimesOut`. `call.for` tells what the handler does with the answer: a first
key sends `F` and then its `K`. Letters are numbered by press, so a text is a sequence of
numbers that says where each letter came from; other keys are the kinds the handler tells
apart. `owner`, `entered` and `paged` are history, and so are `field` and `seen` of a
request. Which fields hide passwords is a constant (`Secret`), because Fcitx activates an
input method anew when that changes.

`KeyboardBroker`. `broker` is the place in the main loop: a command is accepted, is at the
host, its answer is sent back, and if the frontend has hung up the engine is cleared with
`R`. A connection whose frontend gave up stays in the backlog and is executed all the
same. A host that is silent for a second, a signal and a crash all end the process
(`Dies`); systemd starts it with a new host (`Starts`). The official engine is not in the
repository: what it may do with a key is modelled from how `keyboard_host.c` uses it and
from `docs/keyboard-abi.md`, as a choice among all results the code distinguishes. The
host's walk along the list (arrow keys, Space) and its limit are the code's.

`Organizer` and `Transcript`. `helper` is the process from `start()` to `close()`; whether it
still runs is nothing the code asks before `close()`, so it is not in the state. `_read()`
sets `ready`, `http_status` and `raw` line by line, but `finish()` looks at them only when
the task has ended: the model sets them in one step, `ReadEnds`, to anything. `stream` is
the event stream as blocks, `parsed` the variables of `parse_sse()`: its loop is taken one
block a step (`ParseBlock`) until no block is left or one is out of order, and `ParseSse` is
what it then returns or raises. `place` in `Transcript` is the place between two awaits of
`run_with_organizer()` and `finish()`; `Asks` is the check and the write of the text, with
either outcome, `SeesCancel`, `TimesOut` and `ReadsAnswer` are the three ways out of the
wait. `run()` itself is `AudioSession`; here it ends with a text, an unsafe text, none, or
raises. The local rules (`cleanup.py`) are an input, `cleanup`: off, without effect on this
text, or changing it; `MayLose` lets `preservation_error()` refuse any answer. `set` and
`answer` are history.

`PrefixService`. `wrap` is the place of one run of `headless.py`: before the lock, with the
lock and a private X server, with its child, in its finally clause. `unit` is systemd's
view: `StopUnit` sends SIGTERM, `UnitEnds` is `KillMode=mixed` ending what the wrapper left,
`UnitRestarts` is `Restart=on-failure` after `RestartSec`. A second wrapper, `"manual"`, is
one the person starts by hand. The engine is not in the repository: that it reads the
configuration once, keeps it and writes all of it back is what `settings.py` ("after the
engine has saved and stopped") and `docs/voice.md` say. `broker` is the child of each wrapper,
`keyboard_broker.py`, as far as it decides who answers at the socket: a broker whose engine is
ready listens unless somebody does already (`Listens`); otherwise it ends (`BrokerEnds`) and
its wrapper cleans up. `Abandon` is a wrapper that is killed: the lock is free, its broker and
engine go on. `CleanUpFails` is one whose `wineserver` runs out of time: the broker is gone,
the engine may be left. `left` remembers both, until systemd or the person ends what is left.
`fresh` remembers which settings an engine changed since the settings program took the lock.

`SettingsApply`. `app.pc` is the place in `main()`; each step is one file access, one lock
operation or one call of `systemctl` that changes something (`Looks` is `owns_service()` and
`is-active`, which only look; `Stops` is the call that follows). `app.current` is the value the
code holds at that line, `app.reread` whether it comes from line 181 or still from line 168:
the rollback writes it back. The window and the official settings program are an input
(`WindowCloses(after)`). `wait_keyboard()` connects to the keyboard's socket, so it is content
with whoever listens there (`Serving`), a broker started by hand or left by a killed wrapper
included. `WaitFails` is its 30 s when nothing is on the way, `WaitTooShort` counts as a fault.
Every step may fail, the start of the rollback too, which the code does not check
(`UndoStartFails`), and the program may be killed at any place, at the price of a fault.

`Installer`. `file` says whose content is at each path, `inst.written` is the list the
rollback of `apply()` works from, `inst.todo` the rest of the loop. `Reserve` creates a path
and counts it; `ReserveInterrupted` is an interrupt between the two, after which the rollback
does not know the path. A person changes, creates or removes files between any two steps
(`Meddle`); `late` remembers those that changed after this call had looked at them, `orphans`
what a call that was killed or interrupted left.

`None` and `NoText` stand for the empty string of the code: no text, no reason, no key.

`VoiceBus`. Calls reach the addon in the order they were sent. GLib dispatches signals,
timers and idle callbacks by priority; the model lets it choose, so nothing rests on it.

Definitions named `...Faulty` are variants with a plausible bug, kept beside the
definition they distort. No specification uses them; they show which property notices.

## 3. Runs

Every run bounds: fields, tickets (dictations), coordinator processes, queued signals and
events, faults, and `Moves`, the kinds of steps the user takes. Each run takes the moves
its question needs; two dictations and two fields are enough for one to disturb the next,
and one or two queued signals let a press and a release be under way together. How many events
of a session wait matters only to the order they are taken in: `faults`, which asks about it,
lets two wait, the second of them after the coordinator has been blocked or has cancelled; the
other runs one.

| Run | Question | Properties |
|---|---|---|
| `hotkeys` | hold to talk and Alt+Space in one field, two dictations | `TypeOK`, `HoldEnds`, `WayBack`, `SilentWhenDone`, `ReportAgrees` |
| `focus` | the shortcuts while the user types, resets and moves between two fields, fields turn sensitive, options are reloaded, the ticket expires | `StartsWhereAsked`, `HoldEnds`, `NoStrayTicket`, `PreviewOwned`, `ReportAgrees`, `DeliversUndisturbed` |
| `faults` | two timeouts, restarts of Fcitx or calls of a stranger, and the death and restart of the coordinator, over two dictations with two events waiting | `PreviewOwned`, `WayBack`, `EventsInOrder` |
| `grants` | two tickets and two fields while the focus moves and two calls time out, are served late or come from a stranger, or Fcitx restarts | `DeliveredOnceWhereBegun`, `ImplementsGrant` |
| `liveness` | does every dictation end and the microphone close | `DictationEnds`, `MicCloses` |
| `audio` | one recording from inside, both flags, dying processes, sends that fail | `WholeRecording`, `NothingLeftBehind`, `ImplementsSession`, `BrokenSessionsEnd` |
| `transcript` | a dictation with and without the organizer over every stream of up to four blocks, cancelled at any step | `TextAccounted`, `CancelWins`, `AskedEnds` |
| `deployment` | new settings applied to a running, restarting or foreign engine, beside what killed wrappers left, with two faults; two files installed, edited and removed with a failure or crash at any step | `NothingOrphaned`, `WritesAlone`, `OthersKept`, `AppliedMeansEffective`, `StoppedForAReason`, `SucceedsUndisturbed`, `NothingForeignTouched` |
| `keyboard` | typing, choosing and paging in two plain fields and a password field, each request slow, lost or refused, one end of the broker | `KeyboardTypeOK`, `SecretsStay`, `EnteredOnce`, `PreeditOwned`, `ChosenWasShown`, `ChoiceReached`, `PageStays` |

`focus`, `faults` and `grants` divide the questions of voice input by what they need the most
of, so each goes without the rest. `focus` has everything the user can do to two fields, over
one dictation and without faults. `faults` has one field, where the user only starts, stops
and cancels, but two tickets and two processes of the coordinator: events of a session that
was cancelled, of one that ended and of one whose process died may still be under way when the
next session begins. `grants` has no previews and one process, but two fields and two tickets,
so that a `Commit` which is late can arrive after the ticket has passed to another delivery in
another field. In `focus` and `grants` the two fields are symmetric, and a constraint keeps
out what repeats: in `grants` the two tickets are begun in different fields and no phase exceeds
its limit, which is a question of `faults` (`Elsewhere`), in `focus` at most one field is sensitive and the options are reloaded while none is and before
the ticket expires (`OneByOne`). The theorems have neither.

The bounds of the last four. `audio`: two chunks against a queue of one, so that a
recording may fit, be drained, or overflow; a preview is held back while an event waits.
One safe text: segment and final then differ only while one of them is missing; an empty
text ends like an error line, which the provider may write at any time, and an unsafe one
only is not shown. `keyboard`: two letters are enough for one to be passed on while the
other is composed, and for a candidate that converts only the first; a backlog of two lets
a request wait behind one that was given up and refuses the third; three candidates make
two pages, one of them not full, and all lie within the two limits on an index, so that
`ChoiceReached` asks about every one; a third plain field would repeat the second.

`transcript`: a stream that is whole needs a delta, a final text and `[DONE]`; four blocks
add a second delta, or one block too many at any place. Of the ten kinds of block the run
takes six. Left out are a delta with neither content nor `no_rewrite`, which changes
nothing, one with both, which is like two deltas, and a final text that is neither safe nor
empty, which is refused where a bad block is. `deployment`: one setting the person changes by
hand, the one for smart text organization, and three values, so that the engine can move a
setting to a value that is neither the one before nor the one after; two files, because the
first may be recorded when the second fails; one window, one change by the engine or by
`doubao-voice organize-on`, two faults, so that the rollback can fail too, one change by
the person and one failure of the installer. The constraint `Apart` keeps the two scenes
apart that share only the unit file: the installer runs while nobody uses the settings
program, and the settings program runs while the installer is at rest (with the unit as
installed, or edited by hand). The theorems of `DeploymentProofs` do not have this
constraint.

Some properties name what they do not promise, because the code does not keep it.
- `WritesAlone` exempts an engine whose wrapper ended before it: the lock cannot tell.
- `OthersKept` exempts what an engine has changed since the lock was taken, which is one that
  outlived its wrapper, or one that was started again and is rolled back (`settings.py:193`
  writes what line 181 read). It also exempts the rollback after the second reading itself has
  failed: line 193 then writes what line 168 had read over what the engine saved while it was
  being stopped, although `docs/settings.md:15` says that concurrent changes are kept. Without
  the conjunct on `app.reread` TLC finds this with one fault.
- `AppliedMeansEffective` exempts a broker left by a killed wrapper. It goes on listening with
  the former configuration, the broker of the restarted service ends beside it
  (`keyboard_broker.py:56`), and `wait_keyboard()` is content: "saved" is shown although
  `docs/settings.md:18-19` says that the service is restarted to load what was saved, or an
  error is shown. Without the disjunct `w \in left` TLC finds this with one fault.
- `StoppedForAReason` lists the five ways in which a service may stay stopped.
- `NothingOrphaned` and `NothingForeignTouched` name the files of a call that was broken off and
  those that changed between the look and the deletion.

Three runs show where the code differs from what its repository says:

- `late_commit` (`DenialIsTrue`): a `Commit` that takes longer than 1500 ms is reported
  as "nothing was entered", and is still served afterwards.
- `no_notify` (`WayBack`): without `notify-send` the `done` handler raises before it
  resets the coordinator, which stays busy.
- `space_pairing` (`SpacePaired`): a captured Space released outside every Fcitx field
  leaves the capture armed; the release of a later, ordinary Space is swallowed.

`NoStrayTicket` is checked without faults and does not hold with them: a `Begin` that
times out and is served later leaves a ticket its coordinator does not know of. It expires
after 180 s and delivers nothing; the repository does not promise otherwise.

### Fairness

`Fairness` in `VoiceSystem` names the steps that must go on: Fcitx answers a waiting call
(it runs an event loop), a handler that has its answer continues, the clock passes a
limit, GLib dispatches signals, session events and the tick when they stay ready (strong
fairness, because each is disabled while a handler waits and enabled again after it), the
recording thread opens its microphone, reacts to `cancel`, closes the microphone and
posts `done`. Not fair: everything the user does, faults, the provider (`Decide` without
`cancel`) and the opening of the capture device: a provider that never answers or a
device that never opens is allowed, and the limits of the phases have to end the
dictation. `liveness` checks this with one fault.

`Transcript` assumes that the session's own steps are taken (`WF_vars(Session)`): `finish()`
waits 25 s at most, `close()` 12 s, and a recording ends as `AudioSession` shows. Nothing is
assumed of the helper or of the coordinator. `Deployment` has no fairness: whether the
person or systemd does anything is open, and its properties say what may not happen.

`AudioSession` assumes less: that `run()` goes on at its awaits, each of which is bounded
in the code (a timeout, then SIGKILL), that the feed notices the end of its pipe or a
flag, and that the reader meets the end of a dead provider's output. Nothing is assumed of
the provider, the capture and the coordinator: a recording nobody stops may go on, one
that is cancelled or broken must end. The keyboard has no liveness property: every request
ends after 250 ms by a constant in the code.

## 4. Proofs

All theorems hold for every value of the constants their assumptions allow: any set of
fields with a value outside it, any number of tickets, processes, signals and faults, any
chunks and limits, any settings, values and files (`BusAssumption`, `SessionAssumption`,
`NotifyAssumption`, `AudioAssumption`, `BlocksAssumption`, `ConfigAssumption`,
`BoundAssumption`, `FileAssumption`, `PrefAssumption`, each evaluated by TLC in a run).

Voice core
- `VoiceTypeProofs!TypeCorrect`: `Spec => []TypeOK`. `TypeOK` is inductive but for the
  bus name a restart takes: `NameLeft` adds that a coordinator that ended was not the
  last. One lemma per action or helper.
- `DeliveryGrantProofs`: the abstract grant, under its `GrantAssumption`. `OnceWhereGranted`
  is not inductive: nothing in it forbids a live grant on a ticket that has already
  delivered. `GrantInv` adds that a live grant is issued for its field, unspoiled and unused
  (`LiveGrant`), and that tickets never issued are unspoiled and unused (`Untouched`). From
  it `GrantedOnce` and `GrantUndisturbed`. The grant is only proved about; TLC checks it as
  the PROPERTY `ImplementsGrant` of `grants`.
- `VoiceProofs!VoiceImplementsGrant`: `Spec => ImplementsGrant`, with `pending` seen as
  the grant. Typing, FocusOut, Reset and a field that turns sensitive are `Disturb`; a
  restart of Fcitx disturbs all fields; `begin` is `Begin` or `End`; an accepted
  `commit` is `Deliver`; the rest is `End` or a stutter. The invariant it needs beyond the
  types is `TicketsAhead`: the next ticket was never issued.
- `VoiceProofs!DeliveryOnce`, `DeliveryUndisturbed`: `DeliveredOnceWhereBegun` and
  `DeliversUndisturbed` of the whole system, carried over from the grant.

The invariants of voice input (`VoiceSafetyProofs`), each with the strengthening it needs.
The handlers of the coordinator share many helpers and end in many ways; `Effect` says once
what any of them comes to (which call it sends, what becomes of phase, token and report), and
`GoesOn`, `Leaves`, `Grants` and `Writes` say the same of its main loop and of the addon. The
later proofs go through these forms and not through the handlers.
- `EventsOrdered`, `SilenceBeforeDone` (`EventsInOrder`, `SilentWhenDone`): `SessionInv`. A
  coordinator without a session has no event waiting, the session is that of the present
  generation, and a thread that has ended has closed the microphone.
- `WayBackKept` (`NotifyWorks => (Spec => []WayBack)`): `WayInv`, a thread that has ended has
  posted `done` or is being reported. Without `NotifyWorks` it is false, as `no_notify` shows.
- `PreviewsOwned` (`PreviewOwned`), which is inductive given the types.
- `StartedWhereAsked` (`StartsWhereAsked`): `CallsInv`, at most one call is awaited, it is of
  the present process, and it is the one its handler sent; `TicketInv`, which handler may hold
  which ticket, and that a ticket granted for a field is issued for that field.
- `NoTicketLeft` (`NoStrayTicket` as long as `faults = 0`): `NamesInv`, no name of the bus is
  used before its process runs; `MineInv`, while nothing went wrong each delivery of this
  coordinator is its token, or in the answer it is about to take, or being given back.
- `ReportsAgree` (`NotifyWorks => (Spec => [](faults = 0 => ReportAgrees))`): `ReportInv` says
  at every place of a dictation whether its ticket is known to have reached a field or known
  not to: before `commit`, with its answer, in the report, and for what is given back.
- `HotkeyFollowsKey` and `HoldsEnd` (`HoldEnds` as long as `faults = 0`): `HotInv`, a hotkey
  that is down is the physical key, in the focused field; `HoldInv`, a start that is under way
  is followed by its end or by an open hold, and so is a recording, or its delivery is gone.

`faults = 0` says that no call has timed out, no process was restarted and no stranger called
*so far*: a run that has a fault later is covered up to it. After a fault the coordinator
cannot know what the addon did: `late_commit` shows this for the report, and a `Begin` served
late leaves a ticket. `DeliveryOnce`, `EventsOrdered`, `SilenceBeforeDone`, `WayBackKept`,
`PreviewsOwned` and `StartedWhereAsked` hold with any number of faults.

Recording session (`AudioProofs`)
- `AudioTyped`: types, and the limit on the audio that waits for the connection: past it the
  result is an error.
- `LeavesNothing`: `NothingLeftBehind`. It needs that nothing runs while `main` is "new"
  (`NothingYet`), because a provider that cannot be started leads past the finally clause.
- `WholeSent`: `WholeRecording`. `WholeInv` says that, until a send fails or Finish is sent,
  the chunks kept are those sent followed by those queued (`InFlight`); that Finish leaves
  stop set, so that no chunk can follow; and that a text needs Finish.
- `SessionImplemented`: `Spec => ImplementsSession`. `Outline` is mapped step by step: what
  ends the capture is `CloseMic`, a line that is shown is `PostPreview`, each way to
  "closing" is `Decide` (which needs `WholeInv`: a text has stop set, and `LeavesNothing`: the
  microphone is off), everything between is a stutter. `OutlineInv` bounds the events:
  "recording" and "done" are posted once each, whatever waits. So what is checked of voice
  input with `RecordingSession` in the session's place holds of `audio.py` as modelled.

Keyboard (`KeyboardProofs`). One inductive invariant, `KInv` (`KeyboardInvariant`), for any
number of fields, letters, ends of the broker and connections in the backlog, and any limits.
None of the properties is inductive: a stale answer, or a command left behind by a request
that was given up, would break each of them in a step or two. The parts of `KInv` exclude them:
- `LineInv`: at most one connection is still open, it is the last of the line, and it carries
  the call the frontend waits for; an answer leaves no command behind it.
- `KeysInv`: the letters in the engine, in the command it serves, in the backlog and in the
  first key still to be sent are in the order they were typed in, and none is of a password
  field. Hence `SecretsKept` (`SecretsStay`).
- `EnteredInv`, `TypedInv`, `PanelInv`, `AnswerInv`: what was entered, what is being typed,
  what is shown and what the host said belong to the field of the call; an answer contains no
  letter that was entered before. Hence `LettersEnteredOnce` (`EnteredOnce`) and
  `PreeditsOwned` (`PreeditOwned`).
- `LiveInv`: while the frontend has a target and no `F` is under way, no abandoned command is
  left and the engine holds what the panel shows, or nothing. It is why a given-up request
  drops the target, and with it `ChoiceInv` gives `ChoiceFromItsList` (`ChosenWasShown`) and
  `EveryChoiceReached` (`ChoiceReached`).
- `KeyboardTypes` (`KeyboardTypeOK`) and the action property `PagesStay` (`PageStays`).

Organizer (`TranscriptProofs`)
- `TextIsAccounted`: `TextAccounted`, for streams of any length. `StreamInv` is the invariant
  of the loop of `parse_sse()`: what its variables say of the blocks it has gone through (only
  deltas, then one final text, then `[DONE]`; `keep` is what some delta said). `PlaceInv` adds
  what each place of the session knows: a text is parsed only when it was said, is safe, and
  the helper's output has ended.
- `CancelledWithoutText`: `CancelWins`, for every stream. `CancelSeen` follows `cancel`
  through each place: once it is set before the answer is parsed, only the way through
  "failing" is left, where `Fallback` looks at it.

Deployment (`DeploymentProofs`)
- `DeploymentTyped` (with `EngineTypeOK`: the copies of the configuration in the settings
  program are configurations whenever its place uses them).
- `LockHeld`: a wrapper that has passed the lock holds it. From it `WrittenAlone`
  (`WritesAlone`): `PrefixOK` says that an engine or a broker has a wrapper that runs, or is one
  that was left (`EngineKnown`, `BrokerKnown`, `LeftKnown`), and `RunningOK` adds that the
  program holds the lock wherever it writes (`Holding`), so no wrapper does.
- `OthersSurvive`, `SavedIsEffective` (`OthersKept`, `AppliedMeansEffective`): `DataOK`
  relates the file, the engines and the copies at each place: between the second reading and
  the write the file is `current` but for what an engine changed, after the write it and any
  engine that was not left behind have what was requested; in the rollback the same is said of
  `current` only where it was read again (`app.reread`).
- `ServiceRestored` (`StoppedForAReason`): `RestartOK` follows a stopped service the person
  wants through every place to one of the five ways out.
- `UndisturbedSucceeds` (`SucceedsUndisturbed`): `UndisturbedOK` is the converse of the lock
  discipline and a timetable. A lock is held by somebody at work (`LockUsed`), every engine has
  what the file says while nothing was changed elsewhere (`EnginesAgree`), and a run of `main()`
  nobody crosses is at one of nine places, each with the state of the unit that belongs to it
  (`Straight`); the ways into the rollback are closed there.
- `FilesAccounted`, `ForeignUntouched` (`NothingOrphaned`, `NothingForeignTouched`):
  `InstallInv` says what each place of `apply()` and `remove()` knows of each path: a path
  counted as written is its own unless it was changed late, one that was checked is
  unmodified or late.

Every part of these invariants was first checked by TLC within the bounds of the runs.

Only model-checked: the liveness properties (`DictationEnds`, `MicCloses`,
`BrokenSessionsEnd`, `AskedEnds`), because liveness under fairness is beyond the prover. Of
`ReportAgrees`, `NoStrayTicket` and `HoldEnds` the theorems state the part without faults;
the runs that check them have no faults either.

## 5. Not modelled

- Components without a module: the rules of `bridge/cleanup.py` (text in, text out; what
  they decide is an input of `Organizer`), `scripts/provider.py` (wraps a third-party client),
  `organize_*.c` and `settings_launcher.cs` (inside official Windows programs; what they
  write or return is an input), download, packaging, preparation and diagnosis tools (one
  person, one call, no concurrent state).
- Of the voice core: wording of notifications and `Status`; the `organizing` event (it
  changes a text only); the multi-line handling of `commit`; the clock as a number; an
  exception in `Session()` (`daemon.py:101`).
- Of the recording: statistics, stderr and error categories.
- Of the organizer: the hexadecimal and the size limits of the output are one failure,
  `ReadFails`; the write of the text is one step, although `drain()` has no limit of its own
  at `organize.py:173` (it returns at once unless the text fills the pipe). What the service
  returns may be what was said. Error categories are left out.
- Of the keyboard: the settings action, the check of the peer's user; what a second broker
  does to the first is in `PrefixService`, without the keys it serves.
- Of the deployment: contents, modes, temporary names and directories of files; two
  installers at once (nothing locks them); a second settings program (a lock of its own
  refuses it); the X server and `runtime.py` beyond their failing.

## 6. Plan

Done: the voice core with its refinement of `DeliveryGrant`, the recording session with its
refinement of `RecordingSession`, the keyboard path, the organizer, the settings program, the
wrapper and the installer, all checked, and their safety properties proved. Left, in this order:

1. `Transcript` as a refinement of what `AudioSession` does after `run()`, so that the
   contract `RecordingSession` covers the organizer from inside.
2. What a fault leaves of `NoStrayTicket` and `ReportAgrees`: which outcome is still certain
   after a call that timed out.
