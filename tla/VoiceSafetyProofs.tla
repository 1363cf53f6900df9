-------------------------- MODULE VoiceSafetyProofs --------------------------
(***************************************************************************)
(* What voice input keeps beyond its deliveries.  In order:                *)
(*                                                                         *)
(*   SessionInv    the session, its thread and its events                  *)
(*   WayInv        a session that ended is reported                        *)
(*   PreviewOwned  the preview and the delivery                            *)
(*   Effect        what a handler of the main loop comes to: the later     *)
(*                 proofs look at the handlers through it only             *)
(*   CallsInv      one call at a time, and the right one                   *)
(*   TicketInv     which handler holds which ticket                        *)
(*   MineInv       the coordinator accounts for its delivery               *)
(*   ReportInv     what is reported and what was written                   *)
(*   HotInv        the hotkey state and the physical key                   *)
(*   HoldInv       a hold that is over is known or about to be             *)
(*                                                                         *)
(* MineInv, ReportInv and HoldInv speak of runs without faults: after a    *)
(* call that timed out the coordinator cannot know what the addon did.     *)
(***************************************************************************)
EXTENDS VoiceProofs

\* The handler that waits is named by a string other than the empty one.
LEMMA NoneDiffers ==
    None \notin {"start", "valid", "preview", "commit", "release", "cancel"}
  BY Zenon DEF None

-----------------------------------------------------------------------------
(* The session: events belong to it, and its end comes with closed ears.      *)

Posted(kind) == \E i \in 1..Len(events) : events[i].kind = kind
SessionInv ==
    /\ phase = "idle" => rec.thread = "none"
    /\ wait.for = "start" => phase = "idle"
    /\ ~HasSession => events = <<>>
    /\ HasSession => rec.gen = generation
    /\ wait.for \in {"commit", "release"} => rec.thread = "ended" /\ events = <<>>
    /\ EventsInOrder
    /\ Posted("done") => rec.thread = "ended"
    /\ rec.thread = "ended" => ~Recording

\* There is no session at first.
LEMMA SessionInvInit == Init => SessionInv
  BY NoneDiffers DEF Init, BridgeInit, NoWait, NoSession, SessionInv, EventsInOrder, Posted, HasSession, Recording

\* An event the session posts joins the queue as its last; only done says done.
LEMMA PostedInOrder ==
    ASSUME TypeInv, SessionInv, HasSession, rec.thread # "ended", NEW kind \in {"recording", "preview", "done"},
           NEW text \in {NoText, "safe", "unsafe"}, Post(kind, text)
    PROVE  /\ \A i \in 1..Len(events') : events'[i].gen = generation /\ (events'[i].kind = "done" => i = Len(events'))
           /\ (\E i \in 1..Len(events') : events'[i].kind = "done") => kind = "done"
<1>1. events \in Seq(Event) /\ rec.gen = generation /\ ~Posted("done")
  BY DEF TypeInv, TypeOK, RecTypeOK, SessionInv
<1>2. \A i \in 1..Len(events) : events[i].gen = generation /\ events[i].kind # "done"
  BY <1>1 DEF SessionInv, EventsInOrder, Posted
<1> DEFINE e == [kind |-> kind, gen |-> rec.gen, text |-> text]
<1>3. events' = Append(events, e) /\ e \in Event
  BY DEF Post, TypeInv, TypeOK, RecTypeOK, Event, SessionState
<1>4. /\ Len(events') = Len(events) + 1 /\ Len(events) \in Nat
      /\ \A i \in 1..Len(events) : events'[i] = events[i]
      /\ events'[Len(events) + 1] = e
  BY <1>1, <1>3, AppendProperties
<1>5. \A i \in 1..Len(events') : i \in 1..Len(events) \/ i = Len(events) + 1
  BY <1>4
<1>6. e.gen = generation /\ e.kind = kind
  BY <1>1
<1> HIDE DEF e
<1> QED BY <1>1, <1>2, <1>4, <1>5, <1>6

\* The steps of the recording thread (Session.run).
LEMMA SessionStepKeeps ==
    ASSUME TypeInv, SessionInv, SessionStep, UNCHANGED <<phase, wait, generation>>
    PROVE  SessionInv'
<1>1. CASE OpenMic
  BY <1>1 DEF OpenMic, SessionInv, EventsInOrder, Posted, HasSession, Recording, TypeInv, TypeOK, RecTypeOK, SessionState
<1>2. CASE MicOpened
  BY <1>2, PostedInOrder DEF MicOpened, SessionInv, EventsInOrder, Posted, HasSession, Recording, TypeInv, TypeOK, RecTypeOK, SessionState
<1>3. CASE CloseMic
  BY <1>3 DEF CloseMic, SessionInv, EventsInOrder, Posted, HasSession, Recording, TypeInv, TypeOK, RecTypeOK, SessionState
<1>4. CASE PostPreview
  BY <1>4, PostedInOrder, SessionAssumption DEF PostPreview, SessionInv, EventsInOrder, Posted, HasSession, Recording, TypeInv, TypeOK, RecTypeOK, SessionState
<1>5. CASE PostDone
  BY <1>5, PostedInOrder DEF PostDone, Reaped, SessionInv, EventsInOrder, Posted, HasSession, Recording, TypeInv, TypeOK, RecTypeOK, SessionState
<1>6. ASSUME NEW text, Decide(text) PROVE SessionInv'
  BY <1>6 DEF Decide, SessionInv, EventsInOrder, Posted, HasSession, Recording, TypeInv, TypeOK, RecTypeOK, SessionState
<1> QED BY <1>1, <1>2, <1>3, <1>4, <1>5, <1>6 DEF SessionStep


\* A step of the main loop that leaves thread, microphone and events alone, and
\* neither starts nor reports.
LEMMA SessionUntouched ==
    ASSUME SessionInv, phase' = "idle" => phase = "idle",
           wait'.for \notin {"start", "commit", "release"},
           rec'.thread = rec.thread, rec'.gen = rec.gen, rec'.mic = rec.mic,
           UNCHANGED <<generation, events>>
    PROVE  SessionInv'
  BY DEF SessionInv, EventsInOrder, Posted, HasSession, Recording

\* Setting the cancel or the stop flag leaves the rest of the session alone.
LEMMA FlagKeepsRest ==
    ASSUME RecTypeOK
    PROVE  /\ [rec EXCEPT !.cancel = TRUE].thread = rec.thread
           /\ [rec EXCEPT !.cancel = TRUE].gen = rec.gen
           /\ [rec EXCEPT !.cancel = TRUE].mic = rec.mic
           /\ [rec EXCEPT !.stop = TRUE].thread = rec.thread
           /\ [rec EXCEPT !.stop = TRUE].gen = rec.gen
           /\ [rec EXCEPT !.stop = TRUE].mic = rec.mic
  BY DEF RecTypeOK, SessionState

\* cancel() after the ticket is given back: the session keeps its thread.
LEMMA CancelledKeepsSession ==
    ASSUME TypeInv, SessionInv, NEW reason, NEW about, NEW tick, Cancelled(reason, about, tick),
           wait'.for \notin {"start", "commit", "release"}, UNCHANGED <<generation, events>>
    PROVE  SessionInv'
<1>1. RecTypeOK
  BY DEF TypeInv, TypeOK
<1>2. rec'.thread = rec.thread /\ rec'.gen = rec.gen /\ rec'.mic = rec.mic
  BY <1>1, FlagKeepsRest DEF Cancelled
<1>3. phase' = "idle" => phase = "idle"
  BY DEF Cancelled, Enter, AfterCancel
<1> QED BY <1>2, <1>3, SessionUntouched

\* cancel() from its start: the ticket is given back, the session flagged, or neither.
LEMMA CancelKeepsSession ==
    ASSUME TypeInv, SessionInv, NEW reason, NEW tick, Cancel(reason, tick)
    PROVE  SessionInv'
<1>0. /\ NoWait.for \notin {"start", "commit", "release"}
      /\ [NoWait EXCEPT !.for = "cancel", !.ticket = token,
                        !.outcome = reason, !.tick = tick].for = "cancel"
  BY NoneDiffers DEF NoWait
<1>1. CASE HasSession /\ token = NoTicket
  BY <1>0, <1>1, CancelledKeepsSession DEF Cancel
<1>2. CASE ~(HasSession /\ token = NoTicket)
  <2>1. UNCHANGED <<phase, rec, generation, events>>
    BY <1>2 DEF Cancel
  <2>2. wait'.for \notin {"start", "commit", "release"}
    BY <1>0, <1>2 DEF Cancel
  <2> QED BY <2>1, <2>2, SessionUntouched
<1> QED BY <1>1, <1>2

\* command('stop'): only the stop flag and the phase change.
LEMMA StopKeepsSession ==
    ASSUME TypeInv, SessionInv, Stop, UNCHANGED <<generation, events>>, wait' = wait \/ wait' = NoWait
    PROVE  SessionInv'
  BY NoneDiffers DEF Stop, Capturing, Enter, SessionInv, EventsInOrder, Posted, HasSession, Recording, TypeInv, TypeOK, RecTypeOK, SessionState, NoWait

\* command('start') up to its Begin call.
LEMMA StartKeepsSession ==
    ASSUME SessionInv, NEW context, NEW hold, Start(context, hold)
    PROVE  SessionInv'
  BY DEF Start, loopVars, bridgeVars, recVars, NoWait, SessionInv, EventsInOrder, Posted, HasSession, Recording

\* Nothing of the session changes.
LEMMA SessionAlone ==
    ASSUME SessionInv, UNCHANGED <<phase, wait, generation, rec, events>>
    PROVE  SessionInv'
  BY DEF SessionInv, EventsInOrder, Posted, HasSession, Recording

\* The end of event('done'): the session is given up, unless a notification raises.
LEMMA FinishedKeepsSession ==
    ASSUME TypeInv, SessionInv, NEW outcome, NEW about, Finished(outcome, about),
           rec.thread = "ended", events' = <<>>, wait' = NoWait, UNCHANGED generation
    PROVE  SessionInv'
  BY NoneDiffers DEF Finished, Enter, NoSession, NoWait, SessionInv, EventsInOrder, Posted, HasSession, Recording

\* event('done') from the point where the ticket is given back.
LEMMA ReleaseKeepsSession ==
    ASSUME TypeInv, SessionInv, NEW outcome, Release(outcome),
           rec.thread = "ended", events' = <<>>, UNCHANGED generation
    PROVE  SessionInv'
<1>1. CASE GivesBack(outcome)
  <2>1. wait'.for = "release" /\ phase' = phase /\ rec' = rec
    BY <1>1 DEF Release, NoWait
  <2> QED BY <2>1 DEF SessionInv, EventsInOrder, Posted, HasSession, Recording
<1>2. CASE ~GivesBack(outcome)
  BY <1>2, FinishedKeepsSession DEF Release
<1> QED BY <1>1, <1>2

\* What is left of a queue when its head is taken.
LEMMA TailFacts ==
    ASSUME NEW S, NEW s \in Seq(S), s # <<>>
    PROVE  /\ Head(s) = s[1] /\ 1 \in 1..Len(s) /\ Tail(s) \in Seq(S)
           /\ Len(Tail(s)) \in Nat /\ Len(s) = Len(Tail(s)) + 1
           /\ \A i \in 1..Len(Tail(s)) : i \in Nat /\ i + 1 \in 1..Len(s) /\ Tail(s)[i] = s[i + 1]
           /\ Len(Tail(s)) = 0 => Tail(s) = <<>>
<1>1. Len(s) \in Nat /\ Len(s) >= 1 /\ Head(s) = s[1]
  BY EmptySeq, LenProperties
<1>2. Tail(s) \in Seq(S) /\ Len(Tail(s)) = Len(s) - 1 /\ \A i \in 1..Len(Tail(s)) : Tail(s)[i] = s[i + 1]
  BY HeadTailProperties
<1>3. Len(Tail(s)) = 0 => Tail(s) = <<>>
  BY <1>2, EmptySeq
<1> QED BY <1>1, <1>2, <1>3

\* Taking the oldest event leaves the others in order; done is taken last.
LEMMA TakenInOrder ==
    ASSUME TypeInv, SessionInv, events # <<>>, events' = Tail(events), generation' = generation
    PROVE  /\ EventsInOrder'
           /\ Posted("done")' => Posted("done")
           /\ HasSession
           /\ Head(events).kind = "done" => events' = <<>> /\ rec.thread = "ended"
<1>1. events \in Seq(Event)
  BY DEF TypeInv, TypeOK, RecTypeOK
<1> DEFINE n == Len(events')
<1>2. /\ Head(events) = events[1] /\ 1 \in 1..Len(events)
      /\ n \in Nat /\ Len(events) = n + 1
      /\ \A i \in 1..n : i \in Nat /\ i + 1 \in 1..Len(events) /\ events'[i] = events[i + 1]
      /\ n = 0 => events' = <<>>
  BY <1>1, TailFacts
<1>6. n = Len(events')
  OBVIOUS
<1> HIDE DEF n
<1>3. EventsInOrder'
  <2>1. ASSUME NEW i \in 1..n
        PROVE  events'[i].gen = generation' /\ (events'[i].kind = "done" => i = n)
    <3>1. i \in Nat /\ i + 1 \in 1..Len(events) /\ events'[i] = events[i + 1]
      BY <1>2, <2>1
    <3>2. events[i + 1].gen = generation /\ (events[i + 1].kind = "done" => i + 1 = Len(events))
      BY <3>1 DEF SessionInv, EventsInOrder
    <3>3. i + 1 = Len(events) => i = n
      BY <1>2, <3>1
    <3> QED BY <3>1, <3>2, <3>3
  <2> QED BY <1>6, <2>1 DEF EventsInOrder
<1>4. Posted("done")' => Posted("done")
  BY <1>2, <1>6 DEF Posted
<1>5. ASSUME Head(events).kind = "done" PROVE n = 0 /\ Posted("done")
  <2>1. 1 \in 1..Len(events) /\ events[1].kind = "done"
    BY <1>2, <1>5
  <2>2. 1 = Len(events)
    BY <2>1 DEF SessionInv, EventsInOrder
  <2>3. n = 0
    BY <1>2, <2>2
  <2>4. Posted("done")
    BY <2>1 DEF Posted
  <2> QED BY <2>3, <2>4
<1> QED BY <1>2, <1>3, <1>4, <1>5 DEF SessionInv

\* An event of another generation, recording and preview.
LEMMA EventKeepsSession ==
    ASSUME TypeInv, SessionInv, DropEvent \/ HandleRecording \/ HandlePreview
    PROVE  SessionInv'
<1>1. /\ events # <<>> /\ events' = Tail(events)
      /\ UNCHANGED <<generation, rec>> /\ wait.for = None
  BY DEF DropEvent, HandleRecording, HandlePreview, Taking, Dispatching, bridgeVars, loopVars
<1>2. EventsInOrder' /\ (Posted("done")' => Posted("done")) /\ HasSession
  BY <1>1, TakenInOrder
<1>3. wait'.for \notin {"start", "commit", "release"}
  BY <1>1, NoneDiffers DEF DropEvent, HandleRecording, HandlePreview, NoWait, bridgeVars
<1>4. phase' = "idle" => phase = "idle"
  BY DEF DropEvent, HandleRecording, HandlePreview, bridgeVars, loopVars, Enter
<1>5. rec' = rec /\ generation' = generation
  BY <1>1
<1> QED BY <1>2, <1>3, <1>4, <1>5 DEF SessionInv, HasSession, Recording

\* done: the session has ended.
LEMMA DoneKeepsSession ==
    ASSUME TypeInv, SessionInv, HandleDone
    PROVE  SessionInv'
<1>1. /\ events # <<>> /\ events' = Tail(events) /\ Head(events).kind = "done"
      /\ UNCHANGED generation
  BY DEF HandleDone, Taking
<1>2. events' = <<>> /\ rec.thread = "ended"
  BY <1>1, TakenInOrder
<1>3. CASE MayCommit(Head(events).text)
  <2>1. wait'.for = "commit" /\ phase' = phase /\ rec' = rec
    BY <1>3 DEF HandleDone, NoWait
  <2> QED BY <1>1, <1>2, <2>1 DEF SessionInv, EventsInOrder, Posted, HasSession, Recording
<1>4. CASE ~MayCommit(Head(events).text)
  BY <1>1, <1>2, <1>4, ReleaseKeepsSession DEF HandleDone
<1> QED BY <1>3, <1>4

\* The second half of tick().
LEMMA EnforceKeepsSession ==
    ASSUME TypeInv, SessionInv, Enforce
    PROVE  SessionInv'
<1>1. CASE ~overdue
  <2>1. UNCHANGED <<phase, generation, rec, events>> /\ wait' = NoWait
    BY <1>1 DEF Enforce, loopVars, recVars
  <2>2. wait'.for \notin {"start", "commit", "release"}
    BY <2>1, NoneDiffers DEF NoWait
  <2> QED BY <2>1, <2>2, SessionUntouched
<1>2. CASE overdue /\ phase = "recording"
  BY <1>2, StopKeepsSession DEF Enforce
<1>3. CASE overdue /\ phase # "recording"
  BY <1>3, CancelKeepsSession DEF Enforce
<1> QED BY <1>1, <1>2, <1>3

\* The answers the handlers wait for.
LEMMA ResumeKeepsSession ==
    ASSUME TypeInv, SessionInv, Resume
    PROVE  SessionInv'
<1>1. CASE Started
  <2>1. phase = "idle" /\ rec.thread = "none" /\ events = <<>> /\ wait' = NoWait /\ events' = events
    BY <1>1 DEF Started, Answered, SessionInv, HasSession, recVars
  <2>2. wait'.for \notin {"start", "commit", "release"}
    BY <2>1, NoneDiffers DEF NoWait
  <2>3. CASE reply.answer = "yes"
    <3>1. phase' = "connecting" /\ rec' = NewSession(generation')
      BY <1>1, <2>3 DEF Started, Enter
    <3>2. rec'.thread = "running" /\ rec'.gen = generation'
      BY <3>1 DEF NewSession, NoSession
    <3> QED BY <2>1, <2>2, <3>1, <3>2 DEF SessionInv, EventsInOrder, Posted, HasSession, Recording
  <2>4. CASE reply.answer # "yes"
    <3>1. UNCHANGED <<phase, generation, rec, events>>
      BY <1>1, <2>4 DEF Started, loopVars, recVars
    <3> QED BY <2>2, <3>1, SessionUntouched
  <2> QED BY <2>3, <2>4
<1>2. CASE CancelAnswered
  <2>1. wait'.for \notin {"start", "commit", "release"}
    BY <1>2, NoneDiffers DEF CancelAnswered, NoWait
  <2> QED BY <1>2, <2>1, CancelledKeepsSession DEF CancelAnswered
<1>3. CASE PreviewAnswered
  <2>1. CASE reply.answer = "yes"
    <3>1. UNCHANGED <<phase, generation, rec, events>> /\ wait'.for \notin {"start", "commit", "release"}
      BY <1>3, <2>1, NoneDiffers DEF PreviewAnswered, NoWait, loopVars, recVars
    <3> QED BY <3>1, SessionUntouched
  <2>2. CASE reply.answer # "yes"
    BY <1>3, <2>2, CancelKeepsSession DEF PreviewAnswered
  <2> QED BY <2>1, <2>2
<1>4. CASE CommitAnswered
  <2>1. rec.thread = "ended" /\ events' = <<>> /\ UNCHANGED generation
    BY <1>4 DEF CommitAnswered, Answered, SessionInv
  <2> QED BY <1>4, <2>1, ReleaseKeepsSession DEF CommitAnswered
<1>5. CASE ReleaseAnswered
  <2>1. rec.thread = "ended" /\ events' = <<>> /\ UNCHANGED generation /\ wait' = NoWait
    BY <1>5 DEF ReleaseAnswered, Answered, SessionInv
  <2> QED BY <1>5, <2>1, FinishedKeepsSession DEF ReleaseAnswered
<1>6. CASE TickAnswered
  BY <1>6, EnforceKeepsSession, CancelKeepsSession DEF TickAnswered
<1> QED BY <1>1, <1>2, <1>3, <1>4, <1>5, <1>6 DEF Resume

\* The Shortcut and Invalidated signals.
LEMMA SignalKeepsSession ==
    ASSUME TypeInv, SessionInv, HandleSignal
    PROVE  SessionInv'
<1>1. CASE HandleInvalidated
  <2>1. CASE Head(signals).ticket = token
    BY <1>1, <2>1, CancelKeepsSession DEF HandleInvalidated
  <2>2. CASE Head(signals).ticket # token
    BY <1>1, <2>2, SessionAlone DEF HandleInvalidated, bridgeVars, loopVars, recVars
  <2> QED BY <2>1, <2>2
<1>2. CASE HandleShortcut
  <2>1. \/ \E context, hold : Start(context, hold)
        \/ Cancel("cancelled", FALSE)
        \/ Stop /\ UNCHANGED <<generation, events, wait>>
        \/ UNCHANGED <<phase, wait, generation, rec, events>>
    BY <1>2 DEF HandleShortcut, StopNow, bridgeVars, loopVars, recVars
  <2> QED BY <2>1, StartKeepsSession, CancelKeepsSession, StopKeepsSession, SessionAlone
<1> QED BY <1>1, <1>2 DEF HandleSignal

\* Every step of the main loop.
LEMMA LoopKeepsSession ==
    ASSUME TypeInv, SessionInv, LoopStep
    PROVE  SessionInv'
<1>1. CASE Tick
  <2>1. CASE token # NoTicket
    <3>1. UNCHANGED <<phase, generation, rec, events>> /\ wait'.for \notin {"start", "commit", "release"}
      BY <1>1, <2>1 DEF Tick, loopVars, recVars, NoWait
    <3> QED BY <3>1, SessionUntouched
  <2>2. CASE token = NoTicket
    BY <1>1, <2>2, EnforceKeepsSession DEF Tick
  <2> QED BY <2>1, <2>2
<1>2. CASE TimeUp
  BY <1>2, SessionAlone DEF TimeUp, recVars
<1>3. CASE Shutdown
  BY <1>3, CancelKeepsSession DEF Shutdown
<1>4. ASSUME NEW command \in {"start", "stop", "toggle", "cancel"}, Command(command) PROVE SessionInv'
  <2>1. \/ Start(NoField, FALSE)
        \/ Stop /\ UNCHANGED <<generation, events, wait>>
        \/ Cancel("cancelled", FALSE)
    <3>1. CASE command = "start" \/ (command = "toggle" /\ phase = "idle")
      BY <1>4, <3>1 DEF Command
    <3>2. CASE command = "stop" \/ (command = "toggle" /\ phase # "idle")
      BY <1>4, <3>2 DEF Command, StopNow
    <3>3. CASE command = "cancel"
      BY <1>4, <3>3 DEF Command
    <3> QED BY <3>1, <3>2, <3>3
  <2> QED BY <2>1, StartKeepsSession, CancelKeepsSession, StopKeepsSession
<1> QED BY <1>1, <1>2, <1>3, <1>4, SignalKeepsSession, EventKeepsSession, DoneKeepsSession,
           ResumeKeepsSession DEF LoopStep, HandleEvent

\* Every step of voice input.
LEMMA SessionInvStep == TypeInv /\ SessionInv /\ [Next]_vars => SessionInv'
<1> SUFFICES ASSUME TypeInv, SessionInv, [Next]_vars PROVE SessionInv'
  OBVIOUS
<1>1. CASE Addon \/ UNCHANGED vars
  BY <1>1, SessionAlone DEF Addon, vars, bridgeVars, loopVars, recVars
<1>2. CASE LoopStep
  BY <1>2, LoopKeepsSession
<1>3. CASE CallTimeout \/ Restart
  BY <1>3, SessionAlone DEF CallTimeout, Restart, bridgeVars, loopVars, recVars
<1>4. CASE Exit
  <2>1. phase' = "idle" /\ wait' = NoWait /\ rec' = NoSession /\ events' = <<>>
    BY <1>4 DEF Exit, BridgeReset
  <2>2. wait'.for \notin {"start", "commit", "release"} /\ rec'.thread = "none"
    BY <2>1, NoneDiffers DEF NoWait, NoSession
  <2> QED BY <2>1, <2>2 DEF SessionInv, EventsInOrder, Posted, HasSession, Recording
<1>5. CASE Session
  BY <1>5, SessionStepKeeps DEF Session, SessionRuns, bridgeVars, loopVars
<1> QED BY <1>1, <1>2, <1>3, <1>4, <1>5 DEF Next, Bridge, BridgeFault

\* The session invariant holds throughout.
THEOREM SessionInvariant == Spec => []SessionInv
  BY SessionInvInit, SessionInvStep, TypeInvariant, PTL DEF Spec

\* The events that wait for the main loop are those of the present session, and done is
\* the last of them (Session.emit and event() of daemon.py).
THEOREM EventsOrdered == Spec => []EventsInOrder
<1>1. SessionInv => EventsInOrder
  BY DEF SessionInv
<1> QED BY <1>1, SessionInvariant, PTL

\* The microphone is closed before the outcome of a session is reported
\* (the finally clauses of Session.run).
THEOREM SilenceBeforeDone == Spec => []SilentWhenDone
<1>1. SessionInv => SilentWhenDone
  BY DEF SessionInv, SilentWhenDone, Posted
<1> QED BY <1>1, SessionInvariant, PTL

-----------------------------------------------------------------------------
(* The way back to idle.  With notify-send, a session that ended has its done *)
(* event waiting or the handler of done under way; without it the handler     *)
(* raises before it gives the session up.                                     *)

Reporting == wait.for \in {"commit", "release"}
WayInv == rec.thread = "ended" => Posted("done") \/ Reporting

\* No session has ended at first.
LEMMA WayInvInit == Init => WayInv
  BY DEF Init, BridgeInit, NoSession, WayInv

\* A step that leaves the thread and its events alone while nothing is reported.
LEMMA WayUntouched ==
    ASSUME WayInv, ~Reporting, rec'.thread = rec.thread, events' = events
    PROVE  WayInv'
  BY DEF WayInv, Reporting, Posted

\* cancel() after the ticket is given back.
LEMMA WayCancelled ==
    ASSUME TypeInv, WayInv, ~Reporting, NEW reason, NEW about, NEW tick, Cancelled(reason, about, tick),
           events' = events
    PROVE  WayInv'
<1>1. rec'.thread = rec.thread
  BY FlagKeepsRest DEF Cancelled, TypeInv, TypeOK
<1> QED BY <1>1, WayUntouched

\* cancel() from its start.
LEMMA WayCancel ==
    ASSUME TypeInv, WayInv, ~Reporting, NEW reason, NEW tick, Cancel(reason, tick)
    PROVE  WayInv'
<1>1. events' = events
  BY DEF Cancel
<1>2. CASE HasSession /\ token = NoTicket
  BY <1>1, <1>2, WayCancelled DEF Cancel
<1>3. CASE ~(HasSession /\ token = NoTicket)
  <2>1. rec' = rec
    BY <1>3 DEF Cancel
  <2> QED BY <1>1, <2>1, WayUntouched
<1> QED BY <1>2, <1>3

\* command('stop').
LEMMA WayStop ==
    ASSUME TypeInv, WayInv, ~Reporting, Stop, events' = events
    PROVE  WayInv'
<1>1. rec'.thread = rec.thread
  BY FlagKeepsRest DEF Stop, TypeInv, TypeOK
<1> QED BY <1>1, WayUntouched

\* command('start') up to its Begin call.
LEMMA WayStart ==
    ASSUME WayInv, ~Reporting, NEW context, NEW hold, Start(context, hold)
    PROVE  WayInv'
<1>1. rec' = rec /\ events' = events
  BY DEF Start, recVars
<1> QED BY <1>1, WayUntouched

\* The thread of a session.
LEMMA WaySession ==
    ASSUME TypeInv, WayInv, SessionStep, wait' = wait
    PROVE  WayInv'
<1>1. CASE PostDone
  <2>1. events \in Seq(Event) /\ events' = Append(events, [kind |-> "done", gen |-> rec.gen, text |-> rec.text])
    BY <1>1 DEF PostDone, Post, TypeInv, TypeOK, RecTypeOK
  <2> DEFINE e == [kind |-> "done", gen |-> rec.gen, text |-> rec.text]
  <2>2. e \in Event /\ e.kind = "done"
    BY DEF TypeInv, TypeOK, RecTypeOK, SessionState, Event
  <2> HIDE DEF e
  <2>3. Len(events') = Len(events) + 1 /\ Len(events) \in Nat /\ events'[Len(events) + 1] = e
    BY <2>1, <2>2, AppendProperties DEF e
  <2>4. Len(events) + 1 \in 1..Len(events') /\ events'[Len(events) + 1].kind = "done"
    BY <2>2, <2>3
  <2> QED BY <2>4 DEF WayInv, Posted
<1>2. ASSUME NEW text, Decide(text) PROVE WayInv'
  <2>1. rec'.thread = "decided"
    BY <1>2 DEF Decide, TypeInv, TypeOK, RecTypeOK, SessionState
  <2> QED BY <2>1 DEF WayInv
<1>3. CASE MicOpened \/ PostPreview
  <2>1. rec'.thread = "running"
    BY <1>3 DEF MicOpened, PostPreview, TypeInv, TypeOK, RecTypeOK, SessionState
  <2> QED BY <2>1 DEF WayInv
<1>4. CASE OpenMic \/ CloseMic
  <2>1. rec'.thread = rec.thread /\ events' = events
    BY <1>4 DEF OpenMic, CloseMic, TypeInv, TypeOK, RecTypeOK, SessionState
  <2> QED BY <2>1 DEF WayInv, Posted, Reporting
<1> QED BY <1>1, <1>2, <1>3, <1>4 DEF SessionStep

\* The end of event('done').
LEMMA WayRelease ==
    ASSUME NotifyWorks, NEW outcome, Release(outcome)
    PROVE  WayInv'
<1>1. CASE GivesBack(outcome)
  BY <1>1 DEF Release, NoWait, WayInv, Reporting
<1>2. CASE ~GivesBack(outcome)
  BY <1>2 DEF Release, Finished, NoSession, WayInv
<1> QED BY <1>1, <1>2

\* The events.  None is of another generation.
LEMMA WayEvent ==
    ASSUME NotifyWorks, TypeInv, SessionInv, WayInv, HandleEvent
    PROVE  WayInv'
<1>1. /\ events # <<>> /\ events' = Tail(events) /\ wait.for = None
  BY DEF HandleEvent, DropEvent, HandleRecording, HandlePreview, HandleDone, Taking, Dispatching
<1> DEFINE n == Len(events')
<1>2. /\ Head(events) = events[1] /\ 1 \in 1..Len(events)
      /\ n \in Nat /\ Len(events) = n + 1
      /\ \A i \in 1..n : i \in Nat /\ i + 1 \in 1..Len(events) /\ events'[i] = events[i + 1]
  BY <1>1, TailFacts DEF TypeInv, TypeOK, RecTypeOK
<1>3. n = Len(events')
  OBVIOUS
<1> HIDE DEF n
<1>4. CASE HandleDone
  <2>1. CASE MayCommit(Head(events).text)
    BY <1>4, <2>1 DEF HandleDone, NoWait, WayInv, Reporting
  <2>2. CASE ~MayCommit(Head(events).text)
    BY <1>4, <2>2, WayRelease DEF HandleDone
  <2> QED BY <2>1, <2>2
<1>5. ~DropEvent
  <2>1. events[1].gen = generation /\ HasSession
    BY <1>1, <1>2 DEF SessionInv, EventsInOrder
  <2> QED BY <1>2, <2>1 DEF DropEvent, Current
<1>6. CASE HandleRecording \/ HandlePreview
  <2>1. events[1].kind # "done" /\ rec' = rec
    BY <1>2, <1>6 DEF HandleRecording, HandlePreview, Taking
  <2>2. ~Reporting
    BY <1>1, NoneDiffers DEF Reporting
  <2>3. Posted("done") => Posted("done")'
    <3>1. SUFFICES ASSUME NEW i \in 1..Len(events), events[i].kind = "done" PROVE Posted("done")'
      BY DEF Posted
    <3>2. i - 1 \in 1..n /\ i = (i - 1) + 1
      BY <1>2, <2>1, <3>1
    <3>3. events'[i - 1].kind = "done"
      BY <1>2, <3>1, <3>2
    <3> QED BY <1>3, <3>2, <3>3 DEF Posted
  <2> QED BY <2>1, <2>2, <2>3 DEF WayInv
<1> QED BY <1>4, <1>5, <1>6 DEF HandleEvent

\* The second half of tick().
LEMMA WayEnforce ==
    ASSUME TypeInv, WayInv, ~Reporting, Enforce
    PROVE  WayInv'
<1>1. CASE ~overdue
  <2>1. rec' = rec /\ events' = events
    BY <1>1 DEF Enforce, recVars
  <2> QED BY <2>1, WayUntouched
<1>2. CASE overdue
  BY <1>2, WayStop, WayCancel DEF Enforce
<1> QED BY <1>1, <1>2

\* The handlers that an answer lets go on.
LEMMA WayResume ==
    ASSUME NotifyWorks, TypeInv, SessionInv, WayInv, Resume
    PROVE  WayInv'
<1>1. CASE Started
  <2>1. ~Reporting
    BY <1>1 DEF Started, Answered, Reporting
  <2>2. CASE reply.answer = "yes"
    <3>1. rec'.thread = "running"
      BY <1>1, <2>2 DEF Started, NewSession, NoSession
    <3> QED BY <3>1 DEF WayInv
  <2>3. CASE reply.answer # "yes"
    <3>1. rec' = rec /\ events' = events
      BY <1>1, <2>3 DEF Started, recVars
    <3> QED BY <2>1, <3>1, WayUntouched
  <2> QED BY <2>2, <2>3
<1>2. CASE CancelAnswered
  <2>1. ~Reporting
    BY <1>2 DEF CancelAnswered, Answered, Reporting
  <2> QED BY <1>2, <2>1, WayCancelled DEF CancelAnswered
<1>3. CASE PreviewAnswered
  <2>1. ~Reporting
    BY <1>3 DEF PreviewAnswered, Answered, Reporting
  <2>2. CASE reply.answer = "yes"
    <3>1. rec' = rec /\ events' = events
      BY <1>3, <2>2 DEF PreviewAnswered, recVars
    <3> QED BY <2>1, <3>1, WayUntouched
  <2>3. CASE reply.answer # "yes"
    BY <1>3, <2>1, <2>3, WayCancel DEF PreviewAnswered
  <2> QED BY <2>2, <2>3
<1>4. CASE CommitAnswered
  BY <1>4, WayRelease DEF CommitAnswered
<1>5. CASE ReleaseAnswered
  BY <1>5 DEF ReleaseAnswered, Finished, NoSession, WayInv
<1>6. CASE TickAnswered
  <2>1. ~Reporting
    BY <1>6 DEF TickAnswered, Answered, Reporting
  <2> QED BY <1>6, <2>1, WayEnforce, WayCancel DEF TickAnswered
<1> QED BY <1>1, <1>2, <1>3, <1>4, <1>5, <1>6 DEF Resume

\* Every step of the main loop.
LEMMA WayLoop ==
    ASSUME NotifyWorks, TypeInv, SessionInv, WayInv, LoopStep
    PROVE  WayInv'
<1>1. ASSUME Dispatching PROVE ~Reporting
  BY <1>1, NoneDiffers DEF Dispatching, Reporting
<1>2. CASE HandleInvalidated
  <2>1. CASE Head(signals).ticket = token
    BY <1>1, <1>2, <2>1, WayCancel DEF HandleInvalidated
  <2>2. CASE Head(signals).ticket # token
    BY <1>1, <1>2, <2>2, WayUntouched DEF HandleInvalidated, recVars
  <2> QED BY <2>1, <2>2
<1>3. CASE HandleShortcut
  <2>1. \/ \E context, hold : Start(context, hold)
        \/ Cancel("cancelled", FALSE)
        \/ Stop /\ UNCHANGED events
        \/ UNCHANGED <<rec, events>>
    BY <1>3 DEF HandleShortcut, StopNow, recVars
  <2>2. ~Reporting
    BY <1>1, <1>3 DEF HandleShortcut
  <2> QED BY <2>1, <2>2, WayStart, WayCancel, WayStop, WayUntouched
<1>4. CASE Tick
  <2>1. ~Reporting
    BY <1>1, <1>4 DEF Tick
  <2>2. CASE token # NoTicket
    BY <1>4, <2>1, <2>2, WayUntouched DEF Tick, recVars
  <2>3. CASE token = NoTicket
    BY <1>4, <2>1, <2>3, WayEnforce DEF Tick
  <2> QED BY <2>2, <2>3
<1>5. CASE TimeUp
  BY <1>5 DEF TimeUp, recVars, WayInv, Posted, Reporting
<1>6. CASE Shutdown
  BY <1>1, <1>6, WayCancel DEF Shutdown
<1>7. ASSUME NEW command \in {"start", "stop", "toggle", "cancel"}, Command(command) PROVE WayInv'
  <2>1. ~Reporting
    BY <1>1, <1>7 DEF Command
  <2>2. CASE command = "start" \/ (command = "toggle" /\ phase = "idle")
    BY <1>7, <2>1, <2>2, WayStart DEF Command
  <2>3. CASE command = "stop" \/ (command = "toggle" /\ phase # "idle")
    BY <1>7, <2>1, <2>3, WayStop DEF Command, StopNow
  <2>4. CASE command = "cancel"
    BY <1>7, <2>1, <2>4, WayCancel DEF Command
  <2> QED BY <2>2, <2>3, <2>4
<1> QED BY <1>2, <1>3, <1>4, <1>5, <1>6, <1>7, WayEvent, WayResume DEF LoopStep, HandleSignal

\* Every step of voice input, where notifying never raises.
LEMMA WayInvStep == NotifyWorks /\ TypeInv /\ SessionInv /\ WayInv /\ [Next]_vars => WayInv'
<1> SUFFICES ASSUME NotifyWorks, TypeInv, SessionInv, WayInv, [Next]_vars PROVE WayInv'
  OBVIOUS
<1>1. CASE Addon \/ UNCHANGED vars \/ CallTimeout \/ Restart
  <2>1. UNCHANGED <<wait, rec, events>>
    BY <1>1 DEF Addon, vars, CallTimeout, Restart, bridgeVars, recVars
  <2> QED BY <2>1 DEF WayInv, Posted, Reporting
<1>2. CASE LoopStep
  BY <1>2, WayLoop
<1>3. CASE Exit
  BY <1>3 DEF Exit, BridgeReset, NoSession, WayInv
<1>4. CASE Session
  BY <1>4, WaySession DEF Session, SessionRuns, bridgeVars
<1> QED BY <1>1, <1>2, <1>3, <1>4 DEF Next, Bridge, BridgeFault

\* Where notify-send can be started, a session the coordinator refers to always has a
\* way back to idle (event('done') of daemon.py).
THEOREM WayBackKept == NotifyWorks => (Spec => []WayBack)
<1>1. TypeInv /\ SessionInv /\ WayInv => WayBack
  BY DEF TypeInv, TypeOK, RecTypeOK, SessionState, SessionInv, WayInv, WayBack, HasSession, Posted, Reporting,
         EventsInOrder
<1>2. ASSUME NotifyWorks PROVE Spec => []WayBack
  <2>1. TypeInv /\ SessionInv /\ WayInv /\ [Next]_vars => WayInv'
    BY <1>2, WayInvStep
  <2> QED BY <1>1, <2>1, WayInvInit, SessionInvariant, TypeInvariant, PTL DEF Spec
<1> QED BY <1>2

-----------------------------------------------------------------------------
(* The preview belongs to the one delivery. *)

\* No field shows a preview at first.
LEMMA PreviewOwnedInit == Init => PreviewOwned
  BY DEF Init, AddonInit, PreviewOwned

\* After clearPreview no field shows a preview.
LEMMA ClearedClean ==
    ASSUME TypeInv, PreviewOwned, NEW f \in Fields
    PROVE  PreviewCleared[f] # "preview"
  BY DEF TypeInv, TypeOK, AddonTypeOK, PreviewOwned, PreviewCleared

\* A step that touches neither the delivery nor the panels.
LEMMA PreviewUntouched ==
    ASSUME PreviewOwned, UNCHANGED <<pending, panel>> PROVE PreviewOwned'
  BY DEF PreviewOwned

\* A step that clears the preview, whatever becomes of the delivery.
LEMMA PreviewGone ==
    ASSUME TypeInv, PreviewOwned, panel' = PreviewCleared PROVE PreviewOwned'
  BY ClearedClean DEF PreviewOwned

\* Keys and field events.
LEMMA UserKeepsPreview ==
    ASSUME TypeInv, PreviewOwned, UserStep
    PROVE  PreviewOwned'
<1>1. ASSUME NEW composition \in {"empty", "engine"}, Typed(composition) PROVE PreviewOwned'
  <2>1. /\ panel \in [Fields -> {"empty", "engine", "preview"}] /\ focus \in Fields
        /\ panel' = [panel EXCEPT ![focus] = composition]
        /\ pending' = IF Concerns(focus) THEN NoDelivery ELSE pending
    BY <1>1 DEF Typed, TypeInv, TypeOK, AddonTypeOK
  <2>2. SUFFICES ASSUME NEW f \in Fields, panel'[f] = "preview"
                 PROVE  pending'.field = f /\ pending'.preview
    BY DEF PreviewOwned
  <2>3. f # focus /\ panel[f] = "preview"
    BY <2>1, <2>2
  <2>4. pending.field = f /\ pending.preview
    BY <2>3 DEF PreviewOwned
  <2>5. ~Concerns(focus)
    BY <2>3, <2>4 DEF Concerns
  <2> QED BY <2>1, <2>4, <2>5
<1>2. ASSUME NEW field, Disturbed(field) PROVE PreviewOwned'
  BY <1>2, PreviewUntouched, PreviewGone DEF Disturbed
<1>3. ASSUME NEW field, ToggleSensitive(field) PROVE PreviewOwned'
  BY <1>3, PreviewUntouched, PreviewGone DEF ToggleSensitive
<1>4. CASE Expire
  <2>1. panel' = panel /\ pending' = [pending EXCEPT !.expired = TRUE] /\ pending \in Delivery
    BY <1>4, PendingTyped DEF Expire, fieldVars, TypeInv, TypeOK
  <2>2. pending'.field = pending.field /\ pending'.preview = pending.preview
    BY <2>1 DEF Delivery
  <2> QED BY <2>1, <2>2 DEF PreviewOwned
<1>5. CASE UNCHANGED <<pending, panel>>
  BY <1>5, PreviewUntouched
<1>6. ASSUME NEW field, ChangeFocus(field) PROVE PreviewOwned'
  BY <1>2, <1>5, <1>6 DEF ChangeFocus
<1>7. ASSUME NEW mods, SpacePress(mods) PROVE PreviewOwned'
  BY <1>1, <1>5, <1>7 DEF SpacePress
<1>8. CASE HoldTimer \/ AltRelease \/ ModifierPress \/ SpaceRelease
  BY <1>5, <1>8 DEF HoldTimer, AltRelease, ModifierPress, SpaceRelease, fieldVars
<1>9. ASSUME NEW mods, AltPress(mods) PROVE PreviewOwned'
  BY <1>5, <1>9 DEF AltPress, fieldVars
<1>10. ASSUME NEW on, ReloadConfig(on) PROVE PreviewOwned'
  BY <1>5, <1>10 DEF ReloadConfig, fieldVars
<1>11. CASE TypeKey
  BY <1>1, <1>11 DEF TypeKey
<1>12. ASSUME NEW field, FieldReset(field) PROVE PreviewOwned'
  BY <1>2, <1>12 DEF FieldReset
<1> QED BY <1>3, <1>4, <1>6, <1>7, <1>8, <1>9, <1>10, <1>11, <1>12 DEF UserStep

\* The D-Bus methods.
LEMMA ServeKeepsPreview ==
    ASSUME TypeInv, PreviewOwned, Serve
    PROVE  PreviewOwned'
<1>1. CASE ServeBegin
  BY <1>1, PreviewUntouched, PreviewGone DEF ServeBegin
<1>2. CASE ServeValid \/ ServeCancel \/ ServeCommit \/ ServeGone
  BY <1>2, PreviewUntouched, PreviewGone DEF ServeValid, ServeCancel, ServeCommit, ServeGone
<1>3. CASE ServePreview
  <2>1. CASE ValidFor(Head(calls)) /\ Head(calls).text # "unsafe"
    <3>1. pending \in Delivery
      BY <2>1, PendingTyped DEF ValidFor, Owned, TypeInv, TypeOK
    <3>2. pending'.field = pending.field /\ pending'.preview
      BY <1>3, <2>1, <3>1 DEF ServePreview, Delivery
    <3>3. \A f \in Fields : f # pending.field => panel'[f] = panel[f]
      BY <1>3, <2>1 DEF ServePreview, TypeInv, TypeOK, AddonTypeOK
    <3> QED BY <3>2, <3>3 DEF PreviewOwned
  <2>2. CASE ~(ValidFor(Head(calls)) /\ Head(calls).text # "unsafe")
    BY <1>3, <2>2, PreviewUntouched DEF ServePreview
  <2> QED BY <2>1, <2>2
<1> QED BY <1>1, <1>2, <1>3 DEF Serve

\* Every step of voice input.
LEMMA PreviewOwnedStep == TypeInv /\ PreviewOwned /\ [Next]_vars => PreviewOwned'
<1> SUFFICES ASSUME TypeInv, PreviewOwned, [Next]_vars PROVE PreviewOwned'
  OBVIOUS
<1>1. CASE Addon /\ (UserStep \/ Serve)
  BY <1>1, UserKeepsPreview, ServeKeepsPreview
<1>2. CASE Addon /\ AddonFault
  BY <1>2, PreviewUntouched DEF AddonFault, AddonRestart, StrangerCall, addonVars, fieldVars, PreviewOwned
<1>3. CASE Bridge \/ Session \/ UNCHANGED vars
  BY <1>3, PreviewUntouched DEF Bridge, Session, vars, addonVars, fieldVars
<1> QED BY <1>1, <1>2, <1>3 DEF Next, Addon

\* Every way a delivery can end takes its preview along: a field that shows one is that of
\* the pending delivery (clearPreview of voice.cpp).
THEOREM PreviewsOwned == Spec => []PreviewOwned
  BY PreviewOwnedInit, PreviewOwnedStep, TypeInvariant, PTL DEF Spec

-----------------------------------------------------------------------------
(* What the handlers of the main loop come to.  A handler that runs has no    *)
(* call on its way; it ends with one of these effects.                        *)

Same    == UNCHANGED <<phase, token, generation, last>> /\ rec'.thread = rec.thread
Quiet   == calls' = calls /\ wait'.for = None
HoldEased == holdGen' \in {holdGen, NoHold}

\* Nothing, or a recording that runs or is stopped.
Rests   == Same /\ Quiet /\ HoldEased
PhaseMoves(from, to) ==
    /\ phase \in from /\ phase' = to /\ Quiet /\ HoldEased
    /\ UNCHANGED <<token, generation, last>> /\ rec'.thread = rec.thread
Stops   == PhaseMoves({"connecting", "recording"}, "processing")
Records == PhaseMoves({"connecting"}, "recording")

\* A dictation is asked for, and granted.
Begins  == /\ phase = "idle" /\ Same /\ holdGen' = holdGen
           /\ wait'.for = "start" /\ wait'.context \in Fields \cup {NoField}
           /\ Send("Begin", NoTicket, wait'.context, None)
Opens   == /\ wait.for = "start" /\ reply.answer = "yes" /\ Quiet
           /\ phase' = "connecting" /\ token' = reply.ticket
           /\ generation' = generation + 1 /\ holdGen' \in {generation', NoHold}
           /\ (holdGen' # NoHold => wait.hold) /\ last' = last /\ rec'.thread = "running"

\* A call about the ticket.
Asks(op, handler) ==
    /\ token # NoTicket /\ Same /\ holdGen' = holdGen /\ wait'.for = handler
    /\ \E text \in Texts : Send(op, token, NoField, text)

\* cancel(), before and after the ticket is given back.
Gives   == /\ token # NoTicket /\ token' = NoTicket /\ holdGen' = NoHold /\ rec.thread # "none"
           /\ UNCHANGED <<phase, generation, last>> /\ rec'.thread = rec.thread
           /\ wait'.for = "cancel" /\ wait'.ticket = token /\ wait'.outcome \in CancelReasons
           /\ Send("Cancel", token, NoField, None)
Cancels(ticket) ==
           /\ token' = token /\ Quiet /\ HoldEased /\ generation' = generation
           /\ rec'.thread = rec.thread /\ last'.ticket = ticket
           /\ phase' \in {phase, "cancelling"} /\ (NotifyWorks => phase' = "cancelling")
           /\ (last'.outcome \in CancelReasons \/ (wait.for = "cancel" /\ last'.outcome = wait.outcome))

\* The end of event('done').
Releases(outcome) ==
           /\ token # NoTicket /\ Same /\ holdGen' = holdGen
           /\ wait'.for = "release" /\ wait'.outcome = outcome
           /\ Send("Cancel", token, NoField, None)
Finishes(outcome, ticket) ==
           /\ Quiet /\ UNCHANGED <<generation, holdGen>>
           /\ last' = IF phase # "cancelling" THEN [outcome |-> outcome, ticket |-> ticket] ELSE last
           /\ \/ phase' = "idle" /\ token' = NoTicket /\ rec'.thread = "none"
              \/ ~NotifyWorks /\ UNCHANGED <<phase, token>> /\ rec'.thread = rec.thread

Ends(outcome) == Releases(outcome) \/ (token = NoTicket /\ Finishes(outcome, last.ticket))

Effect ==
    \/ Rests \/ Stops \/ Records \/ Begins \/ Opens \/ Gives
    \/ (wait.for = None /\ Asks("Valid", "valid"))
    \/ (wait.for = None /\ phase # "idle" /\ Asks("Preview", "preview"))
    \/ (wait.for = None /\ phase # "idle" /\ Asks("Commit", "commit"))
    \/ (wait.for # "cancel" /\ token = NoTicket /\ rec.thread # "none" /\ Cancels(last.ticket))
    \/ (wait.for = "cancel" /\ Cancels(wait.ticket))
    \/ (wait.for = None /\ rec.thread # "none" /\ Ends("no-final-result"))
    \/ (wait.for = "commit" /\ Ends(OutcomeOf(reply.answer)))
    \/ (wait.for = "release" /\ Finishes(wait.outcome, token))

\* Nothing is on its way when a handler runs: it was answered, or none waits.
Free == up /\ (wait.for = None \/ reply # NoReply) /\ (reply' = NoReply \/ (reply' = reply /\ wait.for = None))

\* cancel(): the ticket is given back, the session cancelled, or there is none.
LEMMA CancelEffect ==
    ASSUME TypeInv, NEW reason \in CancelReasons, NEW tick, wait.for # "cancel", Cancel(reason, tick)
    PROVE  Effect
<1>1. CASE HasSession /\ token # NoTicket
  <2>1. wait' = [NoWait EXCEPT !.for = "cancel", !.ticket = token, !.outcome = reason, !.tick = tick]
    BY <1>1 DEF Cancel
  <2>2. wait'.for = "cancel" /\ wait'.ticket = token /\ wait'.outcome = reason
    BY <2>1 DEF NoWait
  <2> QED BY <1>1, <2>2 DEF Cancel, HasSession, Gives, Effect
<1>2. CASE HasSession /\ token = NoTicket
  <2>1. rec'.thread = rec.thread
    BY <1>2, FlagKeepsRest DEF Cancel, Cancelled, TypeInv, TypeOK
  <2>2. /\ token' = token /\ Quiet /\ HoldEased /\ generation' = generation
        /\ last'.ticket = last.ticket /\ last'.outcome = reason
    BY <1>2 DEF Cancel, Cancelled, NoWait, Quiet, HoldEased
  <2>3. phase' \in {phase, "cancelling"} /\ (NotifyWorks => phase' = "cancelling")
    BY <1>2 DEF Cancel, Cancelled, Enter, AfterCancel
  <2>4. Cancels(last.ticket)
    BY <2>1, <2>2, <2>3 DEF Cancels
  <2> QED BY <1>2, <2>4 DEF HasSession, Effect
<1>3. CASE ~HasSession
  <2>1. Rests
    BY <1>3 DEF Cancel, NoWait, Rests, Same, Quiet, HoldEased
  <2> QED BY <2>1 DEF Effect
<1> QED BY <1>1, <1>2, <1>3

\* command('start'): a dictation is asked for, unless one goes on.
LEMMA StartEffect ==
    ASSUME wait.for = None, NEW context \in Fields \cup {NoField}, NEW hold, Start(context, hold)
    PROVE  Effect
<1>1. CASE phase = "idle"
  <2>1. wait'.for = "start" /\ wait'.context = context
    BY <1>1 DEF Start, NoWait
  <2> QED BY <1>1, <2>1 DEF Start, loopVars, recVars, Begins, Same, Effect
<1>2. CASE phase # "idle"
  BY <1>2 DEF Start, bridgeVars, loopVars, recVars, Rests, Same, Quiet, HoldEased, Effect
<1> QED BY <1>1, <1>2

\* command('stop'): a recording is stopped, if there is one.
LEMMA StopEffect ==
    ASSUME TypeInv, Stop, HoldEased, UNCHANGED <<calls, token, generation, last>>, wait'.for = None
    PROVE  Effect
<1>1. rec'.thread = rec.thread
  BY FlagKeepsRest DEF Stop, TypeInv, TypeOK
<1>2. CASE Capturing
  BY <1>1, <1>2 DEF Stop, Capturing, Enter, Stops, PhaseMoves, Quiet, Effect
<1>3. CASE ~Capturing
  BY <1>1, <1>3 DEF Stop, Rests, Same, Quiet, Effect
<1> QED BY <1>2, <1>3

\* finished(): the outcome is told and the session given up, or notifying raises.
LEMMA FinishedEffect ==
    ASSUME NEW outcome, NEW ticket, Finished(outcome, ticket), Quiet, UNCHANGED <<generation, holdGen>>
    PROVE  Finishes(outcome, ticket)
  BY DEF Finished, Enter, NoSession, Finishes

\* The end of event('done'): the ticket is given back first, if there is one.
LEMMA ReleaseEffect ==
    ASSUME NEW outcome, Release(outcome), UNCHANGED <<generation, holdGen>>
    PROVE  Ends(outcome)
<1>1. CASE GivesBack(outcome)
  <2>1. wait'.for = "release" /\ wait'.outcome = outcome
    BY <1>1 DEF Release, NoWait
  <2> QED BY <1>1, <2>1 DEF Release, GivesBack, Releases, Same, Ends
<1>2. CASE ~GivesBack(outcome)
  <2>1. Finished(outcome, last.ticket) /\ Quiet
    BY <1>2 DEF Release, Quiet, NoWait
  <2> QED BY <1>2, <2>1, FinishedEffect DEF GivesBack, Ends
<1> QED BY <1>1, <1>2

\* The second half of tick().
LEMMA EnforceEffect ==
    ASSUME TypeInv, wait.for # "cancel", Enforce
    PROVE  Effect
<1>1. CASE ~overdue
  <2>1. UNCHANGED <<calls, loopVars, recVars>> /\ wait' = NoWait
    BY <1>1 DEF Enforce
  <2>2. Rests
    BY <2>1 DEF loopVars, recVars, NoWait, Rests, Same, Quiet, HoldEased
  <2> QED BY <2>2 DEF Effect
<1>2. CASE overdue /\ phase = "recording"
  BY <1>2, StopEffect DEF Enforce, NoWait, HoldEased
<1>3. CASE overdue /\ phase # "recording"
  BY <1>3, CancelEffect DEF Enforce, CancelReasons
<1> QED BY <1>1, <1>2, <1>3

\* The handlers that an answer lets go on.
LEMMA ResumeEffect ==
    ASSUME TypeInv, Resume
    PROVE  Free /\ Effect
<1>1. Free
  BY NoneDiffers DEF Resume, Started, CancelAnswered, PreviewAnswered, CommitAnswered, ReleaseAnswered, TickAnswered,
         Answered, Free
<1> SUFFICES Effect
  BY <1>1
<1>2. CASE Started
  <2>1. wait.for = "start" /\ Quiet
    BY <1>2 DEF Started, Answered, Quiet, NoWait
  <2>2. CASE reply.answer = "yes"
    <3>1. rec'.thread = "running" /\ phase' = "connecting" /\ last' = last
      BY <1>2, <2>2 DEF Started, NewSession, NoSession, Enter
    <3>2. /\ generation' = generation + 1 /\ token' = reply.ticket
          /\ holdGen' \in {generation', NoHold} /\ (holdGen' # NoHold => wait.hold)
      BY <1>2, <2>2 DEF Started, HeldBy
    <3> QED BY <2>1, <2>2, <3>1, <3>2 DEF Opens, Effect
  <2>3. CASE reply.answer # "yes"
    BY <1>2, <2>1, <2>3 DEF Started, loopVars, recVars, Rests, Same, HoldEased, Effect
  <2> QED BY <2>2, <2>3
<1>3. CASE CancelAnswered
  <2>1. wait.for = "cancel" /\ Quiet /\ HoldEased /\ UNCHANGED <<token, generation>>
    BY <1>3 DEF CancelAnswered, Answered, Quiet, NoWait, HoldEased
  <2>2. rec'.thread = rec.thread
    BY <1>3, FlagKeepsRest DEF CancelAnswered, Cancelled, TypeInv, TypeOK
  <2>3. last'.ticket = wait.ticket /\ last'.outcome = wait.outcome
    BY <1>3 DEF CancelAnswered, Cancelled
  <2>4. phase' \in {phase, "cancelling"} /\ (NotifyWorks => phase' = "cancelling")
    BY <1>3 DEF CancelAnswered, Cancelled, Enter, AfterCancel
  <2>5. Cancels(wait.ticket)
    BY <2>1, <2>2, <2>3, <2>4 DEF Cancels
  <2> QED BY <2>1, <2>5, Zenon DEF Effect
<1>4. CASE PreviewAnswered
  <2>1. CASE reply.answer = "yes"
    BY <1>4, <2>1 DEF PreviewAnswered, NoWait, loopVars, recVars, Rests, Same, Quiet, HoldEased, Effect
  <2>2. CASE reply.answer # "yes"
    BY <1>4, <2>2, CancelEffect DEF PreviewAnswered, Answered, CancelReasons
  <2> QED BY <2>1, <2>2
<1>5. CASE CommitAnswered
  BY <1>5, ReleaseEffect DEF CommitAnswered, Answered, Effect
<1>6. CASE ReleaseAnswered
  <2>1. wait.for = "release" /\ Finishes(wait.outcome, token)
    BY <1>6, FinishedEffect DEF ReleaseAnswered, Answered, Quiet, NoWait
  <2> QED BY <2>1, Zenon DEF Effect
<1>7. CASE TickAnswered
  BY <1>7, EnforceEffect, CancelEffect DEF TickAnswered, Answered, CancelReasons
<1> QED BY <1>1, <1>2, <1>3, <1>4, <1>5, <1>6, <1>7 DEF Resume

\* The events of the session.
LEMMA EventEffect ==
    ASSUME TypeInv, HandleEvent
    PROVE  Free /\ Effect
<1>1. wait.for = None /\ up /\ reply' = reply
  BY DEF HandleEvent, DropEvent, HandleRecording, HandlePreview, HandleDone, Taking, Dispatching
<1> SUFFICES Effect
  BY <1>1 DEF Free
<1>2. CASE DropEvent
  BY <1>1, <1>2 DEF DropEvent, bridgeVars, loopVars, Rests, Same, Quiet, HoldEased, Effect
<1>3. CASE HandleRecording
  BY <1>1, <1>3 DEF HandleRecording, Enter, Rests, Same, Records, PhaseMoves, Quiet, HoldEased, Effect
<1>4. CASE HandlePreview
  <2>1. CASE phase \in {"connecting", "recording", "processing"} /\ token # NoTicket
    <3>1. Head(events).text \in Texts /\ wait'.for = "preview"
      <4>1. Head(events) \in Event
        BY <1>4, HeadTailProperties DEF HandlePreview, Taking, TypeInv, TypeOK, RecTypeOK
      <4> QED BY <1>4, <2>1, <4>1, Zenon DEF HandlePreview, NoWait, Event, Texts, None, NoText
    <3>2. Asks("Preview", "preview")
      BY <1>4, <2>1, <3>1 DEF HandlePreview, Same, loopVars, Asks
    <3> QED BY <1>1, <2>1, <3>2 DEF Effect
  <2>2. CASE ~(phase \in {"connecting", "recording", "processing"} /\ token # NoTicket)
    BY <1>1, <1>4, <2>2 DEF HandlePreview, loopVars, Rests, Same, Quiet, HoldEased, Effect
  <2> QED BY <2>1, <2>2
<1>5. CASE HandleDone
  <2>1. CASE MayCommit(Head(events).text)
    <3>1. Head(events).text \in Texts /\ wait'.for = "commit"
      <4>1. Head(events) \in Event
        BY <1>5, HeadTailProperties DEF HandleDone, Taking, TypeInv, TypeOK, RecTypeOK
      <4>2. Head(events).text \in Texts
        BY <4>1, Zenon DEF Event, Texts, None, NoText
      <4> QED BY <1>5, <2>1, <4>2 DEF HandleDone, NoWait
    <3>2. Asks("Commit", "commit") /\ phase # "idle"
      BY <1>5, <2>1, <3>1 DEF HandleDone, MayCommit, Same, Asks
    <3> QED BY <1>1, <3>2 DEF Effect
  <2>2. CASE ~MayCommit(Head(events).text)
    <3>1. rec.thread # "none"
      BY <1>5 DEF HandleDone, Taking, Current, HasSession
    <3> QED BY <1>1, <1>5, <2>2, <3>1, ReleaseEffect DEF HandleDone, Effect
  <2> QED BY <2>1, <2>2
<1> QED BY <1>1, <1>2, <1>3, <1>4, <1>5 DEF HandleEvent

\* The Shortcut and Invalidated signals.
LEMMA SignalEffect ==
    ASSUME TypeInv, HandleSignal
    PROVE  Free /\ Effect
<1>1. wait.for = None /\ up /\ reply' = reply /\ wait.for # "cancel"
  BY NoneDiffers DEF HandleSignal, HandleShortcut, HandleInvalidated, Dispatching
<1> SUFFICES Effect
  BY <1>1 DEF Free
<1>2. CASE UNCHANGED <<calls, bridgeVars, recVars>>
  BY <1>1, <1>2 DEF bridgeVars, loopVars, recVars, Rests, Same, Quiet, HoldEased, Effect
<1>3. CASE HandleInvalidated
  BY <1>1, <1>2, <1>3, CancelEffect DEF HandleInvalidated, CancelReasons
<1>4. CASE HandleShortcut
  <2>1. Head(signals).context \in Fields \cup {NoField}
    <3>1. Head(signals) \in Signal
      BY <1>4, HeadTailProperties DEF HandleShortcut, TypeInv, TypeOK, BusTypeOK
    <3> QED BY <3>1 DEF Signal
  <2>2. \/ \E hold \in BOOLEAN : Start(Head(signals).context, hold)
        \/ Cancel("cancelled", FALSE)
        \/ Stop /\ holdGen' \in {holdGen, NoHold} /\ UNCHANGED <<calls, token, generation, last, wait>>
        \/ holdGen' \in {holdGen, NoHold} /\ UNCHANGED <<calls, token, generation, last, wait, phase, rec>>
        \/ UNCHANGED <<calls, bridgeVars, recVars>>
    BY <1>4 DEF HandleShortcut, HandsFree, StopNow
  <2>3. CASE holdGen' \in {holdGen, NoHold} /\ UNCHANGED <<calls, token, generation, last, wait, phase, rec>>
    BY <1>1, <2>3 DEF Rests, Same, Quiet, HoldEased, Effect
  <2>4. CASE Stop /\ holdGen' \in {holdGen, NoHold} /\ UNCHANGED <<calls, token, generation, last, wait>>
    BY <1>1, <2>4, StopEffect DEF HoldEased
  <2> QED BY <1>1, <1>2, <2>1, <2>2, <2>3, <2>4, StartEffect, CancelEffect DEF CancelReasons
<1> QED BY <1>1, <1>3, <1>4 DEF HandleSignal

\* Every step of the main loop but the mere passing of time.
LEMMA LoopEffect ==
    ASSUME TypeInv, LoopStep, ~TimeUp
    PROVE  Free /\ Effect
<1>1. ASSUME Dispatching, reply' = reply PROVE Free /\ wait.for = None /\ wait.for # "cancel"
  BY <1>1, NoneDiffers DEF Dispatching, Free
<1>2. CASE Tick
  <2>1. Dispatching /\ reply' = reply
    BY <1>2 DEF Tick
  <2>2. CASE token # NoTicket
    <3>1. wait'.for = "valid" /\ None \in Texts
      BY <1>2, <2>2 DEF Tick, NoWait, Texts
    <3>2. Asks("Valid", "valid")
      BY <1>2, <2>2, <3>1 DEF Tick, loopVars, recVars, Same, Asks
    <3> QED BY <1>1, <2>1, <3>2 DEF Effect
  <2>3. CASE token = NoTicket
    BY <1>1, <1>2, <2>1, <2>3, EnforceEffect DEF Tick
  <2> QED BY <2>2, <2>3
<1>3. CASE Shutdown
  BY <1>1, <1>3, CancelEffect DEF Shutdown, CancelReasons
<1>4. ASSUME NEW command \in {"start", "stop", "toggle", "cancel"}, Command(command) PROVE Free /\ Effect
  <2>1. Dispatching /\ reply' = reply
    BY <1>4 DEF Command
  <2>2. CASE command = "start" \/ (command = "toggle" /\ phase = "idle")
    BY <1>1, <1>4, <2>1, <2>2, StartEffect DEF Command
  <2>3. CASE command = "stop" \/ (command = "toggle" /\ phase # "idle")
    <3>1. Stop /\ UNCHANGED <<calls, token, generation, last>> /\ HoldEased /\ wait'.for = None
      BY <1>1, <1>4, <2>1, <2>3 DEF Command, StopNow, HoldEased
    <3> QED BY <1>1, <2>1, <3>1, StopEffect
  <2>4. CASE command = "cancel"
    BY <1>1, <1>4, <2>1, <2>4, CancelEffect DEF Command, CancelReasons
  <2> QED BY <2>2, <2>3, <2>4
<1> QED BY <1>2, <1>3, <1>4, SignalEffect, EventEffect, ResumeEffect DEF LoopStep

-----------------------------------------------------------------------------
(* One call at a time: what is on its way to be answered is the call of the   *)
(* handler that waits.                                                        *)

Waits == up /\ wait.for # None /\ reply = NoReply
Fits(call, w, ticket) ==
    /\ w.for = "start" => call.op = "Begin" /\ call.context = w.context
    /\ w.for = "valid" => call.op = "Valid"
    /\ w.for = "preview" => call.op = "Preview"
    /\ w.for = "commit" => call.op = "Commit" /\ call.ticket = ticket
    /\ w.for = "release" => call.op = "Cancel" /\ call.ticket = ticket
    /\ w.for = "cancel" => call.op = "Cancel" /\ call.ticket = w.ticket
CallsInv ==
    /\ \A i \in 1..Len(calls) : calls[i].awaited => Waits /\ calls[i].from = self /\ Fits(calls[i], wait, token)
    /\ \A i, j \in 1..Len(calls) : calls[i].awaited /\ calls[j].awaited => i = j
    /\ reply # NoReply => wait.for # None

NoneAwaited == \A i \in 1..Len(calls) : ~calls[i].awaited

\* No call is on its way at first.
LEMMA CallsInvInit == Init => CallsInv
  BY DEF Init, BusInit, CallsInv

\* A step that touches neither the queue nor who waits.
LEMMA CallsUntouched ==
    ASSUME CallsInv, UNCHANGED <<calls, reply, self, up, wait, token>> PROVE CallsInv'
  BY DEF CallsInv, Waits

\* A queue none of whose calls is awaited.
LEMMA CallsForgotten ==
    ASSUME NoneAwaited', reply' # NoReply => wait'.for # None PROVE CallsInv'
  BY DEF CallsInv, NoneAwaited

\* A queue that grows by one call.
LEMMA CallsAppended ==
    ASSUME TypeInv, NoneAwaited, NEW call \in Call, calls' = Append(calls, call), reply' = NoReply,
           call.awaited => Waits' /\ call.from = self' /\ Fits(call, wait', token')
    PROVE  CallsInv'
<1> DEFINE n == Len(calls')
<1>1. calls \in Seq(Call)
  BY DEF TypeInv, TypeOK, BusTypeOK
<1>2. /\ n = Len(calls) + 1 /\ Len(calls) \in Nat /\ calls'[n] = call
      /\ \A i \in 1..n : i = n \/ (i \in 1..Len(calls) /\ calls'[i] = calls[i])
  BY <1>1, AppendProperties
<1>3. n = Len(calls')
  OBVIOUS
<1> HIDE DEF n
<1>4. \A i \in 1..n : calls'[i].awaited => i = n /\ calls'[i] = call
  BY <1>2 DEF NoneAwaited
<1>5. \A i \in 1..n : calls'[i].awaited =>
          Waits' /\ calls'[i].from = self' /\ Fits(calls'[i], wait', token')
  BY <1>4
<1> QED BY <1>3, <1>4, <1>5 DEF CallsInv

\* A call that is served was the only one awaited, or none that the coordinator waits for.
LEMMA CallsServed ==
    ASSUME TypeInv, CallsInv, calls # <<>>, calls' = Tail(calls),
           reply' = reply \/ Head(calls).awaited, UNCHANGED <<self, up, wait, token>>
    PROVE  CallsInv'
<1> DEFINE n == Len(calls')
<1>1. /\ Head(calls) = calls[1] /\ 1 \in 1..Len(calls) /\ n \in Nat
      /\ \A i \in 1..n : i \in Nat /\ i + 1 \in 1..Len(calls) /\ calls'[i] = calls[i + 1]
  BY TailFacts DEF TypeInv, TypeOK, BusTypeOK
<1>2. n = Len(calls')
  OBVIOUS
<1> HIDE DEF n
<1>3. ASSUME NEW i \in 1..n, calls'[i].awaited PROVE Waits' /\ calls'[i].from = self' /\ Fits(calls'[i], wait', token')
  <2>1. i + 1 \in 1..Len(calls) /\ calls[i + 1].awaited /\ i + 1 # 1 /\ calls'[i] = calls[i + 1]
    BY <1>1, <1>3
  <2>2. ~calls[1].awaited
    BY <1>1, <2>1 DEF CallsInv
  <2>3. reply' = reply
    BY <1>1, <2>2
  <2>4. Waits /\ calls[i + 1].from = self /\ Fits(calls[i + 1], wait, token)
    BY <2>1 DEF CallsInv
  <2> QED BY <2>1, <2>3, <2>4 DEF Waits
<1>4. ASSUME NEW i \in 1..n, NEW j \in 1..n, calls'[i].awaited, calls'[j].awaited PROVE i = j
  <2>1. i + 1 = j + 1
    BY <1>1, <1>4 DEF CallsInv
  <2> QED BY <1>1, <2>1
<1>5. reply' # NoReply => wait'.for # None
  BY <1>1 DEF CallsInv, Waits
<1> QED BY <1>2, <1>3, <1>4, <1>5 DEF CallsInv

\* The addon serves the oldest call.
LEMMA ServeKeepsCalls ==
    ASSUME TypeInv, CallsInv, Serve, UNCHANGED <<wait, token>> PROVE CallsInv'
<1>1. calls # <<>> /\ calls' = Tail(calls) /\ (reply' = reply \/ Head(calls).awaited)
  BY DEF Serve, ServeBegin, ServeValid, ServeCancel, ServePreview, ServeCommit, ServeGone, Serving, Answer
<1> QED BY <1>1, CallsServed DEF Serve

\* No call is awaited while a handler runs.
LEMMA FreeIsQuiet ==
    ASSUME CallsInv, Free PROVE NoneAwaited /\ reply' = NoReply
  BY DEF CallsInv, Waits, Free, NoneAwaited

\* What the main loop writes in a call.
LEMMA SentCall ==
    ASSUME TypeInv, NEW op \in Methods, NEW ticket \in Tickets \cup {NoTicket},
           NEW context \in Fields \cup {NoField}, NEW text \in Texts
    PROVE  LET call == Message(op, ticket, context, text) IN
           /\ call \in Call /\ call.awaited /\ call.from = self
           /\ call.op = op /\ call.ticket = ticket /\ call.context = context
  BY MessageTyped DEF TypeInv, TypeOK, Message

\* The main loop sends a call only when none is awaited.
LEMMA LoopKeepsCalls ==
    ASSUME TypeInv, CallsInv, Free, Effect, UNCHANGED <<self, up>> PROVE CallsInv'
<1>1. NoneAwaited /\ reply' = NoReply
  BY FreeIsQuiet
<1>2. CASE calls' = calls
  <2>1. NoneAwaited'
    BY <1>1, <1>2 DEF NoneAwaited
  <2> QED BY <1>1, <2>1, CallsForgotten
<1>3. token \in Tickets \cup {NoTicket} /\ up
  BY DEF TypeInv, TypeOK, BridgeTypeOK, Free
<1>4. None \in Texts /\ NoTicket \in Tickets \cup {NoTicket} /\ NoField \in Fields \cup {NoField}
  BY DEF Texts
<1>5. CASE Begins
  <2>1. PICK context \in Fields \cup {NoField} :
            wait'.for = "start" /\ wait'.context = context /\ Send("Begin", NoTicket, context, None)
    BY <1>5 DEF Begins
  <2> DEFINE call == Message("Begin", NoTicket, context, None)
  <2>2. call \in Call /\ call.from = self /\ call.op = "Begin" /\ call.context = context
    BY <1>4, SentCall DEF Methods
  <2>3. calls' = Append(calls, call)
    BY <2>1 DEF Send
  <2> HIDE DEF call
  <2>4. Waits' /\ call.from = self' /\ Fits(call, wait', token')
    BY <1>1, <1>3, <2>1, <2>2, NoneDiffers DEF Waits, Fits
  <2> QED BY <1>1, <2>2, <2>3, <2>4, CallsAppended
<1>6. ASSUME NEW op \in Methods, NEW text \in Texts, Send(op, token, NoField, text),
             \/ wait'.for = "valid" /\ op = "Valid"
             \/ wait'.for = "preview" /\ op = "Preview"
             \/ wait'.for = "commit" /\ op = "Commit" /\ token' = token
             \/ wait'.for = "release" /\ op = "Cancel" /\ token' = token
             \/ wait'.for = "cancel" /\ op = "Cancel" /\ wait'.ticket = token
      PROVE  CallsInv'
  <2> DEFINE call == Message(op, token, NoField, text)
  <2>2. call \in Call /\ call.from = self /\ call.op = op /\ call.ticket = token
    BY <1>3, SentCall
  <2>3. calls' = Append(calls, call)
    BY <1>6 DEF Send
  <2> HIDE DEF call
  <2>4. Waits' /\ call.from = self' /\ Fits(call, wait', token')
    BY <1>1, <1>3, <1>6, <2>2, NoneDiffers DEF Waits, Fits
  <2> QED BY <1>1, <2>2, <2>3, <2>4, CallsAppended
<1>7. ASSUME NEW op \in {"Valid", "Preview", "Commit"}, NEW handler, Asks(op, handler),
             \/ handler = "valid" /\ op = "Valid"
             \/ handler = "preview" /\ op = "Preview"
             \/ handler = "commit" /\ op = "Commit"
      PROVE  CallsInv'
  <2>1. op \in Methods
    BY DEF Methods
  <2> QED BY <1>6, <1>7, <2>1 DEF Asks, Same
<1>8. ASSUME NEW outcome, Ends(outcome) PROVE CallsInv'
  <2>1. "Cancel" \in Methods
    BY DEF Methods
  <2> QED BY <1>2, <1>4, <1>6, <1>8, <2>1 DEF Ends, Releases, Finishes, Quiet, Same
<1>9. CASE Gives
  <2>1. "Cancel" \in Methods
    BY DEF Methods
  <2> QED BY <1>4, <1>6, <1>9, <2>1 DEF Gives
<1>10. ASSUME NEW ticket, Cancels(ticket) PROVE CallsInv'
  BY <1>2, <1>10 DEF Cancels, Quiet
<1>11. CASE Rests \/ Stops \/ Records \/ Opens
  BY <1>2, <1>11 DEF Rests, Stops, Records, PhaseMoves, Opens, Quiet
<1>12. ASSUME NEW outcome, NEW ticket, Finishes(outcome, ticket) PROVE CallsInv'
  BY <1>2, <1>12 DEF Finishes, Quiet
<1> QED BY <1>5, <1>7, <1>8, <1>9, <1>10, <1>11, <1>12 DEF Effect

\* Calls given up on are awaited by nobody.
LEMMA ForsakenFacts ==
    ASSUME TypeInv
    PROVE  /\ Forsaken \in Seq(Call) /\ Len(Forsaken) = Len(calls)
           /\ \A i \in 1..Len(calls) : ~Forsaken[i].awaited /\ Forsaken[i].from = calls[i].from
<1>1. Forsaken \in Seq(Call)
  BY ForsakenTyped DEF TypeInv, TypeOK
<1>2. Len(calls) \in Nat /\ \A i \in 1..Len(calls) : calls[i] \in Call
  BY DEF TypeInv, TypeOK, BusTypeOK
<1>3. Len(Forsaken) = Len(calls)
  BY <1>2 DEF Forsaken
<1>4. \A i \in 1..Len(calls) : ~Forsaken[i].awaited /\ Forsaken[i].from = calls[i].from
  BY <1>2 DEF Forsaken, Call
<1> QED BY <1>1, <1>3, <1>4

\* The queue a process leaves behind.
LEMMA ExitCalls ==
    ASSUME TypeInv, Exit
    PROVE  NoneAwaited' /\ (\A i \in 1..Len(calls') : calls'[i].from \in {self} \cup {calls[j].from : j \in 1..Len(calls)})
<1> DEFINE leaving == [Message("gone", NoTicket, NoField, None) EXCEPT !.awaited = FALSE]
           n == Len(calls')
<1>1. calls' = Append(Forsaken, leaving) /\ ~leaving.awaited /\ leaving.from = self
  BY DEF Exit, Message
<1>2. leaving \in Call
  <2>1. Message("gone", NoTicket, NoField, None) \in Call
    BY MessageTyped DEF TypeInv, TypeOK, Texts
  <2> QED BY <2>1 DEF Call
<1> HIDE DEF leaving
<1>3. /\ n = Len(calls) + 1 /\ calls'[n] = leaving /\ Len(calls) \in Nat
      /\ \A i \in 1..n : i = n \/ (i \in 1..Len(calls) /\ calls'[i] = Forsaken[i])
  BY <1>1, <1>2, ForsakenFacts, AppendProperties
<1>4. n = Len(calls')
  OBVIOUS
<1> HIDE DEF n
<1> QED BY <1>1, <1>3, <1>4, ForsakenFacts DEF NoneAwaited

\* Every step of voice input.
LEMMA CallsInvStep == TypeInv /\ CallsInv /\ [Next]_vars => CallsInv'
<1> SUFFICES ASSUME TypeInv, CallsInv, [Next]_vars PROVE CallsInv'
  OBVIOUS
<1>1. CASE Addon /\ UserStep
  BY <1>1, CallsUntouched DEF Addon, UserStep, bridgeVars, loopVars
<1>2. CASE Addon /\ Serve
  BY <1>2, ServeKeepsCalls DEF Addon, bridgeVars, loopVars
<1>3. CASE Addon /\ AddonFault
  <2>1. wait' = wait /\ self' = self /\ up' = up
    BY <1>3 DEF Addon, AddonFault, AddonRestart, StrangerCall, bridgeVars
  <2>2. CASE AddonRestart
    <3>1. reply' # NoReply => wait'.for # None
      BY <2>1, <2>2 DEF AddonRestart, CallsInv, Waits
    <3>2. NoneAwaited'
      BY <2>2 DEF AddonRestart, NoneAwaited
    <3> QED BY <3>1, <3>2, CallsForgotten
  <2>3. ASSUME NEW op, NEW ticket, StrangerCall(op, ticket) PROVE CallsInv'
    <3> DEFINE call == [op |-> op, from |-> Stranger, ticket |-> ticket,
                        context |-> NoField, text |-> "safe", awaited |-> FALSE]
               n == Len(calls')
    <3>1. calls' = Append(calls, call) /\ ~call.awaited /\ calls \in Seq(Call)
      BY <2>3 DEF StrangerCall, TypeInv, TypeOK, BusTypeOK
    <3> HIDE DEF call
    <3>2. calls \in Seq(Call \cup {call}) /\ Len(calls) \in Nat
      <4>1. \A S, T : S \subseteq T => Seq(S) \subseteq Seq(T)
        BY SeqMonotonic
      <4>2. Call \subseteq Call \cup {call}
        OBVIOUS
      <4> QED BY <3>1, <4>1, <4>2, LenProperties
    <3>3. /\ n = Len(calls) + 1 /\ calls'[n] = call
          /\ \A i \in 1..n : i = n \/ (i \in 1..Len(calls) /\ calls'[i] = calls[i])
      BY <3>1, <3>2, AppendProperties
    <3>4. n = Len(calls')
      OBVIOUS
    <3> HIDE DEF n
    <3>5. \A i \in 1..n : calls'[i].awaited => i \in 1..Len(calls) /\ calls'[i] = calls[i]
      BY <3>1, <3>3
    <3>6. UNCHANGED <<reply, self, up, wait, token>>
      BY <1>3, <2>3 DEF Addon, StrangerCall, bridgeVars, loopVars
    <3> QED BY <3>4, <3>5, <3>6 DEF CallsInv, Waits
  <2> QED BY <1>3, <2>2, <2>3 DEF AddonFault
<1>4. CASE Session \/ UNCHANGED vars
  BY <1>4, CallsUntouched DEF Session, SessionRuns, vars, busVars, bridgeVars, loopVars
<1>5. CASE LoopStep
  <2>1. CASE TimeUp
    BY <1>5, <2>1, CallsUntouched DEF TimeUp, LoopStep
  <2>2. CASE ~TimeUp
    BY <1>5, <2>2, LoopEffect, LoopKeepsCalls DEF LoopStep
  <2> QED BY <2>1, <2>2
<1>6. CASE CallTimeout
  <2>1. calls' = Forsaken /\ wait' = wait /\ wait.for # None
    BY <1>6 DEF CallTimeout, bridgeVars
  <2>2. NoneAwaited'
    BY <2>1, ForsakenFacts DEF NoneAwaited
  <2> QED BY <2>1, <2>2, CallsForgotten
<1>7. CASE Exit
  <2>1. reply' = NoReply
    BY <1>7 DEF Exit
  <2> QED BY <1>7, <2>1, ExitCalls, CallsForgotten
<1>8. CASE Restart
  <2>1. NoneAwaited /\ UNCHANGED <<calls, reply, wait>>
    BY <1>8 DEF Restart, CallsInv, Waits, NoneAwaited, bridgeVars
  <2> QED BY <2>1, CallsForgotten DEF CallsInv, NoneAwaited
<1> QED BY <1>1, <1>2, <1>3, <1>4, <1>5, <1>6, <1>7, <1>8 DEF Next, Addon, Bridge, BridgeFault

-----------------------------------------------------------------------------
(* Tickets: those the coordinator holds were given out, and which handler     *)
(* waits says whether it holds one.                                           *)

Granted == wait.for = "start" /\ reply.answer = "yes"

\* The handler whose answer came is the one that goes on.
LEMMA LoopAnswer ==
    ASSUME TypeInv, LoopStep, ~TimeUp
    PROVE  /\ Granted => Opens
           /\ wait.for = "cancel" => Cancels(wait.ticket) /\ last'.outcome = wait.outcome
           /\ wait.for = "commit" => Ends(OutcomeOf(reply.answer))
           /\ wait.for = "release" => Finishes(wait.outcome, token)
<1>1. wait.for = None \/ Resume
  BY DEF LoopStep, HandleSignal, HandleShortcut, HandleInvalidated, HandleEvent, DropEvent, HandleRecording,
         HandlePreview, HandleDone, Taking, Tick, Shutdown, Command, Dispatching
<1>2. ASSUME Granted PROVE Opens
  <2>1. Started
    BY <1>1, <1>2, NoneDiffers DEF Granted, Resume, Started, CancelAnswered, PreviewAnswered, CommitAnswered,
       ReleaseAnswered, TickAnswered, Answered
  <2>2. rec'.thread = "running" /\ phase' = "connecting" /\ last' = last
    BY <1>2, <2>1 DEF Granted, Started, NewSession, NoSession, Enter
  <2>3. /\ generation' = generation + 1 /\ token' = reply.ticket
        /\ holdGen' \in {generation', NoHold} /\ (holdGen' # NoHold => wait.hold)
    BY <1>2, <2>1 DEF Granted, Started, HeldBy
  <2>4. Quiet
    BY <2>1 DEF Started, NoWait, Quiet
  <2> QED BY <1>2, <2>2, <2>3, <2>4 DEF Granted, Opens
<1>3. ASSUME wait.for = "cancel" PROVE Cancels(wait.ticket) /\ last'.outcome = wait.outcome
  <2>1. CancelAnswered
    BY <1>1, <1>3, NoneDiffers DEF Resume, Started, CancelAnswered, PreviewAnswered, CommitAnswered,
       ReleaseAnswered, TickAnswered, Answered
  <2>2. Quiet /\ HoldEased /\ UNCHANGED <<token, generation>>
    BY <2>1 DEF CancelAnswered, Quiet, NoWait, HoldEased
  <2>3. rec'.thread = rec.thread
    BY <2>1, FlagKeepsRest DEF CancelAnswered, Cancelled, TypeInv, TypeOK
  <2>4. last'.ticket = wait.ticket /\ last'.outcome = wait.outcome
    BY <2>1 DEF CancelAnswered, Cancelled
  <2>5. phase' \in {phase, "cancelling"} /\ (NotifyWorks => phase' = "cancelling")
    BY <2>1 DEF CancelAnswered, Cancelled, Enter, AfterCancel
  <2> QED BY <1>3, <2>2, <2>3, <2>4, <2>5 DEF Cancels
<1>4. ASSUME wait.for = "commit" PROVE Ends(OutcomeOf(reply.answer))
  <2>1. CommitAnswered
    BY <1>1, <1>4, NoneDiffers DEF Resume, Started, CancelAnswered, PreviewAnswered, CommitAnswered,
       ReleaseAnswered, TickAnswered, Answered
  <2> QED BY <2>1, ReleaseEffect DEF CommitAnswered
<1>5. ASSUME wait.for = "release" PROVE Finishes(wait.outcome, token)
  <2>1. ReleaseAnswered
    BY <1>1, <1>5, NoneDiffers DEF Resume, Started, CancelAnswered, PreviewAnswered, CommitAnswered,
       ReleaseAnswered, TickAnswered, Answered
  <2> QED BY <2>1, FinishedEffect DEF ReleaseAnswered, Quiet, NoWait
<1> QED BY <1>2, <1>3, <1>4, <1>5

\* What the other handlers come to.
Plain == wait.for \notin {"cancel", "commit", "release"} /\ ~Granted
Proceeds ==
    \/ Rests \/ Stops \/ Records \/ Begins \/ Gives
    \/ Asks("Valid", "valid")
    \/ (phase # "idle" /\ Asks("Preview", "preview"))
    \/ (phase # "idle" /\ Asks("Commit", "commit"))
    \/ (rec.thread # "none" /\ token = NoTicket /\ Cancels(last.ticket) /\ last'.outcome \in CancelReasons)
    \/ (rec.thread # "none" /\ Ends("no-final-result"))
GoesOn ==
    \/ (Plain /\ Proceeds)
    \/ (Granted /\ Opens)
    \/ (wait.for = "cancel" /\ Cancels(wait.ticket) /\ last'.outcome = wait.outcome)
    \/ (wait.for = "commit" /\ Ends(OutcomeOf(reply.answer)))
    \/ (wait.for = "release" /\ Finishes(wait.outcome, token))

\* Every step of the main loop but the mere passing of time, by what it waited for.
LEMMA LoopGoesOn ==
    ASSUME TypeInv, LoopStep, ~TimeUp
    PROVE  Free /\ GoesOn
<1>1. Free /\ Effect
  BY LoopEffect
<1>2. CASE ~Plain
  BY <1>1, <1>2, LoopAnswer DEF Plain, Granted, GoesOn
<1>3. CASE Plain
  <2>1. ~Opens
    BY <1>3 DEF Plain, Granted, Opens
  <2>2. Cancels(last.ticket) => last'.outcome \in CancelReasons
    BY <1>3 DEF Plain, Cancels
  <2>3. Proceeds
    BY <1>1, <1>3, <2>1, <2>2 DEF Plain, Effect, Proceeds
  <2> QED BY <1>1, <1>3, <2>3 DEF GoesOn
<1> QED BY <1>2, <1>3

-----------------------------------------------------------------------------
(* What the addon does with its delivery and with the call it serves. *)

oldest == Head(calls)
SameDelivery == pending'.ticket = pending.ticket /\ pending'.sender = pending.sender
NothingGiven == UNCHANGED <<nextTicket, issued, written>>
Turned ==
    \/ reply' = reply
    \/ /\ oldest.awaited
       /\ \E answer \in Answers :
             /\ reply' = [answer |-> answer, ticket |-> NoTicket]
             /\ (oldest.op = "Begin" => answer # "yes") /\ (oldest.op = "Commit" => answer = "no")

Leaves == /\ NothingGiven /\ SameDelivery /\ Turned
          /\ (oldest.op \in {"Cancel", "Commit"} => ~Owned(oldest))
Drops  == NothingGiven /\ pending' = NoDelivery /\ Turned
Grants ==
    /\ oldest.op = "Begin" /\ Asked(oldest) /\ nextTicket \in Tickets
    /\ nextTicket' = nextTicket + 1 /\ issued' = [issued EXCEPT ![nextTicket] = focus]
    /\ pending'.ticket = nextTicket /\ pending'.sender = oldest.from /\ written' = written
    /\ reply' = IF oldest.awaited THEN [answer |-> "yes", ticket |-> nextTicket] ELSE reply
Writes ==
    /\ oldest.op = "Commit" /\ Owned(oldest) /\ pending' = NoDelivery /\ UNCHANGED <<nextTicket, issued>>
    /\ pending.ticket \in Tickets /\ pending.field \in Fields
    /\ written' = [written EXCEPT ![pending.ticket][pending.field] = @ + 1]
    /\ reply' = IF oldest.awaited THEN [answer |-> "yes", ticket |-> NoTicket] ELSE reply

\* What serving a call comes to: the delivery stays, ends, begins or is written.
LEMMA ServeForms ==
    ASSUME TypeInv, Serve
    PROVE  /\ calls # <<>> /\ calls' = Tail(calls) /\ UNCHANGED <<self, up, faults>>
           /\ Leaves \/ Drops \/ Grants \/ Writes
<1>1. /\ calls # <<>> /\ calls' = Tail(calls) /\ UNCHANGED <<self, up, faults>>
  BY DEF Serve, ServeBegin, ServeValid, ServeCancel, ServePreview, ServeCommit, ServeGone, Serving
<1>2. SameDelivery \/ pending' # pending
  BY DEF SameDelivery
<1>3. ASSUME NEW answer \in Answers, Answer(oldest, answer, NoTicket),
             oldest.op = "Begin" => answer # "yes", oldest.op = "Commit" => answer = "no"
      PROVE  Turned
  BY <1>3 DEF Answer, Turned
<1>4. "yes" \in Answers /\ "no" \in Answers /\ "error" \in Answers
  BY DEF Answers
<1> SUFFICES Leaves \/ Drops \/ Grants \/ Writes
  BY <1>1
<1>5. CASE ServeBegin
  <2>1. oldest.op = "Begin" /\ written' = written
    BY <1>5 DEF ServeBegin, Serving, oldest
  <2>2. CASE ~Asked(oldest)
    <3>1. Answer(oldest, "no", NoTicket) /\ NothingGiven /\ pending' = pending
      BY <1>5, <2>1, <2>2 DEF ServeBegin, oldest, NothingGiven
    <3> QED BY <1>2, <1>3, <1>4, <2>1, <3>1 DEF Leaves
  <2>3. CASE Asked(oldest) /\ \E answer \in {"no", "error"} : Answer(oldest, answer, NoTicket) /\ pending' = NoDelivery
                                                              /\ UNCHANGED <<nextTicket, issued>>
    BY <1>3, <1>4, <2>1, <2>3 DEF Drops, NothingGiven
  <2>4. CASE /\ Asked(oldest) /\ nextTicket \in Tickets /\ Answer(oldest, "yes", nextTicket)
             /\ pending' = [NoDelivery EXCEPT !.ticket = nextTicket, !.sender = oldest.from, !.field = focus]
             /\ nextTicket' = nextTicket + 1
             /\ issued' = [issued EXCEPT ![nextTicket] = focus]
    <3>1. pending'.ticket = nextTicket /\ pending'.sender = oldest.from
      BY <2>4 DEF NoDelivery
    <3> QED BY <2>1, <2>4, <3>1 DEF Grants, Answer
  <2> QED BY <1>5, <2>2, <2>3, <2>4 DEF ServeBegin, oldest
<1>6. CASE ServeValid
  <2>1. oldest.op = "Valid" /\ NothingGiven /\ pending' = pending
    BY <1>6 DEF ServeValid, Serving, oldest, NothingGiven
  <2>2. PICK answer \in Answers : Answer(oldest, answer, NoTicket)
    BY <1>4, <1>6 DEF ServeValid, oldest
  <2> QED BY <1>2, <1>3, <2>1, <2>2 DEF Leaves
<1>7. CASE ServeCancel
  <2>1. oldest.op = "Cancel" /\ NothingGiven
    BY <1>7 DEF ServeCancel, Serving, oldest, NothingGiven
  <2>2. CASE Owned(oldest)
    BY <1>3, <1>4, <1>7, <2>1, <2>2 DEF ServeCancel, oldest, Drops
  <2>3. CASE ~Owned(oldest)
    BY <1>2, <1>3, <1>4, <1>7, <2>1, <2>3 DEF ServeCancel, oldest, Leaves
  <2> QED BY <2>2, <2>3
<1>8. CASE ServePreview
  <2>1. oldest.op = "Preview" /\ NothingGiven
    BY <1>8 DEF ServePreview, Serving, oldest, NothingGiven
  <2>2. CASE ValidFor(oldest) /\ oldest.text # "unsafe"
    <3>1. pending \in Delivery /\ pending' = [pending EXCEPT !.preview = TRUE] /\ Answer(oldest, "yes", NoTicket)
      BY <1>8, <2>2, PendingTyped DEF ServePreview, oldest, ValidFor, Owned, TypeInv, TypeOK
    <3>2. SameDelivery
      BY <3>1 DEF Delivery, SameDelivery
    <3> QED BY <1>3, <1>4, <2>1, <3>1, <3>2 DEF Leaves
  <2>3. CASE ~(ValidFor(oldest) /\ oldest.text # "unsafe")
    BY <1>2, <1>3, <1>4, <1>8, <2>1, <2>3 DEF ServePreview, oldest, Leaves
  <2> QED BY <2>2, <2>3
<1>9. CASE ServeCommit
  <2>1. oldest.op = "Commit" /\ UNCHANGED <<nextTicket, issued>>
    BY <1>9 DEF ServeCommit, Serving, oldest
  <2>2. CASE Owned(oldest) /\ Accepts(oldest)
    <3>1. pending \in Delivery
      BY <2>2, PendingTyped DEF Owned, TypeInv, TypeOK
    <3>2. pending.ticket \in Tickets /\ pending.field \in Fields
      BY <3>1 DEF Delivery
    <3>3. oldest.ticket = pending.ticket
      BY <2>2 DEF Owned
    <3>4. written' = [written EXCEPT ![pending.ticket][pending.field] = @ + 1]
      BY <1>9, <2>2, <3>3 DEF ServeCommit, oldest
    <3> QED BY <1>9, <2>1, <2>2, <3>2, <3>4 DEF ServeCommit, Consumed, Answer, oldest, Writes
  <2>3. CASE Owned(oldest) /\ ~Accepts(oldest)
    BY <1>3, <1>4, <1>9, <2>1, <2>3 DEF ServeCommit, Consumed, oldest, Drops, NothingGiven
  <2>4. CASE ~Owned(oldest)
    BY <1>2, <1>3, <1>4, <1>9, <2>1, <2>4 DEF ServeCommit, oldest, Leaves, NothingGiven
  <2> QED BY <2>2, <2>3, <2>4
<1>10. CASE ServeGone
  <2>1. oldest.op = "gone" /\ NothingGiven /\ reply' = reply
    BY <1>10 DEF ServeGone, Serving, oldest, NothingGiven
  <2> QED BY <1>2, <1>10, <2>1 DEF ServeGone, Turned, Leaves, Drops
<1> QED BY <1>5, <1>6, <1>7, <1>8, <1>9, <1>10 DEF Serve

\* Keys, field events and time may end the delivery and give none.
LEMMA UserForm ==
    ASSUME TypeInv, UserStep
    PROVE  /\ pending' = NoDelivery \/ SameDelivery
           /\ NothingGiven /\ UNCHANGED <<calls, reply, self, up, faults>>
<1>1. NothingGiven /\ UNCHANGED <<calls, reply, self, up, faults>>
  BY DEF UserStep, NothingGiven
<1> SUFFICES pending' = NoDelivery \/ SameDelivery
  BY <1>1
<1>2. CASE pending' \in {pending, NoDelivery}
  BY <1>2 DEF SameDelivery
<1>3. CASE Expire
  <2>1. pending \in Delivery
    BY <1>3, PendingTyped DEF Expire, TypeInv, TypeOK
  <2> QED BY <1>3, <2>1 DEF Expire, Delivery, SameDelivery
<1>4. ASSUME NEW composition, Typed(composition) PROVE pending' \in {pending, NoDelivery}
  BY <1>4 DEF Typed
<1>5. ASSUME NEW field, Disturbed(field) PROVE pending' \in {pending, NoDelivery}
  BY <1>5 DEF Disturbed
<1>6. ASSUME NEW field, ToggleSensitive(field) PROVE pending' \in {pending, NoDelivery}
  BY <1>6 DEF ToggleSensitive
<1>7. ASSUME NEW field, ChangeFocus(field) PROVE pending' \in {pending, NoDelivery}
  BY <1>5, <1>7 DEF ChangeFocus
<1>8. ASSUME NEW mods, SpacePress(mods) PROVE pending' \in {pending, NoDelivery}
  BY <1>4, <1>8 DEF SpacePress
<1>9. HoldTimer \/ AltRelease \/ ModifierPress \/ SpaceRelease \/ (\E mods \in BOOLEAN : AltPress(mods))
        \/ (\E on \in BOOLEAN : ReloadConfig(on)) => pending' = pending
  BY DEF HoldTimer, AltRelease, ModifierPress, SpaceRelease, AltPress, ReloadConfig
<1>10. TypeKey => pending' \in {pending, NoDelivery}
  BY <1>4 DEF TypeKey
<1>11. ASSUME NEW field, FieldReset(field) PROVE pending' \in {pending, NoDelivery}
  BY <1>5, <1>11 DEF FieldReset
<1> QED BY <1>2, <1>3, <1>6, <1>7, <1>8, <1>9, <1>10, <1>11 DEF UserStep

\* Faults leave the delivery alone or end it, and answer nothing but an error.
LEMMA FaultForm ==
    ASSUME TypeInv, AddonFault
    PROVE  /\ pending' = NoDelivery \/ SameDelivery
           /\ NothingGiven /\ UNCHANGED <<self, up>> /\ faults' = faults + 1
           /\ reply' = reply \/ reply' = [answer |-> "error", ticket |-> NoTicket]
<1>1. CASE AddonRestart
  BY <1>1 DEF AddonRestart, NothingGiven
<1>2. ASSUME NEW op, NEW ticket, StrangerCall(op, ticket)
      PROVE  /\ SameDelivery /\ NothingGiven /\ UNCHANGED <<self, up, reply>> /\ faults' = faults + 1
  BY <1>2 DEF StrangerCall, addonVars, ghostVars, SameDelivery, NothingGiven
<1> QED BY <1>1, <1>2 DEF AddonFault

TicketInv ==
    /\ token < nextTicket /\ pending.ticket < nextTicket
    /\ wait.for = "cancel" => wait.ticket # NoTicket /\ wait.ticket < nextTicket /\ token = NoTicket
    /\ Granted => /\ reply.ticket \in Tickets /\ reply.ticket < nextTicket
                  /\ wait.context # NoField => issued[reply.ticket] = wait.context
    /\ phase = "idle" => token = NoTicket
    /\ wait.for \in {"valid", "preview", "commit", "release"} => token # NoTicket
    /\ wait.for \in {"valid", "preview", "commit", "release", "cancel"} => phase # "idle"
    /\ ~up => wait.for = None /\ phase = "idle"

\* No ticket was drawn at first.
LEMMA TicketInvInit == Init => TicketInv
<1> SUFFICES ASSUME Init PROVE TicketInv
  OBVIOUS
<1>1. wait.for = None /\ token = 0 /\ nextTicket = 1 /\ pending.ticket = 0 /\ up
  BY DEF Init, BusInit, AddonInit, BridgeInit, NoWait, NoTicket, NoDelivery
<1> QED BY <1>1, NoneDiffers DEF TicketInv, Granted, NoTicket

\* Tickets are numbers, NoTicket is none of them.
LEMMA TicketTypes ==
    ASSUME TypeInv
    PROVE  /\ nextTicket \in Nat /\ nextTicket >= 1 /\ token \in Nat /\ pending.ticket \in Nat
           /\ reply.ticket \in Nat /\ wait.ticket \in Nat /\ last.ticket \in Nat
           /\ NoTicket = 0 /\ NoDelivery.ticket = NoTicket /\ \A t \in Tickets : t # NoTicket /\ t \in Nat
           /\ token \in Tickets \cup {NoTicket} /\ wait.ticket \in Tickets \cup {NoTicket}
           /\ last.ticket \in Tickets \cup {NoTicket} /\ pending.ticket \in Tickets \cup {NoTicket}
<1>1. pending.ticket \in Tickets \cup {NoTicket}
  BY DEF TypeInv, TypeOK, AddonTypeOK, Delivery, NoDelivery
<1>2. reply.ticket \in Tickets \cup {NoTicket}
  BY DEF TypeInv, TypeOK, BusTypeOK, Reply, NoReply
<1>3. /\ token \in Tickets \cup {NoTicket} /\ wait.ticket \in Tickets \cup {NoTicket}
      /\ last.ticket \in Tickets \cup {NoTicket}
  BY DEF TypeInv, TypeOK, BridgeTypeOK, Waiting, LastReport
<1>4. NoTicket = 0 /\ NoDelivery.ticket = NoTicket /\ \A t \in Tickets : t # NoTicket /\ t \in Nat
  BY BusAssumption DEF NoTicket, NoDelivery, Tickets
<1>5. nextTicket \in Nat /\ nextTicket >= 1
  BY BusAssumption DEF TypeInv, TypeOK, AddonTypeOK
<1> QED BY <1>1, <1>2, <1>3, <1>4, <1>5

\* Steps that give out no ticket and tell the coordinator of none.
LEMMA TicketUntouched ==
    ASSUME TypeInv, TicketInv, UNCHANGED <<token, wait, phase, up, nextTicket, issued>>,
           pending' = NoDelivery \/ SameDelivery,
           reply' = reply \/ ~Granted'
    PROVE  TicketInv'
<1>1. pending'.ticket < nextTicket'
  BY TicketTypes DEF TicketInv, SameDelivery
<1>2. CASE reply' = reply
  BY <1>1, <1>2 DEF TicketInv, Granted
<1>3. CASE ~Granted'
  BY <1>1, <1>3 DEF TicketInv
<1> QED BY <1>2, <1>3

\* The oldest call, when it is awaited, is that of the handler that waits.
LEMMA HeadFits ==
    ASSUME TypeInv, CallsInv, calls # <<>>, oldest.awaited
    PROVE  Waits /\ oldest.from = self /\ Fits(oldest, wait, token)
<1>1. oldest = calls[1] /\ 1 \in 1..Len(calls)
  BY TailFacts DEF TypeInv, TypeOK, BusTypeOK, oldest
<1> QED BY <1>1 DEF CallsInv

\* The addon serves the oldest call.
LEMMA ServeKeepsTickets ==
    ASSUME TypeInv, CallsInv, TicketInv, Serve, UNCHANGED <<token, wait, phase>>
    PROVE  TicketInv'
<1>1. /\ calls # <<>> /\ up' = up
      /\ Leaves \/ Drops \/ Grants \/ Writes
  BY ServeForms
<1>2. ASSUME wait.for = "start", oldest.awaited PROVE oldest.op = "Begin" /\ oldest.context = wait.context
  BY <1>1, <1>2, HeadFits DEF Fits
<1>3. CASE Leaves \/ Drops
  <2>1. reply' = reply \/ ~Granted'
    BY <1>2, <1>3 DEF Leaves, Drops, Turned, Granted
  <2> QED BY <1>1, <1>3, <2>1, TicketUntouched DEF Leaves, Drops, NothingGiven
<1>4. CASE Writes
  <2>1. reply' = reply \/ ~Granted'
    BY <1>2, <1>4 DEF Writes, Granted
  <2> QED BY <1>1, <1>4, <2>1, TicketUntouched DEF Writes
<1>5. CASE Grants
  <2>1. /\ nextTicket' = nextTicket + 1 /\ pending'.ticket = nextTicket /\ nextTicket \in Tickets
        /\ issued' = [issued EXCEPT ![nextTicket] = focus] /\ issued \in [Tickets -> Fields \cup {NoField}]
    BY <1>5 DEF Grants, TypeInv, TypeOK, AddonTypeOK
  <2>2. token' < nextTicket' /\ pending'.ticket < nextTicket'
    BY <2>1, TicketTypes DEF TicketInv
  <2>3. wait'.for = "cancel" => wait'.ticket # NoTicket /\ wait'.ticket < nextTicket' /\ token' = NoTicket
    BY <2>1, TicketTypes DEF TicketInv
  <2>4. Granted' => /\ reply'.ticket \in Tickets /\ reply'.ticket < nextTicket'
                    /\ wait'.context # NoField => issued'[reply'.ticket] = wait'.context
    <3>1. SUFFICES ASSUME Granted'
                   PROVE  /\ reply'.ticket \in Tickets /\ reply'.ticket < nextTicket'
                          /\ wait'.context # NoField => issued'[reply'.ticket] = wait'.context
      OBVIOUS
    <3>2. CASE oldest.awaited
      <4>1. reply'.ticket = nextTicket
        BY <1>5, <3>2 DEF Grants
      <4>2. wait'.context # NoField => focus = wait'.context
        BY <1>2, <1>5, <3>1, <3>2 DEF Grants, Asked, Granted
      <4> QED BY <2>1, <4>1, <4>2, TicketTypes
    <3>3. CASE ~oldest.awaited
      <4>1. reply' = reply
        BY <1>5, <3>3 DEF Grants
      <4>2. Granted
        BY <3>1, <4>1 DEF Granted
      <4>3. /\ reply.ticket \in Tickets /\ reply.ticket < nextTicket
            /\ wait.context # NoField => issued[reply.ticket] = wait.context
        BY <4>2 DEF TicketInv
      <4>4. issued'[reply.ticket] = issued[reply.ticket]
        BY <2>1, <4>3, TicketTypes
      <4> QED BY <2>1, <4>1, <4>3, <4>4, TicketTypes
    <3> QED BY <3>2, <3>3
  <2> QED BY <1>1, <2>2, <2>3, <2>4 DEF TicketInv
<1> QED BY <1>1, <1>3, <1>4, <1>5

\* Every handler of the main loop.
LEMMA LoopKeepsTickets ==
    ASSUME TypeInv, SessionInv, CallsInv, TicketInv, Free, GoesOn, UNCHANGED <<up, addonVars>>
    PROVE  TicketInv'
<1>1. /\ reply' = NoReply /\ up /\ up'
      /\ UNCHANGED <<nextTicket, issued, pending>>
  BY FreeIsQuiet DEF Free, addonVars, ghostVars
<1>2. ~Granted'
  BY <1>1 DEF Granted, NoReply
<1>3. ASSUME token' = token, wait'.for = None, phase' = "idle" => phase = "idle" PROVE TicketInv'
  BY <1>1, <1>2, <1>3, NoneDiffers DEF TicketInv
<1>4. ASSUME NEW outcome, Ends(outcome) PROVE TicketInv'
  <2>1. CASE Releases(outcome)
    BY <1>1, <1>2, <2>1 DEF Releases, Same, TicketInv
  <2>2. CASE token = NoTicket /\ Finishes(outcome, last.ticket)
    BY <1>1, <1>2, <2>2, NoneDiffers DEF Finishes, Quiet, TicketInv
  <2> QED BY <1>4, <2>1, <2>2 DEF Ends
<1>5. ASSUME NEW ticket, Cancels(ticket) PROVE TicketInv'
  BY <1>3, <1>5 DEF Cancels, Quiet
<1>6. CASE Finishes(wait.outcome, token)
  BY <1>1, <1>2, <1>6, NoneDiffers, TicketTypes DEF Finishes, Quiet, TicketInv
<1>7. CASE Granted /\ Opens
  <2>1. token' = reply.ticket /\ reply.ticket < nextTicket /\ phase' = "connecting" /\ wait'.for = None
    BY <1>7 DEF Opens, Quiet, TicketInv
  <2> QED BY <1>1, <1>2, <2>1, NoneDiffers DEF TicketInv
<1>8. CASE Rests \/ Stops \/ Records
  BY <1>3, <1>8 DEF Rests, Stops, Records, PhaseMoves, Quiet, Same
<1>9. CASE Begins
  BY <1>1, <1>2, <1>9 DEF Begins, Same, TicketInv
<1>10. CASE Gives
  BY <1>1, <1>2, <1>10, TicketTypes DEF Gives, TicketInv
<1>11. ASSUME NEW op, NEW handler \in {"valid", "preview", "commit"}, Asks(op, handler) PROVE TicketInv'
  BY <1>1, <1>2, <1>11 DEF Asks, Same, TicketInv
<1> QED BY <1>4, <1>5, <1>6, <1>7, <1>8, <1>9, <1>10, <1>11 DEF GoesOn, Proceeds

\* Every step of voice input.
LEMMA TicketInvStep == TypeInv /\ SessionInv /\ CallsInv /\ TicketInv /\ [Next]_vars => TicketInv'
<1> SUFFICES ASSUME TypeInv, SessionInv, CallsInv, TicketInv, [Next]_vars PROVE TicketInv'
  OBVIOUS
<1>1. CASE Addon /\ UserStep
  BY <1>1, UserForm, TicketUntouched DEF Addon, NothingGiven, bridgeVars, loopVars
<1>2. CASE Addon /\ Serve
  BY <1>2, ServeKeepsTickets DEF Addon, bridgeVars, loopVars
<1>3. CASE Addon /\ AddonFault
  <2>1. reply' = reply \/ ~Granted'
    BY <1>3, FaultForm DEF Granted
  <2> QED BY <1>3, <2>1, FaultForm, TicketUntouched DEF Addon, NothingGiven, bridgeVars, loopVars
<1>4. CASE Session \/ UNCHANGED vars \/ (Bridge /\ LoopStep /\ TimeUp)
  <2>1. UNCHANGED <<token, wait, phase, up, nextTicket, issued, reply, pending>>
    BY <1>4 DEF Session, SessionRuns, Bridge, TimeUp, vars, busVars, bridgeVars, loopVars, addonVars, ghostVars,
       LoopStep
  <2> QED BY <2>1, TicketUntouched DEF SameDelivery
<1>5. CASE Bridge /\ LoopStep /\ ~TimeUp
  <2>1. Free /\ GoesOn
    BY <1>5, LoopGoesOn
  <2> QED BY <1>5, <2>1, LoopKeepsTickets DEF Bridge, LoopStep
<1>6. CASE Bridge /\ CallTimeout
  <2>1. UNCHANGED <<token, wait, phase, up, nextTicket, issued, pending>> /\ ~Granted'
    BY <1>6 DEF Bridge, CallTimeout, Granted, bridgeVars, loopVars, addonVars, ghostVars
  <2> QED BY <2>1, TicketUntouched DEF SameDelivery
<1>7. CASE Bridge /\ Exit
  <2>1. /\ wait' = NoWait /\ phase' = "idle" /\ token' = NoTicket
        /\ UNCHANGED <<nextTicket, pending>>
    BY <1>7 DEF Bridge, Exit, BridgeReset, addonVars
  <2>2. wait'.for = None
    BY <2>1 DEF NoWait
  <2> QED BY <2>1, <2>2, NoneDiffers, TicketTypes DEF TicketInv, Granted
<1>8. CASE Bridge /\ Restart
  <2>1. UNCHANGED <<token, wait, phase, nextTicket, issued, pending, reply>> /\ up'
    BY <1>8 DEF Bridge, Restart, bridgeVars, loopVars, addonVars, ghostVars
  <2> QED BY <2>1 DEF TicketInv, Granted
<1> QED BY <1>1, <1>2, <1>3, <1>4, <1>5, <1>6, <1>7, <1>8 DEF Next, Addon, Bridge, BridgeFault

\* One call at a time and tickets that were given out, throughout.
THEOREM TicketInvariant == Spec => [](CallsInv /\ TicketInv)
<1>1. Init => CallsInv /\ TicketInv
  BY CallsInvInit, TicketInvInit
<1>2. TypeInv /\ SessionInv /\ (CallsInv /\ TicketInv) /\ [Next]_vars => (CallsInv /\ TicketInv)'
  BY CallsInvStep, TicketInvStep
<1> QED BY <1>1, <1>2, TypeInvariant, SessionInvariant, PTL DEF Spec

\* A dictation asked for by a shortcut in a field begins in that field or not at all,
\* wherever the focus went before the call was served (BeginForContext of voice.cpp).
THEOREM StartedWhereAsked == Spec => []StartsWhereAsked
<1>1. TicketInv => StartsWhereAsked
  BY DEF TicketInv, Granted, StartsWhereAsked
<1> QED BY <1>1, TicketInvariant, PTL

-----------------------------------------------------------------------------
(* Who asked: no name of the bus is used before its process runs, and while  *)
(* nothing went wrong the coordinator accounts for its ticket.               *)

NamesInv ==
    /\ \A i \in 1..Len(calls) : calls[i].from <= self
    /\ pending.sender <= self

\* What the main loop adds to the queue.
LEMMA LoopQueue ==
    ASSUME TypeInv, GoesOn
    PROVE  \/ calls' = calls
           \/ \E call \in Call : calls' = Append(calls, call) /\ call.from = self /\ call.awaited
<1>1. /\ token \in Tickets \cup {NoTicket} /\ NoTicket \in Tickets \cup {NoTicket}
      /\ NoField \in Fields \cup {NoField} /\ None \in Texts
  BY DEF TypeInv, TypeOK, BridgeTypeOK, Texts
<1>2. ASSUME NEW op \in Methods, NEW ticket \in Tickets \cup {NoTicket}, NEW context \in Fields \cup {NoField},
             NEW text \in Texts, Send(op, ticket, context, text)
      PROVE  \E call \in Call : calls' = Append(calls, call) /\ call.from = self /\ call.awaited
  BY <1>2, SentCall DEF Send
<1>3. "Begin" \in Methods /\ "Valid" \in Methods /\ "Preview" \in Methods /\ "Commit" \in Methods
      /\ "Cancel" \in Methods
  BY DEF Methods
<1>4. ASSUME NEW outcome, Ends(outcome)
      PROVE  calls' = calls \/ \E call \in Call : calls' = Append(calls, call) /\ call.from = self /\ call.awaited
  BY <1>1, <1>2, <1>3, <1>4 DEF Ends, Releases, Finishes, Quiet
<1>5. CASE Gives \/ Begins
  BY <1>1, <1>2, <1>3, <1>5 DEF Gives, Begins
<1>6. ASSUME NEW op \in {"Valid", "Preview", "Commit"}, NEW handler, Asks(op, handler)
      PROVE  \E call \in Call : calls' = Append(calls, call) /\ call.from = self /\ call.awaited
  <2>1. op \in Methods
    BY DEF Methods
  <2> QED BY <1>1, <1>2, <1>6, <2>1 DEF Asks
<1>7. Rests \/ Stops \/ Records \/ Opens => calls' = calls
  BY DEF Rests, Stops, Records, PhaseMoves, Opens, Quiet
<1>8. \A ticket : Cancels(ticket) => calls' = calls
  BY DEF Cancels, Quiet
<1>9. Finishes(wait.outcome, token) => calls' = calls
  BY DEF Finishes, Quiet
<1> QED BY <1>4, <1>5, <1>6, <1>7, <1>8, <1>9 DEF GoesOn, Proceeds

\* The queue after its head is taken.
LEMMA ServedQueue ==
    ASSUME TypeInv, calls # <<>>, calls' = Tail(calls)
    PROVE  /\ \A i \in 1..Len(calls') : i + 1 \in 1..Len(calls) /\ calls'[i] = calls[i + 1]
           /\ 1 \in 1..Len(calls) /\ oldest = calls[1]
  BY TailFacts DEF TypeInv, TypeOK, BusTypeOK, oldest

\* The queue after it grew.
LEMMA GrownQueue ==
    ASSUME TypeInv, NEW call, calls' = Append(calls, call)
    PROVE  \A i \in 1..Len(calls') : calls'[i] = call \/ (i \in 1..Len(calls) /\ calls'[i] = calls[i])
<1>1. calls \in Seq(Call \cup {call})
  <2>1. \A S, T : S \subseteq T => Seq(S) \subseteq Seq(T)
    BY SeqMonotonic
  <2>2. Call \subseteq Call \cup {call} /\ calls \in Seq(Call)
    BY DEF TypeInv, TypeOK, BusTypeOK
  <2> QED BY <2>1, <2>2
<1> QED BY <1>1, AppendProperties

\* Only the first process runs at first.
LEMMA NamesInvInit == Init => NamesInv
<1> SUFFICES ASSUME Init PROVE NamesInv
  OBVIOUS
<1>1. calls = <<>> /\ pending.sender = 0 /\ self = 1
  BY DEF Init, BusInit, AddonInit, NoDelivery, Stranger
<1> QED BY <1>1 DEF NamesInv

\* Every step of voice input.
LEMMA NamesInvStep == TypeInv /\ NamesInv /\ [Next]_vars => NamesInv'
<1> SUFFICES ASSUME TypeInv, NamesInv, [Next]_vars PROVE NamesInv'
  OBVIOUS
<1>1. /\ self \in Nat /\ self >= 1 /\ pending.sender \in Nat
      /\ \A i \in 1..Len(calls) : calls[i].from \in Nat
  <2>1. pending.sender \in Senders /\ self \in 1..MaxStarts
    BY BusAssumption DEF TypeInv, TypeOK, BusTypeOK, AddonTypeOK, Delivery, NoDelivery, Senders, Stranger
  <2>2. \A i \in 1..Len(calls) : calls[i] \in Call
    BY DEF TypeInv, TypeOK, BusTypeOK
  <2>3. \A i \in 1..Len(calls) : calls[i].from \in Senders
    BY <2>2 DEF Call
  <2> QED BY <2>1, <2>3, BusAssumption DEF Senders
<1>2. NoDelivery.sender = 0
  BY DEF NoDelivery, Stranger
<1>3. pending' = NoDelivery \/ SameDelivery => pending'.sender <= self
  BY <1>1, <1>2 DEF NamesInv, SameDelivery
<1>4. calls' = calls /\ self' = self => \A i \in 1..Len(calls') : calls'[i].from <= self'
  BY DEF NamesInv
<1>5. CASE Addon /\ UserStep
  BY <1>3, <1>4, <1>5, UserForm DEF NamesInv
<1>6. CASE Addon /\ Serve
  <2>1. /\ calls # <<>> /\ calls' = Tail(calls) /\ self' = self
        /\ Leaves \/ Drops \/ Grants \/ Writes
    BY <1>6, ServeForms
  <2>2. \A i \in 1..Len(calls') : calls'[i].from <= self
    BY <2>1, ServedQueue DEF NamesInv
  <2>3. pending'.sender <= self
    BY <1>3, <2>1, ServedQueue DEF Leaves, Drops, Grants, Writes, NamesInv
  <2> QED BY <2>1, <2>2, <2>3 DEF NamesInv
<1>7. CASE Addon /\ AddonFault
  <2>1. pending'.sender <= self /\ self' = self
    BY <1>3, <1>7, FaultForm
  <2>2. CASE AddonRestart
    BY <2>1, <2>2 DEF AddonRestart, NamesInv
  <2>3. ASSUME NEW op, NEW ticket, StrangerCall(op, ticket) PROVE NamesInv'
    <3>1. PICK call : calls' = Append(calls, call) /\ call.from = 0
      BY <2>3 DEF StrangerCall, Stranger
    <3>2. \A i \in 1..Len(calls') : calls'[i].from <= self
      BY <1>1, <3>1, GrownQueue DEF NamesInv
    <3> QED BY <2>1, <3>2 DEF NamesInv
  <2> QED BY <1>7, <2>2, <2>3 DEF AddonFault
<1>8. CASE Session \/ UNCHANGED vars
  <2>1. UNCHANGED <<calls, self, pending>>
    BY <1>8 DEF Session, SessionRuns, vars, busVars, addonVars
  <2> QED BY <2>1 DEF NamesInv
<1>9. CASE Bridge /\ LoopStep
  <2>1. self' = self /\ pending' = pending
    BY <1>9 DEF Bridge, LoopStep, addonVars
  <2>2. CASE TimeUp
    BY <2>1, <2>2 DEF TimeUp, NamesInv
  <2>3. CASE ~TimeUp
    <3>1. GoesOn
      BY <1>9, <2>3, LoopGoesOn
    <3>2. CASE calls' = calls
      BY <2>1, <3>2 DEF NamesInv
    <3>3. ASSUME NEW call \in Call, calls' = Append(calls, call), call.from = self PROVE NamesInv'
      <4>1. \A i \in 1..Len(calls') : calls'[i].from <= self
        BY <1>1, <3>3, GrownQueue DEF NamesInv
      <4> QED BY <2>1, <4>1 DEF NamesInv
    <3> QED BY <3>1, <3>2, <3>3, LoopQueue
  <2> QED BY <2>2, <2>3
<1>10. CASE Bridge /\ CallTimeout
  <2>1. calls' = Forsaken /\ UNCHANGED <<self, pending>>
    BY <1>10 DEF Bridge, CallTimeout, addonVars
  <2>2. \A i \in 1..Len(calls') : calls'[i].from <= self
    BY <2>1, ForsakenFacts DEF NamesInv
  <2> QED BY <2>1, <2>2 DEF NamesInv
<1>11. CASE Bridge /\ Exit
  <2>1. UNCHANGED <<self, pending>>
    BY <1>11 DEF Bridge, Exit, addonVars
  <2>2. \A i \in 1..Len(calls') : calls'[i].from <= self
    <3>1. SUFFICES ASSUME NEW i \in 1..Len(calls') PROVE calls'[i].from <= self
      OBVIOUS
    <3>2. calls'[i].from = self \/ \E j \in 1..Len(calls) : calls'[i].from = calls[j].from
      BY <1>11, ExitCalls
    <3> QED BY <1>1, <3>2 DEF NamesInv
  <2> QED BY <2>1, <2>2 DEF NamesInv
<1>12. CASE Bridge /\ Restart
  <2>1. self' = self + 1 /\ UNCHANGED <<calls, pending>>
    BY <1>12 DEF Bridge, Restart, addonVars
  <2> QED BY <1>1, <2>1 DEF NamesInv
<1> QED BY <1>5, <1>6, <1>7, <1>8, <1>9, <1>10, <1>11, <1>12 DEF Next, Addon, Bridge, BridgeFault

\* The coordinator's own delivery: it holds the ticket, is being told of it, or gives it
\* back; and once a handler that ends it was answered, it is gone.
Mine == pending.ticket # NoTicket /\ pending.sender = self
Accounted ==
    \/ token = pending.ticket
    \/ Granted /\ reply.ticket = pending.ticket
    \/ wait.for = "cancel" /\ wait.ticket = pending.ticket
OursAwaited == \A i \in 1..Len(calls) : calls[i].from = self => calls[i].awaited
MineInv == faults = 0 /\ up =>
    /\ OursAwaited
    /\ Mine => Accounted
    /\ Mine /\ reply # NoReply => wait.for \notin {"cancel", "release", "commit"}

\* There is no delivery at first.
LEMMA MineInvInit == Init => MineInv
<1> SUFFICES ASSUME Init PROVE MineInv
  OBVIOUS
<1>1. calls = <<>> /\ pending.ticket = NoTicket
  BY DEF Init, BusInit, AddonInit, NoDelivery
<1> QED BY <1>1 DEF MineInv, Mine, OursAwaited

\* The addon serves the oldest call.
LEMMA ServeKeepsMine ==
    ASSUME TypeInv, CallsInv, TicketInv, MineInv, faults = 0, up, Serve, UNCHANGED <<token, wait>>
    PROVE  MineInv'
<1>1. /\ calls # <<>> /\ calls' = Tail(calls) /\ UNCHANGED <<self, up, faults>>
      /\ Leaves \/ Drops \/ Grants \/ Writes
  BY ServeForms
<1>2. OursAwaited'
  BY <1>1, ServedQueue DEF MineInv, OursAwaited
<1>3. oldest.from = self => oldest.awaited
  BY <1>1, ServedQueue DEF MineInv, OursAwaited
<1>4. oldest.awaited => Waits /\ oldest.from = self /\ Fits(oldest, wait, token)
  BY <1>1, HeadFits
<1>5. CASE Drops \/ Writes
  <2>1. ~Mine'
    BY <1>5, TicketTypes DEF Drops, Writes, Mine
  <2> QED BY <1>2, <2>1 DEF MineInv
<1>6. CASE Grants
  <2>1. SUFFICES ASSUME Mine' PROVE Accounted' /\ wait'.for = "start"
    BY <1>2 DEF MineInv
  <2>2. oldest.awaited /\ oldest.op = "Begin"
    BY <1>1, <1>3, <1>6, <2>1 DEF Grants, Mine
  <2>3. wait.for = "start"
    <3>1. wait.for \in {None, "start", "valid", "preview", "commit", "release", "cancel"}
      BY DEF TypeInv, TypeOK, BridgeTypeOK, Waiting
    <3> QED BY <1>4, <2>2, <3>1 DEF Waits, Fits
  <2>4. reply'.answer = "yes" /\ reply'.ticket = pending'.ticket
    BY <1>6, <2>2 DEF Grants
  <2> QED BY <2>3, <2>4 DEF Accounted, Granted
<1>7. CASE Leaves
  <2>1. SUFFICES ASSUME Mine' PROVE Accounted' /\ (reply' # NoReply => wait'.for \notin {"cancel", "release", "commit"})
    BY <1>2 DEF MineInv
  <2>2. Mine /\ pending'.ticket = pending.ticket
    BY <1>1, <1>7, <2>1 DEF Leaves, SameDelivery, Mine
  <2>3. Accounted
    BY <2>2 DEF MineInv
  <2>4. CASE reply' = reply
    BY <2>2, <2>3, <2>4 DEF Accounted, Granted, MineInv
  <2>5. CASE reply' # reply
    <3>1. oldest.awaited
      BY <1>7, <2>5 DEF Leaves, Turned
    <3>2. Waits /\ oldest.from = self /\ Fits(oldest, wait, token)
      BY <1>4, <3>1
    <3>3. ~Granted
      BY <3>2 DEF Waits, Granted, NoReply
    <3>4. token = pending.ticket \/ (wait.for = "cancel" /\ wait.ticket = pending.ticket)
      BY <2>3, <3>3 DEF Accounted
    <3>5. wait.for \in {"cancel", "release", "commit"} => Owned(oldest) /\ oldest.op \in {"Cancel", "Commit"}
      BY <2>2, <3>2, <3>4 DEF Fits, TicketInv, Owned, Mine
    <3>6. wait.for \notin {"cancel", "release", "commit"}
      BY <1>7, <3>5 DEF Leaves
    <3> QED BY <2>2, <3>4, <3>6 DEF Accounted
  <2> QED BY <2>4, <2>5
<1> QED BY <1>1, <1>5, <1>6, <1>7

\* Every handler of the main loop.
LEMMA LoopKeepsMine ==
    ASSUME TypeInv, SessionInv, CallsInv, TicketInv, MineInv, faults = 0, Free, GoesOn,
           UNCHANGED <<self, up, faults, addonVars>>
    PROVE  MineInv'
<1>1. up /\ reply' = NoReply /\ Mine' = Mine /\ pending' = pending
  BY FreeIsQuiet DEF Free, Mine, addonVars
<1>2. OursAwaited'
  <2>1. CASE calls' = calls
    BY <1>1, <2>1 DEF MineInv, OursAwaited
  <2>2. ASSUME NEW call \in Call, calls' = Append(calls, call), call.awaited PROVE OursAwaited'
    BY <1>1, <2>2, GrownQueue DEF MineInv, OursAwaited
  <2> QED BY <2>1, <2>2, LoopQueue
<1>3. SUFFICES ASSUME Mine PROVE Accounted'
  BY <1>1, <1>2 DEF MineInv
<1>4. Accounted /\ pending.ticket # NoTicket
  BY <1>1, <1>3 DEF MineInv, Mine
<1>5. wait.for \notin {"cancel", "release", "commit"}
  BY <1>1, <1>3, NoneDiffers DEF MineInv, Free
<1>6. CASE Granted
  <2>1. token = NoTicket
    <3>1. phase = "idle"
      BY <1>6 DEF SessionInv, Granted
    <3> QED BY <3>1 DEF TicketInv
  <2>2. Opens
    BY <1>5, <1>6 DEF GoesOn, Plain
  <2> QED BY <1>1, <1>4, <1>5, <2>1, <2>2 DEF Accounted, Opens
<1>7. CASE ~Granted
  <2>1. token = pending.ticket
    BY <1>4, <1>5, <1>7 DEF Accounted
  <2>2. Proceeds
    BY <1>5, <1>7 DEF GoesOn, Plain
  <2>3. CASE token' = token
    BY <1>1, <2>1, <2>3 DEF Accounted
  <2>4. CASE Gives
    BY <1>1, <2>1, <2>4 DEF Gives, Accounted
  <2>5. Rests \/ Stops \/ Records \/ Begins => token' = token
    BY DEF Rests, Stops, Records, PhaseMoves, Begins, Same
  <2>6. \A op, handler : Asks(op, handler) => token' = token
    BY DEF Asks, Same
  <2>7. ~(token = NoTicket)
    BY <1>4, <2>1
  <2>8. Ends("no-final-result") => token' = token
    BY <2>7 DEF Ends, Releases, Same
  <2> QED BY <2>2, <2>3, <2>4, <2>5, <2>6, <2>7, <2>8 DEF Proceeds
<1> QED BY <1>6, <1>7

\* Every step of voice input.
LEMMA MineInvStep ==
    TypeInv /\ SessionInv /\ CallsInv /\ TicketInv /\ NamesInv /\ MineInv /\ [Next]_vars => MineInv'
<1> SUFFICES ASSUME TypeInv, SessionInv, CallsInv, TicketInv, NamesInv, MineInv, [Next]_vars, faults' = 0, up'
             PROVE  MineInv'
  BY DEF MineInv
<1>1. faults \in Nat /\ self \in Nat
  BY BusAssumption DEF TypeInv, TypeOK, BusTypeOK
<1>2. CASE Addon /\ UserStep
  <2>1. UNCHANGED <<wait, token, calls, reply, self, up, faults>>
    BY <1>2, UserForm DEF Addon, bridgeVars, loopVars
  <2>2. pending' = NoDelivery \/ SameDelivery
    BY <1>2, UserForm
  <2>3. Mine' => Mine /\ pending'.ticket = pending.ticket
    BY <2>1, <2>2, TicketTypes DEF Mine, SameDelivery
  <2> QED BY <2>1, <2>3 DEF MineInv, OursAwaited, Accounted, Granted
<1>3. CASE Addon /\ Serve
  <2>1. faults = 0 /\ up /\ UNCHANGED <<wait, token>>
    BY <1>3, ServeForms DEF Addon, bridgeVars, loopVars
  <2> QED BY <1>3, <2>1, ServeKeepsMine
<1>4. ~AddonFault
  <2>1. AddonFault => faults' = faults + 1
    BY FaultForm
  <2> QED BY <1>1, <2>1
<1>5. ~CallTimeout /\ ~Exit
  <2>1. CallTimeout => faults' = faults + 1
    BY DEF CallTimeout
  <2>2. ~Exit
    BY DEF Exit
  <2> QED BY <1>1, <2>1, <2>2
<1>6. CASE Session \/ UNCHANGED vars \/ (Bridge /\ LoopStep /\ TimeUp)
  <2>1. UNCHANGED <<wait, token, calls, reply, self, up, faults, pending>>
    BY <1>6 DEF Session, SessionRuns, Bridge, TimeUp, vars, busVars, bridgeVars, loopVars, addonVars, LoopStep
  <2> QED BY <2>1 DEF MineInv, Mine, OursAwaited, Accounted, Granted
<1>7. CASE Bridge /\ LoopStep /\ ~TimeUp
  <2>1. Free /\ GoesOn
    BY <1>7, LoopGoesOn
  <2> QED BY <1>7, <2>1, LoopKeepsMine DEF Bridge, LoopStep
<1>8. CASE Bridge /\ Restart
  <2>1. self' = self + 1 /\ calls' = calls /\ pending' = pending
    BY <1>8 DEF Bridge, Restart, addonVars
  <2>2. \A i \in 1..Len(calls) : calls[i].from # self + 1
    <3>1. \A i \in 1..Len(calls) : calls[i] \in Call
      BY DEF TypeInv, TypeOK, BusTypeOK
    <3>2. \A i \in 1..Len(calls) : calls[i].from \in Senders
      BY <3>1 DEF Call
    <3> QED BY <1>1, <3>2, BusAssumption DEF NamesInv, Senders
  <2>3. pending.sender # self + 1
    <3>1. pending.sender \in Senders
      BY BusAssumption DEF TypeInv, TypeOK, AddonTypeOK, Delivery, NoDelivery, Senders, Stranger
    <3> QED BY <1>1, <3>1, BusAssumption DEF NamesInv, Senders
  <2>4. ~Mine' /\ OursAwaited'
    BY <2>1, <2>2, <2>3 DEF Mine, OursAwaited
  <2> QED BY <2>4 DEF MineInv
<1> QED BY <1>2, <1>3, <1>4, <1>5, <1>6, <1>7, <1>8 DEF Next, Addon, Bridge, BridgeFault

\* The two together.
THEOREM MineInvariant == Spec => [](NamesInv /\ MineInv)
<1>1. Init => NamesInv /\ MineInv
  BY NamesInvInit, MineInvInit
<1>2. TypeInv /\ SessionInv /\ (CallsInv /\ TicketInv) /\ (NamesInv /\ MineInv) /\ [Next]_vars => (NamesInv /\ MineInv)'
  BY NamesInvStep, MineInvStep
<1> QED BY <1>1, <1>2, TypeInvariant, SessionInvariant, TicketInvariant, PTL DEF Spec

\* As long as no call timed out, Fcitx did not restart and no stranger called, an idle
\* coordinator with nothing on the bus has left no ticket behind in the addon: every
\* path of daemon.py gives its ticket back.
THEOREM NoTicketLeft == Spec => [](faults = 0 => NoStrayTicket)
<1>1. ASSUME TypeInv, TicketInv, MineInv, faults = 0 PROVE NoStrayTicket
  <2>1. SUFFICES ASSUME up, phase = "idle", wait.for = None, calls = <<>>, pending.sender = self, pending # NoDelivery
                 PROVE  FALSE
    BY DEF NoStrayTicket
  <2>2. pending.ticket # NoTicket
    BY <1>1, <2>1, TicketTypes DEF TypeInv, TypeOK, AddonTypeOK, Delivery
  <2>3. Accounted /\ token = NoTicket
    BY <1>1, <2>1, <2>2 DEF MineInv, Mine, TicketInv
  <2> QED BY <2>1, <2>2, <2>3, NoneDiffers DEF Accounted, Granted
<1> QED BY <1>1, TypeInvariant, TicketInvariant, MineInvariant, PTL

-----------------------------------------------------------------------------
(* What is reported is what happened: which tickets are known to have reached *)
(* a field, and which are known not to, at every point of a dictation.        *)

Unwritten(w, t) == \A f \in Fields : w[t][f] = 0
Reached(w, t)   == \E f \in Fields : w[t][f] = 1

AheadClean   == \A t \in Tickets : t >= nextTicket => Unwritten(written, t)
LastKnown    == last.ticket # NoTicket =>
                  /\ last.ticket < nextTicket /\ pending.ticket # last.ticket
                  /\ (last.outcome = "committed" <=> Reached(written, last.ticket))
TokenClean   == token # NoTicket /\ wait.for # "release" /\ (wait.for = "commit" => reply = NoReply)
                  => Unwritten(written, token)
CommitKnown  == wait.for = "commit" /\ reply # NoReply =>
                  \/ reply.answer = "yes" /\ Reached(written, token)
                  \/ reply.answer = "no" /\ Unwritten(written, token)
ReleaseKnown == wait.for = "release" => (wait.outcome = "committed" <=> Reached(written, token))
CancelClean  == wait.for = "cancel" => Unwritten(written, wait.ticket) /\ wait.outcome \in CancelReasons
GrantClean   == Granted => Unwritten(written, reply.ticket)
SessionHeld  == rec.thread # "none" /\ token = NoTicket /\ wait.for # "cancel" => phase = "cancelling"
CancelTold   == phase = "cancelling" => last.outcome # "committed" /\ token = NoTicket
ForeignApart == up /\ pending.ticket # NoTicket /\ pending.sender # self =>
                  /\ pending.ticket # token
                  /\ wait.for = "cancel" => wait.ticket # pending.ticket
                  /\ Granted => reply.ticket # pending.ticket

ReportInv == faults = 0 =>
    /\ AheadClean /\ LastKnown /\ TokenClean /\ CommitKnown /\ ReleaseKnown
    /\ CancelClean /\ GrantClean /\ SessionHeld /\ CancelTold /\ ForeignApart

\* A ticket whose text was written nowhere reached no field.
LEMMA UnwrittenNotReached ==
    ASSUME NEW w, NEW t, Unwritten(w, t) PROVE ~Reached(w, t)
  BY DEF Unwritten, Reached

\* Nothing was written or reported at first.
LEMMA ReportInvInit == Init => ReportInv
<1> SUFFICES ASSUME Init PROVE ReportInv
  OBVIOUS
<1>1. /\ wait.for = None /\ token = NoTicket /\ last.ticket = NoTicket /\ pending.ticket = NoTicket
      /\ rec.thread = "none" /\ phase = "idle" /\ \A t \in Tickets : Unwritten(written, t)
  BY DEF Init, BusInit, AddonInit, BridgeInit, NoWait, NoLast, NoSession, NoDelivery, Unwritten
<1> QED BY <1>1, NoneDiffers DEF ReportInv, AheadClean, LastKnown, TokenClean, CommitKnown, ReleaseKnown,
        CancelClean, GrantClean, SessionHeld, CancelTold, ForeignApart, Granted

\* What a delivery does to the record of what was written.
LEMMA WritesReach ==
    ASSUME TypeInv, Writes
    PROVE  /\ \A t \in Tickets : t # pending.ticket =>
                  /\ Unwritten(written', t) <=> Unwritten(written, t)
                  /\ Reached(written', t) <=> Reached(written, t)
           /\ Unwritten(written, pending.ticket) => Reached(written', pending.ticket)
<1> DEFINE p == pending.ticket
           g == pending.field
<1>1. /\ written \in [Tickets -> [Fields -> Nat]] /\ p \in Tickets /\ g \in Fields
      /\ written' = [written EXCEPT ![p][g] = @ + 1]
  BY DEF TypeInv, TypeOK, AddonTypeOK, Writes
<1> HIDE DEF p, g
<1>2. \A t \in Tickets : t # p => written'[t] = written[t]
  BY <1>1
<1>3. written'[p][g] = written[p][g] + 1
  BY <1>1
<1>4. Unwritten(written, p) => Reached(written', p)
  <2>1. Unwritten(written, p) => written'[p][g] = 1
    BY <1>1, <1>3 DEF Unwritten
  <2> QED BY <1>1, <2>1 DEF Reached
<1>5. \A t \in Tickets : t # p => (Unwritten(written', t) <=> Unwritten(written, t))
  BY <1>2 DEF Unwritten
<1>6. \A t \in Tickets : t # p => (Reached(written', t) <=> Reached(written, t))
  BY <1>2 DEF Reached
<1> QED BY <1>4, <1>5, <1>6 DEF p

\* A step that answers nothing and writes nothing.
LEMMA ReportUntouched ==
    ASSUME TypeInv, ReportInv, faults = 0,
           UNCHANGED <<token, wait, phase, last, written, nextTicket, self, up, reply>>,
           rec'.thread # "none" => rec.thread # "none",
           pending' = NoDelivery \/ SameDelivery
    PROVE  ReportInv'
<1>1. AheadClean' /\ TokenClean' /\ CommitKnown' /\ ReleaseKnown' /\ CancelClean' /\ GrantClean'
  BY DEF ReportInv, AheadClean, TokenClean, CommitKnown, ReleaseKnown, CancelClean, GrantClean, Granted
<1>2. LastKnown'
  BY TicketTypes DEF ReportInv, LastKnown, SameDelivery
<1>3. SessionHeld' /\ CancelTold'
  BY DEF ReportInv, SessionHeld, CancelTold
<1>4. ForeignApart'
  BY TicketTypes DEF ReportInv, ForeignApart, SameDelivery, Granted
<1> QED BY <1>1, <1>2, <1>3, <1>4 DEF ReportInv

\* The addon serves the oldest call.
LEMMA ServeKeepsReport ==
    ASSUME TypeInv, CallsInv, TicketInv, MineInv, ReportInv, faults = 0, Serve,
           UNCHANGED <<token, wait, phase, last, rec>>
    PROVE  ReportInv'
<1>1. /\ calls # <<>> /\ calls' = Tail(calls) /\ UNCHANGED <<self, up, faults>>
      /\ Leaves \/ Drops \/ Grants \/ Writes
  BY ServeForms
<1>2. up /\ oldest.from = self => oldest.awaited
  BY <1>1, ServedQueue DEF MineInv, OursAwaited
<1>3. oldest.awaited => Waits /\ oldest.from = self /\ Fits(oldest, wait, token)
  BY <1>1, HeadFits
<1>4. SessionHeld' /\ CancelTold'
  BY DEF ReportInv, SessionHeld, CancelTold
<1>5. wait.for \in {None, "start", "valid", "preview", "commit", "release", "cancel"}
  BY DEF TypeInv, TypeOK, BridgeTypeOK, Waiting
<1>6. CASE Leaves \/ Drops
  <2>1. /\ pending' = NoDelivery \/ SameDelivery
        /\ UNCHANGED <<nextTicket, written>> /\ Turned
    BY <1>6 DEF Leaves, Drops, NothingGiven
  <2>2. CASE reply' = reply
    BY <1>1, <2>1, <2>2, ReportUntouched
  <2>3. CASE reply' # reply
    <3>1. PICK answer \in Answers :
             /\ reply' = [answer |-> answer, ticket |-> NoTicket]
             /\ (oldest.op = "Begin" => answer # "yes") /\ (oldest.op = "Commit" => answer = "no")
      BY <2>1, <2>3 DEF Turned
    <3>2. Waits /\ Fits(oldest, wait, token)
      BY <1>3, <2>1, <2>3 DEF Turned
    <3>3. ~Granted' /\ reply'.answer = answer
      BY <3>1, <3>2 DEF Fits, Granted
    <3>4. wait.for = "commit" => reply'.answer = "no" /\ reply = NoReply
      BY <3>1, <3>2 DEF Waits, Fits
    <3>5. AheadClean' /\ ReleaseKnown' /\ CancelClean' /\ GrantClean'
      BY <2>1, <3>3 DEF ReportInv, AheadClean, ReleaseKnown, CancelClean, GrantClean
    <3>6. TokenClean'
      BY <2>1, <3>2 DEF ReportInv, TokenClean, Waits
    <3>7. CommitKnown'
      <4>1. wait.for = "commit" => Unwritten(written, token)
        BY <3>4, <1>5 DEF ReportInv, TokenClean, TicketInv
      <4> QED BY <2>1, <3>4, <4>1 DEF CommitKnown
    <3>8. LastKnown'
      BY <2>1, TicketTypes DEF ReportInv, LastKnown, SameDelivery
    <3>9. ForeignApart'
      BY <1>1, <2>1, <3>3, TicketTypes DEF ReportInv, ForeignApart, SameDelivery
    <3> QED BY <1>4, <3>5, <3>6, <3>7, <3>8, <3>9 DEF ReportInv
  <2> QED BY <2>2, <2>3
<1>7. CASE Grants
  <2>1. /\ nextTicket' = nextTicket + 1 /\ pending'.ticket = nextTicket /\ pending'.sender = oldest.from
        /\ written' = written /\ nextTicket \in Tickets /\ oldest.op = "Begin"
    BY <1>7 DEF Grants
  <2>2. AheadClean'
    BY <2>1, TicketTypes DEF ReportInv, AheadClean
  <2>3. LastKnown'
    BY <2>1, TicketTypes DEF ReportInv, LastKnown
  <2>4. ReleaseKnown' /\ CancelClean'
    BY <2>1 DEF ReportInv, ReleaseKnown, CancelClean
  <2>5. CASE oldest.awaited
    <3>1. reply'.ticket = nextTicket /\ reply'.answer = "yes"
      BY <1>7, <2>5 DEF Grants
    <3>2. wait.for = "start" /\ reply = NoReply /\ oldest.from = self
      BY <1>3, <1>5, <2>1, <2>5 DEF Waits, Fits
    <3>3. TokenClean' /\ CommitKnown'
      BY <2>1, <3>2 DEF ReportInv, TokenClean, CommitKnown
    <3>4. GrantClean'
      <4>1. nextTicket >= nextTicket
        BY TicketTypes
      <4>2. Unwritten(written, nextTicket)
        BY <2>1, <4>1 DEF ReportInv, AheadClean
      <4> QED BY <2>1, <3>1, <4>2 DEF GrantClean
    <3>5. ForeignApart'
      BY <1>1, <2>1, <3>2 DEF ForeignApart
    <3> QED BY <1>4, <2>2, <2>3, <2>4, <3>3, <3>4, <3>5 DEF ReportInv
  <2>6. CASE ~oldest.awaited
    <3>1. reply' = reply
      BY <1>7, <2>6 DEF Grants
    <3>2. TokenClean' /\ CommitKnown' /\ GrantClean'
      BY <2>1, <3>1 DEF ReportInv, TokenClean, CommitKnown, GrantClean, Granted
    <3>3. ForeignApart'
      <4>1. token # nextTicket /\ (wait.for = "cancel" => wait.ticket # nextTicket)
            /\ (Granted => reply.ticket # nextTicket)
        BY TicketTypes DEF TicketInv
      <4> QED BY <2>1, <3>1, <4>1 DEF ForeignApart, Granted
    <3> QED BY <1>4, <2>2, <2>3, <2>4, <3>2, <3>3 DEF ReportInv
  <2> QED BY <2>5, <2>6
<1>8. CASE Writes
  <2> DEFINE p == pending.ticket
  <2>1. /\ p \in Tickets /\ p # NoTicket /\ p = oldest.ticket /\ pending.sender = oldest.from /\ oldest.op = "Commit"
        /\ pending'.ticket = NoTicket /\ nextTicket' = nextTicket
    BY <1>8, TicketTypes DEF Writes, Owned
  <2>2. \A t \in Tickets : t # p =>
                  /\ Unwritten(written', t) <=> Unwritten(written, t)
                  /\ Reached(written', t) <=> Reached(written, t)
    BY <1>8, WritesReach
  <2>3. AheadClean'
    <3>1. \A t \in Tickets : t >= nextTicket => t # p
      BY <2>1, TicketTypes DEF TicketInv
    <3> QED BY <2>1, <2>2, <3>1 DEF ReportInv, AheadClean
  <2>4. LastKnown'
    BY <2>1, <2>2, TicketTypes DEF ReportInv, LastKnown
  <2>5. ForeignApart'
    BY <2>1 DEF ForeignApart
  <2>6. CASE oldest.awaited
    <3>1. wait.for = "commit" /\ reply = NoReply /\ token = p
      BY <1>3, <1>5, <2>1, <2>6 DEF Waits, Fits
    <3>2. reply' # NoReply /\ reply'.answer = "yes"
      BY <1>8, <2>6 DEF Writes, NoReply
    <3>3. Reached(written', token)
      <4>1. Unwritten(written, p)
        BY <2>1, <3>1 DEF ReportInv, TokenClean
      <4> QED BY <1>8, <3>1, <4>1, WritesReach
    <3>4. TokenClean' /\ CommitKnown' /\ ReleaseKnown' /\ CancelClean' /\ GrantClean'
      BY <3>1, <3>2, <3>3 DEF TokenClean, CommitKnown, ReleaseKnown, CancelClean, GrantClean, Granted
    <3> QED BY <1>4, <2>3, <2>4, <2>5, <3>4 DEF ReportInv
  <2>7. CASE ~oldest.awaited
    <3>1. reply' = reply
      BY <1>8, <2>7 DEF Writes
    <3>2. p # token /\ (wait.for = "cancel" => wait.ticket # p) /\ (Granted => reply.ticket # p)
      <4>1. CASE up
        <5>1. pending.sender # self
          BY <1>2, <2>1, <2>7, <4>1
        <5> QED BY <2>1, <4>1, <5>1 DEF ReportInv, ForeignApart
      <4>2. CASE ~up
        BY <2>1, <4>2, NoneDiffers DEF TicketInv, Granted
      <4> QED BY <4>1, <4>2
    <3>3. TokenClean' /\ CommitKnown' /\ ReleaseKnown'
      <4>1. token # NoTicket => token \in Tickets
        BY TicketTypes
      <4>2. token # NoTicket => (Unwritten(written', token) <=> Unwritten(written, token))
                              /\ (Reached(written', token) <=> Reached(written, token))
        BY <2>2, <3>2, <4>1
      <4>3. wait.for \in {"commit", "release"} => token # NoTicket
        BY DEF TicketInv
      <4> QED BY <3>1, <4>2, <4>3 DEF ReportInv, TokenClean, CommitKnown, ReleaseKnown
    <3>4. CancelClean' /\ GrantClean'
      <4>1. wait.for = "cancel" => wait.ticket \in Tickets
        BY TicketTypes DEF TicketInv
      <4>2. Granted => reply.ticket \in Tickets
        BY DEF TicketInv
      <4> QED BY <2>2, <3>1, <3>2, <4>1, <4>2 DEF ReportInv, CancelClean, GrantClean, Granted
    <3> QED BY <1>4, <2>3, <2>4, <2>5, <3>3, <3>4 DEF ReportInv
  <2> QED BY <2>6, <2>7
<1> QED BY <1>1, <1>6, <1>7, <1>8

\* Every handler of the main loop.
LEMMA LoopKeepsReport ==
    ASSUME NotifyWorks, TypeInv, SessionInv, CallsInv, TicketInv, MineInv, ReportInv, faults = 0,
           Free, GoesOn, UNCHANGED <<self, up, faults, addonVars>>
    PROVE  ReportInv'
<1>1. /\ up /\ reply' = NoReply /\ ~Granted'
      /\ UNCHANGED <<written, nextTicket, pending>>
  BY FreeIsQuiet DEF Free, addonVars, ghostVars, Granted, NoReply
<1>2. AheadClean' /\ GrantClean'
  BY <1>1 DEF ReportInv, AheadClean, GrantClean
<1>3. wait.for \in {"commit", "release", "cancel"} => reply # NoReply
  BY NoneDiffers DEF Free
<1>4. CommitKnown'
  BY <1>1 DEF CommitKnown
\* A delivery that is pending is not of a ticket that a handler is done with.
<1>5. wait.for \in {"release", "cancel"} =>
          /\ wait.for = "release" => pending.ticket # token
          /\ wait.for = "cancel" => pending.ticket # wait.ticket
  <2>1. CASE Mine
    BY <1>1, <1>3, <2>1 DEF MineInv
  <2>2. CASE pending.ticket = NoTicket
    BY <2>2 DEF TicketInv
  <2>3. CASE pending.ticket # NoTicket /\ pending.sender # self
    BY <1>1, <2>3 DEF ReportInv, ForeignApart
  <2> QED BY <2>1, <2>2, <2>3 DEF Mine
<1>6. ASSUME token' \in {token, NoTicket}, wait'.for # "cancel" PROVE ForeignApart'
  BY <1>1, <1>6 DEF ReportInv, ForeignApart
<1>7. ASSUME last' = last PROVE LastKnown'
  BY <1>1, <1>7 DEF ReportInv, LastKnown
<1>8. ASSUME wait'.for = None, token' = token, last' = last, rec'.thread # "none" => rec.thread # "none",
             wait.for # "release", wait.for # "commit", wait.for # "cancel",
             phase' = phase \/ (phase # "cancelling" /\ phase' # "cancelling")
      PROVE  ReportInv'
  <2>1. TokenClean'
    BY <1>1, <1>8 DEF ReportInv, TokenClean
  <2>2. ReleaseKnown' /\ CancelClean'
    BY <1>8, NoneDiffers DEF ReleaseKnown, CancelClean
  <2>3. SessionHeld' /\ CancelTold'
    BY <1>8 DEF ReportInv, SessionHeld, CancelTold
  <2>4. ForeignApart'
    BY <1>6, <1>8, NoneDiffers
  <2> QED BY <1>2, <1>4, <1>7, <1>8, <2>1, <2>2, <2>3, <2>4 DEF ReportInv
<1>9. ASSUME Plain, Proceeds PROVE ReportInv'
  <2>1. wait.for \notin {"cancel", "commit", "release"}
    BY <1>9 DEF Plain
  <2>2. token # NoTicket => Unwritten(written, token)
    BY <2>1 DEF ReportInv, TokenClean
  <2>3. CASE Rests \/ Stops \/ Records
    BY <1>8, <2>1, <2>3 DEF Rests, Stops, Records, PhaseMoves, Quiet, Same
  <2>4. CASE Begins
    <3>1. /\ wait'.for = "start" /\ token' = token /\ last' = last /\ phase' = phase /\ phase = "idle"
          /\ rec'.thread = rec.thread
      BY <2>4 DEF Begins, Same
    <3>2. TokenClean' /\ ReleaseKnown' /\ CancelClean'
      BY <1>1, <2>2, <3>1 DEF TokenClean, ReleaseKnown, CancelClean
    <3>3. SessionHeld' /\ CancelTold'
      BY <2>1, <3>1 DEF ReportInv, SessionHeld, CancelTold
    <3> QED BY <1>2, <1>4, <1>6, <1>7, <3>1, <3>2, <3>3 DEF ReportInv
  <2>5. ASSUME NEW op, NEW handler \in {"valid", "preview", "commit"}, Asks(op, handler) PROVE ReportInv'
    <3>1. /\ wait'.for = handler /\ token' = token /\ last' = last /\ phase' = phase
          /\ rec'.thread = rec.thread /\ token # NoTicket
      BY <2>5 DEF Asks, Same
    <3>2. TokenClean' /\ ReleaseKnown' /\ CancelClean'
      BY <1>1, <2>2, <3>1 DEF TokenClean, ReleaseKnown, CancelClean
    <3>3. SessionHeld' /\ CancelTold'
      BY <2>1, <3>1 DEF ReportInv, SessionHeld, CancelTold
    <3> QED BY <1>2, <1>4, <1>6, <1>7, <3>1, <3>2, <3>3 DEF ReportInv
  <2>6. CASE Gives
    <3>1. /\ wait'.for = "cancel" /\ wait'.ticket = token /\ wait'.outcome \in CancelReasons /\ token # NoTicket
          /\ token' = NoTicket /\ last' = last /\ phase' = phase
      BY <2>6 DEF Gives
    <3>2. TokenClean' /\ ReleaseKnown' /\ CancelClean'
      BY <1>1, <2>2, <3>1 DEF TokenClean, ReleaseKnown, CancelClean
    <3>3. SessionHeld' /\ CancelTold'
      BY <3>1 DEF ReportInv, SessionHeld, CancelTold
    <3>4. ForeignApart'
      BY <1>1, <3>1 DEF ReportInv, ForeignApart
    <3> QED BY <1>2, <1>4, <1>7, <3>1, <3>2, <3>3, <3>4 DEF ReportInv
  <2>7. CASE rec.thread # "none" /\ token = NoTicket /\ Cancels(last.ticket) /\ last'.outcome \in CancelReasons
    <3>1. /\ wait'.for = None /\ token' = token /\ last'.ticket = last.ticket /\ phase' = "cancelling"
          /\ rec'.thread = rec.thread /\ last'.outcome # "committed"
      BY <2>7 DEF Cancels, Quiet, CancelReasons
    <3>2. phase = "cancelling"
      BY <2>1, <2>7 DEF ReportInv, SessionHeld
    <3>3. last.outcome # "committed"
      BY <3>2 DEF ReportInv, CancelTold
    <3>4. LastKnown'
      BY <1>1, <3>1, <3>3 DEF ReportInv, LastKnown
    <3>5. TokenClean' /\ ReleaseKnown' /\ CancelClean' /\ SessionHeld' /\ CancelTold'
      BY <1>1, <2>7, <3>1, NoneDiffers DEF TokenClean, ReleaseKnown, CancelClean, SessionHeld, CancelTold
    <3>6. ForeignApart'
      BY <1>6, <3>1, NoneDiffers
    <3> QED BY <1>2, <1>4, <3>4, <3>5, <3>6 DEF ReportInv
  <2>8. CASE rec.thread # "none" /\ Ends("no-final-result")
    <3>1. CASE Releases("no-final-result")
      <4>1. /\ wait'.for = "release" /\ wait'.outcome = "no-final-result" /\ token # NoTicket /\ token' = token
            /\ last' = last /\ phase' = phase /\ rec'.thread = rec.thread
        BY <3>1 DEF Releases, Same
      <4>2. ReleaseKnown'
        BY <1>1, <2>2, <4>1, UnwrittenNotReached DEF ReleaseKnown
      <4>3. TokenClean' /\ CancelClean' /\ SessionHeld' /\ CancelTold'
        BY <4>1 DEF ReportInv, TokenClean, CancelClean, SessionHeld, CancelTold
      <4> QED BY <1>2, <1>4, <1>6, <1>7, <4>1, <4>2, <4>3 DEF ReportInv
    <3>2. CASE token = NoTicket /\ Finishes("no-final-result", last.ticket)
      <4>1. phase = "cancelling"
        BY <2>1, <2>8, <3>2 DEF ReportInv, SessionHeld
      <4>2. /\ wait'.for = None /\ last' = last /\ token' = NoTicket /\ rec'.thread = "none" /\ phase' = "idle"
        BY <3>2, <4>1 DEF Finishes, Quiet
      <4>3. TokenClean' /\ ReleaseKnown' /\ CancelClean' /\ SessionHeld' /\ CancelTold'
        BY <4>2, NoneDiffers DEF TokenClean, ReleaseKnown, CancelClean, SessionHeld, CancelTold
      <4> QED BY <1>2, <1>4, <1>6, <1>7, <4>2, <4>3, NoneDiffers DEF ReportInv
    <3> QED BY <2>8, <3>1, <3>2 DEF Ends
  <2> QED BY <1>9, <2>3, <2>4, <2>5, <2>6, <2>7, <2>8 DEF Proceeds
<1>10. ASSUME Granted, Opens PROVE ReportInv'
  <2>1. /\ token' = reply.ticket /\ reply.ticket \in Tickets /\ phase' = "connecting" /\ last' = last
        /\ wait'.for = None
    BY <1>10 DEF Opens, Quiet, TicketInv
  <2>2. Unwritten(written, reply.ticket)
    BY <1>10 DEF ReportInv, GrantClean
  <2>3. TokenClean' /\ ReleaseKnown' /\ CancelClean' /\ SessionHeld' /\ CancelTold'
    BY <1>1, <2>1, <2>2, NoneDiffers, TicketTypes DEF TokenClean, ReleaseKnown, CancelClean, SessionHeld, CancelTold
  <2>4. ForeignApart'
    BY <1>1, <1>10, <2>1, NoneDiffers DEF ReportInv, ForeignApart
  <2> QED BY <1>2, <1>4, <1>7, <2>1, <2>3, <2>4 DEF ReportInv
<1>11. ASSUME wait.for = "cancel", Cancels(wait.ticket), last'.outcome = wait.outcome PROVE ReportInv'
  <2>1. /\ wait'.for = None /\ token' = token /\ last'.ticket = wait.ticket /\ phase' = "cancelling"
        /\ rec'.thread = rec.thread
    BY <1>11 DEF Cancels, Quiet
  <2>2. Unwritten(written, wait.ticket) /\ last'.outcome # "committed"
    BY <1>11 DEF ReportInv, CancelClean, CancelReasons
  <2>3. token = NoTicket /\ wait.ticket < nextTicket
    BY <1>11 DEF TicketInv
  <2>4. LastKnown'
    BY <1>1, <1>5, <1>11, <2>1, <2>2, <2>3, UnwrittenNotReached DEF LastKnown
  <2>5. TokenClean' /\ ReleaseKnown' /\ CancelClean' /\ SessionHeld' /\ CancelTold'
    BY <2>1, <2>2, <2>3, NoneDiffers DEF TokenClean, ReleaseKnown, CancelClean, SessionHeld, CancelTold
  <2>6. ForeignApart'
    BY <1>6, <2>1, NoneDiffers
  <2> QED BY <1>2, <1>4, <2>4, <2>5, <2>6 DEF ReportInv
<1>12. ASSUME wait.for = "commit", Ends(OutcomeOf(reply.answer)) PROVE ReportInv'
  <2>1. token # NoTicket
    BY <1>12 DEF TicketInv
  <2>2. OutcomeOf(reply.answer) = "committed" <=> Reached(written, token)
    <3>1. CASE reply.answer = "yes" /\ Reached(written, token)
      BY <3>1 DEF OutcomeOf
    <3>2. CASE reply.answer = "no" /\ Unwritten(written, token)
      BY <3>2, UnwrittenNotReached DEF OutcomeOf
    <3> QED BY <1>3, <1>12, <3>1, <3>2 DEF ReportInv, CommitKnown
  <2>3. /\ wait'.for = "release" /\ wait'.outcome = OutcomeOf(reply.answer) /\ token' = token
        /\ last' = last /\ phase' = phase /\ rec'.thread = rec.thread
    BY <1>12, <2>1 DEF Ends, Releases, Same
  <2>4. ReleaseKnown'
    BY <1>1, <2>2, <2>3 DEF ReleaseKnown
  <2>5. TokenClean' /\ CancelClean' /\ SessionHeld' /\ CancelTold'
    BY <2>1, <2>3 DEF ReportInv, TokenClean, CancelClean, SessionHeld, CancelTold
  <2> QED BY <1>2, <1>4, <1>6, <1>7, <2>3, <2>4, <2>5 DEF ReportInv
<1>13. ASSUME wait.for = "release", Finishes(wait.outcome, token) PROVE ReportInv'
  <2>1. token # NoTicket /\ phase # "cancelling"
    BY <1>13 DEF TicketInv, ReportInv, CancelTold
  <2>2. /\ last' = [outcome |-> wait.outcome, ticket |-> token] /\ phase' = "idle" /\ token' = NoTicket
        /\ rec'.thread = "none" /\ wait'.for = None
    BY <1>13, <2>1 DEF Finishes, Quiet
  <2>3. LastKnown'
    <3>1. last'.ticket = token /\ last'.outcome = wait.outcome
      BY <2>2
    <3>2. wait.outcome = "committed" <=> Reached(written, token)
      BY <1>13 DEF ReportInv, ReleaseKnown
    <3>3. token < nextTicket /\ pending.ticket # token
      BY <1>5, <1>13 DEF TicketInv
    <3> QED BY <1>1, <3>1, <3>2, <3>3 DEF LastKnown
  <2>4. TokenClean' /\ ReleaseKnown' /\ CancelClean' /\ SessionHeld' /\ CancelTold'
    BY <2>2, NoneDiffers DEF TokenClean, ReleaseKnown, CancelClean, SessionHeld, CancelTold
  <2> QED BY <1>2, <1>4, <1>6, <2>2, <2>3, <2>4, NoneDiffers DEF ReportInv
<1> QED BY <1>9, <1>10, <1>11, <1>12, <1>13 DEF GoesOn

\* The thread of a session neither appears nor vanishes by a step of its own.
LEMMA ThreadStays ==
    ASSUME TypeInv, SessionStep PROVE rec'.thread # "none" => rec.thread # "none"
  BY DEF SessionStep, OpenMic, MicOpened, CloseMic, PostPreview, PostDone, Decide, TypeInv, TypeOK, RecTypeOK,
         SessionState

\* Every step of voice input.
LEMMA ReportInvStep ==
    NotifyWorks /\ TypeInv /\ SessionInv /\ CallsInv /\ TicketInv /\ MineInv /\ ReportInv /\ [Next]_vars
       => ReportInv'
<1> SUFFICES ASSUME NotifyWorks, TypeInv, SessionInv, CallsInv, TicketInv, MineInv, ReportInv, [Next]_vars,
                    faults' = 0
             PROVE  ReportInv'
  BY DEF ReportInv
<1>1. faults \in Nat
  BY BusAssumption DEF TypeInv, TypeOK, BusTypeOK
<1>2. CASE Addon /\ UserStep
  <2>1. UNCHANGED <<token, wait, phase, last, rec, written, nextTicket, self, up, reply, faults>>
    BY <1>2, UserForm DEF Addon, NothingGiven, bridgeVars, loopVars, recVars
  <2> QED BY <1>2, <2>1, UserForm, ReportUntouched
<1>3. CASE Addon /\ Serve
  <2>1. UNCHANGED <<token, wait, phase, last, rec, faults>>
    BY <1>3, ServeForms DEF Addon, bridgeVars, loopVars, recVars
  <2> QED BY <1>3, <2>1, ServeKeepsReport
<1>4. ~AddonFault
  <2>1. AddonFault => faults' = faults + 1
    BY FaultForm
  <2> QED BY <1>1, <2>1
<1>5. ~CallTimeout
  <2>1. CallTimeout => faults' = faults + 1
    BY DEF CallTimeout
  <2> QED BY <1>1, <2>1
<1>6. CASE Session \/ UNCHANGED vars \/ (Bridge /\ LoopStep /\ TimeUp)
  <2>1. UNCHANGED <<token, wait, phase, last, written, nextTicket, self, up, reply, faults, pending>>
    BY <1>6 DEF Session, SessionRuns, Bridge, TimeUp, vars, busVars, bridgeVars, loopVars, addonVars, ghostVars,
       LoopStep
  <2>2. rec'.thread # "none" => rec.thread # "none"
    BY <1>6, ThreadStays DEF Session, SessionRuns, TimeUp, vars, recVars
  <2> QED BY <2>1, <2>2, ReportUntouched DEF SameDelivery
<1>7. CASE Bridge /\ LoopStep /\ ~TimeUp
  <2>1. Free /\ GoesOn
    BY <1>7, LoopGoesOn
  <2> QED BY <1>7, <2>1, LoopKeepsReport DEF Bridge, LoopStep
<1>8. CASE Bridge /\ Exit
  <2>1. /\ wait' = NoWait /\ phase' = "idle" /\ token' = NoTicket /\ last' = NoLast /\ rec' = NoSession
        /\ reply' = NoReply /\ ~up' /\ UNCHANGED <<written, nextTicket, pending, faults>>
    BY <1>8 DEF Bridge, Exit, BridgeReset, addonVars, ghostVars
  <2>2. wait'.for = None /\ last'.ticket = NoTicket /\ rec'.thread = "none" /\ ~Granted'
    BY <2>1 DEF NoWait, NoLast, NoSession, NoReply, Granted
  <2>3. AheadClean'
    BY <2>1 DEF ReportInv, AheadClean
  <2> QED BY <2>1, <2>2, <2>3, NoneDiffers DEF ReportInv, LastKnown, TokenClean, CommitKnown, ReleaseKnown,
          CancelClean, GrantClean, SessionHeld, CancelTold, ForeignApart
<1>9. CASE Bridge /\ Restart
  <2>1. ~up /\ UNCHANGED <<token, wait, phase, last, rec, written, nextTicket, reply, faults, pending>>
    BY <1>9 DEF Bridge, Restart, bridgeVars, loopVars, recVars, addonVars, ghostVars
  <2>2. wait.for = None /\ token = NoTicket
    BY <2>1 DEF TicketInv
  <2>3. ForeignApart'
    BY <2>1, <2>2, NoneDiffers DEF ForeignApart, Granted
  <2> QED BY <2>1, <2>3 DEF ReportInv, AheadClean, LastKnown, TokenClean, CommitKnown, ReleaseKnown,
          CancelClean, GrantClean, SessionHeld, CancelTold, Granted
<1> QED BY <1>2, <1>3, <1>4, <1>5, <1>6, <1>7, <1>8, <1>9 DEF Next, Addon, Bridge, BridgeFault

\* Where notify-send can be started, and as long as no call timed out, Fcitx did not
\* restart and no stranger called, what Status and the notification say of the last
\* dictation is what happened to its text (event('done') and cancel() of daemon.py).
THEOREM ReportsAgree == NotifyWorks => (Spec => [](faults = 0 => ReportAgrees))
<1>1. ReportInv => (faults = 0 => ReportAgrees)
  BY DEF ReportInv, LastKnown, Reached, ReportAgrees
<1>2. ASSUME NotifyWorks PROVE Spec => [](faults = 0 => ReportAgrees)
  <2>1. TypeInv /\ SessionInv /\ (CallsInv /\ TicketInv) /\ (NamesInv /\ MineInv) /\ ReportInv /\ [Next]_vars
          => ReportInv'
    BY <1>2, ReportInvStep
  <2> QED BY <1>1, <2>1, ReportInvInit, TypeInvariant, SessionInvariant, TicketInvariant, MineInvariant, PTL DEF Spec
<1> QED BY <1>2

-----------------------------------------------------------------------------
(* The hold of Right Alt: the hotkey state follows the key, and a recording   *)
(* that hangs on it ends.                                                     *)

HotInv ==
    /\ hot.alt => alt /\ hotkeys /\ focus = hot.field /\ focus # NoField
    /\ ~hot.alt => ~hot.started /\ ~hot.chord

\* Nothing is held at first.
LEMMA HotInvInit == Init => HotInv
  BY DEF Init, AddonInit, NoHotkey, HotInv

\* What each place that changes the hotkey state makes of it.
LEMMA HotForms ==
    ASSUME AddonTypeOK, HotInv
    PROVE  /\ ~NoHotkey.alt /\ ~NoHotkey.started /\ ~NoHotkey.chord
           /\ HotkeyAfterOther.alt = hot.alt /\ HotkeyAfterOther.field = hot.field
           /\ HotkeyAfterOther.started = hot.started
           /\ HotkeyAfterOther.chord = (hot.alt \/ hot.chord)
<1>1. hot \in Hotkey
  BY DEF AddonTypeOK
<1>2. CASE Listening /\ hot.alt
  BY <1>1, <1>2 DEF NoHotkey, HotkeyAfterOther, Hotkey
<1>3. CASE ~(Listening /\ hot.alt)
  <2>1. ~hot.alt
    BY <1>3 DEF HotInv, Listening
  <2> QED BY <1>1, <1>3, <2>1 DEF NoHotkey, HotkeyAfterOther, HotInv, Hotkey
<1> QED BY <1>2, <1>3

\* Every step of the user.
LEMMA UserKeepsHot ==
    ASSUME TypeInv, HotInv, UserStep
    PROVE  HotInv'
<1> USE DEF HotInv
<1>0. AddonTypeOK /\ hot \in Hotkey
  BY DEF TypeInv, TypeOK, AddonTypeOK
<1>1. CASE HoldTimer
  <2>1. /\ hot'.alt = hot.alt /\ hot'.field = hot.field /\ hot'.chord = hot.chord
        /\ hot'.started => hot.started \/ hot.alt
    BY <1>0, <1>1 DEF HoldTimer, Hotkey
  <2> QED BY <1>1, <2>1 DEF HoldTimer, fieldVars
<1>2. CASE AltRelease
  <2>1. UNCHANGED <<focus, hotkeys>>
    BY <1>2 DEF AltRelease, fieldVars
  <2>2. CASE Listening /\ hot.alt
    <3>1. ~hot'.alt /\ ~hot'.started /\ ~hot'.chord
      BY <1>2, <2>2 DEF AltRelease, NoHotkey
    <3> QED BY <3>1
  <2>3. CASE ~(Listening /\ hot.alt)
    <3>1. ~hot.alt /\ hot' = hot
      BY <1>2, <2>3 DEF AltRelease, Listening
    <3> QED BY <3>1
  <2> QED BY <2>2, <2>3
<1>3. ASSUME NEW mods, AltPress(mods) PROVE HotInv'
  <2>1. UNCHANGED <<focus, hotkeys>> /\ alt'
    BY <1>3 DEF AltPress, fieldVars
  <2>2. \/ hot' = hot
        \/ /\ Listening /\ hot' = [hot EXCEPT !.alt = TRUE, !.field = focus, !.armed = TRUE]
    BY <1>3 DEF AltPress
  <2>3. CASE Listening /\ hot' = [hot EXCEPT !.alt = TRUE, !.field = focus, !.armed = TRUE]
    <3>1. hot'.alt /\ hot'.field = focus
      BY <1>0, <2>3 DEF Hotkey
    <3> QED BY <2>1, <2>3, <3>1 DEF Listening
  <2> QED BY <2>1, <2>2, <2>3
<1>4. ASSUME hot' = HotkeyAfterOther, UNCHANGED <<alt, hotkeys, focus>> PROVE HotInv'
  <2>1. hot'.alt = hot.alt /\ hot'.field = hot.field /\ hot'.started = hot.started /\ hot'.chord = (hot.alt \/ hot.chord)
    BY <1>0, <1>4, HotForms
  <2> QED BY <1>4, <2>1
<1>5. CASE TypeKey \/ ModifierPress
  BY <1>4, <1>5 DEF TypeKey, Typed, ModifierPress, fieldVars
<1>6. CASE SpaceRelease
  <2>1. /\ hot'.alt = hot.alt /\ hot'.field = hot.field /\ hot'.chord = hot.chord /\ hot'.started = hot.started
    BY <1>0, <1>6 DEF SpaceRelease, Hotkey
  <2> QED BY <1>6, <2>1 DEF SpaceRelease, fieldVars
<1>7. ASSUME NEW mods, SpacePress(mods) PROVE HotInv'
  <2>1. UNCHANGED <<alt, hotkeys, focus>>
    BY <1>7 DEF SpacePress
  <2>2. CASE hot' = [hot EXCEPT !.armed = FALSE, !.chord = TRUE, !.space = TRUE] /\ SpaceTaken(mods)
    <3>1. hot'.alt = hot.alt /\ hot'.field = hot.field /\ hot.alt
      BY <1>0, <2>2 DEF Hotkey, SpaceTaken
    <3> QED BY <2>1, <3>1
  <2>3. CASE hot' = hot
    BY <2>1, <2>3
  <2>4. CASE hot' = HotkeyAfterOther
    BY <1>4, <2>1, <2>4
  <2> QED BY <1>7, <2>2, <2>3, <2>4 DEF SpacePress, Typed
<1>8. ASSUME NEW field, hot' = HotkeyAfterEvent(field), UNCHANGED <<alt, hotkeys>>,
             focus' = focus \/ focus = field
      PROVE  HotInv'
  BY <1>0, <1>8, HotForms DEF HotkeyAfterEvent
<1>9. ASSUME NEW next, ChangeFocus(next) PROVE HotInv'
  <2>1. CASE focus = NoField
    BY <1>9, <2>1 DEF ChangeFocus
  <2>2. CASE focus # NoField
    BY <1>8, <1>9, <2>2 DEF ChangeFocus, Disturbed
  <2> QED BY <2>1, <2>2
<1>10. ASSUME NEW field, FieldReset(field) \/ ToggleSensitive(field) PROVE HotInv'
  BY <1>8, <1>10 DEF FieldReset, ToggleSensitive, Disturbed, deskVars
<1>11. ASSUME NEW on, ReloadConfig(on) PROVE HotInv'
  BY <1>0, <1>11, HotForms DEF ReloadConfig
<1>12. CASE Expire
  BY <1>12 DEF Expire, hotVars, fieldVars
<1> QED BY <1>1, <1>2, <1>3, <1>5, <1>6, <1>7, <1>9, <1>10, <1>11, <1>12 DEF UserStep

\* Every step of voice input.
LEMMA HotInvStep == TypeInv /\ HotInv /\ [Next]_vars => HotInv'
<1> SUFFICES ASSUME TypeInv, HotInv, [Next]_vars PROVE HotInv'
  OBVIOUS
<1>1. CASE UserStep
  BY <1>1, UserKeepsHot
<1>2. CASE UNCHANGED <<hot, alt, hotkeys, focus>>
  BY <1>2 DEF HotInv
<1>3. CASE Serve \/ UNCHANGED addonVars \/ UNCHANGED vars
  BY <1>2, <1>3 DEF Serve, deskVars, addonVars, hotVars, fieldVars, vars
<1>4. CASE AddonRestart
  BY <1>4, HotForms DEF AddonRestart, HotInv, TypeInv, TypeOK
<1>5. ASSUME NEW op, NEW ticket, StrangerCall(op, ticket) PROVE HotInv'
  BY <1>3, <1>5 DEF StrangerCall
<1> QED BY <1>1, <1>3, <1>4, <1>5 DEF Next, Addon, Bridge, Session, AddonFault

\* The hotkey state of the addon follows the physical key: while it counts Right Alt
\* as held, the key is down and the field that had the focus then still has it.
THEOREM HotkeyFollowsKey == Spec => []HotInv
  BY HotInvInit, HotInvStep, TypeInvariant, PTL DEF Spec

Ending   == {"hold-stop", "hold-cancel", "toggle"}
OpenHold == hot.started /\ ~hot.chord
EndSent  == \E j \in 1..Len(signals) : signals[j].kind \in Ending
Kept     == OpenHold \/ EndSent
HoldInv ==
    /\ faults = 0 =>
          /\ \A i \in 1..Len(signals) : signals[i].kind = "hold-start" =>
                OpenHold \/ \E j \in 1..Len(signals) : j > i /\ signals[j].kind \in Ending
          /\ wait.for = "start" /\ wait.hold => Kept
          /\ Held /\ Capturing => token # NoTicket /\ (Kept \/ pending.ticket # token)
    /\ ~up => signals = <<>>

\* Nothing is recorded or waits at first.
LEMMA HoldInvInit == Init => HoldInv
<1> SUFFICES ASSUME Init PROVE HoldInv
  OBVIOUS
<1>1. signals = <<>> /\ wait.for # "start" /\ phase = "idle" /\ up
  BY NoneDiffers DEF Init, BusInit, BridgeInit, NoWait
<1> QED BY <1>1 DEF HoldInv, Capturing

\* Signals without the start of a hold.
NoStart(some) == \A i \in 1..Len(some) : some[i].kind # "hold-start"
\* Signals the first of which ends a hold.
EndsHold(some) == Len(some) >= 1 /\ some[1].kind \in Ending

\* One Shortcut signal.
LEMMA OneSignal ==
    ASSUME NEW kind \in Actions, NEW field \in Fields \cup {NoField}
    PROVE  /\ <<Shortcut(kind, field)>> \in Seq(Signal)
           /\ kind \in Ending => EndsHold(<<Shortcut(kind, field)>>) /\ NoStart(<<Shortcut(kind, field)>>)
<1>1. Shortcut(kind, field) \in Signal
  BY ShortcutTyped
<1>2. Shortcut(kind, field).kind = kind
  BY DEF Shortcut
<1> QED BY <1>1, <1>2 DEF EndsHold, NoStart, Ending

\* The lists of signals the addon sends.
LEMMA SignalLists ==
    ASSUME AddonTypeOK
    PROVE  /\ <<>> \in Seq(Signal) /\ NoStart(<<>>)
           /\ HoldCancel \in Seq(Signal) /\ NoStart(HoldCancel)
           /\ hot.started => EndsHold(HoldCancel)
           /\ \A reason \in Reasons : Notice(reason) \in Seq(Signal) /\ NoStart(Notice(reason))
<1>1. hot.field \in Fields \cup {NoField}
  BY DEF AddonTypeOK, Hotkey
<1>2. HoldCancel \in Seq(Signal) /\ NoStart(HoldCancel) /\ (hot.started => EndsHold(HoldCancel))
  BY <1>1, OneSignal DEF HoldCancel, Actions, Ending, NoStart
<1>3. ASSUME NEW reason \in Reasons PROVE NoStart(Notice(reason))
  <2>1. Invalidated(pending.ticket, reason).kind = "invalidated"
    BY DEF Invalidated
  <2>2. Len(Notice(reason)) \in {0, 1} /\ (Len(Notice(reason)) = 1 => Notice(reason)[1] = Invalidated(pending.ticket, reason))
    BY DEF Notice
  <2> QED BY <2>1, <2>2 DEF NoStart
<1> QED BY <1>2, <1>3, NoticeTyped DEF NoStart

\* Two lists one after the other.
LEMMA ListsJoined ==
    ASSUME NEW a \in Seq(Signal), NEW b \in Seq(Signal)
    PROVE  /\ a \o b \in Seq(Signal)
           /\ NoStart(a) /\ NoStart(b) => NoStart(a \o b)
           /\ EndsHold(a) => EndsHold(a \o b)
<1>1. /\ a \o b \in Seq(Signal) /\ Len(a \o b) = Len(a) + Len(b) /\ Len(a) \in Nat /\ Len(b) \in Nat
      /\ \A i \in 1..Len(a \o b) : (a \o b)[i] = IF i <= Len(a) THEN a[i] ELSE b[i - Len(a)]
  BY ConcatProperties
<1>2. ASSUME NoStart(a), NoStart(b), NEW i \in 1..Len(a \o b) PROVE (a \o b)[i].kind # "hold-start"
  <2>1. CASE i <= Len(a)
    BY <1>1, <1>2, <2>1 DEF NoStart
  <2>2. CASE ~(i <= Len(a))
    <3>1. i - Len(a) \in 1..Len(b)
      BY <1>1, <2>2
    <3> QED BY <1>1, <1>2, <2>2, <3>1 DEF NoStart
  <2> QED BY <2>1, <2>2
<1>3. ASSUME EndsHold(a) PROVE EndsHold(a \o b)
  <2>1. 1 \in 1..Len(a \o b) /\ 1 <= Len(a)
    BY <1>1, <1>3 DEF EndsHold
  <2>2. (a \o b)[1] = a[1]
    BY <1>1, <2>1
  <2> QED BY <1>1, <1>3, <2>1, <2>2 DEF EndsHold
<1>4. NoStart(a) /\ NoStart(b) => NoStart(a \o b)
  BY <1>2 DEF NoStart
<1> QED BY <1>1, <1>3, <1>4

\* A hold that closes is reported, and one that is reported as begun is open.
Reports(some) ==
    /\ some \in Seq(Signal) /\ Emit(some)
    /\ OpenHold /\ ~OpenHold' => EndsHold(some)
    /\ NoStart(some) \/ OpenHold'

\* Every step of the user reports what becomes of the hold.
LEMMA UserReports ==
    ASSUME TypeInv, HotInv, UserStep
    PROVE  \E some : Reports(some)
<1>0. /\ AddonTypeOK /\ hot \in Hotkey /\ hot.field \in Fields \cup {NoField}
      /\ focus \in Fields \cup {NoField}
  BY DEF TypeInv, TypeOK, AddonTypeOK, Hotkey
<1>1. ASSUME UNCHANGED signals, OpenHold' = OpenHold PROVE \E some : Reports(some)
  <2>1. signals \in Seq(Signal)
    BY DEF TypeInv, TypeOK, BusTypeOK
  <2>2. Emit(<<>>)
    BY <1>1, <2>1, ConcatProperties DEF Emit
  <2> QED BY <1>0, <1>1, <2>2, SignalLists DEF Reports
<1>2. CASE HoldTimer
  <2>1. CASE hot.alt /\ ~hot.chord /\ Eligible(hot.field)
    <3>1. OpenHold'
      BY <1>0, <1>2, <2>1 DEF HoldTimer, OpenHold, Hotkey
    <3>2. Emit(<<Shortcut("hold-start", hot.field)>>)
      BY <1>2, <2>1 DEF HoldTimer, Announce
    <3> QED BY <1>0, <3>1, <3>2, OneSignal DEF Reports, Actions
  <2>2. CASE ~(hot.alt /\ ~hot.chord /\ Eligible(hot.field))
    <3>1. OpenHold' = OpenHold
      BY <1>0, <1>2, <2>2 DEF HoldTimer, OpenHold, Hotkey
    <3> QED BY <1>1, <1>2, <2>2, <3>1 DEF HoldTimer
  <2> QED BY <2>1, <2>2
<1>3. CASE AltRelease
  <2>1. CASE Listening /\ hot.alt /\ OpenHold
    <3>1. Emit(<<Shortcut("hold-stop", hot.field)>>)
      BY <1>3, <2>1 DEF AltRelease, Announce, OpenHold
    <3> QED BY <1>0, <3>1, OneSignal DEF Reports, Actions, Ending
  <2>2. CASE Listening /\ hot.alt /\ ~OpenHold
    <3>1. Emit(<<>>)
      BY <1>3, <2>2 DEF AltRelease, Announce, OpenHold
    <3> QED BY <1>0, <2>2, <3>1, SignalLists DEF Reports
  <2>3. CASE ~(Listening /\ hot.alt)
    BY <1>1, <1>3, <2>3 DEF AltRelease, OpenHold
  <2> QED BY <2>1, <2>2, <2>3
<1>4. ASSUME NEW mods, AltPress(mods) PROVE \E some : Reports(some)
  <2>1. OpenHold' = OpenHold
    BY <1>0, <1>4 DEF AltPress, OpenHold, Hotkey
  <2> QED BY <1>1, <1>4, <2>1 DEF AltPress
<1>5. /\ ChordCancel \in Seq(Signal) /\ NoStart(ChordCancel)
      /\ hot' = HotkeyAfterOther /\ OpenHold /\ ~OpenHold' => EndsHold(ChordCancel)
  <2>1. OpenHold => Listening /\ hot.alt /\ ~hot.chord /\ hot.started
    BY DEF HotInv, OpenHold, Listening
  <2> QED BY <1>0, <2>1, SignalLists DEF ChordCancel, OpenHold
<1>6. ASSUME NEW composition, Typed(composition) PROVE \E some : Reports(some)
  <2>1. hot' = HotkeyAfterOther /\ "typing" \in Reasons
    BY <1>6 DEF Typed, Reasons
  <2>2. HotkeyAfterOther.started = hot.started /\ HotkeyAfterOther.chord = (hot.alt \/ hot.chord)
    BY <1>0, HotForms
  <2>3. CASE Concerns(focus)
    <3>1. Emit(ChordCancel \o Notice("typing"))
      BY <1>6, <2>3 DEF Typed, Announce
    <3> QED BY <1>0, <1>5, <2>1, <3>1, SignalLists, ListsJoined DEF Reports
  <2>4. CASE ~Concerns(focus)
    <3>1. Emit(ChordCancel)
      BY <1>6, <2>4 DEF Typed, Announce
    <3> QED BY <1>5, <2>1, <3>1 DEF Reports
  <2> QED BY <2>3, <2>4
<1>7. CASE ModifierPress
  <2>1. Emit(ChordCancel) /\ hot' = HotkeyAfterOther
    BY <1>7 DEF ModifierPress, Announce
  <2> QED BY <1>5, <2>1 DEF Reports
<1>8. ASSUME NEW mods, SpacePress(mods) PROVE \E some : Reports(some)
  <2>1. CASE /\ hot' = [hot EXCEPT !.armed = FALSE, !.chord = TRUE, !.space = TRUE]
             /\ Announce(IF hot.chord THEN <<>> ELSE <<Shortcut("toggle", focus)>>)
    <3>1. Emit(IF hot.chord THEN <<>> ELSE <<Shortcut("toggle", focus)>>)
      BY <2>1 DEF Announce
    <3>2. CASE hot.chord
      BY <1>0, <3>1, <3>2, SignalLists DEF Reports, OpenHold
    <3>3. CASE ~hot.chord
      BY <1>0, <3>1, <3>3, OneSignal DEF Reports, Actions, Ending
    <3> QED BY <3>2, <3>3
  <2> QED BY <1>1, <1>6, <1>8, <2>1 DEF SpacePress, OpenHold
<1>9. CASE SpaceRelease
  <2>1. OpenHold' = OpenHold
    BY <1>0, <1>9 DEF SpaceRelease, OpenHold, Hotkey
  <2> QED BY <1>1, <1>9, <2>1 DEF SpaceRelease
<1>10. \A field : /\ EventCancel(field) \in Seq(Signal) /\ NoStart(EventCancel(field))
                  /\ hot' = HotkeyAfterEvent(field) /\ OpenHold /\ ~OpenHold' => EndsHold(EventCancel(field))
  BY <1>0, SignalLists DEF EventCancel, HotkeyAfterEvent, OpenHold
<1>11. ASSUME NEW field, hot' = HotkeyAfterEvent(field), NEW reason \in Reasons,
              Emit(EventCancel(field)) \/ Emit(EventCancel(field) \o Notice(reason))
       PROVE  \E some : Reports(some)
  <2>1. CASE Emit(EventCancel(field))
    BY <1>10, <1>11, <2>1 DEF Reports
  <2>2. CASE Emit(EventCancel(field) \o Notice(reason))
    BY <1>0, <1>10, <1>11, <2>2, SignalLists, ListsJoined DEF Reports
  <2> QED BY <1>11, <2>1, <2>2
<1>12. ASSUME NEW field, Disturbed(field) PROVE \E some : Reports(some)
  BY <1>11, <1>12 DEF Disturbed, Announce, Reasons
<1>13. ASSUME NEW next, ChangeFocus(next) PROVE \E some : Reports(some)
  BY <1>1, <1>12, <1>13 DEF ChangeFocus, OpenHold
<1>14. ASSUME NEW field, ToggleSensitive(field) PROVE \E some : Reports(some)
  BY <1>11, <1>14 DEF ToggleSensitive, Announce, Reasons
<1>15. ASSUME NEW on, ReloadConfig(on) PROVE \E some : Reports(some)
  BY <1>0, <1>15, SignalLists DEF ReloadConfig, Announce, Reports, OpenHold
<1>16. CASE Expire
  BY <1>1, <1>16 DEF Expire, hotVars, OpenHold
<1> QED BY <1>2, <1>3, <1>4, <1>6, <1>7, <1>8, <1>9, <1>12, <1>13, <1>14, <1>15, <1>16 DEF UserStep, TypeKey, FieldReset

\* The queue of signals after some were sent.
LEMMA SignalsGrow ==
    ASSUME TypeInv, up, NEW some \in Seq(Signal), Emit(some)
    PROVE  /\ Len(signals) \in Nat /\ Len(some) \in Nat /\ Len(signals') = Len(signals) + Len(some)
           /\ \A i \in 1..Len(signals) : signals'[i] = signals[i]
           /\ \A i \in 1..Len(some) : signals'[Len(signals) + i] = some[i]
<1>1. signals \in Seq(Signal) /\ signals' = signals \o some
  BY DEF TypeInv, TypeOK, BusTypeOK, Emit
<1>2. /\ Len(signals) \in Nat /\ Len(some) \in Nat /\ Len(signals \o some) = Len(signals) + Len(some)
      /\ \A i \in 1..Len(signals \o some) :
            (signals \o some)[i] = IF i <= Len(signals) THEN signals[i] ELSE some[i - Len(signals)]
  BY <1>1, ConcatProperties
<1>3. ASSUME NEW i \in 1..Len(signals) PROVE signals'[i] = signals[i]
  BY <1>1, <1>2
<1>4. ASSUME NEW i \in 1..Len(some) PROVE signals'[Len(signals) + i] = some[i]
  <2>1. /\ Len(signals) + i \in 1..Len(signals \o some) /\ ~(Len(signals) + i <= Len(signals))
        /\ Len(signals) + i - Len(signals) = i
    BY <1>2
  <2> QED BY <1>1, <1>2, <2>1
<1> QED BY <1>1, <1>2, <1>3, <1>4

\* A step of the addon that reports what becomes of the hold.
LEMMA ReportsKeepHold ==
    ASSUME TypeInv, TicketInv, HoldInv, NEW some, Reports(some),
           UNCHANGED <<wait, phase, token, generation, holdGen, up, faults>>,
           pending' = NoDelivery \/ pending'.ticket \in {pending.ticket, nextTicket}
    PROVE  HoldInv'
<1>1. CASE ~up
  <2>1. signals' = <<>> /\ wait.for = None /\ phase = "idle"
    BY <1>1 DEF Reports, Emit, HoldInv, TicketInv
  <2> QED BY <2>1, NoneDiffers DEF HoldInv, Capturing
<1>2. CASE up
  <2>1. SUFFICES ASSUME faults = 0
                 PROVE  /\ \A i \in 1..Len(signals') : signals'[i].kind = "hold-start" =>
                              OpenHold' \/ \E j \in 1..Len(signals') : j > i /\ signals'[j].kind \in Ending
                        /\ wait'.for = "start" /\ wait'.hold => Kept'
                        /\ Held' /\ Capturing' => token' # NoTicket /\ (Kept' \/ pending'.ticket # token')
    BY <1>2 DEF HoldInv
  <2> DEFINE n == Len(signals)  m == Len(some)  n1 == Len(signals')
  <2>2. /\ n \in Nat /\ m \in Nat /\ n1 = n + m
        /\ \A i \in 1..n : signals'[i] = signals[i]
        /\ \A i \in 1..m : signals'[n + i] = some[i]
    BY <1>2, SignalsGrow DEF Reports
  <2>3. n = Len(signals) /\ m = Len(some) /\ n1 = Len(signals')
    OBVIOUS
  <2> HIDE DEF n, m, n1
  <2>4. ASSUME OpenHold, ~OpenHold' PROVE n + 1 \in 1..n1 /\ signals'[n + 1].kind \in Ending
    <3>1. m >= 1 /\ some[1].kind \in Ending
      BY <2>3, <2>4 DEF Reports, EndsHold
    <3> QED BY <2>2, <3>1
  <2>5. EndSent => EndSent'
    <3>1. ASSUME NEW j \in 1..n, signals[j].kind \in Ending PROVE EndSent'
      <4>1. j \in 1..n1 /\ signals'[j].kind \in Ending
        BY <2>2, <3>1
      <4> QED BY <2>3, <4>1 DEF EndSent
    <3> QED BY <2>3, <3>1 DEF EndSent
  <2>6. Kept => Kept'
    <3>1. OpenHold /\ ~OpenHold' => EndSent'
      BY <2>3, <2>4 DEF EndSent
    <3> QED BY <2>5, <3>1 DEF Kept
  <2>7. ASSUME NEW i \in 1..n1, signals'[i].kind = "hold-start", ~OpenHold'
        PROVE  \E j \in 1..n1 : j > i /\ signals'[j].kind \in Ending
    <3>1. CASE i \in 1..n
      <4>1. signals[i].kind = "hold-start"
        BY <2>2, <2>7, <3>1
      <4>2. OpenHold \/ \E j \in 1..n : j > i /\ signals[j].kind \in Ending
        BY <2>1, <2>3, <3>1, <4>1 DEF HoldInv
      <4>3. CASE OpenHold
        BY <2>2, <2>4, <2>7, <3>1, <4>3
      <4>4. ASSUME NEW j \in 1..n, j > i, signals[j].kind \in Ending
            PROVE  \E k \in 1..n1 : k > i /\ signals'[k].kind \in Ending
        <5>1. j \in 1..n1 /\ signals'[j].kind \in Ending
          BY <2>2, <4>4
        <5> QED BY <4>4, <5>1
      <4> QED BY <4>2, <4>3, <4>4
    <3>2. CASE ~(i \in 1..n)
      <4>1. i - n \in 1..m /\ i = n + (i - n)
        BY <2>2, <2>7, <3>2
      <4>2. some[i - n].kind = "hold-start"
        BY <2>2, <2>7, <4>1
      <4>3. ~NoStart(some)
        BY <2>3, <4>1, <4>2 DEF NoStart
      <4> QED BY <2>7, <4>3 DEF Reports
    <3> QED BY <3>1, <3>2
  <2>8. token # NoTicket /\ pending.ticket # token => pending'.ticket # token
    BY TicketTypes DEF TicketInv
  <2>9. Held' = Held /\ Capturing' = Capturing
    BY DEF Held, Capturing
  <2> QED BY <2>1, <2>3, <2>6, <2>7, <2>8, <2>9 DEF HoldInv
<1> QED BY <1>1, <1>2

\* The addon serves a call: the hotkey state stays, and only an Invalidated is sent.
LEMMA ServeReports ==
    ASSUME TypeInv, Serve
    PROVE  \E some : Reports(some)
<1>1. OpenHold' = OpenHold
  BY DEF Serve, OpenHold
<1>2. AddonTypeOK /\ signals \in Seq(Signal)
  BY DEF TypeInv, TypeOK, BusTypeOK
<1>3. CASE UNCHANGED signals
  <2>1. Emit(<<>>)
    BY <1>2, <1>3, ConcatProperties DEF Emit
  <2> QED BY <1>1, <1>2, <2>1, SignalLists DEF Reports
<1>4. CASE Emit(Notice("new-dictation"))
  BY <1>1, <1>2, <1>4, SignalLists DEF Reports, Reasons
<1> QED BY <1>3, <1>4 DEF Serve, ServeBegin, ServeValid, ServeCancel, ServePreview, ServeCommit, ServeGone

\* A handler leaves a held recording only if there was one, or if it is the answer to a
\* hold that asked for it.
LEMMA LoopHolds ==
    ASSUME TypeInv, TicketInv, GoesOn, Held', Capturing', Held /\ Capturing => token # NoTicket
    PROVE  /\ token' # NoTicket
           /\ (Held /\ Capturing /\ token' = token) \/ (wait.for = "start" /\ wait.hold)
<1>1. generation \in Nat /\ holdGen \in Nat \cup {NoHold} /\ NoHold = -1 /\ generation # NoHold
  BY DEF TypeInv, TypeOK, BridgeTypeOK, NoHold
<1>2. ASSUME HoldEased, generation' = generation, phase' = phase \/ phase' \notin {"connecting", "recording"} \/ Capturing,
             token' = token
      PROVE  /\ token' # NoTicket /\ Held /\ Capturing /\ token' = token
  BY <1>1, <1>2 DEF Held, Capturing, HoldEased, NoHold
<1>3. CASE Rests \/ Stops \/ Records \/ \E ticket : Cancels(ticket)
  BY <1>2, <1>3 DEF Rests, Stops, Records, PhaseMoves, Cancels, Same, Capturing
<1>4. CASE Begins \/ \E op, handler : Asks(op, handler)
  BY <1>2, <1>4 DEF Begins, Asks, Same, HoldEased
<1>5. CASE Gives
  BY <1>1, <1>5 DEF Gives, Held
<1>6. ASSUME NEW outcome, NEW ticket, Finishes(outcome, ticket) PROVE token' # NoTicket /\ Held /\ Capturing /\ token' = token
  BY <1>2, <1>6 DEF Finishes, HoldEased, Capturing
<1>7. ASSUME NEW outcome, Ends(outcome) PROVE token' # NoTicket /\ Held /\ Capturing /\ token' = token
  BY <1>2, <1>6, <1>7 DEF Ends, Releases, Same, HoldEased
<1>8. CASE Granted /\ Opens
  BY <1>1, <1>8, TicketTypes DEF Opens, Held, TicketInv, NoHold
<1> QED BY <1>3, <1>4, <1>5, <1>6, <1>7, <1>8 DEF GoesOn, Proceeds

\* Only a Shortcut signal asks for a dictation that hangs on a hold.
LEMMA OnlyShortcutsHold ==
    ASSUME LoopStep, ~TimeUp, ~HandleShortcut
    PROVE  ~(wait'.for = "start" /\ wait'.hold)
<1>1. NoWait.for # "start"
  BY NoneDiffers DEF NoWait
<1>2. ASSUME NEW reason, NEW tick, Cancel(reason, tick) PROVE wait'.for # "start"
  <2>1. wait' = NoWait \/ wait' = [NoWait EXCEPT !.for = "cancel", !.ticket = token, !.outcome = reason, !.tick = tick]
    BY <1>2 DEF Cancel
  <2>2. [NoWait EXCEPT !.for = "cancel", !.ticket = token, !.outcome = reason, !.tick = tick].for = "cancel"
    BY DEF NoWait
  <2> QED BY <1>1, <2>1, <2>2
<1>3. ASSUME NEW outcome, Release(outcome) PROVE wait'.for # "start"
  BY <1>1, <1>3 DEF Release, NoWait
<1>4. ASSUME Dispatching, wait' = wait PROVE wait'.for # "start"
  BY <1>4, NoneDiffers DEF Dispatching
<1>5. CASE HandleInvalidated
  BY <1>2, <1>4, <1>5 DEF HandleInvalidated, bridgeVars
<1>6. CASE HandleEvent
  <2>1. CASE DropEvent \/ HandleRecording
    BY <1>4, <2>1 DEF DropEvent, HandleRecording, Taking, bridgeVars
  <2>2. CASE HandlePreview
    BY <1>4, <2>2 DEF HandlePreview, Taking, NoWait
  <2>3. CASE HandleDone
    BY <1>3, <2>3 DEF HandleDone, NoWait
  <2> QED BY <1>6, <2>1, <2>2, <2>3 DEF HandleEvent
<1>7. CASE Enforce
  BY <1>1, <1>2, <1>7 DEF Enforce
<1>8. CASE Resume
  BY <1>1, <1>2, <1>3, <1>7, <1>8 DEF Resume, Started, CancelAnswered, PreviewAnswered, CommitAnswered,
     ReleaseAnswered, TickAnswered
<1>9. CASE Tick
  BY <1>7, <1>9 DEF Tick, NoWait
<1>10. CASE Shutdown
  BY <1>2, <1>10 DEF Shutdown
<1>11. ASSUME NEW command \in {"start", "stop", "toggle", "cancel"}, Command(command)
       PROVE  ~(wait'.for = "start" /\ wait'.hold)
  <2>1. CASE command = "cancel"
    BY <1>2, <1>11, <2>1 DEF Command
  <2>2. CASE command = "stop" \/ (command = "toggle" /\ phase # "idle")
    BY <1>4, <1>11, <2>2 DEF Command, StopNow
  <2>3. CASE command = "start" \/ (command = "toggle" /\ phase = "idle")
    <3>1. Start(NoField, FALSE) /\ Dispatching
      BY <1>11, <2>3 DEF Command
    <3>2. [NoWait EXCEPT !.for = "start", !.hold = FALSE, !.context = NoField].hold = FALSE
      BY DEF NoWait
    <3>3. wait' = wait \/ wait'.hold = FALSE
      BY <3>1, <3>2 DEF Start, bridgeVars
    <3> QED BY <1>4, <3>1, <3>3
  <2> QED BY <2>1, <2>2, <2>3
<1> QED BY <1>5, <1>6, <1>8, <1>9, <1>10, <1>11 DEF LoopStep, HandleSignal

\* What the handler of Shortcut makes of the signal.
LEMMA ShortcutHolds ==
    ASSUME TypeInv, HandleShortcut
    PROVE  /\ Head(signals).kind \in Ending /\ Held /\ Capturing => ~(Held' /\ Capturing')
           /\ wait'.for = "start" /\ wait'.hold => Head(signals).kind = "hold-start"
<1> DEFINE action == Head(signals).kind
<1>1. /\ generation # NoHold /\ wait.for # "start"
  BY NoneDiffers DEF TypeInv, TypeOK, BridgeTypeOK, NoHold, HandleShortcut, Dispatching
<1>2. ASSUME Cancel("cancelled", FALSE) PROVE ~Held' /\ wait'.for # "start"
  <2>1. wait' = NoWait \/ wait' = [NoWait EXCEPT !.for = "cancel", !.ticket = token, !.outcome = "cancelled", !.tick = FALSE]
    BY <1>2 DEF Cancel
  <2>2. [NoWait EXCEPT !.for = "cancel", !.ticket = token, !.outcome = "cancelled", !.tick = FALSE].for = "cancel"
    BY DEF NoWait
  <2>3. holdGen' = NoHold /\ generation' = generation
    BY <1>2 DEF Cancel
  <2>4. NoWait.for # "start"
    BY NoneDiffers DEF NoWait
  <2> QED BY <1>1, <2>1, <2>2, <2>3, <2>4 DEF Held
<1>3. CASE action = "hold-start"
  BY <1>3 DEF Ending
<1>4. CASE action = "hold-stop" /\ Held
  BY <1>1, <1>4 DEF HandleShortcut, Held
<1>5. CASE action = "hold-cancel" /\ Held
  BY <1>2, <1>5 DEF HandleShortcut
<1>6. CASE action = "toggle" /\ Held /\ Capturing
  BY <1>1, <1>6 DEF HandleShortcut, HandsFree, Held
<1>7. CASE action = "toggle" /\ ~(Held /\ Capturing)
  <2>1. CASE phase = "idle"
    <3>1. Start(Head(signals).context, FALSE)
      BY <1>7, <2>1 DEF HandleShortcut
    <3>2. [NoWait EXCEPT !.for = "start", !.hold = FALSE, !.context = Head(signals).context].hold = FALSE
      BY DEF NoWait
    <3> QED BY <1>7, <2>1, <3>1, <3>2 DEF Start
  <2>2. CASE phase # "idle"
    BY <1>1, <1>7, <2>2 DEF HandleShortcut, StopNow
  <2> QED BY <2>1, <2>2
<1>8. CASE ~(action = "hold-start" \/ (action = "hold-stop" /\ Held) \/ (action = "hold-cancel" /\ Held) \/ action = "toggle")
  <2>1. UNCHANGED <<calls, bridgeVars, recVars>>
    BY <1>8 DEF HandleShortcut
  <2>2. action \in {"hold-stop", "hold-cancel"} => ~Held
    BY <1>8
  <2> QED BY <1>1, <1>8, <2>1, <2>2 DEF bridgeVars, Ending
<1> QED BY <1>3, <1>4, <1>5, <1>6, <1>7, <1>8

\* A signal is taken, or none is.
LEMMA LoopSignals ==
    ASSUME TypeInv, LoopStep
    PROVE  signals' = signals \/ (HandleSignal /\ signals # <<>> /\ signals' = Tail(signals))
  BY DEF LoopStep, HandleSignal, HandleShortcut, HandleInvalidated, HandleEvent, DropEvent, HandleRecording,
     HandlePreview, HandleDone, Resume, Started, CancelAnswered, PreviewAnswered, CommitAnswered,
     ReleaseAnswered, TickAnswered, Tick, TimeUp, Shutdown, Command

\* Every handler of the main loop.
LEMMA LoopKeepsHold ==
    ASSUME TypeInv, TicketInv, HoldInv, LoopStep, ~TimeUp, UNCHANGED addonVars
    PROVE  HoldInv'
<1>1. GoesOn /\ Free /\ UNCHANGED <<up, faults, pending>> /\ OpenHold' = OpenHold /\ up
  BY LoopGoesOn DEF LoopStep, addonVars, hotVars, OpenHold, Free
<1>2. SUFFICES ASSUME faults = 0
               PROVE  /\ \A i \in 1..Len(signals') : signals'[i].kind = "hold-start" =>
                            OpenHold' \/ \E j \in 1..Len(signals') : j > i /\ signals'[j].kind \in Ending
                      /\ wait'.for = "start" /\ wait'.hold => Kept'
                      /\ Held' /\ Capturing' => token' # NoTicket /\ (Kept' \/ pending'.ticket # token')
  BY <1>1 DEF HoldInv
<1>3. ASSUME Held', Capturing'
      PROVE  /\ token' # NoTicket
             /\ (Held /\ Capturing /\ token' = token) \/ (wait.for = "start" /\ wait.hold)
  BY <1>1, <1>2, <1>3, LoopHolds DEF HoldInv
<1>4. ASSUME Held', Capturing' PROVE Kept \/ pending'.ticket # token'
  BY <1>1, <1>2, <1>3, <1>4 DEF HoldInv
<1>5. CASE signals' = signals
  <2>1. Kept' = Kept
    BY <1>1, <1>5 DEF Kept, EndSent
  <2>2. ~HandleShortcut
    <3>1. HandleShortcut => signals # <<>> /\ signals' = Tail(signals)
      BY DEF HandleShortcut
    <3>2. signals # <<>> => Len(signals) = Len(Tail(signals)) + 1 /\ Len(Tail(signals)) \in Nat
      BY TailFacts DEF TypeInv, TypeOK, BusTypeOK
    <3> QED BY <1>5, <3>1, <3>2
  <2>3. ~(wait'.for = "start" /\ wait'.hold)
    BY <2>2, OnlyShortcutsHold
  <2>4. \A i \in 1..Len(signals') : signals'[i].kind = "hold-start" =>
              OpenHold' \/ \E j \in 1..Len(signals') : j > i /\ signals'[j].kind \in Ending
    BY <1>1, <1>2, <1>5 DEF HoldInv
  <2> QED BY <1>3, <1>4, <2>1, <2>3, <2>4
<1>6. CASE HandleSignal /\ signals # <<>> /\ signals' = Tail(signals)
  <2> DEFINE n == Len(signals')
  <2>1. /\ Head(signals) = signals[1] /\ 1 \in 1..Len(signals)
        /\ n \in Nat /\ Len(signals) = n + 1
        /\ \A i \in 1..n : i \in Nat /\ i + 1 \in 1..Len(signals) /\ signals'[i] = signals[i + 1]
    BY <1>6, TailFacts DEF TypeInv, TypeOK, BusTypeOK
  <2>2. n = Len(signals')
    OBVIOUS
  <2> HIDE DEF n
  <2>3. ASSUME NEW j \in 1..Len(signals), j > 1, signals[j].kind \in Ending
        PROVE  j - 1 \in 1..n /\ signals'[j - 1].kind \in Ending
    <3>1. j - 1 \in 1..n /\ (j - 1) + 1 = j
      BY <2>1, <2>3
    <3> QED BY <2>1, <2>3, <3>1
  <2>4. ASSUME NEW i \in 1..n, signals'[i].kind = "hold-start", ~OpenHold
        PROVE  \E j \in 1..n : j > i /\ signals'[j].kind \in Ending
    <3>1. i + 1 \in 1..Len(signals) /\ signals[i + 1].kind = "hold-start"
      BY <2>1, <2>4
    <3>2. PICK j \in 1..Len(signals) : j > i + 1 /\ signals[j].kind \in Ending
      BY <1>2, <2>4, <3>1 DEF HoldInv
    <3>3. j > 1 /\ j - 1 > i
      BY <2>1, <3>2
    <3> QED BY <2>3, <3>2, <3>3
  <2>5. ASSUME signals[1].kind = "hold-start" PROVE Kept'
    <3>1. OpenHold \/ \E j \in 1..Len(signals) : j > 1 /\ signals[j].kind \in Ending
      BY <1>2, <2>1, <2>5 DEF HoldInv
    <3> QED BY <1>1, <2>2, <2>3, <3>1 DEF Kept, EndSent
  <2>6. ASSUME Kept, signals[1].kind \notin Ending PROVE Kept'
    <3>1. ASSUME NEW j \in 1..Len(signals), signals[j].kind \in Ending PROVE EndSent'
      <4>1. j > 1
        BY <2>1, <2>6, <3>1
      <4> QED BY <2>2, <2>3, <3>1, <4>1 DEF EndSent
    <3> QED BY <1>1, <2>6, <3>1 DEF Kept, EndSent
  <2>7. wait'.for = "start" /\ wait'.hold => signals[1].kind = "hold-start"
    <3>1. CASE HandleShortcut
      BY <2>1, <3>1, ShortcutHolds
    <3>2. CASE ~HandleShortcut
      BY <3>2, OnlyShortcutsHold
    <3> QED BY <3>1, <3>2
  <2>8. ASSUME Held', Capturing' PROVE Kept' \/ pending'.ticket # token'
    <3>1. wait.for # "start"
      BY <1>6, NoneDiffers DEF HandleSignal, HandleShortcut, HandleInvalidated, Dispatching
    <3>2. Held /\ Capturing
      BY <1>3, <2>8, <3>1
    <3>3. signals[1].kind \notin Ending
      <4>1. CASE HandleShortcut
        BY <2>1, <2>8, <3>2, <4>1, ShortcutHolds
      <4>2. CASE ~HandleShortcut
        BY <1>6, <2>1, <4>2 DEF HandleSignal, HandleInvalidated, Ending
      <4> QED BY <4>1, <4>2
    <3> QED BY <1>4, <2>6, <2>8, <3>3
  <2> QED BY <1>1, <1>3, <2>2, <2>4, <2>5, <2>7, <2>8
<1> QED BY <1>5, <1>6, LoopSignals

\* Every step of voice input.
LEMMA HoldInvStep ==
    TypeInv /\ TicketInv /\ HotInv /\ HoldInv /\ [Next]_vars => HoldInv'
<1> SUFFICES ASSUME TypeInv, TicketInv, HotInv, HoldInv, [Next]_vars PROVE HoldInv'
  OBVIOUS
<1>1. CASE Addon /\ UserStep
  <2>1. PICK some : Reports(some)
    BY <1>1, UserReports
  <2> QED BY <1>1, <2>1, UserForm, ReportsKeepHold DEF Addon, bridgeVars, loopVars, SameDelivery
<1>2. CASE Addon /\ Serve
  <2>1. PICK some : Reports(some)
    BY <1>2, ServeReports
  <2>2. UNCHANGED <<wait, phase, token, generation, holdGen, up, faults>>
    BY <1>2 DEF Addon, Serve, bridgeVars, loopVars
  <2>3. pending' = NoDelivery \/ pending'.ticket \in {pending.ticket, nextTicket}
    BY <1>2, ServeForms DEF Leaves, Drops, Grants, Writes, SameDelivery
  <2> QED BY <2>1, <2>2, <2>3, ReportsKeepHold
<1>3. CASE Session \/ UNCHANGED vars \/ (Bridge /\ LoopStep /\ TimeUp)
  <2>1. UNCHANGED <<wait, phase, token, generation, holdGen, up, faults, signals, pending, hot>>
    BY <1>3 DEF Session, SessionRuns, Bridge, TimeUp, vars, busVars, bridgeVars, loopVars, addonVars, hotVars,
       LoopStep
  <2> QED BY <2>1 DEF HoldInv, Held, Capturing, Kept, EndSent, OpenHold
<1>4. CASE Bridge /\ LoopStep /\ ~TimeUp
  BY <1>4, LoopKeepsHold DEF Bridge
<1>5. CASE Addon /\ AddonFault
  <2>1. faults' # 0 /\ UNCHANGED <<up>>
    BY <1>5, FaultForm, BusAssumption DEF TypeInv, TypeOK, BusTypeOK
  <2>2. UNCHANGED signals
    BY <1>5 DEF AddonFault, AddonRestart, StrangerCall
  <2> QED BY <2>1, <2>2 DEF HoldInv
<1>6. CASE Bridge /\ CallTimeout
  <2>1. faults' # 0 /\ up' = up /\ signals' = signals
    BY <1>6, BusAssumption DEF CallTimeout, TypeInv, TypeOK, BusTypeOK
  <2> QED BY <2>1 DEF HoldInv
<1>7. CASE Bridge /\ Exit
  <2>1. signals' = <<>> /\ wait' = NoWait /\ phase' = "idle"
    BY <1>7 DEF Exit, BridgeReset
  <2>2. wait'.for # "start"
    BY <2>1, NoneDiffers DEF NoWait
  <2> QED BY <2>1, <2>2 DEF HoldInv, Capturing
<1>8. CASE Bridge /\ Restart
  <2>1. up' /\ UNCHANGED <<wait, phase, signals>> /\ wait.for = None /\ phase = "idle" /\ signals = <<>>
    BY <1>8 DEF Restart, bridgeVars, loopVars, TicketInv, HoldInv
  <2> QED BY <2>1, NoneDiffers DEF HoldInv, Capturing
<1> QED BY <1>1, <1>2, <1>3, <1>4, <1>5, <1>6, <1>7, <1>8 DEF Next, Addon, Bridge, BridgeFault

\* As long as no call timed out, Fcitx did not restart and no stranger called, a recording
\* started by holding Right Alt goes on only while the key is down, or while what ends it
\* is under way: a signal, or the ticket is gone and the next tick finds out (hotkey() of
\* voice.cpp, shortcut() and hold_generation of daemon.py).
THEOREM HoldsEnd == Spec => [](faults = 0 => HoldEnds)
<1>1. ASSUME HotInv, HoldInv, faults = 0 PROVE HoldEnds
  BY <1>1 DEF HotInv, HoldInv, Kept, OpenHold, EndSent, Ending, HoldEnds
<1>2. TypeInv /\ (CallsInv /\ TicketInv) /\ HotInv /\ HoldInv /\ [Next]_vars => HoldInv'
  BY HoldInvStep
<1>3. HotInv /\ HoldInv => (faults = 0 => HoldEnds)
  BY <1>1
<1> QED BY <1>2, <1>3, HoldInvInit, TypeInvariant, TicketInvariant, HotkeyFollowsKey, PTL DEF Spec
=============================================================================
