---------------------------- MODULE VoiceBridge -----------------------------
(***************************************************************************)
(* The voice coordinator, class Bridge of bridge/daemon.py: a GLib main    *)
(* loop that dispatches D-Bus methods and signals, events of the recording *)
(* session and a 250 ms tick.  Its own calls to the addon (fcitx()) are    *)
(* synchronous: the loop stands still until the answer or a timeout of     *)
(* 1500 ms, and the handler goes on where it was.  wait records which      *)
(* handler that is; every other step needs wait.for = None.                *)
(*                                                                         *)
(*   phase, token, generation  as in the code                              *)
(*   holdGen   hold_generation (NoHold: None)                              *)
(*   last      what Status reports of the last dictation, with the ticket  *)
(*             it was about                                                *)
(*   overdue   time.monotonic()-self.since exceeds the limit of the phase  *)
(*   ticking   the tick timer still exists                                 *)
(***************************************************************************)
EXTENDS VoiceBus, RecordingSession

CONSTANT NotifyWorks    \* the notify-send program can be started

ASSUME NotifyAssumption == NotifyWorks \in BOOLEAN

VARIABLES phase, token, generation, holdGen, last, overdue, ticking, wait
loopVars   == <<phase, token, generation, holdGen, last, overdue, ticking>>
bridgeVars == <<loopVars, wait>>

NoHold == -1
NoWait == [for |-> None, hold |-> FALSE, context |-> NoField, ticket |-> NoTicket,
           outcome |-> None, tick |-> FALSE]
NoLast == [outcome |-> None, ticket |-> NoTicket]

Outcomes == {"committed", "focus-cancelled", "fcitx-unavailable", "no-final-result"}
CancelReasons == {"cancelled", "invalidated"}  \* wording apart: told by a notification or not

BridgeReset ==
    /\ phase' = "idle" /\ token' = NoTicket /\ generation' = 0 /\ holdGen' = NoHold
    /\ last' = NoLast /\ overdue' = FALSE /\ ticking' = TRUE /\ wait' = NoWait
    /\ rec' = NoSession /\ events' = <<>>

BridgeInit ==
    /\ phase = "idle" /\ token = NoTicket /\ generation = 0 /\ holdGen = NoHold
    /\ last = NoLast /\ overdue = FALSE /\ ticking = TRUE /\ wait = NoWait
    /\ rec = NoSession /\ events = <<>>

LastReport == [outcome : Outcomes \cup CancelReasons \cup {None}, ticket : Tickets \cup {NoTicket}]
Waiting == [for : {None, "start", "valid", "preview", "commit", "release", "cancel"},
            hold : BOOLEAN, context : Fields \cup {NoField}, ticket : Tickets \cup {NoTicket},
            outcome : Outcomes \cup CancelReasons \cup {None}, tick : BOOLEAN]

BridgeTypeOK ==
    /\ phase \in {"idle", "connecting", "recording", "processing", "cancelling"}
    /\ token \in Tickets \cup {NoTicket}
    /\ generation \in Nat /\ holdGen \in Nat \cup {NoHold}
    /\ last \in LastReport
    /\ overdue \in BOOLEAN /\ ticking \in BOOLEAN
    /\ wait \in Waiting

Dispatching == up /\ wait.for = None
Capturing   == phase \in {"connecting", "recording"}
HasSession  == rec.thread # "none"

\* The handler that waited goes on.
Answered(handler) == up /\ wait.for = handler /\ reply # NoReply /\ reply' = NoReply

Enter(next) == phase' = next /\ overdue' = FALSE
-----------------------------------------------------------------------------
(* command() *)

\* command('start'): raises unless idle.
Start(context, hold) ==
    IF phase = "idle"
    THEN /\ Send("Begin", NoTicket, context, None)
         /\ wait' = [NoWait EXCEPT !.for = "start", !.hold = hold, !.context = context]
         /\ UNCHANGED <<loopVars, recVars>>
    ELSE UNCHANGED <<calls, bridgeVars, recVars>>

\* A ticket came back.  The last thing command('start') does is to notify, and
\* shortcut() binds the hold to the generation only when that did not raise.
HeldBy(hold) == IF hold /\ NotifyWorks THEN generation' ELSE NoHold

Started ==
    /\ Answered("start") /\ wait' = NoWait
    /\ IF reply.answer = "yes"
       THEN /\ token' = reply.ticket /\ generation' = generation + 1
            /\ holdGen' = HeldBy(wait.hold)
            /\ Enter("connecting") /\ rec' = NewSession(generation')
            /\ UNCHANGED <<last, ticking, events>>
       ELSE UNCHANGED <<loopVars, recVars>>
    /\ UNCHANGED <<calls, signals>>

\* command('stop') without the caller's part.
Stop == IF Capturing
        THEN Enter("processing") /\ rec' = [rec EXCEPT !.stop = TRUE]
        ELSE UNCHANGED <<phase, overdue, rec>>

\* cancel() from the point where the ticket is given back.  A notification that
\* cannot be sent raises out of the handler (and a tick that raises is over).
Tells(reason) == reason = "invalidated"

AfterCancelFaulty == "idle"           \* idle without waiting for the session

\* The session must end before the next one may start.
AfterCancel == "cancelling"

Cancelled(reason, about, tick) ==
    /\ last' = [outcome |-> reason, ticket |-> about]
    /\ IF NotifyWorks \/ ~Tells(reason)
       THEN Enter(AfterCancel) /\ rec' = [rec EXCEPT !.cancel = TRUE] /\ UNCHANGED ticking
       ELSE ticking' = (ticking /\ ~tick) /\ UNCHANGED <<phase, overdue, rec>>

Cancel(reason, tick) ==
    /\ holdGen' = NoHold
    /\ IF HasSession
       THEN /\ token' = NoTicket
            /\ IF token # NoTicket
               THEN /\ Send("Cancel", token, NoField, None)
                    /\ wait' = [NoWait EXCEPT !.for = "cancel", !.ticket = token,
                                              !.outcome = reason, !.tick = tick]
                    /\ UNCHANGED <<phase, last, overdue, ticking, rec>>
               ELSE /\ Cancelled(reason, last.ticket, tick) /\ wait' = NoWait
                    /\ UNCHANGED calls
       ELSE /\ wait' = NoWait
            /\ UNCHANGED <<calls, phase, token, last, overdue, ticking, rec>>
    /\ UNCHANGED <<generation, events>>

CancelAnswered ==
    /\ Answered("cancel") /\ wait' = NoWait
    /\ Cancelled(wait.outcome, wait.ticket, wait.tick)
    /\ UNCHANGED <<calls, signals, token, generation, holdGen, events>>

-----------------------------------------------------------------------------
(* What the loop dispatches. *)

StopNow ==
    /\ Stop /\ UNCHANGED <<calls, token, generation, holdGen, last, ticking, wait, events>>

\* The Command method.
Command(command) ==
    /\ Dispatching
    /\ CASE command = "start" \/ (command = "toggle" /\ phase = "idle") -> Start(NoField, FALSE)
         [] command = "stop"  \/ (command = "toggle" /\ phase # "idle") -> StopNow
         [] command = "cancel" -> Cancel("cancelled", FALSE)
    /\ UNCHANGED <<reply, signals>>

\* The Shortcut signal.
Held == holdGen = generation

HandsFreeFaulty == UNCHANGED holdGen  \* the hold is not given up

\* Space while holding Alt: nothing but another shortcut ends the recording.
HandsFree == holdGen' = NoHold

HandleShortcut ==
    /\ Dispatching /\ signals # <<>> /\ Head(signals).kind # "invalidated"
    /\ signals' = Tail(signals)
    /\ LET action == Head(signals).kind
           context == Head(signals).context
           kept == UNCHANGED <<calls, token, generation, last, ticking, wait, events>> IN
       CASE action = "hold-start" /\ phase = "idle" -> Start(context, TRUE)
         [] action = "hold-stop" /\ Held -> Stop /\ holdGen' = NoHold /\ kept
         [] action = "hold-cancel" /\ Held -> Cancel("cancelled", FALSE)
         [] action = "toggle" /\ Held /\ Capturing ->
              HandsFree /\ kept /\ UNCHANGED <<phase, overdue, rec>>
         [] action = "toggle" /\ ~(Held /\ Capturing) ->
              IF phase = "idle" THEN Start(context, FALSE) ELSE StopNow
         [] OTHER -> UNCHANGED <<calls, bridgeVars, recVars>>
    /\ UNCHANGED reply

\* The Invalidated signal.
HandleInvalidated ==
    /\ Dispatching /\ signals # <<>> /\ Head(signals).kind = "invalidated"
    /\ signals' = Tail(signals)
    /\ IF Head(signals).ticket = token
       THEN Cancel("invalidated", FALSE)
       ELSE UNCHANGED <<calls, bridgeVars, recVars>>
    /\ UNCHANGED reply

CurrentFaulty(event) ==               \* nothing is taken while cancelling
    event.gen = generation /\ HasSession /\ phase # "cancelling"

\* The next event of the session is taken; one of an earlier generation is dropped.
Current(event) == event.gen = generation /\ HasSession

Taking(kind) ==
    /\ Dispatching /\ events # <<>> /\ Head(events).kind = kind
    /\ Current(Head(events))
    /\ events' = Tail(events)

DropEvent ==
    /\ Dispatching /\ events # <<>> /\ ~Current(Head(events))
    /\ events' = Tail(events)
    /\ UNCHANGED <<calls, reply, signals, bridgeVars, rec>>

HandleRecording ==
    /\ Taking("recording")
    /\ IF phase = "connecting" THEN Enter("recording") ELSE UNCHANGED <<phase, overdue>>
    /\ UNCHANGED <<calls, reply, signals, token, generation, holdGen, last, ticking,
                   wait, rec>>

HandlePreview ==
    /\ Taking("preview")
    /\ IF phase \in {"connecting", "recording", "processing"} /\ token # NoTicket
       THEN /\ Send("Preview", token, NoField, Head(events).text)
            /\ wait' = [NoWait EXCEPT !.for = "preview"]
       ELSE UNCHANGED <<calls, wait>>
    /\ UNCHANGED <<reply, signals, loopVars, rec>>

PreviewAnswered ==
    /\ Answered("preview")
    /\ IF reply.answer = "yes" THEN wait' = NoWait /\ UNCHANGED <<calls, loopVars, recVars>>
                               ELSE Cancel("cancelled", FALSE)
    /\ UNCHANGED signals

\* The end of event('done'), after the last call to the addon.
Finished(outcome, about) ==
    /\ last' = IF phase # "cancelling" THEN [outcome |-> outcome, ticket |-> about] ELSE last
    /\ IF NotifyWorks \/ phase = "cancelling"
       THEN Enter("idle") /\ token' = NoTicket /\ rec' = NoSession
       ELSE UNCHANGED <<phase, overdue, token, rec>>

GivesBackFaulty(outcome) ==           \* only after an attempt to deliver
    token # NoTicket /\ outcome # "no-final-result"

\* The ticket is given back whatever became of the text.
GivesBack(outcome) == token # NoTicket

Release(outcome) ==
    IF GivesBack(outcome)
    THEN /\ Send("Cancel", token, NoField, None)
         /\ wait' = [NoWait EXCEPT !.for = "release", !.outcome = outcome]
         /\ UNCHANGED <<phase, overdue, token, last, rec>>
    ELSE /\ Finished(outcome, last.ticket) /\ wait' = NoWait
         /\ UNCHANGED calls

MayCommit(text) == phase = "processing" /\ token # NoTicket /\ text # None

HandleDone ==
    /\ Taking("done")
    /\ LET text == Head(events).text IN
       IF MayCommit(text)
       THEN /\ Send("Commit", token, NoField, text)
            /\ wait' = [NoWait EXCEPT !.for = "commit"]
            /\ UNCHANGED <<phase, overdue, token, last, rec>>
       ELSE Release("no-final-result")
    /\ UNCHANGED <<reply, signals, generation, holdGen, ticking>>

OutcomeOfFaulty(answer) ==            \* a refusal is taken for a delivery
    IF answer = "error" THEN "fcitx-unavailable" ELSE "committed"

OutcomeOf(answer) == CASE answer = "yes" -> "committed"
                       [] answer = "no" -> "focus-cancelled"
                       [] OTHER -> "fcitx-unavailable"

CommitAnswered ==
    /\ Answered("commit") /\ Release(OutcomeOf(reply.answer))
    /\ UNCHANGED <<signals, generation, holdGen, ticking, events>>

ReleaseAnswered ==
    /\ Answered("release") /\ wait' = NoWait
    /\ Finished(wait.outcome, token)
    /\ UNCHANGED <<calls, signals, self, up, faults, generation, holdGen, ticking, events>>

-----------------------------------------------------------------------------
(* tick() and the time limits of the phases. *)

LimitedFaulty == phase \in {"recording", "processing"}    \* connecting has no limit
LimitedFaulty2 == phase \in {"connecting", "processing"}   \* recording has no limit

Limited == phase \in {"connecting", "recording", "processing"}

TimeUp ==
    /\ up /\ Limited /\ ~overdue /\ overdue' = TRUE
    /\ UNCHANGED <<calls, reply, signals, phase, token, generation, holdGen, last,
                   ticking, wait, recVars>>

\* The second half of tick(): a stop that cannot notify ends the timer.
Enforce ==
    CASE ~overdue -> wait' = NoWait /\ UNCHANGED <<calls, loopVars, recVars>>
      [] overdue /\ phase = "recording" ->
           /\ Stop /\ ticking' = NotifyWorks /\ wait' = NoWait
           /\ UNCHANGED <<calls, token, generation, holdGen, last, events>>
      [] overdue /\ phase # "recording" -> Cancel("cancelled", TRUE)

Tick ==
    /\ Dispatching /\ ticking
    /\ IF token # NoTicket
       THEN /\ Send("Valid", token, NoField, None)
            /\ wait' = [NoWait EXCEPT !.for = "valid"]
            /\ UNCHANGED <<loopVars, recVars>>
       ELSE overdue /\ Enforce
    /\ UNCHANGED <<reply, signals>>

TickAnswered ==
    /\ Answered("valid")
    /\ IF reply.answer = "yes" THEN Enforce ELSE Cancel("invalidated", TRUE)
    /\ UNCHANGED signals

\* SIGTERM or SIGINT: the loop runs on until the session is gone.
Shutdown ==
    /\ Dispatching /\ HasSession /\ Cancel("cancelled", FALSE)
    /\ UNCHANGED <<reply, signals>>

-----------------------------------------------------------------------------
(* Faults: an answer too late or never, the end of the process. *)

\* The call is given up after 1500 ms but stays on its way.
CallTimeout ==
    /\ up /\ wait.for # None /\ reply = NoReply
    /\ faults < MaxFaults /\ faults' = faults + 1
    /\ calls' = Forsaken
    /\ reply' = [answer |-> "error", ticket |-> NoTicket]
    /\ UNCHANGED <<signals, self, up, bridgeVars, recVars>>

\* The process ends, at the end of a shutdown or by a crash: the capture process
\* and the session end with it, the bus tells the addon.
Exit ==
    /\ up /\ up' = FALSE /\ self < MaxStarts
    /\ calls' = Append(Forsaken, [Message("gone", NoTicket, NoField, None) EXCEPT !.awaited = FALSE])
    /\ reply' = NoReply /\ signals' = <<>>
    /\ BridgeReset
    /\ UNCHANGED <<self, faults>>

Restart ==
    /\ ~up /\ up' = TRUE /\ self' = self + 1
    /\ UNCHANGED <<calls, reply, signals, faults, bridgeVars, recVars>>

Resume == \/ Started \/ CancelAnswered \/ PreviewAnswered \/ CommitAnswered
          \/ ReleaseAnswered \/ TickAnswered

HandleEvent  == DropEvent \/ HandleRecording \/ HandlePreview \/ HandleDone
HandleSignal == HandleShortcut \/ HandleInvalidated

\* The main loop, but for its faults.
LoopStep ==
    /\ \/ HandleSignal \/ HandleEvent \/ Resume \/ Tick \/ TimeUp
       \/ "shutdown" \in Moves /\ Shutdown
       \/ /\ "command" \in Moves
          /\ \E command \in {"start", "stop", "toggle", "cancel"} : Command(command)
    /\ UNCHANGED <<self, up, faults>>

BridgeFault == CallTimeout \/ Exit \/ Restart

SessionRuns == up /\ SessionStep /\ UNCHANGED <<busVars, bridgeVars>>
=============================================================================
