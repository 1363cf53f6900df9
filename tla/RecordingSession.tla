-------------------------- MODULE RecordingSession --------------------------
(***************************************************************************)
(* One recording session (class Session of bridge/audio.py) as the         *)
(* coordinator sees it: a thread that owns the microphone, reads two flags *)
(* the main loop sets, and posts events to that loop (GLib.idle_add).      *)
(*                                                                         *)
(*   rec.thread  "none" while self.session is None; "running"; "decided"   *)
(*               once the text of the outcome is fixed; "ended" once the   *)
(*               done event is posted                                      *)
(*   rec.gen     the generation its callback was made for                  *)
(*   rec.stop, rec.cancel  the threading.Events                            *)
(*   rec.mic     the capture process: "new", "opening", "on" or "off"      *)
(*   rec.text    the text of the outcome                                   *)
(*   events      what waits for the main loop, oldest first                *)
(*                                                                         *)
(* The queue of audio, the speech provider and the organizer are left to   *)
(* modules of their own: here a recording may fail at any time, and one    *)
(* that was stopped and not cancelled may end with any text.               *)
(***************************************************************************)
EXTENDS Naturals, Sequences

CONSTANTS MaxEvents,      \* events that may wait for the main loop
          PreviewTexts,   \* texts the session may show as a preview
          FinalTexts      \* texts the session may end with

NoText == ""

ASSUME SessionAssumption ==
    /\ MaxEvents \in Nat \ {0}
    /\ PreviewTexts \subseteq {NoText, "safe"}
    /\ FinalTexts \subseteq {NoText, "safe", "unsafe"}

VARIABLES rec, events
recVars == <<rec, events>>

NoSession == [thread |-> "none", gen |-> 0, stop |-> FALSE, cancel |-> FALSE,
              mic |-> "off", text |-> NoText]
NewSession(gen) == [NoSession EXCEPT !.thread = "running", !.gen = gen, !.mic = "new"]

SessionState ==
    [thread : {"none", "running", "decided", "ended"}, gen : Nat, stop : BOOLEAN,
     cancel : BOOLEAN, mic : {"new", "opening", "on", "off"}, text : {NoText, "safe", "unsafe"}]
Event == [kind : {"recording", "preview", "done"}, gen : Nat, text : {NoText, "safe", "unsafe"}]

RecTypeOK == rec \in SessionState /\ events \in Seq(Event)

Post(kind, text) ==
    /\ Len(events) < MaxEvents
    /\ events' = Append(events, [kind |-> kind, gen |-> rec.gen, text |-> text])

Stopping == rec.stop \/ rec.cancel
Recording == rec.mic \in {"opening", "on"}

\* The capture process is started only while neither flag is set.
OpenMic ==
    /\ rec.thread = "running" /\ rec.mic = "new"
    /\ rec' = [rec EXCEPT !.mic = IF Stopping THEN "off" ELSE "opening"]
    /\ UNCHANGED events

\* The flags may have been set meanwhile: the event is posted all the same.
MicOpened ==
    /\ rec.thread = "running" /\ rec.mic = "opening"
    /\ rec' = [rec EXCEPT !.mic = "on"]
    /\ Post("recording", NoText)

\* The session terminates the capture process, it died, or it could not be started.
CloseMic ==
    /\ Recording /\ rec' = [rec EXCEPT !.mic = "off"]
    /\ UNCHANGED events

\* A partial or final text from the provider, without control characters.  The
\* thread looks at cancel before it posts; cancel may be set in between.
PostPreview ==
    /\ rec.thread = "running"
    /\ \E text \in PreviewTexts : Post("preview", text)
    /\ UNCHANGED rec

\* The last look at the flags: what the outcome will say.
MayHaveText == rec.stop /\ ~rec.cancel /\ rec.mic = "off"

Decide(text) ==
    /\ rec.thread = "running"
    /\ text # NoText => MayHaveText
    /\ rec' = [rec EXCEPT !.thread = "decided", !.text = text,
                          !.mic = IF @ = "on" THEN "on" ELSE "off"]
    /\ UNCHANGED events

ReapedFaulty == TRUE                  \* done is posted before the processes are reaped

\* Only after the capture process was reaped.
Reaped == rec.mic = "off"

PostDone ==
    /\ rec.thread = "decided" /\ Reaped
    /\ rec' = [rec EXCEPT !.thread = "ended"]
    /\ Post("done", rec.text)

SessionStep ==
    \/ OpenMic \/ MicOpened \/ CloseMic \/ PostPreview \/ PostDone
    \/ \E text \in FinalTexts \cup {NoText} : Decide(text)

-----------------------------------------------------------------------------
(* The session on its own: what AudioSession implements.  Whoever refers to it *)
(* sets the flags and takes the events.                                        *)

SetStop   == ~rec.stop /\ rec' = [rec EXCEPT !.stop = TRUE] /\ UNCHANGED events
SetCancel == ~rec.cancel /\ rec' = [rec EXCEPT !.cancel = TRUE] /\ UNCHANGED events
TakeEvent == events # <<>> /\ events' = Tail(events) /\ UNCHANGED rec

SessionSpec ==
    /\ rec = NewSession(1) /\ events = <<>>
    /\ [][SessionStep \/ SetStop \/ SetCancel \/ TakeEvent]_recVars
=============================================================================
