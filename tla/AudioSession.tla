---------------------------- MODULE AudioSession ----------------------------
(***************************************************************************)
(* One recording session from inside: classes Result and Session of        *)
(* bridge/audio.py.  An asyncio loop in a thread of its own runs the       *)
(* coroutines run(), feed() and output(), which take turns at their        *)
(* awaits.  The coordinator's thread sets the two flags at any time; the   *)
(* capture and provider processes do as they like.                         *)
(*                                                                         *)
(*   stop, cancel  the threading.Events                                    *)
(*   main      where run_with_organizer() and run() are                    *)
(*   provider  "none", "alive", or how it exited: "ok" or "failed"         *)
(*   capture   "none", "alive" or "dead"                                   *)
(*   feed      the task that reads the capture: "none", "reading", "ended" *)
(*   reader    output(), the task that reads the provider, or "failed"     *)
(*   captured  how many chunks of audio were kept; they are numbered       *)
(*   queued    those that wait for the connection                          *)
(*   sent      what was written to the provider: chunks, and Finish        *)
(*   finished  the variable of that name: Finish was sent                  *)
(*   result    segment, final, closed and error of class Result            *)
(*   ready     the provider's session has started                          *)
(*   shown     last_preview, None if there is none                         *)
(*   text      the text of the outcome                                     *)
(*   events    what waits for the coordinator's main loop                  *)
(*                                                                         *)
(* What the provider writes is not constrained, so the lines that wait in  *)
(* its pipe are no part of the state: any line may be read next, also      *)
(* after it has exited.  stderr, statistics and error categories are left  *)
(* out.                                                                    *)
(***************************************************************************)
EXTENDS Naturals, Sequences

CONSTANTS MaxChunks,   \* chunks the capture delivers
          MaxQueue,    \* chunks that may wait (640000 bytes in the code)
          MaxEvents,   \* no preview is posted while as many events wait for the main loop
          Texts        \* texts the provider may write, "" for one receive() refuses

NoText == ""

ASSUME AudioAssumption ==
    /\ MaxChunks \in Nat /\ MaxQueue \in Nat /\ MaxEvents \in Nat \ {0}
    /\ Texts \subseteq {NoText, "safe", "unsafe"}

VARIABLES stop, cancel, main, provider, capture, feed, reader, captured, queued, sent,
          finished, result, ready, shown, text, events
flags     == <<stop, cancel>>
processes == <<provider, capture>>
tasks     == <<feed, reader>>
audio     == <<captured, queued, sent, finished>>
said      == <<result, ready, shown>>
vars == <<flags, main, processes, tasks, audio, said, text, events>>

Finish == 0
None   == "none"
Exited == {"ok", "failed"}

Lines == [kind : {"started", "error", "closed"}, text : {NoText}]
         \cup [kind : {"partial", "segment", "final"}, text : Texts]

\* Type invariant, with the bound on the audio that waits for the connection.
AudioTypeOK ==
    /\ stop \in BOOLEAN /\ cancel \in BOOLEAN /\ finished \in BOOLEAN
    /\ main \in {"new", "mic", "opening", "top", "stopping", "drain", "last", "ending", "reap",
                 "back", "organizing", "closing", "ended"}
    /\ provider \in {"none", "alive"} \cup Exited
    /\ capture \in {"none", "alive", "dead"}
    /\ feed \in {"none", "reading", "ended"} /\ reader \in {"none", "reading", "ended", "failed"}
    /\ captured \in 0..MaxChunks /\ queued \in Seq(1..MaxChunks) /\ sent \in Seq(0..MaxChunks)
    /\ Len(queued) <= MaxQueue \/ result.error
    /\ result \in [segment : Texts \cup {NoText}, final : Texts \cup {NoText},
                   closed : BOOLEAN, error : BOOLEAN]
    /\ ready \in BOOLEAN /\ shown \in Texts \cup {None}
    /\ text \in Texts \cup {NoText}
    /\ events \in Seq([kind : {"recording", "preview", "done"}, gen : {1},
                       text : Texts \cup {NoText}])

Stopping == stop \/ cancel

Post(kind, words) == events' = Append(events, [kind |-> kind, gen |-> 1, text |-> words])

Init ==
    /\ stop = FALSE /\ cancel = FALSE /\ main = "new"
    /\ provider = "none" /\ capture = "none" /\ feed = "none" /\ reader = "none"
    /\ captured = 0 /\ queued = <<>> /\ sent = <<>> /\ finished = FALSE
    /\ result = [segment |-> NoText, final |-> NoText, closed |-> FALSE, error |-> FALSE]
    /\ ready = FALSE /\ shown = None
    /\ text = NoText /\ events = <<>>

-----------------------------------------------------------------------------
(* The coordinator. *)

SetStop ==
    /\ ~stop /\ stop' = TRUE
    /\ UNCHANGED <<cancel, main, processes, tasks, audio, said, text, events>>

SetCancel ==
    /\ ~cancel /\ cancel' = TRUE
    /\ UNCHANGED <<stop, main, processes, tasks, audio, said, text, events>>

TakeEvent ==
    /\ events # <<>> /\ events' = Tail(events)
    /\ UNCHANGED <<flags, main, processes, tasks, audio, said, text>>

-----------------------------------------------------------------------------
(* The provider and the capture process end, by themselves or by a signal. *)

ProviderExits ==
    /\ provider = "alive" /\ provider' \in Exited
    /\ UNCHANGED <<flags, main, capture, tasks, audio, said, text, events>>

CaptureExits ==
    /\ capture = "alive" /\ capture' = "dead"
    /\ UNCHANGED <<flags, main, provider, tasks, audio, said, text, events>>

-----------------------------------------------------------------------------
(* feed(): a chunk that arrives after a flag is dropped, and so is what follows. *)

KeepsFaulty == TRUE                   \* the flags are not looked at after the read

\* The second look at the flags, after the read.
Keeps == ~Stopping

\* At most twenty seconds of audio while connecting.
Overflow == Len(queued') > MaxQueue

FeedChunk ==
    /\ feed = "reading" /\ captured < MaxChunks /\ Keeps
    /\ captured' = captured + 1 /\ queued' = Append(queued, captured')
    /\ feed' = IF Overflow THEN "ended" ELSE feed
    /\ result' = [result EXCEPT !.error = @ \/ Overflow]
    /\ UNCHANGED <<flags, main, processes, reader, sent, ready, finished, shown, text,
                   events>>

FeedEnds ==
    /\ feed = "reading" /\ (capture = "dead" \/ Stopping) /\ feed' = "ended"
    /\ UNCHANGED <<flags, main, processes, reader, audio, said, text, events>>

-----------------------------------------------------------------------------
(* output() and Result.receive(). *)

Received(line) ==
    CASE line.kind = "error"  -> [result EXCEPT !.error = TRUE]
      [] line.kind = "closed" -> [result EXCEPT !.closed = TRUE]
      [] line.kind \in {"segment", "final"} /\ line.text = NoText -> [result EXCEPT !.error = TRUE]
      [] line.kind = "segment" /\ line.text # NoText -> [result EXCEPT !.segment = line.text]
      [] line.kind = "final" /\ line.text # NoText -> [result EXCEPT !.final = line.text]
      [] OTHER -> result

Shows(line) ==
    /\ line.kind \in {"partial", "segment", "final"} /\ line.text \notin {"unsafe", shown}
    /\ ~Received(line).error /\ ~cancel

\* A text with line breaks is received but not shown.
ReadLine(line, oneLine) ==
    /\ reader = "reading"
    /\ result' = Received(line) /\ ready' = (ready \/ line.kind = "started")
    /\ IF oneLine /\ Shows(line)
       THEN Len(events) < MaxEvents /\ shown' = line.text /\ Post("preview", line.text)
       ELSE UNCHANGED <<shown, events>>
    /\ UNCHANGED <<flags, main, processes, tasks, audio, text>>

\* A line that is no JSON ends the task; run() hears of it when it gathers it.
ReaderFails ==
    /\ reader = "reading" /\ reader' = "failed"
    /\ UNCHANGED <<flags, main, processes, feed, audio, said, text, events>>

ReaderEnds ==
    /\ reader = "reading" /\ provider \in Exited /\ reader' = "ended"
    /\ UNCHANGED <<flags, main, processes, feed, audio, said, text, events>>

-----------------------------------------------------------------------------
(* run(): its coroutine. *)

Goes(from, to) == main = from /\ main' = to

StartProvider ==
    /\ Goes("new", "mic") /\ provider' = "alive" /\ reader' = "reading"
    /\ UNCHANGED <<flags, capture, feed, audio, said, text, events>>

ProviderUnavailable ==
    /\ Goes("new", "closing")
    /\ UNCHANGED <<flags, processes, tasks, audio, said, text, events>>

OpenMic ==
    /\ Goes("mic", IF Stopping THEN "top" ELSE "opening")
    /\ UNCHANGED <<flags, processes, tasks, audio, said, text, events>>

MicOpened ==
    /\ Goes("opening", "top")
    /\ capture' = "alive" /\ feed' = "reading" /\ Post("recording", NoText)
    /\ UNCHANGED <<flags, provider, reader, audio, said, text>>

MicFails ==
    /\ Goes("opening", "reap")
    /\ UNCHANGED <<flags, processes, tasks, audio, said, text, events>>

OverFaulty == provider \in Exited \/ result.error    \* cancel is not looked at

Over == provider \in Exited \/ cancel \/ result.error

\* The head of the loop.
Top ==
    /\ Goes("top", IF Over THEN "ending"
                   ELSE IF stop /\ capture = "alive" THEN "stopping" ELSE "drain")
    /\ UNCHANGED <<flags, processes, tasks, audio, said, text, events>>

\* terminate(capture) and the wait for the feed.
StopCapture ==
    /\ main = "stopping" /\ capture = "alive" /\ capture' = "dead"
    /\ UNCHANGED <<flags, main, provider, tasks, audio, said, text, events>>

Stopped ==
    /\ Goes("stopping", "drain") /\ capture = "dead" /\ feed = "ended"
    /\ UNCHANGED <<flags, processes, tasks, audio, said, text, events>>

SendChunk ==
    /\ main = "drain" /\ ready /\ ~finished /\ queued # <<>> /\ ~cancel /\ provider = "alive"
    /\ sent' = Append(sent, Head(queued)) /\ queued' = Tail(queued)
    /\ UNCHANGED <<flags, main, processes, tasks, captured, said, finished, text, events>>

DrainedFaulty == Len(queued) <= 1     \* the last chunk is forgotten

Drained == queued = <<>>

SendFinish ==
    /\ Goes("drain", "last") /\ ready /\ ~finished /\ Drained /\ stop /\ ~cancel
    /\ provider = "alive" /\ finished' = TRUE /\ sent' = Append(sent, Finish)
    /\ UNCHANGED <<flags, processes, tasks, captured, queued, said, text, events>>

\* The pipe is closed, or stays full for two seconds: the chunk is lost.
SendFails ==
    /\ Goes("drain", "reap") /\ ready /\ ~finished /\ ~cancel
    /\ \/ queued # <<>> /\ queued' = Tail(queued)
       \/ Drained /\ stop /\ UNCHANGED queued
    /\ UNCHANGED <<flags, processes, tasks, captured, sent, said, finished, text, events>>

SendsNothing ==
    /\ Goes("drain", "last") /\ (ready /\ ~finished /\ ~cancel => Drained /\ ~stop)
    /\ UNCHANGED <<flags, processes, tasks, audio, said, text, events>>

\* A capture that ends by itself is an error.
Broken == ~stop /\ (capture = "dead" \/ feed = "ended")

Last ==
    /\ Goes("last", IF Broken THEN "ending" ELSE "top")
    /\ result' = [result EXCEPT !.error = @ \/ Broken]
    /\ UNCHANGED <<flags, processes, tasks, audio, ready, shown, text, events>>

EndProvider ==
    /\ main = "ending" /\ provider = "alive" /\ provider' = "failed"
    /\ UNCHANGED <<flags, main, capture, tasks, audio, said, text, events>>

AcceptedFaulty ==                     \* a recording that never was finished
    IF provider = "ok" /\ ~cancel /\ result.closed THEN result.final ELSE NoText

Accepted ==
    IF /\ provider = "ok" /\ finished /\ ~cancel /\ result.closed /\ ~result.error
       /\ result.segment # NoText /\ result.final = result.segment
    THEN result.final ELSE NoText

\* The readers are gathered: one that failed raises out of run().
Gather ==
    /\ Goes("ending", "reap") /\ provider \in Exited /\ reader # "reading"
    /\ text' = IF reader = "ended" THEN Accepted ELSE NoText
    /\ UNCHANGED <<flags, processes, tasks, audio, said, events>>

\* The finally clause: the capture, the provider, then the tasks.
ReapCapture ==
    /\ main = "reap" /\ capture = "alive" /\ capture' = "dead"
    /\ UNCHANGED <<flags, main, provider, tasks, audio, said, text, events>>

ReapProvider ==
    /\ main = "reap" /\ capture # "alive" /\ provider = "alive" /\ provider' = "failed"
    /\ UNCHANGED <<flags, main, capture, tasks, audio, said, text, events>>

AllEndedFaulty == provider # "alive"  \* the capture is not waited for
AllEnded == capture # "alive" /\ provider # "alive"

Reaped ==
    /\ Goes("reap", "back") /\ AllEnded
    /\ feed' = IF feed = "reading" THEN "ended" ELSE feed
    /\ reader' = IF reader = "reading" THEN "ended" ELSE reader
    /\ UNCHANGED <<flags, processes, audio, said, text, events>>

-----------------------------------------------------------------------------
(* The rest of run_with_organizer() and of the thread. *)

\* The organizer, where there is one, gets a text that was not cancelled.
Back ==
    /\ \/ Goes("back", "organizing") /\ text # NoText /\ ~cancel
       \/ Goes("back", "closing")
    /\ text' = IF cancel THEN NoText ELSE text
    /\ UNCHANGED <<flags, processes, tasks, audio, said, events>>

\* finish() polls cancel, refuses an unsafe text and answers with a safe one; the
\* original stays when it fails.
Organized ==
    /\ Goes("organizing", "closing")
    /\ text' = IF cancel THEN NoText ELSE text
    /\ UNCHANGED <<flags, processes, tasks, audio, said, events>>

\* The organizer is closed, then the outcome is posted.
PostDone ==
    /\ Goes("closing", "ended") /\ Post("done", text)
    /\ UNCHANGED <<flags, processes, tasks, audio, said, text>>

-----------------------------------------------------------------------------
Coordinator == SetStop \/ SetCancel \/ TakeEvent
Processes   == ProviderExits \/ CaptureExits
Feed        == FeedChunk \/ FeedEnds
Output      == ReaderFails \/ ReaderEnds \/ \E line \in Lines, oneLine \in BOOLEAN : ReadLine(line, oneLine)
Run ==
    \/ StartProvider \/ ProviderUnavailable \/ OpenMic \/ MicOpened \/ MicFails \/ Top
    \/ StopCapture \/ Stopped \/ SendChunk \/ SendFinish \/ SendFails \/ SendsNothing
    \/ Last \/ EndProvider \/ Gather \/ ReapCapture \/ ReapProvider \/ Reaped
    \/ Back \/ Organized \/ PostDone

Next == Coordinator \/ Processes \/ Feed \/ Output \/ Run
Spec == Init /\ [][Next]_vars

\* Every await of run() is bounded (a timeout, then SIGKILL), a dead process closes its
\* pipe.  What the provider, the capture and the coordinator do, and when, is not assumed.
FairSpec == Spec /\ WF_vars(Run) /\ WF_vars(FeedEnds) /\ WF_vars(ReaderEnds)

-----------------------------------------------------------------------------
(* The session as the coordinator knows it. *)

Outline ==
    [thread |-> CASE main = "closing" -> "decided" [] main = "ended" -> "ended"
                  [] OTHER -> "running",
     gen |-> 1, stop |-> stop, cancel |-> cancel,
     mic |-> CASE main \in {"new", "mic"} -> "new" [] main = "opening" -> "opening"
               [] main \notin {"new", "mic", "opening"} /\ capture = "alive" -> "on"
               [] OTHER -> "off",
     text |-> IF main \in {"closing", "ended"} THEN text ELSE NoText]

Contract == INSTANCE RecordingSession
            WITH rec <- Outline, PreviewTexts <- {NoText, "safe"}, FinalTexts <- Texts,
                 MaxEvents <- MaxEvents + 2

\* Refinement: the session does what RecordingSession promises the coordinator: no text
\* for a recording that was cancelled or not stopped, "done" once and last, and only
\* after the microphone is closed (the finally clauses of audio.py:225-233 and 89-90).
ImplementsSession == Contract!SessionSpec

\* The provider is told that the recording is finished after it was given every chunk
\* that was kept, in order and once, and it gets nothing afterwards; a text is taken over
\* only for such a recording.  feed() and the drain loop of audio.py:154-215 take turns at
\* their awaits while the stop flag is set from another thread.
WholeRecording ==
    finished \/ text # NoText =>
        sent = Append([i \in 1..captured |-> i], Finish)

\* Whichever of the exits of run() is taken, both processes and both tasks have ended
\* before the organizer is given the text or the outcome is posted (audio.py:225-233).
NothingLeftBehind ==
    main \in {"back", "organizing", "closing", "ended"} =>
        /\ capture # "alive" /\ provider # "alive"
        /\ feed # "reading" /\ reader # "reading"

\* The session has to end.
Doomed == cancel \/ result.error \/ provider \in Exited

\* A session that is cancelled, has met an error or has lost its provider ends, and one
\* that has lost its capture ends unless it is the user who stopped the recording (the
\* loop of audio.py:196-216).  Neither state is left but by the end or by that stop, so
\* it is enough that the session does not stay in it.
BrokenSessionsEnd == []<>(Doomed \/ Broken => main = "ended")
=============================================================================
