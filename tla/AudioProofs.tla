---------------------------- MODULE AudioProofs -----------------------------
(***************************************************************************)
(* What module AudioSession promises whatever the number of chunks, the    *)
(* limits and the texts of the provider: its types, that every exit of     *)
(* run() leaves no process and no task behind, and that only a recording   *)
(* the provider was given as a whole yields a text.                        *)
(***************************************************************************)
EXTENDS AudioSession, TLAPS

\* Before run() has started anything there is nothing to leave behind.
NothingYet ==
    main = "new" => capture # "alive" /\ provider # "alive" /\ feed # "reading" /\ reader # "reading"

\* The chunks kept so far are those sent followed by those queued, in order.
InFlight ==
    /\ Len(sent) + Len(queued) = captured
    /\ \A i \in 1 .. Len(sent) : sent[i] = i
    /\ \A i \in 1 .. Len(queued) : queued[i] = Len(sent) + i

Loop == {"new", "mic", "opening", "top", "stopping", "drain", "last"}

\* A failed send loses a chunk, but leaves the loop; Finish is sent once, after the last
\* chunk, and with stop set no further one is kept.
WholeInv ==
    /\ ~finished /\ main \in Loop => InFlight
    /\ finished => stop /\ sent = Append([i \in 1 .. captured |-> i], Finish)
    /\ text # NoText => finished

-----------------------------------------------------------------------------
(* Types *)

LEMMA ReceivedType ==
    ASSUME AudioTypeOK, NEW line \in Lines
    PROVE  /\ Received(line) \in [segment : Texts \cup {NoText}, final : Texts \cup {NoText},
                                  closed : BOOLEAN, error : BOOLEAN]
           /\ line.text \in Texts \cup {NoText}
           /\ result.error => Received(line).error
BY AudioAssumption DEF AudioTypeOK, Lines, Received

LEMMA TypeKept == AudioTypeOK /\ [Next]_vars => AudioTypeOK'
<1> SUFFICES ASSUME AudioTypeOK, [Next]_vars
             PROVE  AudioTypeOK'
    OBVIOUS
<1> USE DEF AudioTypeOK, None, Exited, flags, processes, tasks, audio, said
<1>1. CASE SetStop
    BY <1>1 DEF SetStop, Goes
<1>2. CASE SetCancel
    BY <1>2 DEF SetCancel, Goes
<1>3. CASE TakeEvent
    BY <1>3 DEF TakeEvent, Goes
<1>4. CASE ProviderExits
    BY <1>4 DEF ProviderExits, Goes
<1>5. CASE CaptureExits
    BY <1>5 DEF CaptureExits, Goes
<1>6. CASE FeedChunk
    <2>1. captured' \in 1 .. MaxChunks /\ queued \in Seq(1 .. MaxChunks)
        BY <1>6, AudioAssumption DEF FeedChunk
    <2>2. queued' \in Seq(1 .. MaxChunks) /\ Len(queued') = Len(queued) + 1
        BY <2>1, <1>6 DEF FeedChunk
    <2>3. result' = [result EXCEPT !.error = @ \/ Overflow]
        BY <1>6 DEF FeedChunk
    <2>4. /\ result' \in [segment : Texts \cup {NoText}, final : Texts \cup {NoText},
                         closed : BOOLEAN, error : BOOLEAN]
          /\ Overflow => result'.error
        BY <2>3 DEF Overflow
    <2>5. Len(queued') <= MaxQueue \/ result'.error
        BY <2>2, <2>4, AudioAssumption DEF Overflow
    <2>6. feed' \in {"reading", "ended"}
        BY <1>6 DEF FeedChunk
    <2> QED
        BY <2>1, <2>2, <2>4, <2>5, <2>6, <1>6 DEF FeedChunk
<1>7. CASE FeedEnds
    BY <1>7 DEF FeedEnds, Goes
<1>8. CASE ReaderFails
    BY <1>8 DEF ReaderFails, Goes
<1>9. CASE ReaderEnds
    BY <1>9 DEF ReaderEnds, Goes
<1>10. CASE StartProvider
    BY <1>10 DEF StartProvider, Goes
<1>11. CASE ProviderUnavailable
    BY <1>11 DEF ProviderUnavailable, Goes
<1>12. CASE OpenMic
    BY <1>12 DEF OpenMic, Goes
<1>13. CASE MicOpened
    BY <1>13 DEF MicOpened, Goes, Post
<1>14. CASE MicFails
    BY <1>14 DEF MicFails, Goes
<1>15. CASE Top
    BY <1>15 DEF Top, Goes
<1>16. CASE StopCapture
    BY <1>16 DEF StopCapture, Goes
<1>17. CASE Stopped
    BY <1>17 DEF Stopped, Goes
<1>18. CASE SendChunk
    <2>1. queued' = Tail(queued) /\ queued # <<>> /\ sent' = Append(sent, Head(queued))
        BY <1>18 DEF SendChunk
    <2>2. queued' \in Seq(1 .. MaxChunks) /\ Len(queued') <= Len(queued)
        BY <2>1
    <2>3. sent' \in Seq(0 .. MaxChunks)
        <3>1. Head(queued) \in 0 .. MaxChunks
            BY <2>1, AudioAssumption
        <3> QED
            BY <2>1, <3>1
    <2>4. Len(queued') <= MaxQueue \/ result.error
        BY <2>2, AudioAssumption
    <2> QED
        BY <2>2, <2>3, <2>4, <1>18 DEF SendChunk
<1>19. CASE SendFinish
    <2>1. sent' = Append(sent, 0) /\ finished' = TRUE /\ main' = "last"
        BY <1>19 DEF SendFinish, Goes, Finish
    <2>2. sent' \in Seq(0 .. MaxChunks)
        BY <2>1, AudioAssumption
    <2> QED
        BY <2>1, <2>2, <1>19 DEF SendFinish
<1>20. CASE SendFails
    <2>1. (queued' = Tail(queued) /\ queued # <<>>) \/ queued' = queued
        BY <1>20 DEF SendFails, Goes
    <2>2. queued' \in Seq(1 .. MaxChunks) /\ Len(queued') <= Len(queued)
        <3>1. CASE queued' = Tail(queued) /\ queued # <<>>
            BY <3>1
        <3>2. CASE queued' = queued
            BY <3>2
        <3> QED
            BY <2>1, <3>1, <3>2
    <2>3. Len(queued') <= MaxQueue \/ result.error
        BY <2>2, AudioAssumption
    <2> QED
        BY <2>2, <2>3, <1>20 DEF SendFails, Goes
<1>21. CASE SendsNothing
    BY <1>21 DEF SendsNothing, Goes
<1>22. CASE Last
    <2>1. Broken \in BOOLEAN
        BY DEF Broken
    <2>2. /\ result' \in [segment : Texts \cup {NoText}, final : Texts \cup {NoText},
                         closed : BOOLEAN, error : BOOLEAN]
          /\ result.error => result'.error
        BY <2>1, <1>22 DEF Last
    <2> QED
        BY <2>2, <1>22 DEF Last, Goes
<1>23. CASE EndProvider
    BY <1>23 DEF EndProvider, Goes
<1>24. CASE Gather
    BY <1>24 DEF Gather, Goes, Accepted
<1>25. CASE ReapCapture
    BY <1>25 DEF ReapCapture, Goes
<1>26. CASE ReapProvider
    BY <1>26 DEF ReapProvider, Goes
<1>27. CASE Reaped
    BY <1>27 DEF Reaped, Goes
<1>28. CASE Back
    BY <1>28 DEF Back, Goes
<1>29. CASE Organized
    BY <1>29 DEF Organized, Goes
<1>30. CASE PostDone
    BY <1>30 DEF PostDone, Goes, Post
<1>31. ASSUME NEW line \in Lines, NEW oneLine \in BOOLEAN, ReadLine(line, oneLine)
      PROVE  AudioTypeOK'
    <2>1. /\ result' = Received(line) /\ result.error => result'.error
          /\ result' \in [segment : Texts \cup {NoText}, final : Texts \cup {NoText},
                         closed : BOOLEAN, error : BOOLEAN]
          /\ line.text \in Texts \cup {NoText}
        BY <1>31, ReceivedType DEF ReadLine
    <2>2. ready' \in BOOLEAN
        BY <1>31 DEF ReadLine
    <2>3. events' \in Seq([kind : {"recording", "preview", "done"}, gen : {1},
                          text : Texts \cup {NoText}])
        <3>1. \/ events' = events
              \/ events' = Append(events, [kind |-> "preview", gen |-> 1, text |-> line.text])
            BY <1>31 DEF ReadLine, Post
        <3>2. [kind |-> "preview", gen |-> 1, text |-> line.text]
                 \in [kind : {"recording", "preview", "done"}, gen : {1}, text : Texts \cup {NoText}]
            BY <2>1
        <3>3. CASE events' = events
            BY <3>3
        <3>4. CASE events' = Append(events, [kind |-> "preview", gen |-> 1, text |-> line.text])
            BY <3>2, <3>4
        <3> QED
            BY <3>1, <3>3, <3>4
    <2>4. shown' \in Texts \cup {None}
        <3>1. shown' # shown => shown' = line.text
            BY <1>31 DEF ReadLine, Post
        <3>2. shown' # shown => line.kind \in {"partial", "segment", "final"}
            BY <1>31 DEF ReadLine, Post, Shows
        <3>3. line.kind \in {"partial", "segment", "final"} => line.text \in Texts
            BY DEF Lines
        <3> QED
            BY <3>1, <3>2, <3>3
    <2> QED
        BY <2>1, <2>2, <2>3, <2>4, <1>31 DEF ReadLine
<1>32. CASE UNCHANGED vars
    BY <1>32 DEF vars
<1> QED
    BY <1>1, <1>2, <1>3, <1>4, <1>5, <1>6, <1>7, <1>8, <1>9, <1>10, <1>11, <1>12, <1>13,
       <1>14, <1>15, <1>16, <1>17, <1>18, <1>19, <1>20, <1>21, <1>22, <1>23, <1>24, <1>25,
       <1>26, <1>27, <1>28, <1>29, <1>30, <1>31, <1>32
    DEF Next, Coordinator, Processes, Feed, Output, Run

\* The types of every variable and the limit on the audio that waits for the connection:
\* past it the recording has failed (audio.py:165-170).
THEOREM AudioTyped == Spec => []AudioTypeOK
<1>1. Init => AudioTypeOK
    <2> SUFFICES ASSUME Init PROVE AudioTypeOK
        OBVIOUS
    <2>1. queued = <<>> /\ sent = <<>> /\ events = <<>>
        BY DEF Init
    <2>2. queued \in Seq(1 .. MaxChunks) /\ sent \in Seq(0 .. MaxChunks) /\ Len(queued) = 0
          /\ events \in Seq([kind : {"recording", "preview", "done"}, gen : {1},
                            text : Texts \cup {NoText}])
        BY <2>1
    <2>3. result \in [segment : Texts \cup {NoText}, final : Texts \cup {NoText},
                     closed : BOOLEAN, error : BOOLEAN]
        BY DEF Init
    <2>4. captured \in 0 .. MaxChunks /\ Len(queued) <= MaxQueue
        BY <2>2, AudioAssumption DEF Init
    <2> QED
        BY <2>2, <2>3, <2>4 DEF Init, AudioTypeOK, None, Exited
<1> QED
    BY <1>1, TypeKept, PTL DEF Spec

-----------------------------------------------------------------------------
(* What run() leaves behind *)

LEMMA LeftKept ==
    ASSUME NothingYet, NothingLeftBehind, [Next]_vars
    PROVE  NothingYet' /\ NothingLeftBehind'
<1> USE DEF NothingYet, NothingLeftBehind, Exited, flags, processes, tasks, audio, said
<1>1. CASE Coordinator
    BY <1>1 DEF Coordinator, SetStop, SetCancel, TakeEvent
<1>2. CASE Processes
    BY <1>2 DEF Processes, ProviderExits, CaptureExits
<1>3. CASE Feed
    BY <1>3 DEF Feed, FeedChunk, FeedEnds
<1>4. CASE Output
    BY <1>4 DEF Output, ReaderFails, ReaderEnds, ReadLine
<1>5. CASE StartProvider \/ ProviderUnavailable \/ OpenMic \/ MicOpened \/ MicFails \/ Top
    BY <1>5 DEF StartProvider, ProviderUnavailable, OpenMic, MicOpened, MicFails, Top, Goes
<1>6. CASE StopCapture \/ Stopped \/ SendChunk \/ SendFinish \/ SendFails \/ SendsNothing
    BY <1>6 DEF StopCapture, Stopped, SendChunk, SendFinish, SendFails, SendsNothing, Goes
<1>7. CASE Last \/ EndProvider \/ Gather
    BY <1>7 DEF Last, EndProvider, Gather, Goes
<1>8. CASE ReapCapture \/ ReapProvider \/ Reaped
    BY <1>8 DEF ReapCapture, ReapProvider, Reaped, AllEnded, Goes
<1>9. CASE Back \/ Organized \/ PostDone
    BY <1>9 DEF Back, Organized, PostDone, Goes
<1>10. CASE UNCHANGED vars
    BY <1>10 DEF vars
<1> QED
    BY <1>1, <1>2, <1>3, <1>4, <1>5, <1>6, <1>7, <1>8, <1>9, <1>10 DEF Next, Run

\* On every way out of run() both processes and both tasks have ended before the text goes
\* anywhere: the finally clause of audio.py:225-233 is on each of them, and without a
\* provider there is nothing to end.
THEOREM LeavesNothing == Spec => []NothingLeftBehind
<1>1. Init => NothingYet /\ NothingLeftBehind
    BY DEF Init, NothingYet, NothingLeftBehind
<1> QED
    BY <1>1, LeftKept, PTL DEF Spec

-----------------------------------------------------------------------------
(* The recording is sent as a whole *)

\* A step that sends and keeps nothing.
LEMMA Carried ==
    ASSUME WholeInv, UNCHANGED audio, stop => stop', main' \in Loop => main \in Loop,
           text' # NoText => text # NoText
    PROVE  WholeInv'
<1>1. /\ captured' = captured /\ queued' = queued /\ sent' = sent /\ finished' = finished
    BY DEF audio
<1>2. InFlight => InFlight'
    BY <1>1 DEF InFlight
<1> QED
    BY <1>1, <1>2 DEF WholeInv

LEMMA WholeKept ==
    ASSUME AudioTypeOK, WholeInv, [Next]_vars
    PROVE  WholeInv'
<1> USE DEF flags, processes, tasks, audio, said, Loop
<1>1. /\ captured \in Nat /\ queued \in Seq(1 .. MaxChunks) /\ sent \in Seq(0 .. MaxChunks)
      /\ finished \in BOOLEAN /\ stop \in BOOLEAN
    BY AudioAssumption DEF AudioTypeOK
<1>2. CASE FeedChunk
    <2>1. ~finished
        BY <1>2 DEF FeedChunk, Keeps, Stopping, WholeInv
    <2>2. ASSUME main \in Loop
          PROVE  InFlight'
        <3>1. InFlight
            BY <2>1, <2>2 DEF WholeInv
        <3>2. /\ queued' = Append(queued, captured + 1) /\ captured' = captured + 1
              /\ sent' = sent
            BY <1>2 DEF FeedChunk
        <3>3. captured + 1 \in 1 .. MaxChunks
            BY <1>1, <1>2, AudioAssumption DEF FeedChunk
        <3>4. /\ Len(queued') = Len(queued) + 1
              /\ \A i \in 1 .. Len(queued) : queued'[i] = queued[i]
              /\ queued'[Len(queued) + 1] = captured + 1
            BY <1>1, <3>2, <3>3
        <3>5. /\ Len(sent) + Len(queued) = captured
              /\ \A i \in 1 .. Len(sent) : sent[i] = i
              /\ \A i \in 1 .. Len(queued) : queued[i] = Len(sent) + i
            BY <3>1 DEF InFlight
        <3>6. \A i \in 1 .. Len(queued') : queued'[i] = Len(sent) + i
            <4>1. SUFFICES ASSUME NEW i \in 1 .. Len(queued') PROVE queued'[i] = Len(sent) + i
                OBVIOUS
            <4>2. CASE i = Len(queued) + 1
                BY <4>2, <3>4, <3>5
            <4>3. CASE i # Len(queued) + 1
                <5>1. i \in 1 .. Len(queued)
                    BY <4>1, <4>3, <3>4, <1>1
                <5> QED
                    BY <5>1, <3>4, <3>5
            <4> QED
                BY <4>2, <4>3
        <3> QED
            BY <1>1, <3>2, <3>4, <3>5, <3>6 DEF InFlight
    <2> QED
        BY <2>1, <2>2, <1>2 DEF FeedChunk, WholeInv
<1>3. CASE SendChunk
    <2>1. InFlight /\ ~finished
        BY <1>3 DEF SendChunk, WholeInv
    <2>2. /\ queued # <<>> /\ queued' = Tail(queued) /\ sent' = Append(sent, Head(queued))
          /\ captured' = captured
        BY <1>3 DEF SendChunk
    <2>3. /\ Len(queued') = Len(queued) - 1
          /\ \A i \in 1 .. Len(queued') : queued'[i] = queued[i + 1]
        BY <1>1, <2>2
    <2>4. Head(queued) = queued[1] /\ Len(queued) >= 1 /\ Head(queued) \in 0 .. MaxChunks
        BY <1>1, <2>2, AudioAssumption
    <2>5. /\ Len(sent') = Len(sent) + 1 /\ sent'[Len(sent) + 1] = queued[1]
          /\ \A i \in 1 .. Len(sent) : sent'[i] = sent[i]
        BY <1>1, <2>2, <2>4
    <2>6. InFlight'
        <3>1. /\ Len(sent) + Len(queued) = captured
              /\ \A i \in 1 .. Len(sent) : sent[i] = i
              /\ \A i \in 1 .. Len(queued) : queued[i] = Len(sent) + i
            BY <2>1 DEF InFlight
        <3>2. Len(sent') + Len(queued') = captured'
            BY <1>1, <3>1, <2>2, <2>3, <2>5
        <3>3. \A i \in 1 .. Len(sent') : sent'[i] = i
            <4>1. SUFFICES ASSUME NEW i \in 1 .. Len(sent') PROVE sent'[i] = i
                OBVIOUS
            <4>2. CASE i = Len(sent) + 1
                BY <4>2, <2>4, <2>5, <3>1
            <4>3. CASE i # Len(sent) + 1
                <5>1. i \in 1 .. Len(sent)
                    BY <4>1, <4>3, <2>5, <1>1
                <5> QED
                    BY <5>1, <2>5, <3>1
            <4> QED
                BY <4>2, <4>3
        <3>4. \A i \in 1 .. Len(queued') : queued'[i] = Len(sent') + i
            <4>1. SUFFICES ASSUME NEW i \in 1 .. Len(queued') PROVE queued'[i] = Len(sent') + i
                OBVIOUS
            <4>2. i + 1 \in 1 .. Len(queued) /\ queued'[i] = queued[i + 1]
                BY <4>1, <1>1, <2>3
            <4> QED
                BY <4>1, <4>2, <1>1, <2>5, <3>1
        <3> QED
            BY <3>2, <3>3, <3>4 DEF InFlight
    <2> QED
        BY <2>1, <2>6, <1>3 DEF SendChunk, WholeInv
<1>4. CASE SendFinish
    <2>1. InFlight /\ queued = <<>> /\ stop
        BY <1>4 DEF SendFinish, Goes, Drained, WholeInv
    <2>2. Len(sent) = captured /\ \A i \in 1 .. captured : sent[i] = i
        BY <1>1, <2>1 DEF InFlight
    <2>3. sent = [i \in 1 .. captured |-> i]
        BY <1>1, <2>2
    <2> QED
        BY <2>1, <2>3, <1>4 DEF SendFinish, Goes, WholeInv
<1>5. CASE SendFails
    BY <1>5 DEF SendFails, Goes, WholeInv
<1>6. CASE Gather
    BY <1>6 DEF Gather, Goes, Accepted, WholeInv
<1>7. CASE Coordinator \/ Processes \/ FeedEnds \/ Output
    BY <1>7, Carried DEF Coordinator, SetStop, SetCancel, TakeEvent, Processes, ProviderExits,
       CaptureExits, FeedEnds, Output, ReaderFails, ReaderEnds, ReadLine
<1>8. CASE StartProvider \/ ProviderUnavailable \/ OpenMic \/ MicOpened \/ MicFails \/ Top
    BY <1>8, Carried DEF StartProvider, ProviderUnavailable, OpenMic, MicOpened, MicFails, Top, Goes
<1>9. CASE StopCapture \/ Stopped \/ SendsNothing \/ Last \/ EndProvider
    BY <1>9, Carried DEF StopCapture, Stopped, SendsNothing, Last, EndProvider, Goes
<1>10. CASE ReapCapture \/ ReapProvider \/ Reaped \/ Back \/ Organized \/ PostDone
    BY <1>10, Carried DEF ReapCapture, ReapProvider, Reaped, Back, Organized, PostDone, Goes
<1>11. CASE UNCHANGED vars
    BY <1>11, Carried DEF vars
<1> QED
    BY <1>2, <1>3, <1>4, <1>5, <1>6, <1>7, <1>8, <1>9, <1>10, <1>11 DEF Next, Feed, Run

\* The provider is told that the recording is finished only after every chunk that was
\* kept, in order and once; no failed send, flag or dying process lets a shorter recording
\* become a text (audio.py:154-215).
THEOREM WholeSent == Spec => []WholeRecording
<1>1. Init => WholeInv
    BY DEF Init, WholeInv, InFlight, Loop
<1>2. WholeInv => WholeRecording
    BY DEF WholeInv, WholeRecording
<1> QED
    BY <1>1, <1>2, AudioTyped, WholeKept, PTL DEF Spec

-----------------------------------------------------------------------------
(* The contract with the coordinator: every step of the session is a step of  *)
(* RecordingSession or invisible to it.                                       *)

Early  == {"new", "mic", "opening"}
Inside == {"top", "stopping", "drain", "last", "ending", "reap", "back", "organizing"}

\* There is no capture before it is opened and no text before the results are gathered;
\* "recording" and "done" are posted once each, whatever waits.
OutlineInv ==
    /\ main \in Early => capture = "none" /\ Len(events) <= MaxEvents
    /\ text # NoText => main \in {"reap", "back", "organizing", "closing", "ended"}
    /\ main # "ended" => Len(events) <= MaxEvents + 1

LEMMA OutlineKept ==
    ASSUME AudioTypeOK, OutlineInv, [Next]_vars
    PROVE  OutlineInv'
<1> USE DEF flags, processes, tasks, audio, said, Early
<1>1. events \in Seq([kind : {"recording", "preview", "done"}, gen : {1}, text : Texts \cup {NoText}])
    BY DEF AudioTypeOK
<1>2. MaxEvents \in Nat /\ Len(events) \in Nat
    BY <1>1, AudioAssumption
<1>3. \A kind, words : Post(kind, words) => Len(events') = Len(events) + 1
    BY <1>1 DEF Post
<1>4. CASE TakeEvent
    <2>1. Len(events') = Len(events) - 1
        BY <1>1, <1>4 DEF TakeEvent
    <2> QED
        BY <1>2, <1>4, <2>1 DEF TakeEvent, OutlineInv
<1>5. ASSUME NEW line \in Lines, NEW oneLine \in BOOLEAN, ReadLine(line, oneLine)
      PROVE  OutlineInv'
    <2>1. \/ events' = events
          \/ Len(events) < MaxEvents /\ Len(events') = Len(events) + 1
        BY <1>3, <1>5 DEF ReadLine
    <2>2. main' = main /\ capture' = capture /\ text' = text
        BY <1>5 DEF ReadLine
    <2> QED
        BY <1>2, <2>1, <2>2 DEF OutlineInv
<1>6. CASE MicOpened
    <2>1. /\ main = "opening" /\ main' = "top" /\ text' = text
          /\ Len(events') = Len(events) + 1
        BY <1>3, <1>6 DEF MicOpened, Goes
    <2> QED
        BY <1>2, <2>1 DEF OutlineInv
<1>7. CASE PostDone
    BY <1>7 DEF PostDone, Goes, OutlineInv
<1>8. CASE SetStop \/ SetCancel \/ Processes \/ FeedChunk \/ FeedEnds \/ ReaderFails \/ ReaderEnds
    BY <1>8 DEF SetStop, SetCancel, Processes, ProviderExits, CaptureExits, FeedChunk, FeedEnds,
                ReaderFails, ReaderEnds, OutlineInv
<1>9. CASE StartProvider \/ ProviderUnavailable \/ OpenMic \/ MicFails \/ Top
    BY <1>2, <1>9 DEF StartProvider, ProviderUnavailable, OpenMic, MicFails, Top, Goes, OutlineInv
<1>10. CASE StopCapture \/ Stopped \/ SendChunk \/ SendFinish \/ SendFails \/ SendsNothing
    BY <1>10 DEF StopCapture, Stopped, SendChunk, SendFinish, SendFails, SendsNothing, Goes, OutlineInv
<1>11. CASE Last \/ EndProvider \/ Gather
    BY <1>11 DEF Last, EndProvider, Gather, Goes, OutlineInv
<1>12. CASE ReapCapture \/ ReapProvider \/ Reaped
    BY <1>12 DEF ReapCapture, ReapProvider, Reaped, Goes, OutlineInv
<1>13. CASE Back \/ Organized
    BY <1>13 DEF Back, Organized, Goes, OutlineInv
<1>14. CASE UNCHANGED vars
    BY <1>14 DEF vars, OutlineInv
<1> QED
    BY <1>4, <1>5, <1>6, <1>7, <1>8, <1>9, <1>10, <1>11, <1>12, <1>13, <1>14
    DEF Next, Coordinator, Feed, Output, Run

LEMMA OutlineInside ==
    ASSUME main \in Inside
    PROVE  Outline = [thread |-> "running", gen |-> 1, stop |-> stop, cancel |-> cancel,
                      mic |-> IF capture = "alive" THEN "on" ELSE "off", text |-> NoText]
  BY DEF Outline, Inside

RefInv == AudioTypeOK /\ NothingYet /\ NothingLeftBehind /\ WholeInv /\ OutlineInv

ContractStep ==
    \/ Contract!SessionStep \/ Contract!SetStop \/ Contract!SetCancel \/ Contract!TakeEvent
    \/ UNCHANGED <<Outline, events>>

\* A session and what a step makes of it.
Row(thread, gen, halted, dropped, mic, words) ==
    [thread |-> thread, gen |-> gen, stop |-> halted, cancel |-> dropped, mic |-> mic, text |-> words]

LEMMA RowStopped ==
    ASSUME NEW row, NEW thread, NEW gen, NEW halted, NEW dropped, NEW mic, NEW words, NEW new,
           row = Row(thread, gen, halted, dropped, mic, words)
    PROVE  [row EXCEPT !.stop = new] = Row(thread, gen, new, dropped, mic, words)
<1>1. \A next : next = [row EXCEPT !.stop = new] => next = Row(thread, gen, new, dropped, mic, words)
    BY DEF Row
<1> QED
    BY <1>1

LEMMA RowCancelled ==
    ASSUME NEW row, NEW thread, NEW gen, NEW halted, NEW dropped, NEW mic, NEW words, NEW new,
           row = Row(thread, gen, halted, dropped, mic, words)
    PROVE  [row EXCEPT !.cancel = new] = Row(thread, gen, halted, new, mic, words)
<1>1. \A next : next = [row EXCEPT !.cancel = new] => next = Row(thread, gen, halted, new, mic, words)
    BY DEF Row
<1> QED
    BY <1>1

\* The coordinator's own steps.
LEMMA CoordinatorRefines == ASSUME Coordinator PROVE ContractStep
<1>1. CASE SetStop
    <2>1. ~Outline.stop /\ events' = events /\ stop' = TRUE
        BY <1>1 DEF SetStop, Outline
    <2>2. Outline = Row(Outline.thread, 1, stop, cancel, Outline.mic, Outline.text)
        BY DEF Outline, Row
    <2>3. Outline' = Row(Outline.thread, 1, stop', cancel', Outline.mic, Outline.text)
        BY <1>1 DEF SetStop, Outline, Row, processes
    <2>4. Outline' = [Outline EXCEPT !.stop = stop']
        <3>1. cancel' = cancel
            BY <1>1 DEF SetStop
        <3>2. [Outline EXCEPT !.stop = stop'] = Row(Outline.thread, 1, stop', cancel, Outline.mic, Outline.text)
            BY <2>2, RowStopped
        <3> QED
            BY <2>3, <3>1, <3>2
    <2> QED
        BY <2>1, <2>4, Zenon DEF Contract!SetStop, ContractStep
<1>2. CASE SetCancel
    <2>1. ~Outline.cancel /\ events' = events /\ cancel' = TRUE
        BY <1>2 DEF SetCancel, Outline
    <2>2. Outline = Row(Outline.thread, 1, stop, cancel, Outline.mic, Outline.text)
        BY DEF Outline, Row
    <2>3. Outline' = Row(Outline.thread, 1, stop', cancel', Outline.mic, Outline.text)
        BY <1>2 DEF SetCancel, Outline, Row, processes
    <2>4. Outline' = [Outline EXCEPT !.cancel = cancel']
        <3>1. stop' = stop
            BY <1>2 DEF SetCancel
        <3>2. [Outline EXCEPT !.cancel = cancel'] = Row(Outline.thread, 1, stop, cancel', Outline.mic, Outline.text)
            BY <2>2, RowCancelled
        <3> QED
            BY <2>3, <3>1, <3>2
    <2> QED
        BY <2>1, <2>4, Zenon DEF Contract!SetCancel, ContractStep
<1>3. CASE TakeEvent
    <2>1. Outline' = Outline
        BY <1>3 DEF TakeEvent, Outline, flags, processes
    <2> QED
        BY <2>1, <1>3 DEF TakeEvent, Contract!TakeEvent, ContractStep
<1> QED
    BY <1>1, <1>2, <1>3 DEF Coordinator

\* The capture process ends, whoever ends it.
LEMMA CaptureEndRefines ==
    ASSUME RefInv, capture = "alive", capture' = "dead", main' = main, UNCHANGED <<flags, events>>
    PROVE  ContractStep
<1>1. main \in Inside
    BY DEF RefInv, AudioTypeOK, OutlineInv, NothingLeftBehind, Early, Inside
<1>2. Outline.mic = "on" /\ Outline' = [Outline EXCEPT !.mic = "off"]
    BY <1>1, OutlineInside DEF Inside, Outline, flags
<1> QED
    BY <1>2 DEF Contract!CloseMic, Contract!Recording, Contract!SessionStep, ContractStep

\* A step the coordinator cannot see.
LEMMA InsideRefines ==
    ASSUME main \in Inside, main' \in Inside, (capture' = "alive") <=> (capture = "alive"),
           UNCHANGED <<flags, events>>
    PROVE  ContractStep
<1>1. Outline' = Outline
    BY DEF Outline, Inside, flags
<1> QED
    BY <1>1 DEF ContractStep

\* A line of the provider is shown, or not.
LEMMA LineRefines ==
    ASSUME RefInv, NEW line \in Lines, NEW oneLine \in BOOLEAN, ReadLine(line, oneLine)
    PROVE  ContractStep
<1>1. Outline' = Outline
    BY DEF ReadLine, Outline, flags, processes
<1>2. CASE events' = events
    BY <1>1, <1>2 DEF ContractStep
<1>3. CASE events' # events
    <2>1. /\ Len(events) < MaxEvents /\ line.text # "unsafe"
          /\ line.kind \in {"partial", "segment", "final"}
          /\ events' = Append(events, [kind |-> "preview", gen |-> 1, text |-> line.text])
        BY <1>3 DEF ReadLine, Post, Shows
    <2>2. line.text \in {NoText, "safe"}
        BY <2>1, AudioAssumption DEF Lines
    <2>3. Outline.thread = "running" /\ Outline.gen = 1
        <3>1. main \notin {"closing", "ended"}
            BY DEF RefInv, NothingLeftBehind, ReadLine
        <3> QED
            BY <3>1 DEF Outline
    <2>4. Len(events) < MaxEvents + 2
        BY <2>1, AudioAssumption DEF RefInv, AudioTypeOK
    <2>5. Contract!Post("preview", line.text)
        BY <2>1, <2>3, <2>4 DEF Contract!Post
    <2> QED
        BY <1>1, <2>2, <2>3, <2>5 DEF Contract!PostPreview, Contract!SessionStep, ContractStep
<1> QED
    BY <1>2, <1>3

\* The outcome is fixed: only a recording that was stopped and not cancelled has a text.
LEMMA DecideRefines ==
    ASSUME RefInv, RefInv', main \in {"new", "back", "organizing"}, main' = "closing",
           text' = NoText \/ (text' = text /\ ~cancel), capture' = capture,
           UNCHANGED <<flags, events>>
    PROVE  ContractStep
<1>1. capture # "alive" /\ capture' # "alive"
    BY DEF RefInv, NothingYet, NothingLeftBehind
<1>2. text' # NoText => stop /\ ~cancel /\ main # "new"
    BY DEF RefInv, WholeInv, OutlineInv
<1>3. text' \in Texts \cup {NoText}
    BY DEF RefInv, AudioTypeOK
<1>4. /\ Outline.thread = "running" /\ Outline.mic # "on"
      /\ Outline.stop = stop /\ Outline.cancel = cancel
      /\ main # "new" => Outline.mic = "off"
    BY <1>1 DEF Outline
<1>5. Outline' = [Outline EXCEPT !.thread = "decided", !.text = text', !.mic = "off"]
    <2>1. Outline' = Row("decided", 1, stop, cancel, "off", text')
        BY <1>1 DEF Outline, Row, flags
    <2>2. Outline = Row("running", 1, stop, cancel, Outline.mic, NoText)
        BY <1>1 DEF Outline, Row
    <2>3. PICK row, mic : row = Outline /\ mic = Outline.mic
        OBVIOUS
    <2>4. ASSUME NEW n1, NEW n2, NEW n3
          PROVE  [row EXCEPT !.thread = n1, !.text = n2, !.mic = n3]
                 = Row(n1, 1, stop, cancel, n3, n2)
        <3>1. row = Row("running", 1, stop, cancel, mic, NoText)
            BY <2>2, <2>3
        <3>2. PICK next : next = [row EXCEPT !.thread = n1, !.text = n2, !.mic = n3]
            OBVIOUS
        <3>3. next = Row(n1, 1, stop, cancel, n3, n2)
            BY <3>1, <3>2 DEF Row
        <3> QED
            BY <3>2, <3>3
    <2>5. [Outline EXCEPT !.thread = "decided", !.text = text', !.mic = "off"]
          = Row("decided", 1, stop, cancel, "off", text')
        BY <2>3, <2>4, Zenon
    <2> QED
        BY <2>1, <2>5
<1>6. text' # NoText => Contract!MayHaveText
    BY <1>2, <1>4 DEF Contract!MayHaveText
<1>7. Contract!Decide(text')
    BY <1>4, <1>5, <1>6, Zenon DEF Contract!Decide, NoText, Contract!NoText
<1> QED
    BY <1>3, <1>7, Zenon DEF Contract!SessionStep, ContractStep, NoText, Contract!NoText

\* The steps of the coroutine.
LEMMA RunRefines == ASSUME RefInv, RefInv', Run PROVE ContractStep
<1> USE DEF processes, Goes
<1>1. CASE StartProvider
    <2>1. Outline' = Outline /\ events' = events
        BY <1>1 DEF StartProvider, Outline, flags
    <2> QED
        BY <2>1 DEF ContractStep
<1>2. CASE ProviderUnavailable
    BY <1>2, DecideRefines DEF ProviderUnavailable, RefInv, OutlineInv
<1>3. CASE OpenMic
    <2>1. capture # "alive"
        BY <1>3 DEF OpenMic, RefInv, OutlineInv, Early
    <2>2. /\ Outline.thread = "running" /\ Outline.mic = "new"
          /\ Contract!Stopping <=> Stopping
        BY <1>3 DEF OpenMic, Outline, Contract!Stopping, Stopping
    <2>3. Outline' = [Outline EXCEPT !.mic = IF Stopping THEN "off" ELSE "opening"]
        BY <1>3, <2>1 DEF OpenMic, Outline, flags, Stopping
    <2> QED
        BY <1>3, <2>2, <2>3 DEF OpenMic, Contract!OpenMic, Contract!SessionStep, ContractStep
<1>4. CASE MicOpened
    <2>1. Outline.thread = "running" /\ Outline.mic = "opening" /\ Outline.gen = 1
        BY <1>4 DEF MicOpened, Outline
    <2>2. Outline' = [Outline EXCEPT !.mic = "on"]
        BY <1>4 DEF MicOpened, Outline, flags
    <2>3. Len(events) < MaxEvents + 2
        BY <1>4, AudioAssumption DEF MicOpened, RefInv, OutlineInv, AudioTypeOK, Early
    <2>4. events' = Append(events, [kind |-> "recording", gen |-> 1, text |-> NoText])
        BY <1>4 DEF MicOpened, Post
    <2>5. Contract!Post("recording", NoText)
        BY <2>1, <2>3, <2>4 DEF Contract!Post
    <2>6. Contract!MicOpened
        BY <2>1, <2>2, <2>5, Zenon DEF Contract!MicOpened, NoText, Contract!NoText
    <2> QED
        BY <2>6 DEF Contract!SessionStep, ContractStep
<1>5. CASE MicFails
    <2>1. capture # "alive"
        BY <1>5 DEF MicFails, RefInv, OutlineInv, Early
    <2>2. Outline.mic = "opening" /\ Outline' = [Outline EXCEPT !.mic = "off"] /\ events' = events
        BY <1>5, <2>1 DEF MicFails, Outline, flags
    <2> QED
        BY <2>2 DEF Contract!CloseMic, Contract!Recording, Contract!SessionStep, ContractStep
<1>6. CASE StopCapture \/ ReapCapture
    BY <1>6, CaptureEndRefines DEF StopCapture, ReapCapture
<1>7. CASE Top \/ Stopped \/ SendChunk \/ SendFinish \/ SendFails \/ SendsNothing
    BY <1>7, InsideRefines
    DEF Top, Stopped, SendChunk, SendFinish, SendFails, SendsNothing, Inside
<1>8. CASE Last \/ EndProvider \/ Gather \/ ReapProvider \/ Reaped
    BY <1>8, InsideRefines DEF Last, EndProvider, Gather, ReapProvider, Reaped, Inside
<1>9. CASE Back /\ main' = "organizing"
    BY <1>9, InsideRefines DEF Back, Inside
<1>10. CASE (Back \/ Organized) /\ main' = "closing"
    BY <1>10, DecideRefines DEF Back, Organized
<1>11. CASE PostDone
    <2>1. capture # "alive"
        BY <1>11 DEF PostDone, RefInv, NothingLeftBehind
    <2>2. /\ Outline.thread = "decided" /\ Outline.mic = "off" /\ Outline.gen = 1
          /\ Outline.text = text
        BY <1>11, <2>1 DEF PostDone, Outline
    <2>3. Outline' = [Outline EXCEPT !.thread = "ended"]
        BY <1>11, <2>1 DEF PostDone, Outline, flags
    <2>4. Len(events) < MaxEvents + 2
        BY <1>11, AudioAssumption DEF PostDone, RefInv, OutlineInv, AudioTypeOK
    <2>5. Contract!Post("done", Outline.text)
        BY <1>11, <2>2, <2>4 DEF PostDone, Post, Contract!Post
    <2> QED
        BY <2>2, <2>3, <2>5
        DEF Contract!PostDone, Contract!Reaped, Contract!SessionStep, ContractStep
<1> QED
    BY <1>1, <1>2, <1>3, <1>4, <1>5, <1>6, <1>7, <1>8, <1>9, <1>10, <1>11
    DEF Run, Back, Organized

LEMMA StepRefines == ASSUME RefInv, RefInv', [Next]_vars PROVE ContractStep
<1>1. CASE UNCHANGED <<flags, main, capture, text, events>>
    <2>1. Outline' = Outline /\ events' = events
        BY <1>1 DEF Outline, flags
    <2> QED
        BY <2>1 DEF ContractStep
<1>2. CASE ProviderExits \/ Feed \/ ReaderFails \/ ReaderEnds \/ UNCHANGED vars
    BY <1>1, <1>2
    DEF ProviderExits, Feed, FeedChunk, FeedEnds, ReaderFails, ReaderEnds, vars, flags, processes
<1>3. CASE CaptureExits
    BY <1>3, CaptureEndRefines DEF CaptureExits
<1>4. ASSUME NEW line \in Lines, NEW oneLine \in BOOLEAN, ReadLine(line, oneLine)
      PROVE  ContractStep
    BY <1>4, LineRefines
<1> QED
    BY <1>2, <1>3, <1>4, CoordinatorRefines, RunRefines DEF Next, Processes, Output

LEMMA InitRefines == Init => Outline = Contract!NewSession(1) /\ events = <<>>
<1>1. Init => Outline = Row("running", 1, FALSE, FALSE, "new", NoText)
    BY DEF Init, Outline, Row
<1>2. Contract!NewSession(1) = Row("running", 1, FALSE, FALSE, "new", NoText)
    <2>1. Contract!NoSession = Row("none", 0, FALSE, FALSE, "off", NoText)
        BY Zenon DEF Contract!NoSession, NoText, Contract!NoText, Row
    <2>2. [Contract!NoSession EXCEPT !.thread = "running", !.gen = 1, !.mic = "new"]
          = Row("running", 1, FALSE, FALSE, "new", NoText)
        <3>1. ASSUME NEW n1, NEW n2, NEW n3, NEW no, NEW next, no = Contract!NoSession,
                     next = [no EXCEPT !.thread = n1, !.gen = n2, !.mic = n3]
              PROVE  next = Row(n1, n2, FALSE, FALSE, n3, NoText)
            BY <2>1, <3>1 DEF Row
        <3> QED
            BY <3>1, Zenon
    <2> QED
        BY <2>2 DEF Contract!NewSession
<1> QED
    BY <1>1, <1>2 DEF Init

\* The session keeps what RecordingSession promises the coordinator, for any number of
\* chunks, any limits and any texts: what is checked of voice input with RecordingSession
\* in the session's place is true of audio.py as modelled here.
THEOREM SessionImplemented == Spec => ImplementsSession
<1>1. Spec => []RefInv
    <2>1. Init => NothingYet /\ NothingLeftBehind /\ WholeInv /\ OutlineInv
        BY AudioAssumption
        DEF Init, NothingYet, NothingLeftBehind, WholeInv, InFlight, OutlineInv, Loop, Early
    <2> QED
        BY <2>1, AudioTyped, LeftKept, WholeKept, OutlineKept, PTL DEF Spec, RefInv
<1>2. RefInv /\ RefInv' /\ [Next]_vars
      => [Contract!SessionStep \/ Contract!SetStop \/ Contract!SetCancel \/ Contract!TakeEvent]_(
             Contract!recVars)
    BY StepRefines DEF ContractStep, Contract!recVars
<1> QED
    BY <1>1, <1>2, InitRefines, PTL DEF Spec, ImplementsSession, Contract!SessionSpec
=============================================================================
