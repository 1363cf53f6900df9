----------------------------- MODULE Transcript -----------------------------
(***************************************************************************)
(* run_with_organizer() of bridge/audio.py: which text a dictation ends    *)
(* with when the recognized text goes through the organizer, while the     *)
(* coordinator may cancel from its own thread at any moment.               *)
(*                                                                         *)
(*   place      where the session is                                       *)
(*   cancel     the threading.Event                                        *)
(*   organizer  whether there is one (None when it could not be started)   *)
(*   original, text  what run() has recognized; what the outcome will say  *)
(*   error      organize_error is set                                      *)
(*   label      organize_status of the outcome                             *)
(*   organize   self.organize                                              *)
(*   set        history: the place where cancel was set                    *)
(*   answer     history: what parse_sse() has returned                     *)
(*                                                                         *)
(* run() is module AudioSession; here it ends with any text, or none once  *)
(* it has seen cancel.                                                     *)
(***************************************************************************)
EXTENDS Organizer

VARIABLES place, cancel, organizer, original, text, error, label, organize, set, answer
sessionVars == <<place, cancel, organizer, original, text, error, label, organize, set, answer>>
vars == <<organizerVars, sessionVars>>

Places == {"starting", "recording", "back", "asking", "waiting", "parsing", "failing",
           "labelling", "closing", "ended"}
Texts == {"none", "said", "unsafe", "corrected", "organized"}

TranscriptTypeOK ==
    /\ OrganizerTypeOK
    /\ place \in Places /\ set \in Places \cup {"never"}
    /\ cancel \in BOOLEAN /\ organizer \in BOOLEAN /\ error \in BOOLEAN /\ organize \in BOOLEAN
    /\ original \in {"none", "said", "unsafe"} /\ text \in Texts
    /\ label \in {"", "cancelled", "fallback", "organized", "unchanged"}
    /\ answer \in {"", "refused", "original", "organized"}

Init ==
    /\ OrganizerInit
    /\ place = "starting" /\ cancel = FALSE /\ organize \in BOOLEAN /\ organizer = organize
    /\ original = "none" /\ text = "none" /\ error = FALSE /\ label = ""
    /\ set = "never" /\ answer = ""

Goes(from, to) == place = from /\ place' = to

Cancel ==
    /\ ~cancel /\ cancel' = TRUE /\ set' = place
    /\ UNCHANGED <<organizerVars, place, organizer, original, text, error, label, organize, answer>>

-----------------------------------------------------------------------------

Starts ==
    /\ Goes("starting", "recording")
    /\ IF organizer THEN StartHelper ELSE UNCHANGED organizerVars
    /\ UNCHANGED <<cancel, organizer, original, text, error, label, organize, set, answer>>

\* Not prepared, no device, no helper: the session goes on without an organizer.
StartFails ==
    /\ organizer /\ Goes("starting", "recording")
    /\ organizer' = FALSE /\ error' = TRUE
    /\ UNCHANGED <<organizerVars, cancel, original, text, label, organize, set, answer>>

\* run() returns.
Recognized(words) ==
    /\ Goes("recording", "back")
    /\ words # "none" => ~cancel
    /\ original' = words /\ text' = words
    /\ UNCHANGED <<organizerVars, cancel, organizer, error, label, organize, set, answer>>

\* run() raises: no outcome but the error.
RunFails ==
    /\ Goes("recording", "closing")
    /\ UNCHANGED <<organizerVars, cancel, organizer, original, text, error, label, organize,
                   set, answer>>

Back ==
    /\ place = "back"
    /\ place' = CASE cancel -> "closing"
                  [] ~cancel /\ organizer /\ text # "none" -> "asking"
                  [] OTHER -> "labelling"
    /\ text' = IF cancel THEN "none" ELSE text
    /\ UNCHANGED <<organizerVars, cancel, organizer, original, error, label, organize, set, answer>>

\* finish(): the text is checked and written to the helper, which may be gone.
Asks ==
    /\ place = "asking"
    /\ place' \in IF original = "unsafe" \/ cancel THEN {"failing"} ELSE {"waiting", "failing"}
    /\ UNCHANGED <<organizerVars, cancel, organizer, original, text, error, label, organize,
                   set, answer>>

ReaderDone == reader \in {"ended", "failed"}

\* Looked at every 50 ms and once more when the helper has ended.
SeesCancel ==
    /\ cancel /\ Goes("waiting", "failing")
    /\ UNCHANGED <<organizerVars, cancel, organizer, original, text, error, label, organize,
                   set, answer>>

\* 25 s
TimesOut ==
    /\ ~ReaderDone /\ Goes("waiting", "failing")
    /\ UNCHANGED <<organizerVars, cancel, organizer, original, text, error, label, organize,
                   set, answer>>

Sound == reader = "ended" /\ ready

ReadsAnswer ==
    /\ ReaderDone /\ ~cancel
    /\ place = "waiting" /\ place' = IF Sound THEN "parsing" ELSE "failing"
    /\ UNCHANGED <<organizerVars, cancel, organizer, original, text, error, label, organize,
                   set, answer>>

ParsesBlock ==
    /\ place = "parsing" /\ ParseBlock
    /\ UNCHANGED <<helperVars, sessionVars>>

\* cancel is not looked at any more when the stream yields a text; what the service
\* returns may be what was said.
Parses ==
    /\ place = "parsing" /\ ~More /\ answer' = ParseSse /\ parsed' = Unread
    /\ \/ /\ answer' = "organized"
          /\ place' = "labelling" /\ text' \in {"organized", original}
       \/ /\ answer' = "original"
          /\ place' = "labelling" /\ text' = Corrected(original)
       \/ /\ answer' = "refused" \/ MayLose(answer')
          /\ place' = "failing" /\ UNCHANGED text
    /\ UNCHANGED <<helperVars, cancel, organizer, original, error, label, organize, set>>

FallbackFaulty == original            \* without a look at cancel
Fallback == IF cancel THEN "none" ELSE original

Fails ==
    /\ Goes("failing", "labelling") /\ error' = TRUE /\ text' = Fallback
    /\ UNCHANGED <<organizerVars, cancel, organizer, original, label, organize, set, answer>>

Labels ==
    /\ Goes("labelling", "closing")
    /\ label' = IF ~organize THEN ""
                ELSE IF cancel THEN "cancelled"
                ELSE IF error THEN "fallback"
                ELSE IF text # original THEN "organized" ELSE "unchanged"
    /\ UNCHANGED <<organizerVars, cancel, organizer, original, text, error, organize, set, answer>>

ClosesFaulty == organizer /\ ~error   \* only after a success

\* The finally clause: there is a helper to end.
Closes == organizer

\* The helper is ended, then the outcome is posted.
Close ==
    /\ Goes("closing", "ended")
    /\ IF Closes THEN Ends ELSE UNCHANGED organizerVars
    /\ UNCHANGED <<cancel, organizer, original, text, error, label, organize, set, answer>>

Session ==
    \/ Starts \/ StartFails \/ RunFails \/ Back \/ Asks \/ SeesCancel \/ TimesOut
    \/ ReadsAnswer \/ ParsesBlock \/ Parses \/ Fails \/ Labels \/ Close
    \/ \E words \in {"none", "said", "unsafe"} : Recognized(words)

Helper == HelperStep /\ UNCHANGED sessionVars

Next == Cancel \/ Session \/ Helper

Spec == Init /\ [][Next]_vars

\* The session's own steps are taken: a session in "recording" ends with module
\* AudioSession, the others wait for a limit of the code's own (25 s for an answer,
\* 12 s for the helper's end).  Nothing is assumed of the helper or the coordinator.
FairSpec == Spec /\ WF_vars(Session)

-----------------------------------------------------------------------------
(* Properties *)

\* What the protocol of the event stream promises: any number of deltas, one final
\* text, [DONE], and nothing else.
Whole ==
    LET n == Len(stream) IN
    /\ n >= 2 /\ stream[n] = DoneBlock /\ stream[n - 1] \in Finals
    /\ \A i \in 1 .. n - 2 : stream[i] \in Deltas

KeptAsSaid == \E block \in ToSet(stream) : block \in Deltas /\ block.keep

\* The text of a dictation is what was recognized unless a sound helper wrote a whole
\* stream after an accepted request: then it is the service's, when every part of the
\* stream allowed a rewriting, and the locally corrected one only when the stream
\* forbade it and proposed none.  No failure of the organizer loses what was said
\* (parse_sse(), finish() and run_with_organizer()).
TextAccounted ==
    place \in {"labelling", "closing"} =>
        /\ text \in {"corrected", "organized"} =>
              /\ organize /\ original = "said"
              /\ reader = "ended" /\ ready /\ status = "200" /\ Whole
        /\ text = "organized" => ~KeptAsSaid /\ stream[Len(stream) - 1].text = "safe"
        /\ text = "corrected" =>
              /\ cleanup = "changes" /\ KeptAsSaid
              /\ \A block \in ToSet(stream) :
                    /\ block \in Deltas => ~block.content
                    /\ block \in Finals => block.text = "empty"
        /\ original # "none" /\ ~cancel => text # "none"

\* A dictation cancelled before its text was settled ends without one: on every way
\* out of the organizer, the errors included, only an answer that was being read while
\* cancel was set, or what was settled before, still comes with a text - which the
\* coordinator then drops (Bridge._event in state "cancelling", module VoiceBridge).
CancelWins ==
    place \in {"closing", "ended"} /\ cancel /\ text # "none" =>
        \/ set \in {"labelling", "closing", "ended"}
        \/ set = "parsing" /\ answer # "refused"

\* Once the recognized text is with the organizer the dictation ends, whatever the
\* helper does or fails to do, and the helper is gone by then: no answer is waited
\* for without a limit, and no way out skips the finally clause that ends a Wine
\* program of several hundred megabytes.
AskedEnds == place = "asking" ~> place = "ended" /\ helper = "reaped"
=============================================================================
