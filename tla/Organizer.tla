----------------------------- MODULE Organizer ------------------------------
(***************************************************************************)
(* The text organizer, bridge/organize.py: a helper program is started     *)
(* with the recording, gets the recognized text when there is one, and     *)
(* writes the event stream of the organizing service line by line; the     *)
(* stream is taken for an answer only as a whole, after its output's end.  *)
(*                                                                         *)
(*   helper   the process: "none", "started" (it may end at any time, which*)
(*            only close() looks at) or "reaped"                           *)
(*   reader   the task _read(): "none", "reading", "ended" (end of output),*)
(*            "failed" (read_error) or "cancelled"                         *)
(*   ready    the helper has said that its transport is set up             *)
(*   status   the HTTP status: "200" or "other" (None included)            *)
(*   stream   the blocks of the event stream it wrote                      *)
(*   parsed   the variables of parse_sse(): completed, done, what a delta  *)
(*            said, the final text; at: blocks gone through                *)
(*   cleanup  local_cleanup: "off"; on and without effect, "same"; or      *)
(*            "changes" the text by its rules (bridge/cleanup.py)          *)
(*                                                                         *)
(* Texts are what the code keeps apart: "none", what was "said", an        *)
(* "unsafe" one that was said, the "corrected" text of the local rules and *)
(* the "organized" one of the service.  The helper is a Windows program:   *)
(* it may write any lines in any order and end at any time.                *)
(***************************************************************************)
EXTENDS Naturals, SequencesExt

CONSTANTS MaxBlocks,    \* blocks of a stream
          Written       \* the blocks it is made of

VARIABLES helper, reader, ready, status, stream, cleanup, parsed
helperVars == <<helper, reader, ready, status, stream, cleanup>>
organizerVars == <<helperVars, parsed>>

\* A delta has content or not and may forbid rewriting; the final text is safe, empty
\* or unsafe; "bad" is every block that is refused wherever it stands.
Deltas == [kind : {"delta"}, content : BOOLEAN, keep : BOOLEAN]
Finals == [kind : {"final"}, text : {"safe", "empty", "unsafe"}]
DoneBlock == [kind |-> "done"]
Blocks == Deltas \cup Finals \cup {DoneBlock, [kind |-> "bad"]}

ASSUME BlocksAssumption == MaxBlocks \in Nat /\ Written \subseteq Blocks

Unread == [complete |-> FALSE, done |-> FALSE, keep |-> FALSE, content |-> FALSE,
           text |-> "empty", at |-> 0]

OrganizerTypeOK ==
    /\ helper \in {"none", "started", "reaped"}
    /\ reader \in {"none", "reading", "ended", "failed", "cancelled"}
    /\ ready \in BOOLEAN /\ status \in {"200", "other"}
    /\ stream \in Seq(Blocks) /\ Len(stream) <= MaxBlocks
    /\ cleanup \in {"off", "same", "changes"}
    /\ parsed \in [complete : BOOLEAN, done : BOOLEAN, keep : BOOLEAN, content : BOOLEAN,
                   text : {"safe", "empty", "unsafe"}, at : 0..Len(stream)]

OrganizerInit ==
    /\ helper = "none" /\ reader = "none" /\ ready = FALSE /\ status = "other"
    /\ stream = <<>> /\ cleanup \in {"off", "same", "changes"} /\ parsed = Unread

-----------------------------------------------------------------------------
(* parse_sse() *)

\* [DONE] comes after the final text and nothing else does.
InOrder(block) == ~parsed.done /\ block.kind # "bad" /\ (block.kind = "done" <=> parsed.complete)

\* What the next block of the stream changes.
Taken(block) ==
    CASE block.kind = "delta" ->
           [parsed EXCEPT !.keep = @ \/ block.keep, !.content = @ \/ block.content]
      [] block.kind = "final" -> [parsed EXCEPT !.complete = TRUE, !.text = block.text]
      [] OTHER -> [parsed EXCEPT !.done = TRUE]

More == status = "200" /\ parsed.at < Len(stream) /\ InOrder(stream[parsed.at + 1])

ParseBlock == More /\ parsed' = [Taken(stream[parsed.at + 1]) EXCEPT !.at = @ + 1]

EndedFaulty == parsed.complete        \* without waiting for [DONE]
Ended == parsed.complete /\ parsed.done

\* What is returned when no more is read: "original" when rewriting was forbidden,
\* "organized", or "refused", as for every block out of order.
ParseSse ==
    IF status # "200" \/ parsed.at < Len(stream) \/ ~Ended THEN "refused"
    ELSE IF parsed.keep THEN IF parsed.text = "empty" /\ ~parsed.content THEN "original" ELSE "refused"
    ELSE IF parsed.text = "safe" THEN "organized" ELSE "refused"

\* resolve_corrections(), when it is on
Corrected(text) == IF cleanup = "changes" THEN "corrected" ELSE text

\* preservation_error(): may find that the service has lost something, when it is on.
MayLose(answer) == cleanup # "off" /\ answer = "organized"

-----------------------------------------------------------------------------
(* The helper and its output *)

StartHelper ==
    /\ helper' = "started" /\ reader' = "reading"
    /\ UNCHANGED <<ready, status, stream, cleanup, parsed>>

\* The output has ended.  What the lines before set is read by nobody until then.
ReadEnds ==
    /\ reader = "reading" /\ reader' = "ended"
    /\ ready' \in BOOLEAN /\ status' \in {"200", "other"}
    /\ stream' \in BoundedSeq(Written, MaxBlocks)
    /\ UNCHANGED <<helper, cleanup, parsed>>

\* A line that is no number, no hexadecimal, or too much output.
ReadFails ==
    /\ reader = "reading" /\ reader' = "failed"
    /\ UNCHANGED <<helper, ready, status, stream, cleanup, parsed>>

\* close(): terminate(), 12 s later SIGKILL to its group, wait(); then the reader.
Ends ==
    /\ helper' = IF helper = "none" THEN "none" ELSE "reaped"
    /\ reader' = IF reader = "reading" THEN "cancelled" ELSE reader
    /\ stream' = <<>>                    \* raw.clear()
    /\ UNCHANGED <<ready, status, cleanup, parsed>>

HelperStep == ReadEnds \/ ReadFails
=============================================================================
