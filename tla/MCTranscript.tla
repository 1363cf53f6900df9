---------------------------- MODULE MCTranscript ----------------------------
(* One dictation through the organizer, for TLC. *)
EXTENDS Transcript

\* The kinds of block; a delta with neither content nor no_rewrite changes nothing, one
\* with both is like two, and a final text that is neither safe nor empty is refused
\* like a bad block.
WrittenDef ==
    {[kind |-> "delta", content |-> TRUE,  keep |-> FALSE],
     [kind |-> "delta", content |-> FALSE, keep |-> TRUE],
     [kind |-> "final", text |-> "safe"], [kind |-> "final", text |-> "empty"],
     DoneBlock, [kind |-> "bad"]}
=============================================================================
