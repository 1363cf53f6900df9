------------------------------ MODULE MCVoice -------------------------------
(***************************************************************************)
(* Small instances of VoiceSystem for TLC.                                 *)
(***************************************************************************)
EXTENDS VoiceSystem

CONSTANTS f1, f2

\* Fields are interchangeable.
Symmetry == {[f \in {f1, f2} |-> IF f = f1 THEN g ELSE IF g = f1 THEN f2 ELSE f1] : g \in {f1, f2}}

\* The two dictations of a run are begun in different fields, within the limits of the phases.
Elsewhere ==
    /\ \A t, u \in Tickets : t # u /\ issued[t] # NoField => issued[u] # issued[t]
    /\ ~overdue

\* At most one field is sensitive; the hotkeys are switched off while none is and the ticket
\* has not expired.
OneByOne ==
    /\ \A f, g \in sensitive : f = g
    /\ hotkeys \/ (sensitive = {} /\ ~pending.expired)
=============================================================================
