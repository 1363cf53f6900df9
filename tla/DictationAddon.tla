--------------------------- MODULE DictationAddon ---------------------------
(***************************************************************************)
(* The Fcitx 5 dictation addon, fcitx5/voice.cpp.  Fcitx runs it on one   *)
(* event loop: every key or field event and every D-Bus call is one step. *)
(*                                                                         *)
(*   focus, sensitive, panel  the input contexts as Fcitx shows them: the  *)
(*            focused one, those with a password or sensitive capability,  *)
(*            and what the preedit holds (the input method engine's        *)
(*            composition or the dictation preview)                        *)
(*   pending  the one Delivery (ticket NoTicket: none); expired is what    *)
(*            the comparison of the clock with "expires" would say         *)
(*   nextTicket  tickets are random; here they are numbered as drawn       *)
(*   hot      the hotkey state: altDown, holdStarted, chordUsed,           *)
(*            spaceDown, hotkeyField and whether the hold timer is armed   *)
(*   hotkeys  the EnableHotkeys option                                     *)
(*   alt, space  the physical keys; space is "taken" while the press that  *)
(*            holds it down was captured by the addon                      *)
(* and what the properties talk about:                                     *)
(*   issued   the field each ticket was begun in                           *)
(*   spoiled  tickets whose field was typed in, left, reset or made        *)
(*            sensitive since they were begun                              *)
(*   written  how often the text of each ticket was committed to each field *)
(***************************************************************************)
EXTENDS VoiceBus

VARIABLES focus, sensitive, panel, pending, nextTicket, hot, hotkeys, alt, space,
          issued, spoiled, written
fieldVars == <<focus, sensitive, panel>>
hotVars   == <<hot, hotkeys, alt, space>>
deskVars  == <<focus, sensitive, hotkeys, alt, space>>
ghostVars == <<issued, spoiled, written>>
addonVars == <<fieldVars, pending, nextTicket, hotVars, ghostVars>>

NoDelivery == [ticket |-> NoTicket, sender |-> Stranger, field |-> NoField,
               preview |-> FALSE, expired |-> FALSE]
Delivery == [ticket : Tickets, sender : Senders, field : Fields,
             preview : BOOLEAN, expired : BOOLEAN]

NoHotkey == [alt |-> FALSE, started |-> FALSE, chord |-> FALSE, space |-> FALSE,
             field |-> NoField, armed |-> FALSE]
Hotkey == [alt : BOOLEAN, started : BOOLEAN, chord : BOOLEAN, space : BOOLEAN,
           field : Fields \cup {NoField}, armed : BOOLEAN]

AddonInit ==
    /\ focus \in Fields /\ sensitive = {} /\ panel = [f \in Fields |-> "empty"]
    /\ pending = NoDelivery /\ nextTicket = 1
    /\ hot = NoHotkey /\ hotkeys = ("alt" \in Moves) /\ alt = FALSE /\ space = "up"
    /\ issued = [t \in Tickets |-> NoField] /\ spoiled = {}
    /\ written = [t \in Tickets |-> [f \in Fields |-> 0]]

-----------------------------------------------------------------------------
(* The helpers of the addon. *)

Eligible(field) == field # NoField /\ field = focus /\ field \notin sensitive

Listening == hotkeys /\ focus # NoField        \* a key event reaches hotkey()

OwnedFaulty(call) ==                  \* whichever ticket the caller names
    pending.ticket # NoTicket /\ pending.sender = call.from

\* The caller names the ticket of the pending delivery and is the program that began it.
Owned(call) == pending.ticket # NoTicket /\ pending.ticket = call.ticket
                                         /\ pending.sender = call.from

ValidFor(call) == Owned(call) /\ Eligible(pending.field) /\ ~pending.expired

PreviewClearedFaulty == panel         \* the preview outlives its ticket

\* The panels after clearPreview of the pending delivery.
PreviewCleared ==
    IF pending.preview THEN [panel EXCEPT ![pending.field] = "empty"] ELSE panel

\* The Invalidated signal of revoke; only the running coordinator gets one
\* that this model follows.
Notice(reason) ==
    IF pending.ticket # NoTicket /\ pending.sender = self
    THEN <<Invalidated(pending.ticket, reason)>> ELSE <<>>

HoldCancelFaulty == <<>>              \* a hold that is reset is not reported

HoldCancel == IF hot.started THEN <<Shortcut("hold-cancel", hot.field)>> ELSE <<>>

ConcernsFaulty(field) ==              \* only a delivery that shows a preview
    pending.ticket # NoTicket /\ pending.field = field /\ pending.preview

\* The pending delivery is about this field.
Concerns(field) == pending.ticket # NoTicket /\ pending.field = field

\* A field is disturbed: no ticket begun in it may deliver any more.
Spoil(field) == spoiled' = spoiled \cup {t \in Tickets : issued[t] = field}

\* What the user does waits while MaxSignals signals are under way.
Announce(some) == Emit(some) /\ (some = <<>> \/ Len(signals) < MaxSignals)
-----------------------------------------------------------------------------
(* Keys: hotkey() and the key branch of observe(). *)

\* Alt_R goes down or repeats.  mods: Ctrl, Shift or Super is held as well.
AltPress(mods) ==
    /\ alt' = TRUE
    /\ hot' = IF /\ Listening /\ ~hot.alt /\ Eligible(focus) /\ ~mods
                 /\ panel[focus] = "empty" \/ (Concerns(focus) /\ pending.preview)
              THEN [hot EXCEPT !.alt = TRUE, !.field = focus, !.armed = TRUE]
              ELSE hot
    /\ UNCHANGED <<signals, fieldVars, pending, hotkeys, space, spoiled>>

\* Alt_R is released; outside every field Fcitx does not hear of it.  A captured
\* Space keeps its release.
AltRelease ==
    /\ alt /\ alt' = FALSE
    /\ IF Listening /\ hot.alt
       THEN /\ hot' = [NoHotkey EXCEPT !.space = hot.space]
            /\ Announce(IF hot.started /\ ~hot.chord
                    THEN <<Shortcut("hold-stop", hot.field)>> ELSE <<>>)
       ELSE UNCHANGED <<hot, signals>>
    /\ UNCHANGED <<fieldVars, pending, hotkeys, space, spoiled>>

\* The hold threshold passes with Alt_R down and no other key.
HoldTimer ==
    /\ hot.armed
    /\ IF hot.alt /\ ~hot.chord /\ Eligible(hot.field)
       THEN /\ hot' = [hot EXCEPT !.armed = FALSE, !.started = TRUE]
            /\ Announce(<<Shortcut("hold-start", hot.field)>>)
       ELSE /\ hot' = [hot EXCEPT !.armed = FALSE]
            /\ UNCHANGED signals
    /\ UNCHANGED <<fieldVars, pending, hotkeys, alt, space, spoiled>>

\* A key with Alt_R down that is no shortcut spends the hold.
HotkeyAfterOther ==
    IF Listening /\ hot.alt THEN [hot EXCEPT !.armed = FALSE, !.chord = TRUE] ELSE hot
ChordCancel == IF Listening /\ hot.alt /\ ~hot.chord THEN HoldCancel ELSE <<>>

\* A key press that the addon does not capture and that is no modifier: it
\* revokes the delivery of its field and reaches the engine, which may compose.
Typed(composition) ==
    /\ focus # NoField
    /\ hot' = HotkeyAfterOther
    /\ IF Concerns(focus)
       THEN /\ pending' = NoDelivery
            /\ Announce(ChordCancel \o Notice("typing"))
       ELSE /\ UNCHANGED pending
            /\ Announce(ChordCancel)
    /\ panel' = [panel EXCEPT ![focus] = composition]
    /\ Spoil(focus)

TypeKey ==
    /\ \E composition \in {"empty", "engine"} : Typed(composition)
    /\ UNCHANGED <<focus, sensitive, hotkeys, alt, space>>

\* Shift, Ctrl, ...: never typing, but it ends a hold.
ModifierPress ==
    /\ focus # NoField /\ hot' = HotkeyAfterOther /\ Announce(ChordCancel)
    /\ UNCHANGED <<fieldVars, pending, hotkeys, alt, space, spoiled>>

\* Space goes down or repeats: a captured one repeats silently, Alt_R + Space is
\* the toggle shortcut, any other Space is typing.
SpaceTaken(mods) ==
    Listening /\ hot.alt /\ focus = hot.field /\ Eligible(focus) /\ ~mods

SpacePress(mods) ==
    /\ IF focus = NoField
       THEN /\ space' = IF space = "up" THEN "down" ELSE space
            /\ UNCHANGED <<signals, hot, panel, pending, spoiled>>
       ELSE IF Listening /\ space # "up" /\ hot.space
       THEN UNCHANGED <<space, signals, hot, panel, pending, spoiled>>
       ELSE IF SpaceTaken(mods)
       THEN /\ space' = "taken"
            /\ Announce(IF hot.chord THEN <<>> ELSE <<Shortcut("toggle", focus)>>)
            /\ hot' = [hot EXCEPT !.armed = FALSE, !.chord = TRUE, !.space = TRUE]
            /\ UNCHANGED <<panel, pending, spoiled>>
       ELSE /\ space' = "down"
            /\ \E composition \in {"empty", "engine"} : Typed(composition)
    /\ UNCHANGED <<focus, sensitive, hotkeys, alt>>

SpaceRelease ==
    /\ space # "up" /\ space' = "up"
    /\ hot' = IF Listening THEN [hot EXCEPT !.space = FALSE] ELSE hot
    /\ UNCHANGED <<signals, fieldVars, pending, hotkeys, alt, spoiled>>
-----------------------------------------------------------------------------
(* Field events: the other branches of observe(). *)

\* The hotkey's own field is disturbed: its hold ends.
HotkeyAfterEvent(field) == IF hot.field = field THEN NoHotkey ELSE hot
EventCancel(field) == IF hot.field = field THEN HoldCancel ELSE <<>>

\* FocusOut, Reset or Destroyed of a field.
Disturbed(field) ==
    /\ hot' = HotkeyAfterEvent(field)
    /\ IF Concerns(field)
       THEN /\ pending' = NoDelivery /\ panel' = PreviewCleared
            /\ Announce(EventCancel(field) \o Notice("input-context-changed"))
       ELSE /\ UNCHANGED <<pending, panel>>
            /\ Announce(EventCancel(field))
    /\ Spoil(field)

ChangeFocus(next) ==
    /\ next # focus /\ focus' = next
    /\ IF focus = NoField THEN UNCHANGED <<hot, pending, panel, signals, spoiled>>
                          ELSE Disturbed(focus)
    /\ UNCHANGED <<sensitive, hotkeys, alt, space>>

FieldReset(field) ==
    /\ Disturbed(field)
    /\ UNCHANGED deskVars

\* CapabilityChanged: the field gains or loses a sensitive capability.
ToggleSensitive(field) ==
    LET hides == field \notin sensitive IN
    /\ sensitive' = IF hides THEN sensitive \cup {field} ELSE sensitive \ {field}
    /\ hot' = HotkeyAfterEvent(field)
    /\ IF Concerns(field) /\ (hides \/ field # focus)
       THEN /\ pending' = NoDelivery /\ panel' = PreviewCleared
            /\ Announce(EventCancel(field) \o Notice("sensitive-field"))
       ELSE /\ UNCHANGED <<pending, panel>>
            /\ Announce(EventCancel(field))
    /\ IF hides THEN Spoil(field) ELSE UNCHANGED spoiled
    /\ UNCHANGED <<focus, hotkeys, alt, space>>

\* reloadConfig and setConfig.
ReloadConfig(on) ==
    /\ hotkeys' = on /\ hot' = NoHotkey /\ Announce(HoldCancel)
    /\ UNCHANGED <<fieldVars, pending, alt, space, spoiled>>

\* 180 seconds since begin.
Expire ==
    /\ pending.ticket # NoTicket /\ ~pending.expired
    /\ pending' = [pending EXCEPT !.expired = TRUE]
    /\ UNCHANGED <<signals, fieldVars, hotVars, spoiled>>
-----------------------------------------------------------------------------
(* The D-Bus methods.  Each takes the oldest call from the bus. *)

Serving(op) == calls # <<>> /\ Head(calls).op = op /\ calls' = Tail(calls)

Answer(call, answer, ticket) ==
    reply' = IF call.awaited THEN [answer |-> answer, ticket |-> ticket] ELSE reply

AskedFaulty(call) == Eligible(focus)  \* the context of the shortcut is ignored

\* begin and beginForContext (context # NoField): an eligible field revokes
\* what was pending even when its preedit then refuses the new dictation.
Asked(call) == Eligible(focus) /\ (call.context # NoField => call.context = focus)

ServeBegin ==
    LET call == Head(calls) IN
    /\ Serving("Begin")
    /\ IF ~Asked(call)
       THEN /\ Answer(call, "no", NoTicket)
            /\ UNCHANGED <<signals, panel, pending, nextTicket, issued>>
       ELSE /\ Emit(Notice("new-dictation")) /\ panel' = PreviewCleared
            /\ IF panel'[focus] # "empty"
               THEN /\ Answer(call, "no", NoTicket) /\ pending' = NoDelivery
                    /\ UNCHANGED <<nextTicket, issued>>
               ELSE IF nextTicket \notin Tickets
               THEN /\ Answer(call, "error", NoTicket) /\ pending' = NoDelivery
                    /\ UNCHANGED <<nextTicket, issued>>
               ELSE /\ Answer(call, "yes", nextTicket)
                    /\ pending' = [NoDelivery EXCEPT !.ticket = nextTicket,
                                     !.sender = call.from, !.field = focus]
                    /\ nextTicket' = nextTicket + 1
                    /\ issued' = [issued EXCEPT ![nextTicket] = focus]
    /\ UNCHANGED written

ServeValid ==
    LET call == Head(calls) IN
    /\ Serving("Valid")
    /\ Answer(call, IF ValidFor(call) THEN "yes" ELSE "no", NoTicket)
    /\ UNCHANGED <<signals, panel, pending, nextTicket, issued, written>>

ServeCancel ==
    LET call == Head(calls) IN
    /\ Serving("Cancel")
    /\ IF Owned(call)
       THEN Answer(call, "yes", NoTicket) /\ pending' = NoDelivery /\ panel' = PreviewCleared
       ELSE Answer(call, "no", NoTicket) /\ UNCHANGED <<pending, panel>>
    /\ UNCHANGED <<signals, nextTicket, issued, written>>

ServePreview ==
    LET call == Head(calls) IN
    /\ Serving("Preview")
    /\ IF ValidFor(call) /\ call.text # "unsafe"
       THEN /\ Answer(call, "yes", NoTicket)
            /\ pending' = [pending EXCEPT !.preview = TRUE]
            /\ panel' = [panel EXCEPT ![pending.field] =
                            IF call.text = None THEN "empty" ELSE "preview"]
       ELSE Answer(call, "no", NoTicket) /\ UNCHANGED <<pending, panel>>
    /\ UNCHANGED <<signals, nextTicket, issued, written>>

Accepts(call) == ValidFor(call) /\ call.text = "safe"

ConsumedFaulty(call) == pending       \* the ticket survives its delivery

\* The owner's call consumes the delivery whether or not it is accepted.
Consumed(call) == NoDelivery

ServeCommit ==
    LET call == Head(calls) IN
    /\ Serving("Commit")
    /\ IF Owned(call)
       THEN /\ pending' = Consumed(call) /\ panel' = PreviewCleared
            /\ IF Accepts(call)
               THEN /\ Answer(call, "yes", NoTicket)
                    /\ written' = [written EXCEPT ![call.ticket][pending.field] = @ + 1]
               ELSE Answer(call, "no", NoTicket) /\ UNCHANGED written
       ELSE /\ Answer(call, "no", NoTicket)
            /\ UNCHANGED <<pending, panel, written>>
    /\ UNCHANGED <<signals, nextTicket, issued>>

\* The owner of the pending delivery left the bus.
ServeGone ==
    /\ Serving("gone")
    /\ IF pending.ticket # NoTicket /\ pending.sender = Head(calls).from
       THEN pending' = NoDelivery /\ panel' = PreviewCleared
       ELSE UNCHANGED <<pending, panel>>
    /\ UNCHANGED <<reply, signals, nextTicket, issued, written>>

Serve ==
    /\ \/ ServeBegin \/ ServeValid \/ ServeCancel
       \/ ServePreview \/ ServeCommit \/ ServeGone
    /\ UNCHANGED <<self, up, faults, deskVars, hot, spoiled>>
-----------------------------------------------------------------------------
(* Faults. *)

\* Fcitx restarts: its state and the calls on their way are lost; a caller that
\* waits gets an error from the bus.
AddonRestart ==
    /\ faults < MaxFaults /\ faults' = faults + 1
    /\ pending' = NoDelivery /\ hot' = NoHotkey /\ panel' = [f \in Fields |-> "empty"]
    /\ calls' = <<>>
    /\ reply' = IF \E i \in 1..Len(calls) : calls[i].awaited
                THEN [answer |-> "error", ticket |-> NoTicket] ELSE reply
    /\ spoiled' = spoiled \cup {t \in Tickets : issued[t] # NoField}
    /\ UNCHANGED <<signals, self, up, deskVars, nextTicket, issued, written>>

\* Another program on the session bus calls the addon, with any ticket.
StrangerCall(op, ticket) ==
    /\ faults < MaxFaults /\ faults' = faults + 1
    /\ calls' = Append(calls, [op |-> op, from |-> Stranger, ticket |-> ticket,
                               context |-> NoField, text |-> "safe", awaited |-> FALSE])
    /\ UNCHANGED <<reply, signals, self, up, addonVars>>

\* What the user and the clock do in a run: Moves names the kinds of step.
UserStep ==
    /\ \/ HoldTimer
       \/ "alt" \in Moves /\ (AltRelease \/ \E mods \in BOOLEAN : AltPress(mods))
       \/ "space" \in Moves /\ (SpaceRelease \/ \E mods \in BOOLEAN : SpacePress(mods))
       \/ "type" \in Moves /\ TypeKey
       \/ "modifier" \in Moves /\ ModifierPress
       \/ "focus" \in Moves /\ \E field \in Fields \cup {NoField} : ChangeFocus(field)
       \/ "reset" \in Moves /\ \E field \in Fields : FieldReset(field)
       \/ "sensitive" \in Moves /\ \E field \in Fields : ToggleSensitive(field)
       \/ "config" \in Moves /\ \E on \in BOOLEAN : ReloadConfig(on)
       \/ "expire" \in Moves /\ Expire
    /\ UNCHANGED <<calls, reply, self, up, faults, nextTicket, issued, written>>

AddonFault ==
    \/ AddonRestart
    \/ StrangerCall("Begin", NoTicket)
    \/ \E ticket \in Tickets : StrangerCall("Commit", ticket) \/ StrangerCall("Cancel", ticket)

AddonTypeOK ==
    /\ focus \in Fields \cup {NoField} /\ sensitive \subseteq Fields
    /\ panel \in [Fields -> {"empty", "engine", "preview"}]
    /\ pending \in Delivery \cup {NoDelivery}
    /\ nextTicket \in 1..(MaxTickets + 1)
    /\ hot \in Hotkey /\ hotkeys \in BOOLEAN /\ alt \in BOOLEAN
    /\ space \in {"up", "down", "taken"}
    /\ issued \in [Tickets -> Fields \cup {NoField}]
    /\ spoiled \subseteq Tickets
    /\ written \in [Tickets -> [Fields -> Nat]]
=============================================================================
