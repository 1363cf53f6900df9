-------------------------- MODULE VoiceTypeProofs ---------------------------
(***************************************************************************)
(* Type correctness of VoiceSystem, for any number of fields, tickets,     *)
(* processes, signals and faults.                                          *)
(***************************************************************************)
EXTENDS VoiceSystem, SequenceTheorems, TLAPS

\* Only a process that is not the last one ends, so Restart finds a name.
NameLeft == ~up => self < MaxStarts

TypeInv == TypeOK /\ NameLeft

-----------------------------------------------------------------------------
(* What travels on the bus has its type. *)

\* The Shortcut signals of voice.cpp are signals of the bus.
LEMMA ShortcutTyped ==
    ASSUME NEW action \in Actions, NEW field \in Fields \cup {NoField}
    PROVE  Shortcut(action, field) \in Signal
  BY DEF Shortcut, Signal, Actions

\* So are the Invalidated signals.
LEMMA InvalidatedTyped ==
    ASSUME NEW ticket \in Tickets, NEW reason \in Reasons
    PROVE  Invalidated(ticket, reason) \in Signal
  BY DEF Invalidated, Signal

\* Signals sent join the queue when the coordinator runs, and are lost otherwise.
LEMMA EmitTyped ==
    ASSUME signals \in Seq(Signal), NEW some \in Seq(Signal), Emit(some)
    PROVE  signals' \in Seq(Signal)
  BY ConcatProperties DEF Emit

\* What the coordinator writes in a call is a call of the bus.
LEMMA MessageTyped ==
    ASSUME BusTypeOK, NEW op \in Methods \cup {"gone"}, NEW ticket \in Tickets \cup {NoTicket},
           NEW context \in Fields \cup {NoField}, NEW text \in Texts
    PROVE  Message(op, ticket, context, text) \in Call
<1>1. self \in Senders
  BY BusAssumption DEF BusTypeOK, Senders
<1> QED BY <1>1 DEF Message, Call

\* Calls queue behind those on their way.
LEMMA SendTyped ==
    ASSUME BusTypeOK, NEW op \in Methods, NEW ticket \in Tickets \cup {NoTicket},
           NEW context \in Fields \cup {NoField}, NEW text \in Texts,
           Send(op, ticket, context, text)
    PROVE  calls' \in Seq(Call)
<1>1. Message(op, ticket, context, text) \in Call
  BY MessageTyped
<1> QED BY <1>1 DEF Send, BusTypeOK

\* Giving up on a call leaves it on its way.
LEMMA ForsakenTyped ==
    ASSUME BusTypeOK PROVE Forsaken \in Seq(Call)
<1>1. Len(calls) \in Nat /\ \A i \in 1..Len(calls) : calls[i] \in Call
  BY DEF BusTypeOK
<1>2. \A i \in 1..Len(calls) : [calls[i] EXCEPT !.awaited = FALSE] \in Call
  BY <1>1 DEF Call
<1> QED BY <1>1, <1>2 DEF Forsaken

\* A hold is cancelled by at most one signal.
LEMMA HoldCancelTyped == AddonTypeOK => HoldCancel \in Seq(Signal)
  BY ShortcutTyped DEF AddonTypeOK, HoldCancel, Hotkey, Actions

\* A delivery with a ticket is one begun in a field.
LEMMA PendingTyped ==
    ASSUME AddonTypeOK, pending.ticket # NoTicket PROVE pending \in Delivery
<1>1. pending \in Delivery \cup {NoDelivery}
  BY DEF AddonTypeOK
<1>2. pending # NoDelivery
  BY DEF NoDelivery
<1> QED BY <1>1, <1>2

\* revoke sends at most one Invalidated signal.
LEMMA NoticeTyped ==
    ASSUME AddonTypeOK, NEW reason \in Reasons PROVE Notice(reason) \in Seq(Signal)
  BY InvalidatedTyped, PendingTyped DEF Notice, Delivery

\* clearPreview touches the panel of the pending field only.
LEMMA ClearedTyped ==
    AddonTypeOK => PreviewCleared \in [Fields -> {"empty", "engine", "preview"}]
  BY DEF AddonTypeOK, PreviewCleared, NoDelivery, Delivery

\* resetHotkey leaves a hotkey state.
LEMMA HotkeyTyped == NoHotkey \in Hotkey
  BY DEF NoHotkey, Hotkey

-----------------------------------------------------------------------------
(* The steps of the user. *)

\* What the user's step announces are signals.
LEMMA AnnounceTyped ==
    ASSUME BusTypeOK, NEW some \in Seq(Signal), Announce(some)
    PROVE  signals' \in Seq(Signal)
  BY EmitTyped DEF Announce, BusTypeOK

\* The variables the user may disturb.
DeskTypeOK ==
    /\ signals \in Seq(Signal)
    /\ focus \in Fields \cup {NoField} /\ sensitive \subseteq Fields
    /\ panel \in [Fields -> {"empty", "engine", "preview"}]
    /\ pending \in Delivery \cup {NoDelivery}
    /\ hot \in Hotkey /\ hotkeys \in BOOLEAN /\ alt \in BOOLEAN
    /\ space \in {"up", "down", "taken"}
    /\ spoiled \subseteq Tickets

\* A key that counts as typing: the hold is spent, the delivery of its field revoked.
LEMMA TypedTyped ==
    ASSUME BusTypeOK, AddonTypeOK, NEW composition \in {"empty", "engine"}, Typed(composition)
    PROVE  /\ signals' \in Seq(Signal) /\ hot' \in Hotkey
           /\ panel' \in [Fields -> {"empty", "engine", "preview"}]
           /\ pending' \in Delivery \cup {NoDelivery}
           /\ spoiled' \subseteq Tickets
<1>1. ChordCancel \in Seq(Signal)
  BY HoldCancelTyped DEF ChordCancel
<1>2. Notice("typing") \in Seq(Signal)
  BY NoticeTyped DEF Reasons
<1>3. ChordCancel \o Notice("typing") \in Seq(Signal)
  BY <1>1, <1>2, ConcatProperties
<1>4. signals' \in Seq(Signal)
  BY <1>1, <1>3, AnnounceTyped DEF Typed
<1>5. hot' \in Hotkey
  BY DEF Typed, HotkeyAfterOther, AddonTypeOK, Hotkey
<1>6. panel' \in [Fields -> {"empty", "engine", "preview"}] /\ spoiled' \subseteq Tickets
  BY DEF Typed, Spoil, AddonTypeOK
<1>7. pending' \in Delivery \cup {NoDelivery}
  BY DEF Typed, AddonTypeOK
<1> QED BY <1>4, <1>5, <1>6, <1>7

\* A field event ends at most the hold of its own field.
LEMMA EventCancelTyped ==
    ASSUME AddonTypeOK, NEW field
    PROVE  /\ EventCancel(field) \in Seq(Signal)
           /\ \A reason \in Reasons : EventCancel(field) \o Notice(reason) \in Seq(Signal)
           /\ HotkeyAfterEvent(field) \in Hotkey
<1>1. EventCancel(field) \in Seq(Signal)
  BY HoldCancelTyped DEF EventCancel
<1>2. \A reason \in Reasons : EventCancel(field) \o Notice(reason) \in Seq(Signal)
  BY <1>1, NoticeTyped, ConcatProperties
<1>3. HotkeyAfterEvent(field) \in Hotkey
  BY HotkeyTyped DEF AddonTypeOK, HotkeyAfterEvent
<1> QED BY <1>1, <1>2, <1>3

\* FocusOut, Reset and Destroyed of a field.
LEMMA DisturbedTyped ==
    ASSUME BusTypeOK, AddonTypeOK, NEW field \in Fields, Disturbed(field)
    PROVE  /\ signals' \in Seq(Signal) /\ hot' \in Hotkey
           /\ panel' \in [Fields -> {"empty", "engine", "preview"}]
           /\ pending' \in Delivery \cup {NoDelivery}
           /\ spoiled' \subseteq Tickets
<1>1. signals' \in Seq(Signal)
  BY EventCancelTyped, AnnounceTyped DEF Disturbed, Reasons
<1>2. hot' \in Hotkey
  BY EventCancelTyped DEF Disturbed
<1>3. panel' \in [Fields -> {"empty", "engine", "preview"}]
  BY ClearedTyped DEF Disturbed, AddonTypeOK
<1>4. pending' \in Delivery \cup {NoDelivery} /\ spoiled' \subseteq Tickets
  BY DEF Disturbed, Spoil, AddonTypeOK
<1> QED BY <1>1, <1>2, <1>3, <1>4

\* Keys that are no text: Alt, modifiers, the release of Space, the hold timer.
LEMMA HotkeyKeysTyped ==
    ASSUME BusTypeOK, AddonTypeOK,
           \/ HoldTimer \/ AltRelease \/ \E mods \in BOOLEAN : AltPress(mods)
           \/ SpaceRelease \/ ModifierPress
    PROVE  DeskTypeOK'
<1> USE DEF BusTypeOK, AddonTypeOK, DeskTypeOK, fieldVars
<1>1. CASE HoldTimer
  <2>1. <<>> \in Seq(Signal) /\ <<Shortcut("hold-start", hot.field)>> \in Seq(Signal)
    BY ShortcutTyped DEF Hotkey, Actions
  <2>2. signals' \in Seq(Signal)
    BY <1>1, <2>1, AnnounceTyped DEF HoldTimer
  <2> QED BY <1>1, <2>2 DEF HoldTimer, Hotkey
<1>2. CASE AltRelease
  <2>1. <<>> \in Seq(Signal) /\ <<Shortcut("hold-stop", hot.field)>> \in Seq(Signal)
    BY ShortcutTyped DEF Hotkey, Actions
  <2>2. signals' \in Seq(Signal)
    BY <1>2, <2>1, AnnounceTyped DEF AltRelease
  <2>3. hot' \in Hotkey
    BY <1>2 DEF AltRelease, NoHotkey, Hotkey
  <2> QED BY <1>2, <2>2, <2>3 DEF AltRelease
<1>3. ASSUME NEW mods \in BOOLEAN, AltPress(mods) PROVE DeskTypeOK'
  BY <1>3 DEF AltPress, Hotkey
<1>4. CASE SpaceRelease
  BY <1>4 DEF SpaceRelease, Hotkey
<1>5. CASE ModifierPress
  <2>1. ChordCancel \in Seq(Signal)
    BY HoldCancelTyped DEF ChordCancel
  <2>2. signals' \in Seq(Signal)
    BY <1>5, <2>1, AnnounceTyped DEF ModifierPress
  <2>3. hot' \in Hotkey
    BY <1>5 DEF ModifierPress, HotkeyAfterOther, Hotkey
  <2> QED BY <1>5, <2>2, <2>3 DEF ModifierPress
<1> QED BY <1>1, <1>2, <1>3, <1>4, <1>5

\* Space in its four roles: unseen, repeating, shortcut, text.
LEMMA SpacePressTyped ==
    ASSUME BusTypeOK, AddonTypeOK, NEW mods \in BOOLEAN, SpacePress(mods)
    PROVE  DeskTypeOK'
<1> USE DEF BusTypeOK, AddonTypeOK, DeskTypeOK
<1>1. CASE focus = NoField
  BY <1>1 DEF SpacePress
<1>2. CASE focus # NoField /\ Listening /\ space # "up" /\ hot.space
  BY <1>2 DEF SpacePress
<1>3. CASE focus # NoField /\ ~(Listening /\ space # "up" /\ hot.space) /\ SpaceTaken(mods)
  <2>1. <<>> \in Seq(Signal) /\ <<Shortcut("toggle", focus)>> \in Seq(Signal)
    BY ShortcutTyped DEF Actions
  <2>2. signals' \in Seq(Signal)
    BY <1>3, <2>1, AnnounceTyped DEF SpacePress
  <2>3. hot' = [hot EXCEPT !.armed = FALSE, !.chord = TRUE, !.space = TRUE]
    BY <1>3 DEF SpacePress
  <2>4. hot' \in Hotkey
    BY <2>3 DEF Hotkey
  <2> QED BY <1>3, <2>2, <2>4 DEF SpacePress
<1>4. CASE focus # NoField /\ ~(Listening /\ space # "up" /\ hot.space) /\ ~SpaceTaken(mods)
  BY <1>4, TypedTyped DEF SpacePress
<1> QED BY <1>1, <1>2, <1>3, <1>4

\* Field events, options and the expiry of a ticket.
LEMMA FieldEventsTyped ==
    ASSUME BusTypeOK, AddonTypeOK,
           \/ \E field \in Fields \cup {NoField} : ChangeFocus(field)
           \/ \E field \in Fields : FieldReset(field) \/ ToggleSensitive(field)
           \/ \E on \in BOOLEAN : ReloadConfig(on)
           \/ Expire
    PROVE  DeskTypeOK'
<1> USE DEF BusTypeOK, AddonTypeOK, DeskTypeOK, fieldVars, hotVars, deskVars
<1>1. ASSUME NEW field \in Fields \cup {NoField}, ChangeFocus(field) PROVE DeskTypeOK'
  BY <1>1, DisturbedTyped DEF ChangeFocus
<1>2. ASSUME NEW field \in Fields, FieldReset(field) PROVE DeskTypeOK'
  BY <1>2, DisturbedTyped DEF FieldReset
<1>3. ASSUME NEW field \in Fields, ToggleSensitive(field) PROVE DeskTypeOK'
  <2>1. signals' \in Seq(Signal)
    BY <1>3, EventCancelTyped, AnnounceTyped DEF ToggleSensitive, Reasons
  <2>2. hot' \in Hotkey
    BY <1>3, EventCancelTyped DEF ToggleSensitive
  <2>3. panel' \in [Fields -> {"empty", "engine", "preview"}]
    BY <1>3, ClearedTyped DEF ToggleSensitive
  <2>4. pending' \in Delivery \cup {NoDelivery}
    BY <1>3 DEF ToggleSensitive
  <2>5. sensitive' \subseteq Fields /\ spoiled' \subseteq Tickets
    BY <1>3 DEF ToggleSensitive, Spoil
  <2> QED BY <1>3, <2>1, <2>2, <2>3, <2>4, <2>5 DEF ToggleSensitive
<1>4. ASSUME NEW on \in BOOLEAN, ReloadConfig(on) PROVE DeskTypeOK'
  <2>1. signals' \in Seq(Signal)
    BY <1>4, HoldCancelTyped, AnnounceTyped DEF ReloadConfig
  <2> QED BY <1>4, <2>1, HotkeyTyped DEF ReloadConfig
<1>5. CASE Expire
  <2>1. pending' \in Delivery
    BY <1>5, PendingTyped DEF Expire, Delivery
  <2> QED BY <1>5, <2>1 DEF Expire
<1> QED BY <1>1, <1>2, <1>3, <1>4, <1>5

\* All that the user and the clock do.
LEMMA UserTyped ==
    ASSUME BusTypeOK, AddonTypeOK, UserStep
    PROVE  BusTypeOK' /\ AddonTypeOK'
<1>1. CASE TypeKey
  <2>1. DeskTypeOK'
    BY <1>1, TypedTyped DEF TypeKey, DeskTypeOK, AddonTypeOK
  <2> QED BY <2>1 DEF UserStep, DeskTypeOK, BusTypeOK, AddonTypeOK
<1>2. CASE ~TypeKey
  <2>1. DeskTypeOK'
    BY <1>2, HotkeyKeysTyped, SpacePressTyped, FieldEventsTyped DEF UserStep
  <2> QED BY <2>1 DEF UserStep, DeskTypeOK, BusTypeOK, AddonTypeOK
<1> QED BY <1>1, <1>2

-----------------------------------------------------------------------------
(* The calls the addon serves. *)

\* The oldest call is taken from the bus.
LEMMA ServingTyped ==
    ASSUME BusTypeOK, NEW op \in Methods \cup {"gone"}, Serving(op)
    PROVE  Head(calls) \in Call /\ calls' \in Seq(Call)
  BY HeadTailProperties DEF BusTypeOK, Serving

\* An answer is set only for the caller that waits.
LEMMA AnswerTyped ==
    ASSUME BusTypeOK, NEW call, NEW answer \in Answers, NEW ticket \in Tickets \cup {NoTicket},
           Answer(call, answer, ticket)
    PROVE  reply' \in Reply \cup {NoReply}
  BY DEF BusTypeOK, Answer, Reply

\* Begin: refused, failed for want of a ticket, or a new delivery.
LEMMA ServeBeginTyped ==
    ASSUME BusTypeOK, AddonTypeOK, ServeBegin
    PROVE  /\ calls' \in Seq(Call) /\ reply' \in Reply \cup {NoReply}
           /\ signals' \in Seq(Signal)
           /\ panel' \in [Fields -> {"empty", "engine", "preview"}]
           /\ pending' \in Delivery \cup {NoDelivery}
           /\ nextTicket' \in 1..(MaxTickets + 1)
           /\ issued' \in [Tickets -> Fields \cup {NoField}]
<1>1. Head(calls) \in Call /\ calls' \in Seq(Call)
  BY ServingTyped DEF ServeBegin, Methods
<1>2. signals' \in Seq(Signal)
  BY NoticeTyped, EmitTyped DEF ServeBegin, BusTypeOK, Reasons
<1>3. panel' \in [Fields -> {"empty", "engine", "preview"}]
  BY ClearedTyped DEF ServeBegin, AddonTypeOK
<1>4. reply' \in Reply \cup {NoReply}
  BY AnswerTyped DEF ServeBegin, Answers
<1>5. CASE Answer(Head(calls), "yes", nextTicket) /\ nextTicket \in Tickets /\ Asked(Head(calls))
           /\ pending' = [NoDelivery EXCEPT !.ticket = nextTicket,
                                     !.sender = Head(calls).from, !.field = focus]
           /\ nextTicket' = nextTicket + 1
           /\ issued' = [issued EXCEPT ![nextTicket] = focus]
  <2>1. focus \in Fields
    BY <1>5 DEF Asked, Eligible, AddonTypeOK
  <2>2. pending' \in Delivery
    BY <1>1, <1>5, <2>1 DEF NoDelivery, Delivery, Call
  <2>3. nextTicket' \in 1..(MaxTickets + 1)
    BY <1>5, BusAssumption DEF AddonTypeOK, Tickets
  <2>4. issued' \in [Tickets -> Fields \cup {NoField}]
    BY <1>5, <2>1 DEF AddonTypeOK
  <2> QED BY <1>1, <1>2, <1>3, <1>4, <2>2, <2>3, <2>4
<1>6. CASE pending' \in {pending, NoDelivery} /\ UNCHANGED <<nextTicket, issued>>
  BY <1>1, <1>2, <1>3, <1>4, <1>6 DEF AddonTypeOK
<1> QED BY <1>5, <1>6 DEF ServeBegin

\* All the methods of the addon.
LEMMA ServeTyped ==
    ASSUME BusTypeOK, AddonTypeOK, Serve
    PROVE  BusTypeOK' /\ AddonTypeOK'
<1> DEFINE Kept == /\ calls' \in Seq(Call) /\ reply' \in Reply \cup {NoReply}
                   /\ signals' \in Seq(Signal)
                   /\ panel' \in [Fields -> {"empty", "engine", "preview"}]
                   /\ pending' \in Delivery \cup {NoDelivery}
                   /\ nextTicket' \in 1..(MaxTickets + 1)
                   /\ issued' \in [Tickets -> Fields \cup {NoField}]
                   /\ written' \in [Tickets -> [Fields -> Nat]]
<1>1. ASSUME ServeBegin PROVE Kept
  BY <1>1, ServeBeginTyped DEF ServeBegin, AddonTypeOK
<1>2. ASSUME ServeValid PROVE Kept
  BY <1>2, ServingTyped, AnswerTyped DEF ServeValid, BusTypeOK, AddonTypeOK, Methods, Answers
<1>3. ASSUME ServeCancel PROVE Kept
  BY <1>3, ServingTyped, AnswerTyped, ClearedTyped
     DEF ServeCancel, BusTypeOK, AddonTypeOK, Methods, Answers
<1>4. ASSUME ServePreview PROVE Kept
  <2>1. reply' \in Reply \cup {NoReply} /\ calls' \in Seq(Call)
    BY <1>4, ServingTyped, AnswerTyped DEF ServePreview, Methods, Answers
  <2>2. pending' \in Delivery \cup {NoDelivery}
    BY <1>4, PendingTyped DEF ServePreview, ValidFor, Owned, AddonTypeOK, Delivery
  <2>3. panel' \in [Fields -> {"empty", "engine", "preview"}]
    BY <1>4 DEF ServePreview, AddonTypeOK
  <2> QED BY <1>4, <2>1, <2>2, <2>3 DEF ServePreview, BusTypeOK, AddonTypeOK
<1>5. ASSUME ServeCommit PROVE Kept
  <2>1. reply' \in Reply \cup {NoReply} /\ calls' \in Seq(Call)
    BY <1>5, ServingTyped, AnswerTyped DEF ServeCommit, Methods, Answers
  <2>2. written' \in [Tickets -> [Fields -> Nat]]
    <3>1. CASE Owned(Head(calls)) /\ Accepts(Head(calls))
      <4>1. pending \in Delivery /\ Head(calls).ticket = pending.ticket
        BY <3>1, PendingTyped DEF Owned
      <4>2. written' = [written EXCEPT ![pending.ticket][pending.field] = @ + 1]
        BY <1>5, <3>1, <4>1 DEF ServeCommit
      <4> QED BY <4>1, <4>2 DEF AddonTypeOK, Delivery
    <3>2. CASE ~(Owned(Head(calls)) /\ Accepts(Head(calls)))
      BY <1>5, <3>2 DEF ServeCommit, AddonTypeOK
    <3> QED BY <3>1, <3>2
  <2>3. pending' \in Delivery \cup {NoDelivery}
    BY <1>5 DEF ServeCommit, Consumed, AddonTypeOK
  <2>4. panel' \in [Fields -> {"empty", "engine", "preview"}]
    BY <1>5, ClearedTyped DEF ServeCommit, AddonTypeOK
  <2> QED BY <1>5, <2>1, <2>2, <2>3, <2>4 DEF ServeCommit, BusTypeOK, AddonTypeOK
<1>6. ASSUME ServeGone PROVE Kept
  BY <1>6, ServingTyped, ClearedTyped DEF ServeGone, BusTypeOK, AddonTypeOK, Methods
<1>7. Kept
  BY <1>1, <1>2, <1>3, <1>4, <1>5, <1>6 DEF Serve
<1> QED BY <1>7 DEF Serve, deskVars, BusTypeOK, AddonTypeOK

-----------------------------------------------------------------------------
(* Faults of the addon. *)

\* A restart of Fcitx and the calls of other programs.
LEMMA AddonFaultTyped ==
    ASSUME BusTypeOK, AddonTypeOK, AddonFault
    PROVE  BusTypeOK' /\ AddonTypeOK'
<1>1. CASE AddonRestart
  <2>1. calls' \in Seq(Call) /\ reply' \in Reply \cup {NoReply}
    BY <1>1 DEF AddonRestart, BusTypeOK, Reply, Answers
  <2>2. spoiled' \subseteq Tickets /\ panel' \in [Fields -> {"empty", "engine", "preview"}]
    BY <1>1 DEF AddonRestart, AddonTypeOK
  <2>3. faults' \in 0..MaxFaults
    BY <1>1, BusAssumption DEF AddonRestart, BusTypeOK
  <2> QED BY <1>1, <2>1, <2>2, <2>3, HotkeyTyped
          DEF AddonRestart, deskVars, BusTypeOK, AddonTypeOK
<1>2. ASSUME NEW op \in Methods, NEW ticket \in Tickets \cup {NoTicket}, StrangerCall(op, ticket)
      PROVE  BusTypeOK' /\ AddonTypeOK'
  <2>1. Stranger \in Senders
    BY BusAssumption DEF Stranger, Senders
  <2>2. [op |-> op, from |-> Stranger, ticket |-> ticket, context |-> NoField,
         text |-> "safe", awaited |-> FALSE] \in Call
    BY <2>1 DEF Call, Texts
  <2>3. calls' \in Seq(Call)
    BY <1>2, <2>2 DEF StrangerCall, BusTypeOK
  <2>4. faults' \in 0..MaxFaults
    BY <1>2, BusAssumption DEF StrangerCall, BusTypeOK
  <2> QED BY <1>2, <2>3, <2>4
          DEF StrangerCall, addonVars, fieldVars, hotVars, ghostVars, BusTypeOK, AddonTypeOK
<1> QED BY <1>1, <1>2 DEF AddonFault, Methods

-----------------------------------------------------------------------------
(* The recording session. *)

\* A session as Session.start leaves it.
LEMMA NewSessionTyped ==
    ASSUME NEW gen \in Nat PROVE NewSession(gen) \in SessionState
  BY DEF NewSession, NoSession, SessionState

\* An event joins the queue of the main loop.
LEMMA AppendedTyped ==
    ASSUME events \in Seq(Event), NEW event \in Event, events' = Append(events, event)
    PROVE  events' \in Seq(Event)
  OBVIOUS

\* What the recording thread posts are events.
LEMMA PostTyped ==
    ASSUME RecTypeOK, NEW kind \in {"recording", "preview", "done"},
           NEW text \in {NoText, "safe", "unsafe"}, Post(kind, text)
    PROVE  events' \in Seq(Event)
<1> DEFINE event == [kind |-> kind, gen |-> rec.gen, text |-> text]
<1>1. event \in Event
  BY DEF RecTypeOK, SessionState, Event
<1>2. events' = Append(events, event)
  BY DEF Post
<1> QED BY <1>1, <1>2, AppendedTyped DEF RecTypeOK

\* All the steps of the recording thread.
LEMMA SessionTyped ==
    ASSUME RecTypeOK, SessionStep PROVE RecTypeOK'
<1> USE DEF RecTypeOK
<1>1. CASE OpenMic
  BY <1>1 DEF OpenMic, SessionState
<1>2. CASE MicOpened
  <2>1. events' \in Seq(Event)
    BY <1>2, PostTyped DEF MicOpened
  <2> QED BY <1>2, <2>1 DEF MicOpened, SessionState
<1>3. CASE CloseMic
  BY <1>3 DEF CloseMic, SessionState
<1>4. CASE PostPreview
  <2>1. PICK text \in PreviewTexts : Post("preview", text)
    BY <1>4 DEF PostPreview
  <2>2. events' \in Seq(Event)
    BY <2>1, PostTyped, SessionAssumption
  <2> QED BY <1>4, <2>2 DEF PostPreview
<1>5. CASE PostDone
  <2>1. events' \in Seq(Event)
    BY <1>5, PostTyped DEF PostDone, SessionState
  <2> QED BY <1>5, <2>1 DEF PostDone, SessionState
<1>6. ASSUME NEW text \in FinalTexts \cup {NoText}, Decide(text) PROVE RecTypeOK'
  <2>1. text \in {NoText, "safe", "unsafe"}
    BY SessionAssumption
  <2> QED BY <1>6, <2>1 DEF Decide, SessionState
<1> QED BY <1>1, <1>2, <1>3, <1>4, <1>5, <1>6 DEF SessionStep

-----------------------------------------------------------------------------
(* The handlers of the coordinator. *)

\* command('stop').
LEMMA StopTyped ==
    ASSUME RecTypeOK, BridgeTypeOK, Stop
    PROVE  /\ phase' \in {"idle", "connecting", "recording", "processing", "cancelling"}
           /\ overdue' \in BOOLEAN /\ rec' \in SessionState
  BY DEF RecTypeOK, BridgeTypeOK, Stop, Enter, SessionState

\* The handlers' places to go on from.
LEMMA WaitTyped ==
    /\ NoWait \in Waiting
    /\ \A for \in {None, "start", "valid", "preview", "commit", "release", "cancel"} :
          [NoWait EXCEPT !.for = for] \in Waiting
  BY DEF NoWait, Waiting

\* command('start') up to its Begin call.
LEMMA StartTyped ==
    ASSUME BusTypeOK, RecTypeOK, BridgeTypeOK, NEW hold \in BOOLEAN,
           NEW context \in Fields \cup {NoField}, Start(context, hold)
    PROVE  calls' \in Seq(Call) /\ RecTypeOK' /\ BridgeTypeOK'
<1>1. calls' \in Seq(Call)
  BY SendTyped DEF Start, BusTypeOK, Methods, Texts
<1>2. wait' \in Waiting
  <2>1. CASE phase = "idle"
    <3>1. wait' = [NoWait EXCEPT !.for = "start", !.hold = hold, !.context = context]
      BY <2>1 DEF Start
    <3>2. wait' = [for |-> "start", hold |-> hold, context |-> context, ticket |-> NoTicket,
                   outcome |-> None, tick |-> FALSE]
      BY <3>1 DEF NoWait
    <3> QED BY <3>2 DEF Waiting
  <2>2. CASE phase # "idle"
    BY <2>2 DEF Start, bridgeVars, BridgeTypeOK
  <2> QED BY <2>1, <2>2
<1> QED BY <1>1, <1>2 DEF Start, recVars, bridgeVars, loopVars, RecTypeOK, BridgeTypeOK

\* cancel() after the ticket was given back.
LEMMA CancelledTyped ==
    ASSUME RecTypeOK, BridgeTypeOK, NEW reason \in Outcomes \cup CancelReasons \cup {None},
           NEW about \in Tickets \cup {NoTicket}, NEW tick \in BOOLEAN,
           Cancelled(reason, about, tick)
    PROVE  /\ phase' \in {"idle", "connecting", "recording", "processing", "cancelling"}
           /\ overdue' \in BOOLEAN /\ ticking' \in BOOLEAN
           /\ last' \in LastReport /\ rec' \in SessionState
  BY DEF RecTypeOK, BridgeTypeOK, Cancelled, AfterCancel, Enter, LastReport, SessionState

\* cancel() up to its Cancel call.
LEMMA CancelTyped ==
    ASSUME BusTypeOK, RecTypeOK, BridgeTypeOK, NEW reason \in CancelReasons,
           NEW tick \in BOOLEAN, Cancel(reason, tick)
    PROVE  calls' \in Seq(Call) /\ RecTypeOK' /\ BridgeTypeOK'
<1>1. CASE HasSession /\ token # NoTicket
  <2>1. calls' \in Seq(Call)
    BY <1>1, SendTyped DEF Cancel, BridgeTypeOK, Methods, Texts
  <2>2. wait' \in Waiting
    BY <1>1 DEF Cancel, BridgeTypeOK, NoWait, Waiting
  <2> QED BY <1>1, <2>1, <2>2 DEF Cancel, RecTypeOK, BridgeTypeOK
<1>2. CASE HasSession /\ token = NoTicket
  <2>1. last.ticket \in Tickets \cup {NoTicket}
    BY DEF BridgeTypeOK, LastReport
  <2>2. Cancelled(reason, last.ticket, tick)
    BY <1>2 DEF Cancel
  <2>3. /\ phase' \in {"idle", "connecting", "recording", "processing", "cancelling"}
        /\ overdue' \in BOOLEAN /\ ticking' \in BOOLEAN
        /\ last' \in LastReport /\ rec' \in SessionState
    BY <2>1, <2>2, CancelledTyped
  <2> QED BY <1>2, <2>3, WaitTyped DEF Cancel, BusTypeOK, RecTypeOK, BridgeTypeOK
<1>3. CASE ~HasSession
  BY <1>3, WaitTyped DEF Cancel, BusTypeOK, RecTypeOK, BridgeTypeOK
<1> QED BY <1>1, <1>2, <1>3

\* The end of event('done').
LEMMA FinishedTyped ==
    ASSUME RecTypeOK, BridgeTypeOK, NEW outcome \in Outcomes \cup CancelReasons \cup {None},
           NEW about \in Tickets \cup {NoTicket}, Finished(outcome, about)
    PROVE  /\ phase' \in {"idle", "connecting", "recording", "processing", "cancelling"}
           /\ overdue' \in BOOLEAN /\ token' \in Tickets \cup {NoTicket}
           /\ last' \in LastReport /\ rec' \in SessionState
<1>1. last' \in LastReport
  BY DEF BridgeTypeOK, Finished, LastReport
<1>2. rec' \in SessionState
  <2>1. NoSession \in SessionState
    BY DEF SessionState, NoSession
  <2>2. rec' \in {rec, NoSession}
    BY DEF Finished
  <2> QED BY <2>1, <2>2 DEF RecTypeOK
<1>3. overdue' \in BOOLEAN
  BY DEF BridgeTypeOK, Finished, Enter
<1>4. phase' \in {"idle", "connecting", "recording", "processing", "cancelling"}
  BY DEF BridgeTypeOK, Finished, Enter
<1>5. token' \in Tickets \cup {NoTicket}
  BY DEF BridgeTypeOK, Finished
<1> QED BY <1>1, <1>2, <1>3, <1>4, <1>5

\* event('done') from the outcome on.
LEMMA ReleaseTyped ==
    ASSUME BusTypeOK, RecTypeOK, BridgeTypeOK, NEW outcome \in Outcomes, Release(outcome),
           events' \in Seq(Event), UNCHANGED <<generation, holdGen, ticking>>
    PROVE  calls' \in Seq(Call) /\ RecTypeOK' /\ BridgeTypeOK'
<1>1. CASE GivesBack(outcome)
  <2>1. calls' \in Seq(Call)
    BY <1>1, SendTyped DEF Release, BridgeTypeOK, Methods, Texts
  <2>2. wait' \in Waiting
    BY <1>1 DEF Release, NoWait, Waiting
  <2> QED BY <1>1, <2>1, <2>2 DEF Release, RecTypeOK, BridgeTypeOK
<1>2. CASE ~GivesBack(outcome)
  <2>1. last.ticket \in Tickets \cup {NoTicket}
    BY DEF BridgeTypeOK, LastReport
  <2>2. Finished(outcome, last.ticket)
    BY <1>2 DEF Release
  <2>3. /\ phase' \in {"idle", "connecting", "recording", "processing", "cancelling"}
        /\ overdue' \in BOOLEAN /\ token' \in Tickets \cup {NoTicket}
        /\ last' \in LastReport /\ rec' \in SessionState
    BY <2>1, <2>2, FinishedTyped
  <2> QED BY <1>2, <2>3, WaitTyped DEF Release, BusTypeOK, RecTypeOK, BridgeTypeOK
<1> QED BY <1>1, <1>2

\* The time limits in tick().
LEMMA EnforceTyped ==
    ASSUME BusTypeOK, RecTypeOK, BridgeTypeOK, Enforce
    PROVE  calls' \in Seq(Call) /\ RecTypeOK' /\ BridgeTypeOK'
<1>1. CASE ~overdue
  BY <1>1, WaitTyped DEF Enforce, loopVars, recVars, BusTypeOK, RecTypeOK, BridgeTypeOK
<1>2. CASE overdue /\ phase = "recording"
  <2>1. Stop /\ ticking' \in BOOLEAN /\ wait' \in Waiting
        /\ UNCHANGED <<calls, token, generation, holdGen, last, events>>
    BY <1>2, WaitTyped, NotifyAssumption DEF Enforce
  <2> QED BY <2>1, StopTyped DEF BusTypeOK, RecTypeOK, BridgeTypeOK
<1>3. CASE overdue /\ phase # "recording"
  <2>1. Cancel("cancelled", TRUE)
    BY <1>3 DEF Enforce
  <2> QED BY <2>1, CancelTyped DEF CancelReasons
<1> QED BY <1>1, <1>2, <1>3 DEF BridgeTypeOK

\* What every step of the main loop keeps.
LoopTyped == calls \in Seq(Call) /\ signals \in Seq(Signal) /\ reply \in Reply \cup {NoReply}
             /\ RecTypeOK /\ BridgeTypeOK

\* A handler that returns early.
LEMMA UnchangedTyped ==
    ASSUME BusTypeOK, RecTypeOK, BridgeTypeOK, UNCHANGED <<calls, bridgeVars, recVars>>
    PROVE  calls' \in Seq(Call) /\ RecTypeOK' /\ BridgeTypeOK'
  BY DEF bridgeVars, loopVars, recVars, BusTypeOK, RecTypeOK, BridgeTypeOK

\* A handler that stops the recording and does nothing else but forget the hold.
LEMMA StopKeepsTypes ==
    ASSUME BusTypeOK, RecTypeOK, BridgeTypeOK, Stop,
           holdGen' \in {holdGen, NoHold},
           UNCHANGED <<calls, token, generation, last, ticking, wait, events>>
    PROVE  calls' \in Seq(Call) /\ RecTypeOK' /\ BridgeTypeOK'
  BY StopTyped DEF BusTypeOK, RecTypeOK, BridgeTypeOK

\* The Command method.
LEMMA CommandTyped ==
    ASSUME BusTypeOK, RecTypeOK, BridgeTypeOK,
           NEW command \in {"start", "stop", "toggle", "cancel"}, Command(command)
    PROVE  LoopTyped'
<1>1. \/ Start(NoField, FALSE) \/ StopNow \/ Cancel("cancelled", FALSE)
  BY DEF Command
<1>2. calls' \in Seq(Call) /\ RecTypeOK' /\ BridgeTypeOK'
  BY <1>1, StartTyped, StopKeepsTypes, CancelTyped DEF StopNow, CancelReasons
<1> QED BY <1>2 DEF Command, LoopTyped, BusTypeOK

\* The Shortcut and Invalidated handlers.
LEMMA HandleSignalTyped ==
    ASSUME BusTypeOK, RecTypeOK, BridgeTypeOK, HandleSignal
    PROVE  LoopTyped'
<1>1. Head(signals) \in Signal /\ signals' \in Seq(Signal)
  BY HeadTailProperties DEF HandleSignal, HandleShortcut, HandleInvalidated, BusTypeOK
<1>2. UNCHANGED reply
  BY DEF HandleSignal, HandleShortcut, HandleInvalidated
<1>3. calls' \in Seq(Call) /\ RecTypeOK' /\ BridgeTypeOK'
  <2>1. CASE HandleInvalidated
    <3>1. Cancel("invalidated", FALSE) \/ UNCHANGED <<calls, bridgeVars, recVars>>
      BY <2>1 DEF HandleInvalidated
    <3> QED BY <3>1, CancelTyped, UnchangedTyped DEF CancelReasons
  <2>2. CASE HandleShortcut
    <3> DEFINE context == Head(signals).context
               kept == UNCHANGED <<calls, token, generation, last, ticking, wait, events>>
    <3>1. context \in Fields \cup {NoField}
      BY <1>1 DEF Signal
    <3>2. \/ Start(context, TRUE) \/ Start(context, FALSE) \/ StopNow
          \/ Stop /\ holdGen' = NoHold /\ kept
          \/ Cancel("cancelled", FALSE)
          \/ HandsFree /\ kept /\ UNCHANGED <<phase, overdue, rec>>
          \/ UNCHANGED <<calls, bridgeVars, recVars>>
      BY <2>2 DEF HandleShortcut
    <3> HIDE DEF context
    <3>3. CASE Start(context, TRUE) \/ Start(context, FALSE)
      BY <3>1, <3>3, StartTyped
    <3>4. CASE StopNow \/ (Stop /\ holdGen' = NoHold /\ kept)
      BY <3>4, StopKeepsTypes DEF StopNow
    <3>5. CASE Cancel("cancelled", FALSE)
      BY <3>5, CancelTyped DEF CancelReasons
    <3>6. CASE HandsFree /\ kept /\ UNCHANGED <<phase, overdue, rec>>
      BY <3>6 DEF HandsFree, BusTypeOK, RecTypeOK, BridgeTypeOK
    <3>7. CASE UNCHANGED <<calls, bridgeVars, recVars>>
      BY <3>7, UnchangedTyped
    <3> QED BY <3>2, <3>3, <3>4, <3>5, <3>6, <3>7
  <2> QED BY <2>1, <2>2 DEF HandleSignal
<1> QED BY <1>1, <1>2, <1>3 DEF LoopTyped, BusTypeOK

\* The events of the recording session.
LEMMA HandleEventTyped ==
    ASSUME BusTypeOK, RecTypeOK, BridgeTypeOK, HandleEvent
    PROVE  LoopTyped'
<1>1. Head(events) \in Event /\ events' \in Seq(Event)
  BY HeadTailProperties
     DEF HandleEvent, DropEvent, HandleRecording, HandlePreview, HandleDone, Taking, RecTypeOK
<1>2. Head(events).text \in Texts
  BY <1>1 DEF Event, Texts, NoText, None
<1>3. CASE DropEvent
  BY <1>1, <1>3 DEF DropEvent, bridgeVars, loopVars, LoopTyped, BusTypeOK, RecTypeOK, BridgeTypeOK
<1>4. CASE HandleRecording
  BY <1>1, <1>4 DEF HandleRecording, Enter, LoopTyped, BusTypeOK, RecTypeOK, BridgeTypeOK
<1>5. CASE HandlePreview
  <2>1. calls' \in Seq(Call)
    BY <1>2, <1>5, SendTyped DEF HandlePreview, BusTypeOK, BridgeTypeOK, Methods
  <2>2. wait' \in Waiting
    BY <1>5, WaitTyped DEF HandlePreview, BridgeTypeOK
  <2> QED BY <1>1, <1>5, <2>1, <2>2
          DEF HandlePreview, loopVars, LoopTyped, BusTypeOK, RecTypeOK, BridgeTypeOK
<1>6. CASE HandleDone
  <2>1. CASE MayCommit(Head(events).text)
    <3>1. calls' \in Seq(Call)
      BY <1>2, <1>6, <2>1, SendTyped DEF HandleDone, BridgeTypeOK, Methods
    <3>2. wait' \in Waiting
      BY <1>6, <2>1, WaitTyped DEF HandleDone
    <3> QED BY <1>1, <1>6, <2>1, <3>1, <3>2
            DEF HandleDone, LoopTyped, BusTypeOK, RecTypeOK, BridgeTypeOK
  <2>2. CASE ~MayCommit(Head(events).text)
    <3>1. Release("no-final-result") /\ UNCHANGED <<reply, signals, generation, holdGen, ticking>>
      BY <1>6, <2>2 DEF HandleDone
    <3> QED BY <1>1, <3>1, ReleaseTyped DEF Outcomes, LoopTyped, BusTypeOK
  <2> QED BY <2>1, <2>2
<1> QED BY <1>3, <1>4, <1>5, <1>6 DEF HandleEvent

\* The handlers that go on with an answer.
LEMMA ResumeTyped ==
    ASSUME BusTypeOK, RecTypeOK, BridgeTypeOK, Resume
    PROVE  LoopTyped'
<1>1. reply # NoReply /\ reply' = NoReply /\ UNCHANGED signals
  BY DEF Resume, Answered, Started, CancelAnswered, PreviewAnswered, CommitAnswered,
         ReleaseAnswered, TickAnswered
<1>2. reply \in Reply
  BY <1>1 DEF BusTypeOK
<1>3. /\ wait.hold \in BOOLEAN /\ wait.tick \in BOOLEAN
      /\ wait.ticket \in Tickets \cup {NoTicket}
      /\ wait.outcome \in Outcomes \cup CancelReasons \cup {None}
  BY DEF BridgeTypeOK, Waiting
<1>4. calls' \in Seq(Call) /\ RecTypeOK' /\ BridgeTypeOK'
  <2>1. CASE Started
    <3>1. CASE reply.answer = "yes"
      <4>1. generation' \in Nat /\ generation' = generation + 1
        BY <2>1, <3>1 DEF Started, BridgeTypeOK
      <4>2. rec' \in SessionState
        BY <2>1, <3>1, <4>1, NewSessionTyped DEF Started
      <4>3. token' \in Tickets \cup {NoTicket}
        BY <1>2, <2>1, <3>1 DEF Started, Reply
      <4>4. holdGen' \in Nat \cup {NoHold}
        BY <2>1, <3>1, <4>1 DEF Started, HeldBy
      <4>5. phase' = "connecting" /\ overdue' = FALSE
        BY <2>1, <3>1 DEF Started, Enter
      <4> QED BY <2>1, <3>1, <4>1, <4>2, <4>3, <4>4, <4>5, WaitTyped
              DEF Started, BusTypeOK, RecTypeOK, BridgeTypeOK
    <3>2. CASE reply.answer # "yes"
      BY <2>1, <3>2, WaitTyped
         DEF Started, loopVars, recVars, BusTypeOK, RecTypeOK, BridgeTypeOK
    <3> QED BY <3>1, <3>2
  <2>2. CASE CancelAnswered
    <3>1. Cancelled(wait.outcome, wait.ticket, wait.tick)
      BY <2>2 DEF CancelAnswered
    <3>2. /\ phase' \in {"idle", "connecting", "recording", "processing", "cancelling"}
          /\ overdue' \in BOOLEAN /\ ticking' \in BOOLEAN
          /\ last' \in LastReport /\ rec' \in SessionState
      BY <1>3, <3>1, CancelledTyped
    <3> QED BY <2>2, <3>2, WaitTyped DEF CancelAnswered, BusTypeOK, RecTypeOK, BridgeTypeOK
  <2>3. CASE PreviewAnswered
    <3>1. \/ wait' = NoWait /\ UNCHANGED <<calls, loopVars, recVars>>
          \/ Cancel("cancelled", FALSE)
      BY <2>3 DEF PreviewAnswered
    <3>2. CASE wait' = NoWait /\ UNCHANGED <<calls, loopVars, recVars>>
      BY <3>2, WaitTyped DEF loopVars, recVars, BusTypeOK, RecTypeOK, BridgeTypeOK
    <3> QED BY <3>1, <3>2, CancelTyped DEF CancelReasons
  <2>4. CASE CommitAnswered
    <3>1. OutcomeOf(reply.answer) \in Outcomes
      BY DEF OutcomeOf, Outcomes
    <3>2. /\ Release(OutcomeOf(reply.answer)) /\ events' \in Seq(Event)
          /\ UNCHANGED <<generation, holdGen, ticking>>
      BY <2>4 DEF CommitAnswered, RecTypeOK
    <3> QED BY <3>1, <3>2, ReleaseTyped
  <2>5. CASE ReleaseAnswered
    <3>1. /\ phase' \in {"idle", "connecting", "recording", "processing", "cancelling"}
          /\ overdue' \in BOOLEAN /\ token' \in Tickets \cup {NoTicket}
          /\ last' \in LastReport /\ rec' \in SessionState
      BY <1>3, <2>5, FinishedTyped DEF ReleaseAnswered, BridgeTypeOK
    <3> QED BY <2>5, <3>1, WaitTyped DEF ReleaseAnswered, BusTypeOK, RecTypeOK, BridgeTypeOK
  <2>6. CASE TickAnswered
    <3>1. Enforce \/ Cancel("invalidated", TRUE)
      BY <2>6 DEF TickAnswered
    <3> QED BY <3>1, EnforceTyped, CancelTyped DEF CancelReasons
  <2> QED BY <2>1, <2>2, <2>3, <2>4, <2>5, <2>6 DEF Resume
<1> QED BY <1>1, <1>4 DEF LoopTyped, BusTypeOK

\* All that the main loop dispatches.
LEMMA LoopStepTyped ==
    ASSUME BusTypeOK, RecTypeOK, BridgeTypeOK, LoopStep
    PROVE  LoopTyped'
<1>1. CASE HandleSignal \/ HandleEvent \/ Resume
  BY <1>1, HandleSignalTyped, HandleEventTyped, ResumeTyped
<1>2. CASE Tick
  <2>1. calls' \in Seq(Call) /\ RecTypeOK' /\ BridgeTypeOK'
    <3>1. CASE token # NoTicket
      <4>1. calls' \in Seq(Call)
        BY <1>2, <3>1, SendTyped DEF Tick, BridgeTypeOK, Methods, Texts
      <4> QED BY <1>2, <3>1, <4>1, WaitTyped
              DEF Tick, loopVars, recVars, RecTypeOK, BridgeTypeOK
    <3>2. CASE token = NoTicket
      BY <1>2, <3>2, EnforceTyped DEF Tick
    <3> QED BY <3>1, <3>2
  <2> QED BY <1>2, <2>1 DEF Tick, LoopTyped, BusTypeOK
<1>3. CASE TimeUp
  BY <1>3 DEF TimeUp, recVars, LoopTyped, BusTypeOK, RecTypeOK, BridgeTypeOK
<1>4. CASE Shutdown
  <2>1. Cancel("cancelled", FALSE) /\ UNCHANGED <<reply, signals>>
    BY <1>4 DEF Shutdown
  <2> QED BY <2>1, CancelTyped DEF CancelReasons, LoopTyped, BusTypeOK
<1>5. ASSUME NEW command \in {"start", "stop", "toggle", "cancel"}, Command(command)
      PROVE  LoopTyped'
  BY <1>5, CommandTyped
<1> QED BY <1>1, <1>2, <1>3, <1>4, <1>5 DEF LoopStep

\* Timeouts, the end of the coordinator and its next start.
LEMMA BridgeFaultTyped ==
    ASSUME BusTypeOK, RecTypeOK, BridgeTypeOK, NameLeft, BridgeFault
    PROVE  BusTypeOK' /\ RecTypeOK' /\ BridgeTypeOK' /\ NameLeft'
<1>1. CASE CallTimeout
  <2>1. reply' \in Reply \cup {NoReply}
    BY <1>1 DEF CallTimeout, Reply, Answers
  <2>2. faults' \in 0..MaxFaults
    <3>1. faults < MaxFaults /\ faults' = faults + 1
      BY <1>1 DEF CallTimeout
    <3> QED BY <3>1, BusAssumption DEF BusTypeOK
  <2> QED BY <1>1, <2>1, <2>2, ForsakenTyped
          DEF CallTimeout, bridgeVars, loopVars, recVars, BusTypeOK, RecTypeOK, BridgeTypeOK, NameLeft
<1>2. CASE Exit
  <2>1. Message("gone", NoTicket, NoField, None) \in Call
    BY MessageTyped DEF Texts
  <2>2. [Message("gone", NoTicket, NoField, None) EXCEPT !.awaited = FALSE] \in Call
    BY <2>1 DEF Call
  <2>3. calls' \in Seq(Call)
    BY <1>2, <2>2, ForsakenTyped, AppendProperties DEF Exit
  <2>4. RecTypeOK' /\ BridgeTypeOK'
    <3>1. NoSession \in SessionState /\ NoLast \in LastReport /\ <<>> \in Seq(Event)
      BY DEF NoSession, SessionState, NoLast, LastReport
    <3> QED BY <1>2, <3>1, WaitTyped DEF Exit, BridgeReset, RecTypeOK, BridgeTypeOK
  <2>5. reply' = NoReply /\ signals' = <<>> /\ up' = FALSE /\ self < MaxStarts
        /\ UNCHANGED <<self, faults>>
    BY <1>2 DEF Exit
  <2>6. BusTypeOK' /\ NameLeft'
    <3>1. reply' \in Reply \cup {NoReply}
      BY <2>5
    <3>4. signals' \in Seq(Signal)
      BY <2>5, EmptySeq
    <3>5. up' \in BOOLEAN
      BY <2>5
    <3>2. self' \in 1..MaxStarts /\ faults' \in 0..MaxFaults
      BY <2>5 DEF BusTypeOK
    <3>3. NameLeft'
      BY <2>5 DEF NameLeft
    <3> QED BY <2>3, <3>1, <3>2, <3>3, <3>4, <3>5 DEF BusTypeOK
  <2> QED BY <2>4, <2>6
<1>3. CASE Restart
  BY <1>3, BusAssumption
     DEF Restart, bridgeVars, loopVars, recVars, BusTypeOK, RecTypeOK, BridgeTypeOK, NameLeft
<1> QED BY <1>1, <1>2, <1>3 DEF BridgeFault

-----------------------------------------------------------------------------

\* The initial states are typed.
LEMMA TypeInvInit == Init => TypeInv
<1> SUFFICES ASSUME Init PROVE TypeInv
  OBVIOUS
<1>1. BusTypeOK /\ NameLeft
  BY BusAssumption DEF Init, BusInit, BusTypeOK, NameLeft
<1>2. AddonTypeOK
  <2>1. hotkeys \in BOOLEAN
    <3>1. hotkeys = ("alt" \in Moves)
      BY DEF Init, AddonInit
    <3>2. CASE "alt" \in Moves
      BY <3>1, <3>2, Zenon
    <3>3. CASE ~("alt" \in Moves)
      BY <3>1, <3>3, SMT
    <3> QED BY <3>2, <3>3
  <2>2. nextTicket \in 1..(MaxTickets + 1)
    BY BusAssumption DEF Init, AddonInit
  <2>3. /\ focus \in Fields \cup {NoField} /\ sensitive \subseteq Fields
        /\ panel \in [Fields -> {"empty", "engine", "preview"}]
        /\ pending \in Delivery \cup {NoDelivery}
        /\ hot \in Hotkey /\ alt \in BOOLEAN /\ space \in {"up", "down", "taken"}
    BY HotkeyTyped DEF Init, AddonInit
  <2>4. /\ issued \in [Tickets -> Fields \cup {NoField}] /\ spoiled \subseteq Tickets
        /\ written \in [Tickets -> [Fields -> Nat]]
    BY DEF Init, AddonInit
  <2> QED BY <2>1, <2>2, <2>3, <2>4 DEF AddonTypeOK
<1>3. RecTypeOK /\ BridgeTypeOK
  <2>1. NoSession \in SessionState /\ NoLast \in LastReport /\ <<>> \in Seq(Event)
    BY DEF NoSession, SessionState, NoLast, LastReport
  <2> QED BY <2>1, WaitTyped DEF Init, BridgeInit, RecTypeOK, BridgeTypeOK
<1> QED BY <1>1, <1>2, <1>3 DEF TypeInv, TypeOK

\* Every step keeps the types.
LEMMA TypeInvStep == TypeInv /\ [Next]_vars => TypeInv'
<1> SUFFICES ASSUME TypeInv, [Next]_vars PROVE TypeInv'
  OBVIOUS
<1> USE DEF TypeInv, TypeOK
<1>1. CASE Addon
  <2>1. BusTypeOK' /\ AddonTypeOK'
    BY <1>1, UserTyped, ServeTyped, AddonFaultTyped DEF Addon
  <2>2. UNCHANGED <<self, up>>
    BY <1>1 DEF Addon, UserStep, Serve, AddonFault, AddonRestart, StrangerCall
  <2> QED BY <1>1, <2>1, <2>2
          DEF Addon, bridgeVars, loopVars, recVars, RecTypeOK, BridgeTypeOK, NameLeft
<1>2. CASE Bridge /\ LoopStep
  <2>1. LoopTyped' /\ UNCHANGED <<self, up, faults>>
    BY <1>2, LoopStepTyped DEF LoopStep
  <2>2. AddonTypeOK'
    BY <1>2 DEF Bridge, addonVars, fieldVars, hotVars, ghostVars, AddonTypeOK
  <2> QED BY <2>1, <2>2 DEF LoopTyped, BusTypeOK, NameLeft
<1>3. CASE Bridge /\ BridgeFault
  <2>1. AddonTypeOK'
    BY <1>3 DEF Bridge, addonVars, fieldVars, hotVars, ghostVars, AddonTypeOK
  <2> QED BY <1>3, <2>1, BridgeFaultTyped
<1>4. CASE Session
  <2>1. RecTypeOK'
    BY <1>4, SessionTyped DEF Session, SessionRuns
  <2> QED BY <1>4, <2>1
          DEF Session, SessionRuns, busVars, bridgeVars, loopVars, addonVars, fieldVars,
              hotVars, ghostVars, BusTypeOK, BridgeTypeOK, AddonTypeOK, NameLeft
<1>5. CASE UNCHANGED vars
  BY <1>5 DEF vars, busVars, bridgeVars, loopVars, addonVars, fieldVars, hotVars, ghostVars,
              recVars, BusTypeOK, RecTypeOK, BridgeTypeOK, AddonTypeOK, NameLeft
<1> QED BY <1>1, <1>2, <1>3, <1>4, <1>5 DEF Next, Bridge

\* Every variable keeps its type, and a coordinator that ended leaves a bus name
\* for the next one.
THEOREM TypeInvariant == Spec => []TypeInv
  BY TypeInvInit, TypeInvStep, PTL DEF Spec

\* Type correctness of the whole of voice input (the state of voice.cpp, daemon.py
\* and the recording session).
THEOREM TypeCorrect == Spec => []TypeOK
  BY TypeInvariant, PTL DEF TypeInv
=============================================================================
