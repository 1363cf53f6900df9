---------------------------- MODULE VoiceSystem -----------------------------
(***************************************************************************)
(* Voice input as a whole: the user and the dictation addon inside Fcitx,  *)
(* the coordinator and its recording session, over the session bus.        *)
(***************************************************************************)
EXTENDS DictationAddon, VoiceBridge

vars == <<busVars, addonVars, bridgeVars, recVars>>

Init == BusInit /\ AddonInit /\ BridgeInit

\* The steps of the two processes and of the recording thread.
Addon   == (UserStep \/ Serve \/ AddonFault) /\ UNCHANGED <<bridgeVars, recVars>>
Bridge  == (LoopStep \/ BridgeFault) /\ UNCHANGED addonVars
Session == SessionRuns /\ UNCHANGED addonVars

Next == Addon \/ Bridge \/ Session
Spec == Init /\ [][Next]_vars

\* Fcitx answers its calls; GLib dispatches every source that stays ready, and
\* signals and timers before the idle callbacks the session events are; the
\* session thread reacts to its flags and reaps its processes (it waits for
\* the provider of its own accord, so only cancel makes it decide).
Fairness ==
    /\ WF_vars(Addon /\ Serve)
    /\ WF_vars(Bridge /\ Resume)
    /\ WF_vars(Bridge /\ TimeUp)
    /\ SF_vars(Bridge /\ HandleSignal)
    /\ SF_vars(Bridge /\ HandleEvent)
    /\ SF_vars(Bridge /\ Tick)
    /\ WF_vars(Session /\ OpenMic)
    /\ WF_vars(Session /\ rec.cancel /\ Decide(NoText))
    /\ WF_vars(Session /\ (Stopping \/ rec.thread = "decided") /\ CloseMic)
    /\ SF_vars(Session /\ PostDone)

FairSpec == Spec /\ Fairness

-----------------------------------------------------------------------------

TypeOK == BusTypeOK /\ AddonTypeOK /\ RecTypeOK /\ BridgeTypeOK

\* A ticket delivers at most once, and only into the field that was focused when
\* it was begun (voice.cpp: one Delivery, moved out by commit).
DeliveredOnceWhereBegun ==
    \A t \in Tickets, f \in Fields :
        written[t][f] <= IF f = issued[t] THEN 1 ELSE 0

\* Nothing is delivered into a field the user has typed in, left, reset or made
\* sensitive since the dictation began, however the key press and the Commit
\* call were ordered on the way to the addon.
Delivers(t) == written'[t] # written[t]
DeliversUndisturbed ==
    [][\A t \in Tickets : Delivers(t) => t \notin spoiled]_vars

\* The preview shows only in the field of a living ticket that put it there: every
\* way a ticket can end takes its preview along.
PreviewOwned ==
    \A f \in Fields : panel[f] = "preview" => pending.field = f /\ pending.preview

\* A recording that was started by holding Right Alt goes on only while the key is
\* down, or while what ends it is on its way: a signal, or the ticket is gone and
\* the next tick finds out.
HoldEnds ==
    Held /\ Capturing /\ wait.for = None =>
        \/ alt
        \/ pending.ticket # token
        \/ \E i \in 1..Len(signals) :
              signals[i].kind \in {"hold-stop", "hold-cancel", "toggle"}

\* A session the coordinator still refers to always has a way back to idle: its
\* thread lives, its done event waits, or the handler of done is under way.
WayBack ==
    HasSession => \/ rec.thread \in {"running", "decided"}
                  \/ \E i \in 1..Len(events) : events[i].kind = "done" /\ events[i].gen = generation
                  \/ wait.for \in {"commit", "release"}

\* The microphone is closed before the outcome of a session is reported.
SilentWhenDone ==
    wait.for \in {"commit", "release"} \/ (\E i \in 1..Len(events) : events[i].kind = "done")
        => ~Recording

\* The events that wait are those of the present session, and done is the last.
EventsInOrder ==
    \A i \in 1..Len(events) :
        /\ events[i].gen = generation
        /\ events[i].kind = "done" => i = Len(events)

\* What Status and the notification say of the last dictation is what happened.
ReportAgrees ==
    last.ticket # NoTicket =>
        (last.outcome = "committed" <=> \E f \in Fields : written[last.ticket][f] = 1)

\* "Nothing was entered this time" (the notification of event('done')) is never said
\* of a dictation whose text reached the field.
DenialIsTrue ==
    last.outcome \in Outcomes \ {"committed"} /\ last.ticket # NoTicket =>
        \A f \in Fields : written[last.ticket][f] = 0

\* A dictation asked for by a shortcut in a field begins in that field or not at
\* all, wherever the focus went before the call was served.
StartsWhereAsked ==
    wait.for = "start" /\ wait.context # NoField /\ reply.answer = "yes" =>
        issued[reply.ticket] = wait.context

\* When the coordinator is idle and nothing travels, no ticket is left behind in
\* the addon (it would swallow an Escape).
NoStrayTicket ==
    up /\ phase = "idle" /\ wait.for = None /\ calls = <<>> => pending.sender # self \/ pending = NoDelivery

\* The release of a Space is captured only when its press was (voice.cpp: "Keep an
\* already captured Space release paired with its press").
SpacePaired == hot.space => space = "taken"

\* Every dictation ends: the limits of the phases, enforced by the tick, bring the
\* coordinator back to idle whatever the user, the session or the addon does.
DictationEnds == phase # "idle" ~> phase = "idle"

\* The microphone never stays open.
MicCloses == Recording ~> ~Recording

\* The addon as a giver of single-use grants.
Grant == INSTANCE DeliveryGrant
             WITH grant <- [ticket |-> pending.ticket, field |-> pending.field]
ImplementsGrant == Grant!Spec
=============================================================================
