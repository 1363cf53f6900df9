------------------------------ MODULE VoiceBus ------------------------------
(***************************************************************************)
(* What the Fcitx addon (fcitx5/voice.cpp) and the coordinator            *)
(* (bridge/daemon.py) share: the session bus.                              *)
(*                                                                         *)
(*   calls    method calls on their way to the addon, in the order the bus *)
(*            delivers them; "gone" stands for the NameOwnerChanged signal *)
(*            that follows the last message of a process that left        *)
(*   reply    the answer on its way to the call the coordinator blocks in  *)
(*   signals  Shortcut and Invalidated signals waiting for the             *)
(*            coordinator's main loop                                      *)
(*   self,up  the bus name of the coordinator process and whether it runs: *)
(*            every start connects under a new unique name                 *)
(*   faults   how many faults and strangers' calls have happened; MaxFaults *)
(*            bounds them                                                   *)
(***************************************************************************)
EXTENDS Integers, Sequences

CONSTANTS Fields,      \* input contexts of the desktop
          NoField,     \* no input context (an unset reference, no focus)
          MaxTickets,  \* tickets the addon can draw before getrandom fails
          MaxStarts,   \* coordinator processes that ever run
          MaxSignals,  \* signals that may wait for the main loop
          MaxFaults,   \* timeouts, restarts and strangers' calls together
          Moves        \* the kinds of steps the user takes

ASSUME BusAssumption ==
    /\ NoField \notin Fields
    /\ MaxTickets \in Nat
    /\ MaxStarts \in Nat \ {0}
    /\ MaxSignals \in Nat
    /\ MaxFaults \in Nat
    /\ Moves \subseteq {"alt", "space", "type", "modifier", "focus", "reset",
                        "sensitive", "config", "expire", "command", "shutdown"}

VARIABLES calls, reply, signals, self, up, faults
busVars == <<calls, reply, signals, self, up, faults>>

None == ""                        \* no text, reason, outcome, ...

NoTicket == 0
Tickets  == 1..MaxTickets
Stranger == 0                     \* any other program on the session bus
Senders  == 0..MaxStarts

\* A text is empty, one that safeText accepts, or one it refuses.
Texts == {None, "safe", "unsafe"}

Methods == {"Begin", "Valid", "Cancel", "Preview", "Commit"}
Call == [op : Methods \cup {"gone"}, from : Senders, ticket : Tickets \cup {NoTicket},
         context : Fields \cup {NoField}, text : Texts, awaited : BOOLEAN]

\* Answers of the addon and the GLib.Error of a call that got none.
Answers == {"yes", "no", "error"}
NoReply == [answer |-> "none", ticket |-> NoTicket]
Reply   == [answer : Answers, ticket : Tickets \cup {NoTicket}]

Reasons == {"typing", "sensitive-field", "input-context-changed", "new-dictation"}
Actions == {"hold-start", "hold-stop", "hold-cancel", "toggle"}
Signal  == [kind : Actions \cup {"invalidated"}, context : Fields \cup {NoField},
            ticket : Tickets \cup {NoTicket}, reason : Reasons \cup {None}]

\* Definitions named "...Faulty" are variants with a plausible bug; no specification
\* uses them, they are there to see which property notices.
ShortcutFaulty(action, field) ==      \* the two strings of the signal swapped
    [kind |-> field, context |-> action, ticket |-> NoTicket, reason |-> None]

Shortcut(action, field) ==
    [kind |-> action, context |-> field, ticket |-> NoTicket, reason |-> None]
Invalidated(ticket, reason) ==
    [kind |-> "invalidated", context |-> NoField, ticket |-> ticket, reason |-> reason]

\* Signals reach the coordinator that is connected when they are sent.
Emit(some) == signals' = IF up THEN signals \o some ELSE signals

\* A call of the running coordinator; it blocks until reply is set.
Message(op, ticket, context, text) ==
    [op |-> op, from |-> self, ticket |-> ticket, context |-> context,
     text |-> text, awaited |-> TRUE]
Send(op, ticket, context, text) ==
    calls' = Append(calls, Message(op, ticket, context, text))

\* The calls still travelling when nobody waits for them any more.
Forsaken == [i \in 1..Len(calls) |-> [calls[i] EXCEPT !.awaited = FALSE]]

BusInit ==
    /\ calls = <<>> /\ reply = NoReply /\ signals = <<>>
    /\ self = 1 /\ up = TRUE /\ faults = 0

BusTypeOK ==
    /\ calls \in Seq(Call)
    /\ reply \in Reply \cup {NoReply}
    /\ signals \in Seq(Signal)
    /\ self \in 1..MaxStarts
    /\ up \in BOOLEAN
    /\ faults \in 0..MaxFaults
=============================================================================
