--------------------------- MODULE DeliveryGrant ----------------------------
(***************************************************************************)
(* What the dictation addon promises ("a single-use capability for the     *)
(* focused field", fcitx5/voice.cpp), without keys, previews or the bus:   *)
(* at most one grant exists at a time, it was given for one field, it ends *)
(* when that field is disturbed, and delivering text uses it up.           *)
(*                                                                         *)
(*   grant    the ticket that may deliver and its field                    *)
(*   issued   the field every ticket was granted for                       *)
(*   spoiled  tickets whose field was disturbed since                      *)
(*   written  how often each ticket delivered into each field              *)
(***************************************************************************)
EXTENDS Naturals

CONSTANTS Fields, NoField, MaxTickets

\* What is assumed of them; VoiceBus states it of its own constants (BusAssumption).
GrantAssumption == NoField \notin Fields /\ MaxTickets \in Nat

VARIABLES grant, issued, spoiled, written
grantVars == <<grant, issued, spoiled, written>>

Tickets == 1..MaxTickets
NoGrant == [ticket |-> 0, field |-> NoField]

Init ==
    /\ grant = NoGrant
    /\ issued = [t \in Tickets |-> NoField]
    /\ spoiled = {}
    /\ written = [t \in Tickets |-> [f \in Fields |-> 0]]

\* A new ticket takes the place of the old one.
Begin(t, f) ==
    /\ issued[t] = NoField
    /\ grant' = [ticket |-> t, field |-> f]
    /\ issued' = [issued EXCEPT ![t] = f]
    /\ UNCHANGED <<spoiled, written>>

\* The grant is withdrawn.
End == grant' = NoGrant /\ UNCHANGED <<issued, spoiled, written>>

\* Fields are typed in, left, reset or made sensitive.
Disturb(some) ==
    /\ spoiled' = spoiled \cup {t \in Tickets : issued[t] \in some}
    /\ grant' = IF grant.field \in some THEN NoGrant ELSE grant
    /\ UNCHANGED <<issued, written>>

Deliver ==
    /\ grant # NoGrant
    /\ grant' = NoGrant
    /\ written' = [written EXCEPT ![grant.ticket][grant.field] = @ + 1]
    /\ UNCHANGED <<issued, spoiled>>

Next ==
    \/ \E t \in Tickets, f \in Fields : Begin(t, f)
    \/ End \/ Deliver
    \/ \E some \in SUBSET Fields : Disturb(some)

Spec == Init /\ [][Next]_grantVars

-----------------------------------------------------------------------------

GrantTypeOK ==
    /\ grant \in [ticket : Tickets, field : Fields] \cup {NoGrant}
    /\ issued \in [Tickets -> Fields \cup {NoField}]
    /\ spoiled \subseteq Tickets
    /\ written \in [Tickets -> [Fields -> Nat]]

\* A ticket delivers at most once, and only into its own field.
OnceWhereGranted ==
    \A t \in Tickets, f \in Fields : written[t][f] <= IF f = issued[t] THEN 1 ELSE 0

\* Nothing is delivered on a ticket whose field was disturbed.
Undisturbed ==
    [][\A t \in Tickets : written'[t] # written[t] => t \notin spoiled]_grantVars
=============================================================================
