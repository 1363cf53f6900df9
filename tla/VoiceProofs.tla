---------------------------- MODULE VoiceProofs -----------------------------
(***************************************************************************)
(* Voice input delivers text as a giver of single-use grants does: every   *)
(* step of VoiceSystem is a step of DeliveryGrant or leaves it alone.      *)
(* What DeliveryGrant keeps is thereby kept by voice input, for any number *)
(* of fields, tickets, processes, signals and faults.                      *)
(***************************************************************************)
EXTENDS VoiceTypeProofs

\* Tickets are drawn in order: none from nextTicket on was given out.
TicketsAhead == \A t \in Tickets : t >= nextTicket => issued[t] = NoField

RefInv == TypeInv /\ TicketsAhead

\* No ticket is given out at first.
LEMMA RefInvInit == Init => RefInv
  BY TypeInvInit DEF RefInv, TicketsAhead, Init, AddonInit

\* Tickets are given out one at a time, by begin() only.
LEMMA IssuedOrNot ==
    ASSUME [Next]_vars
    PROVE  \/ UNCHANGED <<nextTicket, issued>>
           \/ /\ nextTicket' = nextTicket + 1
              /\ issued' = [issued EXCEPT ![nextTicket] = focus]
<1>1. CASE Addon /\ Serve
  BY <1>1 DEF Serve, ServeBegin, ServeValid, ServeCancel, ServePreview, ServeCommit, ServeGone
<1>2. CASE Addon /\ UserStep
  BY <1>2 DEF UserStep
<1>3. CASE Addon /\ AddonFault
  BY <1>3 DEF AddonFault, AddonRestart, StrangerCall, addonVars, ghostVars
<1>4. CASE Bridge \/ Session \/ UNCHANGED vars
  BY <1>4 DEF Bridge, Session, vars, addonVars, ghostVars
<1> QED BY <1>1, <1>2, <1>3, <1>4 DEF Next, Addon

\* Every step keeps the tickets ahead unissued.
LEMMA RefInvStep == RefInv /\ [Next]_vars => RefInv'
<1> SUFFICES ASSUME RefInv, [Next]_vars PROVE RefInv'
  OBVIOUS
<1>1. TypeInv'
  BY TypeInvStep DEF RefInv
<1>2. TicketsAhead'
  <2>1. nextTicket \in Nat /\ issued \in [Tickets -> Fields \cup {NoField}]
    BY BusAssumption DEF RefInv, TypeInv, TypeOK, AddonTypeOK
  <2>2. CASE UNCHANGED <<nextTicket, issued>>
    BY <2>2 DEF RefInv, TicketsAhead
  <2>3. CASE /\ nextTicket' = nextTicket + 1
             /\ issued' = [issued EXCEPT ![nextTicket] = focus]
    <3>1. ASSUME NEW t \in Tickets, t >= nextTicket' PROVE issued'[t] = NoField
      <4>1. t \in Nat /\ t > nextTicket
        BY <2>1, <2>3, <3>1 DEF Tickets
      <4>2. issued[t] = NoField
        BY <2>1, <4>1 DEF RefInv, TicketsAhead
      <4> QED BY <2>1, <2>3, <4>1, <4>2
    <3> QED BY <3>1 DEF TicketsAhead
  <2> QED BY <2>2, <2>3, IssuedOrNot
<1> QED BY <1>1, <1>2 DEF RefInv

\* The types and the unissued tickets ahead (begin() of voice.cpp) are an invariant.
THEOREM RefInvariant == Spec => []RefInv
  BY RefInvInit, RefInvStep, PTL DEF Spec

-----------------------------------------------------------------------------
(* The step simulation. *)

GrantOf == [ticket |-> pending.ticket, field |-> pending.field]

\* No pending delivery is no grant; a pending one is about a field.
LEMMA GrantForm ==
    ASSUME TypeInv
    PROVE  /\ pending = NoDelivery => GrantOf = Grant!NoGrant
           /\ pending # NoDelivery => pending.ticket \in Tickets /\ pending.field \in Fields
           /\ pending.ticket = NoTicket <=> pending = NoDelivery
<1>1. pending \in Delivery \cup {NoDelivery}
  BY DEF TypeInv, TypeOK, AddonTypeOK
<1>2. pending # NoDelivery => pending.ticket \in Tickets /\ pending.field \in Fields
  BY <1>1 DEF Delivery
<1>3. pending = NoDelivery => pending.ticket = NoTicket /\ GrantOf = Grant!NoGrant
  BY DEF NoDelivery, NoTicket, GrantOf, Grant!NoGrant
<1>4. NoTicket \notin Tickets
  BY DEF NoTicket, Tickets
<1> QED BY <1>2, <1>3, <1>4

\* The abstract step that a disturbed field is.
LEMMA DisturbStep ==
    ASSUME TypeInv, NEW field \in Fields, Spoil(field), UNCHANGED <<issued, written>>,
           pending' = IF Concerns(field) THEN NoDelivery ELSE pending
    PROVE  Grant!Disturb({field})
<1>1. spoiled' = spoiled \cup {t \in Grant!Tickets : issued[t] \in {field}}
  BY DEF Spoil, Grant!Tickets, Tickets
<1>2. CASE Concerns(field)
  <2>1. GrantOf' = Grant!NoGrant
    BY <1>2 DEF NoDelivery, NoTicket, GrantOf, Grant!NoGrant
  <2>2. GrantOf.field \in {field}
    BY <1>2 DEF Concerns, GrantOf
  <2> QED BY <1>1, <2>1, <2>2 DEF GrantOf, Grant!Disturb
<1>3. CASE ~Concerns(field)
  <2>1. GrantOf' = GrantOf
    BY <1>3 DEF GrantOf
  <2>2. GrantOf.field \notin {field}
    <3>1. CASE pending = NoDelivery
      BY <3>1, BusAssumption DEF GrantOf, NoDelivery
    <3>2. CASE pending # NoDelivery
      BY <1>3, <3>2, GrantForm DEF Concerns, GrantOf
    <3> QED BY <3>1, <3>2
  <2> QED BY <1>1, <2>1, <2>2 DEF GrantOf, Grant!Disturb
<1> QED BY <1>2, <1>3

\* The abstract step that losing the pending delivery is.
LEMMA EndStep ==
    ASSUME pending' = NoDelivery, UNCHANGED ghostVars
    PROVE  Grant!End
<1>1. GrantOf' = Grant!NoGrant
  BY DEF NoDelivery, NoTicket, GrantOf, Grant!NoGrant
<1> QED BY <1>1 DEF GrantOf, ghostVars, Grant!End

\* A step of DeliveryGrant, or one it does not see.
Simulated == [Grant!Next]_(Grant!grantVars)

\* A step that disturbs one field is a step of the grant.
LEMMA DisturbSimulated ==
    ASSUME TypeInv, NEW field \in Fields, Spoil(field), UNCHANGED <<issued, written>>,
           pending' = IF Concerns(field) THEN NoDelivery ELSE pending
    PROVE  Simulated
<1>1. Grant!Disturb({field}) /\ {field} \in SUBSET Fields
  BY DisturbStep
<1> QED BY <1>1 DEF Simulated, Grant!Next

\* A step that at most drops the delivery is End or a stutter.
LEMMA EndSimulated ==
    ASSUME pending' \in {pending, NoDelivery}, UNCHANGED ghostVars PROVE Simulated
<1>1. CASE pending' = NoDelivery
  BY <1>1, EndStep DEF Simulated, Grant!Next
<1>2. CASE pending' = pending
  BY <1>2 DEF Simulated, ghostVars, Grant!grantVars
<1> QED BY <1>1, <1>2

\* Keys, field events and expiry disturb a field, end the grant or are not seen.
LEMMA UserSimulated ==
    ASSUME TypeInv, UserStep PROVE Simulated
<1>1. UNCHANGED <<issued, written>>
  BY DEF UserStep
<1>2. ASSUME NEW composition, Typed(composition) PROVE Simulated
  <2>1. focus \in Fields
    BY <1>2 DEF Typed, TypeInv, TypeOK, AddonTypeOK
  <2>2. /\ Spoil(focus)
        /\ pending' = IF Concerns(focus) THEN NoDelivery ELSE pending
    BY <1>2 DEF Typed
  <2> QED BY <1>1, <2>1, <2>2, DisturbSimulated
<1>3. ASSUME NEW field \in Fields, Disturbed(field) PROVE Simulated
  <2>1. /\ Spoil(field)
        /\ pending' = IF Concerns(field) THEN NoDelivery ELSE pending
    BY <1>3 DEF Disturbed
  <2> QED BY <1>1, <2>1, DisturbSimulated
<1>4. CASE pending' \in {pending, NoDelivery} /\ UNCHANGED spoiled
  BY <1>1, <1>4, EndSimulated DEF ghostVars
<1>5. ASSUME NEW field \in Fields, ToggleSensitive(field) PROVE Simulated
  <2>1. CASE field \in sensitive
    BY <1>4, <1>5, <2>1 DEF ToggleSensitive
  <2>2. CASE field \notin sensitive
    <3>1. /\ Spoil(field)
          /\ pending' = IF Concerns(field) THEN NoDelivery ELSE pending
      BY <1>5, <2>2 DEF ToggleSensitive
    <3> QED BY <1>1, <3>1, DisturbSimulated
  <2> QED BY <2>1, <2>2
<1>6. CASE Expire
  <2>1. GrantOf' = GrantOf
    BY <1>6, GrantForm DEF Expire, GrantOf, TypeInv, TypeOK, AddonTypeOK, Delivery, NoDelivery
  <2> QED BY <1>1, <1>6, <2>1 DEF Expire, GrantOf, Simulated, Grant!grantVars
<1>7. ASSUME NEW field \in Fields \cup {NoField}, ChangeFocus(field) PROVE Simulated
  <2>1. focus \in Fields \cup {NoField}
    BY DEF TypeInv, TypeOK, AddonTypeOK
  <2> QED BY <1>3, <1>4, <1>7, <2>1 DEF ChangeFocus
<1>8. ASSUME NEW mods, SpacePress(mods) PROVE Simulated
  BY <1>2, <1>4, <1>8 DEF SpacePress
<1>9. CASE HoldTimer \/ AltRelease \/ ModifierPress \/ SpaceRelease
  BY <1>4, <1>9 DEF HoldTimer, AltRelease, ModifierPress, SpaceRelease
<1>10. ASSUME NEW mods, AltPress(mods) PROVE Simulated
  BY <1>4, <1>10 DEF AltPress
<1>11. ASSUME NEW on, ReloadConfig(on) PROVE Simulated
  BY <1>4, <1>11 DEF ReloadConfig
<1>12. CASE TypeKey \/ \E field \in Fields : FieldReset(field)
  BY <1>2, <1>3, <1>12 DEF TypeKey, FieldReset
<1> QED BY <1>5, <1>6, <1>7, <1>8, <1>9, <1>10, <1>11, <1>12 DEF UserStep

\* Begin grants, an accepted Commit delivers, the other calls end the grant or are
\* not seen.
LEMMA ServeSimulated ==
    ASSUME RefInv, Serve PROVE Simulated
<1>1. UNCHANGED spoiled
  BY DEF Serve
<1>2. CASE pending' \in {pending, NoDelivery} /\ UNCHANGED <<issued, written>>
  BY <1>1, <1>2, EndSimulated DEF ghostVars
<1>3. CASE ServeBegin
  <2>1. CASE /\ nextTicket \in Tickets /\ Asked(Head(calls))
             /\ pending' = [NoDelivery EXCEPT !.ticket = nextTicket,
                                       !.sender = Head(calls).from, !.field = focus]
             /\ issued' = [issued EXCEPT ![nextTicket] = focus]
    <3>1. focus \in Fields
      BY <2>1 DEF Asked, Eligible, RefInv, TypeInv, TypeOK, AddonTypeOK
    <3>2. issued[nextTicket] = NoField
      <4>1. nextTicket >= nextTicket
        BY <2>1, BusAssumption DEF Tickets
      <4> QED BY <2>1, <4>1 DEF RefInv, TicketsAhead
    <3>3. GrantOf' = [ticket |-> nextTicket, field |-> focus]
      BY <2>1 DEF GrantOf, NoDelivery
    <3>4. nextTicket \in Grant!Tickets
      BY <2>1 DEF Tickets, Grant!Tickets
    <3>5. Grant!Begin(nextTicket, focus)
      BY <1>1, <1>3, <2>1, <3>2, <3>3 DEF GrantOf, ServeBegin, Grant!Begin
    <3> QED BY <3>1, <3>4, <3>5 DEF Simulated, Grant!Next
  <2>2. CASE pending' \in {pending, NoDelivery} /\ UNCHANGED issued
    BY <1>2, <1>3, <2>2 DEF ServeBegin
  <2> QED BY <1>3, <2>1, <2>2 DEF ServeBegin
<1>4. CASE ServeValid \/ ServeCancel \/ ServeGone
  BY <1>2, <1>4 DEF ServeValid, ServeCancel, ServeGone
<1>5. CASE ServePreview
  <2>1. GrantOf' = GrantOf
    BY <1>5, GrantForm
       DEF ServePreview, GrantOf, RefInv, TypeInv, TypeOK, AddonTypeOK, Delivery, NoDelivery
  <2> QED BY <1>1, <1>5, <2>1 DEF ServePreview, GrantOf, Simulated, Grant!grantVars
<1>6. CASE ServeCommit
  <2>1. CASE Owned(Head(calls)) /\ Accepts(Head(calls))
    <3>1. pending # NoDelivery
      BY <2>1, GrantForm DEF Owned, RefInv
    <3>2. pending.ticket \in Tickets /\ pending.field \in Fields
      BY <3>1, GrantForm DEF RefInv
    <3>3. GrantOf # Grant!NoGrant /\ GrantOf' = Grant!NoGrant
      <4>1. GrantOf.ticket # 0
        BY <2>1 DEF Owned, GrantOf, NoTicket
      <4>2. pending' = NoDelivery
        BY <1>6, <2>1 DEF ServeCommit, Consumed
      <4> QED BY <4>1, <4>2 DEF GrantOf, NoDelivery, NoTicket, Grant!NoGrant
    <3>4. written' = [written EXCEPT ![GrantOf.ticket][GrantOf.field] = @ + 1]
      BY <1>6, <2>1 DEF ServeCommit, Owned, GrantOf
    <3>5. Grant!Deliver
      BY <1>1, <1>6, <3>3, <3>4 DEF ServeCommit, GrantOf, Grant!Deliver
    <3> QED BY <3>5 DEF Simulated, Grant!Next
  <2>2. CASE ~(Owned(Head(calls)) /\ Accepts(Head(calls)))
    BY <1>2, <1>6, <2>2 DEF ServeCommit, Consumed
  <2> QED BY <2>1, <2>2
<1> QED BY <1>3, <1>4, <1>5, <1>6 DEF Serve

\* A restart of Fcitx disturbs every field.
LEMMA AddonFaultSimulated ==
    ASSUME TypeInv, AddonFault PROVE Simulated
<1>1. CASE AddonRestart
  <2>1. spoiled' = spoiled \cup {t \in Grant!Tickets : issued[t] \in Fields}
    BY <1>1, BusAssumption
       DEF AddonRestart, TypeInv, TypeOK, AddonTypeOK, Tickets, Grant!Tickets
  <2>2. GrantOf' = Grant!NoGrant
    BY <1>1 DEF AddonRestart, GrantOf, NoDelivery, NoTicket, Grant!NoGrant
  <2>3. GrantOf.field \notin Fields => GrantOf = Grant!NoGrant
    BY GrantForm DEF GrantOf
  <2>4. Grant!Disturb(Fields)
    BY <1>1, <2>1, <2>2, <2>3 DEF AddonRestart, GrantOf, Grant!Disturb
  <2> QED BY <2>4 DEF Simulated, Grant!Next
<1>2. CASE UNCHANGED addonVars
  BY <1>2, EndSimulated DEF addonVars
<1> QED BY <1>1, <1>2 DEF AddonFault, StrangerCall

\* Every step of voice input.
LEMMA StepSimulated ==
    ASSUME RefInv, [Next]_vars PROVE Simulated
<1>1. CASE Addon
  BY <1>1, UserSimulated, ServeSimulated, AddonFaultSimulated DEF Addon, RefInv
<1>2. CASE Bridge \/ Session \/ UNCHANGED vars
  <2>1. UNCHANGED addonVars
    BY <1>2 DEF Bridge, Session, vars
  <2> QED BY <2>1, EndSimulated DEF addonVars
<1> QED BY <1>1, <1>2 DEF Next

\* Voice input starts without a grant.
LEMMA InitSimulated == Init => Grant!Init
  BY DEF Init, AddonInit, NoDelivery, NoTicket, Tickets, Grant!Init, Grant!NoGrant, Grant!Tickets

\* The dictation addon gives single-use grants, whatever keys, field events, calls,
\* timeouts and restarts do (voice.cpp: the one Delivery).
THEOREM VoiceImplementsGrant == Spec => ImplementsGrant
<1>1. RefInv /\ [Next]_vars => [Grant!Next]_(Grant!grantVars)
  BY StepSimulated DEF Simulated
<1> QED BY <1>1, InitSimulated, RefInvariant, PTL DEF Spec, ImplementsGrant, Grant!Spec

-----------------------------------------------------------------------------
(* What the grant promises, said of voice input. *)

GrantFacts == INSTANCE DeliveryGrantProofs
                  WITH grant <- [ticket |-> pending.ticket, field |-> pending.field]

\* The same for the copy of the grant that carries the theorems.
LEMMA SpecIsGrantSpec == Spec => GrantFacts!Spec
<1>1. RefInv /\ [Next]_vars => [GrantFacts!Next]_(GrantFacts!grantVars)
  BY StepSimulated
     DEF Simulated, Grant!Next, Grant!Begin, Grant!End, Grant!Deliver, Grant!Disturb,
         Grant!grantVars, Grant!NoGrant, Grant!Tickets, GrantFacts!Next, GrantFacts!Begin,
         GrantFacts!End, GrantFacts!Deliver, GrantFacts!Disturb, GrantFacts!grantVars,
         GrantFacts!NoGrant, GrantFacts!Tickets
<1>2. Init => GrantFacts!Init
  BY InitSimulated
     DEF Grant!Init, Grant!NoGrant, Grant!Tickets, GrantFacts!Init, GrantFacts!NoGrant,
         GrantFacts!Tickets
<1> QED BY <1>1, <1>2, RefInvariant, PTL DEF Spec, GrantFacts!Spec

\* Its assumption is one of the bus.
LEMMA GrantAssumptionHolds == GrantFacts!GrantAssumption
  BY BusAssumption DEF GrantFacts!GrantAssumption

\* A ticket delivers at most once and only into the field it was begun in, whatever
\* program calls the addon and whatever is lost or late on the bus.
THEOREM DeliveryOnce == Spec => []DeliveredOnceWhereBegun
<1>1. GrantFacts!OnceWhereGranted => DeliveredOnceWhereBegun
  BY DEF GrantFacts!OnceWhereGranted, GrantFacts!Tickets, DeliveredOnceWhereBegun, Tickets
<1> QED BY <1>1, SpecIsGrantSpec, GrantAssumptionHolds, GrantFacts!GrantedOnce, PTL

\* No step delivers on a ticket whose field was typed in, left, reset or made
\* sensitive since the dictation began.
THEOREM DeliveryUndisturbed == Spec => DeliversUndisturbed
<1>1. [\A t \in GrantFacts!Tickets : written'[t] # written[t] => t \notin spoiled]_(GrantFacts!grantVars)
         => [\A t \in Tickets : Delivers(t) => t \notin spoiled]_vars
  BY DEF Tickets, GrantFacts!Tickets, Delivers, GrantFacts!grantVars
<1>2. Spec => GrantFacts!Undisturbed
  BY SpecIsGrantSpec, GrantAssumptionHolds, GrantFacts!GrantUndisturbed, PTL
<1> QED BY <1>1, <1>2, PTL DEF GrantFacts!Undisturbed, DeliversUndisturbed
=============================================================================
