------------------------ MODULE DeliveryGrantProofs -------------------------
(***************************************************************************)
(* What every giver of single-use grants keeps, for any set of fields and  *)
(* any number of tickets.                                                  *)
(***************************************************************************)
EXTENDS DeliveryGrant, TLAPS

\* A ticket that may still deliver is issued for the field of the grant, its
\* field was not disturbed, and it has delivered nothing.
LiveGrant ==
    grant # NoGrant =>
        /\ issued[grant.ticket] = grant.field
        /\ grant.ticket \notin spoiled
        /\ \A f \in Fields : written[grant.ticket][f] = 0

\* A ticket that was never issued is neither spoiled nor used.
Untouched ==
    \A t \in Tickets : issued[t] = NoField =>
        /\ t \notin spoiled
        /\ \A f \in Fields : written[t][f] = 0

GrantInv == GrantTypeOK /\ LiveGrant /\ Untouched /\ OnceWhereGranted

\* Nothing is granted, spoiled or written at first.
LEMMA GrantInvInit == ASSUME GrantAssumption PROVE Init => GrantInv
  BY DEF GrantAssumption, Init, GrantInv, GrantTypeOK, LiveGrant, Untouched, OnceWhereGranted,
     NoGrant, Tickets

\* A ticket with its field is never mistaken for no grant.
LEMMA NoGrantApart ==
    ASSUME GrantAssumption
    PROVE  \A t \in Tickets, f \in Fields : [ticket |-> t, field |-> f] # NoGrant
  BY DEF GrantAssumption, NoGrant, Tickets

\* Each step keeps the invariant: Begin takes a ticket nobody has used, Deliver
\* uses the grant up, Disturb takes it away.
LEMMA GrantInvStep ==
    ASSUME GrantAssumption
    PROVE  GrantInv /\ [Next]_grantVars => GrantInv'
<1> SUFFICES ASSUME GrantInv, [Next]_grantVars PROVE GrantInv'
  OBVIOUS
<1> USE DEF GrantAssumption, GrantInv, GrantTypeOK
<1>1. ASSUME NEW t \in Tickets, NEW f \in Fields, Begin(t, f) PROVE GrantInv'
  <2>1. GrantTypeOK'
    BY <1>1 DEF Begin
  <2>2. LiveGrant' /\ Untouched' /\ OnceWhereGranted'
    BY <1>1, NoGrantApart DEF Begin, LiveGrant, Untouched, OnceWhereGranted
  <2> QED BY <2>1, <2>2
<1>2. CASE End
  BY <1>2 DEF End, LiveGrant, Untouched, OnceWhereGranted
<1>3. CASE Deliver
  <2>1. /\ grant.ticket \in Tickets /\ grant.field \in Fields
        /\ issued[grant.ticket] = grant.field
        /\ \A f \in Fields : written[grant.ticket][f] = 0
    BY <1>3 DEF Deliver, LiveGrant
  <2>2. GrantTypeOK'
    BY <1>3, <2>1 DEF Deliver
  <2>3. LiveGrant'
    BY <1>3 DEF Deliver, LiveGrant
  <2>4. Untouched'
    BY <1>3, <2>1 DEF Deliver, Untouched
  <2>5. OnceWhereGranted'
    BY <1>3, <2>1 DEF Deliver, OnceWhereGranted
  <2> QED BY <2>2, <2>3, <2>4, <2>5
<1>4. ASSUME NEW some \in SUBSET Fields, Disturb(some) PROVE GrantInv'
  BY <1>4 DEF Disturb, LiveGrant, Untouched, OnceWhereGranted, NoGrant
<1>5. CASE UNCHANGED grantVars
  BY <1>5 DEF grantVars, LiveGrant, Untouched, OnceWhereGranted
<1> QED BY <1>1, <1>2, <1>3, <1>4, <1>5 DEF Next

\* GrantInv holds in every reachable state.
THEOREM GrantInvariant == ASSUME GrantAssumption PROVE Spec => []GrantInv
  BY GrantInvInit, GrantInvStep, PTL DEF Spec

\* A ticket delivers at most once, and only into the field it was granted for.
THEOREM GrantedOnce == ASSUME GrantAssumption PROVE Spec => []OnceWhereGranted
  BY GrantInvariant, PTL DEF GrantInv

\* No step delivers on a ticket whose field was disturbed since it was granted.
THEOREM GrantUndisturbed == ASSUME GrantAssumption PROVE Spec => Undisturbed
<1>1. GrantInv /\ [Next]_grantVars =>
        [\A t \in Tickets : written'[t] # written[t] => t \notin spoiled]_grantVars
  <2> SUFFICES ASSUME GrantInv, [Next]_grantVars, NEW t \in Tickets,
                      written'[t] # written[t]
               PROVE  t \notin spoiled
    OBVIOUS
  <2>1. Deliver
    BY DEF Next, Begin, End, Disturb, grantVars
  <2>2. t = grant.ticket
    BY <2>1 DEF Deliver, GrantInv, GrantTypeOK
  <2> QED BY <2>1, <2>2 DEF Deliver, GrantInv, LiveGrant
<1> QED BY <1>1, GrantInvariant, PTL DEF Spec, Undisturbed
=============================================================================
