--------------------------- MODULE KeyboardSystem ---------------------------
(***************************************************************************)
(* Keyboard input: the Fcitx engine, the broker and the official engine.   *)
(***************************************************************************)
EXTENDS KeyboardFrontend, KeyboardBroker

vars == <<socketVars, brokerVars, frontendVars>>

Init == BrokerInit /\ FrontendInit

Frontend == FrontendStep /\ UNCHANGED brokerVars
Broker   == (BrokerStep \/ BrokerFault) /\ UNCHANGED frontendVars

Next == Frontend \/ Broker
Spec == Init /\ [][Next]_vars

\* Type invariant of the keyboard path.
KeyboardTypeOK == SocketTypeOK /\ BrokerTypeOK /\ FrontendTypeOK

-----------------------------------------------------------------------------
\* A letter is entered once at most, and only in the field it was typed in, whether the
\* engine commits it or its key is passed on: a request that timed out has passed its key
\* on (keyboard.cpp:183, 210-214), so what the engine still makes of it must not come
\* back with a later commit (keyboard_broker.py:81-83).
EnteredOnce ==
    /\ \A i \in DOMAIN entered : owner[entered[i].key] = entered[i].field
    /\ \A i, j \in DOMAIN entered : entered[i].key = entered[j].key => i = j

\* A field shows letters that were typed in it, never what another one was composing:
\* F is sent before the first key of a field (keyboard.cpp:104-106, 130) and Escape comes
\* before the focus in the host (keyboard_host.c:66).
PreeditOwned ==
    \A f \in Fields : \A i \in DOMAIN panel[f].comp.keys : owner[panel[f].comp.keys[i]] = f

\* A choice is carried out in the list it was made from, unless the engine was started
\* anew and holds no list at all: a candidate is only an index (keyboard.cpp:112-115).
ChosenWasShown ==
    broker = "asking" /\ current.cmd = "S" /\ comp # Empty => comp = current.seen

\* As long as the list is not longer than the two limits allow (99 as an index, 64 steps
\* of the host from the first candidate), every candidate of a list can be chosen: only an
\* engine that was started anew does not find it (keyboard_broker.py:78, keyboard_host.c:71-78).
ChoiceReached ==
    ListSize <= MaxWalk + 1 /\ ListSize <= MaxIndex + 1 /\ heard.result = -2 => comp = Empty

\* What is typed in a password field is never sent to the engine, in whatever order the
\* fields are visited (keyboard.cpp:105, 113, 125).
SecretsStay ==
    /\ \A i \in DOMAIN queue : queue[i].cmd \in {"K", "S"} => queue[i].field \notin Secret
    /\ \A i \in DOMAIN comp.keys : owner[comp.keys[i]] \notin Secret

\* The release of the key that turned a page sends no request and leaves the list as it
\* is, whatever came in between (keyboard.cpp:117-123).
PageStays == [][ReleasePage /\ paged => UNCHANGED <<panel, call, queue>>]_vars
=============================================================================
