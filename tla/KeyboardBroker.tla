--------------------------- MODULE KeyboardBroker ---------------------------
(***************************************************************************)
(* bridge/keyboard_broker.py, the host it talks to (keyboard_host.c) and   *)
(* the official engine behind the host, as far as they use it.             *)
(*                                                                         *)
(*   broker  "down", "idle", "asking" (a command is at the host), "telling"*)
(*           (the host has answered) or "cleaning" (R is at the host)      *)
(*   heard   the host's answer                                             *)
(*   comp    the composition the engine holds                              *)
(*                                                                         *)
(* The broker serves one connection at a time.  A host that does not       *)
(* answer within a second ends the broker, as do a signal or a crash; it   *)
(* is started again with a new host.                                       *)
(***************************************************************************)
EXTENDS KeyboardSocket

CONSTANTS MaxDeaths    \* times the broker may end

ASSUME DeathsAssumption == MaxDeaths \in Nat

VARIABLES broker, heard, comp, deaths
brokerVars == <<broker, heard, comp, deaths>>

BrokerTypeOK ==
    /\ broker \in {"down", "idle", "asking", "telling", "cleaning"}
    /\ heard \in Reply
    /\ comp \in Composition
    /\ deaths \in 0..MaxDeaths
    /\ broker \in {"asking", "telling", "cleaning"} <=> current # Nobody

BrokerInit ==
    /\ listening = TRUE /\ queue = <<>> /\ current = Nobody /\ answer = NoAnswer
    /\ broker = "idle" /\ heard = NoReply /\ comp = Empty /\ deaths = 0

-----------------------------------------------------------------------------
(* The host and the engine: each command gives a result, the composition that *)
(* is left and the text that snapshot() takes out of the engine.              *)

Left(result, composition, text) == [result |-> result, comp |-> composition, commit |-> text]

Escaped == Empty

\* A candidate replaces keys; the text is committed when none is left.
Converted ==
    {Left(1, [comp EXCEPT !.fixed = n], <<>>) : n \in comp.fixed + 1 .. Len(comp.keys) - 1}
    \cup {Left(3, Empty, comp.keys)}

\* RpcPipe_KeyDown and RpcPipe_KeyUp: 0 not consumed, 1 handled, 3 a text was committed.
Pressed(request) ==
    IF request.what = "letter"
    THEN {Left(1, [comp EXCEPT !.keys = Append(@, request.key)], <<>>)}
         \cup (IF comp = Empty THEN {Left(0, comp, <<>>)} ELSE {})
    ELSE IF comp = Empty \/ request.what = "release" THEN {Left(0, comp, <<>>)}
    ELSE IF request.what = "escape" THEN {Left(1, Escaped, <<>>)}
    ELSE IF request.what = "space" THEN Converted
    ELSE {Left(1, comp, <<>>)}

\* The arrow keys lead from the first candidate to the chosen one, then Space.
ReachedFaulty(index) == index < MaxWalk /\ (comp = Empty => index = 0) /\ index < ListSize

Reached(index) == index <= MaxWalk /\ (comp = Empty => index = 0) /\ index < ListSize

Selected(index) ==
    IF ~Reached(index) THEN {Left(-2, comp, <<>>)}
    ELSE IF comp = Empty THEN {Left(0, comp, <<>>)}
    ELSE Converted

FocusedFaulty == Left(0, comp, <<>>)  \* no Escape before the focus
Focused == Left(0, Escaped, <<>>)

Executed(request) ==
    CASE request.cmd = "F" -> {Focused}
      [] request.cmd = "R" -> {Left(0, Escaped, <<>>)}
      [] request.cmd = "K" -> Pressed(request) \cup {Left(-1, comp, <<>>)}
      [] request.cmd = "S" -> Selected(request.index)

-----------------------------------------------------------------------------
Understood(request) == request.cmd = "S" => request.index <= MaxIndex

\* accept, read; a command that is not understood closes the connection.
Accept ==
    /\ broker = "idle" /\ queue # <<>> /\ queue' = Tail(queue)
    /\ IF Understood(Head(queue))
       THEN broker' = "asking" /\ current' = Head(queue) /\ UNCHANGED answer
       ELSE /\ answer' = IF Head(queue).open THEN Closed ELSE answer
            /\ UNCHANGED <<broker, current>>
    /\ UNCHANGED <<listening, heard, comp, deaths>>

HostAnswers ==
    /\ broker = "asking" /\ broker' = "telling"
    /\ heard' \in Executed(current) /\ comp' = heard'.comp
    /\ UNCHANGED <<socketVars, deaths>>

\* A frontend that has given up makes the broker clear the engine.
Tell ==
    /\ broker = "telling"
    /\ IF current.open
       THEN answer' = Says(heard) /\ broker' = "idle" /\ current' = Nobody
       ELSE broker' = "cleaning" /\ UNCHANGED <<answer, current>>
    /\ heard' = NoReply
    /\ UNCHANGED <<listening, queue, comp, deaths>>

HostCleans ==
    /\ broker = "cleaning" /\ broker' = "idle" /\ current' = Nobody /\ comp' = Escaped
    /\ UNCHANGED <<listening, queue, answer, heard, deaths>>

\* The open connection, wherever it is, is closed with the process.
Waiting == (current # Nobody /\ current.open) \/ \E i \in DOMAIN queue : queue[i].open

Dies ==
    /\ broker # "down" /\ deaths < MaxDeaths /\ deaths' = deaths + 1
    /\ broker' = "down" /\ listening' = FALSE /\ queue' = <<>> /\ current' = Nobody
    /\ answer' = IF Waiting THEN Closed ELSE answer
    /\ heard' = NoReply /\ UNCHANGED comp

\* The host focuses the engine and presses Escape before it is ready.
Starts ==
    /\ broker = "down" /\ broker' = "idle" /\ listening' = TRUE /\ comp' = Escaped
    /\ UNCHANGED <<queue, current, answer, heard, deaths>>

BrokerStep == Accept \/ HostAnswers \/ Tell \/ HostCleans
BrokerFault == Dies \/ Starts
=============================================================================
