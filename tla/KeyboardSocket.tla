--------------------------- MODULE KeyboardSocket ---------------------------
(***************************************************************************)
(* The Unix socket between the keyboard frontend (fcitx5/keyboard.cpp) and *)
(* the broker (bridge/keyboard_broker.py): one connection, one command,    *)
(* one response.                                                           *)
(*                                                                         *)
(*   listening  the broker accepts connections                             *)
(*   queue      connections nobody has accepted, oldest first              *)
(*   current    the connection the broker serves, Nobody if there is none  *)
(*   answer     what the frontend's open connection has to read            *)
(*                                                                         *)
(* A letter key is the number of its press, so that a text is a sequence   *)
(* of numbers and says where each of its keys comes from.  The field of a  *)
(* request and what its user had on the screen (seen) are not sent: they   *)
(* are kept for the properties.                                            *)
(***************************************************************************)
EXTENDS Integers, Sequences

CONSTANTS Fields, NoField,
          MaxKeys,     \* letters the user types
          Backlog,     \* connections that may wait to be accepted
          ListSize,    \* candidates of a composition
          MaxIndex,    \* the largest index of an S command: two digits in the code
          MaxWalk      \* steps of the host to a candidate: 64 in the code

ASSUME KeyboardAssumption ==
    /\ NoField \notin Fields
    /\ MaxKeys \in Nat /\ Backlog \in Nat \ {0}
    /\ ListSize \in Nat \ {0} /\ MaxIndex \in Nat /\ MaxWalk \in Nat

VARIABLES listening, queue, current, answer
socketVars == <<listening, queue, current, answer>>

None == ""                       \* no kind of key, no request

Keys == 1..MaxKeys
Texts == Seq(Keys)

\* What has been composed: its keys, and how many of them are converted already.
Composition == [keys : Texts, fixed : 0..MaxKeys]
Empty == [keys |-> <<>>, fixed |-> 0]

Request == [cmd : {"F", "R", "K", "S"}, what : {None, "letter", "space", "escape", "other", "release"},
            key : 0..MaxKeys, index : Nat, field : Fields, seen : Composition, open : BOOLEAN]
Reply   == [result : {-2, -1, 0, 1, 3}, comp : Composition, commit : Texts]
NoReply == [result |-> 0, comp |-> Empty, commit |-> <<>>]

Nobody   == [cmd |-> None]
NoAnswer == [is |-> "none", reply |-> NoReply]
Closed   == [is |-> "closed", reply |-> NoReply]
Says(reply) == [is |-> "reply", reply |-> reply]

SocketTypeOK ==
    /\ listening \in BOOLEAN
    /\ queue \in Seq(Request) /\ Len(queue) <= Backlog
    /\ current \in Request \cup {Nobody}
    /\ answer \in [is : {"none", "closed", "reply"}, reply : Reply]

AcceptingFaulty == listening

\* A connection is refused when nobody listens or the backlog is full.
Accepting == listening /\ Len(queue) < Backlog

Connect(request) ==
    IF Accepting
    THEN queue' = Append(queue, request) /\ answer' = NoAnswer
    ELSE UNCHANGED queue /\ answer' = Closed

Shut(request) == IF request = Nobody THEN Nobody ELSE [request EXCEPT !.open = FALSE]

\* The frontend closes its connection; what it has sent stays readable.
GiveUp == queue' = [i \in DOMAIN queue |-> Shut(queue[i])] /\ current' = Shut(current)
=============================================================================
