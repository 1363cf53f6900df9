-------------------------- MODULE TranscriptProofs --------------------------
(***************************************************************************)
(* What the text of a dictation is, and what cancelling it does while it   *)
(* is being organized, for streams of any length and any blocks.           *)
(*                                                                         *)
(* StreamInv is the invariant of the loop of parse_sse(): what its         *)
(* variables say of the part of the stream it has gone through.            *)
(***************************************************************************)
EXTENDS Transcript, SequenceTheorems, TLAPS

Settled == {"labelling", "closing", "ended"}

\* Every place before the answer is parsed has its own look at cancel still to come;
\* "parsing" is entered without cancel.
CancelSeen ==
    /\ cancel = (set # "never") /\ cancel \in BOOLEAN /\ place \in Places
    /\ place \in {"starting", "recording"} => text = "none"
    /\ place = "parsing" /\ cancel => set = "parsing"
    /\ place \in Settled /\ cancel /\ text # "none" =>
          set \in Settled \/ (set = "parsing" /\ answer # "refused")

LEMMA CancelSeenInit == Init => CancelSeen
  BY DEF Init, CancelSeen, Settled, Places

LEMMA CancelSeenStep == CancelSeen /\ [Next]_vars => CancelSeen'
<1> SUFFICES ASSUME CancelSeen, [Next]_vars PROVE CancelSeen'
  OBVIOUS
<1> USE DEF CancelSeen, Settled, Places
<1>1. CASE Cancel
  BY <1>1 DEF Cancel
<1>2. CASE Starts \/ StartFails \/ RunFails
  BY <1>2 DEF Starts, StartFails, RunFails, Goes
<1>3. CASE \E words \in {"none", "said", "unsafe"} : Recognized(words)
  BY <1>3 DEF Recognized, Goes
<1>4. CASE Back
  BY <1>4 DEF Back
<1>5. CASE Asks \/ SeesCancel \/ TimesOut
  BY <1>5 DEF Asks, SeesCancel, TimesOut, Goes
<1>6. CASE ReadsAnswer
  BY <1>6 DEF ReadsAnswer
<1>7. CASE ParsesBlock \/ Parses
  BY <1>7 DEF ParsesBlock, Parses, sessionVars
<1>8. CASE Fails
  BY <1>8 DEF Fails, Fallback, Goes
<1>9. CASE Labels \/ Close
  BY <1>9 DEF Labels, Close, Goes
<1>10. CASE Helper \/ UNCHANGED vars
  BY <1>10 DEF Helper, vars, sessionVars
<1> QED BY <1>1, <1>2, <1>3, <1>4, <1>5, <1>6, <1>7, <1>8, <1>9, <1>10 DEF Next, Session

\* A dictation cancelled before its text was settled ends without one.
THEOREM CancelledWithoutText == Spec => []CancelWins
<1>1. CancelSeen => CancelWins
  BY DEF CancelSeen, CancelWins, Settled
<1> QED BY <1>1, CancelSeenInit, CancelSeenStep, PTL DEF Spec

-----------------------------------------------------------------------------
(* The text. *)

AllDeltas(n) == \A i \in 1..n : stream[i] \in Deltas

StreamInv ==
    LET at == parsed.at IN
    /\ stream \in Seq(Blocks)
    /\ parsed \in [complete : BOOLEAN, done : BOOLEAN, keep : BOOLEAN, content : BOOLEAN,
                   text : {"safe", "empty", "unsafe"}, at : Nat]
    /\ at <= Len(stream)
    /\ parsed.keep <=> \E i \in 1..at : stream[i] \in Deltas /\ stream[i].keep
    /\ \A i \in 1..at : stream[i] \in Deltas /\ stream[i].content => parsed.content
    /\ ~parsed.complete => AllDeltas(at) /\ ~parsed.done
    /\ parsed.complete /\ ~parsed.done =>
          at >= 1 /\ stream[at] \in Finals /\ stream[at].text = parsed.text /\ AllDeltas(at - 1)
    /\ parsed.done =>
          /\ at >= 2 /\ stream[at] = DoneBlock /\ stream[at - 1] \in Finals
          /\ stream[at - 1].text = parsed.text /\ AllDeltas(at - 2)

\* How the session came to where it is.
PlaceInv ==
    /\ place \in Places /\ original \in {"none", "said", "unsafe"} /\ organize \in BOOLEAN
    /\ organizer => organize
    /\ place \in {"starting", "recording"} => original = "none" /\ text = "none"
    /\ place \in {"back", "asking", "waiting", "parsing", "failing"} => text = original
    /\ place \in {"asking", "waiting", "parsing"} => organizer
    /\ place \in {"waiting", "parsing"} => original # "unsafe"
    /\ place \in {"asking", "waiting", "parsing"} => original # "none"
    /\ place = "parsing" => reader = "ended" /\ ready
    /\ place # "parsing" => parsed = Unread

TextInv == StreamInv /\ PlaceInv /\ TextAccounted

\* The kinds of block are apart.
LEMMA BlockKinds ==
    /\ \A block \in Deltas : block.kind = "delta" /\ block \notin Finals /\ block # DoneBlock
                             /\ block.keep \in BOOLEAN /\ block.content \in BOOLEAN
    /\ \A block \in Finals : block.kind = "final" /\ block \notin Deltas /\ block # DoneBlock
                             /\ block.text \in {"safe", "empty", "unsafe"}
    /\ DoneBlock.kind = "done" /\ DoneBlock \notin Deltas /\ DoneBlock \notin Finals
    /\ \A block \in Blocks : /\ block.kind = "delta" => block \in Deltas
                             /\ block.kind = "final" => block \in Finals
                             /\ block.kind = "done" => block = DoneBlock
                             /\ block.kind \in {"delta", "final", "done", "bad"}
  BY DEF Deltas, Finals, DoneBlock, Blocks

\* Nothing has been gone through.
LEMMA UnreadFits == ASSUME stream \in Seq(Blocks), parsed = Unread PROVE StreamInv
<1>1. Len(stream) \in Nat
  BY LenProperties
<1>2. /\ parsed.at = 0 /\ ~parsed.keep /\ ~parsed.complete /\ ~parsed.done
      /\ parsed \in [complete : BOOLEAN, done : BOOLEAN, keep : BOOLEAN, content : BOOLEAN,
                     text : {"safe", "empty", "unsafe"}, at : Nat]
  BY DEF Unread
<1> QED BY <1>1, <1>2 DEF StreamInv, AllDeltas

\* The same of the next state, when parse_sse() has returned.
LEMMA UnreadAgain == ASSUME stream' \in Seq(Blocks), parsed' = Unread PROVE StreamInv'
<1>1. Len(stream') \in Nat
  BY LenProperties
<1>2. /\ parsed'.at = 0 /\ ~parsed'.keep /\ ~parsed'.complete /\ ~parsed'.done
      /\ parsed' \in [complete : BOOLEAN, done : BOOLEAN, keep : BOOLEAN, content : BOOLEAN,
                      text : {"safe", "empty", "unsafe"}, at : Nat]
  BY DEF Unread
<1> QED BY <1>1, <1>2 DEF StreamInv, AllDeltas

\* What a delta can say, what the final text can be, and what parse_sse() keeps of the stream.
Flags == BOOLEAN
AnswerTexts == {"safe", "empty", "unsafe"}
Parts == [complete : BOOLEAN, done : BOOLEAN, keep : BOOLEAN, content : BOOLEAN,
          text : {"safe", "empty", "unsafe"}, at : Nat]

\* What a delta, the final text and the end of the stream make of it.
WithDelta(p, k, c) == [p EXCEPT !.keep = p.keep \/ k, !.content = p.content \/ c, !.at = p.at + 1]
WithFinal(p, t) == [p EXCEPT !.complete = TRUE, !.text = t, !.at = p.at + 1]
WithDone(p) == [p EXCEPT !.done = TRUE, !.at = p.at + 1]

\* A delta only adds to what the deltas have said.
LEMMA DeltaTaken == ASSUME NEW p \in Parts, NEW k \in Flags, NEW c \in Flags, NEW q,
                  q = WithDelta(p, k, c)
           PROVE /\ q \in Parts /\ q.at = p.at + 1 /\ (q.complete <=> p.complete) /\ (q.done <=> p.done)
                 /\ q.text = p.text /\ (q.keep <=> p.keep \/ k) /\ (q.content <=> p.content \/ c)
<1>1. q.at = p.at + 1
  BY DEF Parts, Flags, AnswerTexts, WithDelta, WithFinal, WithDone
<1>2. q.text = p.text
  BY DEF Parts, Flags, AnswerTexts, WithDelta, WithFinal, WithDone
<1>3. q.complete = p.complete
  BY DEF Parts, Flags, AnswerTexts, WithDelta, WithFinal, WithDone
<1>4. q.done = p.done
  BY DEF Parts, Flags, AnswerTexts, WithDelta, WithFinal, WithDone
<1>5. q.keep = (p.keep \/ k)
  BY DEF Parts, Flags, AnswerTexts, WithDelta, WithFinal, WithDone
<1>6. q.content = (p.content \/ c)
  BY DEF Parts, Flags, AnswerTexts, WithDelta, WithFinal, WithDone
<1>7. q = [complete |-> q.complete, done |-> q.done, keep |-> q.keep, content |-> q.content,
           text |-> q.text, at |-> q.at]
  BY DEF Parts, Flags, AnswerTexts, WithDelta, WithFinal, WithDone
<1>8. /\ q.complete \in BOOLEAN /\ q.done \in BOOLEAN /\ q.keep \in BOOLEAN /\ q.content \in BOOLEAN
      /\ q.text \in {"safe", "empty", "unsafe"}
  <2>1. q.complete \in BOOLEAN
    BY <1>3, Zenon DEF Parts, Flags, AnswerTexts, WithDelta, WithFinal, WithDone
  <2>2. q.done \in BOOLEAN
    BY <1>4, Zenon DEF Parts, Flags, AnswerTexts, WithDelta, WithFinal, WithDone
  <2>3. q.keep \in BOOLEAN
    BY <1>5, Zenon DEF Parts, Flags, AnswerTexts, WithDelta, WithFinal, WithDone
  <2>4. q.content \in BOOLEAN
    BY <1>6, Zenon DEF Parts, Flags, AnswerTexts, WithDelta, WithFinal, WithDone
  <2> QED BY <2>1, <2>2, <2>3, <2>4, <1>2 DEF Parts, Flags, AnswerTexts, WithDelta, WithFinal, WithDone
<1>9. q.at \in Nat
  BY <1>1 DEF Parts, Flags, AnswerTexts, WithDelta, WithFinal, WithDone
<1>10. q \in Parts
  BY <1>7, <1>8, <1>9, Zenon DEF Parts, Flags, AnswerTexts, WithDelta, WithFinal, WithDone
<1> QED BY <1>1, <1>2, <1>3, <1>4, <1>5, <1>6, <1>10

\* The final text is kept and completes the answer.
LEMMA FinalTaken == ASSUME NEW p \in Parts, NEW t \in AnswerTexts, NEW q,
                  q = WithFinal(p, t)
           PROVE /\ q \in Parts /\ q.at = p.at + 1 /\ q.complete /\ (q.done <=> p.done)
                 /\ q.text = t /\ (q.keep <=> p.keep) /\ (q.content <=> p.content)
<1>1. q.at = p.at + 1
  BY DEF Parts, Flags, AnswerTexts, WithDelta, WithFinal, WithDone
<1>2. q.text = t
  BY DEF Parts, Flags, AnswerTexts, WithDelta, WithFinal, WithDone
<1>3. q.complete
  BY DEF Parts, Flags, AnswerTexts, WithDelta, WithFinal, WithDone
<1>4. q.done = p.done
  BY DEF Parts, Flags, AnswerTexts, WithDelta, WithFinal, WithDone
<1>5. q.keep = p.keep
  BY DEF Parts, Flags, AnswerTexts, WithDelta, WithFinal, WithDone
<1>6. q.content = p.content
  BY DEF Parts, Flags, AnswerTexts, WithDelta, WithFinal, WithDone
<1>7. q = [complete |-> q.complete, done |-> q.done, keep |-> q.keep, content |-> q.content,
           text |-> q.text, at |-> q.at]
  BY DEF Parts, Flags, AnswerTexts, WithDelta, WithFinal, WithDone
<1>8. /\ q.complete \in BOOLEAN /\ q.done \in BOOLEAN /\ q.keep \in BOOLEAN /\ q.content \in BOOLEAN
      /\ q.text \in {"safe", "empty", "unsafe"}
  <2>1. q.complete \in BOOLEAN
    BY <1>3, Zenon DEF Parts, Flags, AnswerTexts, WithDelta, WithFinal, WithDone
  <2>2. q.done \in BOOLEAN
    BY <1>4, Zenon DEF Parts, Flags, AnswerTexts, WithDelta, WithFinal, WithDone
  <2>3. q.keep \in BOOLEAN
    BY <1>5, Zenon DEF Parts, Flags, AnswerTexts, WithDelta, WithFinal, WithDone
  <2>4. q.content \in BOOLEAN
    BY <1>6, Zenon DEF Parts, Flags, AnswerTexts, WithDelta, WithFinal, WithDone
  <2> QED BY <2>1, <2>2, <2>3, <2>4, <1>2 DEF Parts, Flags, AnswerTexts, WithDelta, WithFinal, WithDone
<1>9. q.at \in Nat
  BY <1>1 DEF Parts, Flags, AnswerTexts, WithDelta, WithFinal, WithDone
<1>10. q \in Parts
  BY <1>7, <1>8, <1>9, Zenon DEF Parts, Flags, AnswerTexts, WithDelta, WithFinal, WithDone
<1> QED BY <1>1, <1>2, <1>3, <1>4, <1>5, <1>6, <1>10

\* The end of the stream changes nothing else.
LEMMA DoneTaken == ASSUME NEW p \in Parts, NEW q,
                  q = WithDone(p)
           PROVE /\ q \in Parts /\ q.at = p.at + 1 /\ q.done /\ (q.complete <=> p.complete)
                 /\ q.text = p.text /\ (q.keep <=> p.keep) /\ (q.content <=> p.content)
<1>1. q.at = p.at + 1
  BY DEF Parts, Flags, AnswerTexts, WithDelta, WithFinal, WithDone
<1>2. q.text = p.text
  BY DEF Parts, Flags, AnswerTexts, WithDelta, WithFinal, WithDone
<1>3. q.complete = p.complete
  BY DEF Parts, Flags, AnswerTexts, WithDelta, WithFinal, WithDone
<1>4. q.done
  BY DEF Parts, Flags, AnswerTexts, WithDelta, WithFinal, WithDone
<1>5. q.keep = p.keep
  BY DEF Parts, Flags, AnswerTexts, WithDelta, WithFinal, WithDone
<1>6. q.content = p.content
  BY DEF Parts, Flags, AnswerTexts, WithDelta, WithFinal, WithDone
<1>7. q = [complete |-> q.complete, done |-> q.done, keep |-> q.keep, content |-> q.content,
           text |-> q.text, at |-> q.at]
  BY DEF Parts, Flags, AnswerTexts, WithDelta, WithFinal, WithDone
<1>8. /\ q.complete \in BOOLEAN /\ q.done \in BOOLEAN /\ q.keep \in BOOLEAN /\ q.content \in BOOLEAN
      /\ q.text \in {"safe", "empty", "unsafe"}
  <2>1. q.complete \in BOOLEAN
    BY <1>3, Zenon DEF Parts, Flags, AnswerTexts, WithDelta, WithFinal, WithDone
  <2>2. q.done \in BOOLEAN
    BY <1>4, Zenon DEF Parts, Flags, AnswerTexts, WithDelta, WithFinal, WithDone
  <2>3. q.keep \in BOOLEAN
    BY <1>5, Zenon DEF Parts, Flags, AnswerTexts, WithDelta, WithFinal, WithDone
  <2>4. q.content \in BOOLEAN
    BY <1>6, Zenon DEF Parts, Flags, AnswerTexts, WithDelta, WithFinal, WithDone
  <2> QED BY <2>1, <2>2, <2>3, <2>4, <1>2 DEF Parts, Flags, AnswerTexts, WithDelta, WithFinal, WithDone
<1>9. q.at \in Nat
  BY <1>1 DEF Parts, Flags, AnswerTexts, WithDelta, WithFinal, WithDone
<1>10. q \in Parts
  BY <1>7, <1>8, <1>9, Zenon DEF Parts, Flags, AnswerTexts, WithDelta, WithFinal, WithDone
<1> QED BY <1>1, <1>2, <1>3, <1>4, <1>5, <1>6, <1>10

\* The loop of parse_sse() keeps its invariant.
LEMMA ParseBlockKeeps ==
    ASSUME StreamInv, ParseBlock, stream' = stream PROVE StreamInv'
<1> DEFINE at == parsed.at
<1>1. /\ at \in Nat /\ at < Len(stream) /\ Len(stream) \in Nat /\ at + 1 \in 1..Len(stream)
      /\ stream \in Seq(Blocks)
  BY LenProperties DEF StreamInv, ParseBlock, More
<1>2. PICK block \in Blocks : block = stream[at + 1]
  BY <1>1, ElementOfSeq
<1>3. InOrder(block) /\ parsed' = [Taken(block) EXCEPT !.at = @ + 1]
  BY <1>2 DEF ParseBlock, More
<1>4. parsed \in [complete : BOOLEAN, done : BOOLEAN, keep : BOOLEAN, content : BOOLEAN,
                  text : {"safe", "empty", "unsafe"}, at : Nat]
  BY DEF StreamInv
<1>5. \A i \in 1..at + 1 : i \in 1..at \/ i = at + 1
  BY <1>1
<1>p. PICK p \in Parts : p = parsed
  BY <1>4 DEF Parts
<1>6. ~parsed.done
  BY <1>3 DEF InOrder
<1>7. CASE block \in Deltas
  <2>1. /\ parsed' = [parsed EXCEPT !.keep = @ \/ block.keep, !.content = @ \/ block.content, !.at = @ + 1]
        /\ ~parsed.complete
    BY <1>3, <1>4, <1>7, BlockKinds DEF Taken, InOrder
  <2>2. /\ parsed'.at = at + 1 /\ (parsed'.complete <=> parsed.complete) /\ (parsed'.done <=> parsed.done)
        /\ parsed'.text = parsed.text
        /\ (parsed'.keep <=> parsed.keep \/ block.keep) /\ (parsed'.content <=> parsed.content \/ block.content)
        /\ parsed' \in [complete : BOOLEAN, done : BOOLEAN, keep : BOOLEAN, content : BOOLEAN,
                        text : {"safe", "empty", "unsafe"}, at : Nat]
    <3>1. PICK q : q = parsed'
      OBVIOUS
    <3>2. PICK k \in Flags, c \in Flags : k = block.keep /\ c = block.content
      BY <1>7, Zenon DEF Deltas, Flags
    <3>3. q = WithDelta(p, k, c)
      BY <1>p, <2>1, <3>1, <3>2, Zenon DEF WithDelta
    <3>4. /\ q \in Parts /\ q.at = p.at + 1 /\ (q.complete <=> p.complete) /\ (q.done <=> p.done)
          /\ q.text = p.text /\ (q.keep <=> p.keep \/ k) /\ (q.content <=> p.content \/ c)
      BY <3>3, DeltaTaken
    <3> QED BY <1>p, <3>1, <3>2, <3>4, Zenon DEF Parts, at
  <2>3. AllDeltas(at + 1)
    BY <1>2, <1>5, <1>7, <2>1 DEF StreamInv, AllDeltas
  <2>4. parsed'.keep <=> \E i \in 1..at + 1 : stream[i] \in Deltas /\ stream[i].keep
    BY <1>1, <1>2, <1>5, <1>7, <2>2 DEF StreamInv
  <2>5. \A i \in 1..at + 1 : stream[i] \in Deltas /\ stream[i].content => parsed'.content
    BY <1>2, <1>5, <2>2 DEF StreamInv
  <2> QED BY <1>1, <1>6, <2>1, <2>2, <2>3, <2>4, <2>5 DEF StreamInv, AllDeltas
<1>8. CASE block \in Finals
  <2>1. /\ parsed' = [parsed EXCEPT !.complete = TRUE, !.text = block.text, !.at = @ + 1]
        /\ ~parsed.complete
    BY <1>3, <1>4, <1>8, BlockKinds DEF Taken, InOrder
  <2>2. /\ parsed'.at = at + 1 /\ parsed'.complete /\ (parsed'.done <=> parsed.done)
        /\ parsed'.text = block.text /\ (parsed'.keep <=> parsed.keep) /\ (parsed'.content <=> parsed.content)
        /\ parsed' \in [complete : BOOLEAN, done : BOOLEAN, keep : BOOLEAN, content : BOOLEAN,
                        text : {"safe", "empty", "unsafe"}, at : Nat]
    <3>1. PICK q : q = parsed'
      OBVIOUS
    <3>2. PICK t \in AnswerTexts : t = block.text
      BY <1>8 DEF Finals, AnswerTexts
    <3>3. q = WithFinal(p, t)
      BY <1>p, <2>1, <3>1, <3>2, Zenon DEF WithFinal
    <3>4. /\ q \in Parts /\ q.at = p.at + 1 /\ q.complete /\ (q.done <=> p.done)
          /\ q.text = t /\ (q.keep <=> p.keep) /\ (q.content <=> p.content)
      BY <3>3, FinalTaken
    <3> QED BY <1>p, <3>1, <3>2, <3>4, Zenon DEF Parts, at
  <2>3. AllDeltas(at)
    BY <2>1 DEF StreamInv
  <2>4. stream[at + 1] \in Finals /\ stream[at + 1] \notin Deltas
    BY <1>2, <1>8, BlockKinds
  <2>5. parsed'.keep <=> \E i \in 1..at + 1 : stream[i] \in Deltas /\ stream[i].keep
    BY <1>1, <1>5, <2>2, <2>4 DEF StreamInv
  <2>6. \A i \in 1..at + 1 : stream[i] \in Deltas /\ stream[i].content => parsed'.content
    BY <1>5, <2>2, <2>4 DEF StreamInv
  <2> QED BY <1>1, <1>2, <1>6, <2>2, <2>3, <2>4, <2>5, <2>6 DEF StreamInv, AllDeltas
<1>9. CASE block = DoneBlock
  <2>1. parsed' = [parsed EXCEPT !.done = TRUE, !.at = @ + 1] /\ parsed.complete
    BY <1>3, <1>4, <1>9, BlockKinds DEF Taken, InOrder
  <2>2. /\ parsed'.at = at + 1 /\ parsed'.complete /\ parsed'.done
        /\ parsed'.text = parsed.text /\ (parsed'.keep <=> parsed.keep) /\ (parsed'.content <=> parsed.content)
        /\ parsed' \in [complete : BOOLEAN, done : BOOLEAN, keep : BOOLEAN, content : BOOLEAN,
                        text : {"safe", "empty", "unsafe"}, at : Nat]
    <3>1. PICK q : q = parsed'
      OBVIOUS
    <3>2. q = WithDone(p)
      BY <1>p, <2>1, <3>1, Zenon DEF WithDone
    <3> QED BY <1>p, <2>1, <3>1, <3>2, DoneTaken, Zenon DEF Parts, at
  <2>3. at >= 1 /\ stream[at] \in Finals /\ stream[at].text = parsed.text /\ AllDeltas(at - 1)
    BY <1>6, <2>1 DEF StreamInv
  <2>4. stream[at + 1] = DoneBlock /\ stream[at + 1] \notin Deltas
    BY <1>2, <1>9, BlockKinds
  <2>5. parsed'.keep <=> \E i \in 1..at + 1 : stream[i] \in Deltas /\ stream[i].keep
    BY <1>1, <1>5, <2>2, <2>4 DEF StreamInv
  <2>6. \A i \in 1..at + 1 : stream[i] \in Deltas /\ stream[i].content => parsed'.content
    BY <1>5, <2>2, <2>4 DEF StreamInv
  <2>7. at + 1 >= 2 /\ (at + 1) - 1 = at /\ (at + 1) - 2 = at - 1
    BY <1>1, <2>3
  <2> QED BY <1>1, <2>2, <2>3, <2>4, <2>5, <2>6, <2>7 DEF StreamInv, AllDeltas
<1> QED BY <1>3, <1>7, <1>8, <1>9, BlockKinds DEF InOrder

\* What parse_sse() returns, and which streams it returns it for.
LEMMA ParsedStream ==
    ASSUME StreamInv, ParseSse # "refused"
    PROVE  /\ Whole /\ status = "200"
           /\ ParseSse = "organized" => ~KeptAsSaid /\ stream[Len(stream) - 1].text = "safe"
           /\ ParseSse = "original" =>
                 /\ KeptAsSaid
                 /\ \A block \in ToSet(stream) :
                       /\ block \in Deltas => ~block.content
                       /\ block \in Finals => block.text = "empty"
           /\ ParseSse \in {"organized", "original"}
<1> DEFINE n == Len(stream)
<1>1. /\ status = "200" /\ parsed.complete /\ parsed.done /\ ~(parsed.at < n)
      /\ parsed.keep => ParseSse = "original" /\ parsed.text = "empty" /\ ~parsed.content
      /\ ~parsed.keep => ParseSse = "organized" /\ parsed.text = "safe"
  BY DEF ParseSse, Ended
<1>2. n \in Nat /\ parsed.at = n /\ DOMAIN stream = 1..n
  BY <1>1, LenProperties DEF StreamInv
<1>3. /\ n >= 2 /\ stream[n] = DoneBlock /\ stream[n - 1] \in Finals
      /\ stream[n - 1].text = parsed.text /\ \A i \in 1..n - 2 : stream[i] \in Deltas
  BY <1>1, <1>2 DEF StreamInv, AllDeltas
<1>4. \A i \in 1..n : i \in 1..n - 2 \/ i = n - 1 \/ i = n
  <2> HIDE DEF n
  <2> QED BY <1>2, <1>3
<1>5. parsed.keep <=> KeptAsSaid
  BY <1>2 DEF StreamInv, KeptAsSaid, ToSet
<1>6. \A block \in ToSet(stream) :
         /\ block \in Deltas /\ ~parsed.content => ~block.content
         /\ block \in Finals => block.text = parsed.text
  <2>1. SUFFICES ASSUME NEW i \in 1..n
                 PROVE  /\ stream[i] \in Deltas /\ ~parsed.content => ~stream[i].content
                        /\ stream[i] \in Finals => stream[i].text = parsed.text
    BY <1>2 DEF ToSet
  <2>2. stream[i] \in Deltas /\ ~parsed.content => ~stream[i].content
    BY <1>2 DEF StreamInv
  <2>3. stream[i] \in Finals => i = n - 1
    BY <1>3, <1>4, BlockKinds
  <2> QED BY <1>3, <2>2, <2>3
<1>7. Whole
  BY <1>3 DEF Whole
<1> QED BY <1>1, <1>3, <1>5, <1>6, <1>7

\* At the start nothing is recognized, read or answered.
LEMMA TextInit == Init => TextInv
<1> SUFFICES ASSUME Init PROVE TextInv
  OBVIOUS
<1>1. stream = <<>> /\ parsed = Unread
  BY DEF Init, OrganizerInit
<1>2. StreamInv
  BY <1>1, UnreadFits
<1> QED BY <1>1, <1>2 DEF Init, TextInv, PlaceInv, TextAccounted, Places

\* Every step keeps what the session knows of its text.
LEMMA TextStep == TextInv /\ [Next]_vars => TextInv'
<1> SUFFICES ASSUME TextInv, [Next]_vars PROVE TextInv'
  OBVIOUS
<1>1. StreamInv /\ PlaceInv /\ TextAccounted
  BY DEF TextInv
<1>2. ASSUME UNCHANGED <<stream, parsed>> PROVE StreamInv'
  BY <1>1, <1>2 DEF StreamInv, AllDeltas
<1>3. ASSUME UNCHANGED organizerVars
      PROVE  /\ StreamInv' /\ (Whole' <=> Whole) /\ (KeptAsSaid' <=> KeptAsSaid)
             /\ UNCHANGED <<helper, reader, ready, status, stream, cleanup, parsed>>
  BY <1>2, <1>3 DEF organizerVars, helperVars, Whole, KeptAsSaid
<1>4. CASE Cancel
  BY <1>1, <1>3, <1>4 DEF Cancel, TextInv, PlaceInv, TextAccounted
<1>5. CASE Starts
  <2>1. UNCHANGED <<stream, parsed>>
    BY <1>5 DEF Starts, StartHelper, organizerVars, helperVars
  <2> QED BY <1>1, <1>2, <1>5, <2>1 DEF Starts, Goes, TextInv, PlaceInv, TextAccounted, Places
<1>6. CASE StartFails \/ RunFails
  BY <1>1, <1>3, <1>6 DEF StartFails, RunFails, Goes, TextInv, PlaceInv, TextAccounted, Places
<1>7. ASSUME NEW words \in {"none", "said", "unsafe"}, Recognized(words) PROVE TextInv'
  BY <1>1, <1>3, <1>7 DEF Recognized, Goes, TextInv, PlaceInv, TextAccounted, Places
<1>8. CASE Back
  BY <1>1, <1>3, <1>8 DEF Back, TextInv, PlaceInv, TextAccounted, Places
<1>9. CASE Asks \/ SeesCancel \/ TimesOut
  BY <1>1, <1>3, <1>9 DEF Asks, SeesCancel, TimesOut, Goes, TextInv, PlaceInv, TextAccounted, Places
<1>10. CASE ReadsAnswer
  BY <1>1, <1>3, <1>10 DEF ReadsAnswer, Sound, TextInv, PlaceInv, TextAccounted, Places
<1>11. CASE ParsesBlock
  <2>1. StreamInv'
    BY <1>1, <1>11, ParseBlockKeeps DEF ParsesBlock, helperVars
  <2> QED BY <1>1, <1>11, <2>1 DEF ParsesBlock, helperVars, sessionVars, TextInv, PlaceInv, TextAccounted
<1>12. CASE Parses
  <2>1. /\ place = "parsing" /\ parsed' = Unread /\ answer' = ParseSse
        /\ UNCHANGED <<helper, reader, ready, status, stream, cleanup>>
        /\ UNCHANGED <<cancel, organizer, original, error, label, organize, set>>
    BY <1>12 DEF Parses, helperVars
  <2>2. StreamInv'
    BY <1>1, <2>1, UnreadAgain DEF StreamInv
  <2>3. (Whole' <=> Whole) /\ (KeptAsSaid' <=> KeptAsSaid)
    BY <2>1 DEF Whole, KeptAsSaid
  <2>4. text = original /\ organize /\ original = "said" /\ reader = "ended" /\ ready
    BY <1>1, <2>1 DEF PlaceInv
  <2>5. PlaceInv'
    BY <1>1, <1>12, <2>1, <2>4 DEF Parses, PlaceInv, Places
  <2>6. CASE place' = "failing"
    BY <2>2, <2>5, <2>6 DEF TextInv, TextAccounted
  <2>7. CASE answer' = "organized" /\ place' = "labelling" /\ text' \in {"organized", original}
    <3>1. Whole /\ status = "200" /\ ~KeptAsSaid /\ stream[Len(stream) - 1].text = "safe"
      BY <1>1, <2>1, <2>7, ParsedStream
    <3> QED BY <2>1, <2>2, <2>3, <2>4, <2>5, <2>7, <3>1 DEF TextInv, TextAccounted
  <2>8. CASE answer' = "original" /\ place' = "labelling" /\ text' = Corrected(original)
    <3>1. /\ Whole /\ status = "200" /\ KeptAsSaid
          /\ \A block \in ToSet(stream) :
                /\ block \in Deltas => ~block.content
                /\ block \in Finals => block.text = "empty"
      BY <1>1, <2>1, <2>8, ParsedStream
    <3> QED BY <2>1, <2>2, <2>3, <2>4, <2>5, <2>8, <3>1 DEF TextInv, TextAccounted, Corrected
  <2> QED BY <1>12, <2>6, <2>7, <2>8 DEF Parses
<1>13. CASE Fails
  BY <1>1, <1>3, <1>13 DEF Fails, Fallback, Goes, TextInv, PlaceInv, TextAccounted, Places
<1>14. CASE Labels
  BY <1>1, <1>3, <1>14 DEF Labels, Goes, TextInv, PlaceInv, TextAccounted, Places
<1>15. CASE Close
  <2>1. stream' \in Seq(Blocks) /\ parsed' = parsed /\ parsed = Unread
    <3>1. <<>> \in Seq(Blocks)
      OBVIOUS
    <3>2. stream' \in {<<>>, stream} /\ parsed' = parsed /\ place = "closing"
      BY <1>15 DEF Close, Goes, Ends, organizerVars, helperVars
    <3> QED BY <1>1, <3>1, <3>2 DEF StreamInv, PlaceInv
  <2>2. StreamInv'
    BY <2>1, UnreadAgain
  <2> QED BY <1>1, <1>15, <2>1, <2>2 DEF Close, Goes, TextInv, PlaceInv, TextAccounted, Places
<1>16. CASE Helper
  <2>1. /\ reader = "reading" /\ parsed' = parsed /\ cleanup' = cleanup
        /\ UNCHANGED <<place, cancel, organizer, original, text, organize>>
        /\ stream' = stream \/ stream' \in BoundedSeq(Written, MaxBlocks)
    BY <1>16 DEF Helper, HelperStep, ReadEnds, ReadFails, sessionVars
  <2>2. place # "parsing" /\ parsed = Unread
    BY <1>1, <2>1 DEF PlaceInv
  <2>3. stream' \in Seq(Blocks)
    <3>1. stream \in Seq(Blocks)
      BY <1>1 DEF StreamInv
    <3>2. BoundedSeq(Written, MaxBlocks) \subseteq Seq(Blocks)
      BY BlocksAssumption DEF BoundedSeq, SeqOf
    <3> QED BY <2>1, <3>1, <3>2
  <2>4. StreamInv'
    BY <2>1, <2>2, <2>3, UnreadAgain
  <2> QED BY <1>1, <2>1, <2>2, <2>4 DEF TextInv, PlaceInv, TextAccounted
<1>17. CASE UNCHANGED vars
  BY <1>1, <1>3, <1>17 DEF vars, sessionVars, TextInv, PlaceInv, TextAccounted
<1> QED BY <1>4, <1>5, <1>6, <1>7, <1>8, <1>9, <1>10, <1>11, <1>12, <1>13, <1>14, <1>15, <1>16, <1>17
        DEF Next, Session

\* The text of a dictation is what was recognized, unless a sound helper wrote a whole
\* stream after an accepted request: then what that stream allows (parse_sse(), finish()
\* and run_with_organizer()).
THEOREM TextIsAccounted == Spec => []TextAccounted
<1>1. TextInv => TextAccounted
  BY DEF TextInv
<1> QED BY <1>1, TextInit, TextStep, PTL DEF Spec
=============================================================================
