--------------------------- MODULE KeyboardProofs ----------------------------
(***************************************************************************)
(* What keyboard input keeps: proofs about KeyboardSystem.                 *)
(*                                                                         *)
(* One invariant in parts.  LineInv: at most one connection is open, it is *)
(* the last of the line and carries the call the frontend waits for.       *)
(* KeysInv: the letters in the engine and on their way come in the order   *)
(* they were typed in.  AnswerInv: what the host said fits the call.       *)
(* LiveInv: while the frontend has a target it believes in, no abandoned   *)
(* command is left and the engine holds what the panel shows, or nothing.  *)
(***************************************************************************)
EXTENDS KeyboardSystem, SequenceTheorems, TLAPS

\* A call is for something, a request says something.
LEMMA NoneApart ==
    /\ None \notin {"focus", "first", "key", "choose", "reset"}
    /\ None \notin {"F", "R", "K", "S"} /\ None # "letter"
  BY Zenon DEF None

-----------------------------------------------------------------------------
(* The invariant. *)

Letter(request) == request.cmd = "K" /\ request.what = "letter"
InFlight == call.for \in {"first", "key"} /\ call.what = "letter"

OwnedBy(text, f) == \A i \in 1..Len(text) : owner[text[i]] = f
New(text)    == \A i \in 1..Len(text), j \in 1..Len(entered) : entered[j].key # text[i]
Rising(text) == \A i, j \in 1..Len(text) : i < j => text[i] < text[j]

FocusInv ==
    /\ target \in {NoField, focus} \/ call.for = "reset"
    /\ call.for \in {"focus", "first", "key", "choose"} =>
          call.field = focus /\ target = focus /\ focus \in Fields \ Secret
    /\ call.for = "reset" => call.field \in Fields
    /\ call.for \in {"focus", "choose"} => call.what = None
    /\ paged => "page" \in paging

EnteredInv ==
    /\ \A i \in 1..Len(entered) : owner[entered[i].key] = entered[i].field
    /\ \A i, j \in 1..Len(entered) : entered[i].key = entered[j].key => i = j
PanelInv == \A f \in Fields : OwnedBy(panel[f].comp.keys, f)
TypedInv ==
    /\ \A k \in Keys : k > typed => owner[k] = NoField
    /\ InFlight => /\ call.key = typed /\ typed \in Keys /\ owner[typed] = call.field
                   /\ \A j \in 1..Len(entered) : entered[j].key # typed

\* The request of the call that waits.
Asked(request) ==
    /\ request.field = call.field
    /\ call.for \in {"focus", "first"} => request.cmd = "F"
    /\ call.for = "key" => request.cmd = "K" /\ request.what = call.what /\ request.key = call.key
    /\ call.for = "choose" => request.cmd = "S"
    /\ call.for = "reset" => request.cmd = "R"
LineInv ==
    /\ current # Nobody /\ current.open => queue = <<>> /\ answer = NoAnswer /\ ~Idle /\ Asked(current)
    /\ \A i \in 1..Len(queue) : queue[i].open => i = Len(queue) /\ answer = NoAnswer /\ ~Idle /\ Asked(queue[i])
    /\ answer.is = "reply" => queue = <<>> /\ current = Nobody
    /\ Idle => answer = NoAnswer

\* The letter of the request that is served is not in the composition yet.
Asking == broker = "asking" /\ Letter(current)
Before(k) ==
    /\ \A i \in 1..Len(comp.keys) : comp.keys[i] < k
    /\ Asking => current.key < k
Sound(request) ==
    /\ request.cmd \in {"K", "S"} => request.field \notin Secret
    /\ Letter(request) => request.key \in Keys /\ owner[request.key] = request.field
KeysInv ==
    /\ Rising(comp.keys) /\ \A i \in 1..Len(comp.keys) : comp.keys[i] >= i
    /\ \A i \in 1..Len(comp.keys) : owner[comp.keys[i]] \in Fields \ Secret
    /\ current # Nobody => Sound(current)
    /\ Asking => \A i \in 1..Len(comp.keys) : comp.keys[i] < current.key
    /\ \A j \in 1..Len(queue) : Sound(queue[j])
    /\ \A j \in 1..Len(queue) : Letter(queue[j]) => Before(queue[j].key)
    /\ \A i, j \in 1..Len(queue) : i < j /\ Letter(queue[i]) /\ Letter(queue[j]) => queue[i].key < queue[j].key
    /\ call.for = "first" /\ call.what = "letter" =>
          /\ Before(call.key)
          /\ \A j \in 1..Len(queue) : Letter(queue[j]) => queue[j].key < call.key

\* A choice is about the list the engine holds, if it holds one.
Fits(request) == request.index < ListSize /\ comp \in {Empty, request.seen}
ChoiceInv ==
    /\ \A i \in 1..Len(queue) : queue[i].cmd = "S" => i = 1 /\ current = Nobody /\ Fits(queue[i])
    /\ broker = "asking" /\ current.cmd = "S" => Fits(current)
    /\ ChoiceReached

\* A reply for the call that waits.
Good(reply) ==
    /\ OwnedBy(reply.comp.keys, call.field) /\ New(reply.comp.keys)
    /\ OwnedBy(reply.commit, call.field) /\ New(reply.commit) /\ Rising(reply.commit)
    /\ reply.commit # <<>> => reply.comp = Empty
    /\ reply.result = 0 /\ call.what = "letter" => reply.commit = <<>> /\ reply.comp = Empty
    /\ call.for \in {"focus", "first"} => reply.comp = Empty /\ reply.commit = <<>>
AnswerInv ==
    /\ broker = "telling" => heard.comp = comp /\ (current.open /\ call.for # "reset" => Good(heard))
    /\ answer.is = "reply" /\ call.for # "reset" =>
          Good(answer.reply) /\ (answer.reply.result >= 0 => comp \in {Empty, answer.reply.comp})

Live == target \in Fields \ Secret /\ call.for \in {None, "key", "choose"}
LiveInv == Live =>
    /\ \A i \in 1..Len(queue) : queue[i].open
    /\ current # Nobody => current.open
    /\ OwnedBy(comp.keys, target) /\ New(comp.keys)
    /\ broker # "telling" /\ answer = NoAnswer => comp \in {Empty, panel[target].comp}

KInv ==
    /\ KeyboardTypeOK /\ FocusInv /\ EnteredInv /\ PanelInv /\ TypedInv /\ LineInv
    /\ KeysInv /\ ChoiceInv /\ AnswerInv /\ LiveInv

-----------------------------------------------------------------------------
(* Sequences and requests. *)

\* No request is Nobody.
LEMMA NobodyApart ==
    /\ Nobody.cmd = None
    /\ \A request \in Request : request # Nobody /\ request.cmd # None
  BY NoneApart DEF Nobody, Request

\* The empty composition.
LEMMA EmptyFacts ==
    /\ Empty \in Composition /\ Empty.keys = <<>> /\ Len(Empty.keys) = 0 /\ Empty.fixed = 0
    /\ NoReply \in Reply /\ NoReply.result = 0
    /\ NoAnswer.is = "none" /\ Closed.is = "closed" /\ NoAnswer # Closed
    /\ NoAnswer.reply \in Reply /\ Closed.reply \in Reply
<1>1. Empty \in Composition /\ Empty.keys = <<>> /\ Len(Empty.keys) = 0 /\ Empty.fixed = 0
  BY KeyboardAssumption DEF Empty, Composition, Texts
<1>2. NoReply \in Reply /\ NoReply.result = 0
  BY <1>1 DEF NoReply, Reply, Texts
<1> QED BY <1>1, <1>2 DEF NoAnswer, Closed

\* The line of requests when its head is taken.
LEMMA LineServed ==
    ASSUME KeyboardTypeOK, queue # <<>>, queue' = Tail(queue)
    PROVE  /\ Head(queue) = queue[1] /\ 1 \in 1..Len(queue) /\ Head(queue) \in Request
           /\ queue' \in Seq(Request) /\ Len(queue') \in Nat /\ Len(queue) = Len(queue') + 1
           /\ \A i \in 1..Len(queue') : i \in Nat /\ i + 1 \in 1..Len(queue) /\ queue'[i] = queue[i + 1]
<1>1. queue \in Seq(Request)
  BY DEF KeyboardTypeOK, SocketTypeOK
<1>2. Len(queue) \in Nat /\ Len(queue) >= 1 /\ Head(queue) = queue[1]
  BY <1>1, EmptySeq, LenProperties
<1>3. /\ Head(queue) \in Request
      /\ Tail(queue) \in Seq(Request) /\ Len(Tail(queue)) = Len(queue) - 1
      /\ \A i \in 1..Len(Tail(queue)) : Tail(queue)[i] = queue[i + 1]
  BY <1>1, HeadTailProperties
<1> QED BY <1>2, <1>3

\* A request joins the line as its last, or the line stays as it is.
LEMMA Connected ==
    ASSUME KeyboardTypeOK, NEW request \in Request, Connect(request)
    PROVE  /\ queue' \in Seq(Request) /\ Len(queue') <= Backlog /\ Len(queue) \in Nat
           /\ \/ queue' = queue /\ answer' = Closed
              \/ /\ answer' = NoAnswer /\ Len(queue') = Len(queue) + 1 /\ queue'[Len(queue) + 1] = request
                 /\ \A i \in 1..Len(queue) : queue'[i] = queue[i]
                 /\ queue' # <<>>
<1>1. queue \in Seq(Request) /\ Len(queue) \in Nat /\ Len(queue) <= Backlog
  BY DEF KeyboardTypeOK, SocketTypeOK
<1>2. /\ Append(queue, request) \in Seq(Request) /\ Len(Append(queue, request)) = Len(queue) + 1
      /\ Append(queue, request)[Len(queue) + 1] = request
      /\ \A i \in 1..Len(queue) : Append(queue, request)[i] = queue[i]
  BY <1>1, AppendProperties
<1>3. CASE Accepting
  BY <1>1, <1>2, <1>3, KeyboardAssumption DEF Connect, Accepting
<1>4. CASE ~Accepting
  BY <1>1, <1>4 DEF Connect
<1> QED BY <1>3, <1>4

\* Giving up closes the connection and leaves the line.
LEMMA GivenUp ==
    ASSUME KeyboardTypeOK, GiveUp
    PROVE  /\ queue' \in Seq(Request) /\ Len(queue') = Len(queue) /\ Len(queue) \in Nat
           /\ \A i \in 1..Len(queue) :
                 /\ queue[i] \in Request /\ queue'[i] = [queue[i] EXCEPT !.open = FALSE]
                 /\ ~queue'[i].open /\ queue'[i].cmd = queue[i].cmd /\ queue'[i].what = queue[i].what
                 /\ queue'[i].key = queue[i].key /\ queue'[i].index = queue[i].index
                 /\ queue'[i].field = queue[i].field /\ queue'[i].seen = queue[i].seen
           /\ current = Nobody => current' = Nobody
           /\ current # Nobody =>
                 /\ current' \in Request /\ current' # Nobody /\ ~current'.open
                 /\ current'.cmd = current.cmd /\ current'.what = current.what
                 /\ current'.key = current.key /\ current'.index = current.index
                 /\ current'.field = current.field /\ current'.seen = current.seen
<1>1. /\ queue \in Seq(Request) /\ Len(queue) \in Nat /\ DOMAIN queue = 1..Len(queue)
      /\ \A i \in 1..Len(queue) : queue[i] \in Request
  BY LenProperties, ElementOfSeq DEF KeyboardTypeOK, SocketTypeOK
<1>2. ASSUME NEW request \in Request
      PROVE  /\ Shut(request) = [request EXCEPT !.open = FALSE] /\ Shut(request) \in Request
             /\ Shut(request) # Nobody /\ ~Shut(request).open
             /\ Shut(request).cmd = request.cmd /\ Shut(request).what = request.what
             /\ Shut(request).key = request.key /\ Shut(request).index = request.index
             /\ Shut(request).field = request.field /\ Shut(request).seen = request.seen
  <2>1. Shut(request) = [request EXCEPT !.open = FALSE]
    BY NobodyApart DEF Shut
  <2>2. Shut(request) \in Request
    BY <2>1 DEF Request
  <2>3. Shut(request) # Nobody
    BY <2>2, NobodyApart
  <2> QED BY <2>1, <2>2, <2>3 DEF Request
<1>3. queue' = [i \in 1..Len(queue) |-> Shut(queue[i])]
  BY <1>1 DEF GiveUp
<1>4. queue' \in Seq(Request) /\ Len(queue') = Len(queue)
  BY <1>1, <1>2, <1>3
<1>5. current = Nobody => current' = Nobody
  BY DEF GiveUp, Shut
<1>6. current # Nobody => current \in Request /\ current' = Shut(current)
  BY DEF GiveUp, KeyboardTypeOK, SocketTypeOK
<1>7. \A i \in 1..Len(queue) : queue'[i] = Shut(queue[i])
  BY <1>3
<1>8. \A i \in 1..Len(queue) :
         /\ queue[i] \in Request /\ queue'[i] = [queue[i] EXCEPT !.open = FALSE]
         /\ ~queue'[i].open /\ queue'[i].cmd = queue[i].cmd /\ queue'[i].what = queue[i].what
         /\ queue'[i].key = queue[i].key /\ queue'[i].index = queue[i].index
         /\ queue'[i].field = queue[i].field /\ queue'[i].seen = queue[i].seen
  <2>1. TAKE i \in 1..Len(queue)
  <2>2. queue[i] \in Request /\ queue'[i] = Shut(queue[i])
    BY <1>1, <1>7
  <2> QED BY <1>2, <2>2
<1>9. current # Nobody =>
         /\ current' \in Request /\ current' # Nobody /\ ~current'.open
         /\ current'.cmd = current.cmd /\ current'.what = current.what
         /\ current'.key = current.key /\ current'.index = current.index
         /\ current'.field = current.field /\ current'.seen = current.seen
  BY <1>2, <1>6
<1> QED BY <1>1, <1>4, <1>5, <1>8, <1>9

\* Rising letters are no more than there are keys.
LEMMA RisingIsShort ==
    ASSUME NEW text \in Texts, \A i \in 1..Len(text) : text[i] >= i
    PROVE  Len(text) <= MaxKeys
<1>1. Len(text) \in Nat /\ \A i \in 1..Len(text) : text[i] \in Keys
  BY LenProperties, ElementOfSeq DEF Texts
<1>2. CASE Len(text) = 0
  BY <1>2, KeyboardAssumption
<1>3. CASE Len(text) # 0
  <2>1. Len(text) \in 1..Len(text) /\ text[Len(text)] >= Len(text) /\ text[Len(text)] \in 1..MaxKeys
    BY <1>1, <1>3 DEF Keys
  <2> QED BY <1>1, <2>1, KeyboardAssumption
<1> QED BY <1>2, <1>3

\* A letter behind smaller ones.
LEMMA RisingGrows ==
    ASSUME NEW text \in Texts, Rising(text), \A i \in 1..Len(text) : text[i] >= i,
           NEW key \in Keys, \A i \in 1..Len(text) : text[i] < key
    PROVE  LET more == Append(text, key) IN
           /\ more \in Texts /\ Rising(more) /\ \A i \in 1..Len(more) : more[i] >= i
           /\ \A i \in 1..Len(more) : more[i] = key \/ (i \in 1..Len(text) /\ more[i] = text[i])
<1> DEFINE more == Append(text, key)
<1>1. /\ text \in Seq(Keys) /\ Len(text) \in Nat /\ \A i \in 1..Len(text) : text[i] \in Nat
      /\ key \in Nat /\ key >= 1
  BY LenProperties, ElementOfSeq, KeyboardAssumption DEF Texts, Keys
<1>2. /\ more \in Seq(Keys) /\ Len(more) = Len(text) + 1 /\ more[Len(text) + 1] = key
      /\ \A i \in 1..Len(text) : more[i] = text[i]
  BY <1>1, AppendProperties
<1> HIDE DEF more
<1>3. \A i \in 1..Len(more) : i \in 1..Len(text) \/ i = Len(text) + 1
  BY <1>1, <1>2
<1>4. Rising(more)
  <2>1. ASSUME NEW i \in 1..Len(more), NEW j \in 1..Len(more), i < j PROVE more[i] < more[j]
    <3>1. i \in 1..Len(text)
      BY <1>1, <1>2, <2>1
    <3>2. CASE j \in 1..Len(text)
      BY <1>2, <2>1, <3>1, <3>2 DEF Rising
    <3>3. CASE j = Len(text) + 1
      BY <1>2, <3>1, <3>3
    <3> QED BY <1>3, <3>2, <3>3
  <2> QED BY <2>1 DEF Rising
<1>5. key >= Len(text) + 1
  <2>1. CASE Len(text) = 0
    BY <1>1, <2>1
  <2>2. CASE Len(text) # 0
    <3>1. Len(text) \in 1..Len(text)
      BY <1>1, <2>2
    <3>2. text[Len(text)] >= Len(text) /\ text[Len(text)] < key /\ text[Len(text)] \in Nat
      BY <1>1, <3>1
    <3> QED BY <1>1, <3>2
  <2> QED BY <2>1, <2>2
<1>6. \A i \in 1..Len(more) : more[i] >= i
  BY <1>2, <1>3, <1>5
<1>7. \A i \in 1..Len(more) : more[i] = key \/ (i \in 1..Len(text) /\ more[i] = text[i])
  BY <1>2, <1>3
<1> QED BY <1>2, <1>4, <1>6, <1>7 DEF more, Texts

-----------------------------------------------------------------------------
(* What the host makes of a command. *)

Clears(reply) == reply.comp = Empty /\ reply.commit = <<>> /\ reply.result \in {0, 1} /\ ~Letter(current)
Keeps(reply) ==
    /\ reply.comp = comp /\ reply.commit = <<>> /\ current.cmd \in {"K", "S"}
    /\ Letter(current) /\ reply.result = 0 => comp = Empty
    /\ reply.result = -2 => current.cmd = "S" /\ ~Reached(current.index)
Adds(reply) ==
    /\ Letter(current) /\ reply.result = 1 /\ reply.commit = <<>>
    /\ reply.comp = [comp EXCEPT !.keys = Append(@, current.key)]
Converts(reply) ==
    /\ current.cmd \in {"K", "S"} /\ ~Letter(current) /\ reply.result = 1 /\ reply.commit = <<>>
    /\ \E n \in comp.fixed + 1 .. Len(comp.keys) - 1 : reply.comp = [comp EXCEPT !.fixed = n]
Commits(reply) ==
    /\ current.cmd \in {"K", "S"} /\ ~Letter(current) /\ reply.result = 3
    /\ reply.comp = Empty /\ reply.commit = comp.keys

\* Every answer of the host clears, keeps, extends, converts or commits what is composed.
LEMMA HostForms ==
    ASSUME current \in Request, NEW reply \in Executed(current)
    PROVE  \/ Clears(reply)
           \/ Keeps(reply) \/ Adds(reply) \/ Converts(reply) \/ Commits(reply)
<1>1. \A result, composition, text :
         /\ Left(result, composition, text).result = result
         /\ Left(result, composition, text).comp = composition
         /\ Left(result, composition, text).commit = text
  BY DEF Left
<1>2. current.cmd \in {"F", "R", "K", "S"}
  BY DEF Request
<1>3. ASSUME reply \in Converted, current.cmd \in {"K", "S"}, ~Letter(current)
      PROVE  Converts(reply) \/ Commits(reply)
  <2>1. CASE reply = Left(3, Empty, comp.keys)
    BY <1>1, <1>3, <2>1 DEF Commits
  <2>2. ASSUME NEW n \in comp.fixed + 1 .. Len(comp.keys) - 1, reply = Left(1, [comp EXCEPT !.fixed = n], <<>>)
        PROVE  Converts(reply)
    BY <1>1, <1>3, <2>2 DEF Converts
  <2> QED BY <1>3, <2>1, <2>2 DEF Converted
<1>4. CASE current.cmd \in {"F", "R"}
  BY <1>1, <1>2, <1>4 DEF Executed, Focused, Escaped, Clears, Letter
<1>5. CASE current.cmd = "S"
  <2>1. reply \in Selected(current.index) /\ ~Letter(current)
    BY <1>5 DEF Executed, Letter
  <2>2. CASE ~Reached(current.index)
    BY <1>1, <1>5, <2>1, <2>2 DEF Selected, Keeps
  <2>3. CASE Reached(current.index) /\ comp = Empty
    BY <1>1, <1>5, <2>1, <2>3 DEF Selected, Keeps
  <2>4. CASE Reached(current.index) /\ comp # Empty
    BY <1>3, <1>5, <2>1, <2>4 DEF Selected
  <2> QED BY <2>2, <2>3, <2>4
<1>6. CASE current.cmd = "K"
  <2>1. CASE reply = Left(-1, comp, <<>>)
    BY <1>1, <1>6, <2>1 DEF Keeps
  <2>2. CASE reply \in Pressed(current)
    <3>1. CASE current.what = "letter"
      <4>1. CASE reply = Left(1, [comp EXCEPT !.keys = Append(@, current.key)], <<>>)
        BY <1>1, <1>6, <3>1, <4>1 DEF Letter, Adds
      <4>2. CASE comp = Empty /\ reply = Left(0, comp, <<>>)
        BY <1>1, <1>6, <4>2 DEF Keeps
      <4> QED BY <2>2, <3>1, <4>1, <4>2 DEF Pressed
    <3>2. CASE current.what # "letter"
      <4>1. ~Letter(current)
        BY <3>2 DEF Letter
      <4>2. CASE reply = Left(0, comp, <<>>) \/ reply = Left(1, comp, <<>>)
        BY <1>1, <1>6, <4>1, <4>2 DEF Keeps
      <4>3. CASE reply = Left(1, Escaped, <<>>)
        BY <1>1, <4>1, <4>3 DEF Clears, Escaped
      <4>4. CASE reply \in Converted
        BY <1>3, <1>6, <4>1, <4>4
      <4> QED BY <2>2, <3>2, <4>2, <4>3, <4>4 DEF Pressed
    <3> QED BY <3>1, <3>2
  <2> QED BY <1>6, <2>1, <2>2 DEF Executed
<1> QED BY <1>2, <1>4, <1>5, <1>6

\* The focus clears the engine, whatever it held.
LEMMA FocusClears ==
    ASSUME NEW reply \in Executed(current), current.cmd = "F" PROVE Clears(reply)
  BY DEF Executed, Focused, Escaped, Left, Clears, Letter

\* Every answer is well formed, whatever was composed.
LEMMA HostTyped ==
    ASSUME KeyboardTypeOK, KeysInv, broker = "asking", NEW reply \in Executed(current)
    PROVE  reply \in Reply /\ reply.comp \in Composition
<1>1. /\ current \in Request /\ current # Nobody /\ comp \in Composition
      /\ comp.keys \in Texts /\ comp.fixed \in 0..MaxKeys
  BY DEF KeyboardTypeOK, SocketTypeOK, BrokerTypeOK, Composition
<1>2. Len(comp.keys) \in Nat /\ Len(comp.keys) <= MaxKeys
  BY <1>1, RisingIsShort, LenProperties DEF KeysInv, Texts
<1>3. <<>> \in Texts /\ Empty \in Composition
  BY EmptyFacts DEF Texts
<1>4. ASSUME NEW result \in {-2, -1, 0, 1, 3}, NEW composition \in Composition, NEW text \in Texts
      PROVE  Left(result, composition, text) \in Reply
  BY <1>4 DEF Left, Reply
<1>5. reply \in Reply => reply.comp \in Composition
  BY DEF Reply
<1>6. \A n \in comp.fixed + 1 .. Len(comp.keys) - 1 : [comp EXCEPT !.fixed = n] \in Composition
  BY <1>1, <1>2, KeyboardAssumption DEF Composition
<1>7. Letter(current) => [comp EXCEPT !.keys = Append(@, current.key)] \in Composition
  <2>1. SUFFICES ASSUME Letter(current) PROVE [comp EXCEPT !.keys = Append(@, current.key)] \in Composition
    OBVIOUS
  <2>2. current.key \in Keys
    BY <1>1, <2>1 DEF KeysInv, Sound
  <2>3. Append(comp.keys, current.key) \in Texts
    BY <1>1, <2>2, AppendProperties DEF Texts
  <2> QED BY <1>1, <2>3 DEF Composition
<1>8. \A n \in comp.fixed + 1 .. Len(comp.keys) - 1 : Left(1, [comp EXCEPT !.fixed = n], <<>>) \in Reply
  BY <1>3, <1>4, <1>6
<1>9. Converted \subseteq Reply
  BY <1>1, <1>3, <1>4, <1>8 DEF Converted
<1>10. Selected(current.index) \subseteq Reply
  BY <1>1, <1>3, <1>4, <1>9 DEF Selected
<1>11. Pressed(current) \subseteq Reply \/ current.cmd # "K"
  <2>1. Letter(current) => Left(1, [comp EXCEPT !.keys = Append(@, current.key)], <<>>) \in Reply
    BY <1>3, <1>4, <1>7
  <2> QED BY <1>1, <1>3, <1>4, <1>9, <2>1 DEF Pressed, Letter, Escaped
<1>12. reply \in Reply
  <2>1. current.cmd \in {"F", "R", "K", "S"}
    BY <1>1 DEF Request
  <2>2. /\ Left(0, Empty, <<>>) \in Reply /\ Left(-1, comp, <<>>) \in Reply
    BY <1>1, <1>3, <1>4
  <2> QED BY <1>10, <1>11, <2>1, <2>2 DEF Executed, Focused, Escaped
<1> QED BY <1>5, <1>12

-----------------------------------------------------------------------------
(* What the frontend does, in three forms: it looks, it asks, a call ends. *)

Same == UNCHANGED <<typed, owner>>
Types(f) ==
    /\ typed' = typed + 1 /\ typed' \in Keys /\ f \in Fields
    /\ owner' = [owner EXCEPT ![typed'] = f]

Shown == /\ panel' \in [Fields -> [comp : Composition, cursor : 0..ListSize - 1, current : BOOLEAN]]
         /\ paging' \subseteq {"page"} /\ paged' \in BOOLEAN /\ (paged' => "page" \in paging')
         /\ focus' \in Fields \cup {NoField}

Looks ==
    /\ Idle /\ AskNothing /\ Shown
    /\ target' \in {NoField, focus'}
    /\ target' \in Fields \ Secret => target' = target /\ panel'[target].comp = panel[target].comp
    /\ \A f \in Fields : panel'[f].comp \in {Empty, panel[f].comp}
    /\ \/ Same /\ entered' = entered
       \/ Types(focus) /\ entered' = Append(entered, [field |-> focus, key |-> typed'])

Asks(for, f, cmd, what, key, index) ==
    /\ Idle /\ Ask(for, f, cmd, what, key, index) /\ Shown /\ f \in Fields
    /\ \A g \in Fields : panel'[g].comp = panel[g].comp
    /\ entered' = entered /\ index \in 0..ListSize - 1
    /\ for \in {"focus", "first", "key", "choose"} => f \notin Secret /\ focus' = f /\ target' = f
    /\ for \in {"key", "choose"} => target = f
    /\ \/ for \in {"focus", "first"} /\ cmd = "F"
       \/ for = "key" /\ cmd = "K"
       \/ for = "choose" /\ cmd = "S"
       \/ for = "reset" /\ cmd = "R" /\ target' = target
    /\ for \notin {"first", "key"} => what = None
    /\ \/ what = "letter" /\ key = typed' /\ Types(f)
       \/ what \in {None, "space", "escape", "other", "release"} /\ key = 0 /\ Same

\* What a panel becomes when it is cleared, filled or only its cursor moves.
LEMMA Panels ==
    ASSUME KeyboardTypeOK
    PROVE  /\ \A f \in Fields :
                 /\ Cleared(f) \in [Fields -> [comp : Composition, cursor : 0..ListSize - 1, current : BOOLEAN]]
                 /\ \A g \in Fields : Cleared(f)[g].comp \in {Empty, panel[g].comp}
           /\ \A f \in Fields, composition \in Composition :
                 /\ Filled(f, composition) \in
                       [Fields -> [comp : Composition, cursor : 0..ListSize - 1, current : BOOLEAN]]
                 /\ Filled(f, composition)[f].comp = composition
                 /\ \A g \in Fields \ {f} : Filled(f, composition)[g].comp = panel[g].comp
           /\ \A f \in Fields, c \in 0..ListSize - 1 :
                 /\ [panel EXCEPT ![f].cursor = c] \in
                       [Fields -> [comp : Composition, cursor : 0..ListSize - 1, current : BOOLEAN]]
                 /\ \A g \in Fields : [panel EXCEPT ![f].cursor = c][g].comp = panel[g].comp
           /\ panel \in [Fields -> [comp : Composition, cursor : 0..ListSize - 1, current : BOOLEAN]]
<1> DEFINE Panel == [comp : Composition, cursor : 0..ListSize - 1, current : BOOLEAN]
<1>1. panel \in [Fields -> Panel] /\ 0 \in 0..ListSize - 1 /\ Empty \in Composition
  BY KeyboardAssumption, EmptyFacts DEF KeyboardTypeOK, FrontendTypeOK
<1>2. Aged \in [Fields -> Panel] /\ \A g \in Fields : Aged[g].comp = panel[g].comp
  BY <1>1 DEF Aged
<1>3. NoPanel \in Panel /\ NoPanel.comp = Empty
  BY <1>1 DEF NoPanel
<1>4. ASSUME NEW f \in Fields
      PROVE  Cleared(f) \in [Fields -> Panel] /\ \A g \in Fields : Cleared(f)[g].comp \in {Empty, panel[g].comp}
  BY <1>2, <1>3 DEF Cleared
<1>5. ASSUME NEW f \in Fields, NEW composition \in Composition
      PROVE  /\ Filled(f, composition) \in [Fields -> Panel] /\ Filled(f, composition)[f].comp = composition
             /\ \A g \in Fields \ {f} : Filled(f, composition)[g].comp = panel[g].comp
  <2>1. [comp |-> composition, cursor |-> 0, current |-> TRUE] \in Panel
    BY <1>1
  <2> QED BY <1>2, <2>1 DEF Filled
<1>6. ASSUME NEW f \in Fields, NEW c \in 0..ListSize - 1
      PROVE  /\ [panel EXCEPT ![f].cursor = c] \in [Fields -> Panel]
             /\ \A g \in Fields : [panel EXCEPT ![f].cursor = c][g].comp = panel[g].comp
  BY <1>1
<1> QED BY <1>1, <1>4, <1>5, <1>6

\* A key goes to the engine behind a focus, or alone when its field is the target.
LEMMA KeyAsks ==
    ASSUME KeyboardTypeOK, FocusInv, Idle, focus \in Fields \ Secret, focus' = focus, entered' = entered, Shown,
           \A g \in Fields : panel'[g].comp = panel[g].comp,
           NEW what, NEW key,
           \/ SendKey(what, key)
           \/ target = focus /\ target' = target /\ Ask("key", focus, "K", what, key, 0),
           \/ what = "letter" /\ key = typed' /\ Types(focus)
           \/ what \in {"space", "escape", "other", "release"} /\ key = 0 /\ Same
    PROVE  \E for, g, cmd, kind, n, c : Asks(for, g, cmd, kind, n, c)
<1>1. 0 \in 0..ListSize - 1
  BY KeyboardAssumption
<1>2. CASE target = focus /\ target' = target /\ Ask("key", focus, "K", what, key, 0)
  <2>1. Asks("key", focus, "K", what, key, 0)
    BY <1>1, <1>2 DEF Asks
  <2> QED BY <2>1
<1>3. CASE target # focus /\ target' = focus /\ Ask("first", focus, "F", what, key, 0)
  <2>1. Asks("first", focus, "F", what, key, 0)
    BY <1>1, <1>3 DEF Asks
  <2> QED BY <2>1
<1> QED BY <1>2, <1>3 DEF SendKey

\* A reset is sent by the target, other fields are cleared without one.
LEMMA ResetAsks ==
    ASSUME KeyboardTypeOK, FocusInv, Idle, focus \in Fields, Reset(focus), focus' \in {focus, NoField},
           UNCHANGED <<target, paging, typed, owner, entered, paged>>
    PROVE  Looks \/ \E for, g, cmd, kind, n, c : Asks(for, g, cmd, kind, n, c)
<1>1. /\ 0 \in 0..ListSize - 1 /\ target \in {NoField, focus}
      /\ paging' \subseteq {"page"} /\ paged' \in BOOLEAN /\ (paged' => "page" \in paging')
      /\ focus' \in Fields \cup {NoField} /\ NoField \notin Fields
  BY KeyboardAssumption, NoneApart DEF KeyboardTypeOK, FrontendTypeOK, FocusInv, Idle
<1>2. CASE target = focus
  <2>1. Ask("reset", focus, "R", None, 0, 0) /\ panel' = panel
    BY <1>2 DEF Reset
  <2>2. Asks("reset", focus, "R", None, 0, 0)
    BY <1>1, <1>2, <2>1, Panels, Zenon DEF Asks, Shown, Same
  <2> QED BY <2>2
<1>3. CASE target # focus
  <2>1. AskNothing /\ panel' = Cleared(focus) /\ target' = NoField
    BY <1>1, <1>3 DEF Reset
  <2>2. Looks
    BY <1>1, <2>1, Panels DEF Looks, Shown, Same
  <2> QED BY <2>2
<1> QED BY <1>2, <1>3

\* A step of the user looks or asks.
LEMMA UserForms ==
    ASSUME KeyboardTypeOK, FocusInv, User
    PROVE  /\ listening' = listening /\ current' = current /\ Idle
           /\ Looks \/ \E for, g, cmd, kind, n, c : Asks(for, g, cmd, kind, n, c)
<1> DEFINE Some == \E for, g, cmd, kind, n, c : Asks(for, g, cmd, kind, n, c)
<1>1. /\ focus \in Fields \cup {NoField} /\ target \in Fields \cup {NoField}
      /\ paging \subseteq {"page"} /\ paged \in BOOLEAN /\ (paged => "page" \in paging)
      /\ typed \in Nat /\ NoField \notin Fields /\ 0 \in 0..ListSize - 1
      /\ panel \in [Fields -> [comp : Composition, cursor : 0..ListSize - 1, current : BOOLEAN]]
  BY KeyboardAssumption DEF KeyboardTypeOK, FrontendTypeOK, FocusInv
<1>2. Idle => target \in {NoField, focus}
  BY NoneApart DEF FocusInv, Idle
<1>3. ASSUME UNCHANGED <<panel, paging, paged>>, focus' = focus PROVE Shown
  BY <1>1, <1>3 DEF Shown
<1>4. ASSUME Idle, AskNothing, UNCHANGED <<target, typed, owner, entered>>, focus' = focus, Shown,
             \A g \in Fields : panel'[g].comp = panel[g].comp
      PROVE  Looks
  BY <1>1, <1>2, <1>4 DEF Looks, Same
<1>5. CASE Deactivate
  BY <1>1, <1>5, ResetAsks DEF Deactivate
<1>6. CASE FieldResets
  BY <1>1, <1>6, ResetAsks DEF FieldResets
<1>7. CASE MoveCursor
  <2>1. PICK c \in 0..ListSize - 1 : panel' = [panel EXCEPT ![focus].cursor = c]
    BY <1>7 DEF MoveCursor
  <2>2. Shown /\ \A g \in Fields : panel'[g].comp = panel[g].comp
    BY <1>1, <1>7, <2>1, Panels DEF MoveCursor, Shown
  <2> QED BY <1>4, <1>7, <2>2 DEF MoveCursor
<1>8. CASE PressLetter
  <2>1. /\ Idle /\ focus \in Fields /\ listening' = listening /\ current' = current /\ focus' = focus
        /\ UNCHANGED <<panel, paging, paged>> /\ Shown
    BY <1>1, <1>3, <1>8 DEF PressLetter
  <2>2. Types(focus)
    BY <1>1, <1>8, <2>1, KeyboardAssumption DEF PressLetter, Types, Keys
  <2>3. CASE focus \in Secret
    <3>1. AskNothing /\ target' = target /\ entered' = Append(entered, [field |-> focus, key |-> typed'])
      BY <1>8, <2>3 DEF PressLetter, Private, PassOn
    <3>2. \A g \in Fields : panel'[g].comp = panel[g].comp
      BY <2>1
    <3>3. Looks
      BY <1>2, <2>1, <2>2, <3>1, <3>2 DEF Looks
    <3> QED BY <2>1, <3>3
  <2>4. CASE focus \notin Secret
    <3>1. SendKey("letter", typed') /\ entered' = entered
      BY <1>8, <2>4 DEF PressLetter, Private
    <3>2. Some
      BY <2>1, <2>2, <2>4, <3>1, KeyAsks
    <3> QED BY <2>1, <3>2
  <2> QED BY <2>3, <2>4
<1>9. CASE PressChoice
  <2>1. /\ Idle /\ focus \in Fields \ Secret /\ listening' = listening /\ current' = current /\ focus' = focus
        /\ UNCHANGED <<panel, paging, paged, typed, owner>> /\ Shown /\ entered' = entered
    BY <1>1, <1>3, <1>9 DEF PressChoice
  <2>2. \A g \in Fields : panel'[g].comp = panel[g].comp
    BY <2>1
  <2>3. ASSUME NEW index \in 0..ListSize - 1, Choose(focus, index), target = focus, target' = target
        PROVE  Looks \/ Some
    <3>1. CASE Ask("choose", focus, "S", None, 0, index)
      <4>1. Asks("choose", focus, "S", None, 0, index)
        BY <2>1, <2>2, <2>3, <3>1, Zenon DEF Asks, Same
      <4>2. Some
        BY <4>1
      <4> QED BY <4>2
    <3>2. CASE AskNothing
      BY <1>4, <2>1, <2>2, <2>3, <3>2
    <3> QED BY <2>3, <3>1, <3>2 DEF Choose
  <2>4. CASE target = focus /\ HasList(focus)
    <3>1. target' = target
      BY <1>9, <2>4 DEF PressChoice
    <3>2. panel[focus].cursor \in 0..ListSize - 1
      BY <1>1, <2>1
    <3>3. CASE Choose(focus, panel[focus].cursor)
      BY <2>1, <2>3, <2>4, <3>1, <3>2, <3>3
    <3>4. ASSUME NEW i \in 0..PageSize - 1,
                 (panel[focus].cursor \div PageSize) * PageSize + i < ListSize,
                 Choose(focus, (panel[focus].cursor \div PageSize) * PageSize + i)
          PROVE  Looks \/ Some
      <4>1. /\ panel[focus].cursor \div PageSize \in Nat /\ PageSize \in Nat /\ i \in Nat /\ ListSize \in Nat
        BY <3>2, FrontendAssumption, KeyboardAssumption
      <4>2. (panel[focus].cursor \div PageSize) * PageSize \in Nat
        BY <4>1
      <4>3. (panel[focus].cursor \div PageSize) * PageSize + i \in 0..ListSize - 1
        BY <3>4, <4>1, <4>2
      <4> QED BY <2>3, <2>4, <3>1, <3>4, <4>3
    <3>5. CASE Ask("key", focus, "K", "other", 0, 0)
      <4>1. Some
        BY <2>1, <2>2, <2>4, <3>1, <3>5, KeyAsks DEF Same
      <4> QED BY <2>1, <4>1
    <3> QED BY <1>9, <2>1, <2>4, <3>3, <3>4, <3>5 DEF PressChoice
  <2>5. CASE ~(target = focus /\ HasList(focus))
    <3>1. PICK what \in {"space", "other"} : SendKey(what, 0)
      BY <1>9, <2>5 DEF PressChoice
    <3>2. Some
      BY <2>1, <2>2, <3>1, KeyAsks DEF Same
    <3> QED BY <2>1, <3>2
  <2> QED BY <2>4, <2>5
<1>10. CASE PressPage
  <2>1. /\ Idle /\ focus \in Fields /\ listening' = listening /\ current' = current /\ focus' = focus
        /\ UNCHANGED <<typed, owner>> /\ entered' = entered
    BY <1>1, <1>10 DEF PressPage
  <2>2. CASE focus \notin Secret /\ target = focus /\ HasList(focus)
    <3>1. PICK c \in Pages : panel' = [panel EXCEPT ![focus].cursor = c]
      BY <1>10, <2>2 DEF PressPage
    <3>2. AskNothing /\ target' = target /\ paging' = paging \cup {"page"} /\ paged' = TRUE
      BY <1>10, <2>2 DEF PressPage, PagingKept
    <3>3. c \in 0..ListSize - 1
      BY <3>1 DEF Pages
    <3>4. /\ panel' \in [Fields -> [comp : Composition, cursor : 0..ListSize - 1, current : BOOLEAN]]
          /\ \A g \in Fields : panel'[g].comp = panel[g].comp
      BY <2>1, <3>1, <3>3, Panels
    <3>5. Shown
      BY <1>1, <2>1, <3>2, <3>4 DEF Shown
    <3> QED BY <1>4, <2>1, <3>2, <3>4, <3>5
  <2>3. CASE ~(focus \notin Secret /\ target = focus /\ HasList(focus))
    <3>1. paging' = paging \ {"page"} /\ paged' = FALSE /\ panel' = panel
      BY <1>10, <2>3 DEF PressPage
    <3>2. Shown /\ \A g \in Fields : panel'[g].comp = panel[g].comp
      BY <1>1, <2>1, <3>1 DEF Shown
    <3>3. CASE focus \in Secret
      <4>1. AskNothing /\ target' = target
        BY <1>10, <2>3, <3>3 DEF PressPage
      <4> QED BY <1>4, <2>1, <3>2, <4>1
    <3>4. CASE focus \notin Secret
      <4>1. SendKey("other", 0)
        BY <1>10, <2>3, <3>4 DEF PressPage
      <4>2. Some
        BY <2>1, <3>2, <3>4, <4>1, KeyAsks DEF Same
      <4> QED BY <2>1, <4>2
    <3> QED BY <3>3, <3>4
  <2> QED BY <2>2, <2>3
<1>11. CASE ReleasePage
  <2>1. /\ Idle /\ focus \in Fields /\ listening' = listening /\ current' = current /\ focus' = focus
        /\ UNCHANGED <<typed, owner>> /\ entered' = entered
        /\ paging' = paging \ {"page"} /\ paged' = FALSE /\ panel' = panel
    BY <1>1, <1>11 DEF ReleasePage
  <2>2. Shown /\ \A g \in Fields : panel'[g].comp = panel[g].comp
    BY <1>1, <2>1 DEF Shown
  <2>3. CASE "page" \in paging \/ focus \in Secret
    <3>1. AskNothing /\ target' = target
      BY <1>11, <2>3 DEF ReleasePage
    <3> QED BY <1>4, <2>1, <2>2, <3>1
  <2>4. CASE ~("page" \in paging \/ focus \in Secret)
    <3>1. SendKey("release", 0)
      BY <1>11, <2>4 DEF ReleasePage
    <3>2. Some
      BY <2>1, <2>2, <2>4, <3>1, KeyAsks DEF Same
    <3> QED BY <2>1, <3>2
  <2> QED BY <2>3, <2>4
<1>12. CASE PressEscape
  <2>1. /\ Idle /\ focus \in Fields \ Secret /\ listening' = listening /\ current' = current /\ focus' = focus
        /\ UNCHANGED <<panel, paging, paged, typed, owner>> /\ Shown /\ entered' = entered
        /\ SendKey("escape", 0)
    BY <1>1, <1>3, <1>12 DEF PressEscape
  <2>2. Some
    BY <2>1, KeyAsks DEF Same
  <2> QED BY <2>1, <2>2
<1>13. CASE PressControl
  <2>1. /\ Idle /\ focus \in Fields /\ listening' = listening /\ current' = current /\ focus' = focus
        /\ target = focus /\ target' = target
        /\ UNCHANGED <<panel, paging, paged, typed, owner>> /\ Shown /\ entered' = entered
        /\ Ask("reset", focus, "R", None, 0, 0)
    BY <1>1, <1>3, <1>13 DEF PressControl
  <2>2. Asks("reset", focus, "R", None, 0, 0)
    BY <1>1, <2>1, Zenon DEF Asks, Same
  <2> QED BY <2>1, <2>2
<1>14. ASSUME NEW f \in Fields, Activate(f)
       PROVE  /\ listening' = listening /\ current' = current /\ Idle
              /\ Looks \/ Some
  <2>1. /\ Idle /\ listening' = listening /\ current' = current /\ focus' = f /\ target' = f
        /\ UNCHANGED <<panel, paging, paged, typed, owner>> /\ entered' = entered
    BY <1>14 DEF Activate
  <2>2. Shown
    BY <1>1, <2>1 DEF Shown
  <2>3. CASE f \in Secret
    <3>1. AskNothing
      BY <1>14, <2>3 DEF Activate
    <3>2. Looks
      BY <1>1, <2>1, <2>2, <2>3, <3>1 DEF Looks, Same
    <3> QED BY <2>1, <3>2
  <2>4. CASE f \notin Secret
    <3>1. Ask("focus", f, "F", None, 0, 0)
      BY <1>14, <2>4 DEF Activate
    <3>2. Asks("focus", f, "F", None, 0, 0)
      BY <1>1, <2>1, <2>2, <2>4, <3>1, Zenon DEF Asks, Same
    <3> QED BY <2>1, <3>2
  <2> QED BY <2>3, <2>4
<1>15. ASSUME NEW index \in 0..ListSize - 1, Click(index)
       PROVE  /\ listening' = listening /\ current' = current /\ Idle
              /\ Looks \/ Some
  <2>1. /\ Idle /\ focus \in Fields /\ listening' = listening /\ current' = current /\ focus' = focus
        /\ target' = target /\ Choose(focus, index)
        /\ UNCHANGED <<panel, paging, paged, typed, owner>> /\ Shown /\ entered' = entered
    BY <1>1, <1>3, <1>15 DEF Click
  <2>2. CASE Choosable(focus)
    <3>1. Ask("choose", focus, "S", None, 0, index) /\ target = focus /\ focus \notin Secret
      BY <2>1, <2>2 DEF Choose, Choosable
    <3>2. Asks("choose", focus, "S", None, 0, index)
      BY <2>1, <3>1, Zenon DEF Asks, Same
    <3> QED BY <2>1, <3>2
  <2>3. CASE ~Choosable(focus)
    <3>1. AskNothing
      BY <2>1, <2>3 DEF Choose
    <3>2. \A g \in Fields : panel'[g].comp = panel[g].comp
      BY <2>1
    <3> QED BY <1>4, <2>1, <3>1, <3>2
  <2> QED BY <2>2, <2>3
<1> QED BY <1>5, <1>6, <1>7, <1>8, <1>9, <1>10, <1>11, <1>12, <1>13, <1>14, <1>15 DEF User

\* The call is over without a result: what is left of its request is closed.
Kept(request, old) ==
    /\ request.cmd = old.cmd /\ request.what = old.what /\ request.key = old.key
    /\ request.index = old.index /\ request.field = old.field /\ request.seen = old.seen
Drops ==
    /\ ~Idle /\ call' = NoCall /\ answer' = NoAnswer /\ target' = NoField
    /\ panel' \in [Fields -> [comp : Composition, cursor : 0..ListSize - 1, current : BOOLEAN]]
    /\ \A f \in Fields : panel'[f].comp \in {Empty, panel[f].comp}
    /\ queue' \in Seq(Request) /\ Len(queue') = Len(queue)
    /\ \A i \in 1..Len(queue) : ~queue'[i].open /\ Kept(queue'[i], queue[i])
    /\ current = Nobody => current' = Nobody
    /\ current # Nobody => current' \in Request /\ current' # Nobody /\ ~current'.open /\ Kept(current', current)
    /\ \/ entered' = entered
       \/ InFlight /\ entered' = Append(entered, [field |-> call.field, key |-> call.key])

\* What an abandoned call leaves of the panels and the fields.
LEMMA Abandons ==
    ASSUME KeyboardTypeOK, FocusInv, ~Idle, Abandoned
    PROVE  /\ call' = NoCall /\ target' = NoField
           /\ panel' \in [Fields -> [comp : Composition, cursor : 0..ListSize - 1, current : BOOLEAN]]
           /\ \A f \in Fields : panel'[f].comp \in {Empty, panel[f].comp}
           /\ \/ entered' = entered
              \/ InFlight /\ entered' = Append(entered, [field |-> call.field, key |-> call.key])
<1>1. call.field \in Fields
  BY DEF KeyboardTypeOK, FrontendTypeOK, FocusInv, Idle
<1>2. panel' = Cleared(call.field) /\ target' = NoField /\ call' = NoCall
  BY DEF Abandoned, Forget, Failed, Fail
<1>3. \/ entered' = entered
      \/ InFlight /\ entered' = Append(entered, [field |-> call.field, key |-> call.key])
  BY DEF Abandoned, Forget, Failed, PassOn, InFlight
<1> QED BY <1>1, <1>2, <1>3, Panels

\* A call that failed, was refused or is not waited for any more.
LEMMA CallDrops ==
    ASSUME KeyboardTypeOK, FocusInv, LineInv,
           TimesOut \/ (Answered /\ Abandoned /\ answer' = NoAnswer /\ queue' = queue)
    PROVE  Drops /\ UNCHANGED <<listening, focus, paging, typed, owner, paged>>
<1>1. CASE TimesOut
  <2>1. /\ ~Idle /\ answer' = NoAnswer /\ GiveUp /\ Abandoned
        /\ UNCHANGED <<listening, focus, paging, typed, owner, paged>>
    BY <1>1 DEF TimesOut
  <2> QED BY <2>1, Abandons, GivenUp DEF Drops, Kept
<1>2. CASE Answered /\ Abandoned /\ answer' = NoAnswer /\ queue' = queue
  <2>1. /\ ~Idle /\ answer # NoAnswer /\ current' = current
        /\ UNCHANGED <<listening, focus, paging, typed, owner, paged>>
    BY <1>2 DEF Answered
  <2>2. /\ queue \in Seq(Request)
        /\ current # Nobody => current \in Request /\ ~current.open
        /\ \A i \in 1..Len(queue) : ~queue[i].open
    BY <2>1 DEF KeyboardTypeOK, SocketTypeOK, LineInv
  <2>3. /\ call' = NoCall /\ target' = NoField
        /\ panel' \in [Fields -> [comp : Composition, cursor : 0..ListSize - 1, current : BOOLEAN]]
        /\ \A f \in Fields : panel'[f].comp \in {Empty, panel[f].comp}
        /\ \/ entered' = entered
           \/ InFlight /\ entered' = Append(entered, [field |-> call.field, key |-> call.key])
    BY <1>2, <2>1, Abandons
  <2>4. answer' = NoAnswer /\ queue' = queue
    BY <1>2
  <2> QED BY <2>1, <2>2, <2>3, <2>4 DEF Drops, Kept
<1> QED BY <1>1, <1>2

\* What the answer to an open call is given for.
LEMMA Succeeding ==
    ASSUME KeyboardTypeOK, FocusInv, LineInv, AnswerInv, Answered,
           ~(Abandoned /\ answer' = NoAnswer /\ queue' = queue)
    PROVE  /\ Succeeded(answer.reply) /\ Good(answer.reply) /\ answer.reply \in Reply
           /\ comp \in {Empty, answer.reply.comp} /\ queue = <<>> /\ current = Nobody
           /\ call.for \in {"focus", "first", "key", "choose"}
           /\ call.field \in Fields \ Secret /\ focus = call.field /\ target = call.field
           /\ UNCHANGED <<listening, current, focus, paging, typed, owner, paged>>
<1>1. /\ call.for # "reset" /\ answer.is = "reply" /\ answer.reply.result >= 0 /\ ~Idle
      /\ Succeeded(answer.reply) /\ UNCHANGED <<listening, current, focus, paging, typed, owner, paged>>
  BY DEF Answered
<1>2. call.for \in {"focus", "first", "key", "choose"} /\ answer.reply \in Reply
  BY <1>1 DEF KeyboardTypeOK, SocketTypeOK, FrontendTypeOK, Idle
<1> QED BY <1>1, <1>2 DEF FocusInv, LineInv, AnswerInv

\* One sequence behind another.
LEMMA Joined ==
    ASSUME NEW S, NEW a \in Seq(S), NEW b \in Seq(S), NEW whole, whole = a \o b
    PROVE  /\ whole \in Seq(S) /\ Len(whole) = Len(a) + Len(b)
           /\ \A j \in 1..Len(a) + Len(b) : whole[j] = IF j <= Len(a) THEN a[j] ELSE b[j - Len(a)]
  BY ConcatProperties

\* Letters enter a field behind others.
LEMMA Enters ==
    ASSUME KeyboardTypeOK, EnteredInv, NEW f \in Fields, NEW text \in Texts, New(text), Rising(text),
           entered' = entered \o Into(f, text),
           \A i \in 1..Len(text) : owner'[text[i]] = f,
           \A j \in 1..Len(entered) : owner'[entered[j].key] = entered[j].field
    PROVE  /\ entered' \in Seq([field : Fields, key : Keys]) /\ EnteredInv'
           /\ \A j \in 1..Len(entered') :
                 \/ \E i \in 1..Len(entered) : entered'[j] = entered[i]
                 \/ \E i \in 1..Len(text) : entered'[j].key = text[i]
<1> DEFINE more == Into(f, text)
<1>1. /\ entered \in Seq([field : Fields, key : Keys]) /\ Len(entered) \in Nat
      /\ text \in Seq(Keys) /\ Len(text) \in Nat /\ DOMAIN text = 1..Len(text)
      /\ \A i \in 1..Len(text) : text[i] \in Keys
  BY LenProperties, ElementOfSeq DEF KeyboardTypeOK, FrontendTypeOK, Texts
<1>2. /\ more \in Seq([field : Fields, key : Keys]) /\ Len(more) = Len(text)
      /\ \A i \in 1..Len(text) : more[i].field = f /\ more[i].key = text[i]
  <2>1. more = [i \in 1..Len(text) |-> [field |-> f, key |-> text[i]]]
    BY <1>1 DEF Into
  <2> QED BY <1>1, <2>1
<1> HIDE DEF more
<1>3. /\ entered' \in Seq([field : Fields, key : Keys]) /\ Len(entered') = Len(entered) + Len(text)
      /\ \A j \in 1..Len(entered) : entered'[j] = entered[j]
      /\ \A j \in Len(entered) + 1 .. Len(entered) + Len(text) :
            j - Len(entered) \in 1..Len(text) /\ entered'[j] = more[j - Len(entered)]
  <2>1. entered' = entered \o more
    BY DEF more
  <2>2. /\ entered' \in Seq([field : Fields, key : Keys])
        /\ Len(entered') = Len(entered) + Len(more)
        /\ \A j \in 1..Len(entered) + Len(more) :
              entered'[j] = IF j <= Len(entered) THEN entered[j] ELSE more[j - Len(entered)]
    <3> DEFINE Entry == [field : Fields, key : Keys]
    <3>1. entered \in Seq(Entry) /\ more \in Seq(Entry)
      BY <1>1, <1>2
    <3> HIDE DEF Entry
    <3>2. /\ entered' \in Seq(Entry) /\ Len(entered') = Len(entered) + Len(more)
          /\ \A j \in 1..Len(entered) + Len(more) :
                entered'[j] = IF j <= Len(entered) THEN entered[j] ELSE more[j - Len(entered)]
      BY <2>1, <3>1, Joined
    <3> QED BY <3>2 DEF Entry
  <2> QED BY <1>1, <1>2, <2>2
<1>4. \A j \in 1..Len(entered') :
         \/ j \in 1..Len(entered) /\ entered'[j] = entered[j]
         \/ /\ j > Len(entered) /\ j - Len(entered) \in 1..Len(text)
            /\ entered'[j].key = text[j - Len(entered)] /\ entered'[j].field = f
  <2>1. TAKE j \in 1..Len(entered')
  <2>2. CASE j \in 1..Len(entered)
    BY <1>3, <2>2
  <2>3. CASE j \in Len(entered) + 1 .. Len(entered) + Len(text)
    BY <1>1, <1>2, <1>3, <2>3
  <2> QED BY <1>1, <1>3, <2>2, <2>3
<1>5. \A j \in 1..Len(entered') : owner'[entered'[j].key] = entered'[j].field
  BY <1>4
<1>6. ASSUME NEW i \in 1..Len(entered'), NEW j \in 1..Len(entered'), entered'[i].key = entered'[j].key
      PROVE  i = j
  <2>1. CASE i \in 1..Len(entered) /\ j \in 1..Len(entered)
    BY <1>3, <1>6, <2>1 DEF EnteredInv
  <2>2. CASE i \in 1..Len(entered) /\ j > Len(entered)
    <3>1. entered'[i] = entered[i] /\ j - Len(entered) \in 1..Len(text) /\ entered'[j].key = text[j - Len(entered)]
      BY <1>1, <1>3, <1>4, <2>2
    <3> QED BY <1>6, <2>2, <3>1 DEF New
  <2>3. CASE i > Len(entered) /\ j \in 1..Len(entered)
    <3>1. entered'[j] = entered[j] /\ i - Len(entered) \in 1..Len(text) /\ entered'[i].key = text[i - Len(entered)]
      BY <1>1, <1>3, <1>4, <2>3
    <3> QED BY <1>6, <2>3, <3>1 DEF New
  <2>4. CASE i > Len(entered) /\ j > Len(entered)
    <3>1. /\ i - Len(entered) \in 1..Len(text) /\ j - Len(entered) \in 1..Len(text)
          /\ text[i - Len(entered)] = text[j - Len(entered)]
      BY <1>1, <1>4, <1>6, <2>4
    <3>2. \A a, b \in 1..Len(text) : text[a] = text[b] => a = b
      <4>1. \A a, b \in 1..Len(text) : text[a] \in Nat /\ text[b] \in Nat /\ (a < b \/ b < a \/ a = b)
        BY <1>1, KeyboardAssumption DEF Keys
      <4> QED BY <4>1 DEF Rising
    <3>3. i - Len(entered) = j - Len(entered)
      BY <3>1, <3>2
    <3> QED BY <1>1, <1>3, <3>3
  <2> QED BY <1>1, <1>3, <2>1, <2>2, <2>3, <2>4
<1> QED BY <1>3, <1>4, <1>5, <1>6 DEF EnteredInv

\* One letter that is passed on.
LEMMA OneEnters ==
    ASSUME KeyboardTypeOK, EnteredInv, NEW f \in Fields, NEW k \in Keys,
           \A j \in 1..Len(entered) : entered[j].key # k,
           entered' = Append(entered, [field |-> f, key |-> k]), owner'[k] = f,
           \A j \in 1..Len(entered) : owner'[entered[j].key] = entered[j].field
    PROVE  /\ entered' \in Seq([field : Fields, key : Keys]) /\ EnteredInv'
           /\ \A j \in 1..Len(entered') :
                 \/ \E i \in 1..Len(entered) : entered'[j] = entered[i]
                 \/ entered'[j].key = k
<1>1. /\ <<k>> \in Texts /\ Len(<<k>>) = 1 /\ <<k>>[1] = k /\ DOMAIN <<k>> = 1..1
  BY DEF Texts
<1>2. Into(f, <<k>>) = <<[field |-> f, key |-> k]>>
  BY <1>1 DEF Into
<1>3. entered' = entered \o Into(f, <<k>>)
  <2>1. entered \in Seq([field : Fields, key : Keys]) /\ [field |-> f, key |-> k] \in [field : Fields, key : Keys]
    BY DEF KeyboardTypeOK, FrontendTypeOK
  <2> QED BY <1>2, <2>1, AppendIsConcat
<1>4. New(<<k>>) /\ Rising(<<k>>) /\ \A i \in 1..Len(<<k>>) : owner'[<<k>>[i]] = f
  BY <1>1 DEF New, Rising
<1>5. \A i \in 1..Len(<<k>>) : <<k>>[i] = k
  BY <1>1
<1> HIDE DEF Into
<1> QED BY <1>1, <1>3, <1>4, <1>5, Enters

-----------------------------------------------------------------------------
(* The steps of the frontend. *)

\* What the sequences hold.
LEMMA Elements ==
    ASSUME KeyboardTypeOK
    PROVE  /\ queue \in Seq(Request) /\ Len(queue) \in Nat /\ \A i \in 1..Len(queue) : queue[i] \in Request
           /\ comp \in Composition /\ Len(comp.keys) \in Nat /\ \A i \in 1..Len(comp.keys) : comp.keys[i] \in Keys
           /\ entered \in Seq([field : Fields, key : Keys]) /\ Len(entered) \in Nat
           /\ \A i \in 1..Len(entered) :
                 entered[i] \in [field : Fields, key : Keys] /\ entered[i].field \in Fields /\ entered[i].key \in Keys
           /\ \A f \in Fields : panel[f].comp \in Composition /\ Len(panel[f].comp.keys) \in Nat
           /\ \A f \in Fields : \A i \in 1..Len(panel[f].comp.keys) : panel[f].comp.keys[i] \in Keys
           /\ \A k \in Keys : k \in Nat /\ k \in 1..MaxKeys
<1>1. \A text \in Texts : Len(text) \in Nat /\ \A i \in 1..Len(text) : text[i] \in Keys
  BY LenProperties, ElementOfSeq DEF Texts
<1>2. \A composition \in Composition : composition.keys \in Texts
  BY DEF Composition
<1>3. queue \in Seq(Request) /\ Len(queue) \in Nat /\ \A i \in 1..Len(queue) : queue[i] \in Request
  BY LenProperties, ElementOfSeq DEF KeyboardTypeOK, SocketTypeOK
<1>4. comp \in Composition
  BY DEF KeyboardTypeOK, BrokerTypeOK
<1>5. /\ entered \in Seq([field : Fields, key : Keys]) /\ Len(entered) \in Nat
      /\ \A i \in 1..Len(entered) : entered[i] \in [field : Fields, key : Keys]
  <2>1. entered \in Seq([field : Fields, key : Keys])
    BY DEF KeyboardTypeOK, FrontendTypeOK
  <2> QED BY <2>1, LenProperties, ElementOfSeq
<1>6. \A f \in Fields : panel[f].comp \in Composition
  BY DEF KeyboardTypeOK, FrontendTypeOK
<1>7. \A k \in Keys : k \in Nat /\ k \in 1..MaxKeys
  BY KeyboardAssumption DEF Keys
<1> QED BY <1>1, <1>2, <1>3, <1>4, <1>5, <1>6, <1>7

\* A letter keeps the field it was typed in, and no later letter has its number.
LEMMA OwnerGrows ==
    ASSUME KeyboardTypeOK, TypedInv, NEW f, Same \/ Types(f)
    PROVE  /\ typed' \in 0..MaxKeys /\ owner' \in [Keys -> Fields \cup {NoField}]
           /\ \A k \in Keys : owner[k] \in Fields => owner'[k] = owner[k] /\ k <= typed /\ k <= typed'
           /\ \A k \in Keys : k > typed' => owner'[k] = NoField
           /\ Types(f) => /\ owner'[typed'] = f /\ typed' \in Keys
                          /\ \A k \in Keys : owner[k] \in Fields => k < typed'
<1>1. /\ typed \in 0..MaxKeys /\ owner \in [Keys -> Fields \cup {NoField}] /\ NoField \notin Fields
      /\ MaxKeys \in Nat /\ Keys = 1..MaxKeys
  BY KeyboardAssumption DEF KeyboardTypeOK, FrontendTypeOK, Keys
<1>2. \A k \in Keys : k > typed => owner[k] = NoField
  BY DEF TypedInv
<1>3. \A k \in Keys : owner[k] \in Fields => k <= typed
  BY <1>1, <1>2
<1>4. CASE Same
  <2>1. typed' = typed /\ owner' = owner
    BY <1>4 DEF Same
  <2>2. ~Types(f)
    BY <1>1, <2>1 DEF Types
  <2> QED BY <1>1, <1>2, <1>3, <2>1, <2>2
<1>5. CASE Types(f)
  <2>1. typed' = typed + 1 /\ typed' \in Keys /\ f \in Fields /\ owner' = [owner EXCEPT ![typed'] = f]
    BY <1>5 DEF Types
  <2>2. owner' \in [Keys -> Fields \cup {NoField}] /\ owner'[typed'] = f
    BY <1>1, <2>1
  <2>3. \A k \in Keys : k # typed' => owner'[k] = owner[k]
    BY <1>1, <2>1
  <2>4. \A k \in Keys : owner[k] \in Fields => k < typed' /\ k # typed'
    BY <1>1, <1>3, <2>1
  <2>5. \A k \in Keys : k > typed' => k > typed /\ k # typed'
    BY <1>1, <2>1
  <2> QED BY <1>1, <1>2, <1>3, <2>1, <2>2, <2>3, <2>4, <2>5
<1> QED BY <1>4, <1>5

\* What is owned by a field stays so, in the panels, the engine, the requests and the fields.
LEMMA OwnedStays ==
    ASSUME KeyboardTypeOK, TypedInv, EnteredInv, PanelInv, KeysInv, NEW f, Same \/ Types(f)
    PROVE  /\ \A g \in Fields : OwnedBy(panel[g].comp.keys, g)'
                 \/ ~(panel'[g].comp \in {Empty, panel[g].comp})
           /\ \A j \in 1..Len(entered) : owner'[entered[j].key] = entered[j].field
           /\ \A i \in 1..Len(comp.keys) : owner'[comp.keys[i]] = owner[comp.keys[i]]
           /\ \A request \in Request : Sound(request) /\ Letter(request) => owner'[request.key] = request.field
<1>1. \A k \in Keys : owner[k] \in Fields => owner'[k] = owner[k]
  BY OwnerGrows
<1>2. ASSUME NEW g \in Fields, panel'[g].comp \in {Empty, panel[g].comp}
      PROVE  OwnedBy(panel[g].comp.keys, g)'
  <2>1. CASE panel'[g].comp = Empty
    BY <2>1, EmptyFacts DEF OwnedBy
  <2>2. CASE panel'[g].comp = panel[g].comp
    <3>1. \A i \in 1..Len(panel[g].comp.keys) : panel[g].comp.keys[i] \in Keys /\ owner[panel[g].comp.keys[i]] = g
      BY Elements DEF PanelInv, OwnedBy
    <3> QED BY <1>1, <2>2, <3>1 DEF OwnedBy
  <2> QED BY <1>2, <2>1, <2>2
<1>3. \A j \in 1..Len(entered) : owner'[entered[j].key] = entered[j].field
  BY <1>1, Elements DEF EnteredInv
<1>4. \A i \in 1..Len(comp.keys) : owner'[comp.keys[i]] = owner[comp.keys[i]]
  BY <1>1, Elements DEF KeysInv
<1>5. \A request \in Request : Sound(request) /\ Letter(request) => owner'[request.key] = request.field
  BY <1>1 DEF Sound, Request
<1> QED BY <1>2, <1>3, <1>4, <1>5

\* Looking at a panel, leaving a field and typing a password keep the invariant.
LEMMA LooksKeep ==
    ASSUME KInv, Looks, UNCHANGED brokerVars, listening' = listening, current' = current
    PROVE  KInv'
<1>1. /\ KeyboardTypeOK /\ FocusInv /\ EnteredInv /\ PanelInv /\ TypedInv /\ LineInv
      /\ KeysInv /\ ChoiceInv /\ AnswerInv /\ LiveInv
  BY DEF KInv
<1>2. /\ call' = call /\ queue' = queue /\ answer' = answer /\ Idle /\ Shown
      /\ broker' = broker /\ heard' = heard /\ comp' = comp /\ deaths' = deaths
  BY DEF Looks, AskNothing, brokerVars
<1>3. call.for = None /\ answer = NoAnswer /\ ~InFlight /\ ~InFlight'
  BY <1>1, <1>2, NoneApart DEF Idle, LineInv, InFlight
<1>4. Same \/ Types(focus)
  BY DEF Looks
<1>5. /\ \A j \in 1..Len(entered) : owner'[entered[j].key] = entered[j].field
      /\ \A i \in 1..Len(comp.keys) : owner'[comp.keys[i]] = owner[comp.keys[i]]
      /\ \A request \in Request : Sound(request) /\ Letter(request) => owner'[request.key] = request.field
      /\ \A g \in Fields : OwnedBy(panel[g].comp.keys, g)'
  BY <1>1, <1>4, OwnedStays DEF Looks
<1>6. /\ typed' \in 0..MaxKeys /\ owner' \in [Keys -> Fields \cup {NoField}]
      /\ \A k \in Keys : k > typed' => owner'[k] = NoField
  BY <1>1, <1>4, OwnerGrows
<1>7. /\ entered' \in Seq([field : Fields, key : Keys]) /\ EnteredInv'
      /\ \A j \in 1..Len(entered') :
            \/ \E i \in 1..Len(entered) : entered'[j] = entered[i]
            \/ Types(focus) /\ entered'[j].key = typed'
  <2>1. CASE entered' = entered
    BY <1>1, <1>5, <2>1, Elements DEF EnteredInv
  <2>2. CASE Types(focus) /\ entered' = Append(entered, [field |-> focus, key |-> typed'])
    <3>1. focus \in Fields /\ typed' \in Keys /\ owner'[typed'] = focus
      BY <1>1, <1>4, <2>2, OwnerGrows DEF Types
    <3>2. \A j \in 1..Len(entered) : entered[j].key # typed'
      <4>1. \A k \in Keys : owner[k] \in Fields => k < typed'
        BY <1>1, <1>4, <2>2, OwnerGrows
      <4> QED BY <1>1, <3>1, <4>1, Elements DEF EnteredInv
    <3> QED BY <1>1, <1>5, <2>2, <3>1, <3>2, OneEnters
  <2> QED BY <2>1, <2>2 DEF Looks
<1>8. KeyboardTypeOK'
  <2>1. focus' \in Fields \cup {NoField} /\ target' \in Fields \cup {NoField}
    BY DEF Looks, Shown
  <2>2. FrontendTypeOK'
    BY <1>1, <1>2, <1>6, <1>7, <2>1 DEF KeyboardTypeOK, FrontendTypeOK, Shown
  <2> QED BY <1>1, <1>2, <2>2 DEF KeyboardTypeOK, SocketTypeOK, BrokerTypeOK
<1>9. FocusInv'
  BY <1>2, <1>3, NoneApart DEF Looks, Shown, FocusInv
<1>10. PanelInv'
  BY <1>5 DEF PanelInv
<1>11. TypedInv'
  BY <1>3, <1>6 DEF TypedInv
<1>12. LineInv'
  BY <1>1, <1>2 DEF LineInv, Idle, Asked
<1>13. KeysInv'
  <2>1. \A request \in Request : Sound(request) => Sound(request)'
    BY <1>5 DEF Sound, Letter
  <2>2. current # Nobody => Sound(current)'
    BY <1>1, <2>1 DEF KeyboardTypeOK, SocketTypeOK, KeysInv
  <2>3. \A j \in 1..Len(queue) : Sound(queue[j])'
    BY <1>1, <1>2, <2>1, Elements DEF KeysInv
  <2> QED BY <1>1, <1>2, <1>3, <1>5, <2>2, <2>3, NoneApart DEF KeysInv, Asking, Before, Rising, Letter
<1>14. ChoiceInv'
  BY <1>1, <1>2 DEF ChoiceInv, ChoiceReached, Fits
<1>15. AnswerInv'
  <2>1. answer'.is # "reply"
    BY <1>2, <1>3, EmptyFacts
  <2>2. broker = "telling" => heard.comp = comp /\ ~current.open
    BY <1>1, <1>2 DEF AnswerInv, LineInv, KeyboardTypeOK, BrokerTypeOK
  <2> QED BY <1>2, <2>1, <2>2 DEF AnswerInv
<1>16. LiveInv'
  <2>1. SUFFICES ASSUME Live' PROVE LiveInv'
    BY DEF LiveInv
  <2>2. Live /\ target' = target /\ panel'[target].comp = panel[target].comp
    BY <1>2, <1>3, <2>1 DEF Live, Looks
  <2>3. OwnedBy(comp.keys, target)'
    BY <1>1, <1>2, <1>5, <2>2 DEF LiveInv, OwnedBy
  <2>4. New(comp.keys)'
    <3>1. Types(focus) => \A i \in 1..Len(comp.keys) : comp.keys[i] # typed'
      <4>1. \A i \in 1..Len(comp.keys) : comp.keys[i] \in Keys /\ owner[comp.keys[i]] \in Fields
        BY <1>1, Elements DEF KeysInv
      <4>2. Types(focus) => \A k \in Keys : owner[k] \in Fields => k < typed'
        BY <1>1, <1>4, OwnerGrows
      <4>3. \A k \in Keys : k < typed' => k # typed'
        BY <1>1, <1>6, Elements, KeyboardAssumption
      <4> QED BY <4>1, <4>2, <4>3
    <3> QED BY <1>1, <1>2, <1>7, <2>2, <3>1 DEF LiveInv, New
  <2>5. /\ \A i \in 1..Len(queue) : queue[i].open
        /\ current # Nobody => current.open
        /\ broker # "telling" => comp \in {Empty, panel[target].comp}
    BY <1>1, <1>3, <2>2 DEF LiveInv
  <2> QED BY <1>2, <2>2, <2>3, <2>4, <2>5 DEF LiveInv
<1> QED BY <1>7, <1>8, <1>9, <1>10, <1>11, <1>12, <1>13, <1>14, <1>15, <1>16 DEF KInv

\* Sending a request keeps the invariant: it joins an idle line, and the line before it is
\* empty whenever the list of its field can be chosen from.
LEMMA AsksKeep ==
    ASSUME KInv, NEW for, NEW f, NEW cmd, NEW what, NEW key, NEW index, Asks(for, f, cmd, what, key, index),
           UNCHANGED brokerVars, listening' = listening, current' = current
    PROVE  KInv'
<1> DEFINE sent == [cmd |-> cmd, what |-> IF cmd = "K" THEN what ELSE None, index |-> index, field |-> f,
                    key |-> IF cmd = "K" THEN key ELSE 0, seen |-> panel[f].comp, open |-> TRUE]
<1>1. /\ KeyboardTypeOK /\ FocusInv /\ EnteredInv /\ PanelInv /\ TypedInv /\ LineInv
      /\ KeysInv /\ ChoiceInv /\ AnswerInv /\ LiveInv
  BY DEF KInv
<1>2. /\ broker' = broker /\ heard' = heard /\ comp' = comp /\ deaths' = deaths
      /\ entered' = entered /\ Idle /\ Shown /\ f \in Fields /\ index \in 0..ListSize - 1
      /\ \A g \in Fields : panel'[g].comp = panel[g].comp
  BY DEF Asks, brokerVars
<1>3. call.for = None /\ answer = NoAnswer /\ ~InFlight
  BY <1>1, <1>2, NoneApart DEF Idle, LineInv, InFlight
<1>4. /\ for \in {"focus", "first", "key", "choose", "reset"} /\ cmd \in {"F", "R", "K", "S"}
      /\ what \in {None, "letter", "space", "escape", "other", "release"}
      /\ for \in {"focus", "first"} => cmd = "F"
      /\ for = "key" <=> cmd = "K"
      /\ for = "choose" <=> cmd = "S"
      /\ for = "reset" => cmd = "R" /\ target' = target
      /\ for \notin {"first", "key"} => what = None
      /\ for # "reset" => f \in Fields \ Secret /\ focus' = f /\ target' = f
      /\ for \in {"key", "choose"} => target = f
  <2>1. \/ for \in {"focus", "first"} /\ cmd = "F"
        \/ for = "key" /\ cmd = "K"
        \/ for = "choose" /\ cmd = "S"
        \/ for = "reset" /\ cmd = "R" /\ target' = target
    BY DEF Asks
  <2>2. what \in {None, "letter", "space", "escape", "other", "release"}
    BY DEF Asks
  <2>3. /\ for \in {"focus", "first", "key", "choose"} => f \notin Secret /\ focus' = f /\ target' = f
        /\ for \in {"key", "choose"} => target = f
        /\ for \notin {"first", "key"} => what = None
    BY DEF Asks
  <2> QED BY <1>2, <2>1, <2>2, <2>3
<1>5. /\ Same \/ Types(f)
      /\ what = "letter" => key = typed' /\ Types(f)
      /\ what # "letter" => key = 0
  BY NoneApart DEF Asks
<1>6. /\ \A j \in 1..Len(entered) : owner'[entered[j].key] = entered[j].field
      /\ \A i \in 1..Len(comp.keys) : owner'[comp.keys[i]] = owner[comp.keys[i]]
      /\ \A old \in Request : Sound(old) /\ Letter(old) => owner'[old.key] = old.field
      /\ \A g \in Fields : OwnedBy(panel[g].comp.keys, g)'
  BY <1>1, <1>2, <1>5, OwnedStays
<1>7. /\ typed' \in 0..MaxKeys /\ owner' \in [Keys -> Fields \cup {NoField}]
      /\ \A k \in Keys : k > typed' => owner'[k] = NoField
      /\ Types(f) => /\ owner'[typed'] = f /\ typed' \in Keys
                     /\ \A k \in Keys : owner[k] \in Fields => k < typed'
  BY <1>1, <1>5, OwnerGrows
<1>8. /\ key \in 0..MaxKeys
      /\ what = "letter" => key \in Keys
  BY <1>5, <1>7, KeyboardAssumption DEF Keys
<1>9. sent \in Request
  <2>1. panel[f].comp \in Composition /\ index \in Nat
    BY <1>1, <1>2, Elements, KeyboardAssumption
  <2> QED BY <1>2, <1>4, <1>8, <2>1, KeyboardAssumption DEF Request
<1>10. PICK request \in Request :
          /\ request.cmd = cmd /\ request.index = index /\ request.field = f /\ request.seen = panel[f].comp
          /\ cmd = "K" => request.what = what /\ request.key = key
          /\ request.open /\ request = sent
  BY <1>9
<1>11. /\ call' = [for |-> for, field |-> f, what |-> what, key |-> key]
       /\ Connect(request)
  BY <1>10 DEF Asks, Ask
<1> HIDE DEF sent
<1>12. call'.for = for /\ call'.field = f /\ call'.what = what /\ call'.key = key
  BY <1>11
<1>13. /\ queue' \in Seq(Request) /\ Len(queue') <= Backlog /\ Len(queue) \in Nat
       /\ \/ queue' = queue /\ answer' = Closed
          \/ /\ answer' = NoAnswer /\ Len(queue') = Len(queue) + 1 /\ queue'[Len(queue) + 1] = request
             /\ \A i \in 1..Len(queue) : queue'[i] = queue[i]
             /\ queue' # <<>>
  BY <1>1, <1>11, Connected
<1>14. \A i \in 1..Len(queue') :
          \/ i \in 1..Len(queue) /\ queue'[i] = queue[i]
          \/ i = Len(queue) + 1 /\ i = Len(queue') /\ queue'[i] = request /\ answer' = NoAnswer
  BY <1>13
<1>15. ~Idle' /\ answer'.is # "reply" /\ answer' \in {NoAnswer, Closed}
  BY <1>4, <1>12, <1>13, NoneApart, EmptyFacts DEF Idle
<1>16. /\ \A i \in 1..Len(queue) : ~queue[i].open
       /\ current # Nobody => ~current.open
  BY <1>1, <1>2 DEF LineInv
<1>17. KeyboardTypeOK'
  <2>1. target' \in Fields \cup {NoField}
    BY <1>1, <1>2, <1>4 DEF KeyboardTypeOK, FrontendTypeOK
  <2>2. call' \in [for : {None, "focus", "first", "key", "choose", "reset"},
                   field : Fields \cup {NoField}, key : 0..MaxKeys,
                   what : {None, "letter", "space", "escape", "other", "release"}]
    BY <1>2, <1>4, <1>8, <1>11
  <2>3. FrontendTypeOK'
    BY <1>1, <1>2, <1>7, <2>1, <2>2 DEF KeyboardTypeOK, FrontendTypeOK, Shown
  <2>4. answer' \in [is : {"none", "closed", "reply"}, reply : Reply]
    BY <1>15, EmptyFacts DEF NoAnswer, Closed
  <2>5. SocketTypeOK'
    BY <1>1, <1>13, <2>4 DEF KeyboardTypeOK, SocketTypeOK
  <2> QED BY <1>1, <1>2, <2>3, <2>5 DEF KeyboardTypeOK, BrokerTypeOK
<1>18. FocusInv'
  <2>1. target' \in {NoField, focus'} \/ call'.for = "reset"
    BY <1>4, <1>12
  <2>2. call'.for \in {"focus", "first", "key", "choose"} =>
           call'.field = focus' /\ target' = focus' /\ focus' \in Fields \ Secret
    BY <1>4, <1>12
  <2>3. call'.for = "reset" => call'.field \in Fields
    BY <1>2, <1>12
  <2>4. call'.for \in {"focus", "choose"} => call'.what = None
    BY <1>4, <1>12
  <2>5. paged' => "page" \in paging'
    BY <1>2 DEF Shown
  <2> QED BY <2>1, <2>2, <2>3, <2>4, <2>5 DEF FocusInv
<1>19. EnteredInv'
  BY <1>1, <1>2, <1>6 DEF EnteredInv
<1>20. PanelInv'
  BY <1>6 DEF PanelInv
<1>21. TypedInv'
  <2>1. SUFFICES ASSUME InFlight' PROVE /\ call'.key = typed' /\ typed' \in Keys /\ owner'[typed'] = call'.field
                                        /\ \A j \in 1..Len(entered') : entered'[j].key # typed'
    BY <1>7 DEF TypedInv
  <2>2. what = "letter"
    BY <1>12, <2>1 DEF InFlight
  <2>3. \A j \in 1..Len(entered) : entered[j].key \in Keys /\ owner[entered[j].key] \in Fields
    BY <1>1, Elements DEF EnteredInv
  <2>4. \A j \in 1..Len(entered) : entered[j].key < typed' /\ typed' \in Nat /\ entered[j].key \in Nat
    BY <1>1, <1>5, <1>7, <2>2, <2>3, Elements
  <2>5. \A j \in 1..Len(entered) : entered[j].key # typed'
    BY <2>4
  <2> QED BY <1>2, <1>5, <1>7, <1>12, <2>2, <2>5
<1>22. LineInv'
  <2>1. Asked(request)'
    BY <1>4, <1>10, <1>12 DEF Asked
  <2> QED BY <1>14, <1>15, <1>16, <2>1 DEF LineInv, Asked
<1>23. KeysInv'
  <2>1. \A old \in Request : Sound(old) => Sound(old)'
    BY <1>6 DEF Sound, Letter
  <2>2. Sound(request)'
    BY <1>4, <1>5, <1>7, <1>8, <1>10 DEF Sound, Letter
  <2>3. current # Nobody => Sound(current)'
    BY <1>1, <2>1 DEF KeyboardTypeOK, SocketTypeOK, KeysInv
  <2>4. \A j \in 1..Len(queue') : Sound(queue[j])'
    BY <1>1, <1>14, <2>1, <2>2, Elements DEF KeysInv, Sound, Letter
  <2>5. what = "letter" => Before(typed') /\ \A j \in 1..Len(queue) : Letter(queue[j]) => queue[j].key < typed'
    <3>1. SUFFICES ASSUME what = "letter"
                   PROVE  Before(typed') /\ \A j \in 1..Len(queue) : Letter(queue[j]) => queue[j].key < typed'
      OBVIOUS
    <3>2. \A k \in Keys : owner[k] \in Fields => k < typed'
      BY <1>5, <1>7, <3>1
    <3>3. \A i \in 1..Len(comp.keys) : comp.keys[i] < typed'
      BY <1>1, <3>2, Elements DEF KeysInv
    <3>4. Asking => current.key < typed'
      <4>1. Asking => current # Nobody /\ current \in Request /\ Sound(current) /\ Letter(current)
        BY <1>1 DEF KeyboardTypeOK, SocketTypeOK, BrokerTypeOK, KeysInv, Asking
      <4> QED BY <3>2, <4>1 DEF Sound, Request
    <3>5. \A j \in 1..Len(queue) : Letter(queue[j]) => queue[j].key < typed'
      <4>1. \A j \in 1..Len(queue) : queue[j] \in Request /\ Sound(queue[j])
        BY <1>1, Elements DEF KeysInv
      <4> QED BY <3>2, <4>1 DEF Sound, Request
    <3> QED BY <3>3, <3>4, <3>5 DEF Before
  <2>6. \A k : Before(k) => Before(k)'
    BY <1>2 DEF Before, Asking, Letter
  <2>7. Letter(request) => request.key = typed' /\ what = "letter"
    BY <1>4, <1>5, <1>10 DEF Letter
  <2>8. Letter(request) => Before(request.key)'
    BY <2>5, <2>6, <2>7 DEF Before, Asking, Letter
  <2>9. \A j \in 1..Len(queue) : Letter(queue[j]) => Before(queue[j].key)
    BY <1>1 DEF KeysInv
  <2>10. \A j \in 1..Len(queue') : Letter(queue'[j]) => Before(queue[j].key)'
    BY <1>2, <1>14, <2>8, <2>9 DEF Before, Asking, Letter
  <2>11. \A i, j \in 1..Len(queue') :
            i < j /\ Letter(queue'[i]) /\ Letter(queue'[j]) => queue'[i].key < queue'[j].key
    <3>1. TAKE i \in 1..Len(queue'), j \in 1..Len(queue')
    <3>2. HAVE i < j /\ Letter(queue'[i]) /\ Letter(queue'[j])
    <3>3. i \in 1..Len(queue) /\ queue'[i] = queue[i]
      BY <1>13, <1>14, <3>2
    <3>4. CASE j \in 1..Len(queue) /\ queue'[j] = queue[j]
      BY <1>1, <3>2, <3>3, <3>4 DEF KeysInv
    <3>5. CASE queue'[j] = request
      BY <2>5, <2>7, <3>2, <3>3, <3>5
    <3> QED BY <1>14, <3>4, <3>5
  <2>12. call'.for = "first" /\ call'.what = "letter" =>
            /\ Before(call.key)'
            /\ \A j \in 1..Len(queue') : Letter(queue'[j]) => queue'[j].key < call'.key
    <3>1. for = "first" => ~Letter(request)
      BY <1>4, <1>10 DEF Letter
    <3>2. \A j \in 1..Len(queue') : for = "first" /\ Letter(queue'[j]) => j \in 1..Len(queue) /\ queue'[j] = queue[j]
      BY <1>14, <3>1
    <3> QED BY <1>2, <1>5, <1>12, <2>5, <3>2 DEF Before, Asking, Letter
  <2>13. Asking => \A i \in 1..Len(comp.keys) : comp.keys[i] < current.key
    BY <1>1 DEF KeysInv
  <2>14. /\ Rising(comp.keys) /\ \A i \in 1..Len(comp.keys) : comp.keys[i] >= i
         /\ \A i \in 1..Len(comp.keys) : owner[comp.keys[i]] \in Fields \ Secret
    BY <1>1 DEF KeysInv
  <2> QED BY <1>2, <1>6, <2>3, <2>4, <2>10, <2>11, <2>12, <2>13, <2>14 DEF KeysInv, Rising, Asking, Letter
<1>24. for \in {"key", "choose"} =>
          /\ Live /\ queue = <<>> /\ current = Nobody /\ broker # "telling"
          /\ comp \in {Empty, panel[f].comp} /\ target = f
  <2>1. for \in {"key", "choose"} => Live /\ target = f
    BY <1>2, <1>3, <1>4 DEF Live
  <2>2. for \in {"key", "choose"} => current = Nobody /\ Len(queue) = 0
    <3>1. Live => Len(queue) = 0
      BY <1>1, <1>13, <1>16 DEF LiveInv
    <3> QED BY <1>1, <1>16, <2>1, <3>1 DEF LiveInv
  <2>3. current = Nobody => broker # "telling"
    BY <1>1 DEF KeyboardTypeOK, BrokerTypeOK
  <2>4. Len(queue) = 0 => queue = <<>>
    BY <1>1, Elements, EmptySeq
  <2> QED BY <1>1, <1>3, <2>1, <2>2, <2>3, <2>4 DEF LiveInv
<1>25. ChoiceInv'
  <2>1. \A i \in 1..Len(queue') : queue'[i].cmd = "S" => i = 1 /\ current = Nobody /\ Fits(queue[i])'
    <3>1. TAKE i \in 1..Len(queue')
    <3>2. HAVE queue'[i].cmd = "S"
    <3>3. CASE i \in 1..Len(queue) /\ queue'[i] = queue[i]
      BY <1>1, <1>2, <3>2, <3>3 DEF ChoiceInv, Fits
    <3>4. CASE i = Len(queue) + 1 /\ queue'[i] = request
      <4>1. for = "choose" /\ Len(queue) = 0 /\ i = 1
        BY <1>4, <1>10, <1>24, <3>2, <3>4
      <4>2. index < ListSize
        BY <1>2, KeyboardAssumption
      <4> QED BY <1>2, <1>10, <1>24, <3>4, <4>1, <4>2 DEF Fits
    <3> QED BY <1>14, <3>3, <3>4
  <2> QED BY <1>1, <1>2, <2>1 DEF ChoiceInv, ChoiceReached, Fits
<1>26. AnswerInv'
  <2>1. broker = "telling" => heard.comp = comp /\ ~current.open
    BY <1>1, <1>2 DEF AnswerInv, LineInv, KeyboardTypeOK, BrokerTypeOK
  <2> QED BY <1>2, <1>15, <2>1 DEF AnswerInv
<1>27. LiveInv'
  <2>1. SUFFICES ASSUME Live' PROVE LiveInv'
    BY DEF LiveInv
  <2>2. for \in {"key", "choose"}
    BY <1>4, <1>12, <2>1, NoneApart DEF Live
  <2>3. /\ Live /\ queue = <<>> /\ current = Nobody /\ comp \in {Empty, panel[f].comp}
        /\ target = f /\ target' = f
    BY <1>4, <1>24, <2>2
  <2>4. \A i \in 1..Len(queue') : queue'[i].open
    BY <1>10, <1>14, <2>3
  <2>5. OwnedBy(comp.keys, target)'
    BY <1>1, <1>2, <1>6, <2>3 DEF LiveInv, OwnedBy
  <2>6. New(comp.keys)'
    BY <1>1, <1>2, <2>3 DEF LiveInv, New
  <2> QED BY <1>2, <2>3, <2>4, <2>5, <2>6 DEF LiveInv
<1> QED BY <1>17, <1>18, <1>19, <1>20, <1>21, <1>22, <1>23, <1>25, <1>26, <1>27 DEF KInv

\* A call that ends without a result keeps the invariant: what is left of it is closed.
LEMMA DropsKeep ==
    ASSUME KInv, Drops, UNCHANGED <<listening, focus, paging, typed, owner, paged>>, UNCHANGED brokerVars
    PROVE  KInv'
<1>1. /\ KeyboardTypeOK /\ FocusInv /\ EnteredInv /\ PanelInv /\ TypedInv /\ LineInv
      /\ KeysInv /\ ChoiceInv /\ AnswerInv /\ LiveInv
  BY DEF KInv
<1>2. /\ broker' = broker /\ heard' = heard /\ comp' = comp /\ deaths' = deaths
      /\ call' = NoCall /\ answer' = NoAnswer /\ target' = NoField
      /\ UNCHANGED <<listening, focus, paging, typed, owner, paged>>
  BY DEF Drops, brokerVars
<1>3. /\ call'.for = None /\ Idle' /\ ~InFlight' /\ answer'.is = "none"
  BY <1>2, EmptyFacts, NoneApart DEF NoCall, Idle, InFlight
<1>4. /\ queue' \in Seq(Request) /\ Len(queue') = Len(queue)
      /\ \A i \in 1..Len(queue) : ~queue'[i].open /\ Kept(queue'[i], queue[i])
      /\ current = Nobody => current' = Nobody
      /\ current # Nobody => current' \in Request /\ current' # Nobody /\ ~current'.open /\ Kept(current', current)
  BY DEF Drops
<1>5. Asking' <=> Asking
  BY <1>1, <1>2, <1>4 DEF Asking, Letter, Kept, KeyboardTypeOK, BrokerTypeOK
<1>6. entered' \in Seq([field : Fields, key : Keys]) /\ EnteredInv'
  <2>1. \A j \in 1..Len(entered) : owner'[entered[j].key] = entered[j].field
    BY <1>1, <1>2 DEF EnteredInv
  <2>2. CASE entered' = entered
    BY <1>1, <2>1, <2>2 DEF EnteredInv, KeyboardTypeOK, FrontendTypeOK
  <2>3. CASE InFlight /\ entered' = Append(entered, [field |-> call.field, key |-> call.key])
    <3>1. call.key \in Keys /\ owner'[call.key] = call.field /\ \A j \in 1..Len(entered) : entered[j].key # call.key
      BY <1>1, <1>2, <2>3 DEF TypedInv
    <3>2. call.field \in Fields
      BY <1>1, <2>3 DEF FocusInv, InFlight
    <3> QED BY <1>1, <2>1, <2>3, <3>1, <3>2, OneEnters
  <2> QED BY <2>2, <2>3 DEF Drops
<1>7. KeyboardTypeOK'
  <2>1. NoAnswer \in [is : {"none", "closed", "reply"}, reply : Reply]
    BY EmptyFacts DEF NoAnswer
  <2>2. SocketTypeOK'
    BY <1>1, <1>2, <1>4, <2>1 DEF KeyboardTypeOK, SocketTypeOK
  <2>3. NoCall \in [for : {None, "focus", "first", "key", "choose", "reset"},
                    field : Fields \cup {NoField}, key : 0..MaxKeys,
                    what : {None, "letter", "space", "escape", "other", "release"}]
    BY KeyboardAssumption DEF NoCall
  <2>4. FrontendTypeOK'
    BY <1>1, <1>2, <1>6, <2>3 DEF KeyboardTypeOK, FrontendTypeOK, Drops
  <2>5. BrokerTypeOK'
    BY <1>1, <1>2, <1>4 DEF KeyboardTypeOK, BrokerTypeOK
  <2> QED BY <2>2, <2>4, <2>5 DEF KeyboardTypeOK
<1>8. FocusInv'
  BY <1>1, <1>2, <1>3, NoneApart DEF FocusInv
<1>9. PanelInv'
  <2>1. Same
    BY <1>2 DEF Same
  <2>2. \A g \in Fields : OwnedBy(panel[g].comp.keys, g)'
    BY <1>1, <2>1, OwnedStays DEF Drops
  <2> QED BY <2>2 DEF PanelInv
<1>10. TypedInv'
  BY <1>1, <1>2, <1>3 DEF TypedInv
<1>11. LineInv'
  BY <1>2, <1>3, <1>4 DEF LineInv
<1>12. KeysInv'
  <2>1. current # Nobody => Sound(current)'
    BY <1>1, <1>2, <1>4 DEF KeysInv, Sound, Letter, Kept
  <2>2. \A j \in 1..Len(queue') : Sound(queue[j])'
    BY <1>1, <1>2, <1>4 DEF KeysInv, Sound, Letter, Kept
  <2>3. \A j \in 1..Len(queue) : queue'[j].key = queue[j].key /\ (Letter(queue'[j]) <=> Letter(queue[j]))
    BY <1>4 DEF Letter, Kept
  <2>4. Asking => current'.key = current.key
    BY <1>1, <1>4 DEF Asking, Kept, KeyboardTypeOK, BrokerTypeOK
  <2>5. \A j \in 1..Len(queue') : Letter(queue'[j]) => Before(queue[j].key)'
    BY <1>1, <1>2, <1>4, <1>5, <2>3, <2>4 DEF KeysInv, Before
  <2>6. \A i, j \in 1..Len(queue') :
           i < j /\ Letter(queue'[i]) /\ Letter(queue'[j]) => queue'[i].key < queue'[j].key
    BY <1>1, <1>4, <2>3 DEF KeysInv
  <2>7. Asking' => \A i \in 1..Len(comp.keys) : comp.keys[i] < current'.key
    BY <1>1, <1>5, <2>4 DEF KeysInv
  <2>8. call'.for # "first"
    BY <1>3, NoneApart
  <2>9. current' # Nobody => current # Nobody
    BY <1>4
  <2> QED BY <1>1, <1>2, <2>1, <2>2, <2>5, <2>6, <2>7, <2>8, <2>9 DEF KeysInv, Rising, Letter
<1>13. ChoiceInv'
  <2>1. \A i \in 1..Len(queue') : queue'[i].cmd = "S" => i = 1 /\ current' = Nobody /\ Fits(queue[i])'
    BY <1>1, <1>2, <1>4 DEF ChoiceInv, Fits, Kept
  <2>2. broker' = "asking" /\ current'.cmd = "S" => Fits(current)'
    BY <1>1, <1>2, <1>4 DEF ChoiceInv, Fits, Kept, KeyboardTypeOK, BrokerTypeOK
  <2> QED BY <1>1, <1>2, <2>1, <2>2 DEF ChoiceInv, ChoiceReached, Fits
<1>14. AnswerInv'
  BY <1>1, <1>2, <1>3, <1>4 DEF AnswerInv, KeyboardTypeOK, BrokerTypeOK
<1>15. LiveInv'
  BY <1>2, KeyboardAssumption, FrontendAssumption DEF LiveInv, Live
<1> QED BY <1>6, <1>7, <1>8, <1>9, <1>10, <1>11, <1>12, <1>13, <1>14, <1>15 DEF KInv

\* The answer to a call is shown and entered; behind a focus the key follows.
LEMMA SucceedsKeep ==
    ASSUME KInv, Answered, ~(Abandoned /\ answer' = NoAnswer /\ queue' = queue), UNCHANGED brokerVars
    PROVE  KInv'
<1>1. /\ KeyboardTypeOK /\ FocusInv /\ EnteredInv /\ PanelInv /\ TypedInv /\ LineInv
      /\ KeysInv /\ ChoiceInv /\ AnswerInv /\ LiveInv
  BY DEF KInv
<1>2. PICK reply \in Reply : reply = answer.reply
  BY <1>1, Succeeding
<1>3. /\ Succeeded(reply) /\ Good(reply)
      /\ comp \in {Empty, reply.comp} /\ queue = <<>> /\ current = Nobody
      /\ call.for \in {"focus", "first", "key", "choose"}
      /\ call.field \in Fields \ Secret /\ focus = call.field /\ target = call.field
      /\ UNCHANGED <<listening, current, focus, paging, typed, owner, paged>>
  BY <1>1, <1>2, Succeeding
<1>4. /\ broker' = broker /\ heard' = heard /\ comp' = comp /\ deaths' = deaths
      /\ broker \notin {"asking", "telling", "cleaning"} /\ broker' \notin {"asking", "telling", "cleaning"}
  BY <1>1, <1>3 DEF brokerVars, KeyboardTypeOK, BrokerTypeOK
<1>5. /\ reply.comp \in Composition /\ reply.commit \in Texts /\ Len(queue) = 0
      /\ target' = target /\ panel' = Filled(call.field, reply.comp)
  BY <1>3, EmptySeq DEF Reply, Succeeded
<1>6. /\ panel' \in [Fields -> [comp : Composition, cursor : 0..ListSize - 1, current : BOOLEAN]]
      /\ panel'[call.field].comp = reply.comp
      /\ \A g \in Fields \ {call.field} : panel'[g].comp = panel[g].comp
  <2>1. PICK f \in Fields : f = call.field
    BY <1>3
  <2>2. PICK composition \in Composition : composition = reply.comp
    BY <1>5
  <2>3. panel' = Filled(f, composition)
    BY <1>5, <2>1, <2>2
  <2>4. /\ panel' \in [Fields -> [comp : Composition, cursor : 0..ListSize - 1, current : BOOLEAN]]
        /\ panel'[f].comp = composition /\ \A g \in Fields \ {f} : panel'[g].comp = panel[g].comp
    BY <1>1, <2>3, Panels
  <2> QED BY <2>1, <2>2, <2>4
<1>7. PanelInv'
  <2> SUFFICES ASSUME NEW f \in Fields PROVE OwnedBy(panel[f].comp.keys, f)'
    BY DEF PanelInv
  <2>2. CASE f = call.field
    BY <1>3, <1>6, <2>2 DEF Good, OwnedBy
  <2>3. CASE f # call.field
    BY <1>1, <1>3, <1>6, <2>3 DEF PanelInv, OwnedBy
  <2> QED BY <2>2, <2>3
<1>8. CASE call.for = "first"
  <2> DEFINE sent == [cmd |-> "K", what |-> call.what, key |-> call.key, index |-> 0, field |-> call.field,
                      seen |-> reply.comp, open |-> TRUE]
  <2>1. /\ call' = [call EXCEPT !.for = "key"] /\ Connect(sent) /\ entered' = entered
    BY <1>3, <1>8 DEF Succeeded
  <2>2. /\ call \in [for : {None, "focus", "first", "key", "choose", "reset"},
                     field : Fields \cup {NoField}, key : 0..MaxKeys,
                     what : {None, "letter", "space", "escape", "other", "release"}]
    BY <1>1 DEF KeyboardTypeOK, FrontendTypeOK
  <2>3. /\ call'.for = "key" /\ call'.field = call.field /\ call'.what = call.what /\ call'.key = call.key
        /\ call' \in [for : {None, "focus", "first", "key", "choose", "reset"},
                      field : Fields \cup {NoField}, key : 0..MaxKeys,
                      what : {None, "letter", "space", "escape", "other", "release"}]
    BY <2>1, <2>2
  <2>4. PICK request \in Request :
           /\ request.cmd = "K" /\ request.what = call.what /\ request.key = call.key
           /\ request.field = call.field /\ request.open /\ request = sent
    <3>1. sent \in Request
      BY <1>3, <1>5, <2>2 DEF Request
    <3> QED BY <3>1
  <2>5. Connect(request)
    BY <2>1, <2>4
  <2> HIDE DEF sent
  <2>6. /\ queue' \in Seq(Request) /\ Len(queue') <= Backlog /\ answer' \in {Closed, NoAnswer}
        /\ \A i \in 1..Len(queue') : i = 1 /\ i = Len(queue') /\ queue'[i] = request /\ answer' = NoAnswer
    <3>1. /\ queue' \in Seq(Request) /\ Len(queue') <= Backlog
          /\ \/ queue' = queue /\ answer' = Closed
             \/ answer' = NoAnswer /\ Len(queue') = Len(queue) + 1 /\ queue'[Len(queue) + 1] = request
      BY <1>1, <2>5, Connected
    <3>2. CASE queue' = queue /\ answer' = Closed
      BY <1>5, <3>1, <3>2
    <3>3. CASE answer' = NoAnswer /\ Len(queue') = Len(queue) + 1 /\ queue'[Len(queue) + 1] = request
      BY <1>5, <3>1, <3>3
    <3> QED BY <3>1, <3>2, <3>3
  <2>7. answer'.is # "reply" /\ ~Idle'
    BY <2>3, <2>6, EmptyFacts, NoneApart DEF Idle
  <2>8. reply.comp = Empty /\ comp = Empty /\ Len(comp.keys) = 0
    BY <1>3, <1>8, EmptyFacts DEF Good
  <2>9. KeyboardTypeOK'
    <3>1. answer' \in [is : {"none", "closed", "reply"}, reply : Reply]
      BY <2>6, EmptyFacts DEF NoAnswer, Closed
    <3>2. SocketTypeOK'
      BY <1>1, <1>3, <2>6, <3>1 DEF KeyboardTypeOK, SocketTypeOK
    <3>3. FrontendTypeOK'
      BY <1>1, <1>3, <1>5, <1>6, <2>1, <2>3 DEF KeyboardTypeOK, FrontendTypeOK
    <3>4. BrokerTypeOK'
      BY <1>1, <1>3, <1>4 DEF KeyboardTypeOK, BrokerTypeOK
    <3> QED BY <3>2, <3>3, <3>4 DEF KeyboardTypeOK
  <2>10. FocusInv'
    BY <1>1, <1>3, <1>5, <2>3 DEF FocusInv
  <2>11. EnteredInv'
    BY <1>1, <1>3, <2>1 DEF EnteredInv
  <2>12. TypedInv'
    BY <1>1, <1>3, <1>8, <2>1, <2>3 DEF TypedInv, InFlight
  <2>13. LineInv'
    BY <1>3, <2>3, <2>4, <2>6, <2>7 DEF LineInv, Asked
  <2>14. KeysInv'
    <3>1. \A j \in 1..Len(queue') : Sound(queue[j])'
      BY <1>1, <1>3, <1>8, <2>4, <2>6 DEF Sound, Letter, TypedInv, InFlight
    <3>2. \A k : Before(k)'
      BY <1>4, <2>8 DEF Before, Asking
    <3>3. \A i, j \in 1..Len(queue') : ~(i < j)
      BY <2>6
    <3>4. ~Asking' /\ current' = Nobody /\ call'.for # "first"
      BY <1>3, <1>4, <2>3 DEF Asking
    <3>5. \A j \in 1..Len(queue') : Before(queue[j].key)'
      BY <3>2 DEF Before
    <3> QED BY <1>4, <2>8, <3>1, <3>3, <3>4, <3>5 DEF KeysInv, Rising
  <2>15. ChoiceInv'
    <3>1. \A i \in 1..Len(queue') : queue'[i].cmd # "S"
      BY <2>4, <2>6
    <3> QED BY <1>1, <1>4, <3>1 DEF ChoiceInv, ChoiceReached
  <2>16. AnswerInv'
    BY <1>4, <2>7 DEF AnswerInv
  <2>17. LiveInv'
    BY <1>3, <1>4, <2>4, <2>6, <2>8 DEF LiveInv, OwnedBy, New
  <2> QED BY <1>7, <2>9, <2>10, <2>11, <2>12, <2>13, <2>14, <2>15, <2>16, <2>17 DEF KInv
<1>9. CASE call.for # "first"
  <2>1. /\ call' = NoCall /\ queue' = queue /\ answer' = NoAnswer
        /\ entered' = entered \o (IF focus = call.field THEN Into(call.field, reply.commit) ELSE <<>>)
                      \o (IF reply.result = 0 /\ call.what = "letter" THEN Into(call.field, <<call.key>>) ELSE <<>>)
    BY <1>3, <1>9 DEF Succeeded
  <2>2. /\ call'.for = None /\ Idle' /\ ~InFlight' /\ answer'.is = "none"
    BY <2>1, EmptyFacts, NoneApart DEF NoCall, Idle, InFlight
  <2>3. PICK text \in Texts :
           /\ entered' = entered \o Into(call.field, text) /\ OwnedBy(text, call.field)
           /\ New(text) /\ Rising(text) /\ (text # <<>> => reply.comp = Empty)
    <3>1. CASE reply.result = 0 /\ call.what = "letter"
      <4>1. reply.commit = <<>> /\ reply.comp = Empty
        BY <1>3, <3>1 DEF Good
      <4>2. InFlight
        BY <1>1, <1>3, <1>9, <3>1, NoneApart DEF FocusInv, InFlight
      <4>3. call.key \in Keys /\ owner[call.key] = call.field /\ \A j \in 1..Len(entered) : entered[j].key # call.key
        BY <1>1, <4>2 DEF TypedInv
      <4>4. <<call.key>> \in Texts /\ Len(<<call.key>>) = 1 /\ <<call.key>>[1] = call.key
        BY <4>3 DEF Texts
      <4>5. entered' = entered \o Into(call.field, <<call.key>>)
        <5>1. Into(call.field, <<>>) = <<>>
          BY DEF Into
        <5>2. entered \in Seq([field : Fields, key : Keys])
          BY <1>1, Elements
        <5>3. entered \o <<>> = entered
          BY <5>2, ConcatEmptySeq
        <5> QED BY <1>3, <2>1, <3>1, <4>1, <5>1, <5>3
      <4>6. OwnedBy(<<call.key>>, call.field) /\ New(<<call.key>>) /\ Rising(<<call.key>>)
        BY <4>3, <4>4 DEF OwnedBy, New, Rising
      <4> QED BY <4>1, <4>4, <4>5, <4>6
    <3>2. CASE ~(reply.result = 0 /\ call.what = "letter")
      <4>1. entered \in Seq([field : Fields, key : Keys]) /\ Into(call.field, reply.commit) \in Seq([field : Fields, key : Keys])
        <5>1. entered \in Seq([field : Fields, key : Keys])
          BY <1>1, Elements
        <5>2. /\ DOMAIN reply.commit = 1..Len(reply.commit) /\ Len(reply.commit) \in Nat
              /\ \A i \in 1..Len(reply.commit) : reply.commit[i] \in Keys
          BY <1>5, LenProperties, ElementOfSeq DEF Texts
        <5> QED BY <1>3, <5>1, <5>2 DEF Into
      <4>2. entered \o Into(call.field, reply.commit) \in Seq([field : Fields, key : Keys])
        BY <4>1, ConcatProperties
      <4>3. (entered \o Into(call.field, reply.commit)) \o <<>> = entered \o Into(call.field, reply.commit)
        BY <4>2, ConcatEmptySeq
      <4>4. entered' = entered \o Into(call.field, reply.commit)
        BY <1>3, <2>1, <3>2, <4>3
      <4> QED BY <1>3, <1>5, <4>4 DEF Good
    <3> QED BY <3>1, <3>2
  <2>4. /\ entered' \in Seq([field : Fields, key : Keys]) /\ EnteredInv'
        /\ \A j \in 1..Len(entered') :
              \/ \E i \in 1..Len(entered) : entered'[j] = entered[i]
              \/ \E i \in 1..Len(text) : entered'[j].key = text[i]
    <3>1. /\ \A i \in 1..Len(text) : owner'[text[i]] = call.field
          /\ \A j \in 1..Len(entered) : owner'[entered[j].key] = entered[j].field
      BY <1>1, <1>3, <2>3 DEF OwnedBy, EnteredInv
    <3> QED BY <1>1, <1>3, <2>3, <3>1, Enters
  <2>5. KeyboardTypeOK'
    <3>1. NoAnswer \in [is : {"none", "closed", "reply"}, reply : Reply]
      BY EmptyFacts DEF NoAnswer
    <3>2. SocketTypeOK'
      BY <1>1, <1>3, <2>1, <3>1 DEF KeyboardTypeOK, SocketTypeOK
    <3>3. NoCall \in [for : {None, "focus", "first", "key", "choose", "reset"},
                      field : Fields \cup {NoField}, key : 0..MaxKeys,
                      what : {None, "letter", "space", "escape", "other", "release"}]
      BY KeyboardAssumption DEF NoCall
    <3>4. FrontendTypeOK'
      BY <1>1, <1>3, <1>5, <1>6, <2>1, <2>4, <3>3 DEF KeyboardTypeOK, FrontendTypeOK
    <3>5. BrokerTypeOK'
      BY <1>1, <1>3, <1>4 DEF KeyboardTypeOK, BrokerTypeOK
    <3> QED BY <3>2, <3>4, <3>5 DEF KeyboardTypeOK
  <2>6. FocusInv'
    BY <1>1, <1>3, <1>5, <2>2, NoneApart DEF FocusInv
  <2>7. TypedInv'
    BY <1>1, <1>3, <2>2 DEF TypedInv
  <2>8. \A i \in 1..Len(queue') : FALSE
    BY <1>5, <2>1
  <2>9. LineInv'
    BY <1>3, <2>1, <2>2, <2>8 DEF LineInv
  <2>10. KeysInv'
    <3>1. call'.for # "first" /\ ~Asking' /\ current' = Nobody
      BY <1>3, <1>4, <2>2, NoneApart DEF Asking
    <3> QED BY <1>1, <1>3, <1>4, <2>8, <3>1 DEF KeysInv, Rising
  <2>11. ChoiceInv'
    BY <1>1, <1>4, <2>8 DEF ChoiceInv, ChoiceReached
  <2>12. AnswerInv'
    BY <1>4, <2>2 DEF AnswerInv
  <2>13. LiveInv'
    <3>1. comp \in {Empty, reply.comp} /\ target' = call.field /\ panel'[call.field].comp = reply.comp
      BY <1>3, <1>5, <1>6
    <3>2. CASE comp = Empty
      BY <1>3, <1>4, <2>8, <3>1, <3>2, EmptyFacts DEF LiveInv, OwnedBy, New
    <3>3. CASE comp = reply.comp /\ comp # Empty
      <4>1. text = <<>>
        BY <2>3, <3>3
      <4>2. Len(text) = 0
        BY <4>1
      <4>3. New(comp.keys)' /\ OwnedBy(comp.keys, target)'
        BY <1>3, <1>4, <2>4, <3>1, <3>3, <4>2 DEF Good, New, OwnedBy
      <4> QED BY <1>3, <1>4, <2>8, <3>1, <4>3 DEF LiveInv
    <3> QED BY <3>1, <3>2, <3>3
  <2> QED BY <1>7, <2>4, <2>5, <2>6, <2>7, <2>9, <2>10, <2>11, <2>12, <2>13 DEF KInv
<1> QED BY <1>8, <1>9

-----------------------------------------------------------------------------
(* The steps of the broker. *)

\* What only the frontend changes.
LEMMA FrontendStays ==
    ASSUME KInv, UNCHANGED frontendVars
    PROVE  /\ FrontendTypeOK' /\ FocusInv' /\ EnteredInv' /\ PanelInv' /\ TypedInv'
           /\ (InFlight' <=> InFlight) /\ (Live' <=> Live) /\ (Idle' <=> Idle)
           /\ UNCHANGED <<focus, target, panel, paging, call, typed, owner, entered, paged>>
<1>1. UNCHANGED <<focus, target, panel, paging, call, typed, owner, entered, paged>>
  BY DEF frontendVars
<1>2. FrontendTypeOK /\ FocusInv /\ EnteredInv /\ PanelInv /\ TypedInv
  BY DEF KInv, KeyboardTypeOK
<1>3. FrontendTypeOK'
  BY <1>1, <1>2 DEF FrontendTypeOK
<1>4. FocusInv'
  BY <1>1, <1>2 DEF FocusInv
<1>5. EnteredInv' /\ PanelInv'
  BY <1>1, <1>2 DEF EnteredInv, PanelInv, OwnedBy
<1>6. (InFlight' <=> InFlight) /\ (Live' <=> Live) /\ (Idle' <=> Idle)
  BY <1>1 DEF InFlight, Live, Idle
<1>7. TypedInv'
  BY <1>1, <1>2, <1>6 DEF TypedInv
<1> QED BY <1>1, <1>3, <1>4, <1>5, <1>6, <1>7

\* A request is accepted; one that is not understood is dropped.
LEMMA AcceptKeeps ==
    ASSUME KInv, Accept, UNCHANGED frontendVars
    PROVE  KInv'
<1> DEFINE n == Len(queue')
<1>1. /\ KeyboardTypeOK /\ FocusInv /\ EnteredInv /\ PanelInv /\ TypedInv /\ LineInv
      /\ KeysInv /\ ChoiceInv /\ AnswerInv /\ LiveInv
  BY DEF KInv
<1>2. /\ FrontendTypeOK' /\ FocusInv' /\ EnteredInv' /\ PanelInv' /\ TypedInv'
      /\ (Live' <=> Live) /\ (Idle' <=> Idle)
      /\ target' = target /\ panel' = panel /\ call' = call /\ owner' = owner /\ entered' = entered
  BY FrontendStays
<1>3. PICK head \in Request : head = queue[1]
  BY <1>1, LineServed DEF Accept
<1>4. /\ queue # <<>> /\ Head(queue) = head /\ broker = "idle" /\ current = Nobody
      /\ listening' = listening /\ heard' = heard /\ comp' = comp /\ deaths' = deaths
      /\ broker' \in {"idle", "asking"}
      /\ \/ broker' = "asking" /\ current' = head /\ answer' = answer
         \/ /\ broker' = "idle" /\ current' = Nobody
            /\ answer' = IF head.open THEN Closed ELSE answer
  <2>1. queue # <<>> /\ Head(queue) = head
    BY <1>1, <1>3, LineServed DEF Accept
  <2>2. broker = "idle" /\ current = Nobody
    BY <1>1 DEF Accept, KeyboardTypeOK, BrokerTypeOK
  <2> QED BY <2>1, <2>2 DEF Accept
<1>5. /\ queue' \in Seq(Request) /\ n \in Nat /\ Len(queue) = n + 1 /\ 1 \in 1..Len(queue)
      /\ \A i \in 1..n : i \in Nat /\ i + 1 \in 1..Len(queue) /\ queue'[i] = queue[i + 1]
  BY <1>1, LineServed DEF Accept
<1>6. n = Len(queue')
  OBVIOUS
<1> HIDE DEF n
<1>7. current' # Nobody <=> broker' = "asking"
  BY <1>4, NobodyApart
<1>8. head.open => n = 0 /\ answer = NoAnswer /\ ~Idle /\ Asked(head)
  BY <1>1, <1>3, <1>5 DEF LineInv
<1>9. KeyboardTypeOK'
  <2>1. answer' \in [is : {"none", "closed", "reply"}, reply : Reply]
    BY <1>1, <1>4, EmptyFacts DEF KeyboardTypeOK, SocketTypeOK, Closed
  <2>2. SocketTypeOK'
    BY <1>1, <1>4, <1>5, <1>6, <2>1, KeyboardAssumption DEF KeyboardTypeOK, SocketTypeOK
  <2>3. BrokerTypeOK'
    BY <1>1, <1>4, <1>7 DEF KeyboardTypeOK, BrokerTypeOK
  <2> QED BY <1>2, <2>2, <2>3 DEF KeyboardTypeOK
<1>10. LineInv'
  <2>1. current' # Nobody /\ current'.open => n = 0 /\ answer' = NoAnswer /\ ~Idle' /\ Asked(current)'
    BY <1>2, <1>4, <1>8, NobodyApart DEF Asked
  <2>2. \A i \in 1..n : queue'[i].open => i = n /\ answer' = NoAnswer /\ ~Idle' /\ Asked(queue[i])'
    <3>1. TAKE i \in 1..n
    <3>2. HAVE queue'[i].open
    <3>3. i + 1 \in 1..Len(queue) /\ queue'[i] = queue[i + 1] /\ i \in Nat
      BY <1>5
    <3>4. i + 1 = Len(queue) /\ answer = NoAnswer /\ ~Idle /\ Asked(queue[i + 1])
      BY <1>1, <3>2, <3>3 DEF LineInv
    <3>5. ~head.open
      BY <1>5, <1>8, <3>3
    <3>6. i = n /\ answer' = NoAnswer
      BY <1>4, <1>5, <3>3, <3>4, <3>5
    <3> QED BY <1>2, <3>3, <3>4, <3>6 DEF Asked
  <2>3. answer'.is # "reply"
    BY <1>1, <1>4, EmptyFacts DEF LineInv
  <2>4. Idle' => answer' = NoAnswer
    BY <1>1, <1>2, <1>4, <1>8 DEF LineInv
  <2>5. n = 0 => queue' = <<>>
    BY <1>5, <1>6, EmptySeq
  <2> QED BY <1>6, <2>1, <2>2, <2>3, <2>4, <2>5 DEF LineInv
<1>11. KeysInv'
  <2>1. /\ Sound(head) /\ (Letter(head) => Before(head.key))
        /\ \A j \in 1..n : Letter(head) /\ Letter(queue'[j]) => head.key < queue'[j].key
    <3>1. Sound(head) /\ (Letter(head) => Before(head.key))
      BY <1>1, <1>3, <1>5 DEF KeysInv
    <3>2. \A j \in 1..n : 1 < j + 1
      BY <1>5
    <3> QED BY <1>1, <1>3, <1>5, <3>1, <3>2 DEF KeysInv
  <2>2. current' # Nobody => current' = head /\ Sound(current)'
    BY <1>2, <1>4, <2>1 DEF Sound
  <2>3. \A j \in 1..n : Sound(queue[j])'
    BY <1>1, <1>2, <1>5 DEF KeysInv, Sound
  <2>4. Asking' => current' = head /\ Letter(head)
    BY <1>4 DEF Asking
  <2>5. \A j \in 1..n : Letter(queue'[j]) => Before(queue[j].key)'
    <3>1. \A j \in 1..n : Letter(queue'[j]) => \A i \in 1..Len(comp.keys) : comp.keys[i] < queue'[j].key
      BY <1>1, <1>5 DEF KeysInv, Before
    <3>2. \A j \in 1..n : Asking' /\ Letter(queue'[j]) => current'.key < queue'[j].key
      BY <2>1, <2>4
    <3> QED BY <1>4, <3>1, <3>2 DEF Before
  <2>6. \A i, j \in 1..n : i < j /\ Letter(queue'[i]) /\ Letter(queue'[j]) => queue'[i].key < queue'[j].key
    <3>1. \A i, j \in 1..n : i < j => i + 1 < j + 1
      BY <1>5
    <3> QED BY <1>1, <1>5, <3>1 DEF KeysInv
  <2>7. call.for = "first" /\ call.what = "letter" =>
           /\ Before(call.key)'
           /\ \A j \in 1..n : Letter(queue'[j]) => queue'[j].key < call.key
    <3>1. SUFFICES ASSUME call.for = "first" /\ call.what = "letter"
                   PROVE  /\ Before(call.key)'
                          /\ \A j \in 1..n : Letter(queue'[j]) => queue'[j].key < call.key
      OBVIOUS
    <3>2. Before(call.key) /\ \A j \in 1..Len(queue) : Letter(queue[j]) => queue[j].key < call.key
      BY <1>1, <3>1 DEF KeysInv
    <3>3. Asking' => current'.key < call.key
      BY <1>3, <1>5, <2>4, <3>2
    <3> QED BY <1>2, <1>4, <1>5, <3>2, <3>3 DEF Before
  <2>8. Asking' => \A i \in 1..Len(comp.keys) : comp.keys[i] < current'.key
    BY <2>1, <2>4 DEF Before
  <2> QED BY <1>1, <1>2, <1>4, <1>6, <2>2, <2>3, <2>5, <2>6, <2>7, <2>8 DEF KeysInv, Rising
<1>12. ChoiceInv'
  <2>1. \A i \in 1..n : queue'[i].cmd # "S"
    <3>1. \A i \in 1..n : i + 1 # 1
      BY <1>5
    <3> QED BY <1>1, <1>5, <3>1 DEF ChoiceInv
  <2>2. broker' = "asking" /\ current'.cmd = "S" => Fits(current)'
    BY <1>1, <1>3, <1>4, <1>5 DEF ChoiceInv, Fits
  <2> QED BY <1>1, <1>4, <1>6, <2>1, <2>2 DEF ChoiceInv, ChoiceReached
<1>13. AnswerInv'
  BY <1>4, <1>10, <1>1, EmptyFacts DEF AnswerInv, LineInv
<1>14. LiveInv'
  <2>1. SUFFICES ASSUME Live PROVE LiveInv'
    BY <1>2 DEF LiveInv
  <2>2. head.open /\ \A i \in 1..n : queue'[i].open
    BY <1>1, <1>3, <1>5, <2>1 DEF LiveInv
  <2>3. OwnedBy(comp.keys, target)' /\ New(comp.keys)'
    BY <1>1, <1>2, <1>4, <2>1 DEF LiveInv, OwnedBy, New
  <2>4. answer = NoAnswer /\ comp \in {Empty, panel[target].comp}
    BY <1>1, <1>4, <1>8, <2>1, <2>2 DEF LiveInv
  <2> QED BY <1>2, <1>4, <1>6, <2>2, <2>3, <2>4 DEF LiveInv
<1> QED BY <1>2, <1>9, <1>10, <1>11, <1>12, <1>13, <1>14 DEF KInv

\* The host answers: what it makes of the composition fits the call that waits.
LEMMA HostAnswersKeeps ==
    ASSUME KInv, HostAnswers, UNCHANGED frontendVars
    PROVE  KInv'
<1>1. /\ KeyboardTypeOK /\ FocusInv /\ EnteredInv /\ PanelInv /\ TypedInv /\ LineInv
      /\ KeysInv /\ ChoiceInv /\ AnswerInv /\ LiveInv
  BY DEF KInv
<1>2. /\ FrontendTypeOK' /\ FocusInv' /\ EnteredInv' /\ PanelInv' /\ TypedInv'
      /\ (Live' <=> Live) /\ (Idle' <=> Idle)
      /\ target' = target /\ panel' = panel /\ call' = call /\ owner' = owner /\ entered' = entered
  BY FrontendStays
<1>3. /\ broker = "asking" /\ broker' = "telling" /\ deaths' = deaths
      /\ listening' = listening /\ queue' = queue /\ current' = current /\ answer' = answer
  BY DEF HostAnswers, socketVars
<1>4. PICK reply \in Executed(current) : heard' = reply /\ comp' = reply.comp
  BY DEF HostAnswers
<1>5. /\ current \in Request /\ current # Nobody /\ reply \in Reply /\ comp' \in Composition /\ heard' \in Reply
      /\ comp \in Composition /\ comp.keys \in Texts /\ reply.commit \in Texts
  <2>1. current \in Request /\ current # Nobody /\ comp \in Composition
    BY <1>1, <1>3, NobodyApart DEF KeyboardTypeOK, SocketTypeOK, BrokerTypeOK
  <2>2. reply \in Reply /\ reply.comp \in Composition
    BY <1>1, <1>3, <1>4, HostTyped
  <2> QED BY <1>4, <2>1, <2>2 DEF Composition, Reply
<1>6. /\ (Clears(reply) \/ Keeps(reply) \/ Adds(reply) \/ Converts(reply) \/ Commits(reply))
      /\ current.cmd = "F" => Clears(reply)
  BY <1>4, <1>5, HostForms, FocusClears
<1>7. /\ Sound(current)
      /\ Letter(current) => Asking /\ current.key \in Keys /\ current.field \notin Secret
                            /\ owner[current.key] = current.field
  BY <1>1, <1>3, <1>5 DEF KeysInv, Sound, Asking, Letter
<1>8. Empty.keys = <<>> /\ Len(Empty.keys) = 0 /\ Len(<<>>) = 0
  BY EmptyFacts
\* Where each letter of the composition comes from.
<1>9. /\ Rising(comp.keys)' /\ \A i \in 1..Len(comp'.keys) : comp'.keys[i] >= i
      /\ \A i \in 1..Len(comp'.keys) :
            \/ Letter(current) /\ reply.result = 1 /\ comp'.keys[i] = current.key
            \/ \E j \in 1..Len(comp.keys) : comp'.keys[i] = comp.keys[j]
      /\ reply.commit = <<>> \/ (reply.comp = Empty /\ reply.commit = comp.keys /\ ~Letter(current))
      /\ reply.commit # <<>> => reply.result # 0
  <2>1. Rising(comp.keys) /\ \A i \in 1..Len(comp.keys) : comp.keys[i] >= i
    BY <1>1 DEF KeysInv
  <2>2. CASE Clears(reply)
    BY <1>4, <1>8, <2>2 DEF Clears, Rising
  <2>3. CASE Keeps(reply)
    BY <1>4, <2>1, <2>3 DEF Keeps, Rising
  <2>4. CASE Adds(reply)
    <3>1. current.key \in Keys /\ \A i \in 1..Len(comp.keys) : comp.keys[i] < current.key
      BY <1>1, <1>7, <2>4 DEF Adds, KeysInv
    <3>2. comp'.keys = Append(comp.keys, current.key)
      BY <1>4, <1>5, <2>4 DEF Adds, Composition
    <3> DEFINE more == Append(comp.keys, current.key)
    <3>3. /\ Rising(more) /\ \A i \in 1..Len(more) : more[i] >= i
          /\ \A i \in 1..Len(more) : more[i] = current.key \/ (i \in 1..Len(comp.keys) /\ more[i] = comp.keys[i])
      BY <1>5, <2>1, <3>1, RisingGrows
    <3>4. Rising(comp.keys)'
      BY <3>2, <3>3 DEF Rising
    <3>5. comp'.keys = more
      BY <3>2
    <3> HIDE DEF more
    <3> QED BY <2>4, <3>3, <3>4, <3>5 DEF Adds
  <2>5. CASE Converts(reply)
    <3>1. comp'.keys = comp.keys /\ reply.commit = <<>>
      BY <1>4, <1>5, <2>5 DEF Converts, Composition
    <3> QED BY <2>1, <3>1 DEF Rising
  <2>6. CASE Commits(reply)
    BY <1>4, <1>8, <2>6 DEF Commits, Rising
  <2> QED BY <1>6, <2>2, <2>3, <2>4, <2>5, <2>6
<1>10. KeyboardTypeOK'
  BY <1>1, <1>2, <1>3, <1>5 DEF KeyboardTypeOK, SocketTypeOK, BrokerTypeOK
<1>11. LineInv'
  BY <1>1, <1>2, <1>3 DEF LineInv, Asked
<1>12. KeysInv'
  <2>1. \A i \in 1..Len(comp'.keys) : owner[comp'.keys[i]] \in Fields \ Secret
    BY <1>1, <1>5, <1>7, <1>9 DEF KeysInv, Request
  <2>2. ~Asking'
    BY <1>3 DEF Asking
  <2>3. \A k : Before(k) => \A i \in 1..Len(comp'.keys) : comp'.keys[i] < k
    BY <1>7, <1>9 DEF Before
  <2>4. \A j \in 1..Len(queue) : Letter(queue[j]) => Before(queue[j].key)'
    BY <1>1, <1>3, <2>2, <2>3 DEF KeysInv, Before
  <2>5. call.for = "first" /\ call.what = "letter" => Before(call.key)'
    BY <1>1, <1>2, <2>2, <2>3 DEF KeysInv, Before
  <2>6. Sound(current)' /\ \A j \in 1..Len(queue) : Sound(queue[j])'
    BY <1>1, <1>2, <1>3, <1>7 DEF KeysInv, Sound
  <2> QED BY <1>1, <1>2, <1>3, <1>9, <2>1, <2>2, <2>4, <2>5, <2>6 DEF KeysInv
<1>13. ChoiceInv'
  <2>1. \A i \in 1..Len(queue) : queue[i].cmd # "S"
    BY <1>1, <1>5 DEF ChoiceInv
  <2>2. ChoiceReached'
    <3>1. SUFFICES ASSUME ListSize <= MaxWalk + 1, reply.result = -2 PROVE comp' = Empty
      BY <1>4 DEF ChoiceReached
    <3>2. Keeps(reply)
      BY <1>6, <3>1 DEF Clears, Adds, Converts, Commits
    <3>3. current.cmd = "S" /\ ~Reached(current.index) /\ comp' = comp
      BY <1>4, <3>1, <3>2 DEF Keeps
    <3>4. current.index < ListSize /\ current.index \in Nat
      BY <1>1, <1>3, <1>5, <3>3 DEF ChoiceInv, Fits, Request
    <3> QED BY <3>1, <3>3, <3>4, KeyboardAssumption DEF Reached
  <2> QED BY <1>3, <2>1, <2>2 DEF ChoiceInv
<1>14. current.open /\ call.for # "reset" => Good(heard)'
  <2>1. SUFFICES ASSUME current.open, call.for # "reset" PROVE Good(heard)'
    OBVIOUS
  <2>2. Asked(current) /\ ~Idle /\ answer = NoAnswer /\ queue = <<>>
    BY <1>1, <1>5, <2>1 DEF LineInv
  <2>3. call.for \in {"focus", "first", "key", "choose"}
    BY <1>1, <2>1, <2>2 DEF KeyboardTypeOK, FrontendTypeOK, Idle
  <2>4. CASE call.for \in {"focus", "first"}
    <3>1. Clears(reply)
      BY <1>6, <2>2, <2>4 DEF Asked
    <3> QED BY <1>2, <1>4, <1>8, <3>1 DEF Clears, Good, OwnedBy, New, Rising
  <2>5. CASE call.for \in {"key", "choose"}
    <3>1. /\ Live /\ call.field = target /\ target \in Fields \ Secret
          /\ OwnedBy(comp.keys, target) /\ New(comp.keys)
      BY <1>1, <2>5 DEF FocusInv, Live, LiveInv
    <3>2. Letter(current) =>
             /\ call.for = "key" /\ call.what = "letter" /\ call.key = current.key /\ current.field = target
             /\ \A j \in 1..Len(entered) : entered[j].key # current.key
      <4>1. Letter(current) => call.for = "key" /\ call.what = "letter" /\ call.key = current.key /\ current.field = target
        BY <2>2, <2>5, <3>1 DEF Asked, Letter
      <4>2. Letter(current) => InFlight
        BY <4>1 DEF InFlight
      <4> QED BY <1>1, <4>1, <4>2 DEF TypedInv
    <3>3. call.what = "letter" => Letter(current)
      BY <1>1, <2>2, <2>5, NoneApart DEF FocusInv, Asked, Letter
    <3>4. OwnedBy(comp.keys, target)'
      BY <1>2, <1>7, <1>9, <3>1, <3>2 DEF OwnedBy
    <3>5. New(comp.keys)'
      BY <1>2, <1>9, <3>1, <3>2 DEF New
    <3>6. /\ \A i \in 1..Len(reply.commit) : owner[reply.commit[i]] = target
          /\ \A i \in 1..Len(reply.commit), j \in 1..Len(entered) : entered[j].key # reply.commit[i]
          /\ Rising(reply.commit)
      BY <1>1, <1>8, <1>9, <3>1 DEF KeysInv, OwnedBy, New, Rising
    <3>7. reply.result = 0 /\ call.what = "letter" => reply.commit = <<>> /\ reply.comp = Empty
      <4>1. SUFFICES ASSUME reply.result = 0, call.what = "letter" PROVE reply.commit = <<>> /\ reply.comp = Empty
        OBVIOUS
      <4>2. Keeps(reply)
        BY <1>6, <3>3, <4>1 DEF Clears, Adds, Converts, Commits
      <4> QED BY <3>3, <4>1, <4>2 DEF Keeps
    <3>8. heard'.comp = comp' /\ heard' = reply
      BY <1>4
    <3> QED BY <1>2, <1>9, <2>5, <3>1, <3>4, <3>5, <3>6, <3>7, <3>8 DEF Good, OwnedBy, New, Rising
  <2> QED BY <2>3, <2>4, <2>5
<1>15. AnswerInv'
  <2>1. answer'.is # "reply"
    BY <1>1, <1>3, <1>5 DEF LineInv
  <2> QED BY <1>2, <1>3, <1>4, <1>14, <2>1 DEF AnswerInv
<1>16. LiveInv'
  <2>1. SUFFICES ASSUME Live PROVE LiveInv'
    BY <1>2 DEF LiveInv
  <2>2. current.open /\ \A i \in 1..Len(queue) : queue[i].open
    BY <1>1, <1>5, <2>1 DEF LiveInv
  <2>3. ~Idle
    BY <1>1, <1>5, <2>2 DEF LineInv
  <2>4. call.for \in {"key", "choose"} /\ call.field = target
    BY <1>1, <2>1, <2>3 DEF Live, Idle, FocusInv
  <2>5. Good(heard)'
    BY <1>14, <2>2, <2>4
  <2>6. OwnedBy(comp.keys, target)' /\ New(comp.keys)'
    BY <1>2, <1>4, <2>4, <2>5 DEF Good, OwnedBy, New
  <2> QED BY <1>2, <1>3, <2>2, <2>6 DEF LiveInv
<1> QED BY <1>2, <1>10, <1>11, <1>12, <1>13, <1>15, <1>16 DEF KInv

\* The answer is sent to a frontend that waits; for one that does not, the engine is cleared.
LEMMA TellKeeps ==
    ASSUME KInv, Tell, UNCHANGED frontendVars
    PROVE  KInv'
<1>1. /\ KeyboardTypeOK /\ FocusInv /\ EnteredInv /\ PanelInv /\ TypedInv /\ LineInv
      /\ KeysInv /\ ChoiceInv /\ AnswerInv /\ LiveInv
  BY DEF KInv
<1>2. /\ FrontendTypeOK' /\ FocusInv' /\ EnteredInv' /\ PanelInv' /\ TypedInv'
      /\ (Live' <=> Live) /\ (Idle' <=> Idle)
      /\ target' = target /\ panel' = panel /\ call' = call /\ owner' = owner /\ entered' = entered
  BY FrontendStays
<1>3. /\ broker = "telling" /\ heard' = NoReply /\ listening' = listening /\ queue' = queue
      /\ comp' = comp /\ deaths' = deaths
      /\ \/ current.open /\ answer' = Says(heard) /\ broker' = "idle" /\ current' = Nobody
         \/ ~current.open /\ broker' = "cleaning" /\ answer' = answer /\ current' = current
  BY DEF Tell
<1>4. current \in Request /\ current # Nobody /\ heard \in Reply
  BY <1>1, <1>3, NobodyApart DEF KeyboardTypeOK, SocketTypeOK, BrokerTypeOK
<1>5. current.open => queue = <<>> /\ answer = NoAnswer /\ ~Idle /\ Asked(current)
  BY <1>1, <1>4 DEF LineInv
<1>6. Says(heard).is = "reply" /\ Says(heard).reply = heard
  BY DEF Says
<1>7. KeyboardTypeOK'
  <2>1. Says(heard) \in [is : {"none", "closed", "reply"}, reply : Reply]
    BY <1>4 DEF Says
  <2>2. SocketTypeOK'
    BY <1>1, <1>3, <2>1 DEF KeyboardTypeOK, SocketTypeOK
  <2>3. BrokerTypeOK'
    BY <1>1, <1>3, <1>4, EmptyFacts DEF KeyboardTypeOK, BrokerTypeOK
  <2> QED BY <1>2, <2>2, <2>3 DEF KeyboardTypeOK
<1>8. LineInv'
  <2>1. CASE current.open
    <3>1. \A i \in 1..Len(queue) : FALSE
      BY <1>5, <2>1, EmptySeq
    <3> QED BY <1>2, <1>3, <1>5, <2>1, <3>1 DEF LineInv
  <2>2. CASE ~current.open
    BY <1>1, <1>2, <1>3, <2>2 DEF LineInv, Asked
  <2> QED BY <2>1, <2>2
<1>9. KeysInv'
  <2>1. current' # Nobody => Sound(current)'
    BY <1>1, <1>2, <1>3 DEF KeysInv, Sound, Letter
  <2>2. \A j \in 1..Len(queue) : Sound(queue[j])'
    BY <1>1, <1>2, <1>3 DEF KeysInv, Sound
  <2>3. ~Asking' /\ ~Asking
    BY <1>3 DEF Asking
  <2> QED BY <1>1, <1>2, <1>3, <2>1, <2>2, <2>3 DEF KeysInv, Before, Rising
<1>10. ChoiceInv'
  <2>1. heard'.result # -2
    BY <1>3, EmptyFacts
  <2>2. \A i \in 1..Len(queue) : queue[i].cmd # "S"
    BY <1>1, <1>4 DEF ChoiceInv
  <2> QED BY <1>3, <2>1, <2>2 DEF ChoiceInv, ChoiceReached
<1>11. AnswerInv'
  <2>1. CASE current.open
    <3>1. call.for # "reset" => Good(heard)
      BY <1>1, <1>3, <2>1 DEF AnswerInv
    <3>2. heard.comp = comp
      BY <1>1, <1>3 DEF AnswerInv
    <3>3. answer'.reply = heard /\ broker' # "telling"
      BY <1>3, <1>6, <2>1
    <3> QED BY <1>2, <1>3, <3>1, <3>2, <3>3 DEF AnswerInv, Good, OwnedBy, New
  <2>2. CASE ~current.open
    <3>1. answer.is # "reply" /\ answer' = answer /\ broker' # "telling"
      BY <1>1, <1>3, <1>4, <2>2 DEF LineInv
    <3> QED BY <3>1 DEF AnswerInv
  <2> QED BY <2>1, <2>2
<1>12. LiveInv'
  <2>1. SUFFICES ASSUME Live PROVE LiveInv'
    BY <1>2 DEF LiveInv
  <2>2. current.open /\ \A i \in 1..Len(queue) : queue[i].open
    BY <1>1, <1>4, <2>1 DEF LiveInv
  <2>3. OwnedBy(comp.keys, target)' /\ New(comp.keys)'
    BY <1>1, <1>2, <1>3, <2>1 DEF LiveInv, OwnedBy, New
  <2>4. answer' # NoAnswer /\ current' = Nobody
    BY <1>3, <1>6, <2>2, EmptyFacts
  <2> QED BY <1>2, <1>3, <2>2, <2>3, <2>4 DEF LiveInv
<1> QED BY <1>2, <1>7, <1>8, <1>9, <1>10, <1>11, <1>12 DEF KInv

\* The engine is empty again, after a request that was abandoned or a new start.
LEMMA CleansKeep ==
    ASSUME KInv, HostCleans \/ Starts, UNCHANGED frontendVars
    PROVE  KInv'
<1>1. /\ KeyboardTypeOK /\ FocusInv /\ EnteredInv /\ PanelInv /\ TypedInv /\ LineInv
      /\ KeysInv /\ ChoiceInv /\ AnswerInv /\ LiveInv
  BY DEF KInv
<1>2. /\ FrontendTypeOK' /\ FocusInv' /\ EnteredInv' /\ PanelInv' /\ TypedInv'
      /\ (Live' <=> Live) /\ (Idle' <=> Idle)
      /\ target' = target /\ panel' = panel /\ call' = call /\ owner' = owner /\ entered' = entered
  BY FrontendStays
<1>3. /\ broker \in {"cleaning", "down"} /\ broker' = "idle" /\ current' = Nobody /\ comp' = Empty
      /\ queue' = queue /\ answer' = answer /\ heard' = heard /\ deaths' = deaths /\ listening' \in BOOLEAN
  BY <1>1 DEF HostCleans, Starts, Escaped, KeyboardTypeOK, SocketTypeOK, BrokerTypeOK
<1>4. Len(Empty.keys) = 0 /\ Empty \in Composition
  BY EmptyFacts
<1>5. KeyboardTypeOK'
  BY <1>1, <1>2, <1>3, <1>4 DEF KeyboardTypeOK, SocketTypeOK, BrokerTypeOK
<1>6. LineInv'
  BY <1>1, <1>2, <1>3 DEF LineInv, Asked
<1>7. KeysInv'
  <2>1. \A k : Before(k)'
    BY <1>3, <1>4 DEF Before, Asking
  <2>2. \A j \in 1..Len(queue) : Sound(queue[j])'
    BY <1>1, <1>2, <1>3 DEF KeysInv, Sound
  <2>3. Before(call.key)' /\ \A j \in 1..Len(queue) : Before(queue[j].key)'
    BY <2>1 DEF Before
  <2> QED BY <1>1, <1>2, <1>3, <1>4, <2>2, <2>3 DEF KeysInv, Rising, Asking
<1>8. ChoiceInv'
  BY <1>1, <1>3 DEF ChoiceInv, ChoiceReached, Fits
<1>9. AnswerInv'
  <2>1. answer.is = "reply" /\ call.for # "reset" => Good(answer.reply)
    BY <1>1 DEF AnswerInv
  <2> QED BY <1>2, <1>3, <2>1 DEF AnswerInv, Good, OwnedBy, New
<1>10. LiveInv'
  BY <1>1, <1>2, <1>3, <1>4 DEF LiveInv, OwnedBy, New
<1> QED BY <1>2, <1>5, <1>6, <1>7, <1>8, <1>9, <1>10 DEF KInv

\* The broker ends: the open connection is closed wherever it is.
LEMMA DiesKeeps ==
    ASSUME KInv, Dies, UNCHANGED frontendVars
    PROVE  KInv'
<1>1. /\ KeyboardTypeOK /\ FocusInv /\ EnteredInv /\ PanelInv /\ TypedInv /\ LineInv
      /\ KeysInv /\ ChoiceInv /\ AnswerInv /\ LiveInv
  BY DEF KInv
<1>2. /\ FrontendTypeOK' /\ FocusInv' /\ EnteredInv' /\ PanelInv' /\ TypedInv'
      /\ (Live' <=> Live) /\ (Idle' <=> Idle)
      /\ target' = target /\ panel' = panel /\ call' = call /\ owner' = owner /\ entered' = entered
  BY FrontendStays
<1>3. /\ broker' = "down" /\ listening' = FALSE /\ queue' = <<>> /\ current' = Nobody
      /\ heard' = NoReply /\ comp' = comp /\ deaths' = deaths + 1 /\ deaths < MaxDeaths
      /\ answer' = IF Waiting THEN Closed ELSE answer
  BY DEF Dies
<1>4. Len(queue') = 0 /\ queue' \in Seq(Request) /\ \A i \in 1..Len(queue') : FALSE
  BY <1>3, EmptySeq
<1>5. Waiting => ~Idle
  BY <1>1, Elements, LenProperties DEF Waiting, LineInv
<1>6. KeyboardTypeOK'
  <2>1. answer' \in [is : {"none", "closed", "reply"}, reply : Reply]
    BY <1>1, <1>3, EmptyFacts DEF KeyboardTypeOK, SocketTypeOK, Closed
  <2>2. SocketTypeOK'
    <3>1. listening' \in BOOLEAN /\ current' \in Request \cup {Nobody}
      BY <1>3
    <3>2. Len(queue') <= Backlog
      BY <1>4, KeyboardAssumption
    <3> QED BY <1>4, <2>1, <3>1, <3>2 DEF SocketTypeOK
  <2>3. BrokerTypeOK'
    BY <1>1, <1>3, EmptyFacts, DeathsAssumption DEF KeyboardTypeOK, BrokerTypeOK
  <2> QED BY <1>2, <2>2, <2>3 DEF KeyboardTypeOK
<1>7. LineInv'
  BY <1>1, <1>2, <1>3, <1>4, <1>5 DEF LineInv
<1>8. KeysInv'
  <2>1. Before(call.key) => Before(call.key)'
    BY <1>2, <1>3 DEF Before, Asking
  <2> QED BY <1>1, <1>2, <1>3, <1>4, <2>1 DEF KeysInv, Rising, Asking
<1>9. ChoiceInv'
  BY <1>3, <1>4, EmptyFacts DEF ChoiceInv, ChoiceReached
<1>10. AnswerInv'
  <2>1. answer'.is = "reply" => answer' = answer
    BY <1>3, EmptyFacts
  <2>2. answer.is = "reply" /\ call.for # "reset" =>
           Good(answer.reply) /\ (answer.reply.result >= 0 => comp \in {Empty, answer.reply.comp})
    BY <1>1 DEF AnswerInv
  <2> QED BY <1>2, <1>3, <2>1, <2>2 DEF AnswerInv, Good, OwnedBy, New
<1>11. LiveInv'
  <2>1. SUFFICES ASSUME Live PROVE LiveInv'
    BY <1>2 DEF LiveInv
  <2>2. OwnedBy(comp.keys, target)' /\ New(comp.keys)'
    BY <1>1, <1>2, <1>3, <2>1 DEF LiveInv, OwnedBy, New
  <2>3. answer' = NoAnswer => comp \in {Empty, panel[target].comp}
    <3>1. SUFFICES ASSUME answer' = NoAnswer PROVE comp \in {Empty, panel[target].comp}
      OBVIOUS
    <3>2. ~Waiting /\ answer = NoAnswer
      BY <1>3, <3>1, EmptyFacts
    <3>3. broker # "telling"
      BY <1>1, <2>1, <3>2 DEF Waiting, LiveInv, KeyboardTypeOK, BrokerTypeOK
    <3> QED BY <1>1, <2>1, <3>2, <3>3 DEF LiveInv
  <2> QED BY <1>2, <1>3, <1>4, <2>2, <2>3 DEF LiveInv
<1> QED BY <1>2, <1>6, <1>7, <1>8, <1>9, <1>10, <1>11 DEF KInv

-----------------------------------------------------------------------------
(* The theorems. *)

\* The invariant holds at the start: nothing is typed, composed or asked.
LEMMA KInvInit == Init => KInv
<1> SUFFICES ASSUME Init PROVE KInv
  OBVIOUS
<1>1. /\ listening = TRUE /\ queue = <<>> /\ current = Nobody /\ answer = NoAnswer
      /\ broker = "idle" /\ heard = NoReply /\ comp = Empty /\ deaths = 0
      /\ focus = NoField /\ target = NoField /\ panel = [f \in Fields |-> NoPanel]
      /\ paging = {} /\ call = NoCall /\ paged = FALSE
      /\ typed = 0 /\ owner = [n \in Keys |-> NoField] /\ entered = <<>>
  BY DEF Init, BrokerInit, FrontendInit
<1>2. /\ Len(queue) = 0 /\ Len(entered) = 0 /\ Len(comp.keys) = 0 /\ comp.keys = <<>>
      /\ Idle /\ call.for = None /\ answer.is = "none" /\ ~InFlight
  BY <1>1, EmptyFacts, EmptySeq, NoneApart DEF Idle, NoCall, InFlight
<1>3. \A i \in 1..0 : FALSE
  OBVIOUS
<1>4. KeyboardTypeOK
  <2>1. NoAnswer \in [is : {"none", "closed", "reply"}, reply : Reply]
    BY EmptyFacts DEF NoAnswer
  <2>2. SocketTypeOK
    BY <1>1, <1>2, <2>1, KeyboardAssumption DEF SocketTypeOK
  <2>3. BrokerTypeOK
    BY <1>1, EmptyFacts, DeathsAssumption DEF BrokerTypeOK
  <2>4. NoCall \in [for : {None, "focus", "first", "key", "choose", "reset"},
                    field : Fields \cup {NoField}, key : 0..MaxKeys,
                    what : {None, "letter", "space", "escape", "other", "release"}]
    BY KeyboardAssumption DEF NoCall
  <2>5. NoPanel \in [comp : Composition, cursor : 0..ListSize - 1, current : BOOLEAN]
    BY EmptyFacts, KeyboardAssumption DEF NoPanel
  <2>6. FrontendTypeOK
    <3>1. panel \in [Fields -> [comp : Composition, cursor : 0..ListSize - 1, current : BOOLEAN]]
      BY <1>1, <2>5
    <3>2. owner \in [Keys -> Fields \cup {NoField}] /\ typed \in 0..MaxKeys
      BY <1>1, KeyboardAssumption
    <3>3. entered \in Seq([field : Fields, key : Keys])
      BY <1>1
    <3>4. focus \in Fields \cup {NoField} /\ target \in Fields \cup {NoField}
      BY <1>1
    <3>5. paging \subseteq {"page"} /\ paged \in BOOLEAN
      BY <1>1
    <3>6. call = NoCall
      BY <1>1
    <3> HIDE DEF NoCall
    <3> QED BY <2>4, <3>1, <3>2, <3>3, <3>4, <3>5, <3>6 DEF FrontendTypeOK
  <2> QED BY <2>2, <2>3, <2>6 DEF KeyboardTypeOK
<1>5. FocusInv
  BY <1>1, <1>2, NoneApart DEF FocusInv
<1>6. EnteredInv /\ TypedInv
  BY <1>1, <1>2 DEF EnteredInv, TypedInv
<1>7. PanelInv
  BY <1>1, EmptyFacts DEF PanelInv, OwnedBy, NoPanel
<1>8. LineInv
  BY <1>1, <1>2 DEF LineInv
<1>9. KeysInv
  BY <1>1, <1>2, NoneApart DEF KeysInv, Rising, Asking
<1>10. ChoiceInv
  BY <1>1, <1>2, EmptyFacts DEF ChoiceInv, ChoiceReached
<1>11. AnswerInv
  BY <1>1, <1>2 DEF AnswerInv
<1>12. LiveInv
  BY <1>1, KeyboardAssumption DEF LiveInv, Live
<1> QED BY <1>4, <1>5, <1>6, <1>7, <1>8, <1>9, <1>10, <1>11, <1>12 DEF KInv

\* A step that changes nothing keeps the invariant.
LEMMA StutterKeeps ==
    ASSUME KInv, UNCHANGED vars PROVE KInv'
<1>1. UNCHANGED <<listening, queue, current, answer, broker, heard, comp, deaths>> /\ UNCHANGED frontendVars
  BY DEF vars, socketVars, brokerVars
<1>2. /\ FrontendTypeOK' /\ FocusInv' /\ EnteredInv' /\ PanelInv' /\ TypedInv'
      /\ (Live' <=> Live) /\ (Idle' <=> Idle)
      /\ UNCHANGED <<focus, target, panel, paging, call, typed, owner, entered, paged>>
  BY <1>1, FrontendStays
<1>3. KeyboardTypeOK'
  BY <1>1, <1>2 DEF KInv, KeyboardTypeOK, SocketTypeOK, BrokerTypeOK
<1>4. LineInv'
  BY <1>1, <1>2 DEF KInv, LineInv, Asked
<1>5. KeysInv'
  BY <1>1, <1>2 DEF KInv, KeysInv, Rising, Sound, Before, Asking, Letter
<1>6. ChoiceInv'
  BY <1>1 DEF KInv, ChoiceInv, ChoiceReached, Fits
<1>7. AnswerInv'
  BY <1>1, <1>2 DEF KInv, AnswerInv, Good, OwnedBy, New
<1>8. LiveInv'
  BY <1>1, <1>2 DEF KInv, LiveInv, OwnedBy, New
<1> QED BY <1>2, <1>3, <1>4, <1>5, <1>6, <1>7, <1>8 DEF KInv

\* Every step of the frontend and of the broker keeps the invariant.
LEMMA KInvStep == KInv /\ [Next]_vars => KInv'
<1> SUFFICES ASSUME KInv, [Next]_vars PROVE KInv'
  OBVIOUS
<1>1. KeyboardTypeOK /\ FocusInv /\ LineInv
  BY DEF KInv
<1>2. CASE User /\ UNCHANGED brokerVars
  <2>1. /\ listening' = listening /\ current' = current
        /\ Looks \/ \E for, g, cmd, kind, n, c : Asks(for, g, cmd, kind, n, c)
    BY <1>1, <1>2, UserForms
  <2>2. CASE Looks
    BY <1>2, <2>1, <2>2, LooksKeep
  <2>3. ASSUME NEW for, NEW g, NEW cmd, NEW what, NEW n, NEW c, Asks(for, g, cmd, what, n, c)
        PROVE  KInv'
    BY <1>2, <2>1, <2>3, AsksKeep
  <2> QED BY <2>1, <2>2, <2>3
<1>3. CASE Answered /\ UNCHANGED brokerVars
  <2>1. CASE Abandoned /\ answer' = NoAnswer /\ queue' = queue
    <3>1. Drops /\ UNCHANGED <<listening, focus, paging, typed, owner, paged>>
      BY <1>1, <1>3, <2>1, CallDrops
    <3> QED BY <1>3, <3>1, DropsKeep
  <2>2. CASE ~(Abandoned /\ answer' = NoAnswer /\ queue' = queue)
    BY <1>3, <2>2, SucceedsKeep
  <2> QED BY <2>1, <2>2
<1>4. CASE TimesOut /\ UNCHANGED brokerVars
  <2>1. Drops /\ UNCHANGED <<listening, focus, paging, typed, owner, paged>>
    BY <1>1, <1>4, CallDrops
  <2> QED BY <1>4, <2>1, DropsKeep
<1>5. CASE Broker
  <2>1. UNCHANGED frontendVars
    BY <1>5 DEF Broker
  <2>2. CASE Accept
    BY <2>1, <2>2, AcceptKeeps
  <2>3. CASE HostAnswers
    BY <2>1, <2>3, HostAnswersKeeps
  <2>4. CASE Tell
    BY <2>1, <2>4, TellKeeps
  <2>5. CASE HostCleans \/ Starts
    BY <2>1, <2>5, CleansKeep
  <2>6. CASE Dies
    BY <2>1, <2>6, DiesKeeps
  <2> QED BY <1>5, <2>2, <2>3, <2>4, <2>5, <2>6 DEF Broker, BrokerStep, BrokerFault
<1>6. CASE UNCHANGED vars
  BY <1>6, StutterKeeps
<1> QED BY <1>2, <1>3, <1>4, <1>5, <1>6 DEF Next, Frontend, FrontendStep

\* The invariant of the keyboard path holds in every behaviour.
THEOREM KeyboardInvariant == Spec => []KInv
<1> QED BY KInvInit, KInvStep, PTL DEF Spec

\* The keyboard path keeps its types; a composition never has more keys than were typed.
THEOREM KeyboardTypes == Spec => []KeyboardTypeOK
<1>1. KInv => KeyboardTypeOK
  BY DEF KInv
<1> QED BY <1>1, KeyboardInvariant, PTL

\* What is typed in a password field is never sent to the engine (keyboard.cpp:105, 113, 125).
THEOREM SecretsKept == Spec => []SecretsStay
<1>1. KInv => SecretsStay
  <2> SUFFICES ASSUME KInv PROVE SecretsStay
    OBVIOUS
  <2>1. DOMAIN queue = 1..Len(queue) /\ DOMAIN comp.keys = 1..Len(comp.keys)
    BY LenProperties DEF KInv, KeyboardTypeOK, SocketTypeOK, BrokerTypeOK, Composition, Texts
  <2> QED BY <2>1 DEF KInv, KeysInv, Sound, SecretsStay
<1> QED BY <1>1, KeyboardInvariant, PTL

\* Every letter is entered once at most, and in the field it was typed in, whatever timed
\* out, was passed on and was cleared in between (keyboard.cpp:183, 210-214).
THEOREM LettersEnteredOnce == Spec => []EnteredOnce
<1>1. KInv => EnteredOnce
  <2> SUFFICES ASSUME KInv PROVE EnteredOnce
    OBVIOUS
  <2>1. DOMAIN entered = 1..Len(entered)
    BY LenProperties DEF KInv, KeyboardTypeOK, FrontendTypeOK
  <2> QED BY <2>1 DEF KInv, EnteredInv, EnteredOnce
<1> QED BY <1>1, KeyboardInvariant, PTL

\* A field shows the letters typed in it and no others (keyboard.cpp:104-106, keyboard_host.c:66).
THEOREM PreeditsOwned == Spec => []PreeditOwned
<1>1. KInv => PreeditOwned
  <2> SUFFICES ASSUME KInv, NEW f \in Fields, NEW i \in DOMAIN panel[f].comp.keys
               PROVE  owner[panel[f].comp.keys[i]] = f
    BY DEF PreeditOwned
  <2>1. panel[f].comp.keys \in Texts
    BY Elements DEF KInv, Composition
  <2>2. DOMAIN panel[f].comp.keys = 1..Len(panel[f].comp.keys)
    BY <2>1, LenProperties DEF Texts
  <2> QED BY <2>2 DEF KInv, PanelInv, OwnedBy
<1> QED BY <1>1, KeyboardInvariant, PTL

\* A choice is carried out in the list it was made from (keyboard.cpp:112-115).
THEOREM ChoiceFromItsList == Spec => []ChosenWasShown
<1>1. KInv => ChosenWasShown
  BY DEF KInv, ChoiceInv, Fits, ChosenWasShown
<1> QED BY <1>1, KeyboardInvariant, PTL

\* Every candidate of a list within the limits can be chosen (keyboard_host.c:71-78).
THEOREM EveryChoiceReached == Spec => []ChoiceReached
<1>1. KInv => ChoiceReached
  BY DEF KInv, ChoiceInv
<1> QED BY <1>1, KeyboardInvariant, PTL

\* The release of a key that turned a page sends nothing (keyboard.cpp:117-123).
THEOREM PagesStay == Spec => PageStays
<1>1. KInv /\ [Next]_vars => [ReleasePage /\ paged => UNCHANGED <<panel, call, queue>>]_vars
  BY DEF KInv, FocusInv, ReleasePage, AskNothing
<1> QED BY <1>1, KeyboardInvariant, PTL DEF Spec, PageStays
=============================================================================
