-------------------------- MODULE KeyboardFrontend --------------------------
(***************************************************************************)
(* The Fcitx engine of fcitx5/keyboard.cpp.  Fcitx calls it on one thread; *)
(* a request() blocks that thread for 250 ms at most, so an event of the   *)
(* user is handled before the next one is looked at.                       *)
(*                                                                         *)
(*   focus   the field that has the focus                                  *)
(*   target  the field the engine was focused for (target_)                *)
(*   panel   what each field shows: the composition (preedit and           *)
(*           candidates), the cursor in the list, and whether its words    *)
(*           carry the present generation                                  *)
(*   paging  the physical keys in pagingKeys_                              *)
(*   call    the request that is waited for, and what it is for            *)
(*   typed   letters typed; owner[n] is the field of letter n              *)
(*   entered what went into the fields: letters, by commit or because the  *)
(*           key was not accepted and passed on to the application         *)
(*   paged   history: the page key is down, and it turned a page           *)
(*                                                                         *)
(* Password fields are a constant: Fcitx deactivates and activates an      *)
(* input method again when a field becomes or ceases to be one.            *)
(***************************************************************************)
EXTENDS KeyboardSocket

CONSTANTS Secret,      \* password and sensitive fields
          PageSize     \* candidates on a page: 9 in the code

ASSUME FrontendAssumption == Secret \subseteq Fields /\ PageSize \in Nat \ {0}

VARIABLES focus, target, panel, paging, call, typed, owner, entered, paged
frontendVars == <<focus, target, panel, paging, call, typed, owner, entered, paged>>

NoPanel == [comp |-> Empty, cursor |-> 0, current |-> FALSE]
NoCall  == [for |-> None, field |-> NoField, what |-> None, key |-> 0]

FrontendTypeOK ==
    /\ focus \in Fields \cup {NoField} /\ target \in Fields \cup {NoField}
    /\ panel \in [Fields -> [comp : Composition, cursor : 0..ListSize - 1, current : BOOLEAN]]
    /\ paging \subseteq {"page"} /\ paged \in BOOLEAN
    /\ call \in [for : {None, "focus", "first", "key", "choose", "reset"},
                 field : Fields \cup {NoField}, key : 0..MaxKeys,
                 what : {None, "letter", "space", "escape", "other", "release"}]
    /\ typed \in 0..MaxKeys /\ owner \in [Keys -> Fields \cup {NoField}]
    /\ entered \in Seq([field : Fields, key : Keys])

FrontendInit ==
    /\ focus = NoField /\ target = NoField /\ panel = [f \in Fields |-> NoPanel]
    /\ paging = {} /\ call = NoCall /\ paged = FALSE
    /\ typed = 0 /\ owner = [n \in Keys |-> NoField] /\ entered = <<>>

-----------------------------------------------------------------------------
Idle == call.for = None
HasList(f) == panel[f].comp # Empty

Into(f, text) == [i \in DOMAIN text |-> [field |-> f, key |-> text[i]]]

\* generation_ is counted up: no word on any panel can be chosen any more.
Aged == [f \in Fields |-> [panel[f] EXCEPT !.current = FALSE]]

\* clear()
Cleared(f) == [Aged EXCEPT ![f] = NoPanel]

\* The panel of a reply.
Filled(f, composition) ==
    [Aged EXCEPT ![f] = [comp |-> composition, cursor |-> 0, current |-> TRUE]]

Ask(for, f, cmd, what, key, index) ==
    /\ call' = [for |-> for, field |-> f, what |-> what, key |-> key]
    /\ Connect([cmd |-> cmd, what |-> IF cmd = "K" THEN what ELSE None, index |-> index, field |-> f,
                key |-> IF cmd = "K" THEN key ELSE 0, seen |-> panel[f].comp, open |-> TRUE])

AskNothing == UNCHANGED <<call, queue, answer>>

\* A letter the engine does not accept goes to the application.
PassOn(what, key, f) ==
    entered' = IF what = "letter" THEN Append(entered, [field |-> f, key |-> key]) ELSE entered

-----------------------------------------------------------------------------
(* Focus. *)

Activate(f) ==
    /\ Idle /\ focus = NoField /\ focus' = f /\ target' = f
    /\ IF f \in Secret THEN AskNothing ELSE Ask("focus", f, "F", None, 0, 0)
    /\ UNCHANGED <<listening, current, panel, paging, typed, owner, entered, paged>>

\* reset(), also called when the field loses the focus.
Reset(f) ==
    IF target = f
    THEN Ask("reset", f, "R", None, 0, 0) /\ UNCHANGED panel
    ELSE AskNothing /\ panel' = Cleared(f)

Deactivate ==
    /\ Idle /\ focus # NoField /\ focus' = NoField /\ Reset(focus)
    /\ UNCHANGED <<listening, current, target, paging, typed, owner, entered, paged>>

FieldResets ==
    /\ Idle /\ focus # NoField /\ Reset(focus)
    /\ UNCHANGED <<listening, current, focus, target, paging, typed, owner, entered, paged>>

-----------------------------------------------------------------------------
(* Candidates. *)

Choosable(f) == target = f /\ panel[f].current /\ focus = f /\ f \notin Secret

Choose(f, index) ==
    IF Choosable(f) THEN Ask("choose", f, "S", None, 0, index) ELSE AskNothing

\* A candidate is clicked.
Click(index) ==
    /\ Idle /\ focus # NoField /\ HasList(focus) /\ Choose(focus, index)
    /\ UNCHANGED <<listening, current, focus, target, panel, paging, typed, owner, entered, paged>>

\* Arrow keys move the cursor through the list.
MoveCursor ==
    /\ Idle /\ focus # NoField /\ focus \notin Secret /\ target = focus /\ HasList(focus)
    /\ \E c \in 0..ListSize - 1 : panel' = [panel EXCEPT ![focus].cursor = c]
    /\ AskNothing
    /\ UNCHANGED <<listening, current, focus, target, paging, typed, owner, entered, paged>>

-----------------------------------------------------------------------------
(* Keys.  A field that is not the target is made the target with F, and the *)
(* key follows when that has succeeded.                                     *)

SendKey(what, key) ==
    IF target = focus
    THEN Ask("key", focus, "K", what, key, 0) /\ UNCHANGED target
    ELSE Ask("first", focus, "F", what, key, 0) /\ target' = focus

PrivateFaulty(f) == FALSE             \* passwords are looked at when the field is activated only
Private(f) == f \in Secret

PressLetter ==
    /\ Idle /\ focus # NoField /\ typed < MaxKeys
    /\ typed' = typed + 1 /\ owner' = [owner EXCEPT ![typed'] = focus]
    /\ IF Private(focus)
       THEN AskNothing /\ PassOn("letter", typed', focus) /\ UNCHANGED target
       ELSE SendKey("letter", typed') /\ UNCHANGED entered
    /\ UNCHANGED <<listening, current, focus, panel, paging, paged>>

\* Space chooses the candidate under the cursor, a digit one of the page; a digit beyond
\* the page is a key like others.
PressChoice ==
    /\ Idle /\ focus # NoField /\ focus \notin Secret
    /\ IF target = focus /\ HasList(focus)
       THEN /\ \/ Choose(focus, panel[focus].cursor)
               \/ \E i \in 0..PageSize - 1 :
                     LET index == (panel[focus].cursor \div PageSize) * PageSize + i
                     IN  index < ListSize /\ Choose(focus, index)
               \/ Ask("key", focus, "K", "other", 0, 0)
            /\ UNCHANGED target
       ELSE \E what \in {"space", "other"} : SendKey(what, 0)
    /\ UNCHANGED <<listening, current, focus, panel, paging, typed, owner, entered, paged>>

\* The cursor is reset to the first candidate of the page.
Pages == {c \in 0..ListSize - 1 : c % PageSize = 0}

PagingFaulty == paging                \* the key is not remembered
PagingKept == paging \cup {"page"}

PressPage ==
    /\ Idle /\ focus # NoField
    /\ IF focus \notin Secret /\ target = focus /\ HasList(focus)
       THEN /\ \E c \in Pages : panel' = [panel EXCEPT ![focus].cursor = c]
            /\ paging' = PagingKept /\ paged' = TRUE /\ AskNothing /\ UNCHANGED target
       ELSE /\ paging' = paging \ {"page"} /\ paged' = FALSE /\ UNCHANGED panel
            /\ IF focus \in Secret THEN AskNothing /\ UNCHANGED target ELSE SendKey("other", 0)
    /\ UNCHANGED <<listening, current, focus, typed, owner, entered>>

ReleasePage ==
    /\ Idle /\ focus # NoField /\ paging' = paging \ {"page"} /\ paged' = FALSE
    /\ IF "page" \in paging \/ focus \in Secret
       THEN AskNothing /\ UNCHANGED target
       ELSE SendKey("release", 0)
    /\ UNCHANGED <<listening, current, focus, panel, typed, owner, entered>>

PressEscape ==
    /\ Idle /\ focus # NoField /\ focus \notin Secret /\ SendKey("escape", 0)
    /\ UNCHANGED <<listening, current, focus, panel, paging, typed, owner, entered, paged>>

\* A key with Ctrl, Alt or Super is the application's, and ends the composition.
PressControl ==
    /\ Idle /\ focus # NoField /\ focus \notin Secret /\ target = focus
    /\ Ask("reset", focus, "R", None, 0, 0)
    /\ UNCHANGED <<listening, current, focus, target, panel, paging, typed, owner, entered, paged>>

-----------------------------------------------------------------------------
(* The end of request(). *)

\* reset() and the shortcut keys do not look at the answer.
Forget ==
    /\ panel' = Cleared(call.field) /\ target' = NoField /\ call' = NoCall
    /\ UNCHANGED entered

FailFaulty == UNCHANGED <<panel, target>>     \* the error message only

\* The composition is given up: the next key begins with F.
Fail == panel' = Cleared(call.field) /\ target' = NoField

Failed ==
    /\ Fail /\ call' = NoCall
    /\ IF call.for \in {"first", "key"} THEN PassOn(call.what, call.key, call.field)
                                        ELSE UNCHANGED entered

Succeeded(reply) ==
    LET f == call.field IN
    /\ panel' = Filled(f, reply.comp) /\ UNCHANGED target
    /\ IF call.for = "first"
       THEN /\ call' = [call EXCEPT !.for = "key"]
            /\ Connect([cmd |-> "K", what |-> call.what, key |-> call.key, index |-> 0, field |-> f,
                        seen |-> reply.comp, open |-> TRUE])
            /\ UNCHANGED entered
       ELSE /\ call' = NoCall /\ UNCHANGED queue /\ answer' = NoAnswer
            /\ entered' = entered \o (IF focus = f THEN Into(f, reply.commit) ELSE <<>>)
                          \o (IF reply.result = 0 /\ call.what = "letter"
                              THEN Into(f, <<call.key>>) ELSE <<>>)

Abandoned == IF call.for = "reset" THEN Forget ELSE Failed

Answered ==
    /\ ~Idle /\ answer # NoAnswer
    /\ IF call.for # "reset" /\ answer.is = "reply" /\ answer.reply.result >= 0
       THEN Succeeded(answer.reply)
       ELSE Abandoned /\ answer' = NoAnswer /\ UNCHANGED queue
    /\ UNCHANGED <<listening, current, focus, paging, typed, owner, paged>>

\* 250 ms have passed; an answer that comes at this moment is lost.
TimesOut ==
    /\ ~Idle /\ answer.is # "closed" /\ answer' = NoAnswer
    /\ GiveUp /\ Abandoned
    /\ UNCHANGED <<listening, focus, paging, typed, owner, paged>>

User ==
    \/ Deactivate \/ FieldResets \/ MoveCursor \/ PressLetter \/ PressChoice
    \/ PressPage \/ ReleasePage \/ PressEscape \/ PressControl
    \/ \E f \in Fields : Activate(f)
    \/ \E i \in 0..ListSize - 1 : Click(i)

FrontendStep == User \/ Answered \/ TimesOut
=============================================================================
