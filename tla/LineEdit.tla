------------------------------ MODULE LineEdit ------------------------------
(***************************************************************************)
(* The line editor (lineedit.c): one action per key, for lines that follow *)
(* each other, with the terminal it keeps up to date character by          *)
(* character, the history of History and the completion of words.          *)
(***************************************************************************)
EXTENDS History, SequencesExt

CONSTANTS Space,   \* one of Letters
          Names,   \* the words of the dictionary, in the order of the search
          Cap      \* what the caller has room for

ASSUME EditAssumption == /\ Space \in Letters /\ Cap \in Nat \ {0}
                         /\ Names \in Seq(Seq(Letters))

VARIABLES ed,          \* the line, the cursor in it, and what the terminal has got
          escaping,
          history_num,
          proposal,    \* word, nmatches, thismatch and matchlen, where nmatches is not 0
          typing,      \* between lineedit_start and lineedit_finish
          spilled      \* history: a character of a proposal found no room

editor == <<lastline, saved_length, ed, escaping, history_num, proposal, typing, spilled>>

None == [word |-> <<>>, nmatches |-> 0, thismatch |-> 0, matchlen |-> 0]

EditTypeOK ==
  /\ HistoryTypeOK
  /\ ed.line \in Seq(Letters) /\ Len(ed.line) <= Cap
  /\ ed.this \in 0..Len(ed.line)
  /\ ed.shown \in [1..Cap -> Letters] /\ ed.col \in 0..Cap
  /\ escaping \in {"no", "esc", "bracket", "home", "end", "delete"}
  /\ history_num >= -1 /\ history_num < MaxHistory
  /\ proposal.nmatches \in 0..Len(Names)
  /\ proposal # None => proposal.thismatch < proposal.nmatches
  /\ proposal.matchlen >= Len(proposal.word)
  /\ typing \in BOOLEAN /\ spilled \in BOOLEAN

Fresh == [line |-> <<>>, this |-> 0, shown |-> [i \in 1..Cap |-> Space], col |-> 0]

EditInit == /\ HistoryInit
            /\ ed = Fresh /\ escaping = "no" /\ history_num = -1 /\ proposal = None
            /\ typing = TRUE /\ spilled = FALSE

-----------------------------------------------------------------------------
(***************************************************************************)
(* What is done to the line, each with what it emits.                      *)
(***************************************************************************)
Emit(e, s) == [e EXCEPT !.shown = [i \in 1..Cap |-> IF i - e.col \in 1..Len(s) THEN s[i-e.col]
                                                    ELSE e.shown[i]],
                        !.col = @ + Len(s)]
Backspace(e, n) == [e EXCEPT !.col = @ - n]

\* The loops: what e is after Op was done to it for each of 1 to n.
Times(Op(_, _), n, e) ==
  LET after[i \in 0..n] == IF i = 0 THEN e ELSE Op(after[i-1], i) IN after[n]

LeftOf(e) == SubSeq(e.line, 1, e.this)
RightOf(e) == SubSeq(e.line, e.this + 1, Len(e.line))
AtMost(n, s) == SubSeq(s, 1, Min({n, Len(s)}))

addcharInPlace(e, c) ==
  IF e.this = Cap THEN e
  ELSE [Emit(e, <<c>>) EXCEPT
          !.line = LeftOf(e) \o <<c>> \o AtMost(Cap - 1 - e.this, RightOf(e)), !.this = @ + 1]

\* In a full line the last character falls off.
addchar(e, c) ==
  IF e.this = Cap THEN e
  ELSE LET rest == AtMost(Cap - 1 - e.this, RightOf(e))
       IN [Backspace(Emit(e, <<c>> \o rest), Len(rest))
             EXCEPT !.line = LeftOf(e) \o <<c>> \o rest, !.this = @ + 1]

erase_char(e) ==
  IF e.this = 0 THEN e
  ELSE [Backspace(Emit(Backspace(e, 1), RightOf(e) \o <<Space>>), Len(RightOf(e)) + 1)
          EXCEPT !.line = SubSeq(e.line, 1, e.this - 1) \o RightOf(e), !.this = @ - 1]

GoTo(e, p) == IF p > e.this THEN [Emit(e, SubSeq(e.line, e.this + 1, p)) EXCEPT !.this = p]
              ELSE [Backspace(e, e.this - p) EXCEPT !.this = p]

backward_char(e) == IF e.this = 0 THEN e ELSE GoTo(e, e.this - 1)
forward_char(e) == IF e.this = Len(e.line) THEN e ELSE GoTo(e, e.this + 1)

Erase(n, e) == Times(LAMBDA x, i : erase_char(x), n, e)
Kill(n, e) == Times(LAMBDA x, i : erase_char(forward_char(x)), n, e)

erase_line(e) == Erase(Len(e.line), GoTo(e, Len(e.line)))

\* The places in the line before a space, or after one, or neither.
BeforeSpace(e, p) == p < Len(e.line) /\ e.line[p+1] = Space
AfterSpace(e, p) == p > 0 /\ e.line[p] = Space

forward_word(e) ==
  LET word == Min({p \in e.this..Len(e.line) : ~BeforeSpace(e, p)})
  IN GoTo(e, Min({p \in word..Len(e.line) : p = Len(e.line) \/ BeforeSpace(e, p)}))

WordStart(e, p) == Max({q \in 0..p : q = 0 \/ AfterSpace(e, q)})
WordEnd(e, p) == Min({q \in p..Len(e.line) : q = Len(e.line) \/ BeforeSpace(e, q)})

\* A cursor at the first letter of a word is moved off it; at the end of the line spaces
\* are not passed over.
backward_word(e) ==
  LET atWord == e.this < Len(e.line) /\ ~BeforeSpace(e, e.this) /\ AfterSpace(e, e.this)
      from == IF atWord THEN e.this - 1 ELSE e.this
  IN GoTo(e, WordStart(e, Max({p \in 0..from : p = 0 \/ ~BeforeSpace(e, p)})))

erase_word(e) ==
  LET last == Max({p \in 0..e.this : p = 0 \/ ~AfterSpace(e, p)})
  IN Erase(e.this - WordStart(e, last), e)

-----------------------------------------------------------------------------
(***************************************************************************)
(* Completion.                                                             *)
(***************************************************************************)
Matches(word) ==
  Times(LAMBDA found, i : IF IsPrefix(word, Names[i]) THEN Append(found, Names[i]) ELSE found,
        Len(Names), <<>>)
Behind(name, len) == SubSeq(name, len + 1, Len(name))

\* No word where there are spaces on both sides.
find_word_under_cursor(e) ==
  IF BeforeSpace(e, e.this) /\ AfterSpace(e, e.this) THEN <<>>
  ELSE SubSeq(e.line, WordStart(e, e.this) + 1, WordEnd(e, WordStart(e, e.this)))

ToWordEnd(e) == IF find_word_under_cursor(e) = <<>> THEN e
                ELSE GoTo(e, WordEnd(e, WordStart(e, e.this)))

AddAll(e, s) == Times(LAMBDA x, i : addchar(x, s[i]), Len(s), e)
NoRoom(e, s) == Len(e.line) + Len(s) > Cap

\* What all matches begin with.
Common(word) ==
  LET found == Matches(word)
  IN SubSeq(found[1], 1, Max({n \in Len(word)..Len(found[1]) :
                                Len(Matches(SubSeq(found[1], 1, n))) = Len(found)}))

complete_word ==
  LET word == find_word_under_cursor(ed)
      found == Matches(word)
      new == Behind(found[1], Len(word))
  IN IF word = <<>> \/ found = <<>>
     THEN ed' = ToWordEnd(ed) /\ UNCHANGED <<proposal, spilled>>
     ELSE IF Len(found) = 1
     THEN ed' = addchar(AddAll(ToWordEnd(ed), new), Space) /\ UNCHANGED <<proposal, spilled>>
     ELSE /\ ed' = AddAll(ToWordEnd(ed), new)
          /\ proposal' = [word |-> Common(word), nmatches |-> Len(found),
                          thismatch |-> 0, matchlen |-> Len(found[1])]
          /\ spilled' = NoRoom(ed, new)

\* The proposal that is there is taken out and the next one put in.
Proposed(match, erased) ==
  LET name == Matches(proposal.word)[match+1]
      new == Behind(name, Len(proposal.word))
      base == Erase(erased, ed)
  IN /\ ed' = AddAll(base, new)
     /\ proposal' = [proposal EXCEPT !.thismatch = match, !.matchlen = Len(name)]
     /\ spilled' = (spilled \/ NoRoom(base, new))

NextMatch == (proposal.thismatch + 1) % proposal.nmatches

propose_wordErasesNew ==
  LET name == Matches(proposal.word)[NextMatch+1]
  IN Proposed(NextMatch, Len(name) - Len(proposal.word))

propose_word == Proposed(NextMatch, proposal.matchlen - Len(proposal.word))

-----------------------------------------------------------------------------
(***************************************************************************)
(* lineedit_step.                                                          *)
(***************************************************************************)

\* A recalled line loses its last character if it would fill the room.
get_history(n) ==
  IF InHistory(n)
  THEN /\ ed' = AddAll(erase_line(ed), AtMost(Cap - 1, Recalled(n)))
       /\ history_num' = n
  ELSE UNCHANGED <<ed, history_num>>

Edited(k) ==
  CASE k = "backspace" -> erase_char(ed)
    [] k = "home" -> GoTo(ed, 0)
    [] k = "left" -> backward_char(ed)
    [] k = "delete" -> IF RightOf(ed) = <<>> THEN ed ELSE erase_char(forward_char(ed))
    [] k = "end" -> GoTo(ed, Len(ed.line))
    [] k = "right" -> forward_char(ed)
    [] k = "kill" -> Kill(Len(RightOf(ed)), ed)
    [] k = "wipe" -> erase_line(ed)
    [] k = "werase" -> erase_word(ed)
    [] k \in Letters -> addchar(ed, k)
    [] OTHER -> ed
EditKeys == Letters \union {"backspace", "home", "left", "delete", "end", "right", "kill",
                            "wipe", "werase"}
Keys == EditKeys \union {"escape", "tab", "enter", "eof", "up", "down"}

\* The keys but for the first of an escape sequence; every one but a tab ends a proposal.
Edit(k) == /\ k \in EditKeys
           /\ ed' = Edited(k)
           /\ proposal' = None /\ spilled' = FALSE
           /\ UNCHANGED <<lastline, saved_length, history_num, typing>>

Tab == /\ IF proposal = None THEN complete_word ELSE propose_word
       /\ UNCHANGED <<lastline, saved_length, history_num, typing>>

Recall(n) == /\ get_history(n)
             /\ Validate
             /\ proposal' = None /\ spilled' = FALSE
             /\ UNCHANGED typing

\* lineedit_finish.
Finish == /\ AddToHistory(ed.line)
          /\ typing' = FALSE
          /\ proposal' = None /\ spilled' = FALSE
          /\ UNCHANGED <<ed, history_num>>

Pressed(k) == \/ Edit(k)
              \/ k = "tab" /\ Tab
              \/ k = "up" /\ Recall(history_num + 1)
              \/ k = "down" /\ Recall(history_num - 1)
              \/ k \in {"enter", "eof"} /\ Finish

Key(k) == /\ escaping = "no" /\ k # "escape"
          /\ Pressed(k) /\ UNCHANGED escaping

Escape == /\ escaping \in {"no", "bracket"}
          /\ escaping' = "esc"
          /\ proposal' = None /\ spilled' = FALSE
          /\ UNCHANGED <<lastline, saved_length, ed, history_num, typing>>

\* The second key of an escape sequence, which is lost whatever it is.
EscapeKey(k) ==
  /\ escaping = "esc"
  /\ escaping' = IF k = "[" THEN "bracket" ELSE "no"
  /\ ed' = CASE k = "f" -> forward_word(ed)
             [] k = "b" -> backward_word(ed)
             [] OTHER -> ed
  /\ UNCHANGED <<lastline, saved_length, history_num, proposal, typing, spilled>>

\* The third, which may be a key of its own.
Translated(k) == CASE k = "H" -> "home" [] k = "F" -> "end" [] k = "A" -> "up"
                   [] k = "B" -> "down" [] k = "C" -> "right" [] k = "D" -> "left"
                   [] OTHER -> k
Awaited == [k \in {"2", "5", "3"} |->
              CASE k = "2" -> "home" [] k = "5" -> "end" [] k = "3" -> "delete"]

BracketKey(k) ==
  /\ escaping = "bracket"
  /\ IF k \in DOMAIN Awaited
       THEN /\ escaping' = Awaited[k]
            /\ UNCHANGED <<lastline, saved_length, ed, history_num, proposal, typing, spilled>>
       ELSE escaping' = "no" /\ Pressed(Translated(k))

\* The last: a tilde, or the sequence is dropped with it.
TildeKey(k) ==
  /\ escaping \notin {"no", "esc", "bracket"}
  /\ escaping' = "no"
  /\ IF k = "~" THEN Pressed(escaping)
     ELSE UNCHANGED <<lastline, saved_length, ed, history_num, proposal, typing, spilled>>

\* lineedit_start, for the next line.
Start == /\ ~typing
         /\ ed' = Fresh /\ escaping' = "no" /\ history_num' = -1 /\ typing' = TRUE
         /\ UNCHANGED <<lastline, saved_length, proposal, spilled>>

Step == /\ typing
        /\ \/ \E k \in Keys : Key(k)
           \/ Escape
           \/ \E k \in {"[", "f", "b", "enter"} : EscapeKey(k)
           \/ \E k \in Keys \union DOMAIN Awaited \union {"H", "F", "A", "B", "C", "D"} : BracketKey(k)
           \/ \E k \in {"~", "enter"} : TildeKey(k)

EditNext == Step \/ Start

EditSpec == EditInit /\ [][EditNext]_editor
-----------------------------------------------------------------------------
(***************************************************************************)
(* Properties.                                                             *)
(***************************************************************************)

\* The terminal shows the line, the cursor where it is and nothing behind the line: each
\* operation emits what it changed and steps back (addchar, erase_char and what uses them).
ScreenShowsLine ==
  /\ SubSeq(ed.shown, 1, Len(ed.line)) = ed.line /\ ed.col = ed.this
  /\ \A i \in Len(ed.line)+1..Cap : ed.shown[i] = Space

\* What is before and behind the proposal that a tab has put in the line.
Typed == [before |-> SubSeq(ed.line, 1, ed.this - (proposal.matchlen - Len(proposal.word))),
          behind |-> RightOf(ed)]

\* Further tabs exchange proposals and leave the text on both sides alone, as long as the
\* line had room for the proposals (complete_word, propose_word).
ProposalKeepsTyped ==
  [][proposal # None /\ proposal' # None /\ ~spilled /\ ~spilled' => Typed' = Typed]_editor

LinesKept == [n \in 1..Cardinality(LinesIn(lastline, saved_length)) |->
                TextAt(lastline, Nth(lastline, n - 1))]

Kept == INSTANCE LineHistory WITH lines <- LinesKept

\* The array holds the latest lines in their order, each whole but for the last.
ImplementsLineHistory ==
  Kept!Init /\ [][ \/ typing /\ ~typing' /\ Kept!Remember(ed.line)
                   \/ Kept!Forget ]_LinesKept
=============================================================================
