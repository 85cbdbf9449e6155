------------------------------ MODULE Compiler ------------------------------
(***************************************************************************)
(* The compiler of CForth: the dictionary that `:`, `:noname`, `create`    *)
(* and `;` build and `forget` cuts, with one thread of one vocabulary, and *)
(* the control structures that the text interpreter may meet outside a     *)
(* definition.  Those are compiled into COMPBUF, with DP moved there, and  *)
(* run when they are closed.                                               *)
(*                                                                         *)
(* Addresses 1..DictSize are the dictionary; COMPBUF lies above it.        *)
(* A header (the name and the link that follows it) is one cell, a token   *)
(* is one cell, and an xt is the address of a code field.  0 is the        *)
(* origin, which ends a thread.                                            *)
(***************************************************************************)
EXTENDS Integers, Sequences

CONSTANTS DictSize, \* cells of the dictionary
          BufSize,  \* cells of COMPBUF
          MaxMarks, \* bound on the control structures open at a time
          MaxRuns   \* bound on the activations of COMPBUF at a time

ASSUME SizesAreNat ==
  DictSize \in Nat /\ BufSize \in Nat \ {0} /\ MaxMarks \in Nat /\ MaxRuns \in Nat

VARIABLES mem,      \* the cells of the dictionary
          dp,       \* DP, the next free cell
          lastp,    \* LASTP, the latest xt
          thread,   \* the newest word of the vocabulary that can be found
          thisdef,  \* THISDEF is set: `reveal` has something to do
          state,    \* STATE
          complevel,\* COMPLEVEL
          saveddp,  \* SAVED_DP
          marks,    \* the marks of control structures on the data stack, the last on top:
                    \* the cells where >resolve will store a branch offset
          exec,     \* what executes: nothing, the text interpreter, or COMPBUF
          running,  \* activations of COMPBUF: [at, end], at = where it goes on
          def,      \* history: a definition is open
          torn,     \* history: a store into what an activation has yet to run
          slip      \* history: what an error, a `;` or a `then` has damaged

dict == <<mem, dp, lastp, thread, thisdef>>
level == <<state, complevel, saveddp, marks>>
control == <<exec, running>>
vars == <<dict, level, control, def, torn, slip>>

Cells == 1..DictSize
COMPBUF == DictSize + 2
Buffer == COMPBUF .. COMPBUF + BufSize - 1
Kinds == {"free", "link", "cf", "code"}
Free == [kind |-> "free", val |-> 0]

\* Header(w): the word at xt w has a header.
Header(w) == w \in Cells /\ w > 1 /\ mem[w].kind = "cf" /\ mem[w - 1].kind = "link"
Words == {w \in Cells : Header(w)}
Link(w) == mem[w - 1].val

\* The words that can be found: those the thread leads to.
Findable == {w \in Words : \A S \in SUBSET Words :
               /\ thread \in Words => thread \in S
               /\ \A v \in S : Link(v) \in Words => Link(v) \in S
               => w \in S}

TypeOK == /\ mem \in [Cells -> [kind : Kinds, val : 0..DictSize]]
          /\ dp \in 1..COMPBUF + BufSize
          /\ lastp \in 0..DictSize
          /\ thread \in 0..DictSize
          /\ thisdef \in BOOLEAN
          /\ state \in {"interpreting", "compiling"}
          /\ complevel \in 0..MaxMarks
          /\ saveddp \in 0..DictSize + 1
          /\ marks \in Seq(Cells \union Buffer) /\ Len(marks) <= MaxMarks
          /\ exec \in {"prompt", "text", "code"}
          /\ running \in Seq([at : Buffer, end : Buffer])
          /\ def \in {"none", "open"}
          /\ torn \in BOOLEAN
          /\ slip \in {"none", "level", "word", "mark"}

\* Bound of the model: n cells are left where DP points.  The code has no such check, except
\* in `allot`, which looks at LIMIT once it has moved DP; what becomes of a dictionary or a
\* COMPBUF that overflows is outside the model.
Room(n) == dp + n - 1 \in (IF dp \in Buffer THEN Buffer ELSE Cells)

\* Whether an activation of COMPBUF has yet to run the cell a.
Ahead(a) == \E i \in DOMAIN running : a \in running[i].at .. running[i].end

\* One cell compiled at DP.
Store(c) == /\ mem' = [a \in Cells |-> IF a = dp THEN c ELSE mem[a]]
            /\ dp' = dp + 1
            /\ torn' = (torn \/ Ahead(dp))

Code == [kind |-> "code", val |-> 0]

-----------------------------------------------------------------------------
(***************************************************************************)
(* Words that the text interpreter executes when it does not compile, and  *)
(* that code may execute.  A program does not nest definitions, and it     *)
(* does not define or forget words inside an interpreted control structure. *)
(***************************************************************************)
CanRun == exec = "code" \/ (exec = "text" /\ state = "interpreting")
CanDefine == CanRun /\ def = "none" /\ complevel = 0

\* header and place_cf: a link to the newest word, and a code field.
Named(newest) == /\ mem' = [mem EXCEPT ![dp] = [kind |-> "link", val |-> thread],
                                      ![dp + 1] = [kind |-> "cf", val |-> 0]]
                 /\ dp' = dp + 2 /\ lastp' = dp + 1
                 /\ thread' = newest
                 /\ UNCHANGED torn

\* `create`, `variable`, `constant` and the like.
Create == /\ CanDefine /\ Room(2)
          /\ Named(dp + 1)
          /\ UNCHANGED <<thisdef, level, control, def, slip>>

\* `:` takes its word out of the thread again (hide).
ColonNotHidden == /\ CanDefine /\ Room(2)
                  /\ Named(dp + 1) /\ thisdef' = TRUE
                  /\ state' = "compiling" /\ def' = "open"
                  /\ UNCHANGED <<complevel, saveddp, marks, control, slip>>

Colon == /\ CanDefine /\ Room(2)
         /\ Named(thread) /\ thisdef' = TRUE
         /\ state' = "compiling" /\ def' = "open"
         /\ UNCHANGED <<complevel, saveddp, marks, control, slip>>

\* `:noname` does not touch THISDEF.
ColonNoname == /\ CanDefine /\ Room(1)
               /\ Store([kind |-> "cf", val |-> 0]) /\ lastp' = dp
               /\ state' = "compiling" /\ def' = "open"
               /\ UNCHANGED <<thread, thisdef, complevel, saveddp, marks, control, slip>>

\* What is left of the thread when w is forgotten (trim).
BelowKeepsIt(w) == {0} \union {v \in Findable : v <= w}
Below(w) == {0} \union {v \in Findable : v < w}

\* `forget`, or a word made by `marker`: DP goes back to the header of w.
Forget(w) ==
  /\ CanDefine /\ w \in Findable
  /\ thread' \in Below(w) /\ \A v \in Below(w) : v <= thread'
  /\ dp' = w - 1
  /\ mem' = [a \in Cells |-> IF a < w - 1 THEN mem[a] ELSE Free]
  /\ UNCHANGED <<lastp, thisdef, level, control, def, torn, slip>>

\* `,` and, in a definition or a control structure, a word to compile.
Comma == /\ exec # "prompt" /\ Room(1)
         /\ Store(Code)
         /\ UNCHANGED <<lastp, thread, thisdef, level, control, def, slip>>

-----------------------------------------------------------------------------
(***************************************************************************)
(* Immediate words.                                                        *)
(***************************************************************************)

\* reveal: LASTP becomes the newest word, whatever it is by now.
Reveal == /\ thread' = IF thisdef THEN lastp ELSE thread
          /\ thisdef' = FALSE

Semicolon == /\ exec = "text" /\ Room(1)
             /\ Store(Code)
             /\ Reveal
             /\ state' = "interpreting" /\ def' = "none"
             /\ slip' = IF thisdef /\ ~Header(lastp) THEN "word" ELSE slip
             /\ UNCHANGED <<lastp, complevel, saveddp, marks, control>>

LeftBracket == /\ exec = "text" /\ state = "compiling"
               /\ state' = "interpreting"
               /\ UNCHANGED <<dict, complevel, saveddp, marks, control, def, torn, slip>>

RightBracket == /\ exec = "text" /\ state = "interpreting"
                /\ state' = "compiling"
                /\ UNCHANGED <<dict, complevel, saveddp, marks, control, def, torn, slip>>

\* `if` and `ahead`: +LEVEL, and a branch whose place is the mark.
If == /\ exec = "text" /\ Len(marks) < MaxMarks
      /\ \/ /\ complevel > 0 \/ state = "compiling"
            /\ complevel' = IF complevel > 0 THEN complevel + 1 ELSE 0
            /\ Room(1) /\ Store(Code) /\ marks' = Append(marks, dp)
            /\ UNCHANGED <<state, saveddp>>
         \/ /\ complevel = 0 /\ state = "interpreting"
            /\ complevel' = 1 /\ saveddp' = dp
            /\ state' = "compiling"
            /\ mem' = mem /\ dp' = COMPBUF + 1 /\ marks' = Append(marks, COMPBUF)
            /\ torn' = (torn \/ Ahead(COMPBUF))
      /\ UNCHANGED <<lastp, thread, thisdef, control, def, slip>>

\* Where >resolve stores.  A mark that an error has left on the stack may lie in what is a
\* header by now.
Mark == marks[Len(marks)]
Astray == Mark \in Cells /\ mem[Mark].kind \in {"link", "cf"}

\* The dictionary once code is stored at the addresses S, of which some may be in COMPBUF.
Written(S) == [a \in Cells |-> IF a \in S THEN Code ELSE mem[a]]

\* -LEVEL, while it compiles.  Back at level 0 it compiles EXIT, moves DP back and runs
\* COMPBUF.
InnerLevel == /\ complevel # 1
              /\ complevel' = IF complevel > 0 THEN complevel - 1 ELSE 0
              /\ mem' = Written({Mark})
              /\ torn' = (torn \/ Ahead(Mark))
              /\ UNCHANGED <<dp, state, saveddp, control>>

LastLevelLateExit == /\ complevel = 1 /\ Room(1) /\ Len(running) < MaxRuns
                     /\ mem' = Written({Mark, saveddp}) /\ dp' = saveddp
                     /\ torn' = (torn \/ Ahead(Mark))
                     /\ complevel' = 0 /\ state' = "interpreting"
                     /\ exec' = "code" /\ running' = Append(running, [at |-> COMPBUF, end |-> dp])
                     /\ UNCHANGED saveddp

LastLevel == /\ complevel = 1 /\ Room(1) /\ Len(running) < MaxRuns
             /\ mem' = Written({Mark, dp}) /\ dp' = saveddp
             /\ torn' = (torn \/ Ahead(Mark) \/ Ahead(dp))
             /\ complevel' = 0 /\ state' = "interpreting"
             /\ exec' = "code" /\ running' = Append(running, [at |-> COMPBUF, end |-> dp])
             /\ UNCHANGED saveddp

\* `then`: >resolve, and -LEVEL.
Then == /\ exec = "text" /\ state = "compiling" /\ marks # <<>>
        /\ marks' = SubSeq(marks, 1, Len(marks) - 1)
        /\ InnerLevel \/ LastLevel
        /\ slip' = IF Astray THEN "mark" ELSE slip
        /\ UNCHANGED <<lastp, thread, thisdef, def>>

-----------------------------------------------------------------------------
(***************************************************************************)
(* The flow of control, and errors.                                        *)
(***************************************************************************)

Refill == /\ exec = "prompt" /\ exec' = "text"
          /\ UNCHANGED <<dict, level, running, def, torn, slip>>

\* The text is used up: a line goes back to the prompt, `evaluate` to the code
\* that called it.
EndOfText == /\ exec = "text"
             /\ exec' = IF running = <<>> THEN "prompt" ELSE "code"
             /\ UNCHANGED <<dict, level, running, def, torn, slip>>

\* The code in COMPBUF interprets another text, and goes on at cell p after it.
Evaluate(p) == /\ exec = "code"
               /\ LET n == Len(running)
                  IN  /\ p \in running[n].at + 1 .. running[n].end
                      /\ running' = [running EXCEPT ![n].at = p]
               /\ exec' = "text"
               /\ UNCHANGED <<dict, level, def, torn, slip>>

CodeExit == /\ exec = "code"
            /\ running' = SubSeq(running, 1, Len(running) - 1)
            /\ exec' = "text"
            /\ UNCHANGED <<dict, level, def, torn, slip>>

Abandoned == /\ state' = "interpreting"
             /\ exec' = "prompt" /\ running' = <<>>
             /\ def' = "none"

\* The stack as THROW leaves it: as deep as it was at the CATCH.
Unwound == \E n \in 0..Len(marks) : marks' = SubSeq(marks, 1, n)

\* An error while a line is interpreted: interact catches it and does `[`.
Throw == /\ exec # "prompt"
         /\ Abandoned
         /\ Unwound
         /\ slip' = IF complevel > 0 THEN "level" ELSE slip
         /\ UNCHANGED <<dict, complevel, saveddp, torn>>

\* `then` after `[`: -LEVEL finds "Conditionals not paired", once >resolve has stored.
Unpaired == /\ exec = "text" /\ state = "interpreting" /\ marks # <<>>
            /\ mem' = Written({Mark})
            /\ torn' = (torn \/ Ahead(Mark))
            /\ Abandoned
            /\ Unwound
            /\ slip' = IF Astray THEN "mark" ELSE IF complevel > 0 THEN "level" ELSE slip
            /\ UNCHANGED <<dp, lastp, thread, thisdef, complevel, saveddp>>

\* `then` without a mark: >resolve stores wherever the number on the stack points.
NoMark == /\ exec = "text" /\ marks = <<>>
          /\ slip' = "mark"
          /\ UNCHANGED <<dict, level, control, def, torn>>

\* Where the dictionary ends, also while DP is in COMPBUF.
DictEndOfDp == dp
DictEnd == IF complevel > 0 THEN saveddp ELSE dp

\* An error with no handler in force, at the prompt: THROW itself resets the
\* compiler, and reveals the definition that was being compiled.
ThrowToHost == /\ exec = "prompt"
               /\ Abandoned
               /\ Reveal
               /\ dp' = DictEnd
               /\ complevel' = 0 /\ marks' = <<>>
               /\ slip' = IF thisdef /\ ~Header(lastp) THEN "word" ELSE slip
               /\ UNCHANGED <<mem, lastp, saveddp, torn>>

\* `quit`, or a signal, after which the host starts `quit`.
Quit == /\ exec # "prompt"
        /\ Abandoned
        /\ complevel' = 0
        /\ slip' = IF complevel > 0 THEN "level" ELSE slip
        /\ UNCHANGED <<dict, saveddp, marks, torn>>

-----------------------------------------------------------------------------
Init == /\ mem = [a \in Cells |-> Free] /\ dp = 1
        /\ lastp = 0 /\ thread = 0 /\ thisdef = FALSE
        /\ state = "interpreting" /\ complevel = 0 /\ saveddp = 0 /\ marks = <<>>
        /\ exec = "prompt" /\ running = <<>>
        /\ def = "none" /\ torn = FALSE /\ slip = "none"

\* Past the first slip the memory of the compiler may hold anything, and COMPBUF
\* may execute anything once it is torn.
Next == /\ slip = "none" /\ ~torn
        /\ \/ Create \/ Colon \/ ColonNoname \/ \E w \in Cells : Forget(w)
           \/ Comma \/ Semicolon \/ LeftBracket \/ RightBracket \/ If \/ Then \/ Unpaired \/ NoMark
           \/ Refill \/ EndOfText \/ \E p \in Buffer : Evaluate(p)
           \/ CodeExit \/ Throw \/ ThrowToHost \/ Quit

Spec == Init /\ [][Next]_vars
-----------------------------------------------------------------------------
(***************************************************************************)
(* Properties.                                                             *)
(***************************************************************************)

\* The thread and every link lead to a word that has a header, further down in
\* the dictionary, or to the origin: a search always ends (header, hide, reveal,
\* trim), whatever errors interrupt a definition, until `;` reveals a word without a
\* header or `then` stores through a mark that is none.
ThreadSound ==
  slip \notin {"word", "mark"} =>
    /\ thread \in {0} \union Words
    /\ \A w \in Words : w < DictEnd /\ Link(w) \in {0} \union Words /\ Link(w) < w

\* The last n of the marks m are in COMPBUF.
Inside(m, n) == n <= Len(m) /\ \A i \in DOMAIN m : i > Len(m) - n => m[i] \in Buffer

\* DP is in COMPBUF exactly while an interpreted control structure is open, the
\* place to go back to is in the dictionary, and each open level has its mark on the
\* data stack, in COMPBUF, so that it can be closed (+LEVEL, -LEVEL, THROW).
HereInPlace ==
  slip = "none" => /\ complevel > 0 <=> dp >= COMPBUF
                   /\ complevel > 0 => saveddp \in 1..DictSize + 1
                   /\ Inside(marks, complevel)

\* An interpreted control structure leaves no trace in the dictionary: neither what it
\* compiles nor what >resolve and EXIT store when it is closed (+LEVEL, -LEVEL, control.fth).
NoTrace == [][complevel > 0 => mem' = mem]_vars

Voc == INSTANCE Vocabulary WITH names <- Findable, open <- (def = "open"),
                                void <- slip \in {"word", "mark"}

\* A word can be found from its `;` on until it is forgotten, over any number of
\* failed definitions (hide, reveal, trim).
ImplementsVocabulary == Voc!Spec

\* The comment on hide says that THISDEF asserts "that there really is a hidden
\* header" (forth.c:1423).
HiddenHeader == thisdef => Header(lastp)

\* The comment in -LEVEL says that it executes the compile buffer "as a colon
\* definition" (forth.c:676), which nothing overwrites before it has returned.
BufferWhole == ~torn
=============================================================================
