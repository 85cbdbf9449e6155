----------------------------- MODULE InputSource -----------------------------
(***************************************************************************)
(* The input of the text interpreter (interp.fth): interact, evaluate and  *)
(* include-file, nested in any way and left by errors at any word, by quit *)
(* or by a signal, and the interact that the debugger runs within a word.  *)
(*                                                                         *)
(* A buffer is memory: it holds the line that was read into it last, and a *)
(* source that is saved and restored is an address, a length and a place   *)
(* in it.  What the words of a line do is left out, apart from those that  *)
(* open or leave a source.                                                 *)
(***************************************************************************)
EXTENDS Integers, Sequences

CONSTANTS Files,    \* what can be included
          Buffers,  \* what allocate can hand out
          Console, Tib, \* source-id 0 and its buffer
          Text,     \* source-id -1, and the memory of a string
          Words,    \* most words on a line
          Lines,    \* lines in a file and on the terminal
          MaxNest   \* bound on the nesting

ASSUME InputAssumption == /\ {Words, Lines, MaxNest} \subseteq Nat \ {0}
                          /\ Console \notin Files /\ Text \notin Files \union {Console}
                          /\ Tib \notin Buffers /\ Text \notin Buffers \union {Tib}

VARIABLES src,   \* 'source, #source, 'source-id and >in
          text,  \* the number of the line that each buffer holds
          read,  \* lines read of each open file and of the terminal
          nest,  \* what runs, outermost first, with the source that was current before
                 \* (interact does not keep it: there it is history)
          run,   \* what the innermost one does
          leave, \* 'exit-interact?
          open, heap, \* the files and the buffers in use
          lost,  \* history: files and buffers that nobody is left to give back
          torn   \* history: a source with words left was overwritten or not given back

vars == <<src, text, read, nest, run, leave, open, heap, lost, torn>>

Source == [buf : Buffers \union {Tib, Text}, id : Files \union {Console, Text},
           len : 0..Words, in : 0..Words]
Frame == [is : {"interact", "evaluate", "include"}, saved : Source]

TypeOK == /\ src \in Source
          /\ text \in [Buffers \union {Tib, Text} -> 0..Lines]
          /\ read \in [Files \union {Console} -> 0..Lines]
          /\ nest \in Seq(Frame) /\ Len(nest) \in 1..MaxNest
          /\ run \in {"refill", "interpret", "raised", "leaving", "ended"}
          /\ leave \in BOOLEAN /\ torn \in BOOLEAN
          /\ open \subseteq Files /\ heap \subseteq Buffers
          /\ lost \subseteq Files \union Buffers
          /\ \A s \in {src} \union {nest[i].saved : i \in DOMAIN nest} : s.in <= s.len

Innermost == nest[Len(nest)]
Outer == SubSeq(nest, 1, Len(nest) - 1)
Input(buf, id, len) == [buf |-> buf, id |-> id, len |-> len, in |-> 0]
AtEnd(s) == s.in = s.len
Run(is, saved) == [is |-> is, saved |-> saved]
Terminal == Input(Tib, Console, 0)

Init == /\ src = Terminal
        /\ text = [b \in Buffers \union {Tib, Text} |-> 0]
        /\ read = [f \in Files \union {Console} |-> 0]
        /\ nest = <<Run("interact", Terminal)>>
        /\ run = "refill"
        /\ leave = FALSE /\ open = {} /\ heap = {} /\ lost = {} /\ torn = FALSE

-----------------------------------------------------------------------------
(***************************************************************************)
(* refill, from interact, interpret-lines, or a word such as [else].       *)
(***************************************************************************)

\* A source other than the current one has words left in this buffer.
Waiting(b) == \E i \in 2..Len(nest) : nest[i].saved.buf = b /\ ~AtEnd(nest[i].saved)

HasNext == src.id # Text /\ read[src.id] < Lines

Refill(goal) ==
  /\ HasNext
  /\ read' = [read EXCEPT ![src.id] = @ + 1]
  /\ text' = [text EXCEPT ![src.buf] = read'[src.id]]
  /\ \E len \in 0..Words : src' = Input(src.buf, src.id, len)
  /\ torn' = (torn \/ Waiting(src.buf))
  /\ run' = goal
  /\ UNCHANGED <<nest, leave, open, heap, lost>>

\* read-line fails, or the line fills the buffer: >in and #source stay.
RefillThrows ==
  /\ src.id \in Files
  /\ read' = [read EXCEPT ![src.id] = IF @ < Lines THEN @ + 1 ELSE @]
  /\ text' = [text EXCEPT ![src.buf] = read'[src.id]]
  /\ run' = "raised"
  /\ torn' = (torn \/ Waiting(src.buf))
  /\ UNCHANGED <<src, nest, leave, open, heap, lost>>

\* At the end of the input the line becomes empty; a string stays where it is.
AtLast == IF src.id = Text THEN [src EXCEPT !.in = src.len] ELSE Input(src.buf, src.id, 0)

\* A word of (interpret that takes all words to the end of the line and refills the source,
\* as [else] and a comment do, on this line or since an earlier one; at the end of the input
\* it just returns.
WordRefills ==
  /\ run = "interpret" /\ AtEnd(src)
  /\ \/ Refill("interpret")
     \/ RefillThrows
     \/ /\ ~HasNext
        /\ src' = AtLast
        /\ UNCHANGED <<text, read, nest, run, leave, open, heap, lost, torn>>

\* interact and interpret-lines, with a next line.
NextLine == run = "refill" /\ (Refill("interpret") \/ RefillThrows)

NoMore == run = "refill" /\ ~HasNext

-----------------------------------------------------------------------------
(***************************************************************************)
(* The words of a line.                                                    *)
(***************************************************************************)
Parsed == [src EXCEPT !.in = @ + 1]
ParsesWord == run = "interpret" /\ ~AtEnd(src)

\* A word is executed or compiled, or skipped by one such as [else].
Word == /\ ParsesWord /\ src' = Parsed
        /\ leave' \in {leave, TRUE}                    \* resume
        /\ UNCHANGED <<text, read, nest, run, open, heap, lost, torn>>

Throw == /\ ParsesWord /\ src' = Parsed
         /\ run' = "raised"
         /\ UNCHANGED <<text, read, nest, leave, open, heap, lost, torn>>

Begin(is, input, then) ==
  /\ ParsesWord /\ Len(nest) < MaxNest
  /\ nest' = Append(nest, Run(is, Parsed))
  /\ src' = input
  /\ run' = then

Evaluate == /\ \E len \in 0..Words : Begin("evaluate", Input(Text, Text, len), "interpret")
            /\ UNCHANGED <<text, read, leave, open, heap, lost, torn>>

Include(f, b) ==
  /\ f \notin open /\ b \notin heap
  /\ Begin("include", Input(b, f, 0), "refill")
  /\ open' = open \union {f} /\ heap' = heap \union {b}
  /\ read' = [read EXCEPT ![f] = 0]
  /\ UNCHANGED <<text, leave, lost, torn>>

\* `/tib allocate throw`, with the file open already.
IncludeFails(f) ==
  /\ ParsesWord /\ src' = Parsed /\ f \notin open
  /\ run' = "raised"
  /\ open' = open \union {f} /\ lost' = lost \union {f}
  /\ UNCHANGED <<text, read, nest, leave, heap, torn>>

\* The debugger's F command, within any word: interact saves no source.
Debug == /\ Begin("interact", Terminal, "refill")
         /\ UNCHANGED <<text, read, leave, open, heap, lost, torn>>

\* quit, and a signal that main catches: files and buffers stay as they are.
Quit == /\ ParsesWord
        /\ nest' = <<Run("interact", Terminal)>> /\ src' = Terminal /\ run' = "refill"
        /\ lost' = open \union heap
        /\ UNCHANGED <<text, read, leave, open, heap, torn>>

-----------------------------------------------------------------------------
(***************************************************************************)
(* The end of a line, of a source and of an error.                         *)
(***************************************************************************)

\* In interact an error ends the line, and either end may be the last.
LineDone ==
  /\ \/ run = "interpret" /\ AtEnd(src) /\ Innermost.is # "evaluate"
     \/ run = "raised" /\ Innermost.is = "interact"
  /\ run' = IF leave /\ Innermost.is = "interact" THEN "leaving" ELSE "refill"
  /\ UNCHANGED <<src, text, read, nest, leave, open, heap, lost, torn>>

\* restore-input, and the error goes on to the next catch.
GiveBackSwallowed == nest' = Outer /\ src' = Innermost.saved /\ run' = "interpret"

GiveBack == /\ nest' = Outer /\ src' = Innermost.saved
            /\ run' = IF run = "raised" THEN run ELSE "interpret"

EndEvaluate ==
  /\ Innermost.is = "evaluate"
  /\ \/ run = "interpret" /\ AtEnd(src)
     \/ run = "raised"
  /\ GiveBack
  /\ UNCHANGED <<text, read, leave, open, heap, lost, torn>>

EndIncludeUncaught ==
  /\ Innermost.is = "include"
  /\ NoMore \/ run = "raised"
  /\ IF run = "raised" THEN UNCHANGED <<open, heap>>
     ELSE open' = open \ {src.id} /\ heap' = heap \ {src.buf}
  /\ GiveBack
  /\ UNCHANGED <<text, read, leave, lost, torn>>

\* The file and the buffer are those of the source as it is now.
EndInclude ==
  /\ Innermost.is = "include"
  /\ NoMore \/ run = "raised"
  /\ open' = open \ {src.id} /\ heap' = heap \ {src.buf}
  /\ GiveBack
  /\ UNCHANGED <<text, read, leave, lost, torn>>

EndInteract ==
  /\ Innermost.is = "interact"
  /\ \/ NoMore /\ src' = AtLast
     \/ run = "leaving" /\ UNCHANGED src
  /\ leave' = FALSE
  /\ IF Len(nest) = 1
       THEN run' = "ended" /\ UNCHANGED <<nest, torn>>
       ELSE /\ nest' = Outer /\ run' = "interpret"
            /\ torn' = (torn \/ src.id # Innermost.saved.id \/ ~AtEnd(Innermost.saved) \/ ~AtEnd(src'))
  /\ UNCHANGED <<text, read, open, heap, lost>>

-----------------------------------------------------------------------------
\* Where a source is torn the model ends: what is interpreted, and freed, after that is
\* not what the frames say.
Next == /\ ~torn
        /\ \/ NextLine \/ WordRefills \/ Word \/ Throw \/ Evaluate \/ Debug \/ Quit
           \/ \E f \in Files, b \in Buffers : Include(f, b)
           \/ \E f \in Files : IncludeFails(f)
           \/ LineDone \/ EndEvaluate \/ EndInclude \/ EndInteract

Spec == Init /\ [][Next]_vars
-----------------------------------------------------------------------------
(***************************************************************************)
(* Properties.                                                             *)
(***************************************************************************)

\* The sources that are in use or will be given back.
Saved == {nest[i].saved : i \in 2..Len(nest)}
InUse == {src} \union Saved

\* Nobody goes back to a source whose file has been closed or whose buffer has been freed,
\* and none is kept for a source that nobody goes back to, but for those that quit, a signal
\* or a failed allocation left, whatever errors and nested sources came between (evaluate,
\* include-file).
SourcesOwned ==
  ~torn => /\ \A s \in InUse : /\ s.id \in open \union {Console, Text}
                              /\ s.buf \in heap \union {Tib, Text}
           /\ \A f \in open \ lost : \E s \in InUse : s.id = f
           /\ \A b \in heap \ lost : \E s \in InUse : s.buf = b

\* The words left on the line that s is at.
Rest(s) == {<<text[s.buf], k>> : k \in s.in+1..s.len}
Levels == [i \in 1..Len(nest) |->
             IF i < Len(nest) THEN [id |-> nest[i+1].saved.id, words |-> Rest(nest[i+1].saved)]
             ELSE [id |-> src.id, words |-> IF run = "interpret" THEN Rest(src) ELSE {}]]

Sources == INSTANCE InputStack WITH levels <- Levels, error <- run = "raised",
                               void <- torn

\* Every word of every source is taken once and in its place, a source goes on after its next
\* line or its caller only when its words are used up, and an error ends at the innermost
\* interact, having given up the rest of the sources it passed through and of no other
\* (evaluate, include-file, interact, refill).
ImplementsInputStack == Sources!Spec

\* `Type 'resume' to return to debugger`: what was interpreted goes on where it was.
ResumeReturns == ~torn
=============================================================================
