----------------------------- MODULE InputStack -----------------------------
(***************************************************************************)
(* What the text interpreter promises about its input: sources are nested, *)
(* the words of the innermost one are taken one after the other, and when  *)
(* they are used up the one outside it goes on with the word after the one *)
(* that opened it.  An error gives up what is left of the lines of its own *)
(* source and of those it passes through, up to the innermost terminal     *)
(* session, and of no other.                                               *)
(***************************************************************************)
EXTENDS Integers, Sequences

CONSTANTS Console,  \* the terminal
          Text,     \* the id of a string
          Words     \* most words on a line

VARIABLES levels, \* the sources, outermost first: its id, and the words left on its line
          read,   \* lines read so far from the terminal and from each file
          error,  \* an error is on its way out
          void    \* nothing is promised any more

vars == <<levels, read, error, void>>

Level(id, words) == [id |-> id, words |-> words]
Line(n, len) == {<<n, k>> : k \in 1..len}
Top == levels[Len(levels)]
Outside == SubSeq(levels, 1, Len(levels) - 1)

Init == levels = <<Level(Console, {})>> /\ read[Console] = 0 /\ error = FALSE /\ void = FALSE

\* The innermost source once its next word is taken.
Next1 == LET w == CHOOSE w \in Top.words : \A v \in Top.words : w[2] <= v[2]
         IN Level(Top.id, Top.words \ {w})

Take == /\ ~error /\ Top.words # {}
        /\ levels' = Append(Outside, Next1)
        /\ UNCHANGED <<read, error, void>>

\* The next line, once the words of this one are used up.
Fill == /\ ~error /\ Top.id # Text /\ Top.words = {}
        /\ read' = [read EXCEPT ![Top.id] = @ + 1]
        /\ \E len \in 0..Words :
             levels' = Append(Outside, Level(Top.id, Line(read'[Top.id], len)))
        /\ UNCHANGED <<error, void>>

\* An error in a word, or while the next line is read.
Raise == /\ ~error /\ error' = TRUE
         /\ levels' = Append(Outside, Level(Top.id, {}))
         /\ \/ UNCHANGED read
            \/ Top.id # Text /\ read' = [read EXCEPT ![Top.id] = @ + 1]
         /\ UNCHANGED void

\* The next word opens another source, the terminal perhaps: it is at the start of a
\* file, and has a string whole.
Open == /\ ~error /\ Top.words # {}
        /\ \/ \E len \in 0..Words :
                /\ levels' = Append(Append(Outside, Next1), Level(Text, Line(0, len)))
                /\ UNCHANGED read
           \/ \E id \in DOMAIN read :
                /\ levels' = Append(Append(Outside, Next1), Level(id, {}))
                /\ IF id = Console THEN UNCHANGED read ELSE read' = [read EXCEPT ![id] = 0]
        /\ UNCHANGED <<error, void>>

\* The innermost source is used up.
Close == /\ ~error /\ Len(levels) > 1 /\ Top.words = {}
         /\ levels' = Outside
         /\ UNCHANGED <<read, error, void>>

\* An error leaves a source, and gives up the rest of the line outside it.
Pass == /\ error /\ Len(levels) > 1 /\ Top.id # Console
        /\ levels' = [Outside EXCEPT ![Len(Outside)].words = {}]
        /\ UNCHANGED <<read, error, void>>

\* A terminal session reports it, and goes on.
Catch == /\ error /\ Top.id = Console
         /\ error' = FALSE
         /\ UNCHANGED <<levels, read, void>>

\* All sources but the terminal are given up.
Restart == /\ ~error
           /\ levels' = <<Level(Console, {})>>
           /\ UNCHANGED <<read, error, void>>

Damage == void' = TRUE

Next == Take \/ Fill \/ Raise \/ Open \/ Close \/ Pass \/ Catch \/ Restart \/ Damage

Spec == Init /\ [][Next]_vars
=============================================================================
