---------------------------- MODULE LineHistory ----------------------------
(***************************************************************************)
(* What the history of the line editor promises: the latest line first,    *)
(* each line once, lost only from the other end and only when the store is *)
(* full, where the last one may be cut.                                    *)
(***************************************************************************)
EXTENDS Integers, Sequences

CONSTANTS Wide,       \* characters that the history cannot hold
          MaxHistory  \* the store: a line takes its length and one more

VARIABLE lines \* the latest first

Before(n) == SubSeq(lines, 1, n)
After(n) == SubSeq(lines, n + 1, Len(lines))

\* A line with a wide character is found out when the history is next used: it takes
\* the other lines with it.
Spoilt == \E i \in DOMAIN lines : \E k \in DOMAIN lines[i] : lines[i][k] \in Wide

Room[i \in 0..Len(lines')] == IF i = 0 THEN 0 ELSE Room[i-1] + Len(lines'[i]) + 1

\* The lines are h, or those of them that the store has room for.
Holds(h) ==
  /\ Room[Len(lines')] <= MaxHistory
  /\ Len(lines') <= Len(h)
  /\ \A i \in DOMAIN lines' : \/ lines'[i] = h[i]
                              \/ /\ i = Len(lines') /\ Room[i] = MaxHistory
                                 /\ lines'[i] = SubSeq(h[i], 1, Len(lines'[i]))
  /\ Len(lines') < Len(h) => Room[Len(lines')] = MaxHistory

Init == lines = <<>>

Remember(line) ==
  /\ line # <<>>
  /\ \/ Spoilt /\ Holds(<<line>>)
     \/ /\ ~Spoilt /\ \A i \in DOMAIN lines : lines[i] # line
        /\ Holds(<<line>> \o lines)
     \/ /\ ~Spoilt
        /\ \E i \in DOMAIN lines :
             lines[i] = line /\ lines' = <<line>> \o Before(i - 1) \o After(i)

Forget == Spoilt /\ lines' = <<>>
=============================================================================
