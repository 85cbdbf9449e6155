----------------------------- MODULE Vocabulary -----------------------------
(***************************************************************************)
(* What a vocabulary promises: a name can be found from the end of its     *)
(* definition until it is forgotten, and never while it is being defined.  *)
(* A word is known by its address; a later word has a higher one.          *)
(***************************************************************************)
EXTENDS Naturals

VARIABLES names, \* the words that can be found
          open,  \* a colon definition is being compiled
          void   \* the vocabulary has been damaged

vars == <<names, open, void>>

Init == names = {} /\ open = FALSE /\ void = FALSE

\* A new word is found before all others.
Add == \E w \in names' : (\A v \in names : v < w) /\ names' = names \union {w}

Begin == ~open /\ open' = TRUE /\ UNCHANGED <<names, void>>

\* A definition without a name ends without adding one.
End == /\ open /\ open' = FALSE
       /\ UNCHANGED names \/ Add
       /\ UNCHANGED void

\* A word that is defined at once.
Define == /\ ~open /\ Add
          /\ UNCHANGED <<open, void>>

\* A word is forgotten with all those defined after it.
Forget == /\ ~open
          /\ \E w \in names : names' = {v \in names : v < w}
          /\ UNCHANGED <<open, void>>

\* Nothing is promised after that.
Damage == void' = TRUE

Next == Begin \/ End \/ Define \/ Forget \/ Damage

Spec == Init /\ [][Next]_vars
=============================================================================
