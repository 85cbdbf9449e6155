------------------------------ MODULE TryCatch ------------------------------
(***************************************************************************)
(* What CATCH and THROW promise (the exception word set of ANS Forth):     *)
(* THROW resumes after the innermost CATCH that is still running, with     *)
(* both stacks as deep as that CATCH found them; when no CATCH is running, *)
(* control goes back to the host and both stacks are empty.                *)
(***************************************************************************)
EXTENDS Naturals

VARIABLES calls, \* depth of the return stack
          items, \* depth of the data stack
          tries, \* the CATCHes that are running, with the two depths they found
          void   \* the program stored into memory that is not its own

vars == <<calls, items, tries, void>>

Init == calls = 0 /\ items = 0 /\ tries = {} /\ void = FALSE

\* Anything but CATCH and THROW.  It stays above every CATCH that is running.
Work == /\ calls' \in Nat /\ items' \in Nat
        /\ \A t \in tries : calls' > t.calls
        /\ UNCHANGED <<tries, void>>

Try == /\ \A t \in tries : calls > t.calls
       /\ tries' = tries \union {[calls |-> calls, items |-> items]}
       /\ calls' > calls /\ items' = items - 1
       /\ UNCHANGED void

Innermost(t) == t \in tries /\ \A u \in tries : u.calls <= t.calls

\* The caught word came back: what it left stays, with a 0 on top.
EndTry == \E t \in tries : /\ Innermost(t)
                           /\ tries' = tries \ {t}
                           /\ calls' = t.calls /\ items' = items + 1
                           /\ UNCHANGED void

Throw == \E t \in tries : /\ Innermost(t)
                          /\ tries' = tries \ {t}
                          /\ calls' = t.calls /\ items' = t.items
                          /\ UNCHANGED void

Uncaught == /\ tries = {}
            /\ calls' = 0 /\ items' = 0
            /\ UNCHANGED <<tries, void>>

\* Nothing is promised to a program that has broken into the return stack.
Breach == void' = TRUE

Next == Work \/ Try \/ EndTry \/ Throw \/ Uncaught \/ Breach

Spec == Init /\ [][Next]_vars
=============================================================================
