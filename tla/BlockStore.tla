----------------------------- MODULE BlockStore -----------------------------
(***************************************************************************)
(* What the block words promise: the contents that a program gives a block *)
(* are those it finds there again, and after `save-buffers` they are on    *)
(* the disk.  Only `discard` and `empty-buffers` go back to what the disk  *)
(* has.                                                                    *)
(***************************************************************************)
CONSTANTS Blocks, Values

VARIABLES contents, \* what programs find in each block
          disk,     \* what the mass storage holds
          held,     \* the block whose buffer a program has just got, if any
          saved     \* `save-buffers` has just succeeded

vars == <<contents, disk, held, saved>>

Init == /\ disk \in [Blocks -> Values] /\ contents = disk
        /\ held \notin Blocks /\ saved = FALSE

\* The program that holds a block changes it and marks it updated.
Change == /\ held \in Blocks
          /\ \E v \in Values : contents' = [contents EXCEPT ![held] = v]
          /\ saved' = FALSE
          /\ UNCHANGED <<disk, held>>

\* It gives up what it changed.
Discard == /\ held \in Blocks
           /\ contents' = [contents EXCEPT ![held] = disk[held]]
           /\ held' \notin Blocks /\ saved' = FALSE
           /\ UNCHANGED disk

\* The disk once the blocks of S are written.
Written(S) == [b \in Blocks |-> IF b \in S THEN contents[b] ELSE disk[b]]

\* Some blocks are written, at any time, for instance for a program to get another.
Write == /\ \E S \in SUBSET Blocks : disk' = Written(S)
         /\ saved' = FALSE
         /\ UNCHANGED contents

\* The same, until a write fails and leaves anything in its block on the disk.
WriteFails == /\ \E S \in SUBSET Blocks, b \in Blocks, v \in Values :
                   disk' = [Written(S) EXCEPT ![b] = v]
              /\ held' \notin Blocks /\ saved' = FALSE
              /\ UNCHANGED contents

Save == disk' = contents /\ saved' = TRUE /\ UNCHANGED contents

\* What is not on the disk, perhaps after some more writes, is given up.
Drop == /\ \E S \in SUBSET Blocks : disk' = Written(S)
        /\ contents' = disk'
        /\ held' \notin Blocks /\ saved' = FALSE

Next == Change \/ Discard \/ Write \/ WriteFails \/ Save \/ Drop

Spec == Init /\ [][Next]_vars
=============================================================================
