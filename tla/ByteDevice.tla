----------------------------- MODULE ByteDevice -----------------------------
(***************************************************************************)
(* What the deblocker promises over a device of blocks: bytes are read,    *)
(* and written, where the program has sought to, as many as it asks for as *)
(* long as there are any and the device takes them.                        *)
(***************************************************************************)
EXTENDS Integers

CONSTANTS Byte,    \* what a position holds
          MaxPos,  \* bound on the positions
          BufSize  \* most bytes that one failure loses

VARIABLES data,    \* the bytes, by position; past the last one there is nothing
          pos,     \* the position of the next transfer
          todo,    \* bytes that the transfer under way has yet to move
          mode,    \* "closed", "idle", "read" or "write"
          lost,    \* changes whenever the device has not taken what was written
          short    \* the device has not taken all blocks of the last write to it

vars == <<data, pos, todo, mode, lost, short>>

Positions == 0..MaxPos

Init == /\ \E n \in Positions : data \in [0..n-1 -> Byte]
        /\ pos = 0 /\ todo = 0 /\ mode = "closed" /\ lost = FALSE /\ short = FALSE

\* A program opens it, at the start.
Open == mode = "closed" /\ mode' = "idle" /\ pos' = 0 /\ short' = FALSE
        /\ UNCHANGED <<data, todo, lost>>

\* Of the positions P those that have a byte keep it, and another may get one only if
\* there is a byte beyond it.
Kept(P) ==
  \A p \in P : IF p \in DOMAIN data THEN p \in DOMAIN data' /\ data'[p] = data[p]
              ELSE p \in DOMAIN data' => \E q \in DOMAIN data : p < q

\* What has been written gets to the device, which fills what is before it.
Settled == DOMAIN data' \subseteq Positions /\ Kept(Positions)

\* A seek to d goes there unless the bytes end before d in the window of d; then it goes to
\* where they end, or where that window starts if it has none.  deblock.fth:280 says more,
\* that it goes to the end of the file: from a window beyond that it does not get there, and
\* what is written next leaves a hole.
Start(d) == d - (d % BufSize)
Seek == /\ mode = "idle" /\ Settled
        /\ \E d \in Positions :
             /\ pos' \in Start(d)..d
             /\ pos' = Start(d) \/ pos' - 1 \in DOMAIN data'
             /\ \A p \in pos'..d-1 : p \notin DOMAIN data'
        /\ UNCHANGED <<todo, mode, lost>>

Begin == /\ mode = "idle" /\ mode' \in {"read", "write"} /\ todo' > 0
         /\ UNCHANGED <<data, pos, lost, short>>

\* Some bytes, from pos on, are handed to the program or come from it.
Moved == pos..pos'-1
Move == /\ mode \in {"read", "write"} /\ pos' > pos /\ todo' = todo - (pos' - pos)
        /\ \/ mode = "read" /\ Moved \subseteq DOMAIN data /\ UNCHANGED data
           \/ /\ mode = "write" /\ DOMAIN data' = DOMAIN data \union Moved
              /\ \A p \in DOMAIN data \ Moved : data'[p] = data[p]
        /\ mode' = (IF todo' = 0 THEN "idle" ELSE mode)
        /\ UNCHANGED <<lost, short>>

\* There is no more to read, or the device has not taken what was written.
End == /\ \/ mode = "read" /\ pos \notin DOMAIN data
          \/ mode = "write" /\ short'
       /\ todo' = 0 /\ mode' = "idle" /\ Settled
       /\ UNCHANGED <<pos, lost>>

Close == mode = "idle" /\ mode' = "closed" /\ Settled /\ UNCHANGED <<todo, lost>>

\* What is in the buffer gets to the device, in the middle of a transfer.
Flush == mode' = mode /\ Settled /\ UNCHANGED <<pos, todo, lost>>

\* The device fails to take a block, or to give one: what had been written within one
\* buffer is lost, and the program may find itself elsewhere.
Fail == /\ lost' # lost
        /\ DOMAIN data' \subseteq Positions
        /\ \E d \in Positions : Kept(Positions \ (d..d+BufSize-1))
        /\ \/ todo' = todo /\ mode' \in {mode, "closed"}
           \/ todo' = 0 /\ mode' = "idle"

Next == Open \/ Seek \/ Begin \/ Move \/ End \/ Close \/ Flush \/ Fail

Spec == Init /\ [][Next]_vars
=============================================================================
