------------------------------ MODULE Deblocker ------------------------------
(***************************************************************************)
(* The deblocker of the Open Firmware layer: transfers of any length, at   *)
(* any position, over a device that reads and writes whole blocks, through *)
(* one buffer of several blocks.                                           *)
(*                                                                         *)
(* Positions and places in the buffer count from 0; `dev` is a sequence    *)
(* and counts from 1.  A transfer is one action for each turn of its loop  *)
(* and one for each time it gets the next part of the device into the      *)
(* buffer.  The device is as those that use the deblocker have it: without *)
(* `#blocks`, growing where it is written at its end or beyond, and giving *)
(* or taking fewer blocks than asked when it fails.                        *)
(***************************************************************************)
EXTENDS Integers, Sequences

CONSTANTS Byte,      \* what a position holds
          BlockSize, \* `blocksize`: bytes of a block
          BufSize,   \* `bufsize`: bytes of the buffer
          Capacity,  \* bound on the blocks of the device
          MaxLen     \* bound on the length of a transfer

ASSUME DeblockerAssumption ==
  /\ BlockSize \in Nat \ {0} /\ Capacity \in Nat /\ MaxLen \in Nat
  /\ BufSize \in Nat \ {0} /\ BufSize % BlockSize = 0

VARIABLES dev,       \* the bytes of the device
          buf,       \* `buffer`
          btop,      \* bytes of the buffer that are valid
          bend,      \* bytes of the buffer that may be written
          bcurrent,  \* place in the buffer of the next byte
          dstart,    \* position of the first byte of the buffer
          dirty,     \* `dirty?`
          shortfall, \* `write-shortfall` is not 0
          run,       \* what goes on
          rem,       \* bytes that the transfer has yet to move
          lost       \* history: changes when bytes do not get to or from the device

vars == <<dev, buf, btop, bend, bcurrent, dstart, dirty, shortfall, run, rem, lost>>
window == <<btop, bend, bcurrent, dstart, dirty, shortfall>>

Places == 0..BufSize-1
MaxPos == Capacity * BlockSize + BufSize

TypeOK == /\ dev \in Seq(Byte) /\ Len(dev) <= Capacity * BlockSize /\ Len(dev) % BlockSize = 0
          /\ buf \in [Places -> Byte]
          /\ btop \in 0..BufSize /\ bend \in {0, BufSize} /\ bcurrent \in 0..bend
          /\ dstart \in Nat /\ dstart % BufSize = 0
          /\ dirty \in BOOLEAN /\ (bcurrent > btop => dirty)
          /\ shortfall \in BOOLEAN
          /\ run \in {"closed", "idle", "copyout", "more", "copyin", "room"}
          /\ rem \in 0..MaxLen /\ (rem > 0 <=> run \notin {"closed", "idle"})
          /\ lost \in BOOLEAN

Least(a, b) == IF a < b THEN a ELSE b
Most(a, b) == IF a > b THEN a ELSE b

\* sync: the valid bytes go up to bcurrent at least.
Synced == Most(btop, bcurrent)

-----------------------------------------------------------------------------
(***************************************************************************)
(* The device.                                                             *)
(***************************************************************************)

\* What the device may be with k blocks of the buffer written where the buffer is.  Beyond
\* its end it is extended, and what is before them that nobody has written is anything.
Stored(k) ==
  LET n == k * BlockSize
  IN {d \in [1..Most(Len(dev), IF k = 0 THEN 0 ELSE dstart + n) -> Byte] :
        \A p \in DOMAIN d :
          /\ p \in dstart+1..dstart+n => d[p] = buf[p - 1 - dstart]
          /\ p \in 1..Len(dev) \ (dstart+1..dstart+n) => d[p] = dev[p]}

\* How many of n blocks it takes, fewer if it fails.
Taken(n) == {k \in 0..n : k = 0 \/ dstart + k * BlockSize <= Capacity * BlockSize}

\* What happens is noted unless all went well.
Noted(well) == lost' = (IF well THEN lost ELSE ~lost)

\* ?flushbuf: a buffer that was changed is written, as many blocks of it as are
\* whole, and is empty after that.  The device may say that it took fewer than it
\* has.  Whoever calls it sets the window anew.
Blocks == IF dirty THEN Synced \div BlockSize ELSE 0
AllTaken(k) == dirty => k * BlockSize = Synced

Flush(k) ==
  /\ IF dirty THEN dev' \in Stored(k) ELSE dev' = dev
  /\ IF dirty THEN shortfall' \in {said < Blocks : said \in 0..k} ELSE shortfall' = shortfall
  /\ dirty' = FALSE

\* The bytes at d that there are to read.
There(d, s) == IF Len(s) > d THEN Least(BufSize, Len(s) - d) ELSE 0

\* A buffer begins where a multiple of its size does.
Aligned(d) == d - (d % BufSize)

\* fillbuf, and going to d or as near to it as n bytes allow.
Fill(d, n) ==
  /\ dstart' = Aligned(d) /\ btop' = n /\ bend' = BufSize
  /\ buf' = [p \in Places |-> IF p < n THEN dev'[Aligned(d) + p + 1] ELSE buf[p]]
  /\ bcurrent' = Least(d - Aligned(d), n)

\* What the device gives of the n bytes there are, in blocks, fewer if it fails.
Gives(n) == {m \in 0..n : m % BlockSize = 0}

\* The buffer is written and gets the part of the device with position d.
Get(d) ==
  \E k \in Taken(Blocks) :
    /\ Flush(k)
    /\ \E n \in Gives(There(Aligned(d), dev')) :
         Fill(d, n) /\ Noted(AllTaken(k) /\ n = There(Aligned(d), dev'))

\* shortseek
ShortSeek == Get(dstart + bcurrent)

-----------------------------------------------------------------------------
(***************************************************************************)
(* What the deblocker does for a program.                                  *)
(***************************************************************************)

\* open: the instance begins with an empty buffer.
Open ==
  /\ run = "closed" /\ run' = "idle"
  /\ btop' = 0 /\ bend' = 0 /\ bcurrent' = 0 /\ dstart' = 0
  /\ dirty' = FALSE /\ shortfall' = FALSE
  /\ UNCHANGED <<dev, buf, rem, lost>>

Close ==
  /\ run = "idle" /\ run' = "closed"
  /\ \E k \in Taken(Blocks) : Flush(k) /\ Noted(AllTaken(k))
  /\ btop' = 0 /\ bcurrent' = 0
  /\ UNCHANGED <<buf, bend, dstart, rem>>

\* size, as far as it changes anything.
Size ==
  /\ run = "idle" /\ btop' = Synced
  /\ UNCHANGED <<dev, buf, bend, bcurrent, dstart, dirty, shortfall, run, rem, lost>>

InBuffer(d) == d \in dstart..dstart+bend-1

\* The bytes of the window are not all in the buffer, since a read has failed or a
\* write has ended early.
Poor == Synced < There(dstart, dev)

SeekInBuffer(d) ==
  /\ InBuffer(d)
  /\ btop' = Synced /\ bcurrent' = Least(d - dstart, Synced)
  /\ Noted(Poor => d - dstart <= Synced)
  /\ UNCHANGED <<dev, buf, bend, dstart, dirty, shortfall>>

\* At the start of a window nothing is read yet.
SeekToWindowUnflushed(d) ==
  /\ ~InBuffer(d) /\ d % BufSize = 0
  /\ dstart' = d /\ btop' = 0 /\ bend' = 0 /\ bcurrent' = 0 /\ dirty' = FALSE
  /\ UNCHANGED <<dev, buf, shortfall, lost>>

SeekToWindow(d) ==
  /\ ~InBuffer(d) /\ d % BufSize = 0
  /\ \E k \in Taken(Blocks) : Flush(k) /\ Noted(AllTaken(k))
  /\ dstart' = d /\ btop' = 0 /\ bend' = 0 /\ bcurrent' = 0
  /\ UNCHANGED buf

SeekElsewhere(d) == ~InBuffer(d) /\ d % BufSize # 0 /\ Get(d)

Seek(d) ==
  /\ run = "idle"
  /\ SeekInBuffer(d) \/ SeekToWindow(d) \/ SeekElsewhere(d)
  /\ UNCHANGED <<run, rem>>

Read(len) ==
  /\ run = "idle" /\ run' = "copyout" /\ rem' = len
  /\ btop' = Synced
  /\ UNCHANGED <<dev, buf, bend, bcurrent, dstart, dirty, shortfall, lost>>

\* copyout
CopyOut ==
  /\ run = "copyout"
  /\ LET n == Least(rem, btop - bcurrent)
     IN /\ rem' = rem - n /\ bcurrent' = bcurrent + n
        /\ run' = IF rem = n THEN "idle" ELSE "more"
  /\ UNCHANGED <<dev, buf, btop, bend, dstart, dirty, shortfall, lost>>

\* The program has not got all, and the next part of the device may have more.
NothingLeftAbove == bcurrent' > btop'
NothingLeft == bcurrent' >= btop'

More ==
  /\ run = "more" /\ ShortSeek
  /\ IF NothingLeft THEN run' = "idle" /\ rem' = 0 ELSE run' = "copyout" /\ UNCHANGED rem

\* MaxPos bounds what a program writes past the end of the device.
Write(len) ==
  /\ run = "idle" /\ dstart + bcurrent + len <= MaxPos
  /\ run' = "copyin" /\ rem' = len
  /\ UNCHANGED <<dev, buf, window, lost>>

\* Whether the buffer is to be written, after n more bytes.
ChangedWhole(n) == dirty \/ n = BufSize
Changed(n) == dirty \/ n > 0

\* copyin
CopyIn ==
  /\ run = "copyin"
  /\ LET n == Least(rem, bend - bcurrent)
         new == bcurrent..bcurrent+n-1
     IN /\ \E v \in [new -> Byte] : buf' = [p \in Places |-> IF p \in new THEN v[p] ELSE buf[p]]
        /\ rem' = rem - n /\ bcurrent' = bcurrent + n
        /\ dirty' = Changed(n)
        /\ run' = IF rem = n THEN "idle" ELSE "room"
  /\ UNCHANGED <<dev, btop, bend, dstart, shortfall, lost>>

\* prefill?: a window that what is left overwrites whole need not be read.
Prefill == (dstart + bcurrent) % BufSize # 0 \/ rem < BufSize

\* What is left goes into the buffer, if that is empty, or into one for the next window.
OpenWindow ==
  IF bend < BufSize
  THEN /\ bend' = BufSize /\ btop' = Synced
       /\ UNCHANGED <<dev, bcurrent, dstart, dirty, shortfall, lost>>
  ELSE /\ \E k \in Taken(Blocks) : Flush(k) /\ Noted(AllTaken(k))
       /\ dstart' = dstart + bcurrent /\ bend' = BufSize
       /\ btop' = 0 /\ bcurrent' = 0

\* There is room for more, unless the device has not taken all.
Room ==
  /\ run = "room"
  /\ IF Prefill THEN ShortSeek ELSE OpenWindow /\ UNCHANGED buf
  /\ IF shortfall' THEN run' = "idle" /\ rem' = 0 ELSE run' = "copyin" /\ UNCHANGED rem

-----------------------------------------------------------------------------
Init == /\ \E n \in 0..Capacity : dev \in [1..n*BlockSize -> Byte]
        /\ buf \in [Places -> Byte]
        /\ btop = 0 /\ bend = 0 /\ bcurrent = 0 /\ dstart = 0
        /\ dirty = FALSE /\ shortfall = FALSE
        /\ run = "closed" /\ rem = 0 /\ lost = FALSE

Turn == CopyOut \/ More \/ CopyIn \/ Room
Next == \/ Open \/ Close \/ Size \/ Turn
        \/ \E d \in 0..MaxPos : Seek(d)
        \/ \E n \in 1..MaxLen : Read(n) \/ Write(n)

\* A transfer goes on by itself.
Spec == Init /\ [][Next]_vars /\ WF_vars(Turn)
-----------------------------------------------------------------------------
(***************************************************************************)
(* Properties.                                                             *)
(***************************************************************************)

\* A buffer that has not been changed holds what the device has: nothing is kept back
\* from it, and a read finds what was written (?flushbuf, fillbuf).
CleanIsDevice ==
  ~dirty => \A p \in 0..btop-1 : dstart + p < Len(dev) /\ buf[p] = dev[dstart + p + 1]

\* The device with the buffer over it.
Window == IF dirty THEN dstart..dstart+Synced-1 ELSE {}
Data == [p \in 0..Len(dev)-1 \union Window |-> IF p \in Window THEN buf[p - dstart] ELSE dev[p + 1]]

Bytes == INSTANCE ByteDevice WITH
           data <- Data, pos <- dstart + bcurrent, todo <- rem, short <- shortfall,
           mode <- CASE run \in {"copyout", "more"} -> "read"
                     [] run \in {"copyin", "room"} -> "write"
                     [] OTHER -> run

\* Whatever order of seeks and transfers, aligned or not, a program finds the bytes it
\* wrote where it wrote them and no others changed; only the blocks that the device does
\* not take are lost, and only below what was written beyond the end bytes appear that
\* nobody wrote.  A seek beyond the end goes as far as ByteDevice says and not, as
\* deblock.fth:280 has it, to the end (seek, read, write).
ImplementsByteDevice == Bytes!Spec

\* A transfer comes to an end, at the end of the device and when the device fails, too
\* (read, write).
Terminates == run \notin {"closed", "idle"} ~> run = "idle"
=============================================================================
