----------------------------- MODULE BlockCache -----------------------------
(***************************************************************************)
(* The block buffers of block.fth: #buffers headers kept in the order of   *)
(* their latest use, each with the buffer it owns, over a mass storage     *)
(* that can fail.  `block` and `buffer` pause before they touch anything,  *)
(* so that each is one step, between steps of other tasks; `flush` pauses  *)
(* in its middle.  A block is known by its number and its file together.   *)
(***************************************************************************)
EXTENDS Integers

CONSTANTS Blocks,   \* the blocks there are
          Zero,     \* block 0 of the file that `block` uses
          Values,   \* what a block may hold
          NBufs,    \* #buffers
          MaxFlush  \* bound on the tasks that are in `flush` at a time

ASSUME BlockAssumption ==
  /\ Zero \in Blocks /\ -1 \notin Blocks /\ 0 \in Values
  /\ NBufs \in Nat \ {0} /\ MaxFlush \in Nat

VARIABLES hdr,      \* the headers 1 to #buffers, most recent first
          store,    \* what each buffer holds
          disk,     \* what each block holds on the mass storage
          adr,      \* the buffer a program has just got, or 0
          asked,    \* history: the block it asked for, or NoBlock
          flushing, \* the tasks that have saved and are in the pause of `flush`
          saved     \* history: the latest step was a `save-buffers` that succeeded

held == <<adr, asked>>
vars == <<hdr, store, disk, held, flushing, saved>>

Slots == 1..NBufs
NoBlock == -1
Flags == {"dirty", "clean", "no block"}

TypeOK == /\ hdr \in [Slots -> [block : Blocks \union {NoBlock}, buf : Slots, flag : Flags]]
          /\ store \in [Slots -> Values]
          /\ disk \in [Blocks -> Values]
          /\ adr \in 0..NBufs
          /\ asked \in Blocks \union {NoBlock}
          /\ flushing \in 0..MaxFlush
          /\ saved \in BOOLEAN

Cached(b) == \E i \in Slots : hdr[i].block = b

\* Header h becomes the first, those before i move down, and that at i is gone.
InFront(h, i) == [n \in Slots |-> IF n = 1 THEN h ELSE IF n <= i THEN hdr[n - 1] ELSE hdr[n]]

\* replace-buffer: a header for b that has the buffer of the last one.
Fresh(b) == [block |-> b, buf |-> hdr[NBufs].buf, flag |-> "no block"]

\* file-buffer: the headers once b is in front.
TouchedSwap(b) ==
  IF Cached(b)
  THEN LET i == CHOOSE j \in Slots : hdr[j].block = b
       IN  [hdr EXCEPT ![1] = hdr[i]]
  ELSE InFront(Fresh(b), NBufs)
TouchedInPlace(b) == IF Cached(b) THEN hdr ELSE InFront(Fresh(b), NBufs)
TouchedFirst(b) ==
  IF Cached(b)
  THEN LET i == CHOOSE j \in Slots : hdr[j].block = b
       IN  InFront(hdr[i], i)
  ELSE [InFront(Fresh(b), NBufs) EXCEPT ![1].buf = hdr[1].buf, ![2].buf = hdr[NBufs].buf]
Touched(b) == IF Cached(b)
              THEN LET i == CHOOSE j \in Slots : hdr[j].block = b
                   IN  InFront(hdr[i], i)
              ELSE InFront(Fresh(b), NBufs)

NoneHeld == adr' = 0 /\ asked' = NoBlock

\* ?write-block on the headers of I.
Dirty(i) == hdr[i].flag = "dirty"
Written(I) == [b \in Blocks |->
                 IF \E i \in I : Dirty(i) /\ hdr[i].block = b
                 THEN store[hdr[CHOOSE i \in I : Dirty(i) /\ hdr[i].block = b].buf]
                 ELSE disk[b]]

\* The headers whose contents file-buffer has to write for b.
EvictedUnwritten(b) == {}
Evicted(b) == IF Cached(b) THEN {} ELSE {NBufs}

-----------------------------------------------------------------------------
\* The write of header i fails, after those of I: its block may hold anything, and
\* the word that wanted it written is left by a THROW.
WriteFails(I, i) == /\ Dirty(i)
                    /\ \E v \in Values : disk' = [Written(I) EXCEPT ![hdr[i].block] = v]
                    /\ NoneHeld /\ saved' = FALSE
                    /\ UNCHANGED store

BufferFails(b) == /\ \E i \in Evicted(b) : WriteFails({}, i)
                  /\ UNCHANGED <<hdr, flushing>>

\* file-buffer: the buffer for b, whatever it holds.
Buffer(b) == /\ hdr' = Touched(b)
             /\ disk' = Written(Evicted(b))
             /\ adr' = hdr'[1].buf /\ asked' = b /\ saved' = FALSE
             /\ UNCHANGED <<store, flushing>>

\* file-block: a block that is not there yet is read.
Block(b) == LET h == Touched(b)
            IN  /\ hdr' = [h EXCEPT ![1].flag = IF @ = "no block" THEN "clean" ELSE @]
                /\ disk' = Written(Evicted(b))
                /\ store' = IF h[1].flag = "no block"
                            THEN [store EXCEPT ![h[1].buf] = disk'[b]] ELSE store
                /\ adr' = h[1].buf /\ asked' = b /\ saved' = FALSE
                /\ UNCHANGED flushing

\* The read fails: the buffer may hold anything.
ReadFailsClean(b) == LET h == Touched(b)
                     IN  /\ h[1].flag = "no block"
                         /\ hdr' = [h EXCEPT ![1].flag = "clean"]
                         /\ disk' = Written(Evicted(b))
                         /\ \E v \in Values : store' = [store EXCEPT ![h[1].buf] = v]
                         /\ NoneHeld /\ saved' = FALSE
                         /\ UNCHANGED flushing
ReadFails(b) == LET h == Touched(b)
                IN  /\ h[1].flag = "no block"
                    /\ hdr' = h
                    /\ disk' = Written(Evicted(b))
                    /\ \E v \in Values : store' = [store EXCEPT ![h[1].buf] = v]
                    /\ NoneHeld /\ saved' = FALSE
                    /\ UNCHANGED flushing

\* A program stores into the buffer it has just got and does `update`, before it
\* pauses or asks for another block.
Change(v) == /\ adr # 0
             /\ store' = [store EXCEPT ![adr] = v]
             /\ hdr' = [hdr EXCEPT ![1].flag = "dirty"]
             /\ saved' = FALSE
             /\ UNCHANGED <<disk, held, flushing>>

\* `discard`: the current block is to be read again.
Discard == /\ adr # 0
           /\ hdr' = [hdr EXCEPT ![1].flag = "no block"]
           /\ NoneHeld /\ saved' = FALSE
           /\ UNCHANGED <<store, disk, flushing>>

\* save-buffers: all dirty headers are written and clean.
Cleaned(I) == [i \in Slots |-> IF i \in I /\ Dirty(i)
                               THEN [hdr[i] EXCEPT !.flag = "clean"] ELSE hdr[i]]

SaveBuffers == /\ hdr' = Cleaned(Slots)
               /\ disk' = Written(Slots)
               /\ saved' = TRUE
               /\ UNCHANGED <<store, held, flushing>>

SaveFails(i) == /\ WriteFails(1..i-1, i)
                /\ hdr' = Cleaned(1..i-1)
                /\ UNCHANGED flushing

\* empty-buffers
Emptied == /\ hdr' = [i \in Slots |-> [block |-> NoBlock, buf |-> i, flag |-> "clean"]]
           /\ store' = [i \in Slots |-> 0]
           /\ NoneHeld /\ saved' = FALSE

EmptyBuffers == Emptied /\ UNCHANGED <<disk, flushing>>

\* flush up to the pause of its `0 block`, and from there on.
Flush == /\ flushing < MaxFlush
         /\ hdr' = Cleaned(Slots)
         /\ disk' = Written(Slots)
         /\ NoneHeld /\ saved' = TRUE /\ flushing' = flushing + 1
         /\ UNCHANGED store

FlushDone == /\ flushing > 0
             /\ disk' = Written(Evicted(Zero))
             /\ flushing' = flushing - 1
             /\ Emptied

\* `0 block` fails in flush.
FlushFails == /\ flushing > 0 /\ flushing' = flushing - 1
              /\ NoneHeld /\ saved' = FALSE
              /\ \/ /\ UNCHANGED <<hdr, store>>
                    /\ \E i \in Evicted(Zero) : WriteFails({}, i)
                 \/ LET h == Touched(Zero)
                    IN  /\ h[1].flag = "no block"
                        /\ hdr' = h /\ disk' = Written(Evicted(Zero))
                        /\ \E v \in Values : store' = [store EXCEPT ![h[1].buf] = v]

-----------------------------------------------------------------------------
Init == /\ hdr = [i \in Slots |-> [block |-> NoBlock, buf |-> i, flag |-> "clean"]]
        /\ store = [i \in Slots |-> 0]
        /\ disk \in [Blocks -> Values]
        /\ adr = 0 /\ asked = NoBlock /\ flushing = 0 /\ saved = FALSE

Next == \/ \E b \in Blocks : Block(b) \/ Buffer(b) \/ BufferFails(b) \/ ReadFails(b)
        \/ \E v \in Values : Change(v)
        \/ Discard \/ SaveBuffers \/ \E i \in Slots : SaveFails(i)
        \/ EmptyBuffers \/ Flush \/ FlushDone \/ FlushFails

Spec == Init /\ [][Next]_vars
-----------------------------------------------------------------------------
(***************************************************************************)
(* Properties.                                                             *)
(***************************************************************************)

\* No two headers have the same buffer or the same block, however the headers are
\* moved and whatever I/O fails (file-buffer, replace-buffer, empty-buffers).
OneCopy == \A i, j \in Slots :
             i # j => /\ hdr[i].buf # hdr[j].buf
                      /\ hdr[i].block = hdr[j].block => hdr[i].block = NoBlock

\* A clean buffer holds what its block holds on the disk, so that dropping it
\* loses nothing (file-block, ?write-block).
CleanIsDisk == \A i \in Slots :
                 hdr[i].flag = "clean" /\ hdr[i].block # NoBlock
                   => store[hdr[i].buf] = disk[hdr[i].block]

\* The buffer a program has in its hands is that of the block it asked for, and
\* `update` marks that block and never a header without one (update, file-buffer).
UpdateMarksAsked == /\ adr # 0 => asked \in Blocks /\ adr = hdr[1].buf /\ hdr[1].block = asked
                    /\ \A i \in Slots : hdr[i].block = NoBlock => hdr[i].flag = "clean"

\* The blocks used before the present one keep their buffers, all but the least
\* recent: addresses of as many blocks as there are buffers are good at a time
\* (file-buffer).
RecentKept ==
  [][(\E j \in Slots : hdr'[j].block # NoBlock) =>
       \A i \in 1..NBufs-1 : hdr[i].block # NoBlock =>
          \E j \in Slots : hdr'[j].block = hdr[i].block /\ hdr'[j].buf = hdr[i].buf]_vars

\* What programs find in a block: the buffer if it was updated, else the disk.
Contents == [b \in Blocks |->
               IF \E i \in Slots : hdr[i].block = b /\ Dirty(i)
               THEN store[hdr[CHOOSE i \in Slots : hdr[i].block = b].buf]
               ELSE disk[b]]

Store == INSTANCE BlockStore WITH contents <- Contents,
                                  held <- asked

\* The cache does what the block words promise, with failures of the disk at any
\* point and other tasks at work while one flushes.
ImplementsBlockStore == Store!Spec
=============================================================================
