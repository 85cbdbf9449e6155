------------------------- MODULE BlockCache_proofs -------------------------
(***************************************************************************)
(* Proofs that the safety invariants of BlockCache hold for every number   *)
(* of buffers, and for any blocks and values.                              *)
(***************************************************************************)
EXTENDS BlockCache, TLAPS

Headers == [block : Blocks \union {NoBlock}, buf : Slots, flag : Flags]

\* OneCopy of any headers h.
Once(h) == \A i, j \in Slots :
             i # j => /\ h[i].buf # h[j].buf
                      /\ h[i].block = h[j].block => h[i].block = NoBlock

\* A header without a block is clean.
Blank(h) == \A i \in Slots : h[i].block = NoBlock => h[i].flag = "clean"

\* CleanIsDisk of any headers, buffers and disk.
Same(h, s, d) == \A i \in Slots :
                   h[i].flag = "clean" /\ h[i].block # NoBlock
                     => s[h[i].buf] = d[h[i].block]

\* What file-buffer does to the headers: header 1 becomes that of b, which is an old
\* one or fresh, and the others are old ones of other blocks, none of them written.
Moved(h, b) ==
  /\ h \in [Slots -> Headers]
  /\ h[1].block = b
  /\ \/ \E i \in Slots : h[1] = hdr[i] /\ hdr[i].block = b /\ Evicted(b) = {}
     \/ h[1].flag = "no block" /\ Evicted(b) = {NBufs} /\ h[1].buf = hdr[NBufs].buf
  /\ \A n \in Slots \ {1} : \E j \in Slots \ Evicted(b) : h[n] = hdr[j] /\ hdr[j].block # b

IInv == TypeOK /\ OneCopy /\ UpdateMarksAsked /\ CleanIsDisk
-----------------------------------------------------------------------------
\* The last buffer is one of the buffers, and so is the first.
LEMMA SlotFacts == 1 \in Slots /\ NBufs \in Slots /\ NoBlock \notin Blocks
  BY BlockAssumption, SMT DEF Slots, NoBlock

\* file-buffer keeps each buffer and each block at one place.
LEMMA TouchedMoves ==
  ASSUME TypeOK, OneCopy, NEW b \in Blocks
  PROVE  Moved(Touched(b), b) /\ Once(Touched(b))
  <1>1. CASE Cached(b)
    <2> DEFINE i == CHOOSE j \in Slots : hdr[j].block = b
    <2>1. i \in Slots /\ hdr[i].block = b
      BY <1>1 DEF Cached
    <2>2. Touched(b) = InFront(hdr[i], i)
      BY <1>1 DEF Touched
    <2>3. Evicted(b) = {}
      BY <1>1 DEF Evicted
    <2> HIDE DEF i
    <2>4. hdr \in [Slots -> Headers] /\ Once(hdr)
      BY DEF TypeOK, Headers, OneCopy, Once
    <2>5. InFront(hdr[i], i) \in [Slots -> Headers]
      BY <2>1, <2>4, BlockAssumption DEF InFront, Slots
    <2>6. InFront(hdr[i], i)[1] = hdr[i]
      BY SlotFacts DEF InFront
    <2>7. ASSUME NEW n \in Slots \ {1}
          PROVE  \E j \in Slots : InFront(hdr[i], i)[n] = hdr[j] /\ hdr[j].block # b
      <3>1. CASE n <= i
        <4>1. n - 1 \in Slots /\ n - 1 # i /\ InFront(hdr[i], i)[n] = hdr[n - 1]
          BY <3>1, <2>1, <2>7, BlockAssumption DEF InFront, Slots
        <4>2. hdr[n - 1].block # b
          BY <4>1, <2>1, <2>4, SlotFacts DEF Once
        <4>3. QED
          BY <4>1, <4>2
      <3>2. CASE ~(n <= i)
        <4>1. n # i /\ InFront(hdr[i], i)[n] = hdr[n]
          BY <3>2, <2>1, <2>7, BlockAssumption DEF InFront, Slots
        <4>2. hdr[n].block # b
          BY <4>1, <2>1, <2>4, <2>7, SlotFacts DEF Once
        <4>3. QED
          BY <4>1, <4>2, <2>7
      <3>3. QED
        BY <3>1, <3>2
    <2>8. Once(InFront(hdr[i], i))
      <3> SUFFICES ASSUME NEW m \in Slots, NEW n \in Slots, m # n
                   PROVE  LET h == InFront(hdr[i], i)
                          IN  /\ h[m].buf # h[n].buf
                              /\ h[m].block = h[n].block => h[m].block = NoBlock
        BY DEF Once
      <3> DEFINE p(k) == IF k = 1 THEN i ELSE IF k <= i THEN k - 1 ELSE k
      <3>1. p(m) \in Slots /\ p(n) \in Slots /\ p(m) # p(n)
        BY <2>1, BlockAssumption DEF Slots
      <3>2. \A k \in Slots : InFront(hdr[i], i)[k] = hdr[p(k)]
        BY DEF InFront
      <3> HIDE DEF p
      <3>3. QED
        BY <3>1, <3>2, <2>4 DEF Once
    <2>9. QED
      BY <2>1, <2>2, <2>3, <2>5, <2>6, <2>7, <2>8 DEF Moved
  <1>2. CASE ~Cached(b)
    <2>1. Touched(b) = InFront(Fresh(b), NBufs) /\ Evicted(b) = {NBufs}
      BY <1>2 DEF Touched, Evicted
    <2>2. hdr \in [Slots -> Headers] /\ Once(hdr)
      BY DEF TypeOK, Headers, OneCopy, Once
    <2>3. Fresh(b) \in Headers /\ Fresh(b).block = b /\ Fresh(b).flag = "no block"
          /\ Fresh(b).buf = hdr[NBufs].buf
      BY <2>2, SlotFacts DEF Fresh, Headers, Flags
    <2>4. InFront(Fresh(b), NBufs) \in [Slots -> Headers]
      <3>1. \A n \in Slots : n # 1 => n - 1 \in Slots
        BY BlockAssumption DEF Slots
      <3>2. \A n \in Slots : hdr[n] \in Headers
        BY <2>2
      <3> HIDE DEF Headers
      <3>3. QED
        BY <2>3, <3>1, <3>2 DEF InFront
    <2>5. InFront(Fresh(b), NBufs)[1] = Fresh(b)
      BY SlotFacts DEF InFront
    <2>6. ASSUME NEW n \in Slots \ {1}
          PROVE  /\ n - 1 \in Slots \ {NBufs}
                 /\ InFront(Fresh(b), NBufs)[n] = hdr[n - 1]
                 /\ hdr[n - 1].block # b
      <3>1. n - 1 \in Slots \ {NBufs} /\ n <= NBufs
        BY <2>6, BlockAssumption DEF Slots
      <3>2. QED
        BY <3>1, <1>2, <2>6 DEF InFront, Cached
    <2>7. Once(InFront(Fresh(b), NBufs))
      <3> SUFFICES ASSUME NEW m \in Slots, NEW n \in Slots, m # n
                   PROVE  LET h == InFront(Fresh(b), NBufs)
                          IN  /\ h[m].buf # h[n].buf
                              /\ h[m].block = h[n].block => h[m].block = NoBlock
        BY DEF Once
      <3> DEFINE p(k) == IF k = 1 THEN NBufs ELSE k - 1
      <3>1. p(m) \in Slots /\ p(n) \in Slots /\ p(m) # p(n)
        BY BlockAssumption DEF Slots
      <3>2. \A k \in Slots : InFront(Fresh(b), NBufs)[k].buf = hdr[p(k)].buf
        BY <2>3, <2>5, <2>6
      <3>3. \A k \in Slots \ {1} : InFront(Fresh(b), NBufs)[k].block = hdr[p(k)].block
        BY <2>6
      <3> HIDE DEF p
      <3>4. InFront(Fresh(b), NBufs)[m].buf # InFront(Fresh(b), NBufs)[n].buf
        BY <3>1, <3>2, <2>2 DEF Once
      <3>5. InFront(Fresh(b), NBufs)[m].block = InFront(Fresh(b), NBufs)[n].block
              => InFront(Fresh(b), NBufs)[m].block = NoBlock
        <4>1. CASE m = 1 \/ n = 1
          BY <4>1, <2>3, <2>5, <2>6
        <4>2. CASE m # 1 /\ n # 1
          BY <4>2, <3>1, <3>3, <2>2 DEF Once
        <4>3. QED
          BY <4>1, <4>2
      <3>6. QED
        BY <3>4, <3>5
    <2>8. QED
      BY <2>1, <2>3, <2>4, <2>5, <2>6, <2>7 DEF Moved
  <1>3. QED
    BY <1>1, <1>2

\* The invariant in terms of the named parts.
LEMMA Parts ==
  IInv <=> /\ TypeOK /\ Once(hdr) /\ Blank(hdr) /\ Same(hdr, store, disk)
           /\ adr # 0 => asked \in Blocks /\ adr = hdr[1].buf /\ hdr[1].block = asked
  BY DEF IInv, OneCopy, Once, UpdateMarksAsked, Blank, CleanIsDisk, Same

\* What ?write-block leaves on the disk when it is done to the headers of I.
LEMMA WrittenFacts ==
  ASSUME IInv, NEW I \in SUBSET Slots
  PROVE  /\ Written(I) \in [Blocks -> Values]
         /\ \A i \in I : Dirty(i) => Written(I)[hdr[i].block] = store[hdr[i].buf]
         /\ Same(hdr, store, Written(I))
  <1> USE Parts, SlotFacts
  <1>1. hdr \in [Slots -> Headers] /\ store \in [Slots -> Values] /\ disk \in [Blocks -> Values]
    BY DEF TypeOK, Headers
  <1>2. \A i \in I : Dirty(i) => hdr[i].block \in Blocks
    BY <1>1 DEF Dirty, Blank, Headers
  <1>3. ASSUME NEW b \in Blocks, NEW i \in I, Dirty(i), hdr[i].block = b
        PROVE  Written(I)[b] = store[hdr[i].buf]
    <2> DEFINE k == CHOOSE j \in I : Dirty(j) /\ hdr[j].block = b
    <2>1. k \in I /\ hdr[k].block = b
      BY <1>3
    <2>2. Written(I)[b] = store[hdr[k].buf]
      BY <1>3 DEF Written
    <2> HIDE DEF k
    <2>3. k = i
      BY <2>1, <1>3 DEF Once
    <2>4. QED
      BY <2>2, <2>3
  <1>4. ASSUME NEW b \in Blocks, \A i \in I : ~(Dirty(i) /\ hdr[i].block = b)
        PROVE  Written(I)[b] = disk[b]
    BY <1>4 DEF Written
  <1>5. Written(I) \in [Blocks -> Values]
    <2>1. \A b \in Blocks : Written(I)[b] \in Values
      BY <1>1, <1>3, <1>4 DEF Headers
    <2>2. QED
      BY <2>1 DEF Written
  <1>6. Same(hdr, store, Written(I))
    <2> SUFFICES ASSUME NEW j \in Slots, hdr[j].flag = "clean", hdr[j].block # NoBlock
                 PROVE  store[hdr[j].buf] = Written(I)[hdr[j].block]
      BY DEF Same
    <2>1. hdr[j].block \in Blocks
      BY <1>1 DEF Headers
    <2>2. \A i \in I : ~(Dirty(i) /\ hdr[i].block = hdr[j].block)
      BY DEF Dirty, Once
    <2>3. Written(I)[hdr[j].block] = disk[hdr[j].block]
      BY <1>4, <2>1, <2>2
    <2>4. QED
      BY <2>3 DEF Same
  <1>7. QED
    BY <1>2, <1>3, <1>5, <1>6

\* The headers that file-buffer leaves, over the disk it leaves.
LEMMA TouchedFacts ==
  ASSUME IInv, NEW b \in Blocks
  PROVE  LET h == Touched(b)
             d == Written(Evicted(b))
         IN  /\ h \in [Slots -> Headers] /\ d \in [Blocks -> Values]
             /\ h[1].block = b
             /\ Once(h) /\ Blank(h) /\ Same(h, store, d)
  <1> DEFINE h == Touched(b)
             d == Written(Evicted(b))
  <1>1. Moved(h, b) /\ Once(h)
    BY TouchedMoves DEF IInv
  <1>2. Evicted(b) \in SUBSET Slots
    BY SlotFacts DEF Evicted
  <1>3. d \in [Blocks -> Values] /\ Same(hdr, store, d)
    BY <1>2, WrittenFacts
  <1>4. Blank(hdr)
    BY Parts
  <1> HIDE DEF h, d
  <1>5. \A n \in Slots : \/ h[n].flag = "no block" /\ h[n].block = b
                        \/ \E j \in Slots : h[n] = hdr[j]
    BY <1>1 DEF Moved
  <1>6. Blank(h)
    <2> SUFFICES ASSUME NEW n \in Slots, h[n].block = NoBlock PROVE h[n].flag = "clean"
      BY DEF Blank
    <2>1. h[n].block # b
      BY SlotFacts
    <2>2. PICK j \in Slots : h[n] = hdr[j]
      BY <1>5, <2>1
    <2>3. hdr[j].block = NoBlock => hdr[j].flag = "clean"
      BY <1>4 DEF Blank
    <2>4. QED
      BY <2>2, <2>3
  <1>7. Same(h, store, d)
    <2> SUFFICES ASSUME NEW n \in Slots, h[n].flag = "clean", h[n].block # NoBlock
                 PROVE  store[h[n].buf] = d[h[n].block]
      BY DEF Same
    <2>1. PICK j \in Slots : h[n] = hdr[j]
      BY <1>5
    <2>2. QED
      BY <1>3, <2>1 DEF Same
  <1>8. QED
    BY <1>1, <1>3, <1>6, <1>7 DEF Moved, h, d
-----------------------------------------------------------------------------
LEMMA InitInv == Init => IInv
  <1> SUFFICES ASSUME Init PROVE IInv
    OBVIOUS
  <1> USE SlotFacts, BlockAssumption DEF Init
  <1>1. TypeOK
    <2>1. hdr \in [Slots -> Headers]
      BY DEF Headers, Flags
    <2>2. adr \in 0..NBufs /\ flushing \in 0..MaxFlush
      OBVIOUS
    <2>3. QED
      BY <2>1, <2>2 DEF TypeOK, Headers
  <1>2. Once(hdr) /\ Blank(hdr) /\ Same(hdr, store, disk)
    BY DEF Once, Blank, Same
  <1>3. QED
    BY <1>1, <1>2, Parts

\* The invariant of the next state, from its named parts.
LEMMA Assembled ==
  ASSUME hdr' \in [Slots -> Headers], store' \in [Slots -> Values], disk' \in [Blocks -> Values],
         flushing' \in 0..MaxFlush, saved' \in BOOLEAN,
         Once(hdr'), Blank(hdr'), Same(hdr', store', disk'),
         \/ adr' = 0 /\ asked' \in Blocks \union {NoBlock}
         \/ asked' \in Blocks /\ adr' = hdr'[1].buf /\ hdr'[1].block = asked'
  PROVE  IInv'
  <1>1. adr' \in 0..NBufs /\ asked' \in Blocks \union {NoBlock}
    BY SlotFacts, BlockAssumption DEF Headers, Slots
  <1>2. TypeOK'
    BY <1>1 DEF TypeOK, Headers
  <1>3. QED
    BY <1>2 DEF IInv, OneCopy, Once, UpdateMarksAsked, Blank, CleanIsDisk, Same

\* `buffer` leaves the invariant true.
LEMMA BufferInv == ASSUME IInv, NEW b \in Blocks, Buffer(b) PROVE IInv'
  BY TouchedFacts, Assembled DEF Buffer, IInv, TypeOK

\* A read into the buffer of b, be it the block's data or not, leaves the other
\* buffers alone.
LEMMA ReadFacts ==
  ASSUME IInv, NEW b \in Blocks, NEW v \in Values, Touched(b)[1].flag = "no block"
  PROVE  LET h == Touched(b)
             g == [h EXCEPT ![1].flag = "clean"]
             s == [store EXCEPT ![h[1].buf] = v]
             d == Written(Evicted(b))
         IN  /\ s \in [Slots -> Values]
             /\ Same(h, s, d)
             /\ g \in [Slots -> Headers] /\ Once(g) /\ Blank(g)
             /\ v = d[b] => Same(g, s, d)
  <1> DEFINE h == Touched(b)
             g == [h EXCEPT ![1].flag = "clean"]
             s == [store EXCEPT ![h[1].buf] = v]
             d == Written(Evicted(b))
  <1>1. h \in [Slots -> Headers] /\ Once(h) /\ Blank(h) /\ Same(h, store, d)
        /\ h[1].block = b /\ h[1].flag = "no block"
    BY TouchedFacts
  <1>2. store \in [Slots -> Values]
    BY DEF IInv, TypeOK
  <1> HIDE DEF h, d
  <1>3. s \in [Slots -> Values]
    BY <1>2
  <1>4. \A n \in Slots \ {1} : s[h[n].buf] = store[h[n].buf]
    BY <1>1, <1>2, SlotFacts DEF Once, Headers
  <1>5. Same(h, s, d)
    BY <1>1, <1>4 DEF Same
  <1>6. g \in [Slots -> Headers]
    BY <1>1, SlotFacts DEF Headers, Flags
  <1>7. /\ g[1] = [h[1] EXCEPT !.flag = "clean"]
        /\ \A n \in Slots \ {1} : g[n] = h[n]
    BY <1>1, SlotFacts
  <1> HIDE DEF g
  <1>8. g[1].block = b /\ g[1].buf = h[1].buf /\ g[1].flag = "clean"
    <2>1. h[1] \in Headers
      BY <1>1, SlotFacts
    <2>2. QED
      BY <1>1, <1>7, <2>1 DEF Headers
  <1>9. \A n \in Slots : g[n].block = h[n].block /\ g[n].buf = h[n].buf
    BY <1>1, <1>7, <1>8
  <1>10. Once(g) /\ Blank(g)
    <2>1. Once(g)
      BY <1>1, <1>9 DEF Once
    <2>2. Blank(g)
      BY <1>1, <1>7, <1>8, SlotFacts DEF Blank
    <2>3. QED
      BY <2>1, <2>2
  <1>11. ASSUME v = d[b] PROVE Same(g, s, d)
    <2>1. s[g[1].buf] = d[g[1].block]
      BY <1>1, <1>2, <1>8, <1>11, SlotFacts DEF Headers
    <2>2. QED
      BY <2>1, <1>5, <1>7 DEF Same
  <1>12. QED
    BY <1>3, <1>5, <1>6, <1>10, <1>11 DEF h, g, d

\* A failed write spoils no block that has a clean buffer, and none of those that
\* were written before it.
LEMMA FailFacts ==
  ASSUME IInv, NEW I \in SUBSET Slots, NEW k \in Slots \ I, WriteFails(I, k)
  PROVE  /\ disk' \in [Blocks -> Values] /\ Same(hdr, store, disk')
         /\ \A i \in I : Dirty(i) => disk'[hdr[i].block] = store[hdr[i].buf]
  <1>1. PICK v \in Values : disk' = [Written(I) EXCEPT ![hdr[k].block] = v]
    BY DEF WriteFails
  <1>2. /\ Written(I) \in [Blocks -> Values] /\ Same(hdr, store, Written(I))
        /\ \A i \in I : Dirty(i) => Written(I)[hdr[i].block] = store[hdr[i].buf]
    BY WrittenFacts
  <1>3. hdr[k].flag = "dirty" /\ Once(hdr) /\ Blank(hdr) /\ hdr \in [Slots -> Headers]
    BY Parts DEF WriteFails, Dirty, TypeOK, Headers
  <1>4. hdr[k].block # NoBlock
    BY <1>3 DEF Blank
  <1>5. \A j \in Slots \ {k} : hdr[j].block # hdr[k].block
    BY <1>3, <1>4 DEF Once
  <1>6. \A c \in Blocks : c # hdr[k].block => disk'[c] = Written(I)[c]
    BY <1>1, <1>2
  <1>7. disk' \in [Blocks -> Values]
    BY <1>1, <1>2
  <1>8. \A j \in Slots : hdr[j].block # NoBlock => hdr[j].block \in Blocks
    BY <1>3 DEF Headers
  <1>9. Same(hdr, store, disk')
    BY <1>2, <1>3, <1>5, <1>6, <1>8 DEF Same
  <1>10. \A i \in I : Dirty(i) => hdr[i].block # NoBlock
    BY <1>3 DEF Blank, Dirty
  <1>11. QED
    BY <1>2, <1>5, <1>6, <1>7, <1>8, <1>9, <1>10

\* Headers that were written may be called clean.
LEMMA CleanedFacts ==
  ASSUME IInv, NEW I \in SUBSET Slots, NEW d, Same(hdr, store, d),
         \A i \in I : Dirty(i) => d[hdr[i].block] = store[hdr[i].buf]
  PROVE  LET h == Cleaned(I)
         IN  /\ h \in [Slots -> Headers]
             /\ Once(h) /\ Blank(h) /\ Same(h, store, d)
             /\ \A n \in Slots : h[n].block = hdr[n].block /\ h[n].buf = hdr[n].buf
  <1> DEFINE h == Cleaned(I)
  <1>1. hdr \in [Slots -> Headers] /\ Once(hdr) /\ Blank(hdr)
    BY Parts DEF TypeOK, Headers
  <1>2. \A n \in Slots : IF n \in I /\ Dirty(n)
                         THEN h[n] = [hdr[n] EXCEPT !.flag = "clean"] ELSE h[n] = hdr[n]
    BY DEF Cleaned
  <1>3. h = [n \in Slots |-> h[n]]
    BY DEF Cleaned
  <1> HIDE DEF h
  <1>4. \A n \in Slots : /\ h[n] \in Headers
                         /\ h[n].block = hdr[n].block /\ h[n].buf = hdr[n].buf
                         /\ h[n].flag = IF n \in I /\ Dirty(n) THEN "clean" ELSE hdr[n].flag
    BY <1>1, <1>2 DEF Headers, Flags
  <1>5. h \in [Slots -> Headers]
    BY <1>3, <1>4
  <1>6. Once(h) /\ Blank(h)
    BY <1>1, <1>4 DEF Once, Blank
  <1>7. Same(h, store, d)
    BY <1>4 DEF Same
  <1>8. QED
    BY <1>4, <1>5, <1>6, <1>7 DEF h

-----------------------------------------------------------------------------
\* Each of the other words leaves the invariant true.
LEMMA BlockInv == ASSUME IInv, NEW b \in Blocks, Block(b) PROVE IInv'
  <1> DEFINE h == Touched(b)
             d == Written(Evicted(b))
  <1>1. h \in [Slots -> Headers] /\ d \in [Blocks -> Values] /\ h[1].block = b
        /\ Once(h) /\ Blank(h) /\ Same(h, store, d)
    BY TouchedFacts
  <1>2. disk' = d /\ adr' = h[1].buf /\ asked' = b /\ flushing' = flushing /\ saved' = FALSE
    BY DEF Block
  <1>3. flushing \in 0..MaxFlush /\ store \in [Slots -> Values]
    BY DEF IInv, TypeOK
  <1>4. h[1] \in Headers
    BY <1>1, SlotFacts
  <1>5. CASE h[1].flag = "no block"
    <2>1. hdr' = [h EXCEPT ![1].flag = "clean"] /\ store' = [store EXCEPT ![h[1].buf] = d[b]]
      BY <1>2, <1>5 DEF Block
    <2>2. d[b] \in Values
      BY <1>1
    <2>3. /\ store' \in [Slots -> Values] /\ hdr' \in [Slots -> Headers]
          /\ Once(hdr') /\ Blank(hdr') /\ Same(hdr', store', d)
      BY <1>5, <2>1, <2>2, ReadFacts
    <2>4. hdr'[1].buf = h[1].buf /\ hdr'[1].block = b
      BY <1>1, <1>4, <2>1, SlotFacts DEF Headers
    <2> HIDE DEF h, d
    <2>5. QED
      BY <1>1, <1>2, <1>3, <2>3, <2>4, Assembled
  <1>6. CASE h[1].flag # "no block"
    <2>1. hdr' = h /\ store' = store
      <3>1. hdr' = [h EXCEPT ![1].flag = h[1].flag]
        BY <1>6 DEF Block
      <3>2. [h[1] EXCEPT !.flag = h[1].flag] = h[1]
        BY <1>4 DEF Headers
      <3>3. store' = store
        BY <1>6 DEF Block
      <3> HIDE DEF h
      <3>4. QED
        BY <1>1, <3>1, <3>2, <3>3
    <2> HIDE DEF h, d
    <2>2. QED
      BY <1>1, <1>2, <1>3, <2>1, Assembled
  <1>7. QED
    BY <1>5, <1>6

LEMMA BufferFailsInv == ASSUME IInv, NEW b \in Blocks, BufferFails(b) PROVE IInv'
  <1>1. PICK k \in Evicted(b) : WriteFails({}, k)
    BY DEF BufferFails
  <1>2. k \in Slots
    BY <1>1, SlotFacts DEF Evicted
  <1>3. disk' \in [Blocks -> Values] /\ Same(hdr, store, disk')
    BY <1>1, <1>2, FailFacts
  <1>4. hdr' = hdr /\ store' = store /\ NoneHeld /\ flushing' = flushing /\ saved' = FALSE
    BY <1>1 DEF BufferFails, WriteFails
  <1>5. QED
    BY <1>3, <1>4, Parts, Assembled DEF NoneHeld, TypeOK, Headers

LEMMA ReadFailsInv == ASSUME IInv, NEW b \in Blocks, ReadFails(b) PROVE IInv'
  <1> DEFINE h == Touched(b)
             d == Written(Evicted(b))
  <1>1. h[1].flag = "no block" /\ hdr' = h /\ disk' = d /\ NoneHeld
        /\ flushing' = flushing /\ saved' = FALSE
    BY DEF ReadFails
  <1>2. PICK v \in Values : store' = [store EXCEPT ![h[1].buf] = v]
    BY DEF ReadFails
  <1>3. store' \in [Slots -> Values] /\ Same(h, store', d)
    BY <1>1, <1>2, ReadFacts
  <1>4. h \in [Slots -> Headers] /\ d \in [Blocks -> Values] /\ Once(h) /\ Blank(h)
    BY TouchedFacts
  <1> HIDE DEF h, d
  <1>5. QED
    BY <1>1, <1>3, <1>4, Assembled DEF NoneHeld, IInv, TypeOK

LEMMA ChangeInv == ASSUME IInv, NEW v \in Values, Change(v) PROVE IInv'
  <1>1. adr # 0 /\ store' = [store EXCEPT ![adr] = v] /\ hdr' = [hdr EXCEPT ![1].flag = "dirty"]
        /\ disk' = disk /\ adr' = adr /\ asked' = asked /\ flushing' = flushing /\ saved' = FALSE
    BY DEF Change, held
  <1>2. /\ hdr \in [Slots -> Headers] /\ store \in [Slots -> Values] /\ disk \in [Blocks -> Values]
        /\ flushing \in 0..MaxFlush
        /\ Once(hdr) /\ Blank(hdr) /\ Same(hdr, store, disk)
        /\ asked \in Blocks /\ adr = hdr[1].buf /\ hdr[1].block = asked
    BY <1>1, Parts DEF TypeOK, Headers
  <1>3. /\ hdr'[1] = [hdr[1] EXCEPT !.flag = "dirty"] /\ hdr[1] \in Headers
        /\ \A n \in Slots \ {1} : hdr'[n] = hdr[n]
    BY <1>1, <1>2, SlotFacts
  <1>4. hdr'[1] \in Headers /\ hdr'[1].flag = "dirty" /\ hdr'[1].block = asked /\ hdr'[1].buf = adr
    BY <1>2, <1>3 DEF Headers, Flags
  <1>5. hdr' \in [Slots -> Headers]
    BY <1>1, <1>2, <1>3, <1>4
  <1>6. \A n \in Slots : hdr'[n].block = hdr[n].block /\ hdr'[n].buf = hdr[n].buf
    BY <1>2, <1>3, <1>4
  <1>7. Once(hdr') /\ Blank(hdr')
    BY <1>2, <1>3, <1>4, <1>6, SlotFacts DEF Once, Blank
  <1>8. \A n \in Slots \ {1} : store'[hdr[n].buf] = store[hdr[n].buf]
    BY <1>1, <1>2, SlotFacts DEF Once, Headers
  <1>9. Same(hdr', store', disk')
    BY <1>1, <1>2, <1>3, <1>4, <1>8 DEF Same
  <1>10. store' \in [Slots -> Values]
    BY <1>1, <1>2
  <1>11. QED
    BY <1>1, <1>2, <1>4, <1>5, <1>7, <1>9, <1>10, Assembled

LEMMA DiscardInv == ASSUME IInv, Discard PROVE IInv'
  <1>1. adr # 0 /\ hdr' = [hdr EXCEPT ![1].flag = "no block"] /\ store' = store
        /\ disk' = disk /\ NoneHeld /\ flushing' = flushing /\ saved' = FALSE
    BY DEF Discard
  <1>2. /\ hdr \in [Slots -> Headers] /\ store \in [Slots -> Values] /\ disk \in [Blocks -> Values]
        /\ flushing \in 0..MaxFlush
        /\ Once(hdr) /\ Blank(hdr) /\ Same(hdr, store, disk)
        /\ hdr[1].block \in Blocks
    BY <1>1, Parts DEF TypeOK, Headers
  <1>3. /\ hdr'[1] = [hdr[1] EXCEPT !.flag = "no block"] /\ hdr[1] \in Headers
        /\ \A n \in Slots \ {1} : hdr'[n] = hdr[n]
    BY <1>1, <1>2, SlotFacts
  <1>4. hdr'[1] \in Headers /\ hdr'[1].flag = "no block" /\ hdr'[1].block = hdr[1].block
        /\ hdr'[1].buf = hdr[1].buf
    BY <1>2, <1>3 DEF Headers, Flags
  <1>5. hdr' \in [Slots -> Headers]
    BY <1>1, <1>2, <1>3, <1>4
  <1>6. \A n \in Slots : hdr'[n].block = hdr[n].block /\ hdr'[n].buf = hdr[n].buf
    BY <1>2, <1>3, <1>4
  <1>7. Once(hdr') /\ Blank(hdr')
    <2>1. Once(hdr')
      BY <1>2, <1>6 DEF Once
    <2>2. hdr'[1].block # NoBlock
      BY <1>2, <1>4, SlotFacts
    <2>3. QED
      BY <1>2, <1>3, <2>1, <2>2 DEF Blank
  <1>8. Same(hdr', store', disk')
    BY <1>1, <1>2, <1>3, <1>4 DEF Same
  <1>9. QED
    BY <1>1, <1>2, <1>5, <1>7, <1>8, Assembled DEF NoneHeld

\* What `save-buffers` and the first half of `flush` leave.
LEMMA SavedFacts ==
  ASSUME IInv, hdr' = Cleaned(Slots), disk' = Written(Slots), store' = store
  PROVE  /\ hdr' \in [Slots -> Headers] /\ disk' \in [Blocks -> Values]
         /\ Once(hdr') /\ Blank(hdr') /\ Same(hdr', store', disk')
         /\ \A n \in Slots : hdr'[n].block = hdr[n].block /\ hdr'[n].buf = hdr[n].buf
  <1>1. /\ disk' \in [Blocks -> Values] /\ Same(hdr, store, disk')
        /\ \A i \in Slots : Dirty(i) => disk'[hdr[i].block] = store[hdr[i].buf]
    BY WrittenFacts
  <1>2. QED
    BY <1>1, CleanedFacts

LEMMA SaveBuffersInv == ASSUME IInv, SaveBuffers PROVE IInv'
  <1>1. adr' = adr /\ asked' = asked /\ flushing' = flushing /\ saved' = TRUE /\ store' = store
    BY DEF SaveBuffers, held
  <1>2. /\ hdr' \in [Slots -> Headers] /\ disk' \in [Blocks -> Values]
        /\ Once(hdr') /\ Blank(hdr') /\ Same(hdr', store', disk')
        /\ \A n \in Slots : hdr'[n].block = hdr[n].block /\ hdr'[n].buf = hdr[n].buf
    BY SavedFacts DEF SaveBuffers
  <1>3. QED
    BY <1>1, <1>2, SlotFacts, Assembled DEF IInv, TypeOK, UpdateMarksAsked

LEMMA SaveFailsInv == ASSUME IInv, NEW k \in Slots, SaveFails(k) PROVE IInv'
  <1>1. 1..k-1 \in SUBSET Slots /\ k \in Slots \ (1..k-1)
    BY BlockAssumption DEF Slots
  <1>2. WriteFails(1..k-1, k) /\ hdr' = Cleaned(1..k-1) /\ flushing' = flushing
    BY DEF SaveFails
  <1>3. store' = store /\ saved' = FALSE /\ NoneHeld
    BY <1>2 DEF WriteFails
  <1>4. /\ disk' \in [Blocks -> Values] /\ Same(hdr, store, disk')
        /\ \A i \in 1..k-1 : Dirty(i) => disk'[hdr[i].block] = store[hdr[i].buf]
    BY <1>1, <1>2, FailFacts
  <1>5. hdr' \in [Slots -> Headers] /\ Once(hdr') /\ Blank(hdr') /\ Same(hdr', store, disk')
    BY <1>1, <1>2, <1>4, CleanedFacts
  <1>6. QED
    BY <1>2, <1>3, <1>4, <1>5, Assembled DEF NoneHeld, IInv, TypeOK

\* `empty-buffers` leaves nothing to save and nothing to lose.
LEMMA EmptiedInv ==
  ASSUME IInv, Emptied, disk' \in [Blocks -> Values], flushing' \in 0..MaxFlush
  PROVE  IInv'
  <1>1. hdr' \in [Slots -> Headers] /\ Once(hdr') /\ Blank(hdr') /\ Same(hdr', store', disk')
    BY DEF Emptied, Headers, Flags, Once, Blank, Same
  <1>2. store' \in [Slots -> Values] /\ NoneHeld /\ saved' = FALSE
    BY BlockAssumption DEF Emptied
  <1>3. QED
    BY <1>1, <1>2, Assembled DEF NoneHeld

LEMMA EmptyBuffersInv == ASSUME IInv, EmptyBuffers PROVE IInv'
  BY EmptiedInv DEF EmptyBuffers, IInv, TypeOK

LEMMA FlushInv == ASSUME IInv, Flush PROVE IInv'
  <1>1. NoneHeld /\ flushing' \in 0..MaxFlush /\ saved' = TRUE /\ store' = store
    BY BlockAssumption DEF Flush, IInv, TypeOK
  <1>2. /\ hdr' \in [Slots -> Headers] /\ disk' \in [Blocks -> Values]
        /\ Once(hdr') /\ Blank(hdr') /\ Same(hdr', store', disk')
    BY SavedFacts DEF Flush
  <1>3. QED
    BY <1>1, <1>2, Assembled DEF NoneHeld, IInv, TypeOK

LEMMA FlushDoneInv == ASSUME IInv, FlushDone PROVE IInv'
  <1>1. Zero \in Blocks
    BY BlockAssumption
  <1>2. disk' \in [Blocks -> Values]
    BY <1>1, TouchedFacts DEF FlushDone
  <1>3. flushing' \in 0..MaxFlush
    BY BlockAssumption DEF FlushDone, IInv, TypeOK
  <1>4. QED
    BY <1>2, <1>3, EmptiedInv DEF FlushDone

LEMMA FlushFailsInv == ASSUME IInv, FlushFails PROVE IInv'
  <1> DEFINE h == Touched(Zero)
             d == Written(Evicted(Zero))
  <1>1. Zero \in Blocks
    BY BlockAssumption
  <1>2. flushing' \in 0..MaxFlush /\ NoneHeld /\ saved' = FALSE
    <2>1. flushing > 0 /\ flushing' = flushing - 1 /\ NoneHeld /\ saved' = FALSE
      BY DEF FlushFails
    <2>2. flushing \in 0..MaxFlush
      BY DEF IInv, TypeOK
    <2>3. QED
      BY <2>1, <2>2, BlockAssumption
  <1>3. CASE hdr' = hdr /\ store' = store /\ \E k \in Evicted(Zero) : WriteFails({}, k)
    <2>1. PICK k \in Evicted(Zero) : WriteFails({}, k)
      BY <1>3
    <2>2. k \in Slots
      BY <2>1, SlotFacts DEF Evicted
    <2>3. disk' \in [Blocks -> Values] /\ Same(hdr, store, disk')
      BY <2>1, <2>2, FailFacts
    <2>4. QED
      BY <1>2, <1>3, <2>3, Parts, Assembled DEF NoneHeld, TypeOK, Headers
  <1>4. CASE /\ h[1].flag = "no block" /\ hdr' = h /\ disk' = d
             /\ \E v \in Values : store' = [store EXCEPT ![h[1].buf] = v]
    <2>1. PICK v \in Values : store' = [store EXCEPT ![h[1].buf] = v]
      BY <1>4
    <2>2. store' \in [Slots -> Values] /\ Same(h, store', d)
      BY <1>1, <1>4, <2>1, ReadFacts
    <2>3. h \in [Slots -> Headers] /\ d \in [Blocks -> Values] /\ Once(h) /\ Blank(h)
      BY <1>1, TouchedFacts
    <2> HIDE DEF h, d
    <2>4. QED
      BY <1>2, <1>4, <2>2, <2>3, Assembled DEF NoneHeld
  <1>5. QED
    BY <1>3, <1>4 DEF FlushFails
-----------------------------------------------------------------------------
LEMMA NextInv == IInv /\ [Next]_vars => IInv'
  <1> SUFFICES ASSUME IInv, [Next]_vars PROVE IInv'
    OBVIOUS
  <1>1. ASSUME NEW b \in Blocks, Block(b) \/ Buffer(b) \/ BufferFails(b) \/ ReadFails(b)
        PROVE  IInv'
    BY <1>1, BlockInv, BufferInv, BufferFailsInv, ReadFailsInv
  <1>2. ASSUME NEW v \in Values, Change(v) PROVE IInv'
    BY <1>2, ChangeInv
  <1>3. CASE Discard
    BY <1>3, DiscardInv
  <1>4. CASE SaveBuffers
    BY <1>4, SaveBuffersInv
  <1>5. ASSUME NEW i \in Slots, SaveFails(i) PROVE IInv'
    BY <1>5, SaveFailsInv
  <1>6. CASE EmptyBuffers
    BY <1>6, EmptyBuffersInv
  <1>7. CASE Flush
    BY <1>7, FlushInv
  <1>8. CASE FlushDone
    BY <1>8, FlushDoneInv
  <1>9. CASE FlushFails
    BY <1>9, FlushFailsInv
  <1>10. CASE UNCHANGED vars
    BY <1>10 DEF vars, held, IInv, TypeOK, OneCopy, UpdateMarksAsked, CleanIsDisk
  <1>11. QED
    BY <1>1, <1>2, <1>3, <1>4, <1>5, <1>6, <1>7, <1>8, <1>9, <1>10 DEF Next

\* The invariant is true of every state, whatever the number of buffers and whatever
\* reads and writes fail.
THEOREM Invariance == Spec => []IInv
  BY InitInv, NextInv, PTL DEF Spec

\* The headers are of blocks and buffers there are, with one of the three flags.
THEOREM TypeCorrect == Spec => []TypeOK
  <1>1. IInv => TypeOK
    BY DEF IInv
  <1>2. QED
    BY <1>1, Invariance, PTL

\* No two headers ever have the same buffer or the same block (file-buffer).
THEOREM OneCopyAlways == Spec => []OneCopy
  <1>1. IInv => OneCopy
    BY DEF IInv
  <1>2. QED
    BY <1>1, Invariance, PTL

\* A clean buffer always holds what its block holds on the disk (?write-block).
THEOREM CleanIsDiskAlways == Spec => []CleanIsDisk
  <1>1. IInv => CleanIsDisk
    BY DEF IInv
  <1>2. QED
    BY <1>1, Invariance, PTL

\* `update` marks the block that the program asked for and no empty header (update).
THEOREM UpdateMarksAskedAlways == Spec => []UpdateMarksAsked
  <1>1. IInv => UpdateMarksAsked
    BY DEF IInv
  <1>2. QED
    BY <1>1, Invariance, PTL
-----------------------------------------------------------------------------
\* file-buffer drops no header but the one it evicts.
LEMMA TouchedKeeps ==
  ASSUME TypeOK, NEW b \in Blocks, NEW j \in Slots \ Evicted(b)
  PROVE  \E n \in Slots : Touched(b)[n] = hdr[j]
  <1>1. CASE Cached(b)
    <2> DEFINE i == CHOOSE k \in Slots : hdr[k].block = b
    <2>1. i \in Slots
      BY <1>1 DEF Cached
    <2>2. Touched(b) = InFront(hdr[i], i)
      BY <1>1 DEF Touched
    <2> HIDE DEF i
    <2>3. CASE j = i
      BY <2>2, <2>3, SlotFacts DEF InFront
    <2>4. CASE j < i
      <3>1. j + 1 \in Slots /\ j + 1 # 1 /\ j + 1 <= i /\ (j + 1) - 1 = j
        BY <2>1, <2>4, BlockAssumption DEF Slots
      <3>2. InFront(hdr[i], i)[j + 1] = hdr[j]
        BY <3>1 DEF InFront
      <3>3. QED
        BY <2>2, <3>1, <3>2
    <2>5. CASE j > i
      <3>1. j \in Slots /\ j # 1 /\ ~(j <= i)
        BY <2>1, <2>5, BlockAssumption DEF Slots
      <3>2. QED
        BY <2>2, <3>1 DEF InFront
    <2>6. QED
      BY <2>1, <2>3, <2>4, <2>5, BlockAssumption DEF Slots
  <1>2. CASE ~Cached(b)
    <2>1. Touched(b) = InFront(Fresh(b), NBufs) /\ j \in Slots \ {NBufs}
      BY <1>2 DEF Touched, Evicted
    <2>2. j + 1 \in Slots /\ j + 1 # 1 /\ j + 1 <= NBufs /\ (j + 1) - 1 = j
      BY <2>1, BlockAssumption DEF Slots
    <2>3. InFront(Fresh(b), NBufs)[j + 1] = hdr[j]
      BY <2>2 DEF InFront
    <2>4. QED
      BY <2>1, <2>2, <2>3
  <1>3. QED
    BY <1>1, <1>2

\* Every header but the last is still there in h, perhaps with another flag.
KeptIn(h) == \A i \in 1..NBufs-1 : hdr[i].block # NoBlock =>
               \E j \in Slots : h[j].block = hdr[i].block /\ h[j].buf = hdr[i].buf

\* So `block` and `buffer` keep all headers but the last.
LEMMA TouchedKept == ASSUME IInv, NEW b \in Blocks PROVE KeptIn(Touched(b))
  <1>1. 1..NBufs-1 \subseteq Slots \ Evicted(b)
    BY BlockAssumption DEF Slots, Evicted
  <1>2. QED
    BY <1>1, TouchedKeeps DEF KeptIn, IInv

\* And so do steps that only change flags.
LEMMA InPlaceKept ==
  ASSUME NEW g, NEW h, KeptIn(g),
         \A n \in Slots : h[n].block = g[n].block /\ h[n].buf = g[n].buf
  PROVE  KeptIn(h)
  BY DEF KeptIn

LEMMA StepKeeps ==
  ASSUME IInv, [Next]_vars, NEW k \in Slots, hdr'[k].block # NoBlock
  PROVE  KeptIn(hdr')
  <1>1. hdr \in [Slots -> Headers]
    BY DEF IInv, TypeOK, Headers
  <1>2. KeptIn(hdr)
    <2>1. 1..NBufs-1 \subseteq Slots
      BY BlockAssumption DEF Slots
    <2>2. QED
      BY <2>1 DEF KeptIn
  <1>3. ASSUME NEW I \in SUBSET Slots, hdr' = Cleaned(I) PROVE KeptIn(hdr')
    <2>1. \A n \in Slots : hdr'[n].block = hdr[n].block /\ hdr'[n].buf = hdr[n].buf
      BY <1>1, <1>3 DEF Cleaned, Headers
    <2>2. QED
      BY <1>2, <2>1, InPlaceKept
  <1>4. ASSUME NEW g \in [Slots -> Headers], NEW f, KeptIn(g), hdr' = [g EXCEPT ![1].flag = f]
        PROVE  KeptIn(hdr')
    <2>1. g[1] \in Headers /\ hdr'[1] = [g[1] EXCEPT !.flag = f]
          /\ \A n \in Slots \ {1} : hdr'[n] = g[n]
      BY <1>4, SlotFacts
    <2>2. \A n \in Slots : hdr'[n].block = g[n].block /\ hdr'[n].buf = g[n].buf
      BY <2>1 DEF Headers
    <2>3. QED
      BY <1>4, <2>2, InPlaceKept
  <1>5. ASSUME Emptied PROVE FALSE
    BY <1>5 DEF Emptied
  <1>6. ASSUME NEW b \in Blocks, Block(b) PROVE KeptIn(hdr')
    <2>1. Touched(b) \in [Slots -> Headers] /\ KeptIn(Touched(b))
      BY TouchedFacts, TouchedKept
    <2>2. hdr' = [Touched(b) EXCEPT ![1].flag = IF @ = "no block" THEN "clean" ELSE @]
      BY <1>6 DEF Block
    <2> DEFINE f == IF Touched(b)[1].flag = "no block" THEN "clean" ELSE Touched(b)[1].flag
    <2>3. hdr' = [Touched(b) EXCEPT ![1].flag = f]
      BY <2>2
    <2> HIDE DEF f
    <2>4. QED
      BY <1>4, <2>1, <2>3
  <1>7. ASSUME NEW b \in Blocks, Buffer(b) \/ BufferFails(b) \/ ReadFails(b) PROVE KeptIn(hdr')
    BY <1>2, <1>7, TouchedKept DEF Buffer, BufferFails, ReadFails
  <1>8. ASSUME NEW v \in Values, Change(v) PROVE KeptIn(hdr')
    BY <1>1, <1>2, <1>4, <1>8 DEF Change
  <1>9. CASE Discard
    BY <1>1, <1>2, <1>4, <1>9 DEF Discard
  <1>10. CASE SaveBuffers \/ Flush
    BY <1>3, <1>10 DEF SaveBuffers, Flush
  <1>11. ASSUME NEW i \in Slots, SaveFails(i) PROVE KeptIn(hdr')
    <2>1. 1..i-1 \in SUBSET Slots
      BY BlockAssumption DEF Slots
    <2>2. QED
      BY <1>3, <1>11, <2>1 DEF SaveFails
  <1>12. CASE EmptyBuffers \/ FlushDone
    BY <1>5, <1>12 DEF EmptyBuffers, FlushDone
  <1>13. CASE FlushFails
    BY <1>2, <1>13, TouchedKept, BlockAssumption DEF FlushFails
  <1>14. CASE UNCHANGED vars
    BY <1>2, <1>14 DEF vars
  <1>15. QED
    BY <1>6, <1>7, <1>8, <1>9, <1>10, <1>11, <1>12, <1>13, <1>14 DEF Next

\* Whatever the next step is, short of `empty-buffers` and the end of `flush`, the
\* addresses of the last #buffers - 1 blocks that were used stay good (file-buffer).
THEOREM RecentStaysKept == Spec => RecentKept
  <1> DEFINE Keep == (\E j \in Slots : hdr'[j].block # NoBlock) =>
                        \A i \in 1..NBufs-1 : hdr[i].block # NoBlock =>
                          \E j \in Slots : hdr'[j].block = hdr[i].block /\ hdr'[j].buf = hdr[i].buf
  <1>1. IInv /\ [Next]_vars => [Keep]_vars
    BY StepKeeps DEF KeptIn
  <1>2. QED
    BY <1>1, Invariance, PTL DEF Spec, RecentKept
-----------------------------------------------------------------------------
\* Contents of any headers, buffers and disk.
View(h, s, d) == [b \in Blocks |->
                    IF \E i \in Slots : h[i].block = b /\ h[i].flag = "dirty"
                    THEN s[h[CHOOSE i \in Slots : h[i].block = b].buf]
                    ELSE d[b]]

\* What makes c the view of them: the buffer of every updated block and the disk for
\* all others.
IsView(c, h, s, d) ==
  /\ c \in [Blocks -> Values]
  /\ \A i \in Slots : h[i].flag = "dirty" => c[h[i].block] = s[h[i].buf]
  /\ \A b \in Blocks : (\A i \in Slots : h[i].block = b => h[i].flag # "dirty") => c[b] = d[b]

LEMMA ViewIsView ==
  ASSUME NEW h \in [Slots -> Headers], NEW s \in [Slots -> Values], NEW d \in [Blocks -> Values],
         Once(h), Blank(h)
  PROVE  IsView(View(h, s, d), h, s, d)
  <1> DEFINE c == View(h, s, d)
  <1>1. \A i \in Slots : h[i].flag = "dirty" => h[i].block \in Blocks
    BY DEF Blank, Headers
  <1>2. ASSUME NEW i \in Slots, h[i].flag = "dirty" PROVE c[h[i].block] = s[h[i].buf]
    <2> DEFINE k == CHOOSE j \in Slots : h[j].block = h[i].block
    <2>1. k \in Slots /\ h[k].block = h[i].block
      OBVIOUS
    <2>2. c[h[i].block] = s[h[k].buf]
      BY <1>1, <1>2 DEF View
    <2> HIDE DEF k
    <2>3. k = i
      BY <1>1, <1>2, <2>1, SlotFacts DEF Once
    <2>4. QED
      BY <2>2, <2>3
  <1>3. ASSUME NEW b \in Blocks, \A i \in Slots : h[i].block = b => h[i].flag # "dirty"
        PROVE  c[b] = d[b]
    BY <1>3 DEF View
  <1>4. \A i \in Slots : h[i].buf \in Slots
    BY DEF Headers
  <1>5. c = [b \in Blocks |-> c[b]]
    BY DEF View
  <1> HIDE DEF c
  <1>6. \A b \in Blocks : c[b] \in Values
    BY <1>2, <1>3, <1>4
  <1>7. c \in [Blocks -> Values]
    BY <1>5, <1>6
  <1>8. IsView(c, h, s, d)
    BY <1>2, <1>3, <1>7 DEF IsView
  <1>9. QED
    BY <1>8 DEF c

\* There is only one view.
LEMMA OneView ==
  ASSUME NEW h, NEW s, NEW d, NEW c, NEW e, Blank(h), IsView(c, h, s, d), IsView(e, h, s, d)
  PROVE  c = e
  <1>1. c \in [Blocks -> Values] /\ e \in [Blocks -> Values]
    BY DEF IsView
  <1>2. ASSUME NEW b \in Blocks PROVE c[b] = e[b]
    <2>1. CASE \E i \in Slots : h[i].block = b /\ h[i].flag = "dirty"
      BY <2>1 DEF IsView
    <2>2. CASE \A i \in Slots : h[i].block = b => h[i].flag # "dirty"
      BY <2>2 DEF IsView
    <2>3. QED
      BY <2>1, <2>2
  <1>3. QED
    BY <1>1, <1>2

\* What programs find in the blocks is the view of this state, and of the next one.
LEMMA ContentsNow == ASSUME IInv PROVE IsView(Contents, hdr, store, disk)
  <1>1. Contents = View(hdr, store, disk)
    BY DEF Contents, View, Dirty
  <1>2. QED
    BY <1>1, ViewIsView, Parts DEF TypeOK, Headers

LEMMA ContentsThen ==
  ASSUME IInv', NEW c, IsView(c, hdr', store', disk')
  PROVE  Contents' = c
  <1>1. Contents' = View(hdr', store', disk')
    BY DEF Contents, View, Dirty
  <1>2. /\ hdr' \in [Slots -> Headers] /\ store' \in [Slots -> Values]
        /\ disk' \in [Blocks -> Values] /\ Once(hdr') /\ Blank(hdr')
    BY DEF IInv, TypeOK, Headers, OneCopy, Once, UpdateMarksAsked, Blank
  <1>3. IsView(View(hdr', store', disk'), hdr', store', disk')
    BY <1>2, ViewIsView
  <1>4. QED
    BY <1>1, <1>2, <1>3, OneView

\* The view depends on nothing but the updated buffers and the disk.
LEMMA SameView ==
  ASSUME NEW g, NEW h, NEW s, NEW z, NEW d, NEW c, IsView(c, g, s, d),
         \A n \in Slots : /\ h[n].block = g[n].block
                          /\ h[n].flag = "dirty" <=> g[n].flag = "dirty"
                          /\ h[n].flag = "dirty" => z[h[n].buf] = s[g[n].buf]
  PROVE  IsView(c, h, z, d)
  BY DEF IsView
-----------------------------------------------------------------------------
\* The blocks of the updated headers of I.
Updated(I) == {b \in Blocks : \E i \in I : Dirty(i) /\ hdr[i].block = b}

\* ?write-block writes what programs find in them.
LEMMA WrittenIsStored ==
  ASSUME IInv, NEW I \in SUBSET Slots
  PROVE  Written(I) = Store!Written(Updated(I))
  <1>1. \A i \in I : Dirty(i) => /\ Written(I)[hdr[i].block] = store[hdr[i].buf]
                                 /\ Contents[hdr[i].block] = store[hdr[i].buf]
    BY WrittenFacts, ContentsNow DEF IsView, Dirty
  <1>2. \A b \in Blocks : b \notin Updated(I) => Written(I)[b] = disk[b]
    BY DEF Written, Updated
  <1>3. \A b \in Blocks : b \in Updated(I) => Written(I)[b] = Contents[b]
    BY <1>1 DEF Updated
  <1>4. Written(I) = [b \in Blocks |-> Written(I)[b]]
    BY DEF Written
  <1>5. Store!Written(Updated(I)) = [b \in Blocks |-> IF b \in Updated(I) THEN Contents[b] ELSE disk[b]]
    BY DEF Store!Written
  <1>6. QED
    BY <1>2, <1>3, <1>4, <1>5

\* Writing the evicted block and moving the headers hides nothing from programs and
\* uncovers nothing.
LEMMA MovedView ==
  ASSUME IInv, NEW b \in Blocks
  PROVE  IsView(Contents, Touched(b), store, Written(Evicted(b)))
  <1> DEFINE h == Touched(b)
             d == Written(Evicted(b))
  <1>1. Moved(h, b)
    BY TouchedMoves DEF IInv
  <1>2. IsView(Contents, hdr, store, disk)
    BY ContentsNow
  <1>3. \A j \in Slots \ Evicted(b) : \E n \in Slots : h[n] = hdr[j]
    BY TouchedKeeps DEF IInv
  <1>4. Evicted(b) \in SUBSET Slots
    BY SlotFacts DEF Evicted
  <1>5. \A i \in Evicted(b) : Dirty(i) => d[hdr[i].block] = store[hdr[i].buf]
    BY <1>4, WrittenFacts
  <1>6. \A c \in Blocks : (\A i \in Evicted(b) : ~(Dirty(i) /\ hdr[i].block = c)) => d[c] = disk[c]
    BY DEF Written
  <1> HIDE DEF h, d
  <1>7. ASSUME NEW n \in Slots, h[n].flag = "dirty" PROVE Contents[h[n].block] = store[h[n].buf]
    <2>1. \E j \in Slots : h[n] = hdr[j]
      BY <1>1, <1>7 DEF Moved
    <2>2. QED
      BY <1>2, <1>7, <2>1 DEF IsView
  <1>8. ASSUME NEW c \in Blocks, \A n \in Slots : h[n].block = c => h[n].flag # "dirty"
        PROVE  Contents[c] = d[c]
    <2>1. CASE \E i \in Evicted(b) : Dirty(i) /\ hdr[i].block = c
      BY <1>2, <1>4, <1>5, <2>1 DEF IsView, Dirty
    <2>2. CASE \A i \in Evicted(b) : ~(Dirty(i) /\ hdr[i].block = c)
      <3>1. ASSUME NEW i \in Slots, hdr[i].block = c PROVE hdr[i].flag # "dirty"
        <4>1. CASE i \in Evicted(b)
          BY <2>2, <3>1, <4>1 DEF Dirty
        <4>2. CASE i \notin Evicted(b)
          BY <1>3, <1>8, <3>1, <4>2
        <4>3. QED
          BY <4>1, <4>2
      <3>2. Contents[c] = disk[c]
        BY <1>2, <3>1 DEF IsView
      <3>3. QED
        BY <1>6, <2>2, <3>2
    <2>3. QED
      BY <2>1, <2>2
  <1>9. IsView(Contents, h, store, d)
    BY <1>2, <1>7, <1>8 DEF IsView
  <1>10. QED
    BY <1>9 DEF h, d

\* A read goes to a buffer of which programs see nothing.
LEMMA ReadView ==
  ASSUME IInv, NEW b \in Blocks, NEW v, Touched(b)[1].flag = "no block"
  PROVE  LET h == Touched(b)
             s == [store EXCEPT ![h[1].buf] = v]
             d == Written(Evicted(b))
         IN  /\ IsView(Contents, h, s, d)
             /\ IsView(Contents, [h EXCEPT ![1].flag = "clean"], s, d)
  <1> DEFINE h == Touched(b)
             s == [store EXCEPT ![h[1].buf] = v]
             g == [h EXCEPT ![1].flag = "clean"]
             d == Written(Evicted(b))
  <1>1. h \in [Slots -> Headers] /\ Once(h) /\ h[1].flag = "no block"
        /\ IsView(Contents, h, store, d)
    BY TouchedFacts, MovedView
  <1>2. store \in [Slots -> Values]
    BY DEF IInv, TypeOK
  <1> HIDE DEF h, d
  <1>3. \A n \in Slots \ {1} : s[h[n].buf] = store[h[n].buf]
    BY <1>1, <1>2, SlotFacts DEF Once, Headers
  <1> HIDE DEF s
  <1>4. IsView(Contents, h, s, d)
    <2>1. \A n \in Slots : h[n].flag = "dirty" => s[h[n].buf] = store[h[n].buf]
      BY <1>1, <1>3
    <2>2. QED
      BY <1>1, <2>1, SameView
  <1>5. /\ h[1] \in Headers /\ g[1] = [h[1] EXCEPT !.flag = "clean"]
        /\ \A n \in Slots \ {1} : g[n] = h[n]
    BY <1>1, SlotFacts
  <1> HIDE DEF g
  <1>6. g[1].block = h[1].block /\ g[1].flag = "clean"
    BY <1>5 DEF Headers
  <1>7. \A n \in Slots : /\ g[n].block = h[n].block
                         /\ g[n].flag = "dirty" <=> h[n].flag = "dirty"
                         /\ g[n].flag = "dirty" => s[g[n].buf] = s[h[n].buf]
    BY <1>1, <1>5, <1>6
  <1>8. IsView(Contents, g, s, d)
    <2>1. Contents \in [Blocks -> Values]
      BY <1>4 DEF IsView
    <2>2. \A i \in Slots : g[i].flag = "dirty" => Contents[g[i].block] = s[g[i].buf]
      BY <1>4, <1>7 DEF IsView
    <2>3. ASSUME NEW c \in Blocks, \A i \in Slots : g[i].block = c => g[i].flag # "dirty"
          PROVE  Contents[c] = d[c]
      <3>1. \A i \in Slots : h[i].block = c => h[i].flag # "dirty"
        BY <1>7, <2>3
      <3>2. QED
        BY <1>4, <3>1 DEF IsView
    <2>4. QED
      BY <2>1, <2>2, <2>3 DEF IsView
  <1>9. QED
    BY <1>4, <1>8 DEF h, s, g, d
-----------------------------------------------------------------------------
\* The same for what a failed write leaves: the blocks that were written before it
\* are clean, the one that failed is still to be written.
LEMMA FailView ==
  ASSUME IInv, NEW I \in SUBSET Slots, NEW k \in Slots \ I, WriteFails(I, k)
  PROVE  IsView(Contents, Cleaned(I), store, disk')
  <1>1. PICK v \in Values : disk' = [Written(I) EXCEPT ![hdr[k].block] = v]
    BY DEF WriteFails
  <1>2. IsView(Contents, hdr, store, disk)
    BY ContentsNow
  <1>3. /\ Written(I) \in [Blocks -> Values]
        /\ \A i \in I : Dirty(i) => Written(I)[hdr[i].block] = store[hdr[i].buf]
    BY WrittenFacts
  <1>4. \A c \in Blocks : (\A i \in I : ~(Dirty(i) /\ hdr[i].block = c)) => Written(I)[c] = disk[c]
    BY DEF Written
  <1>5. hdr \in [Slots -> Headers] /\ Dirty(k)
    BY DEF IInv, TypeOK, Headers, WriteFails
  <1>6. \A n \in Slots : /\ Cleaned(I)[n].block = hdr[n].block
                         /\ Cleaned(I)[n].buf = hdr[n].buf
                         /\ Cleaned(I)[n].flag = "dirty" <=> Dirty(n) /\ n \notin I
    BY <1>5 DEF Cleaned, Headers, Dirty
  <1>7. ASSUME NEW n \in Slots, Cleaned(I)[n].flag = "dirty"
        PROVE  Contents[Cleaned(I)[n].block] = store[Cleaned(I)[n].buf]
    BY <1>2, <1>6, <1>7 DEF IsView, Dirty
  <1>8. ASSUME NEW c \in Blocks,
               \A n \in Slots : Cleaned(I)[n].block = c => Cleaned(I)[n].flag # "dirty"
        PROVE  Contents[c] = disk'[c]
    <2>1. \A n \in Slots : hdr[n].block = c /\ Dirty(n) => n \in I
      BY <1>6, <1>8
    <2>2. c # hdr[k].block
      BY <1>5, <2>1
    <2>3. disk'[c] = Written(I)[c]
      BY <1>1, <1>3, <2>2
    <2>4. CASE \E i \in I : Dirty(i) /\ hdr[i].block = c
      BY <1>2, <1>3, <2>3, <2>4 DEF IsView, Dirty
    <2>5. CASE \A i \in I : ~(Dirty(i) /\ hdr[i].block = c)
      <3>1. \A n \in Slots : hdr[n].block = c => hdr[n].flag # "dirty"
        BY <2>1, <2>5 DEF Dirty
      <3>2. QED
        BY <1>2, <1>4, <2>3, <2>5, <3>1 DEF IsView
    <2>6. QED
      BY <2>4, <2>5
  <1>9. QED
    BY <1>2, <1>7, <1>8 DEF IsView

\* Once all are written, the disk has what programs find.
LEMMA SavedView ==
  ASSUME IInv
  PROVE  Written(Slots) = Contents /\ IsView(Contents, Cleaned(Slots), store, Contents)
  <1>1. IsView(Contents, hdr, store, disk)
    BY ContentsNow
  <1>2. /\ Written(Slots) \in [Blocks -> Values]
        /\ \A i \in Slots : Dirty(i) => Written(Slots)[hdr[i].block] = store[hdr[i].buf]
    BY WrittenFacts
  <1>3. Contents \in [Blocks -> Values]
    BY <1>1 DEF IsView
  <1>4. ASSUME NEW c \in Blocks PROVE Written(Slots)[c] = Contents[c]
    <2>1. CASE \E i \in Slots : Dirty(i) /\ hdr[i].block = c
      BY <1>1, <1>2, <2>1 DEF IsView, Dirty
    <2>2. CASE \A i \in Slots : ~(Dirty(i) /\ hdr[i].block = c)
      <3>1. Written(Slots)[c] = disk[c]
        BY <2>2 DEF Written
      <3>2. Contents[c] = disk[c]
        BY <1>1, <2>2 DEF IsView, Dirty
      <3>3. QED
        BY <3>1, <3>2
    <2>3. QED
      BY <2>1, <2>2
  <1>5. Written(Slots) = Contents
    <2>1. Written(Slots) = [c \in Blocks |-> Written(Slots)[c]]
      BY DEF Written
    <2>2. Contents = [c \in Blocks |-> Contents[c]]
      BY <1>3
    <2>3. QED
      BY <1>4, <2>1, <2>2
  <1>6. hdr \in [Slots -> Headers]
    BY DEF IInv, TypeOK, Headers
  <1>7. \A n \in Slots : Cleaned(Slots)[n].flag # "dirty"
    BY <1>6 DEF Cleaned, Headers, Dirty
  <1>8. QED
    BY <1>3, <1>5, <1>7 DEF IsView

\* Cleaning no headers changes none.
LEMMA CleanedNone == ASSUME TypeOK PROVE Cleaned({}) = hdr
  BY DEF Cleaned, TypeOK
-----------------------------------------------------------------------------
\* Each word does a step of BlockStore.
LEMMA InitImplements == Init => Store!Init
  <1> SUFFICES ASSUME Init PROVE Store!Init
    OBVIOUS
  <1>1. Contents = [b \in Blocks |-> disk[b]]
    BY DEF Init, Contents, Dirty
  <1>2. QED
    BY <1>1, SlotFacts DEF Init, Store!Init

LEMMA BlockImplements == ASSUME IInv, IInv', NEW b \in Blocks, Block(b) PROVE Store!Write
  <1> DEFINE h == Touched(b)
             d == Written(Evicted(b))
  <1>1. Evicted(b) \in SUBSET Slots
    BY SlotFacts DEF Evicted
  <1>2. disk' = d /\ saved' = FALSE
    BY DEF Block
  <1>3. h \in [Slots -> Headers] /\ h[1] \in Headers
    BY TouchedFacts, SlotFacts
  <1>4. IsView(Contents, hdr', store', disk')
    <2>1. CASE h[1].flag = "no block"
      <3>1. hdr' = [h EXCEPT ![1].flag = "clean"] /\ store' = [store EXCEPT ![h[1].buf] = d[b]]
        BY <1>2, <2>1 DEF Block
      <3>2. QED
        BY <1>2, <2>1, <3>1, ReadView
    <2>2. CASE h[1].flag # "no block"
      <3>1. hdr' = [h EXCEPT ![1].flag = h[1].flag] /\ store' = store
        BY <2>2 DEF Block
      <3>2. [h[1] EXCEPT !.flag = h[1].flag] = h[1]
        BY <1>3 DEF Headers
      <3>3. IsView(Contents, h, store, d)
        BY MovedView
      <3> HIDE DEF h
      <3>4. hdr' = h
        BY <1>3, <3>1, <3>2
      <3>5. QED
        BY <1>2, <3>1, <3>3, <3>4
    <2>3. QED
      BY <2>1, <2>2
  <1>5. Contents' = Contents
    BY <1>4, ContentsThen
  <1>6. disk' = Store!Written(Updated(Evicted(b))) /\ Updated(Evicted(b)) \in SUBSET Blocks
    BY <1>1, <1>2, WrittenIsStored DEF Updated
  <1>7. QED
    BY <1>2, <1>5, <1>6 DEF Store!Write

\* The headers, buffers and disk of a `buffer`, and of a `block` whose read fails.
LEMMA TouchImplements ==
  ASSUME IInv, IInv', NEW b \in Blocks, hdr' = Touched(b), disk' = Written(Evicted(b)),
         saved' = FALSE,
         \/ store' = store
         \/ /\ Touched(b)[1].flag = "no block"
            /\ \E v \in Values : store' = [store EXCEPT ![Touched(b)[1].buf] = v]
  PROVE  Store!Write
  <1>1. IsView(Contents, hdr', store', disk')
    <2>1. CASE store' = store
      BY <2>1, MovedView
    <2>2. ASSUME NEW v \in Values, Touched(b)[1].flag = "no block",
                 store' = [store EXCEPT ![Touched(b)[1].buf] = v]
          PROVE  IsView(Contents, hdr', store', disk')
      BY <2>2, ReadView
    <2>3. QED
      BY <2>1, <2>2
  <1>2. Contents' = Contents
    BY <1>1, ContentsThen
  <1>3. Evicted(b) \in SUBSET Slots
    BY SlotFacts DEF Evicted
  <1>4. disk' = Store!Written(Updated(Evicted(b))) /\ Updated(Evicted(b)) \in SUBSET Blocks
    BY <1>3, WrittenIsStored DEF Updated
  <1>5. QED
    BY <1>2, <1>4 DEF Store!Write

LEMMA FailImplements ==
  ASSUME IInv, IInv', NEW I \in SUBSET Slots, NEW k \in Slots \ I, WriteFails(I, k),
         hdr' = Cleaned(I)
  PROVE  Store!WriteFails
  <1>1. store' = store /\ asked' = NoBlock /\ saved' = FALSE
    BY DEF WriteFails, NoneHeld
  <1>2. IsView(Contents, hdr', store', disk')
    BY <1>1, FailView
  <1>3. Contents' = Contents
    BY <1>2, ContentsThen
  <1>4. PICK v \in Values : disk' = [Written(I) EXCEPT ![hdr[k].block] = v]
    BY DEF WriteFails
  <1>5. hdr[k].block \in Blocks
    BY DEF WriteFails, Dirty, IInv, TypeOK, UpdateMarksAsked
  <1>6. Written(I) = Store!Written(Updated(I)) /\ Updated(I) \in SUBSET Blocks
    BY WrittenIsStored DEF Updated
  <1>7. \E S \in SUBSET Blocks, b \in Blocks, w \in Values : disk' = [Store!Written(S) EXCEPT ![b] = w]
    BY <1>4, <1>5, <1>6
  <1>8. QED
    BY <1>1, <1>3, <1>7, SlotFacts DEF Store!WriteFails

LEMMA FailFirst ==
  ASSUME IInv, IInv', NEW b \in Blocks, NEW k \in Evicted(b), WriteFails({}, k), hdr' = hdr
  PROVE  Store!WriteFails
  <1>1. k \in Slots \ {} /\ {} \in SUBSET Slots
    BY SlotFacts DEF Evicted
  <1>2. hdr' = Cleaned({})
    BY CleanedNone DEF IInv
  <1>3. QED
    BY <1>1, <1>2, FailImplements

LEMMA ChangeImplements == ASSUME IInv, IInv', NEW v \in Values, Change(v) PROVE Store!Change
  <1>1. adr # 0 /\ store' = [store EXCEPT ![adr] = v] /\ hdr' = [hdr EXCEPT ![1].flag = "dirty"]
        /\ disk' = disk /\ asked' = asked /\ saved' = FALSE
    BY DEF Change, held
  <1>2. /\ hdr \in [Slots -> Headers] /\ store \in [Slots -> Values]
        /\ Once(hdr) /\ Blank(hdr) /\ IsView(Contents, hdr, store, disk)
        /\ asked \in Blocks /\ adr = hdr[1].buf /\ hdr[1].block = asked
    BY <1>1, Parts, ContentsNow DEF TypeOK, Headers
  <1>3. /\ hdr'[1] = [hdr[1] EXCEPT !.flag = "dirty"] /\ hdr[1] \in Headers
        /\ \A n \in Slots \ {1} : hdr'[n] = hdr[n]
    BY <1>1, <1>2, SlotFacts
  <1>4. hdr'[1].flag = "dirty" /\ hdr'[1].block = asked /\ hdr'[1].buf = adr
    BY <1>2, <1>3 DEF Headers
  <1>5. adr \in Slots
    BY <1>2, <1>3 DEF Headers
  <1>6. /\ store'[adr] = v
        /\ \A n \in Slots \ {1} : store'[hdr[n].buf] = store[hdr[n].buf]
    BY <1>1, <1>2, <1>5, SlotFacts DEF Once, Headers
  <1> DEFINE c == [Contents EXCEPT ![asked] = v]
  <1>7. Contents \in [Blocks -> Values]
    BY <1>2 DEF IsView
  <1>8. c \in [Blocks -> Values] /\ c[asked] = v /\ \A b \in Blocks \ {asked} : c[b] = Contents[b]
    BY <1>2, <1>7
  <1> HIDE DEF c
  <1>9. ASSUME NEW n \in Slots, hdr'[n].flag = "dirty" PROVE c[hdr'[n].block] = store'[hdr'[n].buf]
    <2>1. CASE n = 1
      BY <1>4, <1>6, <1>8, <2>1
    <2>2. CASE n # 1
      <3>1. hdr'[n] = hdr[n] /\ hdr[n].block \in Blocks
        BY <1>2, <1>3, <1>9, <2>2 DEF Blank, Headers
      <3>2. hdr[n].block # asked
        BY <1>2, <3>1, <2>2, SlotFacts DEF Once
      <3>3. c[hdr[n].block] = Contents[hdr[n].block]
        BY <1>8, <3>1, <3>2
      <3>4. Contents[hdr[n].block] = store[hdr[n].buf]
        BY <1>2, <1>9, <3>1 DEF IsView
      <3>5. QED
        BY <1>6, <2>2, <3>1, <3>3, <3>4
    <2>3. QED
      BY <2>1, <2>2
  <1>10. ASSUME NEW b \in Blocks, \A n \in Slots : hdr'[n].block = b => hdr'[n].flag # "dirty"
         PROVE  c[b] = disk'[b]
    <2>1. b # asked
      BY <1>4, <1>10, SlotFacts
    <2>2. \A n \in Slots : hdr[n].block = b => hdr[n].flag # "dirty"
      BY <1>2, <1>3, <1>10, <2>1
    <2>3. QED
      BY <1>1, <1>2, <1>8, <2>1, <2>2 DEF IsView
  <1>11. IsView(c, hdr', store', disk')
    BY <1>8, <1>9, <1>10 DEF IsView
  <1>12. Contents' = c
    BY <1>11, ContentsThen
  <1>13. QED
    BY <1>1, <1>2, <1>12 DEF Store!Change, c

LEMMA DiscardImplements == ASSUME IInv, IInv', Discard PROVE Store!Discard
  <1>1. adr # 0 /\ hdr' = [hdr EXCEPT ![1].flag = "no block"] /\ store' = store
        /\ disk' = disk /\ asked' = NoBlock /\ saved' = FALSE
    BY DEF Discard, NoneHeld
  <1>2. /\ hdr \in [Slots -> Headers] /\ disk \in [Blocks -> Values]
        /\ Once(hdr) /\ Blank(hdr) /\ IsView(Contents, hdr, store, disk)
        /\ asked \in Blocks /\ hdr[1].block = asked
    BY <1>1, Parts, ContentsNow DEF TypeOK, Headers
  <1>3. /\ hdr'[1] = [hdr[1] EXCEPT !.flag = "no block"] /\ hdr[1] \in Headers
        /\ \A n \in Slots \ {1} : hdr'[n] = hdr[n]
    BY <1>1, <1>2, SlotFacts
  <1>4. hdr'[1].flag = "no block" /\ hdr'[1].block = asked
    BY <1>2, <1>3 DEF Headers
  <1> DEFINE c == [Contents EXCEPT ![asked] = disk[asked]]
  <1>5. Contents \in [Blocks -> Values] /\ disk[asked] \in Values
    BY <1>2 DEF IsView
  <1>6. c \in [Blocks -> Values] /\ c[asked] = disk[asked]
        /\ \A b \in Blocks \ {asked} : c[b] = Contents[b]
    BY <1>2, <1>5
  <1> HIDE DEF c
  <1>7. ASSUME NEW n \in Slots, hdr'[n].flag = "dirty" PROVE c[hdr'[n].block] = store'[hdr'[n].buf]
    <2>1. n # 1 /\ hdr'[n] = hdr[n] /\ hdr[n].block \in Blocks
      BY <1>2, <1>3, <1>4, <1>7 DEF Blank, Headers
    <2>2. hdr[n].block # asked
      BY <1>2, <2>1, SlotFacts DEF Once
    <2>3. c[hdr[n].block] = Contents[hdr[n].block]
      BY <1>6, <2>1, <2>2
    <2>4. Contents[hdr[n].block] = store[hdr[n].buf]
      BY <1>2, <1>7, <2>1 DEF IsView
    <2>5. QED
      BY <1>1, <2>1, <2>3, <2>4
  <1>8. ASSUME NEW b \in Blocks, \A n \in Slots : hdr'[n].block = b => hdr'[n].flag # "dirty"
        PROVE  c[b] = disk'[b]
    <2>1. CASE b = asked
      BY <1>1, <1>6, <2>1
    <2>2. CASE b # asked
      <3>1. \A n \in Slots : hdr[n].block = b => hdr[n].flag # "dirty"
        BY <1>2, <1>3, <1>8, <2>2
      <3>2. QED
        BY <1>1, <1>2, <1>6, <2>2, <3>1 DEF IsView
    <2>3. QED
      BY <2>1, <2>2
  <1>9. IsView(c, hdr', store', disk')
    BY <1>6, <1>7, <1>8 DEF IsView
  <1>10. Contents' = c
    BY <1>9, ContentsThen
  <1>11. QED
    BY <1>1, <1>2, <1>10, SlotFacts DEF Store!Discard, c

LEMMA SaveImplements ==
  ASSUME IInv, IInv', hdr' = Cleaned(Slots), disk' = Written(Slots), store' = store, saved' = TRUE
  PROVE  Store!Save
  <1>1. disk' = Contents /\ IsView(Contents, hdr', store', disk')
    BY SavedView
  <1>2. Contents' = Contents
    BY <1>1, ContentsThen
  <1>3. QED
    BY <1>1, <1>2 DEF Store!Save

LEMMA EmptiedImplements ==
  ASSUME IInv, IInv', Emptied, NEW I \in SUBSET Slots, disk' = Written(I)
  PROVE  Store!Drop
  <1>1. disk' = Store!Written(Updated(I)) /\ Updated(I) \in SUBSET Blocks
    BY WrittenIsStored DEF Updated
  <1>2. disk' \in [Blocks -> Values]
    BY DEF IInv, TypeOK
  <1>3. \A n \in Slots : hdr'[n].flag # "dirty"
    BY DEF Emptied
  <1>4. IsView(disk', hdr', store', disk')
    BY <1>2, <1>3 DEF IsView
  <1>5. Contents' = disk'
    BY <1>4, ContentsThen
  <1>6. asked' = NoBlock /\ saved' = FALSE
    BY DEF Emptied, NoneHeld
  <1>7. QED
    BY <1>1, <1>5, <1>6, SlotFacts DEF Store!Drop

LEMMA StepImplements == ASSUME IInv, IInv', [Next]_vars PROVE [Store!Next]_(Store!vars)
  <1> USE DEF Store!Next
  <1>1. ASSUME NEW b \in Blocks, Block(b) PROVE Store!Next
    BY <1>1, BlockImplements
  <1>2. ASSUME NEW b \in Blocks, Buffer(b) PROVE Store!Next
    BY <1>2, TouchImplements DEF Buffer
  <1>3. ASSUME NEW b \in Blocks, BufferFails(b) PROVE Store!Next
    BY <1>3, FailFirst DEF BufferFails
  <1>4. ASSUME NEW b \in Blocks, ReadFails(b) PROVE Store!Next
    <2>1. /\ Touched(b)[1].flag = "no block" /\ hdr' = Touched(b)
          /\ disk' = Written(Evicted(b)) /\ saved' = FALSE
          /\ \E v \in Values : store' = [store EXCEPT ![Touched(b)[1].buf] = v]
      BY <1>4 DEF ReadFails
    <2>2. QED
      BY <2>1, TouchImplements
  <1>5. ASSUME NEW v \in Values, Change(v) PROVE Store!Next
    BY <1>5, ChangeImplements
  <1>6. CASE Discard
    BY <1>6, DiscardImplements
  <1>7. CASE SaveBuffers
    BY <1>7, SaveImplements DEF SaveBuffers
  <1>8. ASSUME NEW i \in Slots, SaveFails(i) PROVE Store!Next
    <2>1. 1..i-1 \in SUBSET Slots /\ i \in Slots \ (1..i-1)
      BY BlockAssumption DEF Slots
    <2>2. QED
      BY <1>8, <2>1, FailImplements DEF SaveFails
  <1>9. CASE EmptyBuffers
    <2>1. {} \in SUBSET Slots /\ Written({}) = [b \in Blocks |-> disk[b]]
      BY DEF Written
    <2>2. disk' = disk /\ disk = [b \in Blocks |-> disk[b]]
      BY <1>9 DEF EmptyBuffers, IInv, TypeOK
    <2>3. QED
      BY <1>9, <2>1, <2>2, EmptiedImplements DEF EmptyBuffers
  <1>10. CASE Flush
    BY <1>10, SaveImplements DEF Flush
  <1>11. CASE FlushDone
    <2>1. Evicted(Zero) \in SUBSET Slots
      BY SlotFacts DEF Evicted
    <2>2. QED
      BY <1>11, <2>1, EmptiedImplements DEF FlushDone
  <1>12. CASE FlushFails
    <2>1. Zero \in Blocks /\ saved' = FALSE
      BY <1>12, BlockAssumption DEF FlushFails
    <2>2. CASE hdr' = hdr /\ \E k \in Evicted(Zero) : WriteFails({}, k)
      BY <2>1, <2>2, FailFirst
    <2>3. CASE /\ Touched(Zero)[1].flag = "no block" /\ hdr' = Touched(Zero)
               /\ disk' = Written(Evicted(Zero))
               /\ \E v \in Values : store' = [store EXCEPT ![Touched(Zero)[1].buf] = v]
      BY <2>1, <2>3, TouchImplements
    <2>4. QED
      BY <1>12, <2>2, <2>3 DEF FlushFails
  <1>13. CASE UNCHANGED vars
    BY <1>13 DEF vars, held, Store!vars, Contents, Dirty
  <1>14. QED
    BY <1>1, <1>2, <1>3, <1>4, <1>5, <1>6, <1>7, <1>8, <1>9, <1>10, <1>11, <1>12, <1>13 DEF Next

\* With any number of buffers, and with reads and writes that fail at any point, each
\* word does to the contents of the blocks what BlockStore says or nothing (block.fth).
THEOREM Refinement == Spec => ImplementsBlockStore
  <1>1. IInv /\ IInv' /\ [Next]_vars => [Store!Next]_(Store!vars)
    BY StepImplements
  <1>2. QED
    BY <1>1, InitImplements, Invariance, PTL DEF Spec, ImplementsBlockStore, Store!Spec
=============================================================================
