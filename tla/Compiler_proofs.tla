---------------------------- MODULE Compiler_proofs ----------------------------
(***************************************************************************)
(* Proofs that the thread of the dictionary stays sound, that DP is where  *)
(* it belongs, and that the dictionary implements Vocabulary, for any      *)
(* sizes of the dictionary and of COMPBUF.                                 *)
(***************************************************************************)
EXTENDS Compiler, TLAPS

\* A link is followed by the code field of its word.
LinksLead == \A a \in Cells : mem[a].kind = "link" => a + 1 \in Words

\* When LASTP has a header, no header lies above it, and it is the newest word that can be
\* found, or the one that would be if it were revealed.
LastIsNewest == lastp \in Words => /\ \A w \in Words : w <= lastp
                                   /\ thread = lastp \/ Link(lastp) = thread

IInv == /\ TypeOK
        /\ exec = "code" => running # <<>>
        /\ HereInPlace /\ ThreadSound
        /\ slip = "none" => LinksLead /\ LastIsNewest
-----------------------------------------------------------------------------
LEMMA SizesPositive ==
  /\ DictSize \in Nat /\ BufSize \in Nat /\ BufSize > 0 /\ MaxMarks \in Nat /\ MaxRuns \in Nat
  /\ COMPBUF \in Nat /\ COMPBUF = DictSize + 2 /\ Buffer = COMPBUF .. COMPBUF + BufSize - 1
  /\ Cells = 1..DictSize
  BY SizesAreNat DEF COMPBUF, Buffer, Cells

LEMMA WordCells ==
  Words = {w \in Cells : w > 1 /\ mem[w].kind = "cf" /\ mem[w - 1].kind = "link"}
  BY DEF Words, Header

LEMMA WordCellsNext ==
  Words' = {w \in Cells : w > 1 /\ mem'[w].kind = "cf" /\ mem'[w - 1].kind = "link"}
  BY DEF Words, Header

\* What holds at the beginning of every step.
LEMMA Before ==
  ASSUME IInv, slip = "none"
  PROVE  /\ mem \in [Cells -> [kind : Kinds, val : 0..DictSize]]
         /\ dp \in Nat /\ dp >= 1 /\ complevel \in Nat /\ complevel <= MaxMarks
         /\ marks \in Seq(Cells \union Buffer) /\ Len(marks) <= MaxMarks
         /\ complevel > 0 <=> dp >= COMPBUF
         /\ complevel = 0 => dp <= DictSize + 1
         /\ complevel > 0 => saveddp \in 1..DictSize + 1
         /\ Inside(marks, complevel)
         /\ thread \in {0} \union Words /\ thread \in Nat
         /\ \A w \in Words : /\ w \in Cells /\ w < DictEnd
                             /\ Link(w) \in {0} \union Words /\ Link(w) < w
         /\ LinksLead /\ LastIsNewest
         /\ DictEnd \in 1..DictSize + 1
  <1> USE SizesPositive
  <1>1. TypeOK /\ LinksLead /\ LastIsNewest
    BY DEF IInv
  <1>2. /\ dp \in Nat /\ dp >= 1 /\ complevel \in Nat /\ complevel <= MaxMarks
        /\ marks \in Seq(Cells \union Buffer) /\ Len(marks) <= MaxMarks
        /\ thread \in Nat
    BY <1>1 DEF TypeOK
  <1>3. /\ complevel > 0 <=> dp >= COMPBUF
        /\ complevel > 0 => saveddp \in 1..DictSize + 1
        /\ Inside(marks, complevel)
    BY DEF IInv, HereInPlace
  <1>4. complevel = 0 => dp <= DictSize + 1
    BY <1>2, <1>3
  <1>5. DictEnd \in 1..DictSize + 1
    BY <1>2, <1>3, <1>4 DEF DictEnd
  <1>6. /\ thread \in {0} \union Words
        /\ \A w \in Words : w < DictEnd /\ Link(w) \in {0} \union Words /\ Link(w) < w
    BY DEF IInv, ThreadSound
  <1>7. \A w \in Words : w \in Cells
    BY DEF Words
  <1>8. QED
    BY <1>1, <1>2, <1>3, <1>4, <1>5, <1>6, <1>7 DEF TypeOK

\* Memory that does not change has the same words.
LEMMA SameMem ==
  ASSUME mem' = mem
  PROVE  Words' = Words /\ (\A w : Link(w)' = Link(w)) /\ (LinksLead => LinksLead')
  BY DEF Words, Header, Link, LinksLead

\* One cell that is not a link makes no word and takes none away.
LEMMA Stored ==
  ASSUME IInv, slip = "none", Room(1), NEW kind \in {"cf", "code"},
         Store([kind |-> kind, val |-> 0])
  PROVE  /\ Words' = Words /\ LinksLead' /\ \A w \in Words : Link(w)' = Link(w)
         /\ mem' \in [Cells -> [kind : Kinds, val : 0..DictSize]]
         /\ dp' = dp + 1 /\ dp' \in 1..COMPBUF + BufSize
         /\ complevel = 0 => dp' <= DictSize + 1 /\ dp \in Cells
         /\ complevel > 0 => mem' = mem
  <1> USE SizesPositive
  <1> DEFINE c == [kind |-> kind, val |-> 0]
  <1>1. c \in [kind : Kinds, val : 0..DictSize] /\ c.kind = kind
    BY DEF Kinds
  <1>2. /\ mem' = [a \in Cells |-> IF a = dp THEN c ELSE mem[a]] /\ dp' = dp + 1
        /\ mem \in [Cells -> [kind : Kinds, val : 0..DictSize]]
        /\ dp \in Nat /\ dp >= 1 /\ complevel \in Nat
        /\ complevel > 0 <=> dp >= COMPBUF
        /\ complevel = 0 => dp <= DictSize + 1
    BY Before DEF Store
  <1> HIDE DEF c
  <1>3. mem' \in [Cells -> [kind : Kinds, val : 0..DictSize]]
    BY <1>1, <1>2
  <1>4. dp \in IF dp \in Buffer THEN Buffer ELSE Cells
    BY <1>2 DEF Room
  <1>5. CASE complevel > 0
    <2>1. mem' = mem
      BY <1>2, <1>5
    <2>2. dp \in Buffer
      BY <1>2, <1>4, <1>5
    <2>3. QED
      BY <1>2, <1>3, <1>5, <2>1, <2>2, SameMem, Before
  <1>6. CASE complevel = 0
    <2>1. dp \in Cells
      BY <1>2, <1>4, <1>6
    <2>2. DictEnd = dp
      BY <1>6 DEF DictEnd
    <2>3. \A w \in Words : w \in Cells /\ w < dp
      BY <2>2, Before
    <2>4. \A a \in Cells : a # dp => mem'[a] = mem[a]
      BY <1>2
    <2>5. mem'[dp].kind = kind
      BY <1>1, <1>2, <2>1
    <2>6. \A a \in Cells : mem[a].kind = "link" => a + 1 < dp /\ a + 1 \in Cells
      BY <2>3, Before DEF LinksLead
    <2>7. Words' = Words
      <3>1. ASSUME NEW w \in Words PROVE w \in Words'
        <4>1. w \in Cells /\ w < dp /\ w > 1 /\ w - 1 \in Cells /\ w - 1 # dp
          BY <1>2, <2>3, <3>1, WordCells
        <4>2. QED
          BY <2>4, <4>1, WordCells, WordCellsNext
      <3>2. ASSUME NEW w \in Words' PROVE w \in Words
        <4>1. w \in Cells /\ w > 1 /\ mem'[w].kind = "cf" /\ mem'[w - 1].kind = "link" /\ w - 1 \in Cells
          BY <3>2, WordCellsNext
        <4>2. w - 1 # dp
          BY <2>5, <4>1
        <4>3. mem[w - 1].kind = "link"
          BY <2>4, <4>1, <4>2
        <4>4. w < dp
          BY <2>6, <4>1, <4>3
        <4>5. QED
          BY <1>2, <2>4, <4>1, <4>3, <4>4, WordCells
      <3>3. QED
        BY <3>1, <3>2
    <2>8. \A w \in Words : Link(w)' = Link(w)
      <3>1. \A w \in Words : w - 1 \in Cells /\ w - 1 # dp
        BY <1>2, <2>3, WordCells
      <3>2. QED
        BY <2>4, <3>1 DEF Link
    <2>9. LinksLead'
      <3> SUFFICES ASSUME NEW a \in Cells, mem'[a].kind = "link" PROVE a + 1 \in Words
        BY <2>7 DEF LinksLead
      <3>1. a # dp
        BY <2>5
      <3>2. QED
        BY <2>4, <3>1, Before DEF LinksLead
    <2>10. dp' = dp + 1 /\ dp' \in 1..COMPBUF + BufSize /\ dp' <= DictSize + 1 /\ ~(complevel > 0)
      BY <1>2, <1>6, <2>1
    <2>11. QED
      BY <1>3, <1>6, <2>1, <2>7, <2>8, <2>9, <2>10
  <1>7. QED
    BY <1>2, <1>5, <1>6

\* A header makes one more word, above all others.
LEMMA NamedOne ==
  ASSUME IInv, slip = "none", complevel = 0, Room(2), NEW n, Named(n)
  PROVE  /\ dp + 1 \in Cells /\ dp \in Cells
         /\ Words' = Words \union {dp + 1} /\ \A w : w = dp + 1 => Link(w)' = thread
         /\ \A w \in Words : w < dp /\ Link(w)' = Link(w)
         /\ LinksLead'
         /\ mem' \in [Cells -> [kind : Kinds, val : 0..DictSize]]
         /\ dp' = dp + 2 /\ dp' <= DictSize + 1
         /\ lastp' = dp + 1 /\ thread' = n /\ torn' = torn
  <1> USE SizesPositive
  <1>1. /\ mem \in [Cells -> [kind : Kinds, val : 0..DictSize]]
        /\ dp \in Nat /\ dp >= 1 /\ dp < COMPBUF /\ DictEnd = dp
        /\ thread \in 0..DictSize
    BY Before DEF DictEnd, IInv, TypeOK
  <1>2. dp \in Cells /\ dp + 1 \in Cells
    <2>1. dp + 1 \in Cells
      BY <1>1 DEF Room
    <2>2. QED
      BY <1>1, <2>1
  <1> DEFINE l == [kind |-> "link", val |-> thread]
             c == [kind |-> "cf", val |-> 0]
  <1>3. /\ l \in [kind : Kinds, val : 0..DictSize] /\ l.kind = "link" /\ l.val = thread
        /\ c \in [kind : Kinds, val : 0..DictSize] /\ c.kind = "cf"
    BY <1>1 DEF Kinds
  <1>4. /\ mem' = [mem EXCEPT ![dp] = l, ![dp + 1] = c] /\ dp' = dp + 2
        /\ lastp' = dp + 1 /\ thread' = n /\ torn' = torn
    BY DEF Named
  <1> HIDE DEF l, c
  <1>5. /\ mem' \in [Cells -> [kind : Kinds, val : 0..DictSize]]
        /\ mem'[dp] = l /\ mem'[dp + 1] = c
        /\ \A a \in Cells : a # dp /\ a # dp + 1 => mem'[a] = mem[a]
    BY <1>1, <1>2, <1>3, <1>4
  <1>6. \A w \in Words : w \in Cells /\ w < dp
    BY <1>1, Before
  <1>7. \A a \in Cells : mem[a].kind = "link" => a + 1 < dp /\ a + 1 \in Cells
    BY <1>6, Before DEF LinksLead
  <1>8. Words' = Words \union {dp + 1}
    <2>1. ASSUME NEW w \in Words PROVE w \in Words'
      <3>1. w \in Cells /\ w < dp /\ w > 1 /\ w - 1 \in Cells /\ w - 1 < dp
        BY <1>1, <1>6, <2>1, WordCells
      <3>2. mem'[w] = mem[w] /\ mem'[w - 1] = mem[w - 1]
        BY <1>1, <1>5, <3>1
      <3>3. QED
        BY <2>1, <3>1, <3>2, WordCells, WordCellsNext
    <2>2. dp + 1 \in Words'
      BY <1>1, <1>2, <1>3, <1>5, WordCellsNext
    <2>3. ASSUME NEW w \in Words', w # dp + 1 PROVE w \in Words
      <3>1. /\ w \in Cells /\ w > 1 /\ mem'[w].kind = "cf" /\ mem'[w - 1].kind = "link"
            /\ w - 1 \in Cells
        BY WordCellsNext
      <3>2. w # dp /\ w - 1 # dp /\ w - 1 # dp + 1
        BY <1>1, <1>3, <1>5, <2>3, <3>1
      <3>3. QED
        BY <1>5, <2>3, <3>1, <3>2, WordCells
    <2>4. QED
      BY <2>1, <2>2, <2>3
  <1>9. \A w : w = dp + 1 => Link(w)' = thread
    <2>1. (dp + 1) - 1 = dp
      BY <1>1
    <2>2. mem'[dp].val = thread
      BY <1>3, <1>5
    <2>3. QED
      BY <2>1, <2>2 DEF Link
  <1>10. \A w \in Words : w < dp /\ Link(w)' = Link(w)
    <2>1. \A w \in Words : w < dp /\ w - 1 \in Cells /\ w - 1 # dp /\ w - 1 # dp + 1
      BY <1>1, <1>6, WordCells
    <2>2. QED
      BY <1>5, <2>1 DEF Link
  <1>11. LinksLead'
    <2> SUFFICES ASSUME NEW a \in Cells, mem'[a].kind = "link" PROVE a + 1 \in Words'
      BY DEF LinksLead
    <2>1. a # dp + 1
      BY <1>3, <1>5
    <2>2. QED
      BY <1>5, <1>8, <2>1, Before DEF LinksLead
  <1>12. dp' <= DictSize + 1
    BY <1>1, <1>2, <1>4
  <1>13. QED
    BY <1>2, <1>4, <1>5, <1>8, <1>9, <1>10, <1>11, <1>12

\* The words below a word that is forgotten are those that stay.
LEMMA Forgotten ==
  ASSUME IInv, slip = "none", NEW w \in Cells, Forget(w)
  PROVE  /\ w \in Words /\ Words' = {v \in Words : v < w}
         /\ \A v \in Words' : Link(v)' = Link(v)
         /\ LinksLead' /\ dp' = w - 1 /\ dp' \in 1..DictSize
         /\ mem' \in [Cells -> [kind : Kinds, val : 0..DictSize]]
         /\ \A v \in Words' : v < dp'
         /\ thread' \in {0} \union Words' /\ \A v \in Findable : v < w => v <= thread'
         /\ thread' \in {0} \union Findable
         /\ lastp \notin Words'
  <1> USE SizesPositive
  <1>1. /\ w \in Words /\ Findable \subseteq Words /\ dp' = w - 1 /\ w > 1
        /\ mem' = [a \in Cells |-> IF a < w - 1 THEN mem[a] ELSE Free]
        /\ mem \in [Cells -> [kind : Kinds, val : 0..DictSize]]
        /\ mem[w - 1].kind = "link" /\ w - 1 \in Cells
    BY Before, WordCells DEF Forget, Findable
  <1>2. /\ Free \in [kind : Kinds, val : 0..DictSize] /\ Free.kind = "free"
    BY DEF Free, Kinds
  <1>3. /\ mem' \in [Cells -> [kind : Kinds, val : 0..DictSize]]
        /\ \A a \in Cells : a < w - 1 => mem'[a] = mem[a]
        /\ \A a \in Cells : ~(a < w - 1) => mem'[a].kind = "free"
    BY <1>1, <1>2
  <1>4. \A v \in Words : v < w => v < w - 1
    BY <1>1, WordCells
  <1>5. Words' = {v \in Words : v < w}
    <2>1. ASSUME NEW v \in Words, v < w PROVE v \in Words'
      <3>1. v \in Cells /\ v > 1 /\ v < w - 1 /\ v - 1 \in Cells /\ v - 1 < w - 1
        BY <1>4, <2>1, WordCells
      <3>2. QED
        BY <1>3, <2>1, <3>1, WordCells, WordCellsNext
    <2>2. ASSUME NEW v \in Words' PROVE v \in Words /\ v < w
      <3>1. /\ v \in Cells /\ v > 1 /\ mem'[v].kind = "cf" /\ mem'[v - 1].kind = "link"
            /\ v - 1 \in Cells
        BY WordCellsNext
      <3>2. v < w - 1 /\ v - 1 < w - 1
        BY <1>3, <3>1
      <3>3. QED
        BY <1>3, <3>1, <3>2, WordCells
    <2>3. QED
      BY <2>1, <2>2
  <1>6. \A v \in Words' : Link(v)' = Link(v) /\ v < w - 1
    <2>1. \A v \in Words' : v \in Words /\ v < w - 1
      BY <1>4, <1>5
    <2>2. \A v \in Words' : v - 1 \in Cells /\ v - 1 < w - 1
      BY <2>1, WordCells
    <2>3. QED
      BY <1>3, <2>1, <2>2 DEF Link
  <1>7. LinksLead'
    <2> SUFFICES ASSUME NEW a \in Cells, mem'[a].kind = "link" PROVE a + 1 \in Words'
      BY DEF LinksLead
    <2>1. a < w - 1 /\ mem[a].kind = "link"
      BY <1>3
    <2>2. a + 1 \in Words
      BY <2>1, Before DEF LinksLead
    <2>3. QED
      BY <1>5, <2>1, <2>2
  <1>8. /\ thread' \in {0} \union Words' /\ thread' \in {0} \union Findable
        /\ \A v \in Findable : v < w => v <= thread'
    BY <1>1, <1>5 DEF Forget, Below
  <1>9. lastp \notin Words'
    <2>1. lastp \in Words => w <= lastp
      BY <1>1, Before DEF LastIsNewest
    <2>2. QED
      BY <1>1, <1>5, <2>1, WordCells
  <1>10. dp' \in 1..DictSize /\ \A v \in Words' : v < dp'
    BY <1>1, <1>6
  <1>11. QED
    BY <1>1, <1>3, <1>5, <1>6, <1>7, <1>8, <1>9, <1>10
-----------------------------------------------------------------------------
\* The marks on the stack: one more, fewer, and the last one.
LEMMA Pushed ==
  ASSUME NEW m \in Seq(Cells \union Buffer), NEW n \in Nat, Inside(m, n),
         NEW a \in Cells \union Buffer
  PROVE  /\ Append(m, a) \in Seq(Cells \union Buffer) /\ Len(Append(m, a)) = Len(m) + 1
         /\ Inside(Append(m, a), 0)
         /\ a \in Buffer => Inside(Append(m, a), n + 1)
  <1> DEFINE q == Append(m, a)
  <1>1. /\ q \in Seq(Cells \union Buffer) /\ Len(q) = Len(m) + 1 /\ Len(m) \in Nat
        /\ DOMAIN q = 1..Len(m) + 1 /\ DOMAIN m = 1..Len(m)
        /\ \A i \in 1..Len(m) : q[i] = m[i]
        /\ q[Len(m) + 1] = a
    OBVIOUS
  <1> HIDE DEF q
  <1>2. Inside(q, 0)
    BY <1>1 DEF Inside
  <1>3. ASSUME a \in Buffer PROVE Inside(q, n + 1)
    <2>1. n + 1 <= Len(q)
      BY <1>1 DEF Inside
    <2>2. ASSUME NEW i \in DOMAIN q, i > Len(q) - (n + 1) PROVE q[i] \in Buffer
      <3>1. CASE i = Len(m) + 1
        BY <1>1, <1>3, <3>1
      <3>2. CASE i # Len(m) + 1
        <4>1. i \in DOMAIN m /\ i > Len(m) - n
          BY <1>1, <2>2, <3>2
        <4>2. QED
          BY <1>1, <4>1 DEF Inside
      <3>3. QED
        BY <3>1, <3>2
    <2>3. QED
      BY <2>1, <2>2 DEF Inside
  <1>4. QED
    BY <1>1, <1>2, <1>3 DEF q

LEMMA Cut ==
  ASSUME NEW m \in Seq(Cells \union Buffer), NEW k \in 0..Len(m)
  PROVE  /\ SubSeq(m, 1, k) \in Seq(Cells \union Buffer) /\ Len(SubSeq(m, 1, k)) = k
         /\ Inside(SubSeq(m, 1, k), 0)
         /\ \A i \in 1..k : SubSeq(m, 1, k)[i] = m[i]
  <1> DEFINE q == SubSeq(m, 1, k)
  <1>1. /\ q \in Seq(Cells \union Buffer) /\ Len(q) = k /\ DOMAIN q = 1..k /\ k \in Nat
        /\ \A i \in 1..k : q[i] = m[i]
    OBVIOUS
  <1> HIDE DEF q
  <1>2. Inside(q, 0)
    BY <1>1 DEF Inside
  <1>3. QED
    BY <1>1, <1>2 DEF q

LEMMA Popped ==
  ASSUME NEW m \in Seq(Cells \union Buffer), m # <<>>, NEW n \in Nat, Inside(m, n)
  PROVE  /\ Len(m) \in Nat /\ Len(m) - 1 \in 0..Len(m)
         /\ m[Len(m)] \in Cells \union Buffer
         /\ n > 0 => m[Len(m)] \in Buffer /\ Inside(SubSeq(m, 1, Len(m) - 1), n - 1)
  <1>1. /\ Len(m) \in Nat /\ Len(m) - 1 \in 0..Len(m) /\ DOMAIN m = 1..Len(m)
        /\ Len(m) \in 1..Len(m)
        /\ m[Len(m)] \in Cells \union Buffer
    OBVIOUS
  <1>2. ASSUME n > 0
        PROVE  m[Len(m)] \in Buffer /\ Inside(SubSeq(m, 1, Len(m) - 1), n - 1)
    <2> DEFINE k == Len(m) - 1
               q == SubSeq(m, 1, k)
    <2>1. Len(q) = k /\ q \in Seq(Cells \union Buffer) /\ \A i \in 1..k : q[i] = m[i]
      BY <1>1, Cut
    <2>2. DOMAIN q = 1..k
      BY <2>1
    <2>3. k \in Nat /\ Len(m) = k + 1
      BY <1>1
    <2> HIDE DEF q, k
    <2>4. n <= Len(m) /\ \A i \in 1..Len(m) : i > Len(m) - n => m[i] \in Buffer
      BY <1>1 DEF Inside
    <2>5. n - 1 <= Len(q)
      BY <2>1, <2>3, <2>4
    <2>6. ASSUME NEW i \in 1..k, i > k - (n - 1) PROVE m[i] \in Buffer
      BY <2>3, <2>4, <2>6
    <2>7. Inside(q, n - 1)
      BY <2>1, <2>2, <2>5, <2>6 DEF Inside
    <2>8. m[Len(m)] \in Buffer
      BY <1>1, <1>2, <2>4
    <2>9. QED
      BY <2>7, <2>8 DEF q, k
  <1>3. QED
    BY <1>1, <1>2

\* Code stored where no header is makes no word and takes none away.
LEMMA CodeWritten ==
  ASSUME IInv, slip = "none", NEW S, mem' = Written(S)
  PROVE  /\ mem' \in [Cells -> [kind : Kinds, val : 0..DictSize]]
         /\ (\A a \in Cells : a \in S => mem[a].kind \notin {"link", "cf"})
            => Words' = Words /\ (\A w \in Words : Link(w)' = Link(w)) /\ LinksLead'
  <1> USE SizesPositive
  <1>1. Code \in [kind : Kinds, val : 0..DictSize] /\ Code.kind = "code"
    BY DEF Code, Kinds
  <1>2. mem \in [Cells -> [kind : Kinds, val : 0..DictSize]] /\ LinksLead
    BY Before
  <1>3. mem' \in [Cells -> [kind : Kinds, val : 0..DictSize]]
    BY <1>1, <1>2 DEF Written
  <1>4. ASSUME \A a \in Cells : a \in S => mem[a].kind \notin {"link", "cf"}
        PROVE  Words' = Words /\ (\A w \in Words : Link(w)' = Link(w)) /\ LinksLead'
    <2>1. /\ \A a \in Cells : a \in S => mem'[a].kind = "code"
          /\ \A a \in Cells : a \notin S => mem'[a] = mem[a]
      BY <1>1 DEF Written
    <2>2. \A a \in Cells : /\ (mem'[a].kind = "link") <=> (mem[a].kind = "link")
                           /\ (mem'[a].kind = "cf") <=> (mem[a].kind = "cf")
                           /\ mem[a].kind = "link" => mem'[a] = mem[a]
      BY <1>4, <2>1
    <2>3. \A w \in Cells : w > 1 => w - 1 \in Cells
      OBVIOUS
    <2>4. Words' = Words
      BY <2>2, <2>3, WordCells, WordCellsNext
    <2>5. \A w \in Words : Link(w)' = Link(w)
      BY <2>2, <2>3, WordCells DEF Link
    <2>6. LinksLead'
      BY <1>2, <2>2, <2>4 DEF LinksLead
    <2>7. QED
      BY <2>4, <2>5, <2>6
  <1>5. QED
    BY <1>3, <1>4
-----------------------------------------------------------------------------
\* Steps that leave the words alone.
LEMMA SameWords ==
  ASSUME ThreadSound, slip = "none", LinksLead', Words' = Words,
         \A w \in Words : Link(w)' = Link(w),
         thread' = thread \/ (thread' = lastp /\ (slip' = "word" \/ lastp \in Words)),
         \A w \in Words : slip' # "word" => w < DictEnd'
  PROVE  ThreadSound'
  BY DEF ThreadSound

LEMMA SameLast ==
  ASSUME LastIsNewest, Words' = Words, \A w \in Words : Link(w)' = Link(w), lastp' = lastp,
         thread' = thread \/ thread' = lastp
  PROVE  LastIsNewest'
  BY DEF LastIsNewest

LEMMA InitInv == Init => IInv
  <1> SUFFICES ASSUME Init PROVE IInv
    OBVIOUS
  <1> USE SizesPositive DEF Init
  <1>1. \A a \in Cells : mem[a].kind = "free"
    BY DEF Free
  <1>2. Words = {}
    BY <1>1, WordCells
  <1>3. TypeOK
    <2>1. mem \in [Cells -> [kind : Kinds, val : 0..DictSize]]
      BY DEF Free, Kinds
    <2>2. running \in Seq([at : Buffer, end : Buffer])
      OBVIOUS
    <2>3. /\ dp \in 1..COMPBUF + BufSize /\ lastp \in 0..DictSize /\ thread \in 0..DictSize
          /\ complevel \in 0..MaxMarks /\ saveddp \in 0..DictSize + 1
          /\ marks \in Seq(Cells \union Buffer) /\ Len(marks) <= MaxMarks
      OBVIOUS
    <2>4. QED
      BY <2>1, <2>2, <2>3 DEF TypeOK
  <1>4. HereInPlace
    BY DEF HereInPlace, Inside
  <1>5. ThreadSound /\ LinksLead /\ LastIsNewest
    BY <1>1, <1>2 DEF ThreadSound, LinksLead, LastIsNewest
  <1>6. QED
    BY <1>3, <1>4, <1>5 DEF IInv

-----------------------------------------------------------------------------
\* Words that define words.
LEMMA NamedInv ==
  ASSUME IInv, slip = "none", complevel = 0, Room(2), NEW n \in {thread, dp + 1}, Named(n),
         UNCHANGED <<complevel, saveddp, marks, control, slip>>, thisdef' \in BOOLEAN,
         state' \in {"interpreting", "compiling"}, def' \in {"none", "open"}
  PROVE  IInv'
  <1> USE SizesPositive
  <1>1. /\ dp + 1 \in Cells /\ dp \in Cells
        /\ Words' = Words \union {dp + 1} /\ \A w : w = dp + 1 => Link(w)' = thread
        /\ \A w \in Words : w < dp /\ Link(w)' = Link(w)
        /\ LinksLead'
        /\ mem' \in [Cells -> [kind : Kinds, val : 0..DictSize]]
        /\ dp' = dp + 2 /\ dp' <= DictSize + 1
        /\ lastp' = dp + 1 /\ thread' = n /\ torn' = torn
    BY NamedOne
  <1>2. /\ thread \in {0} \union Words /\ thread \in 0..DictSize /\ dp \in Nat
        /\ \A w \in Words : Link(w) \in {0} \union Words /\ Link(w) < w /\ w \in Nat
    <2>1. \A w \in Words : Link(w) \in {0} \union Words /\ Link(w) < w /\ w \in Cells
      BY Before
    <2>2. \A w \in Cells : w \in Nat
      OBVIOUS
    <2>3. thread \in {0} \union Words /\ dp \in Nat
      BY Before
    <2>4. thread \in 0..DictSize
      BY DEF IInv, TypeOK
    <2>5. QED
      BY <2>1, <2>2, <2>3, <2>4
  <1>3. TypeOK'
    <2>1. dp' \in 1..COMPBUF + BufSize /\ lastp' \in 0..DictSize /\ thread' \in 0..DictSize
      BY <1>1, <1>2
    <2>2. QED
      BY <1>1, <2>1 DEF IInv, TypeOK, control
  <1>4. HereInPlace'
    BY <1>1, <1>2 DEF IInv, HereInPlace
  <1>5. ThreadSound'
    <2>1. DictEnd' = dp'
      BY DEF DictEnd
    <2>2. thread' \in {0} \union Words'
      BY <1>1, <1>2
    <2>3. ASSUME NEW w \in Words'
          PROVE  w < DictEnd' /\ Link(w)' \in {0} \union Words' /\ Link(w)' < w
      <3>1. CASE w = dp + 1
        <4>1. thread < dp + 1
          BY <1>1, <1>2
        <4>2. QED
          BY <1>1, <1>2, <2>1, <3>1, <4>1
      <3>2. CASE w \in Words
        BY <1>1, <1>2, <2>1, <3>2
      <3>3. QED
        BY <1>1, <3>1, <3>2
    <2>4. QED
      BY <2>2, <2>3 DEF ThreadSound
  <1>6. LastIsNewest'
    <2>1. \A w \in Words' : w <= lastp'
      BY <1>1, <1>2
    <2>2. \A w : w = lastp' => Link(w)' = thread
      BY <1>1
    <2>3. Link(lastp)' = thread
      BY <2>2 DEF Link
    <2>4. thread' = lastp' \/ thread' = thread
      BY <1>1
    <2>5. QED
      BY <2>1, <2>3, <2>4 DEF LastIsNewest
  <1>7. QED
    BY <1>1, <1>3, <1>4, <1>5, <1>6 DEF IInv, control

LEMMA DefineInv ==
  ASSUME IInv, slip = "none", Create \/ Colon
  PROVE  IInv'
  <1>1. CASE Create
    <2>1. /\ complevel = 0 /\ Room(2) /\ Named(dp + 1)
          /\ UNCHANGED <<complevel, saveddp, marks, control, slip, thisdef, state, def>>
      BY <1>1 DEF Create, CanDefine, level
    <2>2. QED
      BY <2>1, NamedInv DEF IInv, TypeOK
  <1>2. CASE Colon
    <2>1. /\ complevel = 0 /\ Room(2) /\ Named(thread)
          /\ UNCHANGED <<complevel, saveddp, marks, control, slip>>
          /\ thisdef' = TRUE /\ state' = "compiling" /\ def' = "open"
      BY <1>2 DEF Colon, CanDefine
    <2>2. QED
      BY <2>1, NamedInv
  <1>3. QED
    BY <1>1, <1>2

\* One cell compiled, whatever becomes of STATE.
LEMMA StoreInv ==
  ASSUME IInv, slip = "none", Room(1), NEW kind \in {"cf", "code"},
         Store([kind |-> kind, val |-> 0]),
         UNCHANGED <<complevel, saveddp, marks, control>>,
         lastp' = lastp \/ (lastp' = dp /\ complevel = 0 /\ thread' = thread),
         thread' = thread \/ thread' = lastp,
         slip' = "none" \/ slip' = "word",
         thread' # thread /\ slip' = "none" => lastp \in Words,
         thisdef' \in BOOLEAN, state' \in {"interpreting", "compiling"}, def' \in {"none", "open"}
  PROVE  IInv'
  <1> USE SizesPositive
  <1>1. /\ Words' = Words /\ LinksLead' /\ \A w \in Words : Link(w)' = Link(w)
        /\ mem' \in [Cells -> [kind : Kinds, val : 0..DictSize]]
        /\ dp' = dp + 1 /\ dp' \in 1..COMPBUF + BufSize
        /\ complevel = 0 => dp' <= DictSize + 1 /\ dp \in Cells
    BY Stored
  <1>2. torn' \in BOOLEAN
    BY DEF Store, IInv, TypeOK
  <1>3. TypeOK'
    <2>1. lastp' \in 0..DictSize /\ thread' \in 0..DictSize
      BY <1>1 DEF IInv, TypeOK
    <2>2. QED
      BY <1>1, <1>2, <2>1 DEF IInv, TypeOK, control
  <1>4. HereInPlace'
    <2>1. /\ dp \in Nat /\ complevel \in Nat
          /\ complevel > 0 <=> dp >= COMPBUF
          /\ complevel > 0 => saveddp \in 1..DictSize + 1
          /\ Inside(marks, complevel)
      BY Before
    <2>2. complevel > 0 <=> dp' >= COMPBUF
      BY <1>1, <2>1
    <2>3. QED
      BY <2>1, <2>2 DEF HereInPlace
  <1>5. ThreadSound'
    <2>1. \A w \in Words : w < DictEnd'
      BY <1>1, Before DEF DictEnd
    <2>2. thread' = thread \/ (thread' = lastp /\ (slip' = "word" \/ lastp \in Words))
      OBVIOUS
    <2>3. QED
      BY <1>1, <2>1, <2>2, SameWords DEF IInv
  <1>6. LastIsNewest'
    <2>1. CASE lastp' = lastp
      BY <1>1, <2>1, SameLast DEF IInv
    <2>2. CASE lastp' = dp /\ complevel = 0
      <3>1. \A w \in Words : w < dp
        BY <2>2, Before DEF DictEnd
      <3>2. dp \notin Words'
        BY <1>1, <3>1, Before
      <3>3. QED
        BY <2>2, <3>2 DEF LastIsNewest
    <2>3. QED
      BY <2>1, <2>2
  <1>7. QED
    BY <1>1, <1>3, <1>4, <1>5, <1>6 DEF IInv, control

LEMMA CompileInv ==
  ASSUME IInv, slip = "none", ColonNoname \/ Comma \/ Semicolon
  PROVE  IInv'
  <1>1. CASE ColonNoname
    <2>1. /\ complevel = 0 /\ Room(1) /\ Store([kind |-> "cf", val |-> 0]) /\ lastp' = dp
          /\ thread' = thread /\ thisdef' = thisdef /\ slip' = "none"
          /\ state' = "compiling" /\ def' = "open"
          /\ UNCHANGED <<complevel, saveddp, marks, control>>
      BY <1>1 DEF ColonNoname, CanDefine
    <2>2. thisdef' \in BOOLEAN
      BY <2>1 DEF IInv, TypeOK
    <2>3. QED
      BY <2>1, <2>2, StoreInv
  <1>2. CASE Comma
    <2>1. /\ Room(1) /\ Store([kind |-> "code", val |-> 0]) /\ lastp' = lastp
          /\ thread' = thread /\ thisdef' = thisdef /\ slip' = "none"
          /\ state' = state /\ def' = def
          /\ UNCHANGED <<complevel, saveddp, marks, control>>
      BY <1>2 DEF Comma, Code, level
    <2>2. QED
      BY <2>1, StoreInv DEF IInv, TypeOK
  <1>3. CASE Semicolon
    <2>1. /\ Room(1) /\ Store([kind |-> "code", val |-> 0]) /\ lastp' = lastp
          /\ thread' = IF thisdef THEN lastp ELSE thread
          /\ thisdef' = FALSE
          /\ slip' = IF thisdef /\ ~Header(lastp) THEN "word" ELSE slip
          /\ state' = "interpreting" /\ def' = "none"
          /\ UNCHANGED <<complevel, saveddp, marks, control>>
      BY <1>3 DEF Semicolon, Code, Reveal
    <2>2. thread' # thread /\ slip' = "none" => lastp \in Words
      BY <2>1 DEF Words, Header
    <2>3. QED
      BY <2>1, <2>2, StoreInv
  <1>4. QED
    BY <1>1, <1>2, <1>3

LEMMA ForgetInv ==
  ASSUME IInv, slip = "none", NEW w \in Cells, Forget(w)
  PROVE  IInv'
  <1> USE SizesPositive
  <1>1. /\ w \in Words /\ Words' = {v \in Words : v < w}
        /\ \A v \in Words' : Link(v)' = Link(v)
        /\ LinksLead' /\ dp' = w - 1 /\ dp' \in 1..DictSize
        /\ mem' \in [Cells -> [kind : Kinds, val : 0..DictSize]]
        /\ \A v \in Words' : v < dp'
        /\ thread' \in {0} \union Words'
        /\ lastp \notin Words'
    BY Forgotten
  <1>2. /\ complevel = 0
        /\ UNCHANGED <<lastp, thisdef, state, complevel, saveddp, marks, exec, running, def, torn, slip>>
    BY DEF Forget, CanDefine, level, control
  <1>3. TypeOK'
    <2>1. thread' \in 0..DictSize
      BY <1>1, WordCells
    <2>2. dp' \in 1..COMPBUF + BufSize
      BY <1>1
    <2>3. QED
      BY <1>1, <1>2, <2>1, <2>2 DEF IInv, TypeOK
  <1>4. HereInPlace'
    BY <1>1, <1>2 DEF IInv, HereInPlace
  <1>5. ThreadSound'
    <2>1. DictEnd' = dp'
      BY <1>2 DEF DictEnd
    <2>2. ASSUME NEW v \in Words' PROVE Link(v)' \in {0} \union Words' /\ Link(v)' < v
      <3>1. v \in Words /\ v < w /\ v \in Nat /\ w \in Nat
        BY <1>1, WordCells
      <3>2. Link(v) \in {0} \union Words /\ Link(v) < v
        BY <3>1, Before
      <3>3. Link(v) \in Words => Link(v) < w
        BY <3>1, <3>2, WordCells
      <3>4. QED
        BY <1>1, <3>2, <3>3
    <2>3. QED
      BY <1>1, <2>1, <2>2 DEF ThreadSound
  <1>6. LastIsNewest'
    BY <1>1, <1>2 DEF LastIsNewest
  <1>7. QED
    BY <1>1, <1>2, <1>3, <1>4, <1>5, <1>6 DEF IInv
-----------------------------------------------------------------------------
\* Control structures.
LEMMA IfInv ==
  ASSUME IInv, slip = "none", If
  PROVE  IInv'
  <1> USE SizesPositive
  <1>1. /\ Len(marks) < MaxMarks /\ Len(marks) \in Nat
        /\ UNCHANGED <<lastp, thread, thisdef, exec, running, def, slip>>
        /\ complevel \in Nat /\ complevel <= Len(marks)
        /\ marks \in Seq(Cells \union Buffer) /\ Inside(marks, complevel)
        /\ complevel > 0 <=> dp >= COMPBUF
        /\ complevel > 0 => saveddp \in 1..DictSize + 1
        /\ complevel = 0 => dp <= DictSize + 1
        /\ dp \in Nat /\ dp >= 1
    BY Before DEF If, control, Inside
  <1>3. CASE /\ complevel > 0 \/ state = "compiling"
             /\ complevel' = IF complevel > 0 THEN complevel + 1 ELSE 0
             /\ Room(1) /\ Store(Code) /\ marks' = Append(marks, dp)
             /\ UNCHANGED <<state, saveddp>>
    <2>1. Store([kind |-> "code", val |-> 0])
      BY <1>3 DEF Code
    <2>2. /\ Words' = Words /\ LinksLead' /\ \A w \in Words : Link(w)' = Link(w)
          /\ mem' \in [Cells -> [kind : Kinds, val : 0..DictSize]]
          /\ dp' = dp + 1 /\ dp' \in 1..COMPBUF + BufSize
          /\ complevel = 0 => dp' <= DictSize + 1 /\ dp \in Cells
      BY <1>3, <2>1, Stored
    <2>3. complevel' \in 0..MaxMarks /\ (complevel' > 0 <=> complevel > 0)
      BY <1>1, <1>3
    <2>9. dp \in Cells \union Buffer /\ (complevel > 0 => dp \in Buffer)
      <3>1. dp \in IF dp \in Buffer THEN Buffer ELSE Cells
        BY <1>1, <1>3 DEF Room
      <3>2. QED
        BY <1>1, <3>1
    <2>10. /\ marks' \in Seq(Cells \union Buffer) /\ Len(marks') <= MaxMarks
           /\ Inside(marks', complevel')
      BY <1>1, <1>3, <2>9, Pushed
    <2>4. TypeOK'
      BY <1>1, <1>3, <2>2, <2>3, <2>10 DEF IInv, TypeOK, Store
    <2>5. HereInPlace'
      <3>1. complevel > 0 <=> dp' >= COMPBUF
        BY <1>1, <2>2
      <3>2. QED
        BY <1>1, <1>3, <2>3, <2>10, <3>1 DEF HereInPlace
    <2>6. ThreadSound'
      <3>1. \A w \in Words : w < DictEnd'
        BY <1>1, <1>3, <2>2, <2>3, Before DEF DictEnd
      <3>2. QED
        BY <1>1, <2>2, <3>1, SameWords DEF IInv
    <2>7. LastIsNewest'
      BY <1>1, <2>2, SameLast DEF IInv
    <2>8. QED
      BY <1>1, <2>2, <2>4, <2>5, <2>6, <2>7 DEF IInv
  <1>4. CASE /\ complevel = 0 /\ state = "interpreting" /\ complevel' = 1 /\ saveddp' = dp
             /\ state' = "compiling" /\ mem' = mem /\ dp' = COMPBUF + 1
             /\ marks' = Append(marks, COMPBUF) /\ torn' = (torn \/ Ahead(COMPBUF))
    <2>7. /\ marks' \in Seq(Cells \union Buffer) /\ Len(marks') <= MaxMarks
          /\ Inside(marks', 1)
      <3>1. COMPBUF \in Buffer
        OBVIOUS
      <3>2. Inside(marks, 0)
        BY <1>1, <1>4
      <3>3. QED
        BY <1>1, <1>4, <3>1, <3>2, Pushed
    <2>1. Words' = Words /\ (\A w \in Words : Link(w)' = Link(w)) /\ LinksLead'
      BY <1>4, SameMem DEF IInv
    <2>2. TypeOK'
      <3>1. /\ dp' \in 1..COMPBUF + BufSize /\ saveddp' \in 0..DictSize + 1
            /\ complevel' \in 0..MaxMarks
        BY <1>1, <1>4
      <3>2. torn' \in BOOLEAN
        BY <1>4 DEF IInv, TypeOK, Ahead
      <3>3. QED
        BY <1>1, <1>4, <2>7, <3>1, <3>2 DEF IInv, TypeOK
    <2>3. HereInPlace'
      BY <1>1, <1>4, <2>7 DEF HereInPlace
    <2>4. ThreadSound'
      <3>1. DictEnd' = DictEnd
        BY <1>4 DEF DictEnd
      <3>2. QED
        BY <1>1, <2>1, <3>1, SameWords, Before DEF IInv
    <2>5. LastIsNewest'
      BY <1>1, <2>1, SameLast DEF IInv
    <2>6. QED
      BY <1>1, <2>1, <2>2, <2>3, <2>4, <2>5 DEF IInv
  <1>5. QED
    BY <1>3, <1>4 DEF If

\* `then`: what it stores through a mark that is none is the one harm it can do.
LEMMA MarkFacts ==
  ASSUME IInv, slip = "none", marks # <<>>
  PROVE  Mark \in Cells \union Buffer /\ (complevel > 0 => Mark \in Buffer)
  BY Before, Popped DEF Mark

LEMMA ThenFacts ==
  ASSUME IInv, slip = "none", marks # <<>>, NEW S, mem' = Written(S),
         \/ S = {Mark}
         \/ S = {Mark, dp} /\ dp \in Buffer
  PROVE  /\ mem' \in [Cells -> [kind : Kinds, val : 0..DictSize]]
         /\ ~Astray => /\ Words' = Words /\ LinksLead'
                       /\ \A w \in Words : Link(w)' = Link(w)
  <1>1. \A a \in Cells : a \notin Buffer
    BY SizesPositive
  <1>2. ~Astray => \A a \in Cells : a \in S => mem[a].kind \notin {"link", "cf"}
    BY <1>1 DEF Astray
  <1>3. QED
    BY <1>2, CodeWritten

LEMMA ThenInv ==
  ASSUME IInv, slip = "none", Then
  PROVE  IInv'
  <1> USE SizesPositive
  <1>1. /\ marks # <<>> /\ marks' = SubSeq(marks, 1, Len(marks) - 1)
        /\ lastp' = lastp /\ thread' = thread /\ thisdef' = thisdef /\ def' = def
        /\ slip' = IF Astray THEN "mark" ELSE "none"
        /\ complevel \in Nat /\ complevel <= MaxMarks
        /\ marks \in Seq(Cells \union Buffer) /\ Len(marks) <= MaxMarks
        /\ Inside(marks, complevel)
        /\ complevel > 0 <=> dp >= COMPBUF
        /\ complevel > 0 => saveddp \in 1..DictSize + 1
        /\ complevel = 0 => dp <= DictSize + 1
        /\ dp \in Nat /\ dp >= 1
    BY Before DEF Then
  <1>2. /\ marks' \in Seq(Cells \union Buffer) /\ Len(marks') <= MaxMarks
        /\ Inside(marks', 0)
        /\ complevel > 0 => Inside(marks', complevel - 1)
    <2>1. /\ Len(marks) \in Nat /\ Len(marks) - 1 \in 0..Len(marks)
          /\ complevel > 0 => Inside(SubSeq(marks, 1, Len(marks) - 1), complevel - 1)
      BY <1>1, Popped
    <2> DEFINE k == Len(marks) - 1
    <2>2. k \in 0..Len(marks) /\ marks' = SubSeq(marks, 1, k) /\ k <= Len(marks)
      BY <1>1, <2>1
    <2> HIDE DEF k
    <2>3. marks' \in Seq(Cells \union Buffer) /\ Len(marks') = k /\ Inside(marks', 0)
      BY <1>1, <2>2, Cut
    <2>4. Len(marks') <= MaxMarks
      BY <1>1, <2>1, <2>2, <2>3
    <2>5. QED
      BY <1>1, <2>1, <2>3, <2>4
  <1>3. CASE InnerLevel
    <2>1. /\ complevel # 1 /\ complevel' = IF complevel > 0 THEN complevel - 1 ELSE 0
          /\ mem' = Written({Mark}) /\ torn' = (torn \/ Ahead(Mark))
          /\ UNCHANGED <<dp, state, saveddp, exec, running>>
      BY <1>3 DEF InnerLevel, control
    <2>2. complevel' \in 0..MaxMarks /\ (complevel' > 0 <=> complevel > 0)
      BY <1>1, <2>1
    <2>3. /\ mem' \in [Cells -> [kind : Kinds, val : 0..DictSize]]
          /\ ~Astray => /\ Words' = Words /\ LinksLead'
                        /\ \A w \in Words : Link(w)' = Link(w)
      BY <1>1, <2>1, ThenFacts
    <2>4. TypeOK'
      <3>1. torn' \in BOOLEAN
        BY <2>1 DEF IInv, TypeOK, Ahead
      <3>2. QED
        BY <1>1, <1>2, <2>1, <2>2, <2>3, <3>1 DEF IInv, TypeOK
    <2>5. HereInPlace'
      <3>1. Inside(marks', complevel')
        BY <1>1, <1>2, <2>1
      <3>2. QED
        BY <1>1, <2>1, <2>2, <3>1 DEF HereInPlace
    <2>6. ThreadSound'
      <3>1. DictEnd' = DictEnd
        BY <2>1, <2>2 DEF DictEnd
      <3>2. CASE Astray
        BY <1>1, <3>2 DEF ThreadSound
      <3>3. CASE ~Astray
        BY <1>1, <2>1, <2>3, <3>1, <3>3, SameWords, Before DEF IInv
      <3>4. QED
        BY <3>2, <3>3
    <2>7. slip' = "none" => LastIsNewest'
      BY <1>1, <2>1, <2>3, SameLast DEF IInv
    <2>8. QED
      BY <1>1, <2>1, <2>3, <2>4, <2>5, <2>6, <2>7 DEF IInv
  <1>4. CASE LastLevel
    <2>1. /\ complevel = 1 /\ Room(1) /\ mem' = Written({Mark, dp}) /\ dp' = saveddp
          /\ torn' = (torn \/ Ahead(Mark) \/ Ahead(dp))
          /\ complevel' = 0 /\ state' = "interpreting" /\ exec' = "code"
          /\ running' = Append(running, [at |-> COMPBUF, end |-> dp])
          /\ UNCHANGED saveddp
      BY <1>4 DEF LastLevel
    <2>2. dp \in Buffer /\ COMPBUF \in Buffer
      <3>1. dp >= COMPBUF
        BY <1>1, <2>1
      <3>2. dp \in IF dp \in Buffer THEN Buffer ELSE Cells
        BY <1>1, <2>1 DEF Room
      <3>3. QED
        BY <1>1, <3>1, <3>2
    <2>3. running' \in Seq([at : Buffer, end : Buffer]) /\ running' # <<>>
      <3>1. [at |-> COMPBUF, end |-> dp] \in [at : Buffer, end : Buffer]
        BY <2>2
      <3>2. running \in Seq([at : Buffer, end : Buffer])
        BY DEF IInv, TypeOK
      <3> DEFINE B == [at : Buffer, end : Buffer]
                 r == [at |-> COMPBUF, end |-> dp]
      <3> HIDE DEF B, r
      <3>3. r \in B /\ running \in Seq(B)
        BY <3>1, <3>2 DEF B, r
      <3>4. Append(running, r) \in Seq(B)
        BY <3>3
      <3>5. Append(running, r) # <<>>
        <4> DEFINE q == Append(running, r)
        <4>1. Len(q) = Len(running) + 1 /\ Len(running) \in Nat
          BY <3>3
        <4> HIDE DEF q
        <4>2. Len(q) # 0
          BY <4>1
        <4>3. q # <<>>
          BY <4>2
        <4>4. QED
          BY <4>3 DEF q
      <3>6. QED
        BY <2>1, <3>4, <3>5 DEF B, r
    <2>4. /\ mem' \in [Cells -> [kind : Kinds, val : 0..DictSize]]
          /\ ~Astray => /\ Words' = Words /\ LinksLead'
                        /\ \A w \in Words : Link(w)' = Link(w)
      BY <1>1, <2>1, <2>2, ThenFacts
    <2>5. TypeOK'
      <3>1. dp' \in 1..COMPBUF + BufSize /\ torn' \in BOOLEAN
        BY <1>1, <2>1 DEF IInv, TypeOK, Ahead
      <3>2. /\ complevel' \in 0..MaxMarks /\ saveddp' = saveddp /\ state' = "interpreting"
            /\ exec' = "code" /\ slip' \in {"none", "mark"}
            /\ lastp' = lastp /\ thread' = thread /\ thisdef' = thisdef /\ def' = def
        BY <1>1, <2>1, SizesPositive
      <3>3. QED
        BY <1>2, <2>3, <2>4, <3>1, <3>2 DEF IInv, TypeOK
    <2>6. HereInPlace'
      BY <1>1, <1>2, <2>1 DEF HereInPlace
    <2>7. ThreadSound'
      <3>1. DictEnd' = DictEnd
        BY <2>1 DEF DictEnd
      <3>2. CASE Astray
        BY <1>1, <3>2 DEF ThreadSound
      <3>3. CASE ~Astray
        BY <1>1, <2>1, <2>4, <3>1, <3>3, SameWords, Before DEF IInv
      <3>4. QED
        BY <3>2, <3>3
    <2>8. slip' = "none" => LastIsNewest'
      BY <1>1, <2>1, <2>4, SameLast DEF IInv
    <2>9. QED
      BY <1>1, <2>3, <2>4, <2>5, <2>6, <2>7, <2>8 DEF IInv
  <1>5. QED
    BY <1>3, <1>4 DEF Then
-----------------------------------------------------------------------------
\* The flow of control.
LEMMA ControlInv ==
  ASSUME IInv, slip = "none", UNCHANGED <<dict, complevel, saveddp, marks, slip>>,
         exec' \in {"prompt", "text", "code"}, exec' = "code" => running' # <<>>,
         running' \in Seq([at : Buffer, end : Buffer]),
         state' \in {"interpreting", "compiling"}, def' \in {"none", "open"}, torn' \in BOOLEAN
  PROVE  IInv'
  <1>1. UNCHANGED <<mem, dp, lastp, thread, thisdef>>
    BY DEF dict
  <1>2. Words' = Words /\ (\A w \in Words : Link(w)' = Link(w)) /\ LinksLead'
    BY <1>1, SameMem DEF IInv
  <1>3. TypeOK'
    BY <1>1 DEF IInv, TypeOK
  <1>4. HereInPlace'
    BY <1>1 DEF IInv, HereInPlace
  <1>5. ThreadSound'
    <2>1. DictEnd' = DictEnd
      BY <1>1 DEF DictEnd
    <2>2. QED
      BY <1>1, <1>2, <2>1, SameWords, Before DEF IInv
  <1>6. LastIsNewest'
    BY <1>1, <1>2, SameLast DEF IInv
  <1>7. QED
    BY <1>2, <1>3, <1>4, <1>5, <1>6 DEF IInv

LEMMA FlowInv ==
  ASSUME IInv, slip = "none",
         \/ LeftBracket \/ RightBracket \/ Refill \/ EndOfText
         \/ CodeExit \/ \E p \in Buffer : Evaluate(p)
  PROVE  IInv'
  <1> DEFINE B == [at : Buffer, end : Buffer]
  <1>1. /\ running \in Seq(B) /\ (exec = "code" => running # <<>>)
        /\ exec \in {"prompt", "text", "code"} /\ state \in {"interpreting", "compiling"}
        /\ def \in {"none", "open"} /\ torn \in BOOLEAN
    BY DEF IInv, TypeOK
  <1>2. CASE LeftBracket \/ RightBracket \/ Refill \/ EndOfText
    BY <1>1, <1>2, ControlInv DEF LeftBracket, RightBracket, Refill, EndOfText, level, control
  <1>3. CASE CodeExit
    <2>1. running # <<>>
      BY <1>1, <1>3 DEF CodeExit
    <2> HIDE DEF B
    <2>2. SubSeq(running, 1, Len(running) - 1) \in Seq(B)
      BY <1>1, <2>1
    <2>3. QED
      BY <1>1, <1>3, <2>2, ControlInv DEF CodeExit, level, B
  <1>4. ASSUME NEW p \in Buffer, Evaluate(p)
        PROVE  IInv'
    <2>1. running # <<>> /\ exec' = "text" /\ UNCHANGED <<dict, level, def, torn, slip>>
      BY <1>1, <1>4 DEF Evaluate
    <2> DEFINE n == Len(running)
    <2>2. running' = [running EXCEPT ![n].at = p]
      BY <1>4 DEF Evaluate
    <2>3. running[n] \in B /\ n \in DOMAIN running
      <3> HIDE DEF B
      <3>1. Len(running) \in Nat /\ Len(running) # 0 /\ DOMAIN running = 1..Len(running)
        BY <1>1, <2>1
      <3>2. n \in 1..Len(running)
        BY <3>1
      <3>3. QED
        BY <1>1, <3>1, <3>2
    <2>4. [running[n] EXCEPT !.at = p] \in B
      BY <2>3
    <2> HIDE DEF B
    <2>5. running' \in Seq(B)
      BY <1>1, <2>2, <2>3, <2>4
    <2>6. QED
      BY <1>1, <2>1, <2>5, ControlInv DEF level, B
  <1>5. QED
    BY <1>2, <1>3, <1>4

\* Errors: only one that the host gets moves DP back, and reveals a definition.
LEMMA AbandonInv ==
  ASSUME IInv, slip = "none", Throw \/ Quit \/ Unpaired
  PROVE  IInv'
  <1> USE SizesPositive
  <1>1. /\ UNCHANGED <<dp, lastp, thread, thisdef, saveddp>>
        /\ state' = "interpreting" /\ exec' = "prompt" /\ running' = <<>> /\ def' = "none"
        /\ complevel' = complevel \/ complevel' = 0
    BY DEF Throw, Quit, Unpaired, Abandoned, dict
  <1>2. /\ slip' \in {"mark", "level", "none"}
        /\ slip' = "none" => complevel = 0
        /\ slip' # "mark" => \/ mem' = mem
                             \/ marks # <<>> /\ mem' = Written({Mark}) /\ ~Astray
        /\ mem' = mem \/ (marks # <<>> /\ mem' = Written({Mark}))
        /\ torn' \in BOOLEAN
    <2>1. complevel = 0 \/ complevel > 0
      BY Before
    <2>2. CASE Throw
      BY <2>1, <2>2 DEF Throw, dict, IInv, TypeOK
    <2>3. CASE Quit
      BY <2>1, <2>3 DEF Quit, dict, IInv, TypeOK
    <2>4. CASE Unpaired
      BY <2>1, <2>4 DEF Unpaired, IInv, TypeOK, Ahead
    <2>5. QED
      BY <2>2, <2>3, <2>4
  <1>3. /\ complevel \in Nat /\ complevel <= MaxMarks
        /\ marks \in Seq(Cells \union Buffer) /\ Len(marks) <= MaxMarks
        /\ Inside(marks, complevel)
        /\ complevel > 0 <=> dp >= COMPBUF
        /\ DictEnd <= DictSize + 1 /\ dp \in Nat
    BY Before
  <1>10. /\ marks' \in Seq(Cells \union Buffer) /\ Len(marks') <= MaxMarks
         /\ slip' = "none" => Inside(marks', 0)
    <2>1. CASE Quit
      BY <1>2, <1>3, <2>1 DEF Quit
    <2>2. CASE Throw \/ Unpaired
      <3>1. PICK n \in 0..Len(marks) : marks' = SubSeq(marks, 1, n)
        BY <2>2 DEF Throw, Unpaired, Unwound
      <3>2. Len(marks) \in Nat
        BY <1>3
      <3>3. QED
        BY <1>3, <3>1, <3>2, Cut
    <2>3. QED
      BY <2>1, <2>2
  <1>4. /\ mem' \in [Cells -> [kind : Kinds, val : 0..DictSize]]
        /\ slip' # "mark" => Words' = Words /\ (\A w \in Words : Link(w)' = Link(w)) /\ LinksLead'
    <2>1. CASE mem' = mem
      BY <2>1, SameMem DEF IInv, TypeOK
    <2>2. CASE mem' # mem
      BY <1>2, <2>2, ThenFacts
    <2>3. QED
      BY <2>1, <2>2
  <1>5. TypeOK'
    <2>1. running' \in Seq([at : Buffer, end : Buffer])
      BY <1>1
    <2>2. complevel' \in 0..MaxMarks
      BY <1>1, <1>3
    <2>3. QED
      BY <1>1, <1>2, <1>4, <1>10, <2>1, <2>2 DEF IInv, TypeOK
  <1>6. HereInPlace'
    <2>1. CASE slip' = "none"
      <3>1. complevel = 0 /\ complevel' = 0 /\ Inside(marks', complevel')
        BY <1>1, <1>2, <1>10, <2>1
      <3>2. QED
        BY <1>1, <1>3, <3>1 DEF HereInPlace
    <2>2. QED
      BY <2>1 DEF HereInPlace
  <1>7. ThreadSound'
    <2>1. \A w \in Words : w < DictEnd'
      <3>1. DictEnd' = DictEnd \/ DictEnd' >= COMPBUF
        BY <1>1, <1>3 DEF DictEnd
      <3>2. \A w \in Words : w < DictEnd /\ w < COMPBUF /\ w \in Nat
        <4>1. \A w \in Words : w < DictEnd /\ w \in Cells
          BY Before
        <4>2. \A w \in Cells : w < COMPBUF /\ w \in Nat
          OBVIOUS
        <4>3. QED
          BY <4>1, <4>2
      <3>3. DictEnd' \in Nat
        BY <1>1, <1>3, Before DEF DictEnd
      <3>4. QED
        BY <3>1, <3>2, <3>3
    <2>2. CASE slip' = "mark"
      BY <2>2 DEF ThreadSound
    <2>3. CASE slip' # "mark"
      BY <1>1, <1>4, <2>1, <2>3, SameWords DEF IInv
    <2>4. QED
      BY <2>2, <2>3
  <1>8. slip' = "none" => LastIsNewest'
    BY <1>1, <1>4, SameLast DEF IInv
  <1>9. QED
    BY <1>1, <1>4, <1>5, <1>6, <1>7, <1>8 DEF IInv

LEMMA NoMarkInv ==
  ASSUME IInv, slip = "none", NoMark
  PROVE  IInv'
  <1>1. /\ slip' = "mark"
        /\ UNCHANGED <<mem, dp, lastp, thread, thisdef, state, complevel, saveddp, marks>>
        /\ UNCHANGED <<exec, running, def, torn>>
    BY DEF NoMark, dict, level, control
  <1>2. TypeOK' /\ (exec' = "code" => running' # <<>>)
    BY <1>1 DEF IInv, TypeOK
  <1>3. HereInPlace' /\ ThreadSound'
    BY <1>1 DEF HereInPlace, ThreadSound
  <1>4. QED
    BY <1>1, <1>2, <1>3 DEF IInv

LEMMA ThrowToHostInv ==
  ASSUME IInv, slip = "none", ThrowToHost
  PROVE  IInv'
  <1> USE SizesPositive
  <1>1. /\ UNCHANGED <<mem, lastp, saveddp, torn>>
        /\ thread' = IF thisdef THEN lastp ELSE thread
        /\ thisdef' = FALSE
        /\ state' = "interpreting" /\ exec' = "prompt" /\ running' = <<>> /\ def' = "none"
        /\ dp' = DictEnd /\ complevel' = 0 /\ marks' = <<>>
        /\ slip' = IF thisdef /\ ~Header(lastp) THEN "word" ELSE slip
    BY DEF ThrowToHost, Abandoned, Reveal
  <1>2. DictEnd \in 1..DictSize + 1
    BY Before
  <1>3. Words' = Words /\ (\A w \in Words : Link(w)' = Link(w)) /\ LinksLead'
    BY <1>1, SameMem DEF IInv
  <1>4. TypeOK'
    <2>1. running' \in Seq([at : Buffer, end : Buffer])
      BY <1>1
    <2>2. /\ dp' \in 1..COMPBUF + BufSize /\ complevel' \in 0..MaxMarks
          /\ marks' \in Seq(Cells \union Buffer) /\ Len(marks') <= MaxMarks
      BY <1>1, <1>2
    <2>3. lastp' \in 0..DictSize /\ thread' \in 0..DictSize
      BY <1>1 DEF IInv, TypeOK
    <2>4. QED
      BY <1>1, <2>1, <2>2, <2>3 DEF IInv, TypeOK
  <1>5. HereInPlace'
    <2>1. Inside(<<>>, 0)
      BY DEF Inside
    <2>2. QED
      BY <1>1, <1>2, <2>1 DEF HereInPlace
  <1>6. ThreadSound'
    <2>1. DictEnd' = DictEnd
      BY <1>1 DEF DictEnd
    <2>2. thread' = thread \/ (thread' = lastp /\ (slip' = "word" \/ lastp \in Words))
      BY <1>1 DEF Words, Header
    <2>3. QED
      BY <1>3, <2>1, <2>2, SameWords, Before DEF IInv
  <1>7. LastIsNewest'
    BY <1>1, <1>3, SameLast DEF IInv
  <1>8. QED
    BY <1>1, <1>3, <1>4, <1>5, <1>6, <1>7 DEF IInv

LEMMA StepInv == IInv /\ [Next]_vars => IInv'
  <1> SUFFICES ASSUME IInv, [Next]_vars PROVE IInv'
    OBVIOUS
  <1>1. CASE Next
    <2>1. slip = "none"
      BY <1>1 DEF Next
    <2>2. CASE Throw \/ Quit \/ Unpaired
      BY <2>1, <2>2, AbandonInv
    <2>10. CASE NoMark
      BY <2>1, <2>10, NoMarkInv
    <2>3. CASE ThrowToHost
      BY <2>1, <2>3, ThrowToHostInv
    <2>4. CASE LeftBracket \/ RightBracket \/ Refill \/ EndOfText
               \/ CodeExit \/ \E p \in Buffer : Evaluate(p)
      BY <2>1, <2>4, FlowInv
    <2>5. CASE If \/ Then
      BY <2>1, <2>5, IfInv, ThenInv
    <2>6. CASE ColonNoname \/ Comma \/ Semicolon
      BY <2>1, <2>6, CompileInv
    <2>7. CASE Create \/ Colon
      BY <2>1, <2>7, DefineInv
    <2>8. CASE \E w \in Cells : Forget(w)
      BY <2>1, <2>8, ForgetInv
    <2>9. QED
      BY <1>1, <2>2, <2>3, <2>4, <2>5, <2>6, <2>7, <2>8, <2>10 DEF Next
  <1>2. CASE UNCHANGED vars
    <2>1. /\ UNCHANGED <<mem, dp, lastp, thread, thisdef, state, complevel, saveddp, marks>>
          /\ UNCHANGED <<exec, running, def, torn, slip>>
      BY <1>2 DEF vars, dict, level, control
    <2>2. QED
      BY <2>1 DEF IInv, TypeOK, HereInPlace, Inside, ThreadSound, LinksLead, LastIsNewest, Words, Header,
                  Link, DictEnd
  <1>3. QED
    BY <1>1, <1>2

\* The invariant behind the theorems that follow, until the first slip, for any sizes of the
\* dictionary and of COMPBUF (compiler.c, forth.c).
THEOREM Invariance == Spec => []IInv
  <1>1. QED
    BY InitInv, StepInv, PTL DEF Spec

\* Every variable keeps its type.
LEMMA TypeCorrect == Spec => []TypeOK
  <1>1. IInv => TypeOK
    BY DEF IInv
  <1>2. QED
    BY <1>1, Invariance, PTL

\* A search of the vocabulary ends: the thread and the links lead down through headers to
\* the origin, after any number of abandoned and forgotten definitions (header, hide, reveal,
\* trim).
THEOREM ThreadStaysSound == Spec => []ThreadSound
  <1>1. IInv => ThreadSound
    BY DEF IInv
  <1>2. QED
    BY <1>1, Invariance, PTL

\* DP is in COMPBUF exactly while an interpreted control structure is open, and each level of
\* it can be closed (+LEVEL, -LEVEL, THROW).
THEOREM HereStaysInPlace == Spec => []HereInPlace
  <1>1. IInv => HereInPlace
    BY DEF IInv
  <1>2. QED
    BY <1>1, Invariance, PTL
-----------------------------------------------------------------------------
\* Steps that store in the dictionary, or at DP.
LEMMA StoresAtHere ==
  ASSUME IInv, slip = "none", Store(Code), Room(1), complevel > 0
  PROVE  mem' = mem
  <1>1. Store([kind |-> "code", val |-> 0])
    BY DEF Code
  <1>2. QED
    BY <1>1, Stored

\* While an interpreted control structure is open, no step writes a cell of the dictionary,
\* the stores of `then` through its marks included (+LEVEL, -LEVEL, control.fth).
THEOREM LeavesNoTrace == Spec => NoTrace
  <1>1. IInv /\ [Next]_vars => [complevel > 0 => mem' = mem]_vars
    <2> SUFFICES ASSUME IInv, Next, complevel > 0, mem' # mem PROVE FALSE
      BY DEF vars, dict
    <2>1. slip = "none" /\ complevel # 0
      BY SizesPositive DEF Next, IInv, TypeOK
    <2>2. CASE Comma \/ Semicolon \/ If
      <3>1. CASE Store(Code) /\ Room(1)
        BY <2>1, <3>1, StoresAtHere
      <3>2. QED
        BY <2>1, <2>2, <3>1 DEF Comma, Semicolon, If
    <2>3. CASE Create \/ Colon \/ ColonNoname \/ \E w \in Cells : Forget(w)
      BY <2>1, <2>3 DEF Create, Colon, ColonNoname, Forget, CanDefine
    <2>4. CASE \/ LeftBracket \/ RightBracket \/ NoMark \/ Refill \/ EndOfText
               \/ \E p \in Buffer : Evaluate(p)
               \/ CodeExit \/ Throw \/ ThrowToHost \/ Quit
      BY <2>4 DEF LeftBracket, RightBracket, NoMark, Refill, EndOfText,
                  Evaluate, CodeExit, Throw, ThrowToHost, Quit, dict
    <2>5. CASE Then \/ Unpaired
      <3>1. Mark \in Buffer
        BY <2>1, <2>5, MarkFacts DEF Then, Unpaired
      <3>2. PICK S : mem' = Written(S) /\ (S = {Mark} \/ S = {Mark, dp})
        BY <2>5 DEF Then, Unpaired, InnerLevel, LastLevel
      <3>3. dp \notin Cells /\ Mark \notin Cells
        BY <2>1, <3>1, Before, SizesPositive
      <3>4. mem' = [a \in Cells |-> mem[a]]
        <4>1. \A a \in Cells : a \notin S
          BY <3>2, <3>3
        <4>2. QED
          BY <3>2, <4>1 DEF Written
      <3>5. mem' = mem
        BY <2>1, <3>4, Before
      <3>6. QED
        BY <3>5
    <2>6. QED
      BY <2>2, <2>3, <2>4, <2>5 DEF Next
  <1>2. QED
    BY <1>1, Invariance, PTL DEF Spec, NoTrace
-----------------------------------------------------------------------------
(***************************************************************************)
(* The dictionary implements Vocabulary.                                   *)
(***************************************************************************)

\* What can be found is closed under the links ...
LEMMA FindableFacts ==
  /\ Findable \subseteq Words
  /\ thread \in Words => thread \in Findable
  /\ \A v \in Findable : Link(v) \in Words => Link(v) \in Findable
  BY DEF Findable

\* ... and is the least such set.
LEMMA FindableLeast ==
  \A S \in SUBSET Words :
    (thread \in Words => thread \in S) /\ (\A v \in S : Link(v) \in Words => Link(v) \in S)
      => Findable \subseteq S
  BY DEF Findable

LEMMA FindableFactsNext ==
  /\ Findable' \subseteq Words'
  /\ thread' \in Words' => thread' \in Findable'
  /\ \A v \in Findable' : Link(v)' \in Words' => Link(v)' \in Findable'
  BY DEF Findable

LEMMA FindableLeastNext ==
  \A S \in SUBSET Words' :
    (thread' \in Words' => thread' \in S) /\ (\A v \in S : Link(v)' \in Words' => Link(v)' \in S)
      => Findable' \subseteq S
  BY DEF Findable

\* The thread is the newest word, and no link skips a word that can be found.
LEMMA NotSkipped ==
  ASSUME IInv, slip = "none"
  PROVE  /\ \A v \in Findable : v \in Nat /\ v <= thread /\ thread \in Findable
         /\ \A u, v \in Findable : v < u => Link(u) \in Findable /\ v <= Link(u)
  <1>1. /\ thread \in {0} \union Words /\ thread \in Nat /\ 0 \notin Words
        /\ \A w \in Words : w \in Nat /\ Link(w) \in {0} \union Words /\ Link(w) < w
    <2>1. \A w \in Words : w \in Nat /\ w # 0
      BY WordCells, SizesPositive
    <2>2. QED
      BY <2>1, Before
  <1>2. \A v \in Findable : v \in Words /\ v <= thread
    <2> DEFINE S == {w \in Words : w <= thread}
    <2>1. \A w \in S : Link(w) \in Words => Link(w) \in S
      BY <1>1
    <2>2. S \in SUBSET Words /\ (thread \in Words => thread \in S)
      BY <1>1
    <2> HIDE DEF S
    <2>3. Findable \subseteq S
      BY <2>1, <2>2, FindableLeast
    <2>4. QED
      BY <2>3 DEF S
  <1>3. Findable # {} => thread \in Findable
    <2>1. thread = 0 => Findable = {}
      BY <1>1, <1>2
    <2>2. QED
      BY <1>1, <2>1, FindableFacts
  <1> DEFINE C == {v \in Findable : \A u \in Findable : v < u => Link(u) \in Words /\ v <= Link(u)}
  <1>4. thread \in Words => thread \in C
    BY <1>1, <1>2, FindableFacts
  <1>5. ASSUME NEW v \in C, Link(v) \in Words
        PROVE  Link(v) \in C
    <2> DEFINE m == Link(v)
               D == {x \in Findable : v <= x \/ x <= m}
    <2>1. v \in Findable /\ m \in Findable /\ v \in Nat /\ m \in Nat /\ m < v
      BY <1>1, <1>2, <1>5, FindableFacts
    <2>2. ASSUME NEW x \in D, Link(x) \in Words PROVE Link(x) \in D
      <3>1. x \in Nat /\ Link(x) \in Nat /\ Link(x) < x /\ Link(x) \in Findable
        BY <1>1, <1>2, <2>2, FindableFacts
      <3>2. CASE v < x
        BY <2>1, <3>1, <3>2
      <3>3. CASE x = v
        BY <2>1, <3>1, <3>3
      <3>4. CASE x <= m
        BY <2>1, <3>1, <3>4
      <3>5. QED
        BY <2>1, <3>1, <3>2, <3>3, <3>4
    <2>3. thread \in Words => thread \in D
      BY <1>1, <1>2, <2>1, FindableFacts
    <2>4. Findable \subseteq D
      <3>1. D \in SUBSET Words
        BY FindableFacts
      <3>2. QED
        BY <2>2, <2>3, <3>1, FindableLeast
    <2>5. ASSUME NEW u \in Findable, m < u PROVE Link(u) \in Words /\ m <= Link(u)
      <3>1. v <= u /\ u \in Nat
        BY <1>1, <1>2, <2>1, <2>4, <2>5
      <3>2. CASE u = v
        BY <1>5, <2>1, <3>2
      <3>3. CASE v < u
        <4>1. Link(u) \in Words /\ v <= Link(u)
          BY <3>3
        <4>2. QED
          BY <1>1, <2>1, <4>1
      <3>4. QED
        BY <2>1, <3>1, <3>2, <3>3
    <2>6. QED
      BY <2>1, <2>5
  <1>6. Findable \subseteq C
    <2>1. C \in SUBSET Words
      BY FindableFacts
    <2> HIDE DEF C
    <2>2. QED
      BY <1>4, <1>5, <2>1, FindableLeast
  <1>7. QED
    BY <1>1, <1>2, <1>3, <1>6, FindableFacts

\* More words, and the thread where it was: the same words are found.
LEMMA SameFindable ==
  ASSUME IInv, slip = "none", Words \subseteq Words', \A w \in Words : Link(w)' = Link(w),
         thread' = thread
  PROVE  Findable' = Findable
  <1>1. /\ thread \in {0} \union Words /\ 0 \notin Words'
        /\ \A w \in Words : Link(w) \in {0} \union Words
    BY Before, WordCellsNext, SizesPositive
  <1>2. Findable' \subseteq Findable
    <2>1. \A v \in Findable : Link(v)' \in Words' => Link(v)' \in Findable
      BY <1>1, FindableFacts
    <2>2. QED
      BY <1>1, <2>1, FindableFacts, FindableLeastNext
  <1>3. Findable \subseteq Findable'
    <2> DEFINE S == Findable' \intersect Words
    <2>1. \A v \in S : Link(v) \in Words => Link(v) \in S
      BY FindableFactsNext
    <2>2. thread \in Words => thread \in S
      BY FindableFactsNext
    <2>3. S \in SUBSET Words
      OBVIOUS
    <2> HIDE DEF S
    <2>4. Findable \subseteq S
      BY <2>1, <2>2, <2>3, FindableLeast
    <2>5. QED
      BY <2>4 DEF S
  <1>4. QED
    BY <1>2, <1>3

\* A word that is put before the thread is found with all the others.
LEMMA OneMoreFindable ==
  ASSUME IInv, slip = "none", Words \subseteq Words', \A w \in Words : Link(w)' = Link(w),
         NEW n \in Words', thread' = n, Link(n)' = thread
  PROVE  Findable' = Findable \union {n}
  <1>1. /\ thread \in {0} \union Words /\ 0 \notin Words'
        /\ \A w \in Words : Link(w) \in {0} \union Words
    BY Before, WordCellsNext, SizesPositive
  <1>2. Findable' \subseteq Findable \union {n}
    <2> DEFINE S == Findable \union {n}
    <2>1. ASSUME NEW v \in S, Link(v)' \in Words' PROVE Link(v)' \in S
      <3>1. CASE v = n
        <4>1. thread \in Words'
          BY <2>1, <3>1
        <4>2. QED
          BY <1>1, <3>1, <4>1, FindableFacts
      <3>2. CASE v \in Findable
        BY <1>1, <2>1, <3>2, FindableFacts
      <3>3. QED
        BY <3>1, <3>2
    <2>2. S \in SUBSET Words'
      BY FindableFacts
    <2>3. QED
      BY <2>1, <2>2, FindableLeastNext
  <1>3. Findable \union {n} \subseteq Findable'
    <2>1. n \in Findable'
      BY FindableFactsNext
    <2> DEFINE S == Findable' \intersect Words
    <2>2. \A v \in S : Link(v) \in Words => Link(v) \in S
      BY FindableFactsNext
    <2>3. thread \in Words => thread \in S
      <3>1. thread \in Words => Link(n)' \in Words'
        OBVIOUS
      <3>2. QED
        BY <2>1, <3>1, FindableFactsNext
    <2>4. Findable \subseteq S
      BY <2>2, <2>3, FindableLeast
    <2>5. QED
      BY <2>1, <2>4
  <1>4. QED
    BY <1>2, <1>3

\* Steps that define a word.
LEMMA CreateDefines ==
  ASSUME IInv, slip = "none", Create
  PROVE  Voc!Define
  <1>1. /\ complevel = 0 /\ Room(2) /\ Named(dp + 1) /\ def = "none" /\ def' = def /\ slip' = slip
    BY DEF Create, CanDefine
  <1>2. PICK n : n = dp + 1
    OBVIOUS
  <1>3. /\ Words' = Words \union {n} /\ Link(n)' = thread /\ thread' = n
        /\ \A w \in Words : w < dp /\ Link(w)' = Link(w)
    BY <1>1, <1>2, NamedOne
  <1>4. Findable' = Findable \union {n}
    BY <1>3, OneMoreFindable
  <1>5. \A v \in Findable : v < n
    BY <1>2, <1>3, Before, NotSkipped, FindableFacts
  <1>6. QED
    BY <1>1, <1>4, <1>5 DEF Voc!Define, Voc!Add

LEMMA ColonBegins ==
  ASSUME IInv, slip = "none", Colon
  PROVE  Voc!Begin
  <1>1. /\ complevel = 0 /\ Room(2) /\ Named(thread) /\ def = "none" /\ def' = "open" /\ slip' = slip
    BY DEF Colon, CanDefine
  <1>2. /\ Words \subseteq Words' /\ thread' = thread
        /\ \A w \in Words : Link(w)' = Link(w)
    BY <1>1, NamedOne
  <1>3. QED
    BY <1>1, <1>2, SameFindable DEF Voc!Begin

\* Steps that compile one cell, with the thread as it was.
LEMMA StoreFinds ==
  ASSUME IInv, slip = "none", Room(1), NEW kind \in {"cf", "code"},
         Store([kind |-> kind, val |-> 0]), thread' = thread
  PROVE  Findable' = Findable
  BY Stored, SameFindable

\* reveal: the definition that is open, or was abandoned, is found from now on; no other is.
LEMMA Reveals ==
  ASSUME IInv, slip = "none", Reveal, Words' = Words, \A w \in Words : Link(w)' = Link(w),
         slip' = IF thisdef /\ ~Header(lastp) THEN "word" ELSE slip
  PROVE  slip' = "word" \/ (slip' = slip /\ (Findable' = Findable \/ Voc!Add))
  <1>1. CASE thread' = thread
    BY <1>1, SameFindable
  <1>2. CASE thisdef /\ ~Header(lastp)
    BY <1>2
  <1>3. CASE thread' # thread /\ thisdef /\ Header(lastp)
    <2>1. PICK n : n = lastp
      OBVIOUS
    <2>2. n \in Words /\ thread' = n /\ slip' = slip
      BY <1>3, <2>1, SizesPositive DEF Words, Header, Reveal
    <2>3. (\A w \in Words : w <= n) /\ Link(n) = thread
      BY <1>3, <2>1, <2>2, Before DEF LastIsNewest
    <2>4. Findable' = Findable \union {n}
      BY <2>2, <2>3, OneMoreFindable
    <2>5. \A v \in Findable : v < n
      <3>1. thread < n
        BY <2>2, <2>3, Before
      <3>2. n \in Nat /\ thread \in Nat
        BY <2>2, Before, SizesPositive
      <3>3. QED
        BY <3>1, <3>2, NotSkipped
    <2>6. QED
      BY <2>2, <2>4, <2>5 DEF Voc!Add
  <1>4. QED
    BY <1>1, <1>2, <1>3 DEF Reveal

LEMMA ForgetForgets ==
  ASSUME IInv, slip = "none", NEW w \in Cells, Forget(w)
  PROVE  Voc!Forget
  <1> DEFINE F == {v \in Findable : v < w}
  <1>1. /\ w \in Words /\ Words' = {v \in Words : v < w}
        /\ \A v \in Words' : Link(v)' = Link(v)
        /\ thread' \in {0} \union Words' /\ \A v \in Findable : v < w => v <= thread'
        /\ thread' \in {0} \union Findable
    BY Forgotten
  <1>2. w \in Findable /\ def = "none" /\ def' = def /\ slip' = slip
    BY DEF Forget, CanDefine
  <1>3. /\ 0 \notin Words /\ 0 \notin Words' /\ w \in Nat
        /\ \A v \in Words : v \in Nat /\ Link(v) \in {0} \union Words /\ Link(v) < v
    <2>1. \A v \in Words : v \in Nat /\ v # 0
      BY WordCells, SizesPositive
    <2>2. QED
      BY <1>1, <2>1, Before
  <1>4. Findable' \subseteq F
    <2>1. F \in SUBSET Words'
      BY <1>1, FindableFacts
    <2>2. thread' \in Words' => thread' \in F
      BY <1>1, <1>3
    <2>3. ASSUME NEW v \in F, Link(v)' \in Words' PROVE Link(v)' \in F
      BY <1>1, <1>3, <2>1, <2>3, FindableFacts
    <2> HIDE DEF F
    <2>4. QED
      BY <2>1, <2>2, <2>3, FindableLeastNext
  <1>5. F \subseteq Findable'
    <2> DEFINE S == {v \in Findable : w <= v} \union (Findable' \intersect Findable)
    <2>1. S \in SUBSET Words
      BY FindableFacts
    <2>2. thread \in Words => thread \in S
      BY <1>2, NotSkipped
    <2>3. ASSUME NEW v \in S, Link(v) \in Words PROVE Link(v) \in S
      <3>1. v \in Findable /\ Link(v) \in Findable /\ v \in Nat /\ Link(v) \in Nat
        BY <1>3, <2>3, FindableFacts
      <3>2. CASE w < v
        BY <1>2, <3>1, <3>2, NotSkipped
      <3>3. CASE v = w
        <4> DEFINE m == Link(w)
        <4>1. m < w /\ m <= thread' /\ m # 0 /\ m \in Nat
          <5>1. m \in Findable /\ m \in Words /\ m < w
            BY <1>1, <1>3, <2>3, <3>1, <3>3
          <5> HIDE DEF m
          <5>2. QED
            BY <1>1, <1>3, <5>1
        <4>2. thread' \in Findable /\ thread' \in Words' /\ thread' < w /\ thread' \in Nat
          <5> HIDE DEF m
          <5>1. thread' # 0
            BY <1>1, <1>3, <4>1
          <5>2. QED
            BY <1>1, <1>3, <5>1
        <4>3. thread' <= Link(w)
          BY <1>2, <4>2, NotSkipped
        <4>4. thread' = Link(w)
          BY <3>1, <3>3, <4>1, <4>2, <4>3
        <4>5. QED
          BY <3>1, <3>3, <4>2, <4>4, FindableFactsNext
      <3>4. CASE v < w
        <4>1. v \in Findable' /\ v \in Words'
          BY <1>1, <1>3, <2>3, <3>1, <3>4, FindableFacts
        <4>2. Link(v) < w /\ Link(v) \in Words' /\ Link(v)' = Link(v)
          BY <1>1, <1>3, <2>3, <3>1, <3>4, <4>1
        <4>3. QED
          BY <3>1, <4>1, <4>2, FindableFactsNext
      <3>5. QED
        BY <1>3, <3>1, <3>2, <3>3, <3>4
    <2> HIDE DEF S
    <2>4. Findable \subseteq S
      BY <2>1, <2>2, <2>3, FindableLeast
    <2>5. ASSUME NEW v \in Findable, v < w PROVE v \in Findable'
      <3>1. v \in Nat /\ ~(w <= v)
        BY <1>3, <2>5, FindableFacts
      <3>2. QED
        BY <2>4, <3>1 DEF S
    <2>6. QED
      BY <2>5
  <1>6. QED
    BY <1>2, <1>4, <1>5 DEF Voc!Forget

\* Steps after which the same words are found.
LEMMA NothingNew ==
  ASSUME IInv, slip = "none", Findable' = Findable, def' = def,
         slip' \notin {"word", "mark"}
  PROVE  UNCHANGED Voc!vars
  BY DEF Voc!vars

LEMMA StepImplements == IInv /\ [Next]_vars => [Voc!Next]_Voc!vars
  <1> SUFFICES ASSUME IInv, [Next]_vars PROVE [Voc!Next]_Voc!vars
    OBVIOUS
  <1>1. CASE UNCHANGED vars
    <2>1. UNCHANGED <<mem, thread, def, slip>>
      BY <1>1 DEF vars, dict
    <2>2. QED
      BY <2>1 DEF Voc!vars, Findable, Words, Header, Link
  <1>2. CASE Next
    <2>1. slip = "none"
      BY <1>2 DEF Next
    <2>2. ASSUME mem' = mem, thread' = thread PROVE Findable' = Findable
      BY <2>1, <2>2, SameMem, SameFindable
    <2>3. CASE Create
      BY <2>1, <2>3, CreateDefines DEF Voc!Next
    <2>4. CASE Colon
      BY <2>1, <2>4, ColonBegins DEF Voc!Next
    <2>5. CASE ColonNoname
      <3>1. /\ def = "none" /\ def' = "open" /\ slip' = slip /\ Room(1) /\ thread' = thread
            /\ Store([kind |-> "cf", val |-> 0])
        BY <2>5 DEF ColonNoname, CanDefine
      <3>2. Findable' = Findable
        BY <2>1, <3>1, StoreFinds
      <3>3. QED
        BY <3>1, <3>2 DEF Voc!Begin, Voc!Next
    <2>6. CASE \E w \in Cells : Forget(w)
      BY <2>1, <2>6, ForgetForgets DEF Voc!Next
    <2>7. CASE Comma \/ If
      <3>1. def' = def /\ slip' = slip /\ thread' = thread
        BY <2>7 DEF Comma, If, level, control
      <3>2. CASE Store(Code) /\ Room(1)
        <4>1. Findable' = Findable
          BY <2>1, <3>1, <3>2, StoreFinds DEF Code
        <4>2. QED
          BY <2>1, <3>1, <4>1, NothingNew
      <3>3. CASE mem' = mem
        BY <2>1, <2>2, <3>1, <3>3, NothingNew
      <3>4. QED
        BY <2>7, <3>2, <3>3 DEF Comma, If
    <2>8. CASE Semicolon
      <3>1. /\ def' = "none" /\ Room(1) /\ Store(Code) /\ Reveal
            /\ slip' = IF thisdef /\ ~Header(lastp) THEN "word" ELSE slip
        BY <2>8 DEF Semicolon
      <3>2. Words' = Words /\ \A w \in Words : Link(w)' = Link(w)
        BY <2>1, <3>1, Stored DEF Code
      <3>3. slip' = "word" \/ (slip' = slip /\ (Findable' = Findable \/ Voc!Add))
        BY <2>1, <3>1, <3>2, Reveals
      <3>4. def \in {"none", "open"}
        BY DEF IInv, TypeOK
      <3>5. QED
        BY <2>1, <3>1, <3>3, <3>4 DEF Voc!Next, Voc!End, Voc!Define, Voc!Damage, Voc!vars
    <2>9. CASE ThrowToHost
      <3>1. /\ def' = "none" /\ mem' = mem /\ Reveal
            /\ slip' = IF thisdef /\ ~Header(lastp) THEN "word" ELSE slip
        BY <2>9 DEF ThrowToHost, Abandoned
      <3>2. slip' = "word" \/ (slip' = slip /\ (Findable' = Findable \/ Voc!Add))
        BY <2>1, <3>1, SameMem, Reveals
      <3>3. def \in {"none", "open"}
        BY DEF IInv, TypeOK
      <3>4. QED
        BY <2>1, <3>1, <3>2, <3>3 DEF Voc!Next, Voc!End, Voc!Define, Voc!Damage, Voc!vars
    <2>10. CASE Throw \/ Quit
      <3>1. /\ def' = "none" /\ mem' = mem /\ thread' = thread
            /\ slip' \notin {"word", "mark"}
        BY <2>1, <2>10 DEF Throw, Quit, Abandoned, dict
      <3>2. Findable' = Findable
        BY <2>2, <3>1
      <3>3. def \in {"none", "open"}
        BY DEF IInv, TypeOK
      <3>4. QED
        BY <2>1, <3>1, <3>2, <3>3 DEF Voc!Next, Voc!End, Voc!vars
    <2>11. CASE \/ LeftBracket \/ RightBracket \/ Refill \/ EndOfText
                \/ CodeExit \/ \E p \in Buffer : Evaluate(p)
      <3>1. mem' = mem /\ thread' = thread /\ def' = def /\ slip' = slip
        BY <2>11 DEF LeftBracket, RightBracket, Refill, EndOfText, CodeExit, Evaluate, dict, level, control
      <3>2. QED
        BY <2>1, <2>2, <3>1, NothingNew
    <2>12. CASE (Then \/ Unpaired \/ NoMark) /\ slip' = "mark"
      BY <2>12 DEF Voc!Next, Voc!Damage
    <2>13. CASE (Then \/ Unpaired) /\ slip' # "mark"
      <3>1. /\ marks # <<>> /\ thread' = thread /\ (def' = def \/ def' = "none")
            /\ slip' \notin {"word", "mark"} /\ ~Astray
        BY <2>1, <2>13 DEF Then, Unpaired, Abandoned
      <3>2. PICK S : /\ mem' = Written(S)
                     /\ \/ S = {Mark}
                        \/ S = {Mark, dp} /\ complevel > 0 /\ Room(1)
        BY <2>13 DEF Then, Unpaired, InnerLevel, LastLevel
      <3>3. complevel > 0 /\ Room(1) => dp \in Buffer
        <4>1. complevel > 0 => dp \in Nat /\ dp >= COMPBUF
          BY <2>1, Before
        <4>2. Room(1) => dp + 1 - 1 \in IF dp \in Buffer THEN Buffer ELSE Cells
          BY DEF Room
        <4>3. QED
          BY <4>1, <4>2, SizesPositive
      <3>4. Words' = Words /\ \A w \in Words : Link(w)' = Link(w)
        BY <2>1, <3>1, <3>2, <3>3, ThenFacts
      <3>5. Findable' = Findable
        BY <2>1, <3>1, <3>4, SameFindable
      <3>6. def \in {"none", "open"}
        BY DEF IInv, TypeOK
      <3>7. QED
        BY <2>1, <3>1, <3>5, <3>6 DEF Voc!Next, Voc!End, Voc!vars
    <2>14. CASE Then \/ Unpaired \/ NoMark
      <3>1. NoMark => slip' = "mark"
        BY DEF NoMark
      <3>2. QED
        BY <2>12, <2>13, <2>14, <3>1
    <2>15. QED
      BY <1>2, <2>3, <2>4, <2>5, <2>6, <2>7, <2>8, <2>9, <2>10, <2>11, <2>14 DEF Next
  <1>3. QED
    BY <1>1, <1>2

LEMMA InitImplements == Init => Voc!Init
  <1> SUFFICES ASSUME Init PROVE Voc!Init
    OBVIOUS
  <1>1. \A a \in Cells : mem[a].kind = "free"
    BY DEF Init, Free
  <1>2. Words = {}
    BY <1>1, WordCells
  <1>3. Findable = {} /\ def = "none" /\ slip = "none"
    BY <1>2, FindableFacts DEF Init
  <1>4. QED
    BY <1>3 DEF Voc!Init

\* The dictionary is the vocabulary that its users take it for: a word can be found from the
\* end of its definition until it is forgotten, whatever else is defined, abandoned,
\* revealed late or forgotten (header, hide, reveal, trim).
THEOREM Refinement == Spec => ImplementsVocabulary
  <1>1. QED
    BY InitImplements, StepImplements, Invariance, PTL DEF Spec, Voc!Spec, ImplementsVocabulary
=============================================================================
