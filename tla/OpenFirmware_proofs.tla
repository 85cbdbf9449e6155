------------------------- MODULE OpenFirmware_proofs -------------------------
(***************************************************************************)
(* The two components of the Open Firmware layer, in two parts.            *)
(*                                                                         *)
(* Chains of instances: whatever methods do, however deep they call each   *)
(* other and whatever fails, no word is left with the address of an        *)
(* instance that is gone, this layer loses none, and it destroys none      *)
(* before its `close` has been called, but in the cases that the           *)
(* properties name.  What holds the proof together is `ChainsInv`: every   *)
(* word of the layer that waits has a segment of a chain to close, which   *)
(* nothing below it and no ihandle shares.                                 *)
(*                                                                         *)
(* The deblocker: a program over it finds a device of bytes, for blocks,   *)
(* buffers, devices and transfers of any size.                             *)
(***************************************************************************)
EXTENDS Deblocker, Instances, SequenceTheorems, FiniteSetTheorems, TLAPS

USE InstancesAssumption

\* The chain of i in any heap p of parents, and what is closed of it before `end`.
Heap(p) == p \in [Ihandles -> Selves]
ParentIn(p, i) == p[i]
UpwardIn(p, S) == \A j \in S : ParentIn(p, j) \in S \union {None}
ChainIn(p, i) == {j \in Ihandles : \A S \in SUBSET Ihandles :
                                     i \in S \union {None} /\ UpwardIn(p, S) => j \in S}
Span(p, i, end) == ChainIn(p, i) \ ChainIn(p, end)

\* The words of the layer that wait in a stack c, or run, and the instance that each is at:
\* the one whose method it has called, or s, which is my-self.
LayerOps == {"package", "path", "closing"}
At(c, n) == c[n].at
Waits(c, n) == c[n].op \in LayerOps
SelfAt(c, s, n) == IF n = Len(c) THEN s ELSE At(c, n + 1)
Segment(p, c, s, n) == Span(p, SelfAt(c, s, n), At(c, n))

\* The ends of the chains that are open and that no word is at, and where each ends.
Kept == held \union (leftOpen \X {None})

\* What stands on what.
Fits(g, f) ==
  /\ f.op # "program" /\ f.saved \in {g.at, None}
  /\ f.op = "method" => g.op \in Code /\ f.at # None /\ f.saved = g.at
  /\ f.op \in LayerOps => g.op \in Code /\ f.saved = g.at
  /\ f.op = "package" => f.at = g.at
  /\ f.op = "path" => f.at = None /\ f.goal \in Goals /\ f.stage \in {"select", "last", "close"}
  /\ f.op = "closing" => f.at \in {g.at, None}
  /\ f.op \in Caught => g.op \in LayerOps /\ f.at \notin {None, g.at}
  /\ f.op = "open" => g.op = "package" \/ (g.op = "path" /\ g.stage # "close")
  /\ f.op = "apply" => g.op = "path" /\ g.stage = "select"
  /\ f.op = "close" => g.op = "closing" \/ (g.op = "path" /\ g.stage = "close")
Stands(f) == f.op # "package" /\ (f.op = "path" => f.stage # "last")

Piled(c) ==
  /\ c \in Seq(Frame) /\ Len(c) > 0 /\ c[1] = Method("program", None)
  /\ \A n \in 2..Len(c) : Fits(c[n - 1], c[n])
Stacked(c, s) ==
  /\ Piled(c)
  /\ Stands(c[Len(c)])
  /\ c[Len(c)].op \in Code => s = c[Len(c)].at

\* The parents of the living are alive, and no instance is above itself.
Tree(p, lv) ==
  /\ \A i \in lv : ParentIn(p, i) \in lv \union {None} /\ i \notin ChainIn(p, ParentIn(p, i))
  /\ \A i \in Ihandles \ lv : ParentIn(p, i) = None

From(k) == k[1]
To(k) == k[2]

\* An end of a chain has what it ends at above it.
EndsAbove(p, k) == To(k) \in (ChainIn(p, From(k)) \ {From(k)}) \union {None}

AllIn(c, S) == \A n \in 1..Len(c) : At(c, n) \in S \union {None}
Alive(p, lv, c, s, K) ==
  /\ s \in lv \union {None}
  /\ AllIn(c, lv)
  /\ \A k \in K : From(k) \in lv /\ To(k) \in lv \union {None} /\ EndsAbove(p, k)

\* What the n-th word is to close is not on the chain of a word or of code below it, nor kept.
Clear(p, c, s, K, n) ==
  /\ At(c, n) \in ChainIn(p, SelfAt(c, s, n)) \union {None}
  /\ \A m \in 1..n : ChainIn(p, At(c, m)) \intersect Segment(p, c, s, n) = {}
  /\ \A k \in K : Span(p, From(k), To(k)) \intersect Segment(p, c, s, n) = {}
Apart(p, c, s, K) ==
  /\ \A n \in 1..Len(c) : Waits(c, n) => Clear(p, c, s, K, n)
  /\ \A h, k \in K : h # k => Span(p, From(h), To(h)) \intersect Span(p, From(k), To(k)) = {}

\* Every instance is some word's to close, or kept.
OnWord(p, c, s, i) == \E n \in 1..Len(c) : Waits(c, n) /\ i \in Segment(p, c, s, n)
IsKept(p, K, i) == \E k \in K : i \in Span(p, From(k), To(k))
Covered(p, lv, c, s, K) == \A i \in lv : OnWord(p, c, s, i) \/ IsKept(p, K, i)

\* A package that nothing was interposed on is directly above my-self of its open-package.
Single(p, c, s) == \A n \in 1..Len(c) :
  c[n].op = "package" /\ c[n].stage # "interposed" =>
    SelfAt(c, s, n) # None /\ ParentIn(p, SelfAt(c, s, n)) = At(c, n)

\* What this layer calls a method of has not been opened, or is being closed.
NotYet(c, op) == \A n \in 1..Len(c) : c[n].op \in Caught => At(c, n) \notin op

Strung(p, lv, c, s, K) ==
  Tree(p, lv) /\ Alive(p, lv, c, s, K) /\ Apart(p, c, s, K) /\ Covered(p, lv, c, s, K)

Heaped ==
  /\ Strung(parent, live, calls, mySelf, Kept)
  /\ Single(parent, calls, mySelf) /\ NotYet(calls, opened)
  /\ opened \subseteq live /\ \A i \in leftOpen : <<i, None>> \notin held

Typed ==
  /\ mySelf \in Selves /\ live \subseteq Ihandles /\ opened \subseteq Ihandles
  /\ abandoned \subseteq Ihandles \ live /\ parent \in [Ihandles -> Selves]
  /\ calls \in Seq(Frame)
  /\ held \subseteq Ihandles \X Selves /\ leftOpen \subseteq Ihandles
  /\ interposer \in BOOLEAN /\ forPackage \in BOOLEAN /\ astray \in BOOLEAN

ChainsInv == Typed /\ (~astray => Stacked(calls, mySelf) /\ Heaped)

-----------------------------------------------------------------------------
(***************************************************************************)
(* Chains in a heap.                                                       *)
(***************************************************************************)

LEMMA ChainIs ==
  /\ \A i : Chain(i) = ChainIn(parent, i)
  /\ \A i : Chain(i)' = ChainIn(parent', i)
  /\ \A i, e : Closed(i, e) = Span(parent, i, e)
BY DEF Chain, Upward, ChainIn, UpwardIn, ParentIn, Closed, Span

LEMMA ChainLeast ==
  ASSUME NEW p, NEW i, NEW S \in SUBSET Ihandles, i \in S \union {None}, UpwardIn(p, S)
  PROVE  ChainIn(p, i) \subseteq S
BY DEF ChainIn

LEMMA ChainBasics ==
  ASSUME NEW p, Heap(p)
  PROVE  /\ ChainIn(p, None) = {}
         /\ \A i : ChainIn(p, i) \in SUBSET Ihandles /\ UpwardIn(p, ChainIn(p, i))
         /\ \A i \in Ihandles : i \in ChainIn(p, i)
         /\ \A i : \A j \in ChainIn(p, i) : ChainIn(p, j) \subseteq ChainIn(p, i)
<1>1. ChainIn(p, None) = {}
  <2>1. UpwardIn(p, {})
    BY DEF UpwardIn
  <2> QED
    BY <2>1, ChainLeast
<1>2. \A i : ChainIn(p, i) \in SUBSET Ihandles
  BY DEF ChainIn
<1>3. ASSUME NEW i
      PROVE  UpwardIn(p, ChainIn(p, i))
  <2> SUFFICES ASSUME NEW j \in ChainIn(p, i), ParentIn(p, j) # None
               PROVE  ParentIn(p, j) \in ChainIn(p, i)
    BY DEF UpwardIn
  <2>1. ParentIn(p, j) \in Ihandles
    BY DEF ChainIn, Selves, Heap, ParentIn
  <2>2. ASSUME NEW S \in SUBSET Ihandles, i \in S \union {None}, UpwardIn(p, S)
        PROVE  ParentIn(p, j) \in S
    BY <2>2 DEF ChainIn, UpwardIn
  <2> QED
    BY <2>1, <2>2 DEF ChainIn
<1>4. ASSUME NEW i \in Ihandles
      PROVE  i \in ChainIn(p, i)
  BY DEF ChainIn
<1>5. ASSUME NEW i, NEW j \in ChainIn(p, i)
      PROVE  ChainIn(p, j) \subseteq ChainIn(p, i)
  BY <1>2, <1>3, ChainLeast
<1> QED
  BY <1>1, <1>2, <1>3, <1>4, <1>5

LEMMA ChainStep ==
  ASSUME NEW p, Heap(p), NEW i \in Ihandles
  PROVE  ChainIn(p, i) = {i} \union ChainIn(p, ParentIn(p, i))
<1> DEFINE C == {i} \union ChainIn(p, ParentIn(p, i))
<1>1. C \in SUBSET Ihandles
  BY ChainBasics
<1>2. ParentIn(p, i) \in C \union {None}
  BY ChainBasics DEF Selves, Heap, ParentIn
<1>3. UpwardIn(p, C)
  BY <1>2, ChainBasics DEF UpwardIn
<1>4. ChainIn(p, i) \subseteq C
  BY <1>1, <1>3, ChainLeast
<1>5. ChainIn(p, ParentIn(p, i)) \subseteq ChainIn(p, i)
  <2>1. ParentIn(p, i) \in ChainIn(p, i) \union {None}
    BY ChainBasics DEF UpwardIn
  <2> QED
    BY <2>1, ChainBasics
<1> QED
  BY <1>4, <1>5, ChainBasics

\* Heaps that have the same parents in a set that goes up to the end have the same chains there.
LEMMA SameChains ==
  ASSUME NEW p, Heap(p), NEW q, Heap(q),
         NEW S \in SUBSET Ihandles, UpwardIn(p, S), \A j \in S : ParentIn(q, j) = ParentIn(p, j)
  PROVE  \A i \in S \union {None} : ChainIn(q, i) = ChainIn(p, i)
<1> TAKE i \in S \union {None}
<1>1. UpwardIn(q, S)
  BY DEF UpwardIn
<1>2. ChainIn(p, i) \subseteq S /\ ChainIn(q, i) \subseteq S
  BY <1>1, ChainLeast
<1>3. UpwardIn(q, ChainIn(p, i)) /\ UpwardIn(p, ChainIn(q, i))
  BY <1>2, ChainBasics DEF UpwardIn
<1>4. i \in ChainIn(p, i) \union {None} /\ i \in ChainIn(q, i) \union {None}
  BY ChainBasics
<1>5. ChainIn(p, i) \in SUBSET Ihandles /\ ChainIn(q, i) \in SUBSET Ihandles
  BY ChainBasics
<1>6. ChainIn(q, i) \subseteq ChainIn(p, i)
  BY <1>3, <1>4, <1>5, ChainLeast
<1>7. ChainIn(p, i) \subseteq ChainIn(q, i)
  BY <1>3, <1>4, <1>5, ChainLeast
<1> QED
  BY <1>6, <1>7

LEMMA ChainAlive ==
  ASSUME NEW p, Heap(p), NEW lv \in SUBSET Ihandles, Tree(p, lv),
         NEW i \in lv \union {None}
  PROVE  ChainIn(p, i) \subseteq lv
BY ChainLeast DEF Tree, UpwardIn

\* Of two instances on one chain, one is above the other.
LEMMA Linear ==
  ASSUME NEW p, Heap(p), NEW i \in Ihandles,
         NEW e \in ChainIn(p, i), NEW j \in ChainIn(p, i)
  PROVE  e \in ChainIn(p, j) \/ j \in ChainIn(p, e)
<1> DEFINE S == {k \in Ihandles : e \in ChainIn(p, k)} \union ChainIn(p, e)
<1>1. S \in SUBSET Ihandles /\ i \in S
  BY ChainBasics
<1>2. ASSUME NEW k \in Ihandles, e \in ChainIn(p, k), ParentIn(p, k) # None
      PROVE  ParentIn(p, k) \in S
  <2>1. ParentIn(p, k) \in Ihandles
    BY <1>2 DEF Selves, Heap, ParentIn
  <2>2. e = k \/ e \in ChainIn(p, ParentIn(p, k))
    BY <1>2, ChainStep
  <2>3. CASE e = k
    <3>1. ParentIn(p, e) \in ChainIn(p, e)
      BY <2>3, <1>2, ChainBasics DEF UpwardIn
    <3> QED
      BY <2>3, <3>1
  <2> QED
    BY <2>1, <2>2, <2>3
<1>3. UpwardIn(p, S)
  BY <1>2, ChainBasics DEF UpwardIn
<1> QED
  BY <1>1, <1>3, ChainLeast

\* What a chain has on the way to one of its members.
LEMMA SpanFacts ==
  ASSUME NEW p, Heap(p), NEW lv \in SUBSET Ihandles, Tree(p, lv),
         NEW i \in lv, NEW e \in (ChainIn(p, i) \ {i}) \union {None}
  PROVE  /\ e \in ChainIn(p, ParentIn(p, i)) \union {None}
         /\ Span(p, i, e) = {i} \union Span(p, ParentIn(p, i), e)
         /\ i \notin Span(p, ParentIn(p, i), e)
<1>1. ChainIn(p, i) = {i} \union ChainIn(p, ParentIn(p, i)) /\ i \notin ChainIn(p, ParentIn(p, i))
  BY ChainStep DEF Tree
<1>2. e \in ChainIn(p, ParentIn(p, i)) \union {None}
  BY <1>1
<1>3. ChainIn(p, e) \subseteq ChainIn(p, ParentIn(p, i))
  BY <1>2, ChainBasics
<1> QED
  BY <1>1, <1>2, <1>3 DEF Span

LEMMA EmptySpans ==
  ASSUME NEW p, Heap(p)
  PROVE  \A e : Span(p, None, e) = {} /\ Span(p, e, e) = {}
BY ChainBasics DEF Span

-----------------------------------------------------------------------------
(***************************************************************************)
(* An instance more, and an instance less.                                 *)
(***************************************************************************)

\* q is p, but for the parent of i.
Reparented(p, q, i, s) ==
  Heap(q) /\ ParentIn(q, i) = s /\ \A j \in Ihandles \ {i} : ParentIn(q, j) = ParentIn(p, j)

AlikeOn(p, q, S) ==
  /\ \A j \in S \union {None} : ChainIn(q, j) = ChainIn(p, j)
  /\ \A j \in S : ParentIn(q, j) = ParentIn(p, j)

LEMMA GrownTree ==
  ASSUME NEW p, Heap(p), NEW lv \in SUBSET Ihandles, Tree(p, lv),
         NEW i \in Ihandles \ lv, NEW s \in lv \union {None},
         NEW q, Reparented(p, q, i, s), NEW lw, lw = lv \union {i}
  PROVE  /\ Tree(q, lw)
         /\ AlikeOn(p, q, lv)
         /\ ChainIn(q, i) = {i} \union ChainIn(p, s) /\ i \notin ChainIn(p, s)
<1> Heap(q) /\ ParentIn(q, i) = s /\ \A j \in Ihandles \ {i} : ParentIn(q, j) = ParentIn(p, j)
  BY DEF Reparented
<1>1. \A j \in lv : ParentIn(q, j) = ParentIn(p, j)
  OBVIOUS
<1>2. UpwardIn(p, lv)
  BY DEF Tree, UpwardIn
<1>3. \A j \in lv \union {None} : ChainIn(q, j) = ChainIn(p, j)
  BY <1>1, <1>2, SameChains
<1>4. ChainIn(q, i) = {i} \union ChainIn(p, s)
  BY <1>1, <1>3, ChainStep
<1>5. i \notin ChainIn(p, s)
  BY ChainAlive
<1>6. Tree(q, lw)
  <2>1. ASSUME NEW j \in lv
        PROVE  ParentIn(q, j) \in lv \union {None} /\ j \notin ChainIn(q, ParentIn(q, j))
    BY <2>1, <1>1, <1>3 DEF Tree
  <2>2. ParentIn(q, i) \in lv \union {None} /\ i \notin ChainIn(q, ParentIn(q, i))
    BY <1>1, <1>3, <1>5
  <2>3. \A j \in Ihandles \ (lv \union {i}) : ParentIn(q, j) = None
    BY <1>1 DEF Tree
  <2> QED
    BY <2>1, <2>2, <2>3 DEF Tree
<1> QED
  BY <1>1, <1>3, <1>4, <1>5, <1>6 DEF AlikeOn

\* Those that have one of S on their chain, and a heap q that is p without D.
Felled(p, lv, S) == {j \in lv : ChainIn(p, j) \intersect S # {}}
Pruned(p, q, D) ==
  /\ Heap(q) /\ \A j \in Ihandles \ D : ParentIn(q, j) = ParentIn(p, j)
  /\ \A j \in Ihandles : j \in D => ParentIn(q, j) = None

LEMMA FelledFacts ==
  ASSUME NEW p, Heap(p), NEW lv \in SUBSET Ihandles, Tree(p, lv), NEW S, NEW D,
         D = Felled(p, lv, S)
  PROVE  /\ \A j \in lv : j \in S => j \in D
         /\ \A j \in lv \union {None} : j \notin D => ChainIn(p, j) \intersect D = {}
<1>1. ASSUME NEW j \in lv, j \in S
      PROVE  j \in D
  BY <1>1, ChainBasics DEF Felled
<1>2. ASSUME NEW j \in lv \union {None}, j \notin D, NEW i \in ChainIn(p, j), i \in D
      PROVE  FALSE
  <2>1. ChainIn(p, i) \subseteq ChainIn(p, j) /\ j \in lv
    BY <1>2, ChainBasics
  <2> QED
    BY <1>2, <2>1 DEF Felled
<1> QED
  BY <1>1, <1>2

LEMMA PrunedTree ==
  ASSUME NEW p, Heap(p), NEW lv \in SUBSET Ihandles, Tree(p, lv), NEW S, NEW D,
         D = Felled(p, lv, S), NEW q, Pruned(p, q, D), NEW lw, lw = lv \ D
  PROVE  /\ Tree(q, lw)
         /\ AlikeOn(p, q, lw)
<1> Heap(q) /\ D \subseteq lv
  BY DEF Pruned, Felled
<1>1. \A j \in lw : ParentIn(q, j) = ParentIn(p, j)
  BY DEF Pruned
<1>2. ASSUME NEW j \in lw
      PROVE  ParentIn(p, j) \in lw \union {None} /\ j \notin ChainIn(p, ParentIn(p, j))
  <2>1. ParentIn(p, j) \in lv \union {None} /\ j \notin ChainIn(p, ParentIn(p, j))
    BY DEF Tree
  <2>2. j \in ChainIn(p, j) /\ ParentIn(p, j) \in ChainIn(p, j) \union {None}
    BY ChainBasics DEF UpwardIn
  <2>3. ChainIn(p, j) \intersect D = {}
    BY FelledFacts
  <2> QED
    BY <2>1, <2>2, <2>3
<1>3. UpwardIn(p, lw)
  BY <1>2 DEF UpwardIn
<1>4. lw \in SUBSET Ihandles
  OBVIOUS
<1>5. \A j \in lw \union {None} : ChainIn(q, j) = ChainIn(p, j)
  BY <1>1, <1>3, <1>4, SameChains
<1>6. Tree(q, lw)
  <2>1. ASSUME NEW j \in lw
        PROVE  ParentIn(q, j) \in lw \union {None} /\ j \notin ChainIn(q, ParentIn(q, j))
    BY <1>1, <1>2, <1>5
  <2>2. \A j \in Ihandles \ lw : ParentIn(q, j) = None
    BY DEF Tree, Pruned
  <2> QED
    BY <2>1, <2>2 DEF Tree
<1> QED
  BY <1>1, <1>5, <1>6 DEF AlikeOn

-----------------------------------------------------------------------------
(***************************************************************************)
(* Segments of two stacks c and d, with my-self s and t, in one heap.      *)
(***************************************************************************)

\* The n-th word of d waits as that of c does.
Same(c, s, d, t, n) ==
  /\ n \in 1..Len(c) /\ d[n].op = c[n].op
  /\ d[n].op = "package" => d[n].stage = c[n].stage
  /\ SelfAt(d, t, n) = SelfAt(c, s, n) /\ \A m \in 1..n : At(d, m) = At(c, m)

\* All words of d but the one at w are words of c, and the other way around.
Came(c, s, d, t, w) == \A n \in 1..Len(d) : Waits(d, n) /\ n # w => Same(c, s, d, t, n)
Stay(c, s, d, t, w) ==
  \A n \in 1..Len(c) : Waits(c, n) /\ n # w => n \in 1..Len(d) /\ Same(c, s, d, t, n)

LastWord(c, w) == w \in 1..Len(c) /\ Waits(c, w) /\ \A n \in 1..Len(c) : Waits(c, n) => n <= w

Agree(c, d, n) == \A m \in 1..n : d[m] = c[m]

LEMMA Common ==
  ASSUME NEW c, NEW d, NEW s, NEW t, Len(c) \in Nat, Len(d) \in Nat,
         NEW l \in Nat, l <= Len(c), l <= Len(d), Agree(c, d, l), NEW n \in 1..l - 1
  PROVE  Same(c, s, d, t, n)
<1>1. n \in 1..Len(c) /\ n # Len(c) /\ n # Len(d) /\ n \in 1..l /\ n + 1 \in 1..l /\ 1..n \subseteq 1..l
  OBVIOUS
<1>2. d[n] = c[n] /\ d[n + 1] = c[n + 1] /\ \A m \in 1..n : d[m] = c[m]
  BY <1>1 DEF Agree
<1> QED
  BY <1>1, <1>2 DEF Same, SelfAt, At

LEMMA SameSegment ==
  ASSUME NEW c, NEW d, NEW s, NEW t, NEW n \in Nat, Same(c, s, d, t, n)
  PROVE  /\ \A p : Segment(p, d, t, n) = Segment(p, c, s, n)
         /\ Waits(d, n) => Waits(c, n)
         /\ Waits(c, n) => Waits(d, n)
<1>1. n \in 1..n /\ n \in 1..Len(c)
  BY DEF Same
<1>2. At(d, n) = At(c, n) /\ SelfAt(d, t, n) = SelfAt(c, s, n) /\ d[n].op = c[n].op
  BY <1>1 DEF Same
<1> QED
  BY <1>2 DEF Segment, Waits

LEMMA SameClear ==
  ASSUME NEW p, NEW c, NEW d, NEW s, NEW t, NEW K, NEW J \in SUBSET K, NEW n \in Nat,
         Same(c, s, d, t, n), Clear(p, c, s, K, n)
  PROVE  Clear(p, d, t, J, n)
<1>1. Segment(p, d, t, n) = Segment(p, c, s, n)
  BY SameSegment
<1>2. n \in 1..n /\ SelfAt(d, t, n) = SelfAt(c, s, n) /\ \A m \in 1..n : At(d, m) = At(c, m)
  BY DEF Same
<1> QED
  BY <1>1, <1>2 DEF Clear

LEMMA CameClear ==
  ASSUME NEW p, NEW c, NEW d, NEW s, NEW t, NEW K, NEW J \in SUBSET K, NEW w, Apart(p, c, s, K),
         Len(d) \in Nat, Came(c, s, d, t, w), NEW n \in 1..Len(d), Waits(d, n), n # w
  PROVE  Clear(p, d, t, J, n) /\ n \in 1..Len(c) /\ Waits(c, n)
<1>1. Same(c, s, d, t, n) /\ n \in Nat
  BY DEF Came
<1>2. n \in 1..Len(c) /\ Waits(c, n)
  BY <1>1, SameSegment DEF Same
<1>3. Clear(p, c, s, K, n)
  BY <1>2 DEF Apart
<1> QED
  BY <1>1, <1>2, <1>3, SameClear

LEMMA StayCovered ==
  ASSUME NEW p, NEW c, NEW d, NEW s, NEW t, NEW w, Stay(c, s, d, t, w), Len(c) \in Nat,
         NEW n \in 1..Len(c), Waits(c, n), n # w, NEW i \in Segment(p, c, s, n)
  PROVE  OnWord(p, d, t, i)
<1>1. Same(c, s, d, t, n) /\ n \in 1..Len(d) /\ n \in Nat
  BY DEF Stay
<1>2. Waits(d, n) /\ i \in Segment(p, d, t, n)
  BY <1>1, SameSegment
<1> QED
  BY <1>1, <1>2 DEF OnWord

\* The segments of two words of a stack have nothing in common.
LEMMA WordsApart ==
  ASSUME NEW p, NEW c, NEW s, NEW K, Apart(p, c, s, K), Len(c) \in Nat,
         NEW n \in 1..Len(c), NEW w \in 1..Len(c), n < w, Waits(c, w)
  PROVE  /\ SelfAt(c, s, n) = At(c, n + 1)
         /\ ChainIn(p, SelfAt(c, s, n)) \intersect Segment(p, c, s, w) = {}
         /\ Segment(p, c, s, n) \intersect Segment(p, c, s, w) = {}
<1>1. n + 1 \in 1..w /\ n # Len(c)
  OBVIOUS
<1>2. SelfAt(c, s, n) = At(c, n + 1)
  BY <1>1 DEF SelfAt
<1>3. ChainIn(p, SelfAt(c, s, n)) \intersect Segment(p, c, s, w) = {}
  BY <1>1, <1>2 DEF Apart, Clear
<1>4. Segment(p, c, s, n) \subseteq ChainIn(p, SelfAt(c, s, n))
  BY DEF Segment, Span
<1> QED
  BY <1>2, <1>3, <1>4

LEMMA SelfAlive ==
  ASSUME NEW lv, NEW c, NEW s, s \in lv \union {None}, AllIn(c, lv), Len(c) \in Nat,
         NEW n \in 1..Len(c)
  PROVE  SelfAt(c, s, n) \in lv \union {None} /\ At(c, n) \in lv \union {None}
<1>1. CASE n = Len(c)
  BY <1>1 DEF AllIn, SelfAt
<1>2. CASE n # Len(c)
  <2>1. n + 1 \in 1..Len(c)
    BY <1>2
  <2> QED
    BY <1>2, <2>1 DEF AllIn, SelfAt
<1> QED
  BY <1>1, <1>2

\* A heap q that is p for the living has the segments of p.
AlikeSpans(p, q, c, s, K) ==
  /\ \A n \in 1..Len(c) : Segment(q, c, s, n) = Segment(p, c, s, n)
  /\ \A k \in K : Span(q, From(k), To(k)) = Span(p, From(k), To(k))

LEMMA SameSpans ==
  ASSUME NEW p, NEW q, NEW lv, NEW c, NEW s, NEW K, Alive(p, lv, c, s, K), Len(c) \in Nat,
         AlikeOn(p, q, lv)
  PROVE  Alive(q, lv, c, s, K) /\ AlikeSpans(p, q, c, s, K)
<1>1. Alive(q, lv, c, s, K)
  BY DEF Alive, EndsAbove, AlikeOn
<1>2. ASSUME NEW n \in 1..Len(c)
      PROVE  Segment(q, c, s, n) = Segment(p, c, s, n)
  <2>1. SelfAt(c, s, n) \in lv \union {None} /\ At(c, n) \in lv \union {None}
    BY SelfAlive DEF Alive
  <2> QED
    BY <2>1 DEF Segment, Span, AlikeOn
<1>3. \A k \in K : Span(q, From(k), To(k)) = Span(p, From(k), To(k))
  BY DEF Alive, Span, AlikeOn
<1> QED
  BY <1>1, <1>2, <1>3 DEF AlikeSpans

LEMMA SameApart ==
  ASSUME NEW p, NEW q, NEW lv, NEW c, NEW s, NEW K, Alive(p, lv, c, s, K), Len(c) \in Nat,
         AlikeOn(p, q, lv), Apart(p, c, s, K)
  PROVE  Apart(q, c, s, K)
<1>1. AlikeSpans(p, q, c, s, K)
  BY SameSpans
<1>2. \A h, k \in K : h # k => Span(q, From(h), To(h)) \intersect Span(q, From(k), To(k)) = {}
  BY <1>1 DEF Apart, AlikeSpans
<1>3. ASSUME NEW n \in 1..Len(c), Waits(c, n)
      PROVE  Clear(q, c, s, K, n)
  <2>1. Clear(p, c, s, K, n)
    BY <1>3 DEF Apart
  <2>2. \A m \in 1..n : ChainIn(q, At(c, m)) = ChainIn(p, At(c, m))
    <3>1. \A m \in 1..n : m \in 1..Len(c)
      OBVIOUS
    <3> QED
      BY <3>1 DEF Alive, AllIn, AlikeOn
  <2>3. ChainIn(q, SelfAt(c, s, n)) = ChainIn(p, SelfAt(c, s, n))
    BY SelfAlive DEF Alive, AlikeOn
  <2> QED
    BY <2>1, <2>2, <2>3, <1>1 DEF Clear, AlikeSpans
<1> QED
  BY <1>2, <1>3 DEF Apart

LEMMA SameCovered ==
  ASSUME NEW p, NEW q, NEW lv, NEW c, NEW s, NEW K, Alive(p, lv, c, s, K), Len(c) \in Nat,
         AlikeOn(p, q, lv), NEW i
  PROVE  /\ OnWord(p, c, s, i) => OnWord(q, c, s, i)
         /\ IsKept(p, K, i) => IsKept(q, K, i)
<1>1. AlikeSpans(p, q, c, s, K)
  BY SameSpans
<1> QED
  BY <1>1 DEF OnWord, IsKept, AlikeSpans

\* The last word of a stack is at x, which is not its end: nothing else has x.
LEMMA OnlyHere ==
  ASSUME NEW p, Heap(p), NEW lv \in SUBSET Ihandles, Tree(p, lv),
         NEW c, NEW s, NEW K, Alive(p, lv, c, s, K), Apart(p, c, s, K), NEW w, LastWord(c, w),
         NEW x \in lv, x = SelfAt(c, s, w), x # At(c, w)
  PROVE  /\ x \in Segment(p, c, s, w)
         /\ \A m \in 1..w : At(c, m) # x
         /\ \A k \in K : From(k) # x
<1> w \in 1..Len(c) /\ Waits(c, w)
  BY DEF LastWord
<1>1. Clear(p, c, s, K, w)
  BY DEF Apart
<1>2. x \in Segment(p, c, s, w)
  <2>1. At(c, w) \in (ChainIn(p, x) \ {x}) \union {None}
    BY <1>1 DEF Clear
  <2> QED
    BY <2>1, SpanFacts DEF Segment
<1>3. ASSUME NEW m \in 1..w, At(c, m) = x
      PROVE  FALSE
  <2>1. x \in ChainIn(p, At(c, m))
    BY <1>3, ChainBasics
  <2> QED
    BY <2>1, <1>1, <1>2 DEF Clear
<1>4. ASSUME NEW k \in K
      PROVE  From(k) # x
  <2>1. From(k) \in Span(p, From(k), To(k))
    BY SpanFacts DEF Alive, EndsAbove
  <2> QED
    BY <2>1, <1>1, <1>2 DEF Clear
<1> QED
  BY <1>2, <1>3, <1>4

\* What goes with some of the last word's segment is at no word, on no chain that goes on, and of
\* a chain that is kept all or nothing.
LEMMA FelledApart ==
  ASSUME NEW p, Heap(p), NEW lv \in SUBSET Ihandles, Tree(p, lv),
         NEW c, NEW s, NEW K, Alive(p, lv, c, s, K), Apart(p, c, s, K), NEW w, LastWord(c, w),
         Len(c) \in Nat, NEW S \in SUBSET Segment(p, c, s, w), NEW D, D = Felled(p, lv, S)
  PROVE  /\ \A m \in 1..w : At(c, m) \notin D
         /\ \A k \in K : To(k) \in D => From(k) \in D
         /\ \A k \in K : To(k) = None => From(k) \notin D
         /\ \A k \in K : From(k) \in D => Span(p, From(k), To(k)) \subseteq D
<1> w \in 1..Len(c) /\ Waits(c, w)
  BY DEF LastWord
<1>1. Clear(p, c, s, K, w)
  BY DEF Apart
<1>2. ASSUME NEW m \in 1..w
      PROVE  At(c, m) \notin D
  BY <1>1 DEF Clear, Felled
<1>3. ASSUME NEW k \in K
      PROVE  /\ From(k) \in lv /\ To(k) \in lv \union {None}
             /\ To(k) \in ChainIn(p, From(k)) \union {None}
             /\ Span(p, From(k), To(k)) \intersect S = {}
  BY <1>1 DEF Alive, EndsAbove, Clear
<1>4. ASSUME NEW k \in K, To(k) \in D
      PROVE  From(k) \in D
  <2>1. To(k) \in ChainIn(p, From(k))
    BY <1>3, <1>4 DEF Felled
  <2>2. \A j \in lv \union {None} : j \notin D => ChainIn(p, j) \intersect D = {}
    BY FelledFacts
  <2> QED
    BY <1>3, <1>4, <2>1, <2>2
<1>5. ASSUME NEW k \in K, From(k) \in D
      PROVE  To(k) # None /\ Span(p, From(k), To(k)) \subseteq D
  <2>1. PICK x \in S : x \in ChainIn(p, From(k))
    BY <1>5 DEF Felled
  <2>2. x \in ChainIn(p, To(k))
    BY <1>3, <2>1 DEF Span
  <2>3. To(k) # None /\ To(k) \in ChainIn(p, From(k))
    BY <1>3, <2>2, ChainBasics
  <2>4. ASSUME NEW j \in Span(p, From(k), To(k))
        PROVE  j \in D
    <3>1. j \in ChainIn(p, From(k)) /\ j \notin ChainIn(p, To(k)) /\ From(k) \in Ihandles
      BY <1>3 DEF Span
    <3>2. To(k) \in ChainIn(p, j)
      BY <2>3, <3>1, Linear
    <3>3. x \in ChainIn(p, j)
      BY <2>2, <3>2, ChainBasics
    <3>4. j \in lv
      BY <1>3, <3>1, ChainAlive
    <3> QED
      BY <3>3, <3>4 DEF Felled
  <2> QED
    BY <2>3, <2>4
<1> QED
  BY <1>2, <1>4, <1>5

-----------------------------------------------------------------------------
(***************************************************************************)
(* What a step does to the segments.                                       *)
(***************************************************************************)

\* A word is at its end.
Idle(c, s, n) == SelfAt(c, s, n) = At(c, n)

LEMMA IdleClear ==
  ASSUME NEW p, Heap(p), NEW c, NEW s, NEW K, NEW n, Idle(c, s, n), At(c, n) \in Selves
  PROVE  Segment(p, c, s, n) = {} /\ Clear(p, c, s, K, n)
<1>1. Segment(p, c, s, n) = {}
  BY EmptySpans DEF Idle, Segment
<1>2. At(c, n) \in ChainIn(p, SelfAt(c, s, n)) \union {None}
  BY ChainBasics DEF Idle, Selves
<1> QED
  BY <1>1, <1>2 DEF Clear

\* Words come and go at their end.
CameIdle(c, s, d, t) ==
  \A n \in 1..Len(d) : Waits(d, n) => Same(c, s, d, t, n) \/ Idle(d, t, n)
StayIdle(c, s, d, t) ==
  \A n \in 1..Len(c) : Waits(c, n) => (n \in 1..Len(d) /\ Same(c, s, d, t, n)) \/ Idle(c, s, n)

LEMMA Unmoved ==
  ASSUME NEW p, Heap(p), NEW lv \in SUBSET Ihandles,
         NEW c, NEW s, NEW d, NEW t, NEW K, Strung(p, lv, c, s, K),
         Len(c) \in Nat, Len(d) \in Nat, t \in lv \union {None}, AllIn(d, lv),
         CameIdle(c, s, d, t), StayIdle(c, s, d, t)
  PROVE  Strung(p, lv, d, t, K)
<1>1. Tree(p, lv) /\ Alive(p, lv, c, s, K) /\ Apart(p, c, s, K) /\ Covered(p, lv, c, s, K)
  BY DEF Strung
<1>2. Alive(p, lv, d, t, K)
  BY <1>1 DEF Alive
<1>3. Apart(p, d, t, K)
  <2>1. ASSUME NEW n \in 1..Len(d), Waits(d, n)
        PROVE  Clear(p, d, t, K, n)
    <3>1. CASE Same(c, s, d, t, n)
      <4>1. n \in 1..Len(c) /\ Waits(c, n) /\ n \in Nat
        BY <2>1, <3>1, SameSegment DEF Same
      <4>2. Clear(p, c, s, K, n)
        BY <4>1, <1>1 DEF Apart
      <4>3. K \in SUBSET K
        OBVIOUS
      <4> QED
        BY <3>1, <4>1, <4>2, <4>3, SameClear
    <3>2. CASE Idle(d, t, n)
      <4>1. At(d, n) \in Selves
        BY DEF Selves, AllIn
      <4> QED
        BY <3>2, <4>1, IdleClear
    <3> QED
      BY <2>1, <3>1, <3>2 DEF CameIdle
  <2> QED
    BY <2>1, <1>1 DEF Apart
<1>4. Covered(p, lv, d, t, K)
  <2>1. ASSUME NEW n \in 1..Len(c), Waits(c, n), NEW i \in Segment(p, c, s, n)
        PROVE  OnWord(p, d, t, i)
    <3>1. CASE n \in 1..Len(d) /\ Same(c, s, d, t, n)
      <4>1. n \in Nat
        OBVIOUS
      <4>2. Waits(d, n) /\ i \in Segment(p, d, t, n)
        BY <2>1, <3>1, <4>1, SameSegment
      <4> QED
        BY <3>1, <4>2 DEF OnWord
    <3>2. CASE Idle(c, s, n)
      <4>1. At(c, n) \in Selves
        BY <1>1 DEF Selves, Alive, AllIn
      <4> QED
        BY <3>2, <4>1, IdleClear
    <3> QED
      BY <2>1, <3>1, <3>2 DEF StayIdle
  <2> QED
    BY <2>1, <1>1 DEF Covered, OnWord
<1> QED
  BY <1>1, <1>2, <1>3, <1>4 DEF Strung

LEMMA SingleSame ==
  ASSUME NEW p, NEW c, NEW s, NEW d, NEW t, Len(d) \in Nat, Single(p, c, s),
         \A n \in 1..Len(d) : d[n].op = "package" =>
           \/ Same(c, s, d, t, n) \/ d[n].stage = "interposed"
           \/ SelfAt(d, t, n) # None /\ ParentIn(p, SelfAt(d, t, n)) = At(d, n)
  PROVE  Single(p, d, t)
<1> SUFFICES ASSUME NEW n \in 1..Len(d), d[n].op = "package", Same(c, s, d, t, n),
                    d[n].stage # "interposed"
             PROVE  SelfAt(d, t, n) # None /\ ParentIn(p, SelfAt(d, t, n)) = At(d, n)
  BY DEF Single
<1>1. n \in 1..n /\ n \in 1..Len(c) /\ c[n].op = "package" /\ c[n].stage # "interposed"
  BY DEF Same
<1>2. SelfAt(d, t, n) = SelfAt(c, s, n) /\ At(d, n) = At(c, n)
  BY <1>1 DEF Same
<1> QED
  BY <1>1, <1>2 DEF Single

\* The last word of c is done, and what it is at is kept.
LEMMA Returned ==
  ASSUME NEW p, Heap(p), NEW lv \in SUBSET Ihandles,
         NEW c, NEW s, NEW d, NEW t, NEW K, NEW J, Strung(p, lv, c, s, K),
         Len(c) \in Nat, Len(d) \in Nat, t \in lv \union {None}, AllIn(d, lv),
         NEW w, LastWord(c, w), Len(d) < w, Came(c, s, d, t, w), Stay(c, s, d, t, w),
         NEW k, From(k) = SelfAt(c, s, w), To(k) = At(c, w),
         \/ J = K /\ From(k) = None
         \/ J = K \union {k} /\ From(k) # None /\ From(k) # To(k)
  PROVE  Strung(p, lv, d, t, J)
<1> w \in 1..Len(c) /\ Waits(c, w)
  BY DEF LastWord
<1>1. Tree(p, lv) /\ Alive(p, lv, c, s, K) /\ Apart(p, c, s, K) /\ Covered(p, lv, c, s, K)
  BY DEF Strung
<1>2. /\ From(k) \in lv \union {None} /\ To(k) \in lv \union {None}
      /\ To(k) \in ChainIn(p, From(k)) \union {None} /\ Clear(p, c, s, K, w)
  BY <1>1, SelfAlive DEF Apart, Clear, Alive
<1>3. Span(p, From(k), To(k)) = Segment(p, c, s, w)
  BY DEF Segment
<1>4. Alive(p, lv, d, t, J)
  BY <1>1, <1>2 DEF Alive, EndsAbove
<1>5. Apart(p, d, t, J)
  <2>1. \A h \in K : Span(p, From(h), To(h)) \intersect Span(p, From(k), To(k)) = {}
    BY <1>2, <1>3 DEF Clear
  <2>2. \A h, j \in K : h # j => Span(p, From(h), To(h)) \intersect Span(p, From(j), To(j)) = {}
    BY <1>1 DEF Apart
  <2>3. J \subseteq K \union {k}
    OBVIOUS
  <2>4. \A h, j \in J : h # j => Span(p, From(h), To(h)) \intersect Span(p, From(j), To(j)) = {}
    BY <2>1, <2>2, <2>3
  <2>5. ASSUME NEW n \in 1..Len(d), Waits(d, n)
        PROVE  Clear(p, d, t, J, n)
    <3>1. n < w /\ n # w /\ n \in Nat
      OBVIOUS
    <3>2. K \in SUBSET K
      OBVIOUS
    <3>3. Clear(p, d, t, K, n) /\ n \in 1..Len(c)
      BY <1>1, <2>5, <3>1, <3>2, CameClear
    <3>4. Same(c, s, d, t, n)
      BY <2>5, <3>1 DEF Came
    <3>5. Segment(p, d, t, n) = Segment(p, c, s, n)
      BY <3>1, <3>4, SameSegment
    <3>6. Segment(p, c, s, n) \intersect Segment(p, c, s, w) = {}
      BY <1>1, <3>1, <3>3, WordsApart
    <3> QED
      BY <2>3, <3>3, <3>5, <3>6, <1>3 DEF Clear
  <2> QED
    BY <2>4, <2>5 DEF Apart
<1>6. Covered(p, lv, d, t, J)
  <2>1. ASSUME NEW i \in Segment(p, c, s, w)
        PROVE  IsKept(p, J, i)
    <3>1. From(k) # None
      BY <1>3, EmptySpans
    <3> QED
      BY <3>1, <1>3 DEF IsKept
  <2>2. ASSUME NEW n \in 1..Len(c), Waits(c, n), NEW i \in Segment(p, c, s, n)
        PROVE  OnWord(p, d, t, i) \/ IsKept(p, J, i)
    <3>1. CASE n = w
      BY <2>1, <2>2, <3>1
    <3>2. CASE n # w
      BY <2>2, <3>2, StayCovered
    <3> QED
      BY <3>1, <3>2
  <2>3. \A i : IsKept(p, K, i) => IsKept(p, J, i)
    BY DEF IsKept
  <2> QED
    BY <2>2, <2>3, <1>1 DEF Covered, OnWord
<1> QED
  BY <1>1, <1>4, <1>5, <1>6 DEF Strung

\* A word of c goes on to a new child i of what it was at.
LEMMA Grown ==
  ASSUME NEW p, Heap(p), NEW lv \in SUBSET Ihandles,
         NEW c, NEW s, NEW d, NEW t, NEW K, Strung(p, lv, c, s, K),
         Len(c) \in Nat, Len(d) \in Nat, NEW i \in Ihandles, i \notin lv,
         NEW lw, lw = lv \union {i}, t \in lw \union {None}, AllIn(d, lw),
         NEW w \in 1..Len(c), Waits(c, w), w <= Len(d), \A m \in 1..w : At(d, m) = At(c, m),
         Waits(d, w), SelfAt(d, t, w) = i, Came(c, s, d, t, w), Stay(c, s, d, t, w),
         NEW y, y = SelfAt(c, s, w), NEW q, Reparented(p, q, i, y)
  PROVE  Strung(q, lw, d, t, K) /\ AlikeOn(p, q, lv) /\ ParentIn(q, i) = y
<1>1. Tree(p, lv) /\ Alive(p, lv, c, s, K) /\ Apart(p, c, s, K) /\ Covered(p, lv, c, s, K)
  BY DEF Strung
<1>2. y \in lv \union {None} /\ At(c, w) \in lv \union {None}
  BY <1>1, SelfAlive DEF Alive
<1>3. /\ Tree(q, lw) /\ AlikeOn(p, q, lv)
      /\ ChainIn(q, i) = {i} \union ChainIn(p, y)
  <2>1. i \in Ihandles \ lv
    OBVIOUS
  <2> QED
    BY <1>1, <1>2, <2>1, GrownTree
<1>4. Alive(q, lv, c, s, K) /\ AlikeSpans(p, q, c, s, K) /\ Apart(q, c, s, K)
  BY <1>1, <1>3, SameSpans, SameApart
<1>5. Clear(p, c, s, K, w) /\ At(d, w) = At(c, w)
  BY <1>1 DEF Apart
<1>6. \A j \in lv \union {None} : ChainIn(p, j) \subseteq lv /\ ChainIn(q, j) = ChainIn(p, j)
  BY <1>1, <1>3, ChainAlive DEF AlikeOn
<1>7. Segment(q, d, t, w) = {i} \union Segment(p, c, s, w)
  BY <1>2, <1>3, <1>5, <1>6 DEF Segment, Span
<1>8. Clear(q, d, t, K, w)
  <2>1. At(d, w) \in ChainIn(q, SelfAt(d, t, w)) \union {None}
    BY <1>3, <1>5 DEF Clear
  <2>2. ASSUME NEW m \in 1..w
        PROVE  ChainIn(q, At(d, m)) \intersect Segment(q, d, t, w) = {}
    <3>1. m \in 1..Len(c) /\ At(d, m) = At(c, m)
      OBVIOUS
    <3>2. At(c, m) \in lv \union {None}
      BY <3>1, <1>1 DEF Alive, AllIn
    <3>3. ChainIn(p, At(c, m)) \intersect Segment(p, c, s, w) = {}
      BY <1>5 DEF Clear
    <3> QED
      BY <3>1, <3>2, <3>3, <1>6, <1>7
  <2>3. ASSUME NEW k \in K
        PROVE  Span(q, From(k), To(k)) \intersect Segment(q, d, t, w) = {}
    <3>1. Span(p, From(k), To(k)) \intersect Segment(p, c, s, w) = {}
      BY <1>5 DEF Clear
    <3>2. Span(q, From(k), To(k)) \subseteq lv
      BY <1>1, <1>6 DEF Span, Alive
    <3> QED
      BY <3>1, <3>2, <1>4, <1>7 DEF AlikeSpans
  <2> QED
    BY <2>1, <2>2, <2>3 DEF Clear
<1>9. Apart(q, d, t, K)
  <2>1. K \in SUBSET K
    OBVIOUS
  <2>2. ASSUME NEW n \in 1..Len(d), Waits(d, n), n # w
        PROVE  Clear(q, d, t, K, n)
    BY <2>1, <2>2, <1>4, CameClear
  <2> QED
    BY <2>2, <1>4, <1>8 DEF Apart
<1>10. Alive(q, lw, d, t, K)
  BY <1>4 DEF Alive
<1>11. Covered(q, lw, d, t, K)
  <2>1. ASSUME NEW j \in {i} \union Segment(p, c, s, w)
        PROVE  OnWord(q, d, t, j)
    BY <1>7 DEF OnWord
  <2>2. ASSUME NEW n \in 1..Len(c), Waits(c, n), NEW j \in Segment(p, c, s, n)
        PROVE  OnWord(q, d, t, j)
    <3>1. CASE n = w
      BY <2>1, <2>2, <3>1
    <3>2. CASE n # w
      <4>1. j \in Segment(q, c, s, n)
        BY <1>4 DEF AlikeSpans
      <4> QED
        BY <2>2, <3>2, <4>1, StayCovered
    <3> QED
      BY <3>1, <3>2
  <2>3. \A j : IsKept(p, K, j) => IsKept(q, K, j)
    BY <1>4 DEF IsKept, AlikeSpans
  <2> QED
    BY <2>1, <2>2, <2>3, <1>1 DEF Covered, OnWord
<1>12. ParentIn(q, i) = y
  BY DEF Reparented
<1> QED
  BY <1>3, <1>9, <1>10, <1>11, <1>12 DEF Strung

\* The last word of c goes on to the parent of what it was at, which is destroyed; or it is done,
\* with all that it had to close destroyed.
AtsAlike(c, d) == \A m \in 1..Len(d) : At(d, m) = At(c, m)
GoesUp(p, c, s, d, t, w, S) ==
  \/ w = Len(d) /\ Waits(d, w) /\ S = {SelfAt(c, s, w)} /\ t = ParentIn(p, SelfAt(c, s, w))
  \/ w > Len(d) /\ S = Segment(p, c, s, w) /\ t = At(c, w)
Left(K, D) == {k \in K : From(k) \notin D}
NoneAt(c, w, D) == \A m \in 1..w : At(c, m) \notin D
EndsNowhere(K, D) == \A k \in K : To(k) = None => From(k) \notin D

LEMMA Shrunk ==
  ASSUME NEW p, Heap(p), NEW lv \in SUBSET Ihandles,
         NEW c, NEW s, NEW d, NEW t, NEW K, Strung(p, lv, c, s, K),
         Len(c) \in Nat, Len(d) \in Nat, NEW w, LastWord(c, w),
         NEW x \in lv, x = SelfAt(c, s, w), x # At(c, w), AtsAlike(c, d),
         Came(c, s, d, t, w), Stay(c, s, d, t, w),
         NEW S, GoesUp(p, c, s, d, t, w, S), NEW D, D = Felled(p, lv, S),
         NEW q, Pruned(p, q, D), NEW lw, lw = lv \ D, NEW J, J = Left(K, D)
  PROVE  /\ Strung(q, lw, d, t, J) /\ AlikeOn(p, q, lw) /\ x \in D
         /\ NoneAt(c, w, D) /\ EndsNowhere(K, D)
<1> w \in 1..Len(c) /\ Waits(c, w)
  BY DEF LastWord
<1> J \in SUBSET K /\ \A k \in J : From(k) \notin D
  BY DEF Left
<1> \A m \in 1..Len(d) : At(d, m) = At(c, m)
  BY DEF AtsAlike
<1>1. Tree(p, lv) /\ Alive(p, lv, c, s, K) /\ Apart(p, c, s, K) /\ Covered(p, lv, c, s, K)
  BY DEF Strung
<1>2. Tree(q, lw) /\ AlikeOn(p, q, lw)
  BY <1>1, PrunedTree
<1>3. Clear(p, c, s, K, w)
  BY <1>1 DEF Apart
<1>4. /\ At(c, w) \in ChainIn(p, ParentIn(p, x)) \union {None}
      /\ Segment(p, c, s, w) = {x} \union Span(p, ParentIn(p, x), At(c, w))
  <2>1. At(c, w) \in (ChainIn(p, x) \ {x}) \union {None}
    BY <1>3 DEF Clear
  <2> QED
    BY <1>1, <2>1, SpanFacts DEF Segment
<1>5. S \in SUBSET Segment(p, c, s, w) /\ x \in S
  BY <1>4 DEF GoesUp
<1>6. /\ \A m \in 1..w : At(c, m) \notin D
      /\ \A k \in K : To(k) \in D => From(k) \in D
      /\ \A k \in K : To(k) = None => From(k) \notin D
      /\ \A k \in K : From(k) \in D => Span(p, From(k), To(k)) \subseteq D
  BY ONLY <1>1, <1>5, Len(c) \in Nat, D = Felled(p, lv, S), LastWord(c, w), Heap(p),
          lv \in SUBSET Ihandles, FelledApart
<1>7. x \in D /\ \A j \in lv : j \in S => j \in D
  BY <1>1, <1>5, FelledFacts
<1>8. /\ t \in lw \union {None} /\ (w \in 1..Len(d) => Clear(p, d, t, J, w))
      /\ \A j \in lw : j \in Segment(p, c, s, w) => OnWord(p, d, t, j)
  <2>1. CASE w = Len(d) /\ Waits(d, w) /\ S = {x} /\ t = ParentIn(p, x)
    <3>1. t \in lw \union {None}
      BY <1>1, <2>1 DEF Tree, Felled
    <3>2. /\ SelfAt(d, t, w) = t /\ At(d, w) = At(c, w) /\ w \in 1..Len(d)
          /\ Segment(p, d, t, w) = Span(p, t, At(c, w))
      BY <2>1 DEF SelfAt, Segment
    <3>3. Clear(p, d, t, J, w)
      <4>1. Segment(p, d, t, w) \subseteq Segment(p, c, s, w)
        BY <1>4, <2>1, <3>2
      <4>2. \A m \in 1..w : At(d, m) = At(c, m)
        BY <2>1
      <4>3. At(d, w) \in ChainIn(p, SelfAt(d, t, w)) \union {None}
        BY <1>4, <2>1, <3>2
      <4> QED
        BY <4>1, <4>2, <4>3, <1>3 DEF Clear
    <3>4. ASSUME NEW j \in lw, j \in Segment(p, c, s, w)
          PROVE  OnWord(p, d, t, j)
      <4>1. j \in Span(p, t, At(c, w))
        BY <3>4, <1>4, <1>7, <2>1
      <4> QED
        BY <4>1, <2>1, <3>2 DEF OnWord
    <3> QED
      BY <3>1, <3>3, <3>4
  <2>2. CASE w > Len(d) /\ S = Segment(p, c, s, w) /\ t = At(c, w)
    <3>1. At(c, w) \in lv \union {None} /\ w \in 1..w
      BY <1>1 DEF Alive, AllIn
    <3>2. t \in lw \union {None}
      BY <3>1, <1>6, <2>2
    <3> QED
      BY <3>2, <1>7, <2>2
  <2> QED
    BY <2>1, <2>2 DEF GoesUp
<1>9. Alive(p, lw, d, t, J)
  <2>1. ASSUME NEW m \in 1..Len(d)
        PROVE  At(d, m) \in lw \union {None}
    <3>1. m \in 1..Len(c) /\ m \in 1..w
      BY DEF GoesUp
    <3>2. At(c, m) \in lv \union {None}
      BY <3>1, <1>1 DEF Alive, AllIn
    <3> QED
      BY <3>1, <3>2, <1>6
  <2>2. \A k \in J : From(k) \in lw /\ To(k) \in lw \union {None} /\ EndsAbove(p, k)
    BY <1>1, <1>6 DEF Alive
  <2> QED
    BY <2>1, <2>2, <1>8 DEF Alive, AllIn
<1>10. Apart(p, d, t, J)
  <2>1. ASSUME NEW n \in 1..Len(d), Waits(d, n), n # w
        PROVE  Clear(p, d, t, J, n)
    BY <2>1, <1>1, CameClear
  <2> QED
    BY <2>1, <1>1, <1>8 DEF Apart
<1>11. ASSUME NEW j \in lw
       PROVE  OnWord(p, d, t, j) \/ IsKept(p, J, j)
  <2>1. ASSUME NEW n \in 1..Len(c), Waits(c, n), j \in Segment(p, c, s, n)
        PROVE  OnWord(p, d, t, j)
    <3>1. CASE n = w
      BY <2>1, <3>1, <1>8
    <3>2. CASE n # w
      BY <2>1, <3>2, StayCovered
    <3> QED
      BY <3>1, <3>2
  <2>2. ASSUME NEW k \in K, j \in Span(p, From(k), To(k))
        PROVE  k \in J
    BY <2>2, <1>6 DEF Left
  <2> QED
    BY <2>1, <2>2, <1>1 DEF Covered, OnWord, IsKept
<1>12. Alive(q, lw, d, t, J) /\ Apart(q, d, t, J)
  BY <1>2, <1>9, <1>10, SameSpans, SameApart
<1>13. Covered(q, lw, d, t, J)
  BY <1>2, <1>9, <1>11, SameCovered DEF Covered
<1> QED
  BY <1>2, <1>6, <1>7, <1>12, <1>13 DEF Strung, NoneAt, EndsNowhere

\* A chain that was kept is closed by a new word.
LEMMA TakenOff ==
  ASSUME NEW p, Heap(p), NEW lv \in SUBSET Ihandles,
         NEW c, NEW s, NEW d, NEW t, NEW K, Strung(p, lv, c, s, K),
         Len(c) \in Nat, NEW w, w = Len(c) + 1, Len(d) = w, NEW h \in K,
         \A n \in 1..Len(c) : ChainIn(p, At(c, n)) \intersect Span(p, From(h), To(h)) = {},
         \A n \in 1..Len(c) : At(d, n) = At(c, n),
         Came(c, s, d, t, w), Stay(c, s, d, t, w),
         Waits(d, w), At(d, w) = To(h), t = From(h), NEW J, J = K \ {h}
  PROVE  Strung(p, lv, d, t, J)
<1>1. Tree(p, lv) /\ Alive(p, lv, c, s, K) /\ Apart(p, c, s, K) /\ Covered(p, lv, c, s, K)
  BY DEF Strung
<1>2. SelfAt(d, t, w) = From(h) /\ Segment(p, d, t, w) = Span(p, From(h), To(h))
  BY DEF SelfAt, Segment
<1>3. \A n \in 1..Len(d) : n # w => n \in 1..Len(c)
  OBVIOUS
<1>4. /\ From(h) \in lv /\ To(h) \in lv \union {None}
      /\ To(h) \in ChainIn(p, From(h)) \union {None}
  BY <1>1 DEF Alive, EndsAbove
<1>5. Alive(p, lv, d, t, J)
  <2>1. AllIn(d, lv)
    BY <1>1, <1>3, <1>4 DEF Alive, AllIn
  <2> QED
    BY <2>1, <1>1, <1>4 DEF Alive
<1>6. Clear(p, d, t, J, w)
  <2>1. \A m \in 1..w : ChainIn(p, At(d, m)) \intersect Segment(p, d, t, w) = {}
    <3>1. ASSUME NEW m \in 1..w
          PROVE  ChainIn(p, At(d, m)) \intersect Segment(p, d, t, w) = {}
      <4>1. CASE m = w
        BY <4>1, <1>2 DEF Span
      <4>2. CASE m # w
        <5>1. m \in 1..Len(c)
          BY <4>2
        <5> QED
          BY <5>1, <1>2
      <4> QED
        BY <4>1, <4>2
    <3> QED
      BY <3>1
  <2>2. \A k \in J : Span(p, From(k), To(k)) \intersect Segment(p, d, t, w) = {}
    BY <1>1, <1>2 DEF Apart
  <2>3. At(d, w) \in ChainIn(p, SelfAt(d, t, w)) \union {None}
    BY <1>2, <1>4
  <2> QED
    BY <2>1, <2>2, <2>3 DEF Clear
<1>7. Apart(p, d, t, J)
  <2>1. J \in SUBSET K /\ Len(d) \in Nat
    OBVIOUS
  <2>2. ASSUME NEW n \in 1..Len(d), Waits(d, n), n # w
        PROVE  Clear(p, d, t, J, n)
    BY <2>1, <2>2, <1>1, CameClear
  <2>3. \A g, k \in J : g # k => Span(p, From(g), To(g)) \intersect Span(p, From(k), To(k)) = {}
    BY <2>1, <1>1 DEF Apart
  <2> QED
    BY <2>2, <2>3, <1>6 DEF Apart
<1>8. Covered(p, lv, d, t, J)
  <2>1. ASSUME NEW n \in 1..Len(c), Waits(c, n), NEW i \in Segment(p, c, s, n)
        PROVE  OnWord(p, d, t, i)
    <3>1. n # w
      OBVIOUS
    <3> QED
      BY <2>1, <3>1, StayCovered
  <2>2. ASSUME NEW i \in Span(p, From(h), To(h))
        PROVE  OnWord(p, d, t, i)
    <3>1. w \in 1..Len(d)
      OBVIOUS
    <3> QED
      BY <3>1, <1>2 DEF OnWord
  <2>3. ASSUME NEW i, IsKept(p, K, i)
        PROVE  OnWord(p, d, t, i) \/ IsKept(p, J, i)
    BY <2>2, <2>3 DEF IsKept
  <2> QED
    BY <2>1, <2>3, <1>1 DEF Covered, OnWord
<1> QED
  BY <1>1, <1>5, <1>7, <1>8 DEF Strung

-----------------------------------------------------------------------------
(***************************************************************************)
(* Stacks.                                                                 *)
(***************************************************************************)

LEMMA PiledFacts ==
  ASSUME NEW c, Piled(c)
  PROVE  /\ c \in Seq(Frame) /\ Len(c) \in Nat \ {0} /\ c[1].op = "program" /\ c[1].at = None
         /\ \A n \in 1..Len(c) : c[n] \in Frame
         /\ \A n \in 2..Len(c) : Fits(c[n - 1], c[n]) /\ n - 1 \in 1..Len(c)
<1>1. c \in Seq(Frame) /\ Len(c) \in Nat \ {0}
  BY DEF Piled
<1>2. c[1].op = "program" /\ c[1].at = None
  <2>1. Method("program", None).op = "program" /\ Method("program", None).at = None
    BY DEF Method, Word
  <2> QED
    BY ONLY <2>1, Piled(c) DEF Piled
<1>3. \A n \in 1..Len(c) : c[n] \in Frame
  BY <1>1
<1>4. \A n \in 2..Len(c) : Fits(c[n - 1], c[n]) /\ n - 1 \in 1..Len(c)
  BY <1>1 DEF Piled
<1> QED
  BY <1>1, <1>2, <1>3, <1>4

LEMMA TopCode ==
  ASSUME NEW c, NEW s, Stacked(c, s), NEW L, L = Len(c), c[L].op \in Code
  PROVE  s = c[L].at /\ ~Waits(c, L) /\ L \in Nat \ {0} /\ c[L] \in Frame /\ L \in 1..L
BY PiledFacts DEF Stacked, Waits, Code, Caught, LayerOps

LEMMA TopWord ==
  ASSUME NEW c, NEW s, Stacked(c, s), NEW L, L = Len(c), c[L].op \in LayerOps
  PROVE  /\ L \in Nat /\ L >= 2 /\ L - 1 \in 1..L /\ L \in 1..L
         /\ c[L] \in Frame /\ c[L - 1] \in Frame /\ Fits(c[L - 1], c[L])
         /\ c[L - 1].op \in Code /\ c[L].saved = c[L - 1].at
         /\ LastWord(c, L) /\ SelfAt(c, s, L) = s
<1>1. L \in Nat \ {0} /\ L # 1
  BY PiledFacts DEF Stacked, LayerOps
<1>2. L \in 2..L /\ L - 1 \in 1..L /\ L \in 1..L
  BY <1>1
<1>3. c[L] \in Frame /\ c[L - 1] \in Frame /\ Fits(c[L - 1], c[L])
  BY <1>2, PiledFacts DEF Stacked
<1>4. LastWord(c, L) /\ SelfAt(c, s, L) = s
  BY <1>2 DEF LastWord, Waits, SelfAt
<1> QED
  BY <1>1, <1>2, <1>3, <1>4 DEF Fits

LEMMA TopMethod ==
  ASSUME NEW c, NEW s, Stacked(c, s), NEW L, L = Len(c), c[L].op = "method"
  PROVE  /\ L \in Nat /\ L >= 2 /\ L - 1 \in 1..L
         /\ c[L - 1] \in Frame /\ c[L - 1].op \in Code /\ c[L].saved = c[L - 1].at
<1>1. L \in Nat \ {0} /\ L # 1
  BY PiledFacts DEF Stacked
<1>2. L \in 2..L /\ L - 1 \in 1..L
  BY <1>1
<1>3. c[L - 1] \in Frame /\ Fits(c[L - 1], c[L])
  BY <1>2, PiledFacts DEF Stacked
<1> QED
  BY <1>1, <1>2, <1>3 DEF Fits

LEMMA TopCaught ==
  ASSUME NEW c, NEW s, Stacked(c, s), NEW L, L = Len(c), c[L].op \in Caught
  PROVE  /\ L \in Nat /\ L >= 3 /\ L - 1 \in 1..L /\ L - 2 \in 1..L /\ L - 2 >= 1
         /\ c[L] \in Frame /\ c[L - 1] \in Frame /\ c[L - 2] \in Frame
         /\ Fits(c[L - 1], c[L]) /\ Fits(c[L - 2], c[L - 1])
         /\ c[L - 1].op \in LayerOps /\ c[L - 2].op \in Code /\ c[L - 1].saved = c[L - 2].at
         /\ LastWord(c, L - 1) /\ s = c[L].at /\ SelfAt(c, s, L - 1) = s /\ s \notin {None, At(c, L - 1)}
<1>1. L \in Nat \ {0} /\ L # 1
  BY PiledFacts DEF Stacked, Caught
<1>2. L \in 2..L /\ L - 1 \in 1..L /\ L \in 1..L
  BY <1>1
<1>3. c[L] \in Frame /\ c[L - 1] \in Frame /\ Fits(c[L - 1], c[L])
  BY <1>2, PiledFacts DEF Stacked
<1>4. c[L - 1].op \in LayerOps /\ c[L].at \notin {None, c[L - 1].at}
  BY <1>3 DEF Fits
<1>5. L - 1 # 1
  BY <1>4, PiledFacts DEF Stacked, LayerOps
<1>6. L - 1 \in 2..L /\ L - 2 \in 1..L /\ L >= 3 /\ (L - 1) - 1 = L - 2 /\ L - 2 >= 1
  BY <1>1, <1>5
<1>7. c[L - 2] \in Frame /\ Fits(c[L - 2], c[L - 1])
  BY <1>6, PiledFacts DEF Stacked
<1>8. s = c[L].at /\ ~Waits(c, L)
  BY TopCode DEF Code
<1>9. LastWord(c, L - 1)
  BY <1>1, <1>2, <1>4, <1>8 DEF LastWord, Waits
<1>10. SelfAt(c, s, L - 1) = s
  BY <1>1, <1>2, <1>8 DEF SelfAt, At
<1> QED
  BY <1>1, <1>2, <1>3, <1>4, <1>6, <1>7, <1>8, <1>9, <1>10 DEF Fits, At

LEMMA Pushed ==
  ASSUME NEW c, Piled(c), NEW f \in Frame, Fits(c[Len(c)], f), NEW d, d = Append(c, f)
  PROVE  /\ Piled(d) /\ Len(d) = Len(c) + 1 /\ d[Len(c) + 1] = f /\ Agree(c, d, Len(c))
         /\ Len(d) \in Nat
<1>1. c \in Seq(Frame) /\ Len(c) \in Nat \ {0}
  BY PiledFacts
<1>2. /\ d \in Seq(Frame) /\ Len(d) = Len(c) + 1 /\ d[Len(c) + 1] = f
      /\ \A n \in 1..Len(c) : d[n] = c[n]
  BY <1>1
<1>3. ASSUME NEW n \in 2..Len(d)
      PROVE  Fits(d[n - 1], d[n])
  <2>1. CASE n = Len(c) + 1
    BY <2>1, <1>1, <1>2
  <2>2. CASE n # Len(c) + 1
    <3>1. n \in 2..Len(c) /\ n - 1 \in 1..Len(c) /\ n \in 1..Len(c)
      BY <2>2, <1>1, <1>2
    <3> QED
      BY <3>1, <1>2, PiledFacts
  <2> QED
    BY <2>1, <2>2
<1>4. d[1] = c[1]
  BY <1>1, <1>2
<1> QED
  BY <1>1, <1>2, <1>3, <1>4 DEF Piled, Agree

LEMMA CutDown ==
  ASSUME NEW c, Piled(c), NEW n \in 1..Len(c), NEW d, d = SubSeq(c, 1, n)
  PROVE  Piled(d) /\ Len(d) = n /\ Agree(c, d, n) /\ Len(d) \in Nat
<1>1. c \in Seq(Frame) /\ Len(c) \in Nat \ {0}
  BY PiledFacts
<1>2. d \in Seq(Frame) /\ Len(d) = n /\ \A m \in 1..n : d[m] = c[m]
  BY <1>1
<1>3. ASSUME NEW m \in 2..Len(d)
      PROVE  Fits(d[m - 1], d[m])
  <2>1. m \in 2..Len(c) /\ m - 1 \in 1..n /\ m \in 1..n
    BY <1>1, <1>2
  <2> QED
    BY <2>1, <1>2, PiledFacts
<1>4. d[1] = c[1]
  BY <1>1, <1>2
<1> QED
  BY <1>1, <1>2, <1>3, <1>4 DEF Piled, Agree

\* Two stacks that agree up to some code, and that have no word above it but at w.
OnlyWord(c, l, w) == \A n \in 1..Len(c) : n > l /\ Waits(c, n) => n = w

LEMMA WordsBelow ==
  ASSUME NEW c, NEW d, NEW s, NEW t, NEW w, Len(c) \in Nat, Len(d) \in Nat,
         NEW l \in 1..Len(c), l <= Len(d), Agree(c, d, l), ~Waits(c, l),
         OnlyWord(c, l, w), OnlyWord(d, l, w)
  PROVE  Came(c, s, d, t, w) /\ Stay(c, s, d, t, w)
<1>1. d[l] = c[l] /\ ~Waits(d, l)
  BY DEF Agree, Waits
<1>2. ASSUME NEW n \in 1..Len(d), Waits(d, n), n # w
      PROVE  Same(c, s, d, t, n)
  <2>1. n \in 1..l - 1 /\ l \in Nat /\ l <= Len(c)
    BY <1>1, <1>2 DEF OnlyWord
  <2> QED
    BY <2>1, Common
<1>3. ASSUME NEW n \in 1..Len(c), Waits(c, n), n # w
      PROVE  n \in 1..Len(d) /\ Same(c, s, d, t, n)
  <2>1. n \in 1..l - 1 /\ l \in Nat /\ l <= Len(c) /\ n \in 1..Len(d)
    BY <1>3 DEF OnlyWord
  <2> QED
    BY <2>1, Common
<1> QED
  BY <1>2, <1>3 DEF Came, Stay

-----------------------------------------------------------------------------
(***************************************************************************)
(* Steps that leave the heap alone.                                        *)
(***************************************************************************)

Good == Stacked(calls, mySelf) /\ Heaped

LEMMA Given ==
  ASSUME Typed, Good
  PROVE  /\ Heap(parent) /\ live \in SUBSET Ihandles /\ Piled(calls) /\ Len(calls) \in Nat \ {0}
         /\ Stacked(calls, mySelf) /\ Strung(parent, live, calls, mySelf, Kept)
         /\ Single(parent, calls, mySelf) /\ NotYet(calls, opened) /\ opened \subseteq live
         /\ mySelf \in live \union {None} /\ AllIn(calls, live)
         /\ \A i \in leftOpen : <<i, None>> \notin held
<1>1. Heap(parent) /\ live \in SUBSET Ihandles
  BY DEF Typed, Heap
<1>2. Piled(calls)
  BY DEF Good, Stacked
<1>3. Len(calls) \in Nat \ {0}
  BY <1>2, PiledFacts
<1>4. Strung(parent, live, calls, mySelf, Kept)
  BY DEF Good, Heaped
<1>5. mySelf \in live \union {None} /\ AllIn(calls, live)
  BY <1>4 DEF Strung, Alive
<1> QED
  BY <1>1, <1>2, <1>3, <1>4, <1>5 DEF Good, Heaped

\* A word more, or less, that is at its end, and no package.
LEMMA AtMost ==
  ASSUME NEW c, NEW s, NEW d, NEW t, NEW w, Came(c, s, d, t, w), Stay(c, s, d, t, w),
         w \in 1..Len(d) /\ Waits(d, w) =>
           Same(c, s, d, t, w) \/ (Idle(d, t, w) /\ d[w].op # "package"),
         w \in 1..Len(c) /\ Waits(c, w) =>
           (w \in 1..Len(d) /\ Same(c, s, d, t, w)) \/ Idle(c, s, w)
  PROVE  /\ CameIdle(c, s, d, t) /\ StayIdle(c, s, d, t)
         /\ \A n \in 1..Len(d) : d[n].op = "package" => Same(c, s, d, t, n)
<1>1. CameIdle(c, s, d, t)
  BY DEF Came, CameIdle
<1>2. StayIdle(c, s, d, t)
  BY DEF Stay, StayIdle
<1>3. ASSUME NEW n \in 1..Len(d), d[n].op = "package"
      PROVE  Same(c, s, d, t, n)
  <2>1. Waits(d, n)
    BY <1>3 DEF Waits, LayerOps
  <2> QED
    BY <2>1, <1>3 DEF Came
<1> QED
  BY <1>1, <1>2, <1>3

LEMMA Quiet ==
  ASSUME Typed, Good, UNCHANGED <<heap, held, leftOpen>>, Stacked(calls', mySelf'),
         mySelf' \in live \union {None}, AllIn(calls', live),
         CameIdle(calls, mySelf, calls', mySelf'), StayIdle(calls, mySelf, calls', mySelf'),
         \A n \in 1..Len(calls') :
           calls'[n].op = "package" => Same(calls, mySelf, calls', mySelf', n),
         opened' \subseteq live, NotYet(calls', opened')
  PROVE  Good'
<1>1. Len(calls') \in Nat
  BY PiledFacts DEF Stacked
<1>2. Strung(parent, live, calls', mySelf', Kept)
  BY <1>1, Given, Unmoved
<1>3. Single(parent, calls', mySelf')
  BY <1>1, Given, SingleSame
<1>4. parent' = parent /\ live' = live /\ Kept' = Kept
  BY DEF heap, Kept
<1>5. \A i \in leftOpen' : <<i, None>> \notin held'
  BY Given
<1> QED
  BY <1>2, <1>3, <1>4, <1>5 DEF Good, Heaped

\* Code calls a method, or a word that begins at its end.
LEMMA PushStep ==
  ASSUME Typed, Good, NEW f \in Frame, Running, Fits(Top, f), Stands(f),
         calls' = Append(calls, f), mySelf' = f.at, f.at \in live \union {None},
         f.op \notin Caught, UNCHANGED <<heap, held, leftOpen, opened>>
  PROVE  Good'
<1> DEFINE L == Len(calls)
<1>1. /\ Piled(calls) /\ Stacked(calls, mySelf) /\ AllIn(calls, live) /\ NotYet(calls, opened)
      /\ L \in Nat \ {0}
  BY Given
<1>2. /\ Piled(calls') /\ Len(calls') = L + 1 /\ calls'[L + 1] = f /\ Agree(calls, calls', L)
      /\ Len(calls') \in Nat
  BY <1>1, Pushed DEF Top
<1>3. mySelf = calls[L].at /\ ~Waits(calls, L) /\ L \in 1..L
  BY <1>1, TopCode DEF Running, Top
<1>4. Stacked(calls', mySelf')
  BY <1>2 DEF Stacked
<1>5. \A n \in 1..Len(calls') : n = L + 1 \/ (n \in 1..L /\ calls'[n] = calls[n])
  BY <1>1, <1>2 DEF Agree
<1>6. AllIn(calls', live)
  BY <1>1, <1>2, <1>5 DEF AllIn, At
<1>7. NotYet(calls', opened')
  BY <1>1, <1>2, <1>5 DEF NotYet, At
<1>8. Came(calls, mySelf, calls', mySelf', L + 1) /\ Stay(calls, mySelf, calls', mySelf', L + 1)
  <2>1. OnlyWord(calls', L, L + 1) /\ OnlyWord(calls, L, L + 1) /\ L <= Len(calls')
    BY <1>1, <1>2 DEF OnlyWord
  <2> QED
    BY <1>1, <1>2, <1>3, <2>1, WordsBelow
<1>9. Idle(calls', mySelf', L + 1) /\ calls'[L + 1].op # "package" /\ L + 1 \notin 1..L
  BY <1>1, <1>2 DEF Idle, SelfAt, At, Stands
<1>10. /\ CameIdle(calls, mySelf, calls', mySelf') /\ StayIdle(calls, mySelf, calls', mySelf')
       /\ \A n \in 1..Len(calls') :
            calls'[n].op = "package" => Same(calls, mySelf, calls', mySelf', n)
  BY <1>8, <1>9, AtMost
<1> QED
  BY <1>1, <1>4, <1>6, <1>7, <1>10, Given, Quiet

\* Back to code at l, over methods and a word at its end.
LEMMA PopStep ==
  ASSUME Typed, Good, NEW l \in 1..Len(calls), calls[l].op \in Code, NEW w,
         calls' = SubSeq(calls, 1, l), mySelf' = calls[l].at,
         \A n \in 1..Len(calls) : n > l /\ Waits(calls, n) => n = w /\ Idle(calls, mySelf, w),
         UNCHANGED <<heap, held, leftOpen, opened>>
  PROVE  Good'
<1>1. /\ Piled(calls) /\ AllIn(calls, live) /\ NotYet(calls, opened)
      /\ Len(calls) \in Nat
  BY Given
<1>2. Piled(calls') /\ Len(calls') = l /\ Agree(calls, calls', l) /\ Len(calls') \in Nat
  BY <1>1, CutDown
<1>3. l \in 1..l /\ calls'[l] = calls[l] /\ \A n \in 1..l : n \in 1..Len(calls) /\ calls'[n] = calls[n]
  BY <1>1, <1>2 DEF Agree
<1>4. ~Waits(calls, l)
  BY DEF Waits, Code, Caught, LayerOps
<1>5. Stacked(calls', mySelf')
  BY <1>2, <1>3 DEF Stacked, Stands, Code, Caught
<1>6. AllIn(calls', live) /\ mySelf' \in live \union {None}
  BY <1>1, <1>2, <1>3 DEF AllIn, At
<1>7. NotYet(calls', opened')
  BY <1>1, <1>2, <1>3 DEF NotYet, At
<1>8. /\ CameIdle(calls, mySelf, calls', mySelf') /\ StayIdle(calls, mySelf, calls', mySelf')
      /\ \A n \in 1..Len(calls') :
           calls'[n].op = "package" => Same(calls, mySelf, calls', mySelf', n)
  <2>1. ASSUME NEW v, OnlyWord(calls, l, v),
               v \notin 1..l, v \in 1..Len(calls) /\ Waits(calls, v) => Idle(calls, mySelf, v)
        PROVE  /\ CameIdle(calls, mySelf, calls', mySelf')
               /\ StayIdle(calls, mySelf, calls', mySelf')
               /\ \A n \in 1..Len(calls') :
                    calls'[n].op = "package" => Same(calls, mySelf, calls', mySelf', n)
    <3>1. OnlyWord(calls', l, v) /\ l <= Len(calls')
      BY <1>2 DEF OnlyWord
    <3>2. Came(calls, mySelf, calls', mySelf', v) /\ Stay(calls, mySelf, calls', mySelf', v)
      BY <1>1, <1>2, <1>4, <2>1, <3>1, WordsBelow
    <3> QED
      BY <1>2, <2>1, <3>2, AtMost
  <2>2. CASE \E n \in 1..Len(calls) : n > l /\ Waits(calls, n)
    <3>1. w \notin 1..l /\ Idle(calls, mySelf, w) /\ OnlyWord(calls, l, w)
      BY <2>2 DEF OnlyWord
    <3> QED
      BY <2>1, <3>1
  <2>3. CASE ~\E n \in 1..Len(calls) : n > l /\ Waits(calls, n)
    <3>1. 0 \notin 1..l /\ 0 \notin 1..Len(calls) /\ OnlyWord(calls, l, 0)
      BY <1>1, <2>3 DEF OnlyWord
    <3> QED
      BY <2>1, <2>3, <3>1
  <2> QED
    BY <2>2, <2>3
<1> QED
  BY <1>5, <1>6, <1>7, <1>8, Given, Quiet

LEMMA CallMethodStep ==
  ASSUME Typed, Good, NEW i \in Ihandles, CallMethod(i)
  PROVE  Good'
<1> DEFINE f == Word("method", i, mySelf, "", "")
<1>1. /\ Running /\ calls' = Append(calls, f) /\ mySelf' = i
      /\ UNCHANGED <<heap, held, leftOpen, opened>>
  BY DEF CallMethod
<1>2. mySelf = Top.at /\ Top.op \in Code
  BY <1>1, Given, TopCode DEF Running, Top
<1>3. /\ f \in Frame /\ f.op = "method" /\ f.at = i /\ f.saved = mySelf
  BY DEF Typed, Frame, Word, Selves, Ops, Code
<1>4. i \in live
  <2>1. CASE i \in {h[1] : h \in held}
    <3>1. PICK h \in held : i = From(h)
      BY <2>1 DEF From
    <3>2. h \in Kept
      BY DEF Kept
    <3> QED
      BY <3>1, <3>2, Given DEF Strung, Alive
  <2>2. CASE mySelf # None /\ i = parent[mySelf]
    <3>1. mySelf \in live
      BY <2>2, Given
    <3> QED
      BY <2>2, <3>1, Given DEF Strung, Tree, ParentIn
  <2> QED
    BY <2>1, <2>2 DEF CallMethod
<1>5. Fits(Top, f) /\ Stands(f)
  BY <1>2, <1>3 DEF Fits, Stands, LayerOps, Caught
<1>6. f.op \notin Caught
  BY <1>3 DEF Caught
<1> HIDE DEF f
<1> QED
  BY <1>1, <1>3, <1>4, <1>5, <1>6, PushStep

LEMMA OpenDevStep ==
  ASSUME Typed, Good, NEW goal \in Goals, OpenDev(goal)
  PROVE  Good'
<1> DEFINE f == Word("path", None, mySelf, goal, "select")
<1>1. /\ Running /\ calls' = Append(calls, f) /\ mySelf' = None
      /\ UNCHANGED <<heap, held, leftOpen, opened>>
  BY DEF OpenDev
<1>2. mySelf = Top.at /\ Top.op \in Code
  BY <1>1, Given, TopCode DEF Running, Top
<1>3. /\ f \in Frame /\ f.op = "path" /\ f.at = None /\ f.saved = mySelf /\ f.goal = goal
      /\ f.stage = "select"
  BY DEF Typed, Frame, Word, Selves, Ops
<1>4. Fits(Top, f) /\ Stands(f)
  BY <1>2, <1>3 DEF Fits, Stands, LayerOps, Caught
<1>5. f.op \notin Caught
  BY <1>3 DEF Caught
<1> HIDE DEF f
<1> QED
  BY <1>1, <1>3, <1>4, <1>5, PushStep

LEMMA InterposeStep ==
  ASSUME Typed, Good, NEW package \in BOOLEAN, Interpose(package)
  PROVE  Good'
BY DEF Interpose, Good, Heaped, Kept, heap

LEMMA ThrowStep ==
  ASSUME Typed, Good, Throw, ~astray'
  PROVE  Good'
<1>1. PICK n \in 1..Len(calls) - 1 :
        /\ \A k \in n + 1..Len(calls) : calls[k].op = "method"
        /\ calls' = SubSeq(calls, 1, n) /\ astray' = (mySelf # calls[n].at)
  BY DEF Throw
<1>2. Len(calls) \in Nat \ {0} /\ n \in 1..Len(calls) /\ n + 1 \in 2..Len(calls)
  BY Given
<1>3. calls[n].op \in Code
  <2>1. Fits(calls[n], calls[n + 1]) /\ calls[n + 1].op = "method"
    <3>1. Fits(calls[(n + 1) - 1], calls[n + 1]) /\ n + 1 \in n + 1..Len(calls)
      BY <1>2, Given, PiledFacts
    <3>2. (n + 1) - 1 = n
      BY <1>2
    <3> QED
      BY <3>1, <3>2, <1>1
  <2> QED
    BY <2>1 DEF Fits
<1>4. mySelf' = calls[n].at /\ UNCHANGED <<heap, held, leftOpen, opened>>
  BY <1>1 DEF Throw
<1>5. \A m \in 1..Len(calls) : n < m => ~Waits(calls, m)
  <2>1. \A m \in 1..Len(calls) : n < m => m \in n + 1..Len(calls)
    BY <1>2
  <2> QED
    BY <1>1, <2>1 DEF Waits, LayerOps
<1>6. \A m \in 1..Len(calls) : m > n /\ Waits(calls, m) => m = 0 /\ Idle(calls, mySelf, 0)
  BY <1>2, <1>5
<1> QED
  BY <1>1, <1>2, <1>3, <1>4, <1>6, PopStep

LEMMA MethodReturnsStep ==
  ASSUME Typed, Good, MethodReturns
  PROVE  Good'
<1> DEFINE L == Len(calls)
<1>1. /\ L \in Nat /\ L >= 2 /\ L - 1 \in 1..L /\ calls[L - 1].op \in Code
      /\ calls[L].saved = calls[L - 1].at /\ calls[L].op = "method"
  BY Given, TopMethod DEF MethodReturns, Top
<1>2. calls' = SubSeq(calls, 1, L - 1) /\ mySelf' = calls[L - 1].at
  BY <1>1 DEF MethodReturns, Top, Below
<1>3. \A m \in 1..L : m > L - 1 => ~Waits(calls, m)
  <2>1. \A m \in 1..L : m > L - 1 => m = L
    BY <1>1
  <2> QED
    BY <1>1, <2>1 DEF Waits, LayerOps
<1>4. UNCHANGED <<heap, held, leftOpen, opened>>
  BY DEF MethodReturns
<1>5. \A m \in 1..L : m > L - 1 /\ Waits(calls, m) => m = 0 /\ Idle(calls, mySelf, 0)
  BY <1>3
<1> QED
  BY <1>1, <1>2, <1>4, <1>5, PopStep

LEMMA EndOfChainStep ==
  ASSUME Typed, Good, EndOfChain
  PROVE  Good'
<1> DEFINE L == Len(calls)
<1>1. Top.op \in LayerOps
  BY DEF EndOfChain, Walking, LayerOps
<1>2. /\ L \in Nat /\ L >= 2 /\ L - 1 \in 1..L /\ L \in 1..L /\ calls[L - 1].op \in Code
      /\ calls[L].saved = calls[L - 1].at /\ LastWord(calls, L) /\ SelfAt(calls, mySelf, L) = mySelf
  BY <1>1, Given, TopWord DEF Top
<1>3. calls' = SubSeq(calls, 1, L - 1) /\ mySelf' = calls[L - 1].at
  BY <1>2 DEF EndOfChain, Top, Below
<1>4. Idle(calls, mySelf, L)
  <2>1. At(calls, L) \in ChainIn(parent, mySelf) \union {None}
    BY <1>2, Given DEF Strung, Apart, Clear, LastWord
  <2>2. mySelf \in {None, At(calls, L)}
    BY DEF EndOfChain, MoreToClose, Top, At
  <2>3. ChainIn(parent, None) = {}
    BY Given, ChainBasics
  <2> QED
    BY <1>2, <2>1, <2>2, <2>3 DEF Idle
<1>5. UNCHANGED <<heap, held, leftOpen, opened>>
  BY DEF EndOfChain
<1>6. \A m \in 1..L : m > L - 1 /\ Waits(calls, m) => m = L /\ Idle(calls, mySelf, L)
  BY <1>2, <1>4
<1> QED
  BY <1>2, <1>3, <1>5, <1>6, PopStep

-----------------------------------------------------------------------------
(***************************************************************************)
(* Steps of the last word: it is at w, and the code that has called it     *)
(* below it.                                                               *)
(***************************************************************************)

LEMMA Rebuilt ==
  ASSUME NEW c, Piled(c), NEW l \in Nat, NEW w, w = l + 1, LastWord(c, w), c[l].op \in Code, l >= 1,
         NEW d \in Seq(Frame), l <= Len(d), Agree(c, d, l),
         \A n \in w..Len(d) : Fits(d[n - 1], d[n]), \A n \in w + 1..Len(d) : ~Waits(d, n)
  PROVE  /\ Piled(d) /\ Len(d) \in Nat
         /\ \A s, t : Came(c, s, d, t, w) /\ Stay(c, s, d, t, w)
<1>1. Len(c) \in Nat /\ Len(d) \in Nat /\ l \in 1..Len(c) /\ l \in 1..l
  BY PiledFacts DEF LastWord
<1>2. d[1] = c[1] /\ Len(d) > 0
  BY <1>1 DEF Agree
<1>3. ASSUME NEW n \in 2..Len(d)
      PROVE  Fits(d[n - 1], d[n])
  <2>1. CASE n \in w..Len(d)
    BY <2>1
  <2>2. CASE n \notin w..Len(d)
    <3>1. n \in 2..Len(c) /\ n \in 1..l /\ n - 1 \in 1..l
      BY <2>2, <1>1
    <3> QED
      BY <3>1, PiledFacts DEF Agree
  <2> QED
    BY <2>1, <2>2
<1>4. Piled(d)
  BY <1>2, <1>3 DEF Piled
<1>5. OnlyWord(c, l, w) /\ OnlyWord(d, l, w) /\ ~Waits(c, l)
  <2>1. \A n \in 1..Len(d) : n > l => n = w \/ n \in w + 1..Len(d)
    BY <1>1
  <2>2. OnlyWord(d, l, w)
    BY <2>1 DEF OnlyWord
  <2>3. OnlyWord(c, l, w)
    BY <1>1 DEF OnlyWord, LastWord
  <2> QED
    BY <2>2, <2>3 DEF Waits, Code, Caught, LayerOps
<1> QED
  BY <1>1, <1>4, <1>5, WordsBelow

\* What holds of the words below holds of those that are left.
LEMMA AllStill ==
  ASSUME NEW c, NEW d, NEW l, NEW w, w = l + 1, Agree(c, d, l), l \in Nat, Len(d) \in Nat, NEW lw,
         \A n \in 1..l : At(c, n) \in lw \union {None},
         \A n \in w..Len(d) : At(d, n) \in lw \union {None}
  PROVE  AllIn(d, lw)
<1>1. \A n \in 1..Len(d) : n \in 1..l \/ n \in w..Len(d)
  OBVIOUS
<1> QED
  BY <1>1 DEF AllIn, Agree, At

LEMMA StillNotYet ==
  ASSUME NEW c, NEW d, NEW l, NEW w, w = l + 1, Agree(c, d, l), l \in Nat, Len(d) \in Nat,
         NEW op, NEW oq, NotYet(c, op), Len(c) \in Nat, l <= Len(c),
         \A n \in 1..l : At(c, n) \notin oq \ op,
         \A n \in w..Len(d) : d[n].op \in Caught => At(d, n) \notin oq
  PROVE  NotYet(d, oq)
<1>1. \A n \in 1..Len(d) : n \in 1..l \/ n \in w..Len(d)
  OBVIOUS
<1>2. \A n \in 1..l : n \in 1..Len(c)
  OBVIOUS
<1> QED
  BY <1>1, <1>2 DEF NotYet, Agree, At

LEMMA NextSingle ==
  ASSUME NEW p, NEW q, NEW lv, NEW c, NEW s, NEW d, NEW t, NEW w, Single(p, c, s),
         Came(c, s, d, t, w), Len(d) \in Nat, AlikeOn(p, q, lv),
         \A n \in 1..Len(d) : Waits(d, n) /\ n # w => SelfAt(d, t, n) \in lv \union {None},
         w \in 1..Len(d) /\ d[w].op = "package" =>
           \/ d[w].stage = "interposed"
           \/ SelfAt(d, t, w) # None /\ ParentIn(q, SelfAt(d, t, w)) = At(d, w)
  PROVE  Single(q, d, t)
<1> SUFFICES ASSUME NEW n \in 1..Len(d), d[n].op = "package", n # w, d[n].stage # "interposed"
             PROVE  SelfAt(d, t, n) # None /\ ParentIn(q, SelfAt(d, t, n)) = At(d, n)
  BY DEF Single
<1>1. Waits(d, n)
  BY DEF Waits, LayerOps
<1>2. Same(c, s, d, t, n)
  BY <1>1 DEF Came
<1>3. n \in 1..n /\ n \in 1..Len(c) /\ c[n].op = "package" /\ c[n].stage # "interposed"
  BY <1>2 DEF Same
<1>4. SelfAt(d, t, n) = SelfAt(c, s, n) /\ At(d, n) = At(c, n)
  BY <1>2, <1>3 DEF Same
<1>5. SelfAt(c, s, n) # None /\ ParentIn(p, SelfAt(c, s, n)) = At(c, n)
  BY <1>3 DEF Single
<1>6. SelfAt(d, t, n) \in lv
  BY <1>1, <1>4, <1>5
<1> QED
  BY <1>4, <1>5, <1>6 DEF AlikeOn

\* A word at another stage.
Stages == {"", "select", "last", "close", "interposed"}
LEMMA Staged ==
  ASSUME NEW f \in Frame, NEW stage \in Stages, NEW g, g = [f EXCEPT !.stage = stage]
  PROVE  /\ g \in Frame /\ g.op = f.op /\ g.at = f.at /\ g.saved = f.saved /\ g.goal = f.goal
         /\ g.stage = stage
BY DEF Frame, Stages

LEMMA MethodFrame ==
  ASSUME NEW op \in Ops, NEW i \in Selves
  PROVE  /\ Method(op, i) \in Frame /\ Method(op, i).op = op /\ Method(op, i).at = i
         /\ Method(op, i).saved = None
BY DEF Frame, Method, Word, Selves, Ops

\* The last word stays where it is, below other code or none.
LEMMA StayStep ==
  ASSUME Typed, Good, NEW w, LastWord(calls, w), NEW l \in Nat, w = l + 1, l >= 1,
         calls[l].op \in Code, calls' \in Seq(Frame), w <= Len(calls'), Agree(calls, calls', l),
         calls'[w].op = calls[w].op, calls'[w].at = calls[w].at,
         calls[w].op = "package" => calls'[w].stage = calls[w].stage,
         \A n \in w..Len(calls') : Fits(calls'[n - 1], calls'[n]),
         Stands(calls'[Len(calls')]),
         calls'[Len(calls')].op \in Code => mySelf' = calls'[Len(calls')].at,
         SelfAt(calls', mySelf', w) = SelfAt(calls, mySelf, w),
         mySelf' \in live \union {None},
         \A n \in w + 1..Len(calls') :
           ~Waits(calls', n) /\ At(calls', n) \in live /\ At(calls', n) \notin opened',
         UNCHANGED <<heap, held, leftOpen>>,
         opened' \subseteq live, \A n \in 1..l : At(calls, n) \notin opened' \ opened
  PROVE  Good'
<1>1. /\ Piled(calls) /\ AllIn(calls, live) /\ NotYet(calls, opened) /\ Len(calls) \in Nat
      /\ w \in 1..Len(calls) /\ Waits(calls, w)
  BY Given DEF LastWord
<1>2. /\ Piled(calls') /\ Len(calls') \in Nat
      /\ Came(calls, mySelf, calls', mySelf', w) /\ Stay(calls, mySelf, calls', mySelf', w)
  <2>1. l <= Len(calls')
    OBVIOUS
  <2> QED
    BY <1>1, <2>1, Rebuilt
<1>3. Stacked(calls', mySelf')
  BY <1>2 DEF Stacked
<1>4. w \in 1..Len(calls') /\ l \in 1..l /\ \A n \in 1..w : n = w \/ n \in 1..l
  BY <1>2
<1>5. Same(calls, mySelf, calls', mySelf', w)
  BY <1>1, <1>4 DEF Same, Agree, At
<1>6. /\ CameIdle(calls, mySelf, calls', mySelf') /\ StayIdle(calls, mySelf, calls', mySelf')
      /\ \A n \in 1..Len(calls') :
           calls'[n].op = "package" => Same(calls, mySelf, calls', mySelf', n)
  BY <1>2, <1>4, <1>5, AtMost
<1>7. \A n \in w..Len(calls') : n = w \/ n \in w + 1..Len(calls')
  BY <1>2
<1>8. AllIn(calls', live)
  <2>1. \A n \in 1..l : At(calls, n) \in live \union {None}
    BY <1>1 DEF AllIn
  <2>2. \A n \in w..Len(calls') : At(calls', n) \in live \union {None}
    BY <1>1, <1>7 DEF AllIn, At
  <2> QED
    BY <1>2, <2>1, <2>2, AllStill
<1>9. NotYet(calls', opened')
  <2>1. calls'[w].op \notin Caught
    BY <1>1 DEF Waits, LayerOps, Caught
  <2>2. \A n \in w..Len(calls') : calls'[n].op \in Caught => At(calls', n) \notin opened'
    BY <1>7, <2>1
  <2> QED
    BY <1>1, <1>2, <2>2, StillNotYet
<1> QED
  BY <1>3, <1>6, <1>8, <1>9, Quiet

LEMMA NoDeviceStep ==
  ASSUME Typed, Good, NoDevice
  PROVE  Good'
<1> DEFINE L == Len(calls)
           l == L - 1
           f == [calls[L] EXCEPT !.stage = "close"]
<1>1. Top.op = "path" /\ calls' = [calls EXCEPT ![L].stage = "close"] /\ mySelf' = mySelf
      /\ UNCHANGED <<heap, held, leftOpen, opened>>
  BY DEF NoDevice
<1>2. /\ L \in Nat /\ L >= 2 /\ calls[L] \in Frame /\ Fits(calls[l], calls[L])
      /\ calls[l].op \in Code /\ LastWord(calls, L) /\ SelfAt(calls, mySelf, L) = mySelf
  BY <1>1, Given, TopWord DEF Top, LayerOps
<1>3. f \in Frame /\ f.op = "path" /\ f.at = calls[L].at /\ f.saved = calls[L].saved
      /\ f.goal = calls[L].goal /\ f.stage = "close"
  <2>1. "close" \in Stages /\ calls[L].op = "path" /\ calls[L] \in Frame
    BY <1>1, <1>2 DEF Stages, Top
  <2> QED
    BY <2>1, Staged
<1>4. calls' \in Seq(Frame) /\ Len(calls') = L /\ Agree(calls, calls', l) /\ calls'[L] = f
  <2>1. calls' = [calls EXCEPT ![L] = f] /\ calls \in Seq(Frame)
    BY <1>1 DEF Typed
  <2> QED
    BY <2>1, <1>2, <1>3 DEF Agree
<1>5. l \in Nat /\ L = l + 1 /\ l >= 1 /\ L <= Len(calls') /\ l \in 1..l /\ L - 1 = l
  BY <1>2, <1>4
<1>6. Fits(calls'[l], f) /\ Stands(f)
  <2>1. calls'[l] = calls[l]
    BY <1>4, <1>5 DEF Agree
  <2> QED
    BY <1>1, <1>2, <1>3, <2>1 DEF Fits, Stands, Top, LayerOps, Caught
<1>7. \A n \in L..Len(calls') : Fits(calls'[n - 1], calls'[n])
  <2>1. \A n \in L..Len(calls') : n = L
    BY <1>4, <1>5
  <2> QED
    BY <1>4, <1>6, <2>1
<1>8. /\ calls'[L].op = calls[L].op /\ calls'[L].at = calls[L].at /\ calls[L].op # "package"
      /\ Stands(calls'[Len(calls')]) /\ calls'[Len(calls')].op \notin Code
      /\ SelfAt(calls', mySelf', L) = SelfAt(calls, mySelf, L)
  BY <1>1, <1>2, <1>3, <1>4, <1>6 DEF SelfAt, Top, Code, Caught
<1>9. \A n \in L + 1..Len(calls') : FALSE
  BY <1>4, <1>5
<1>10. mySelf' \in live \union {None} /\ opened' \subseteq live
       /\ \A n \in 1..l : At(calls, n) \notin opened' \ opened
  BY <1>1, Given
<1> HIDE DEF L, l, f
<1> QED
  BY <1>1, <1>2, <1>4, <1>5, <1>7, <1>8, <1>9, <1>10, StayStep

LEMMA CloseOneStep ==
  ASSUME Typed, Good, CloseOne
  PROVE  Good'
<1> DEFINE L == Len(calls)
           l == L - 1
           f == Method("close", mySelf)
<1>1. /\ Top.op \in LayerOps /\ calls' = Append(calls, f) /\ mySelf' = mySelf /\ Walking
      /\ mySelf \notin {None, Top.at} /\ opened' = opened \ {mySelf}
      /\ UNCHANGED <<heap, held, leftOpen>>
  BY DEF CloseOne, MoreToClose, Walking, LayerOps
<1>2. /\ L \in Nat /\ L >= 2 /\ calls[L] \in Frame /\ Fits(calls[l], calls[L])
      /\ calls[l].op \in Code /\ LastWord(calls, L) /\ SelfAt(calls, mySelf, L) = mySelf
  BY <1>1, Given, TopWord DEF Top
<1>3. mySelf \in live /\ opened \subseteq live
  BY <1>1, Given
<1>4. f \in Frame /\ f.op = "close" /\ f.at = mySelf
  <2>1. "close" \in Ops /\ mySelf \in Selves
    BY DEF Ops, Code, Caught, Typed
  <2> QED
    BY <2>1, MethodFrame
<1>5. /\ calls' \in Seq(Frame) /\ Len(calls') = L + 1 /\ Agree(calls, calls', l)
      /\ calls'[L] = calls[L] /\ calls'[L + 1] = f
  <2>1. calls \in Seq(Frame)
    BY DEF Typed
  <2> HIDE DEF f
  <2>2. calls' \in Seq(Frame) /\ Len(calls') = L + 1 /\ calls'[L + 1] = f
        /\ \A n \in 1..L : calls'[n] = calls[n]
    BY <1>1, <1>4, <2>1
  <2> QED
    BY <2>2, <1>2 DEF Agree
<1>6. l \in Nat /\ L = l + 1 /\ l >= 1 /\ L <= Len(calls') /\ l \in 1..l /\ L - 1 = l
  BY <1>2, <1>5
<1>7. Fits(calls'[l], calls'[L]) /\ Fits(calls'[L], f) /\ Stands(f)
  <2>1. calls'[l] = calls[l]
    BY <1>5, <1>6 DEF Agree
  <2>2. Method("close", mySelf).saved = None /\ calls[L].op \in LayerOps
    BY <1>1 DEF Method, Word, Top
  <2>3. Fits(calls[L], f)
    BY <1>1, <1>4, <2>2 DEF Fits, Walking, Top, LayerOps, Caught
  <2> QED
    BY <1>2, <1>4, <1>5, <2>1, <2>3 DEF Stands
<1>8. \A n \in L..Len(calls') : Fits(calls'[n - 1], calls'[n])
  <2>1. \A n \in L..Len(calls') : n = L \/ (n = L + 1 /\ n - 1 = L)
    BY <1>5, <1>6
  <2> QED
    BY <1>5, <1>6, <1>7, <2>1
<1>9. \A n \in L + 1..Len(calls') :
        ~Waits(calls', n) /\ At(calls', n) \in live /\ At(calls', n) \notin opened'
  <2>1. \A n \in L + 1..Len(calls') : n = L + 1
    BY <1>5, <1>6
  <2> QED
    BY <1>1, <1>3, <1>4, <1>5, <2>1 DEF Waits, LayerOps, At
<1>10. /\ calls'[L].op = calls[L].op /\ calls'[L].at = calls[L].at
       /\ calls'[L].stage = calls[L].stage
       /\ Stands(calls'[Len(calls')]) /\ mySelf' = calls'[Len(calls')].at
       /\ SelfAt(calls', mySelf', L) = SelfAt(calls, mySelf, L)
  BY <1>1, <1>2, <1>4, <1>5, <1>6, <1>7 DEF SelfAt, At
<1>11. mySelf' \in live \union {None} /\ opened' \subseteq live
       /\ \A n \in 1..l : At(calls, n) \notin opened' \ opened
  BY <1>1, <1>3
<1> HIDE DEF L, l, f
<1> QED
  BY <1>1, <1>2, <1>5, <1>6, <1>8, <1>9, <1>10, <1>11, StayStep

\* A successful `open` of a node that is not the last.
LEMMA PathGoesOnStep ==
  ASSUME Typed, Good, Top.op = "open", Caller.op = "path", Caller.stage = "select",
         opened' = opened \union {mySelf}, calls' = Below(1),
         UNCHANGED <<mySelf, heap, held, leftOpen>>
  PROVE  Good'
<1> DEFINE L == Len(calls)
           w == L - 1
           l == L - 2
<1>1. /\ L \in Nat /\ L >= 3 /\ calls[w] \in Frame /\ Fits(calls[l], calls[w]) /\ w \in 1..L
      /\ calls[l].op \in Code /\ LastWord(calls, w) /\ SelfAt(calls, mySelf, w) = mySelf
      /\ mySelf \notin {None, At(calls, w)}
  BY Given, TopCaught DEF Top, Caught
<1>2. mySelf \in live /\ opened \subseteq live /\ Piled(calls)
  BY <1>1, Given
<1>3. /\ calls' \in Seq(Frame) /\ Len(calls') = w /\ Agree(calls, calls', l)
      /\ calls'[w] = calls[w] /\ l \in 1..l /\ l + 1 = w /\ w \in 1..w /\ l >= 1 /\ l \in Nat /\ w - 1 = l
  <2>1. calls' = SubSeq(calls, 1, w)
    BY DEF Below
  <2>2. Piled(calls') /\ Len(calls') = w /\ Agree(calls, calls', w)
    BY <1>1, <1>2, <2>1, CutDown
  <2> QED
    BY <1>1, <2>2, PiledFacts DEF Agree
<1>4. \A n \in 1..w : At(calls, n) # mySelf
  BY <1>1, <1>2, Given, OnlyHere DEF Strung
<1>5. \A n \in w..Len(calls') : Fits(calls'[n - 1], calls'[n])
  <2>1. \A n \in w..Len(calls') : n = w
    BY <1>3
  <2>2. calls'[l] = calls[l]
    BY <1>3 DEF Agree
  <2> QED
    BY <1>1, <1>3, <2>1, <2>2
<1>6. \A n \in w + 1..Len(calls') : FALSE
  BY <1>3
<1>7. /\ calls'[w].op = calls[w].op /\ calls'[w].at = calls[w].at
      /\ calls'[w].stage = calls[w].stage
      /\ Stands(calls'[Len(calls')]) /\ calls'[Len(calls')].op \notin Code
      /\ SelfAt(calls', mySelf', w) = SelfAt(calls, mySelf, w)
  BY <1>1, <1>3 DEF SelfAt, Caller, Stands, Code, Caught
<1>8. /\ mySelf' \in live \union {None} /\ opened' \subseteq live
      /\ \A n \in 1..l : At(calls, n) \notin opened' \ opened
  BY <1>2, <1>3, <1>4
<1> HIDE DEF L, l, w
<1> QED
  BY <1>1, <1>3, <1>5, <1>6, <1>7, <1>8, StayStep

-----------------------------------------------------------------------------
(***************************************************************************)
(* Steps that keep a chain: the last word is done.                         *)
(***************************************************************************)

\* The chain that the word is at, with my-self s, is kept, if it is one.
Keeps(x, e) ==
  \/ x = None /\ UNCHANGED <<held, leftOpen>>
  \/ /\ x # None /\ x # e
     /\ \/ held' = held \union {<<x, e>>} /\ leftOpen' = leftOpen
        \/ e = None /\ leftOpen' = leftOpen \union {x} /\ held' = held

LEMMA ReturnStep ==
  ASSUME Typed, Good, NEW w, LastWord(calls, w), NEW l \in Nat, w = l + 1, l >= 1,
         calls[l].op \in Code, calls' = SubSeq(calls, 1, l), mySelf' = calls[l].at,
         NEW s, Strung(parent', live', calls, s, Kept), Single(parent', calls, s),
         Heap(parent'), live' \in SUBSET Ihandles,
         NEW x, x = SelfAt(calls, s, w), Keeps(x, At(calls, w)),
         opened' \subseteq live', opened' \ opened \subseteq {x}
  PROVE  Good'
<1> DEFINE e == At(calls, w)
           k == <<x, e>>
<1>1. /\ Piled(calls) /\ NotYet(calls, opened) /\ Len(calls) \in Nat
      /\ w \in 1..Len(calls) /\ l \in 1..Len(calls) /\ Waits(calls, w)
      /\ \A i \in leftOpen : <<i, None>> \notin held
  BY Given DEF LastWord
<1>2. /\ Tree(parent', live') /\ Alive(parent', live', calls, s, Kept)
      /\ Apart(parent', calls, s, Kept)
  BY DEF Strung
<1>3. Piled(calls') /\ Len(calls') = l /\ Agree(calls, calls', l)
  BY <1>1, CutDown
<1>4. Came(calls, s, calls', mySelf', w) /\ Stay(calls, s, calls', mySelf', w)
  <2>1. \A n \in w..Len(calls') : FALSE
    BY <1>3
  <2>2. \A n \in w + 1..Len(calls') : FALSE
    BY <1>3
  <2>3. calls' \in Seq(Frame)
    BY <1>3 DEF Piled
  <2>4. l <= Len(calls')
    BY <1>3
  <2> QED
    BY <1>1, <1>3, <2>1, <2>2, <2>3, <2>4, Rebuilt
<1>5. /\ \A n \in 1..l : At(calls, n) \in live' \union {None}
      /\ l \in 1..l
  BY <1>1, <1>2 DEF Alive, AllIn
<1>6. AllIn(calls', live') /\ mySelf' \in live' \union {None}
  <2>1. \A n \in w..Len(calls') : FALSE
    BY <1>3
  <2>2. AllIn(calls', live')
    BY <1>3, <1>5, <2>1, AllStill
  <2> QED
    BY <1>5, <2>2 DEF At
<1>7. ASSUME x # None, x # e
      PROVE  (\A n \in 1..w : At(calls, n) # x) /\ \A h \in Kept : From(h) # x
  <2>1. x \in live'
    BY <1>1, <1>2, <1>7, SelfAlive DEF Alive
  <2> QED
    BY <1>2, <1>7, <2>1, OnlyHere
<1>8. \/ Kept' = Kept /\ x = None
      \/ Kept' = Kept \union {k} /\ x # None /\ x # e
  BY DEF Keeps, Kept
<1>9. Strung(parent', live', calls', mySelf', Kept')
  <2>1. From(k) = x /\ To(k) = e
    BY DEF From, To
  <2>2. Len(calls') < w /\ Len(calls') \in Nat
    BY <1>3
  <2> HIDE DEF k, e
  <2>3. From(k) = SelfAt(calls, s, w) /\ To(k) = At(calls, w)
    BY <2>1 DEF e
  <2>4. \/ Kept' = Kept /\ From(k) = None
        \/ Kept' = Kept \union {k} /\ From(k) # None /\ From(k) # To(k)
    BY <1>8, <2>1
  <2> QED
    BY <1>1, <1>4, <1>6, <2>2, <2>3, <2>4, Returned
<1>10. Single(parent', calls', mySelf')
  <2>1. AlikeOn(parent', parent', live')
    BY DEF AlikeOn
  <2>2. w \notin 1..Len(calls')
    BY <1>3
  <2>3. Len(calls') \in Nat
    BY <1>3
  <2>4. \A n \in 1..Len(calls') : SelfAt(calls', mySelf', n) \in live' \union {None}
    BY <1>6, <2>3, SelfAlive
  <2>5. Single(parent', calls, s)
    OBVIOUS
  <2>6. \A n \in 1..Len(calls') :
          Waits(calls', n) /\ n # w => SelfAt(calls', mySelf', n) \in live' \union {None}
    BY <2>4
  <2> QED
    BY ONLY <1>4, <2>1, <2>2, <2>3, <2>5, <2>6, NextSingle
<1>11. NotYet(calls', opened')
  <2>1. \A n \in 1..l : At(calls, n) \notin opened' \ opened
    <3>1. CASE x = None \/ x = e
      <4>1. x \notin opened' \/ x = e
        BY <3>1
      <4>2. x = None
        BY <3>1, <1>8
      <4> QED
        BY <4>2
    <3>2. CASE x # None /\ x # e
      BY <3>2, <1>7
    <3> QED
      BY <3>1, <3>2
  <2>2. \A n \in w..Len(calls') : FALSE
    BY <1>3
  <2>3. l <= Len(calls) /\ Len(calls') \in Nat
    BY <1>1, <1>3
  <2> QED
    BY <1>1, <1>3, <2>1, <2>2, <2>3, StillNotYet
<1>12. \A i \in leftOpen' : <<i, None>> \notin held'
  <2>1. ASSUME x # None, x # e
        PROVE  <<x, e>> \notin held /\ (e = None => x \notin leftOpen)
    <3>1. <<x, e>> \notin Kept
      BY <2>1, <1>7 DEF From
    <3> QED
      BY <3>1 DEF Kept
  <2>2. ASSUME NEW i \in leftOpen, x # None, x # e
        PROVE  <<i, None>> # <<x, e>>
    BY <2>1, <2>2
  <2> QED
    BY <1>1, <2>1, <2>2 DEF Keeps
<1> QED
  BY <1>3, <1>9, <1>10, <1>11, <1>12 DEF Good, Heaped, Stacked, Stands, Code, Caught

LEMMA ResultKeeps ==
  ASSUME NEW x \in Selves, Result(x)
  PROVE  Keeps(x, None) /\ calls' = Below(1) /\ mySelf' = Top.saved
<1>1. ({x} \ {None}) \X {None} = IF x = None THEN {} ELSE {<<x, None>>}
  OBVIOUS
<1>2. {x} \ {None} = IF x = None THEN {} ELSE {x}
  OBVIOUS
<1> QED
  BY <1>1, <1>2 DEF Result, Keeps

LEMMA NoPackageStep ==
  ASSUME Typed, Good, NoPackage
  PROVE  Good'
<1> DEFINE L == Len(calls)
           l == L - 1
<1>1. /\ Top.op = "path" /\ Result(mySelf) /\ parent' = parent /\ live' = live /\ opened' = opened
  BY DEF NoPackage, heap
<1>2. /\ L \in Nat /\ L >= 2 /\ Fits(calls[l], calls[L]) /\ calls[L].saved = calls[l].at
      /\ calls[l].op \in Code /\ LastWord(calls, L) /\ SelfAt(calls, mySelf, L) = mySelf
  BY <1>1, Given, TopWord DEF Top, LayerOps
<1>3. At(calls, L) = None
  BY <1>1, <1>2 DEF Fits, At, Top
<1>4. Keeps(mySelf, None) /\ calls' = SubSeq(calls, 1, l) /\ mySelf' = calls[l].at
  <2>1. mySelf \in Selves
    BY DEF Typed
  <2>2. Keeps(mySelf, None) /\ calls' = Below(1) /\ mySelf' = Top.saved
    BY <1>1, <2>1, ResultKeeps
  <2> QED
    BY <1>2, <2>2 DEF Below, Top
<1>5. l \in Nat /\ L = l + 1 /\ l >= 1
  BY <1>2
<1>6. /\ Strung(parent', live', calls, mySelf, Kept) /\ Single(parent', calls, mySelf)
      /\ Heap(parent') /\ live' \in SUBSET Ihandles /\ opened' \subseteq live'
  BY <1>1, Given
<1>7. opened' \ opened \subseteq {mySelf}
  BY <1>1
<1> HIDE DEF L, l
<1> QED
  BY <1>2, <1>3, <1>4, <1>5, <1>6, <1>7, ReturnStep

\* A successful `open`, and the word that has called it is done.
LEMMA OpenedStep ==
  ASSUME Typed, Good, Top.op = "open", opened' = opened \union {mySelf}, calls' = Below(2),
         UNCHANGED <<heap, leftOpen>>, held' = held \union {<<mySelf, Caller.at>>},
         mySelf' = Caller.saved
  PROVE  Good'
<1> DEFINE L == Len(calls)
           w == L - 1
           l == L - 2
<1>1. /\ L \in Nat /\ L >= 3 /\ calls[w].saved = calls[l].at
      /\ calls[l].op \in Code /\ LastWord(calls, w) /\ SelfAt(calls, mySelf, w) = mySelf
      /\ mySelf \notin {None, At(calls, w)}
  BY Given, TopCaught DEF Top, Caught
<1>2. mySelf \in live /\ opened \subseteq live /\ parent' = parent /\ live' = live
  BY <1>1, Given DEF heap
<1>3. Keeps(mySelf, At(calls, w)) /\ calls' = SubSeq(calls, 1, l) /\ mySelf' = calls[l].at
  BY <1>1 DEF Keeps, Below, Caller, At
<1>4. l \in Nat /\ w = l + 1 /\ l >= 1
  BY <1>1
<1>5. /\ Strung(parent', live', calls, mySelf, Kept) /\ Single(parent', calls, mySelf)
      /\ Heap(parent') /\ live' \in SUBSET Ihandles /\ opened' \subseteq live'
  BY <1>2, Given
<1>6. opened' \ opened \subseteq {mySelf}
  OBVIOUS
<1> HIDE DEF L, l, w
<1> QED
  BY <1>1, <1>3, <1>4, <1>5, <1>6, ReturnStep

LEMMA PathOpenedStep ==
  ASSUME Typed, Good, Top.op = "open", Caller.op = "path",
         opened' = opened \union {mySelf}, calls' = Below(2), mySelf' = Caller.saved,
         held' = held \union {<<mySelf, None>>}, UNCHANGED <<heap, leftOpen>>
  PROVE  Good'
<1>1. Fits(calls[Len(calls) - 2], Caller)
  BY Given, TopCaught DEF Top, Caught, Caller
<1>2. Caller.at = None
  BY <1>1 DEF Fits
<1> QED
  BY <1>2, OpenedStep

\* What the package's `open` has left is directly below the caller's instance.
LEMMA PackageSelf ==
  ASSUME Typed, Good, Top.op = "open", Caller.op = "package", Caller.stage # "interposed"
  PROVE  /\ parent[mySelf] = Caller.at /\ Caller.at = Caller.saved /\ mySelf \in live
         /\ mySelf # Caller.at
<1> DEFINE w == Len(calls) - 1
<1>1. /\ Fits(calls[Len(calls) - 2], Caller) /\ w \in 1..Len(calls) /\ SelfAt(calls, mySelf, w) = mySelf
      /\ mySelf \notin {None, At(calls, w)}
      /\ Caller.saved = calls[Len(calls) - 2].at
  BY Given, TopCaught DEF Top, Caught, Caller
<1>2. ParentIn(parent, mySelf) = At(calls, w)
  BY <1>1, Given DEF Single, Caller
<1> QED
  BY <1>1, <1>2, Given DEF Fits, ParentIn, At, Caller

LEMMA PackageDoneStep ==
  ASSUME Typed, Good, Top.op = "open", Caller.op = "package", Caller.stage # "interposed",
         opened' = opened \union {mySelf}, calls' = Below(2), mySelf' = parent[mySelf],
         held' = held \union {<<mySelf, Caller.at>>}, UNCHANGED <<heap, leftOpen>>
  PROVE  Good'
<1>1. mySelf' = Caller.saved
  BY PackageSelf
<1> QED
  BY <1>1, OpenedStep

-----------------------------------------------------------------------------
(***************************************************************************)
(* Steps that make an instance, which the last word goes on to.            *)
(***************************************************************************)

LEMMA NewChild ==
  ASSUME Typed, NEW i \in Ihandles, NewInstance(i)
  PROVE  /\ Heap(parent) /\ Heap(parent') /\ live \in SUBSET Ihandles /\ live' \in SUBSET Ihandles
         /\ Reparented(parent, parent', i, mySelf) /\ i \notin live /\ live' = live \union {i}
<1>1. mySelf \in Selves /\ parent \in [Ihandles -> Selves] /\ live \in SUBSET Ihandles
  BY DEF Typed
<1>2. parent' = [parent EXCEPT ![i] = mySelf] /\ i \notin live /\ live' = live \union {i}
  BY DEF NewInstance
<1>3. parent' \in [Ihandles -> Selves]
  BY <1>1, <1>2
<1> QED
  BY <1>1, <1>2, <1>3 DEF Heap, Reparented, ParentIn

\* c is what runs, or has the package's word on top of it.
LEMMA GrowStep ==
  ASSUME Typed, opened \subseteq live, \A j \in leftOpen : <<j, None>> \notin held,
         NEW c, Piled(c), Strung(parent, live, c, mySelf, Kept), Single(parent, c, mySelf),
         NotYet(c, opened), NEW w, LastWord(c, w), NEW l \in Nat, w = l + 1, l >= 1,
         c[l].op \in Code, SelfAt(c, mySelf, w) = mySelf,
         NEW i \in Ihandles, NewInstance(i), mySelf' = i,
         calls' \in Seq(Frame), Len(calls') = w + 1, Agree(c, calls', l),
         calls'[w].op = c[w].op, calls'[w].at = c[w].at,
         calls'[w].op = "package" => calls'[w].stage = "interposed" \/ mySelf = At(c, w),
         Fits(calls'[l], calls'[w]), Fits(calls'[w], calls'[w + 1]),
         calls'[w + 1].op \in Caught, calls'[w + 1].at = i,
         UNCHANGED <<held, leftOpen>>,
         \/ opened' = opened
         \/ mySelf \notin {None, At(c, w)} /\ opened' = opened \union {mySelf}
  PROVE  Good'
<1>1. /\ Heap(parent) /\ Heap(parent') /\ live \in SUBSET Ihandles /\ live' \in SUBSET Ihandles
      /\ Reparented(parent, parent', i, mySelf) /\ i \notin live /\ live' = live \union {i}
  BY NewChild
<1>2. /\ Tree(parent, live) /\ Alive(parent, live, c, mySelf, Kept)
      /\ Apart(parent, c, mySelf, Kept)
  BY DEF Strung
<1>3. /\ Len(c) \in Nat /\ w \in 1..Len(c) /\ Waits(c, w) /\ l \in 1..Len(c) /\ l \in 1..l
      /\ w \in Nat
  BY PiledFacts DEF LastWord
<1>4. calls'[w + 1].op \notin LayerOps /\ calls'[w + 1].op \in Code
  BY DEF Caught, Code, LayerOps
<1>5. /\ Piled(calls') /\ Len(calls') \in Nat
      /\ Came(c, mySelf, calls', mySelf', w) /\ Stay(c, mySelf, calls', mySelf', w)
  <2>1. \A n \in w..Len(calls') : (n = w /\ n - 1 = l) \/ (n = w + 1 /\ n - 1 = w)
    BY <1>3
  <2>2. \A n \in w..Len(calls') : Fits(calls'[n - 1], calls'[n])
    BY <2>1
  <2>3. \A n \in w + 1..Len(calls') : ~Waits(calls', n)
    <3>1. \A n \in w + 1..Len(calls') : n = w + 1
      BY <1>3
    <3> QED
      BY <3>1, <1>4 DEF Waits
  <2>4. l <= Len(calls')
    OBVIOUS
  <2> QED
    BY <2>2, <2>3, <2>4, Rebuilt
<1>6. Stacked(calls', mySelf')
  BY <1>3, <1>4, <1>5 DEF Stacked, Stands, LayerOps
<1>7. SelfAt(calls', mySelf', w) = i /\ Waits(calls', w) /\ w <= Len(calls') /\ w \in 1..Len(calls')
  BY <1>3 DEF SelfAt, At, Waits
<1>8. \A n \in 1..w : At(calls', n) = At(c, n)
  <2>1. \A n \in 1..w : n = w \/ n \in 1..l
    BY <1>3
  <2> QED
    BY <2>1 DEF Agree, At
<1>9. AllIn(calls', live') /\ mySelf' \in live' \union {None}
  <2>1. \A n \in 1..w : At(c, n) \in live \union {None}
    BY <1>2, <1>3 DEF Alive, AllIn
  <2>2. \A n \in 1..Len(calls') : n \in 1..w \/ n = w + 1
    BY <1>3
  <2> QED
    BY <1>1, <1>8, <2>1, <2>2 DEF AllIn, At
<1>10. /\ Strung(parent', live', calls', mySelf', Kept) /\ AlikeOn(parent, parent', live)
       /\ ParentIn(parent', i) = mySelf
  <2>1. /\ Strung(parent, live, c, mySelf, Kept) /\ i \in Ihandles /\ mySelf = SelfAt(c, mySelf, w)
        /\ mySelf' = i
    OBVIOUS
  <2> QED
    BY ONLY <2>1, <1>1, <1>3, <1>5, <1>7, <1>8, <1>9, Grown
<1>11. Single(parent', calls', mySelf')
  <2>1. \A n \in 1..Len(calls') :
          Waits(calls', n) /\ n # w => SelfAt(calls', mySelf', n) \in live \union {None}
    <3> SUFFICES ASSUME NEW n \in 1..Len(calls'), Waits(calls', n), n # w
                 PROVE  SelfAt(calls', mySelf', n) \in live \union {None}
      OBVIOUS
    <3>1. Same(c, mySelf, calls', mySelf', n)
      BY <1>5 DEF Came
    <3>2. n \in 1..Len(c) /\ SelfAt(calls', mySelf', n) = SelfAt(c, mySelf, n)
      BY <3>1 DEF Same
    <3> QED
      BY <3>2, <1>2, <1>3, SelfAlive DEF Alive
  <2>2. w \in 1..Len(calls') /\ calls'[w].op = "package" =>
          \/ calls'[w].stage = "interposed"
          \/ /\ SelfAt(calls', mySelf', w) # None
             /\ ParentIn(parent', SelfAt(calls', mySelf', w)) = At(calls', w)
    BY <1>3, <1>7, <1>8, <1>10
  <2>3. Single(parent, c, mySelf)
    OBVIOUS
  <2> QED
    BY ONLY <1>5, <1>10, <2>1, <2>2, <2>3, NextSingle
<1>12. opened' \subseteq live
  <2>1. mySelf \in live \union {None}
    BY <1>2 DEF Alive
  <2> QED
    BY <2>1
<1>13. NotYet(calls', opened')
  <2>1. \A n \in 1..l : At(c, n) \notin opened' \ opened
    <3>1. CASE mySelf \notin {None, At(c, w)}
      <4>1. mySelf \in live
        BY <3>1, <1>2 DEF Alive
      <4>2. \A n \in 1..w : At(c, n) # mySelf
        BY <1>1, <1>2, <3>1, <4>1, OnlyHere
      <4>3. \A n \in 1..l : n \in 1..w
        BY <1>3
      <4> QED
        BY <4>2, <4>3
    <3> QED
      BY <3>1
  <2>2. \A n \in w..Len(calls') : calls'[n].op \in Caught => At(calls', n) \notin opened'
    <3>1. \A n \in w..Len(calls') : n = w \/ n = w + 1
      BY <1>3
    <3>2. calls'[w].op \notin Caught
      BY <1>7 DEF Waits, Caught, LayerOps
    <3>3. i \notin opened'
      BY <1>1, <1>12
    <3> QED
      BY <3>1, <3>2, <3>3 DEF At
  <2>3. l <= Len(c)
    BY <1>3
  <2> QED
    BY <1>3, <1>5, <2>1, <2>2, <2>3, StillNotYet
<1>14. Kept' = Kept /\ opened' \subseteq live' /\ \A j \in leftOpen' : <<j, None>> \notin held'
  BY <1>1, <1>12 DEF Kept
<1> QED
  BY <1>6, <1>10, <1>11, <1>13, <1>14 DEF Good, Heaped

OnTop(d, f) == d[Len(d)] = f

LEMMA Added ==
  ASSUME NEW c \in Seq(Frame), NEW n \in 1..Len(c), NEW g \in Frame,
         NEW d, d = Append(SubSeq(c, 1, n), g)
  PROVE  d \in Seq(Frame) /\ Len(d) = n + 1 /\ Agree(c, d, n) /\ OnTop(d, g)
<1> DEFINE b == SubSeq(c, 1, n)
<1>1. b \in Seq(Frame) /\ Len(b) = n /\ \A m \in 1..n : b[m] = c[m]
  OBVIOUS
<1> HIDE DEF b
<1>2. d = Append(b, g)
  BY DEF b
<1> QED
  BY <1>1, <1>2 DEF Agree, OnTop

LEMMA Replaced ==
  ASSUME NEW c \in Seq(Frame), NEW l \in Nat, l + 1 <= Len(c), NEW f \in Frame,
         NEW d, d = SubSeq(c, 1, l) \o <<f>>
  PROVE  d \in Seq(Frame) /\ Len(d) = l + 1 /\ Agree(c, d, l) /\ OnTop(d, f)
<1> DEFINE b == SubSeq(c, 1, l)
           e == <<f>>
<1>1. b \in Seq(Frame) /\ Len(b) = l /\ \A m \in 1..l : b[m] = c[m]
  OBVIOUS
<1>2. e \in Seq(Frame) /\ Len(e) = 1 /\ e[1] = f
  OBVIOUS
<1> HIDE DEF b, e
<1>3. d = b \o e
  BY DEF b, e
<1>4. d \in Seq(Frame) /\ Len(d) = l + 1 /\ d[l + 1] = f /\ \A m \in 1..l : d[m] = b[m]
  BY <1>1, <1>2, <1>3
<1> QED
  BY <1>1, <1>4 DEF Agree, OnTop

LEMMA MoreThan ==
  ASSUME NEW c \in Seq(Frame), NEW g \in Frame, NEW d, d = Append(c, g)
  PROVE  d \in Seq(Frame) /\ Len(d) = Len(c) + 1 /\ Agree(c, d, Len(c)) /\ OnTop(d, g)
BY DEF Agree, OnTop

LEMMA AgreeLess ==
  ASSUME NEW c, NEW d, NEW l \in Nat, NEW n \in Nat, l <= n, Agree(c, d, n)
  PROVE  Agree(c, d, l) /\ (n >= 1 => d[n] = c[n])
BY DEF Agree

\* select-node, but for the last node of begin-open-dev.
LEMMA PathGrowsStep ==
  ASSUME Typed, Good, NEW i \in Ihandles, NewInstance(i), mySelf' = i,
         Top.op = "path", Top.stage = "select",
         NEW f, NEW op,
         \/ f = Top /\ op \in {"open", "apply"}
         \/ f = [Top EXCEPT !.stage = "last"] /\ op = "open",
         calls' \in Seq(Frame), Len(calls') = Len(calls) + 1, Agree(calls, calls', Len(calls) - 1),
         calls'[Len(calls)] = f, calls'[Len(calls) + 1] = Method(op, i),
         UNCHANGED <<held, leftOpen, opened>>
  PROVE  Good'
<1> DEFINE L == Len(calls)
           l == L - 1
<1>1. /\ L \in Nat /\ L >= 2 /\ calls[L] \in Frame /\ Fits(calls[l], calls[L]) /\ l \in 1..l
      /\ calls[l].op \in Code /\ LastWord(calls, L) /\ SelfAt(calls, mySelf, L) = mySelf
  BY Given, TopWord DEF Top, LayerOps
<1>2. /\ f.op = "path" /\ f.at = calls[L].at /\ f.saved = calls[L].saved /\ f.goal = calls[L].goal
      /\ f.stage \in {"select", "last"} /\ (op = "apply" => f.stage = "select") /\ f.at = None
  <2>1. calls[L].op = "path" /\ calls[L].stage = "select" /\ calls[L].at = None
    BY <1>1 DEF Top, Fits
  <2>2. CASE f = Top
    BY <2>1, <2>2 DEF Top
  <2>3. CASE f = [calls[L] EXCEPT !.stage = "last"] /\ op = "open"
    <3>1. "last" \in Stages
      BY DEF Stages
    <3> QED
      BY <1>1, <2>1, <2>3, <3>1, Staged
  <2> QED
    BY <2>2, <2>3 DEF Top
<1>3. Fits(calls'[l], f)
  <2>1. calls'[l] = calls[l] /\ calls[L].op = "path"
    BY <1>1 DEF Agree, Top
  <2> QED
    BY <1>1, <1>2, <2>1 DEF Fits, LayerOps, Caught
<1>4. /\ Method(op, i).op = op /\ Method(op, i).at = i /\ Method(op, i).saved = None
      /\ i # None /\ op \in {"open", "apply"} /\ op \in Caught
  BY DEF Method, Word, Caught
<1>5. Fits(f, Method(op, i))
  BY <1>2, <1>4 DEF Fits, LayerOps, Caught
<1>6. /\ Piled(calls) /\ Strung(parent, live, calls, mySelf, Kept) /\ opened \subseteq live
      /\ Single(parent, calls, mySelf) /\ NotYet(calls, opened)
      /\ \A j \in leftOpen : <<j, None>> \notin held
  BY Given
<1>7. l \in Nat /\ L = l + 1 /\ l >= 1
  BY <1>1
<1>8. calls'[L].op = calls[L].op /\ calls'[L].at = calls[L].at /\ calls'[L].op # "package"
  BY <1>2 DEF Top
<1> HIDE DEF L, l
<1> QED
  BY <1>1, <1>3, <1>4, <1>5, <1>6, <1>7, <1>8, GrowStep DEF L, l

\* begin-open-dev has made the instance of its last node.
LEMMA PathEndsStep ==
  ASSUME Typed, Good, NEW i \in Ihandles, NewInstance(i), Result(i), Top.op = "path",
         UNCHANGED opened
  PROVE  Good'
<1> DEFINE L == Len(calls)
           l == L - 1
<1>1. /\ L \in Nat /\ L >= 2 /\ calls[L] \in Frame /\ Fits(calls[l], calls[L]) /\ l \in 1..l
      /\ calls[l].op \in Code /\ LastWord(calls, L) /\ SelfAt(calls, mySelf, L) = mySelf
      /\ calls[L].saved = calls[l].at /\ L \in 1..L
  BY Given, TopWord DEF Top, LayerOps
<1>2. At(calls, L) = None /\ calls[L].op = "path" /\ Waits(calls, L)
  BY <1>1 DEF Top, Fits, At, LastWord
<1>3. l \in Nat /\ L = l + 1 /\ l >= 1
  BY <1>1
<1>4. /\ Heap(parent) /\ Heap(parent') /\ live \in SUBSET Ihandles /\ live' \in SUBSET Ihandles
      /\ Reparented(parent, parent', i, mySelf) /\ i \notin live /\ live' = live \union {i}
  BY NewChild
<1>5. Keeps(i, None) /\ calls' = SubSeq(calls, 1, l) /\ mySelf' = calls[l].at
  <2>1. i \in Selves
    BY DEF Selves
  <2>2. Keeps(i, None) /\ calls' = Below(1) /\ mySelf' = Top.saved
    BY <2>1, ResultKeeps
  <2> QED
    BY <1>1, <2>2 DEF Below, Top
<1>6. /\ Piled(calls) /\ Strung(parent, live, calls, mySelf, Kept) /\ opened \subseteq live
      /\ Single(parent, calls, mySelf) /\ AllIn(calls, live)
  BY Given
<1>7. SelfAt(calls, i, L) = i
  BY DEF SelfAt
<1>8. \A s, t : Came(calls, s, calls, t, L) /\ Stay(calls, s, calls, t, L)
  <2>1. calls \in Seq(Frame) /\ l <= Len(calls) /\ Agree(calls, calls, l)
    BY <1>3 DEF Typed, Agree
  <2>2. \A n \in L..Len(calls) : n = L /\ n - 1 = l
    BY <1>1
  <2>3. \A n \in L..Len(calls) : Fits(calls[n - 1], calls[n])
    BY <1>1, <2>2
  <2>4. \A n \in L + 1..Len(calls) : ~Waits(calls, n)
    BY <2>2, <1>1
  <2> HIDE DEF L, l
  <2> QED
    BY <1>1, <1>3, <1>6, <2>1, <2>3, <2>4, Rebuilt
<1>9. /\ Strung(parent', live', calls, i, Kept) /\ AlikeOn(parent, parent', live)
      /\ ParentIn(parent', i) = mySelf
  <2>1. AllIn(calls, live') /\ i \in live' \union {None}
    BY <1>4, <1>6 DEF AllIn
  <2>2. mySelf = SelfAt(calls, mySelf, L) /\ L <= Len(calls) /\ i \in Ihandles /\ Len(calls) \in Nat
        /\ L \in 1..Len(calls) /\ \A m \in 1..L : At(calls, m) = At(calls, m)
    BY <1>1
  <2>3. Came(calls, mySelf, calls, i, L) /\ Stay(calls, mySelf, calls, i, L)
    BY <1>8
  <2> HIDE DEF L
  <2> QED
    BY ONLY <1>2, <1>4, <1>6, <1>7, <2>1, <2>2, <2>3, Grown
<1>10. Single(parent', calls, i)
  <2>1. \A n \in 1..Len(calls) :
          Waits(calls, n) /\ n # L => SelfAt(calls, i, n) \in live \union {None}
    <3> SUFFICES ASSUME NEW n \in 1..Len(calls), n # L
                 PROVE  SelfAt(calls, i, n) \in live \union {None}
      OBVIOUS
    <3>1. SelfAt(calls, i, n) = SelfAt(calls, mySelf, n)
      BY DEF SelfAt
    <3> QED
      BY <3>1, <1>1, <1>6, SelfAlive, Given
  <2>2. ~(L \in 1..Len(calls) /\ calls[L].op = "package") /\ Len(calls) \in Nat
    BY <1>1, <1>2
  <2> QED
    BY ONLY <1>6, <1>8, <1>9, <2>1, <2>2, NextSingle
<1>11. opened' \subseteq live' /\ opened' \ opened \subseteq {i}
  BY <1>4, <1>6
<1> HIDE DEF L, l
<1> QED
  BY <1>1, <1>2, <1>3, <1>4, <1>5, <1>7, <1>9, <1>10, <1>11, ReturnStep

LEMMA SelectNodeStep ==
  ASSUME Typed, Good, NEW i \in Ihandles, SelectNode(i)
  PROVE  Good'
<1> DEFINE L == Len(calls)
<1>1. Top.op = "path" /\ Top.stage = "select" /\ NewInstance(i) /\ UNCHANGED opened
  BY DEF SelectNode
<1>2. L \in Nat /\ L >= 2 /\ calls \in Seq(Frame) /\ calls[L] \in Frame
  BY <1>1, Given, TopWord DEF Top, LayerOps, Typed
<1>3. ASSUME NEW op \in {"open", "apply"}
      PROVE  Method(op, i) \in Frame
  <2>1. op \in Ops /\ i \in Selves
    BY DEF Ops, Code, Caught, Selves
  <2> QED
    BY <2>1, MethodFrame
<1>4. ASSUME NEW op \in {"open", "apply"}, calls' = Append(calls, Method(op, i)),
             mySelf' = i, UNCHANGED <<held, leftOpen>>
      PROVE  Good'
  <2>1. calls' \in Seq(Frame) /\ Len(calls') = L + 1 /\ Agree(calls, calls', L)
        /\ calls'[L + 1] = Method(op, i)
    BY <1>2, <1>3, <1>4, MoreThan DEF OnTop
  <2>2. Agree(calls, calls', L - 1) /\ calls'[L] = Top
    BY <1>2, <2>1, AgreeLess DEF Top
  <2> QED
    BY <1>1, <1>4, <2>1, <2>2, PathGrowsStep
<1>5. ASSUME calls' = Append(Below(1) \o <<[Top EXCEPT !.stage = "last"]>>, Method("open", i)),
             mySelf' = i, UNCHANGED <<held, leftOpen>>
      PROVE  Good'
  <2> DEFINE f == [Top EXCEPT !.stage = "last"]
             b == Below(1) \o <<f>>
  <2>1. f \in Frame
    <3>1. "last" \in Stages
      BY DEF Stages
    <3> QED
      BY <1>2, <3>1, Staged DEF Top
  <2> HIDE DEF f
  <2>2. b \in Seq(Frame) /\ Len(b) = L /\ Agree(calls, b, L - 1) /\ b[L] = f
    <3>1. PICK l \in Nat : l = L - 1
      BY <1>2
    <3>2. b = SubSeq(calls, 1, l) \o <<f>> /\ l + 1 = L /\ l + 1 <= Len(calls)
      BY <1>2, <3>1 DEF Below
    <3> HIDE DEF b
    <3>3. b \in Seq(Frame) /\ Len(b) = l + 1 /\ Agree(calls, b, l) /\ OnTop(b, f)
      BY <1>2, <2>1, <3>2, Replaced
    <3> QED
      BY <3>1, <3>2, <3>3 DEF OnTop
  <2>3. calls' = Append(b, Method("open", i))
    BY <1>5 DEF f
  <2> HIDE DEF b
  <2>4. calls' \in Seq(Frame) /\ Len(calls') = L + 1 /\ Agree(b, calls', L)
        /\ calls'[L + 1] = Method("open", i)
    <3> DEFINE g == Method("open", i)
    <3>1. g \in Frame /\ calls' = Append(b, g) /\ b \in Seq(Frame)
      BY <1>3, <2>2, <2>3
    <3> HIDE DEF g
    <3>2. /\ calls' \in Seq(Frame) /\ Len(calls') = Len(b) + 1 /\ Agree(b, calls', Len(b))
          /\ OnTop(calls', g)
      BY <3>1, MoreThan
    <3>3. calls'[L + 1] = g
      BY <2>2, <3>2 DEF OnTop
    <3> QED
      BY <2>2, <3>2, <3>3 DEF g
  <2>5. Agree(calls, calls', L - 1) /\ calls'[L] = f
    <3>1. \A m \in 1..L - 1 : m \in 1..L
      BY <1>2
    <3> QED
      BY <1>2, <2>2, <2>4, <3>1 DEF Agree
  <2>6. f = [Top EXCEPT !.stage = "last"]
    BY DEF f
  <2> QED
    BY <1>1, <1>5, <2>4, <2>5, <2>6, PathGrowsStep
<1>6. CASE mySelf' = i /\ calls' = Append(calls, Method("open", i)) /\ UNCHANGED <<held, leftOpen>>
  BY <1>4, <1>6
<1>7. CASE mySelf' = i /\ calls' = Append(calls, Method("apply", i)) /\ UNCHANGED <<held, leftOpen>>
  BY <1>4, <1>7
<1>8. CASE Result(i)
  BY <1>1, <1>8, PathEndsStep
<1> QED
  BY <1>5, <1>6, <1>7, <1>8 DEF SelectNode

\* A successful `open` that has asked for another instance on top of its own.
LEMMA OpenGrowsStep ==
  ASSUME Typed, Good, NEW i \in Ihandles, NewInstance(i), mySelf' = i, Top.op = "open",
         opened' = opened \union {mySelf}, NEW f,
         \/ f = Caller /\ Caller.op = "path"
         \/ f = [Caller EXCEPT !.stage = "interposed"] /\ Caller.op = "package",
         calls' \in Seq(Frame), Len(calls') = Len(calls), Agree(calls, calls', Len(calls) - 2),
         calls'[Len(calls) - 1] = f, calls'[Len(calls)] = Method("open", i),
         UNCHANGED <<held, leftOpen>>
  PROVE  Good'
<1> DEFINE L == Len(calls)
           w == L - 1
           l == L - 2
<1>1. /\ L \in Nat /\ L >= 3 /\ calls[w] \in Frame /\ l \in 1..l /\ w \in 1..L
      /\ Fits(calls[l], calls[w]) /\ Fits(calls[w], calls[L])
      /\ calls[l].op \in Code /\ LastWord(calls, w) /\ SelfAt(calls, mySelf, w) = mySelf
      /\ mySelf \notin {None, At(calls, w)}
  BY Given, TopCaught DEF Top, Caught
<1>2. /\ f.op = calls[w].op /\ f.at = calls[w].at /\ f.saved = calls[w].saved
      /\ f.goal = calls[w].goal /\ (f.op = "path" => f.stage = calls[w].stage)
      /\ (f.op = "package" => f.stage = "interposed")
  <2>1. CASE f = calls[w] /\ calls[w].op = "path"
    BY <2>1
  <2>2. CASE f = [calls[w] EXCEPT !.stage = "interposed"] /\ calls[w].op = "package"
    <3>1. "interposed" \in Stages
      BY DEF Stages
    <3> QED
      BY <1>1, <2>2, <3>1, Staged
  <2> QED
    BY <2>1, <2>2 DEF Caller
<1>3. Fits(calls'[l], f)
  <2>1. calls'[l] = calls[l] /\ calls[w].op \in {"path", "package"}
    BY <1>1 DEF Agree, Caller
  <2> QED
    BY <1>1, <1>2, <2>1 DEF Fits, LayerOps, Caught
<1>4. /\ Method("open", i).op = "open" /\ Method("open", i).at = i
      /\ Method("open", i).saved = None /\ i # None /\ "open" \in Caught
  BY DEF Method, Word, Caught
<1>5. Fits(f, Method("open", i))
  <2>1. calls[w].op = "package" \/ (calls[w].op = "path" /\ calls[w].stage # "close")
    BY <1>1 DEF Fits, Top
  <2>2. f.at # i
    <3>1. calls[w].at \in live \union {None} /\ i \notin live
      BY <1>1, Given DEF AllIn, At, NewInstance
    <3> QED
      BY <3>1, <1>2
  <2> QED
    BY <1>2, <1>4, <2>1, <2>2 DEF Fits, LayerOps, Caught
<1>6. /\ Piled(calls) /\ Strung(parent, live, calls, mySelf, Kept) /\ opened \subseteq live
      /\ Single(parent, calls, mySelf) /\ NotYet(calls, opened)
      /\ \A j \in leftOpen : <<j, None>> \notin held
  BY Given
<1>7. l \in Nat /\ w = l + 1 /\ l >= 1 /\ Len(calls') = w + 1 /\ L = w + 1
  BY <1>1
<1>8. /\ calls'[w].op = calls[w].op /\ calls'[w].at = calls[w].at
      /\ (calls'[w].op = "package" => calls'[w].stage = "interposed")
      /\ calls'[w] = f /\ calls'[w + 1] = Method("open", i) /\ Agree(calls, calls', l)
  BY <1>2, <1>7
<1> HIDE DEF L, l, w
<1> QED
  BY <1>1, <1>3, <1>4, <1>5, <1>6, <1>7, <1>8, GrowStep

LEMMA NodeInterposedStep ==
  ASSUME Typed, Good, Top.op = "open", Caller.op = "path", opened' = opened \union {mySelf},
         NEW i \in Ihandles, NewInstance(i), mySelf' = i,
         calls' = Append(Below(1), Method("open", i)), UNCHANGED <<held, leftOpen>>
  PROVE  Good'
<1> DEFINE L == Len(calls)
<1>1. L \in Nat /\ L >= 3 /\ calls \in Seq(Frame) /\ L - 1 \in 1..L
  BY Given, TopCaught DEF Top, Caught, Typed
<1>2. Method("open", i) \in Frame
  <2>1. "open" \in Ops /\ i \in Selves
    BY DEF Ops, Code, Caught, Selves
  <2> QED
    BY <2>1, MethodFrame
<1>3. PICK w \in 1..L : w = L - 1
  BY <1>1
<1>4. calls' = Append(SubSeq(calls, 1, w), Method("open", i))
  BY <1>3 DEF Below
<1>5. /\ calls' \in Seq(Frame) /\ Len(calls') = w + 1 /\ Agree(calls, calls', w)
      /\ OnTop(calls', Method("open", i))
  BY <1>1, <1>2, <1>4, Added
<1>6. Len(calls') = L /\ calls'[L] = Method("open", i)
  BY <1>1, <1>3, <1>5 DEF OnTop
<1>7. Agree(calls, calls', L - 2) /\ calls'[L - 1] = Caller
  <2>1. L - 2 \in Nat /\ w \in Nat /\ L - 2 <= w /\ w >= 1
    BY <1>1, <1>3
  <2>2. (\A m \in 1..L - 2 : m \in 1..w) /\ w \in 1..w
    BY <2>1
  <2>3. Agree(calls, calls', L - 2)
    BY <1>5, <2>2 DEF Agree
  <2>4. calls'[w] = calls[w]
    BY <1>5, <2>2 DEF Agree
  <2> QED
    BY <1>3, <2>3, <2>4 DEF Caller
<1> QED
  BY <1>5, <1>6, <1>7, OpenGrowsStep

LEMMA PackageInterposedStep ==
  ASSUME Typed, Good, Top.op = "open", Caller.op = "package", opened' = opened \union {mySelf},
         NEW i \in Ihandles, NewInstance(i), mySelf' = i,
         calls' = Append(Below(2) \o <<[Caller EXCEPT !.stage = "interposed"]>>, Method("open", i)),
         UNCHANGED <<held, leftOpen>>
  PROVE  Good'
<1> DEFINE L == Len(calls)
           f == [Caller EXCEPT !.stage = "interposed"]
           b == Below(2) \o <<f>>
           g == Method("open", i)
<1>1. L \in Nat /\ L >= 3 /\ calls \in Seq(Frame) /\ Caller \in Frame
  BY Given, TopCaught DEF Top, Caught, Typed, Caller
<1>2. g \in Frame
  <2>1. "open" \in Ops /\ i \in Selves
    BY DEF Ops, Code, Caught, Selves
  <2> QED
    BY <2>1, MethodFrame
<1>3. f \in Frame
  <2>1. "interposed" \in Stages
    BY DEF Stages
  <2> QED
    BY <1>1, <2>1, Staged
<1>4. PICK l \in Nat : l = L - 2
  <2>1. L - 2 \in Nat
    BY <1>1
  <2> QED
    BY <2>1
<1>5. b = SubSeq(calls, 1, l) \o <<f>> /\ l + 1 = L - 1 /\ l + 1 <= Len(calls)
  BY <1>1, <1>4 DEF Below
<1>6. calls' = Append(b, g) /\ f = [Caller EXCEPT !.stage = "interposed"]
  OBVIOUS
<1> HIDE DEF b, f
<1>7. b \in Seq(Frame) /\ Len(b) = l + 1 /\ Agree(calls, b, l) /\ OnTop(b, f)
  BY <1>1, <1>3, <1>5, Replaced
<1> HIDE DEF g
<1>8. /\ calls' \in Seq(Frame) /\ Len(calls') = Len(b) + 1 /\ Agree(b, calls', Len(b))
      /\ OnTop(calls', g)
  BY <1>2, <1>6, <1>7, MoreThan
<1>9. Len(calls') = L /\ calls'[L] = g
  BY <1>1, <1>5, <1>7, <1>8 DEF OnTop
<1>10. Agree(calls, calls', L - 2) /\ calls'[L - 1] = f
  <2>1. \A m \in 1..l : m \in 1..Len(b)
    BY <1>7
  <2>2. Agree(calls, calls', l)
    BY <1>7, <1>8, <2>1 DEF Agree
  <2>3. Len(b) \in 1..Len(b) /\ Len(b) = L - 1
    BY <1>5, <1>7
  <2> QED
    BY <1>4, <1>7, <1>8, <2>2, <2>3 DEF Agree, OnTop
<1>11. calls'[Len(calls)] = Method("open", i)
  BY <1>9 DEF g
<1> QED
  BY <1>6, <1>8, <1>9, <1>10, <1>11, OpenGrowsStep

\* open-package: its word begins at its end, as if something was interposed, and goes on to the
\* new instance.
LEMMA OpenPackageStep ==
  ASSUME Typed, Good, NEW i \in Ihandles, OpenPackage(i)
  PROVE  Good'
<1> DEFINE L == Len(calls)
           w == L + 1
           f == Word("package", mySelf, mySelf, "", "")
           u == Word("package", mySelf, mySelf, "", "interposed")
           g == Method("open", i)
           c == Append(calls, u)
<1>1. /\ Running /\ NewInstance(i) /\ mySelf' = i /\ calls' = calls \o <<f, g>>
      /\ UNCHANGED <<held, leftOpen>> /\ opened' = opened
  BY DEF OpenPackage
<1>2. /\ Piled(calls) /\ Strung(parent, live, calls, mySelf, Kept) /\ opened \subseteq live
      /\ Single(parent, calls, mySelf) /\ NotYet(calls, opened) /\ AllIn(calls, live)
      /\ \A j \in leftOpen : <<j, None>> \notin held
      /\ Heap(parent) /\ live \in SUBSET Ihandles /\ mySelf \in live \union {None}
      /\ calls \in Seq(Frame)
  BY Given DEF Typed
<1>3. /\ mySelf = calls[L].at /\ ~Waits(calls, L) /\ L \in Nat \ {0} /\ calls[L] \in Frame
      /\ L \in 1..L /\ calls[L].op \in Code
  BY <1>1, Given, TopCode DEF Running, Top
<1>4. /\ f \in Frame /\ f.op = "package" /\ f.at = mySelf /\ f.saved = mySelf
      /\ u \in Frame /\ u.op = "package" /\ u.at = mySelf /\ u.saved = mySelf
      /\ u.stage = "interposed"
  BY DEF Typed, Frame, Word, Selves, Ops
<1>5. g \in Frame /\ g.op = "open" /\ g.at = i /\ g.saved = None /\ i # None /\ i # mySelf
  <2>1. "open" \in Ops /\ i \in Selves
    BY DEF Ops, Code, Caught, Selves
  <2>2. g \in Frame /\ g.op = "open" /\ g.at = i /\ g.saved = None
    BY <2>1, MethodFrame
  <2> QED
    BY <2>2, <1>1, <1>2 DEF NewInstance
<1>6. /\ Fits(calls[L], f) /\ Fits(calls[L], u) /\ Fits(f, g)
  BY <1>3, <1>4, <1>5 DEF Fits, LayerOps, Caught
<1> HIDE DEF f, u, g
<1>7. /\ Piled(c) /\ Len(c) = w /\ c[w] = u /\ Agree(calls, c, L) /\ Len(c) \in Nat
  BY <1>2, <1>4, <1>6, Pushed
<1>8. /\ calls' \in Seq(Frame) /\ Len(calls') = w + 1 /\ calls'[w] = f /\ calls'[w + 1] = g
      /\ \A n \in 1..L : calls'[n] = calls[n]
  <2> DEFINE b == <<f, g>>
  <2>1. b \in Seq(Frame) /\ Len(b) = 2 /\ b[1] = f /\ b[2] = g
    BY <1>4, <1>5
  <2>2. calls' = calls \o b
    BY <1>1
  <2> HIDE DEF b
  <2> DEFINE e == calls'
  <2>3. calls \in Seq(Frame) /\ e = calls \o b /\ b \in Seq(Frame)
    BY <1>2, <2>1, <2>2
  <2> HIDE DEF e
  <2>4. /\ e \in Seq(Frame) /\ Len(e) = Len(calls) + Len(b)
        /\ (\A n \in 1..Len(calls) : e[n] = calls[n])
        /\ \A n \in 1..Len(b) : e[Len(calls) + n] = b[n]
    BY ONLY <2>3
  <2>5. e = calls'
    BY DEF e
  <2>6. e[Len(calls) + 1] = b[1] /\ e[Len(calls) + 2] = b[2]
    BY <2>1, <2>4
  <2>7. L \in Nat /\ L + 2 = w + 1
    BY <1>3
  <2> QED
    BY <2>1, <2>4, <2>5, <2>6, <2>7
<1>9. c[L] = calls[L] /\ \A n \in 1..Len(c) : n = w \/ (n \in 1..L /\ c[n] = calls[n])
  BY <1>3, <1>7 DEF Agree
<1>10. Agree(c, calls', L)
  BY <1>3, <1>7, <1>8 DEF Agree
<1> HIDE DEF c
<1>11. LastWord(c, w) /\ SelfAt(c, mySelf, w) = mySelf /\ At(c, w) = mySelf
  BY <1>3, <1>4, <1>7 DEF LastWord, Waits, LayerOps, SelfAt, At
<1>12. Came(calls, mySelf, c, mySelf, w) /\ Stay(calls, mySelf, c, mySelf, w)
  <2>1. OnlyWord(c, L, w) /\ OnlyWord(calls, L, w) /\ L <= Len(c) /\ L \in 1..Len(calls)
    BY <1>3, <1>7 DEF OnlyWord
  <2> QED
    BY <1>3, <1>7, <2>1, WordsBelow
<1>13. Idle(c, mySelf, w) /\ w \notin 1..L
  BY <1>3, <1>11 DEF Idle
<1>14. CameIdle(calls, mySelf, c, mySelf) /\ StayIdle(calls, mySelf, c, mySelf)
  BY <1>12, <1>13 DEF Came, Stay, CameIdle, StayIdle
<1>15. AllIn(c, live) /\ NotYet(c, opened)
  <2>1. u.op \notin Caught
    BY <1>4 DEF Caught
  <2> QED
    BY <1>2, <1>7, <1>9, <1>11, <2>1 DEF AllIn, NotYet, At
<1>16. Strung(parent, live, c, mySelf, Kept)
  BY <1>2, <1>3, <1>7, <1>14, <1>15, Unmoved
<1>17. Single(parent, c, mySelf)
  <2>1. \A n \in 1..Len(c) : c[n].op = "package" =>
          Same(calls, mySelf, c, mySelf, n) \/ c[n].stage = "interposed"
    BY <1>4, <1>7, <1>12 DEF Came, Waits, LayerOps
  <2> QED
    BY <1>2, <1>7, <2>1, SingleSame
<1>18. /\ c[L].op \in Code /\ calls'[w].op = c[w].op /\ calls'[w].at = c[w].at
       /\ mySelf = At(c, w) /\ Fits(calls'[L], calls'[w]) /\ Fits(calls'[w], calls'[w + 1])
       /\ calls'[w + 1].op \in Caught /\ calls'[w + 1].at = i
  BY <1>3, <1>4, <1>5, <1>6, <1>7, <1>8, <1>9, <1>11 DEF Caught
<1>19. L \in Nat /\ w = L + 1 /\ L >= 1
  BY <1>3
<1> HIDE DEF L, w
<1> QED
  BY <1>1, <1>2, <1>7, <1>8, <1>10, <1>11, <1>15, <1>16, <1>17, <1>18, <1>19, GrowStep

-----------------------------------------------------------------------------
(***************************************************************************)
(* Steps that destroy an instance, whose parent the last word goes on to.  *)
(***************************************************************************)

LEMMA DestroyIs ==
  ASSUME Typed, Good, NEW S, Destroy(S), leftOpen' = leftOpen, NEW D, D = Felled(parent, live, S)
  PROVE  /\ Pruned(parent, parent', D) /\ live' = live \ D
         /\ opened' = opened \ D /\ held' = {h \in held : From(h) \notin D}
         /\ EndsNowhere(Kept, D) => Kept' = Left(Kept, D)
<1>1. Gone(S) = D
  BY ChainIs DEF Gone, Felled
<1>2. /\ live' = live \ D /\ opened' = opened \ D /\ held' = {h \in held : From(h) \notin D}
      /\ parent' = [j \in Ihandles |-> IF j \in D THEN None ELSE parent[j]]
  BY <1>1 DEF Destroy, From
<1>3. parent \in [Ihandles -> Selves] /\ None \in Selves
  BY DEF Typed, Selves
<1>4. Pruned(parent, parent', D)
  <2>1. parent' \in [Ihandles -> Selves]
    BY <1>2, <1>3
  <2>2. \A j \in Ihandles : parent'[j] = IF j \in D THEN None ELSE parent[j]
    BY <1>2
  <2> QED
    BY <2>1, <2>2 DEF Pruned, Heap, ParentIn
<1>5. ASSUME EndsNowhere(Kept, D)
      PROVE  Kept' = Left(Kept, D)
  <2>1. \A k \in leftOpen \X {None} : From(k) \notin D
    BY <1>5 DEF EndsNowhere, Kept, To
  <2> QED
    BY <1>2, <2>1 DEF Kept, Left
<1> QED
  BY <1>2, <1>4, <1>5

\* The method that the last word has called is done, and the word or what it was at goes.
LEMMA ShrinkStep ==
  ASSUME Typed, Good, NEW w, LastWord(calls, w), NEW l \in Nat, w = l + 1,
         l >= 1, calls[l].op \in Code, SelfAt(calls, mySelf, w) = mySelf, mySelf # At(calls, w),
         mySelf # None, calls' \in Seq(Frame), Agree(calls, calls', l), NEW S, Destroy(S),
         \/ /\ Len(calls') = w /\ Fits(calls'[l], calls'[w]) /\ Stands(calls'[w])
            /\ calls'[w].op = calls[w].op /\ calls'[w].at = calls[w].at
            /\ S = {mySelf} /\ mySelf' = parent[mySelf]
         \/ /\ Len(calls') = l /\ mySelf' = calls[l].at
            /\ S = Segment(parent, calls, mySelf, w) /\ mySelf' = At(calls, w),
         UNCHANGED leftOpen
  PROVE  Good'
<1>2. /\ Piled(calls) /\ Strung(parent, live, calls, mySelf, Kept) /\ opened \subseteq live
      /\ Single(parent, calls, mySelf) /\ NotYet(calls, opened) /\ Len(calls) \in Nat
      /\ \A j \in leftOpen : <<j, None>> \notin held
      /\ Heap(parent) /\ live \in SUBSET Ihandles /\ mySelf \in live
  BY Given
<1> DEFINE D == Felled(parent, live, S)
<1>1. /\ Pruned(parent, parent', D) /\ live' = live \ D
      /\ opened' = opened \ D /\ held' = {h \in held : From(h) \notin D}
      /\ EndsNowhere(Kept, D) => Kept' = Left(Kept, D)
  BY DestroyIs
<1>3. /\ w \in 1..Len(calls) /\ Waits(calls, w) /\ l \in 1..Len(calls) /\ l \in 1..l
      /\ w \in Nat
  BY <1>2 DEF LastWord
<1>4. /\ Piled(calls') /\ Len(calls') \in Nat
      /\ Came(calls, mySelf, calls', mySelf', w) /\ Stay(calls, mySelf, calls', mySelf', w)
  <2>1. \A n \in w..Len(calls') : n = w /\ n - 1 = l
    BY <1>3
  <2>2. \A n \in w..Len(calls') : Fits(calls'[n - 1], calls'[n])
    BY <2>1, <1>3
  <2>3. \A n \in w + 1..Len(calls') : ~Waits(calls', n)
    BY <1>3
  <2>4. l <= Len(calls')
    BY <1>3
  <2> QED
    BY <1>2, <2>2, <2>3, <2>4, Rebuilt
<1>5. Stacked(calls', mySelf')
  <2>1. CASE Len(calls') = w /\ Stands(calls'[w]) /\ calls'[w].op = calls[w].op
    BY <2>1, <1>3, <1>4 DEF Stacked, Waits, LayerOps, Code, Caught
  <2>2. CASE Len(calls') = l /\ mySelf' = calls[l].at
    <3>1. calls'[l] = calls[l]
      BY <1>3 DEF Agree
    <3> QED
      BY <2>2, <3>1, <1>4 DEF Stacked, Stands, Code, Caught
  <2> QED
    BY <2>1, <2>2
<1>6. \A m \in 1..Len(calls') : At(calls', m) = At(calls, m)
  <2>1. \A m \in 1..Len(calls') : m \in 1..l \/ (m = w /\ Len(calls') = w)
    BY <1>3
  <2> QED
    BY <2>1 DEF Agree, At
<1>7. /\ Strung(parent', live', calls', mySelf', Kept') /\ AlikeOn(parent, parent', live')
      /\ Kept' = Left(Kept, D)
  <2>1. mySelf = SelfAt(calls, mySelf, w) /\ mySelf # At(calls, w) /\ LastWord(calls, w)
    OBVIOUS
  <2>2. AtsAlike(calls, calls') /\ GoesUp(parent, calls, mySelf, calls', mySelf', w, S)
    BY <1>3, <1>6, <2>1 DEF AtsAlike, GoesUp, Waits, ParentIn
  <2> DEFINE J == Left(Kept, D)
             q == parent'
             lw == live'
  <2>3. /\ Pruned(parent, q, D) /\ lw = live \ D /\ J = Left(Kept, D)
        /\ D = Felled(parent, live, S)
    BY <1>1
  <2> HIDE DEF D, J, q, lw
  <2>4. /\ Strung(q, lw, calls', mySelf', J) /\ AlikeOn(parent, q, lw) /\ EndsNowhere(Kept, D)
    BY ONLY <2>1, <2>2, <2>3, <1>2, <1>4, Shrunk
  <2> QED
    BY <2>3, <2>4, <1>1 DEF q, lw
<1>8. /\ live' \in SUBSET Ihandles /\ AllIn(calls', live') /\ mySelf' \in live' \union {None}
  BY <1>1, <1>2, <1>7 DEF Strung, Alive
<1>9. Single(parent', calls', mySelf')
  <2>1. \A n \in 1..Len(calls') :
          Waits(calls', n) /\ n # w => SelfAt(calls', mySelf', n) \in live' \union {None}
    BY <1>4, <1>8, SelfAlive
  <2>2. ~(w \in 1..Len(calls') /\ calls'[w].op = "package")
    BY <1>3 DEF Stands
  <2> QED
    BY ONLY <1>2, <1>4, <1>7, <2>1, <2>2, NextSingle
<1>10. NotYet(calls', opened')
  <2>1. \A n \in w..Len(calls') : calls'[n].op \in Caught => At(calls', n) \notin opened'
    <3>1. \A n \in w..Len(calls') : n = w /\ calls'[w].op = calls[w].op
      BY <1>3
    <3> QED
      BY <1>3, <3>1 DEF Waits, LayerOps, Caught
  <2>2. l <= Len(calls) /\ \A n \in 1..l : At(calls, n) \notin opened' \ opened
    BY <1>1, <1>3
  <2> QED
    BY <1>2, <1>4, <2>1, <2>2, StillNotYet
<1>11. opened' \subseteq live' /\ \A j \in leftOpen' : <<j, None>> \notin held'
  BY <1>1, <1>2
<1> QED
  BY <1>5, <1>7, <1>9, <1>10, <1>11 DEF Good, Heaped

LEMMA CloseChainStep ==
  ASSUME Typed, Good, CloseChain
  PROVE  Good'
<1> DEFINE L == Len(calls)
           w == L - 1
           f == [Caller EXCEPT !.stage = "close"]
<1>1. /\ Top.op \in Caught /\ calls' = Below(2) \o <<f>> /\ Caller.op = "path"
      /\ Destroy({mySelf}) /\ mySelf' = parent[mySelf] /\ UNCHANGED leftOpen
  BY DEF CloseChain, DestroyInstance, Caught
<1>2. /\ L \in Nat /\ L >= 3 /\ calls[w] \in Frame /\ Fits(calls[L - 2], calls[w])
      /\ calls[L - 2].op \in Code /\ LastWord(calls, w) /\ SelfAt(calls, mySelf, w) = mySelf
      /\ mySelf # At(calls, w) /\ mySelf # None /\ calls \in Seq(Frame)
  BY <1>1, Given, TopCaught DEF Top, Typed
<1>3. /\ f \in Frame /\ f.op = "path" /\ f.at = calls[w].at /\ f.saved = calls[w].saved
      /\ f.goal = calls[w].goal /\ f.stage = "close" /\ calls[w].op = "path"
  <2>1. "close" \in Stages
    BY DEF Stages
  <2>2. Caller \in Frame /\ Caller = calls[w]
    BY <1>2 DEF Caller
  <2> QED
    BY <1>1, <2>1, <2>2, Staged
<1> HIDE DEF f
<1>4. PICK l \in Nat : l = L - 2
  <2>1. L - 2 \in Nat
    BY <1>2
  <2> QED
    BY <2>1
<1>5. calls' = SubSeq(calls, 1, l) \o <<f>> /\ l + 1 = w /\ l + 1 <= Len(calls) /\ l >= 1
  BY <1>1, <1>2, <1>4 DEF Below
<1>6. calls' \in Seq(Frame) /\ Len(calls') = l + 1 /\ Agree(calls, calls', l) /\ OnTop(calls', f)
  BY <1>2, <1>3, <1>5, Replaced
<1>7. Len(calls') = w /\ calls'[w] = f
  BY <1>5, <1>6 DEF OnTop
<1>8. Fits(calls'[l], f) /\ Stands(f)
  <2>1. l \in 1..l
    BY <1>5
  <2>2. calls'[l] = calls[l] /\ Fits(calls[l], calls[w])
    BY <1>2, <1>4, <1>6, <2>1 DEF Agree
  <2> QED
    BY <1>3, <2>2 DEF Fits, Stands, LayerOps, Caught
<1>9. calls[l].op \in Code /\ w = l + 1 /\ calls'[w].op = calls[w].op /\ calls'[w].at = calls[w].at
  BY <1>2, <1>3, <1>4, <1>5, <1>7
<1> HIDE DEF L, w
<1> QED
  BY <1>1, <1>2, <1>5, <1>6, <1>7, <1>8, <1>9, ShrinkStep

LEMMA ClosedOneStep ==
  ASSUME Typed, Good, ClosedOne
  PROVE  Good'
<1> DEFINE L == Len(calls)
           w == L - 1
           l == L - 2
<1>1. /\ Top.op = "close" /\ Top.op \in Caught /\ calls' = Below(1)
      /\ Destroy({mySelf}) /\ mySelf' = parent[mySelf] /\ UNCHANGED leftOpen
  BY DEF ClosedOne, DestroyInstance, Caught
<1>2. /\ L \in Nat /\ L >= 3 /\ calls[w] \in Frame /\ Fits(calls[l], calls[w])
      /\ Fits(calls[w], calls[L]) /\ w \in 1..L
      /\ calls[l].op \in Code /\ LastWord(calls, w) /\ SelfAt(calls, mySelf, w) = mySelf
      /\ mySelf # At(calls, w) /\ mySelf # None
  BY <1>1, Given, TopCaught DEF Top
<1>3. /\ Piled(calls') /\ Len(calls') = w /\ Agree(calls, calls', w)
  <2>1. calls' = SubSeq(calls, 1, w) /\ Piled(calls)
    BY <1>1, Given DEF Below
  <2> QED
    BY <1>2, <2>1, CutDown
<1>4. /\ l \in Nat /\ l >= 1 /\ w = l + 1 /\ w \in 1..w /\ l \in 1..w /\ \A m \in 1..l : m \in 1..w
  BY <1>2
<1>5. calls'[w] = calls[w] /\ calls'[l] = calls[l] /\ Agree(calls, calls', l)
  BY <1>3, <1>4 DEF Agree
<1>6. Stands(calls[w])
  BY <1>1, <1>2 DEF Fits, Stands, Top
<1>7. calls' \in Seq(Frame)
  BY <1>3 DEF Piled
<1> HIDE DEF L, w, l
<1> QED
  BY <1>1, <1>2, <1>3, <1>4, <1>5, <1>6, <1>7, ShrinkStep

LEMMA PackageFailsStep ==
  ASSUME Typed, Good, PackageFails
  PROVE  Good'
<1> DEFINE L == Len(calls)
           w == L - 1
           l == L - 2
           S == Closed(mySelf, Caller.at)
<1>1. /\ Top.op = "open" /\ Top.op \in Caught /\ Caller.op = "package"
      /\ calls' = Below(2) /\ mySelf' = Caller.at /\ Destroy(S) /\ UNCHANGED leftOpen
  BY DEF PackageFails, Caught
<1>2. /\ L \in Nat /\ L >= 3 /\ Fits(calls[l], calls[w])
      /\ calls[l].op \in Code /\ LastWord(calls, w) /\ SelfAt(calls, mySelf, w) = mySelf
      /\ mySelf # At(calls, w) /\ mySelf # None /\ Caller = calls[w]
  BY <1>1, Given, TopCaught DEF Top, Caller
<1>3. S = Segment(parent, calls, mySelf, w) /\ mySelf' = At(calls, w)
  BY <1>1, <1>2, ChainIs DEF Segment, At
<1>4. mySelf' = calls[l].at
  BY <1>1, <1>2 DEF Fits
<1>5. /\ Piled(calls') /\ Len(calls') = l /\ Agree(calls, calls', l)
  <2>1. calls' = SubSeq(calls, 1, l) /\ Piled(calls) /\ l \in 1..Len(calls)
    BY <1>1, <1>2, Given DEF Below
  <2> QED
    BY <2>1, CutDown
<1>6. l \in Nat /\ l >= 1 /\ w = l + 1
  BY <1>2
<1>7. calls' \in Seq(Frame)
  BY <1>5 DEF Piled
<1> HIDE DEF L, w, l, S
<1> QED
  BY <1>1, <1>2, <1>3, <1>4, <1>5, <1>6, <1>7, ShrinkStep

-----------------------------------------------------------------------------
(***************************************************************************)
(* The step that takes a chain that was kept.                              *)
(***************************************************************************)

LEMMA CloseHeldStep ==
  ASSUME Typed, Good, NEW h \in held, CloseHeld(h)
  PROVE  Good'
<1> DEFINE L == Len(calls)
           w == L + 1
           f == Word("closing", h[2], mySelf, "", "")
<1>1. /\ Running /\ h[2] \in {mySelf, None} /\ calls' = Append(calls, f)
      /\ mySelf' = From(h) /\ held' = held \ {h} /\ UNCHANGED <<heap, leftOpen, opened>>
  BY DEF CloseHeld, From
<1>2. /\ Piled(calls) /\ Strung(parent, live, calls, mySelf, Kept) /\ opened \subseteq live
      /\ Single(parent, calls, mySelf) /\ NotYet(calls, opened) /\ AllIn(calls, live)
      /\ \A j \in leftOpen : <<j, None>> \notin held
      /\ Heap(parent) /\ live \in SUBSET Ihandles
  BY Given
<1>3. /\ mySelf = calls[L].at /\ ~Waits(calls, L) /\ L \in Nat \ {0} /\ L \in 1..L
      /\ calls[L].op \in Code
  BY <1>1, Given, TopCode DEF Running, Top
<1>4. /\ f \in Frame /\ f.op = "closing" /\ f.at = To(h) /\ f.saved = mySelf
  BY <1>1 DEF Typed, Frame, Word, Selves, Ops, To
<1>5. Fits(calls[L], f) /\ Stands(f)
  BY <1>1, <1>3, <1>4 DEF Fits, Stands, LayerOps, Caught, To
<1> HIDE DEF f
<1>6. /\ Piled(calls') /\ Len(calls') = w /\ calls'[w] = f /\ Agree(calls, calls', L)
      /\ Len(calls') \in Nat
  BY <1>1, <1>2, <1>4, <1>5, Pushed
<1>7. \A n \in 1..Len(calls') : n = w \/ (n \in 1..L /\ calls'[n] = calls[n])
  BY <1>3, <1>6 DEF Agree
<1>8. Came(calls, mySelf, calls', mySelf', w) /\ Stay(calls, mySelf, calls', mySelf', w)
  <2>1. OnlyWord(calls', L, w) /\ OnlyWord(calls, L, w) /\ L <= Len(calls') /\ L \in 1..Len(calls)
    BY <1>3, <1>6 DEF OnlyWord
  <2> QED
    BY <1>3, <1>6, <2>1, WordsBelow
<1>9. Kept' = Kept \ {h} /\ h \in Kept
  <2>1. h \notin leftOpen \X {None}
    BY <1>2
  <2> QED
    BY <1>1, <2>1 DEF Kept
<1>10. \A n \in 1..Len(calls) : ChainIn(parent, At(calls, n)) \intersect Span(parent, From(h), To(h)) = {}
  BY ChainIs DEF CloseHeld, At, From, To
<1>11. \A n \in 1..Len(calls) : At(calls', n) = At(calls, n)
  BY <1>6 DEF Agree, At
<1>12. Waits(calls', w) /\ At(calls', w) = To(h)
  BY <1>4, <1>6 DEF Waits, LayerOps, At
<1>13. Strung(parent, live, calls', mySelf', Kept')
  <2>1. Len(calls) \in Nat /\ w = Len(calls) + 1
    BY <1>3
  <2>2. mySelf' = From(h)
    BY <1>1
  <2> HIDE DEF w, L
  <2> QED
    BY ONLY <2>1, <2>2, <1>2, <1>6, <1>8, <1>9, <1>10, <1>11, <1>12, TakenOff
<1>14. parent' = parent /\ live' = live
  BY <1>1 DEF heap
<1>15. AllIn(calls', live) /\ mySelf' \in live \union {None}
  BY <1>13 DEF Strung, Alive
<1>16. Single(parent, calls', mySelf')
  <2>1. \A n \in 1..Len(calls') :
          Waits(calls', n) /\ n # w => SelfAt(calls', mySelf', n) \in live \union {None}
    BY <1>6, <1>15, SelfAlive
  <2>2. ~(w \in 1..Len(calls') /\ calls'[w].op = "package") /\ Len(calls') \in Nat
    BY <1>4, <1>6
  <2>3. AlikeOn(parent, parent, live)
    BY DEF AlikeOn
  <2> QED
    BY ONLY <1>2, <1>8, <2>1, <2>2, <2>3, NextSingle
<1>17. NotYet(calls', opened')
  <2>1. f.op \notin Caught
    BY <1>4 DEF Caught
  <2> QED
    BY <1>1, <1>2, <1>6, <1>7, <2>1 DEF NotYet, At
<1>18. Stacked(calls', mySelf')
  BY <1>4, <1>5, <1>6 DEF Stacked, Code, Caught
<1>19. opened' \subseteq live /\ \A j \in leftOpen' : <<j, None>> \notin held'
  BY <1>1, <1>2
<1> QED
  BY <1>13, <1>14, <1>16, <1>17, <1>18, <1>19 DEF Good, Heaped

-----------------------------------------------------------------------------
(***************************************************************************)
(* All steps.                                                              *)
(***************************************************************************)

LEMMA NodeOpenedStep ==
  ASSUME Typed, Good, NodeOpened
  PROVE  Good'
<1>1. Top.op = "open" /\ Caller.op = "path" /\ opened' = opened \union {mySelf}
      /\ UNCHANGED leftOpen
  BY DEF NodeOpened
<1>2. CASE \E i \in Ihandles : /\ NewInstance(i) /\ mySelf' = i /\ UNCHANGED held
                               /\ calls' = Append(Below(1), Method("open", i))
  BY <1>1, <1>2, NodeInterposedStep
<1>3. CASE Caller.stage = "select" /\ calls' = Below(1) /\ UNCHANGED <<mySelf, heap, held>>
  BY <1>1, <1>3, PathGoesOnStep
<1>4. CASE /\ calls' = Below(2) /\ mySelf' = Caller.saved /\ UNCHANGED heap
           /\ held' = held \union {<<mySelf, None>>}
  BY <1>1, <1>4, PathOpenedStep
<1> QED
  BY <1>2, <1>3, <1>4 DEF NodeOpened

LEMMA PackageOpenedStep ==
  ASSUME Typed, Good, PackageOpened, ~astray'
  PROVE  Good'
<1>1. Top.op = "open" /\ Caller.op = "package" /\ opened' = opened \union {mySelf}
      /\ UNCHANGED leftOpen
  BY DEF PackageOpened
<1>2. CASE \E i \in Ihandles :
             /\ NewInstance(i) /\ mySelf' = i /\ UNCHANGED held
             /\ calls' = Append(Below(2) \o <<[Caller EXCEPT !.stage = "interposed"]>>,
                                Method("open", i))
  BY <1>1, <1>2, PackageInterposedStep
<1>3. CASE /\ calls' = Below(2) /\ mySelf' = parent[mySelf] /\ Caller.stage # "interposed"
           /\ held' = held \union {<<mySelf, Caller.at>>} /\ UNCHANGED heap
  BY <1>1, <1>3, PackageDoneStep
<1> QED
  BY <1>2, <1>3 DEF PackageOpened

LEMMA GoodStep ==
  ASSUME Typed, Good, OfCode \/ OfLayer, ~astray'
  PROVE  Good'
<1>1. ASSUME NEW i \in Ihandles, CallMethod(i) \/ OpenPackage(i) \/ SelectNode(i)
      PROVE  Good'
  BY <1>1, CallMethodStep, OpenPackageStep, SelectNodeStep
<1>2. ASSUME NEW goal \in Goals, OpenDev(goal)
      PROVE  Good'
  BY <1>2, OpenDevStep
<1>3. ASSUME NEW h \in held, CloseHeld(h)
      PROVE  Good'
  BY <1>3, CloseHeldStep
<1>4. ASSUME NEW package \in BOOLEAN, Interpose(package)
      PROVE  Good'
  BY <1>4, InterposeStep
<1>5. CASE Throw \/ MethodReturns
  BY <1>5, ThrowStep, MethodReturnsStep
<1>6. CASE NoDevice \/ NoPackage \/ CloseChain \/ NodeOpened
  BY <1>6, NoDeviceStep, NoPackageStep, CloseChainStep, NodeOpenedStep
<1>7. CASE PackageOpened \/ PackageFails \/ CloseOne \/ ClosedOne \/ EndOfChain
  BY <1>7, PackageOpenedStep, PackageFailsStep, CloseOneStep, ClosedOneStep, EndOfChainStep
<1> QED
  BY <1>1, <1>2, <1>3, <1>4, <1>5, <1>6, <1>7 DEF OfCode, OfLayer

\* The type of all but the stack.
RestTyped ==
  /\ mySelf \in Selves /\ live \subseteq Ihandles /\ opened \subseteq Ihandles
  /\ abandoned \subseteq Ihandles \ live /\ parent \in [Ihandles -> Selves]
  /\ held \subseteq Ihandles \X Selves /\ leftOpen \subseteq Ihandles
  /\ interposer \in BOOLEAN /\ forPackage \in BOOLEAN /\ astray \in BOOLEAN

LEMMA OfCodeTyped ==
  ASSUME Typed, Good, OfCode
  PROVE  RestTyped'
<1> USE DEF RestTyped, Typed, heap, interposing
<1>1. ASSUME NEW i \in Ihandles, CallMethod(i)
      PROVE  RestTyped'
  BY <1>1 DEF CallMethod, Selves
<1>2. ASSUME NEW i \in Ihandles, OpenPackage(i)
      PROVE  RestTyped'
  BY <1>2 DEF OpenPackage, NewInstance, Selves
<1>3. ASSUME NEW goal \in Goals, OpenDev(goal)
      PROVE  RestTyped'
  BY <1>3 DEF OpenDev, Selves
<1>4. ASSUME NEW h \in held, CloseHeld(h)
      PROVE  RestTyped'
  BY <1>4 DEF CloseHeld, Selves
<1>5. ASSUME NEW package \in BOOLEAN, Interpose(package)
      PROVE  RestTyped'
  BY <1>5 DEF Interpose
<1>6. CASE Throw
  BY <1>6 DEF Throw
<1>7. CASE MethodReturns
  <2>1. Top.saved \in Selves
    <3>1. Top \in Frame
      BY Given, PiledFacts DEF Top
    <3> QED
      BY <3>1 DEF Frame
  <2> QED
    BY <1>7, <2>1 DEF MethodReturns
<1> QED
  BY <1>1, <1>2, <1>3, <1>4, <1>5, <1>6, <1>7 DEF OfCode

LEMMA OfLayerTyped ==
  ASSUME Typed, Good, OfLayer
  PROVE  RestTyped'
<1> USE DEF RestTyped, Typed, heap, interposing
<1>1. Top \in Frame /\ Top.saved \in Selves /\ Top.at \in Selves
  <2>1. Top \in Frame
    BY Given, PiledFacts DEF Top
  <2> QED
    BY <2>1 DEF Frame
<1>2. ASSUME Top.op \in Caught
      PROVE  /\ Caller.saved \in Selves /\ Caller.at \in Selves /\ mySelf \in Ihandles
             /\ parent[mySelf] \in Selves
  <2>1. Caller \in Frame /\ mySelf # None
    BY <1>2, Given, TopCaught DEF Top, Caller
  <2> QED
    BY <2>1 DEF Frame, Selves
<1>13. ASSUME NEW S, Destroy(S)
       PROVE  /\ live' \subseteq Ihandles /\ opened' \subseteq Ihandles
              /\ abandoned' \subseteq Ihandles \ live' /\ parent' \in [Ihandles -> Selves]
              /\ held' \subseteq Ihandles \X Selves
  <2>1. Gone(S) \subseteq live
    BY DEF Gone
  <2>2. parent' \in [Ihandles -> Selves]
    BY <1>13 DEF Destroy, Selves
  <2> QED
    BY <1>13, <2>1, <2>2 DEF Destroy
<1>3. ASSUME NEW i \in Ihandles, SelectNode(i)
      PROVE  RestTyped'
  BY <1>1, <1>3 DEF SelectNode, NewInstance, Result, Selves
<1>4. CASE NoDevice
  BY <1>4 DEF NoDevice
<1>5. CASE NoPackage
  BY <1>1, <1>5 DEF NoPackage, Result, Selves
<1>6. CASE CloseChain
  BY <1>2, <1>6, <1>13 DEF CloseChain, DestroyInstance, Caught
<1>7. CASE NodeOpened
  <2>1. mySelf \in Ihandles /\ Caller.saved \in Selves
    BY <1>2, <1>7 DEF NodeOpened, Caught
  <2>2. opened' \subseteq Ihandles /\ leftOpen' = leftOpen /\ astray' = astray
    BY <1>7, <2>1 DEF NodeOpened
  <2>3. held' \subseteq Ihandles \X Selves
    <3>1. held' = held \/ held' = held \union {<<mySelf, None>>}
      BY <1>7 DEF NodeOpened
    <3> QED
      BY <2>1, <3>1 DEF Selves
  <2>4. interposer' \in BOOLEAN /\ forPackage' \in BOOLEAN
    BY <1>7 DEF NodeOpened
  <2>5. /\ mySelf' \in Selves /\ live' \subseteq Ihandles /\ parent' \in [Ihandles -> Selves]
        /\ abandoned' \subseteq Ihandles \ live'
    BY <1>7, <2>1 DEF NodeOpened, NewInstance, Selves
  <2> QED
    BY <2>2, <2>3, <2>4, <2>5
<1>8. CASE PackageOpened
  <2>1. mySelf \in Ihandles /\ Caller.at \in Selves /\ parent[mySelf] \in Selves
    BY <1>2, <1>8 DEF PackageOpened, Caught
  <2>2. opened' \subseteq Ihandles /\ leftOpen' = leftOpen /\ astray' \in BOOLEAN
    BY <1>8, <2>1 DEF PackageOpened
  <2>3. held' \subseteq Ihandles \X Selves
    <3>1. held' = held \/ held' = held \union {<<mySelf, Caller.at>>}
      BY <1>8 DEF PackageOpened
    <3> QED
      BY <2>1, <3>1 DEF Selves
  <2>4. interposer' \in BOOLEAN /\ forPackage' \in BOOLEAN
    BY <1>8 DEF PackageOpened
  <2>5. /\ mySelf' \in Selves /\ live' \subseteq Ihandles /\ parent' \in [Ihandles -> Selves]
        /\ abandoned' \subseteq Ihandles \ live'
    BY <1>8, <2>1 DEF PackageOpened, NewInstance, Selves
  <2> QED
    BY <2>2, <2>3, <2>4, <2>5
<1>9. CASE PackageFails
  BY <1>2, <1>9, <1>13 DEF PackageFails, Caught
<1>10. CASE CloseOne
  BY <1>10 DEF CloseOne
<1>11. CASE ClosedOne
  BY <1>2, <1>11, <1>13 DEF ClosedOne, DestroyInstance, Caught
<1>12. CASE EndOfChain
  BY <1>1, <1>12 DEF EndOfChain
<1> QED
  BY <1>3, <1>4, <1>5, <1>6, <1>7, <1>8, <1>9, <1>10, <1>11, <1>12 DEF OfLayer

\* Where the model ends the stack has not grown.
LEMMA AstrayTyped ==
  ASSUME Typed, Good, ~astray, OfCode \/ OfLayer, astray'
  PROVE  calls' \in Seq(Frame) /\ Len(calls') \in 1..Len(calls)
<1> calls \in Seq(Frame) /\ Len(calls) \in Nat
  BY DEF Typed
<1>1. CASE Throw
  <2>1. PICK n \in 1..Len(calls) - 1 : calls' = SubSeq(calls, 1, n)
    BY <1>1 DEF Throw
  <2> QED
    BY <2>1
<1>2. CASE Top.op = "open" /\ calls' = Below(2)
  <2>1. Len(calls) >= 3
    BY <1>2, Given, TopCaught DEF Top, Caught
  <2> QED
    BY <1>2, <2>1 DEF Below
<1>3. CASE PackageOpened
  <2>1. astray' # astray => Top.op = "open" /\ calls' = Below(2)
    BY <1>3 DEF PackageOpened
  <2> QED
    BY <1>2, <2>1
<1>5. OfCode => Throw
  BY DEF OfCode, CallMethod, OpenPackage, OpenDev, CloseHeld, Interpose, MethodReturns
<1>6. OfLayer => PackageOpened
  BY DEF OfLayer, SelectNode, NoDevice, NoPackage, CloseChain, NodeOpened, PackageFails, CloseOne,
         ClosedOne, EndOfChain
<1> QED
  BY <1>1, <1>3, <1>5, <1>6

LEMMA TypedStep ==
  ASSUME Typed, Good, ~astray, OfCode \/ OfLayer
  PROVE  Typed'
<1>1. RestTyped'
  BY OfCodeTyped, OfLayerTyped
<1>2. calls' \in Seq(Frame)
  <2>1. CASE ~astray'
    BY <2>1, GoodStep DEF Good, Stacked, Piled
  <2>2. CASE astray'
    BY <2>2, AstrayTyped
  <2> QED
    BY <2>1, <2>2
<1> QED
  BY <1>1, <1>2 DEF Typed, RestTyped

LEMMA InitialChains ==
  ASSUME InstancesInit
  PROVE  ChainsInv
<1> DEFINE f == Method("program", None)
<1>1. /\ mySelf = None /\ live = {} /\ parent = [i \in Ihandles |-> None] /\ calls = <<f>>
      /\ held = {} /\ opened = {} /\ abandoned = {} /\ leftOpen = {} /\ Kept = {}
  BY DEF InstancesInit, Kept
<1>2. f \in Frame /\ f.op = "program" /\ f.at = None
  <2>1. "program" \in Ops /\ None \in Selves
    BY DEF Ops, Code, Selves
  <2> QED
    BY <2>1, MethodFrame
<1> HIDE DEF f
<1>3. calls \in Seq(Frame) /\ Len(calls) = 1 /\ calls[1] = f
  BY <1>1, <1>2
<1>4. Typed
  BY <1>1, <1>3 DEF Typed, InstancesInit, Selves
<1>5. Stacked(calls, mySelf)
  BY <1>1, <1>2, <1>3 DEF Stacked, Piled, Stands, f
<1>6. \A n \in 1..Len(calls) : n = 1 /\ ~Waits(calls, n) /\ calls[n].op = "program" /\ At(calls, n) = None
  BY <1>2, <1>3 DEF Waits, LayerOps, At
<1>7. Strung(parent, live, calls, mySelf, Kept)
  BY <1>1, <1>6 DEF Strung, Tree, Alive, Apart, Covered, AllIn, ParentIn
<1>8. Single(parent, calls, mySelf) /\ NotYet(calls, opened)
  BY <1>1, <1>6 DEF Single, NotYet
<1> QED
  BY <1>1, <1>4, <1>5, <1>7, <1>8 DEF ChainsInv, Heaped

LEMMA ChainsNext ==
  ASSUME ChainsInv, [InstancesNext]_instances
  PROVE  ChainsInv'
<1>1. CASE ~astray /\ (OfCode \/ OfLayer)
  BY <1>1, GoodStep, TypedStep DEF ChainsInv, Good
<1>2. CASE UNCHANGED instances
  BY <1>2 DEF ChainsInv, Typed, Stacked, Heaped, Kept, instances
<1> QED
  BY <1>1, <1>2 DEF InstancesNext

\* Words of this layer stack up on code as open-dev, open-package, close-package and their like
\* call it, each with a segment of a chain to close, which no word below it and no ihandle
\* shares; every living instance is in the segment of a word or of an ihandle.  When an instance
\* is destroyed with others open that it opened, these go from the living with it.
THEOREM ChainsStay == InstancesSpec => []ChainsInv
<1>1. InstancesInit => ChainsInv
  BY InitialChains
<1>2. ChainsInv /\ [InstancesNext]_instances => ChainsInv'
  BY ChainsNext
<1> QED
  BY <1>1, <1>2, PTL DEF InstancesSpec

\* my-self, what )package restores, the parents of the living and every ihandle stay alive,
\* whatever the methods of the packages open, close, call and throw.  A package may be destroyed
\* with instances open that it opened: nobody else has their ihandles, and they are not among the
\* living of the model from then on.
THEOREM NothingDangles == InstancesSpec => []NoDangling
<1>1. ChainsInv => NoDangling
  <2> SUFFICES ASSUME ChainsInv, ~astray
               PROVE  /\ {mySelf} \union {parent[i] : i \in live} \subseteq live \union {None}
                      /\ \A n \in 1..Len(calls) : {calls[n].at, calls[n].saved} \subseteq live \union {None}
                      /\ \A h \in held : h[1] \in live /\ h[2] \in (Chain(h[1]) \ {h[1]}) \union {None}
    BY DEF NoDangling
  <2>1. Typed /\ Good
    BY DEF ChainsInv, Good
  <2>2. /\ Piled(calls) /\ Tree(parent, live) /\ Alive(parent, live, calls, mySelf, Kept)
        /\ AllIn(calls, live)
    BY <2>1, Given DEF Strung
  <2>3. {mySelf} \union {parent[i] : i \in live} \subseteq live \union {None}
    BY <2>2 DEF Alive, Tree, ParentIn
  <2>4. ASSUME NEW n \in 1..Len(calls)
        PROVE  {calls[n].at, calls[n].saved} \subseteq live \union {None}
    <3>1. \A m \in 1..Len(calls) : calls[m].at \in live \union {None}
      BY <2>2 DEF AllIn, At
    <3>2. calls[n].saved \in live \union {None}
      <4>1. CASE n = 1
        <5>1. Method("program", None).saved = None
          BY DEF Method, Word
        <5> QED
          BY ONLY <5>1, <4>1, <2>2 DEF Piled
      <4>2. CASE n # 1
        <5>1. n \in 2..Len(calls)
          BY <4>2
        <5>2. Fits(calls[n - 1], calls[n]) /\ n - 1 \in 1..Len(calls)
          BY <5>1, <2>2, PiledFacts
        <5> QED
          BY <5>2, <3>1 DEF Fits
      <4> QED
        BY <4>1, <4>2
    <3> QED
      BY <3>1, <3>2
  <2>5. ASSUME NEW h \in held
        PROVE  h[1] \in live /\ h[2] \in (Chain(h[1]) \ {h[1]}) \union {None}
    <3>1. h \in Kept
      BY DEF Kept
    <3> QED
      BY <3>1, <2>2, ChainIs DEF Alive, EndsAbove, From, To
  <2> QED
    BY <2>3, <2>4, <2>5
<1> QED
  BY <1>1, ChainsStay, PTL

\* Every instance that open-dev, begin-open-dev, open-package and execute-device-method have made
\* stays on the chain of an ihandle or of a word that will close it, or was open in an instance
\* that is destroyed, or is left by execute-device-method on a path with a support package that
\* there is not: the error paths of this layer lose no other.
THEOREM EverythingFound == InstancesSpec => []NothingLost
<1>1. ChainsInv => NothingLost
  <2> SUFFICES ASSUME ChainsInv, ~astray,
                      NEW ends, ends = {mySelf} \union {calls[n].at : n \in 1..Len(calls)} \union {h[1] : h \in held}
               PROVE  live = UNION {Chain(i) : i \in (ends \union leftOpen) \ {None}}
    BY DEF NothingLost
  <2>1. Typed /\ Good
    BY DEF ChainsInv, Good
  <2>2. /\ Heap(parent) /\ live \in SUBSET Ihandles /\ Tree(parent, live) /\ Len(calls) \in Nat
        /\ Alive(parent, live, calls, mySelf, Kept) /\ Covered(parent, live, calls, mySelf, Kept)
    BY <2>1, Given DEF Strung
  <2>3. \A k \in Kept : From(k) \in ends \union leftOpen
    BY DEF Kept, From
  <2>4. \A n \in 1..Len(calls) : SelfAt(calls, mySelf, n) \in ends
    <3> SUFFICES ASSUME NEW n \in 1..Len(calls)
                 PROVE  SelfAt(calls, mySelf, n) \in ends
      OBVIOUS
    <3>1. n = Len(calls) \/ n + 1 \in 1..Len(calls)
      BY <2>2
    <3> QED
      BY <3>1 DEF SelfAt, At
  <2>5. ends \union leftOpen \subseteq live \union {None}
    <3>1. \A i \in leftOpen : i \in live
      <4> SUFFICES ASSUME NEW i \in leftOpen
                   PROVE  i \in live
        OBVIOUS
      <4>1. <<i, None>> \in Kept
        BY DEF Kept
      <4> QED
        BY <4>1, <2>2 DEF Alive, From
    <3>2. \A h \in held : h[1] \in live
      BY <2>2 DEF Kept, Alive, From
    <3>3. mySelf \in live \union {None} /\ \A n \in 1..Len(calls) : calls[n].at \in live \union {None}
      BY <2>2 DEF Alive, AllIn, At
    <3> QED
      BY <3>1, <3>2, <3>3
  <2>6. ASSUME NEW i \in (ends \union leftOpen) \ {None}
        PROVE  Chain(i) \subseteq live
    BY <2>2, <2>5, ChainIs, ChainAlive
  <2>7. ASSUME NEW j \in live
        PROVE  \E i \in (ends \union leftOpen) \ {None} : j \in Chain(i)
    <3>1. \A i : j \in ChainIn(parent, i) => i # None /\ j \in Chain(i)
      BY <2>2, ChainBasics, ChainIs
    <3>2. CASE OnWord(parent, calls, mySelf, j)
      <4>1. PICK n \in 1..Len(calls) : j \in ChainIn(parent, SelfAt(calls, mySelf, n))
        BY <3>2 DEF OnWord, Segment, Span
      <4> QED
        BY <4>1, <3>1, <2>4
    <3>3. CASE IsKept(parent, Kept, j)
      <4>1. PICK k \in Kept : j \in ChainIn(parent, From(k))
        BY <3>3 DEF IsKept, Span
      <4> QED
        BY <4>1, <3>1, <2>3
    <3> QED
      BY <3>2, <3>3, <2>2 DEF Covered
  <2> QED
    BY <2>6, <2>7
<1> QED
  BY <1>1, ChainsStay, PTL

\* What the last word has called a method of has not been opened, or is being closed.
LEMMA TopNotOpened ==
  ASSUME Typed, Good, Top.op \in Caught
  PROVE  mySelf \notin opened
<1>1. Len(calls) \in 1..Len(calls) /\ mySelf = calls[Len(calls)].at /\ NotYet(calls, opened)
  BY Given, TopCaught DEF Top
<1> QED
  BY <1>1 DEF NotYet, Top, At

\* open-package destroys one instance when no interposer is at work.
LEMMA PackageAlone ==
  ASSUME Typed, Good, PackageFails, Caller.stage # "interposed"
  PROVE  Closed(mySelf, Caller.at) = {mySelf}
<1> DEFINE w == Len(calls) - 1
<1>1. /\ Top.op = "open" /\ Caller.op = "package"
  BY DEF PackageFails
<1>2. /\ LastWord(calls, w) /\ SelfAt(calls, mySelf, w) = mySelf /\ mySelf # At(calls, w)
      /\ Caller = calls[w]
  BY <1>1, Given, TopCaught DEF Top, Caller, Caught
<1>3. parent[mySelf] = Caller.at /\ mySelf \in live /\ At(calls, w) = parent[mySelf]
  BY <1>1, <1>2, PackageSelf DEF At
<1>4. Heap(parent) /\ live \in SUBSET Ihandles /\ Tree(parent, live) /\ Apart(parent, calls, mySelf, Kept)
  BY Given DEF Strung
<1>5. At(calls, w) \in (ChainIn(parent, mySelf) \ {mySelf}) \union {None}
  BY <1>2, <1>4 DEF Apart, Clear, LastWord
<1>6. Span(parent, mySelf, At(calls, w))
        = {mySelf} \union Span(parent, ParentIn(parent, mySelf), At(calls, w))
  BY <1>3, <1>4, <1>5, SpanFacts
<1>7. ParentIn(parent, mySelf) = At(calls, w)
  BY <1>3 DEF ParentIn
<1>8. Span(parent, At(calls, w), At(calls, w)) = {}
  BY <1>4, EmptySpans
<1>9. Closed(mySelf, Caller.at) = Span(parent, mySelf, At(calls, w))
  BY <1>2, ChainIs DEF At
<1> QED
  BY <1>6, <1>7, <1>8, <1>9

\* What a step destroys has not been opened, or its `close` has been called.
LEMMA ClosedStep ==
  ASSUME Typed, Good, OfCode \/ OfLayer, ~InterposerFails
  PROVE  (live \ (live' \union abandoned')) \intersect opened = {}
<1>1. ASSUME Top.op \in Caught, Destroy({mySelf})
      PROVE  (live \ (live' \union abandoned')) \intersect opened = {}
  BY <1>1, TopNotOpened DEF Destroy
<1>2. CASE CloseChain \/ ClosedOne
  BY <1>1, <1>2 DEF CloseChain, ClosedOne, DestroyInstance, Caught
<1>3. CASE PackageFails
  <2>1. Closed(mySelf, Caller.at) = {mySelf}
    BY <1>3, PackageAlone DEF InterposerFails
  <2> QED
    BY <1>1, <1>3, <2>1 DEF PackageFails, Caught
<1>4. CASE live \subseteq live'
  BY <1>4
<1>5. OfCode => live \subseteq live'
  BY DEF OfCode, CallMethod, OpenPackage, OpenDev, CloseHeld, Interpose, MethodReturns, Throw,
         heap, NewInstance
<1>6. OfLayer => CloseChain \/ ClosedOne \/ PackageFails \/ live \subseteq live'
  BY DEF OfLayer, SelectNode, NoDevice, NoPackage, NodeOpened, PackageOpened, CloseOne,
         EndOfChain, heap, NewInstance
<1> QED
  BY <1>2, <1>3, <1>4, <1>5, <1>6

\* The word that walks a chain is the last, and nothing below it has what it is at.
LEMMA CloseOnce ==
  ASSUME Typed, Good, CloseOne
  PROVE  \A n \in 1..Len(calls) : calls[n].op = "close" => calls[n].at # mySelf
<1> DEFINE w == Len(calls)
<1>1. /\ Heap(parent) /\ live \in SUBSET Ihandles /\ Tree(parent, live) /\ w \in Nat \ {0}
      /\ Alive(parent, live, calls, mySelf, Kept) /\ Apart(parent, calls, mySelf, Kept)
  BY Given DEF Strung
<1>2. mySelf \in live /\ mySelf # At(calls, w)
  BY <1>1 DEF CloseOne, MoreToClose, Top, At, Alive
<1>3. LastWord(calls, w) /\ mySelf = SelfAt(calls, mySelf, w)
  BY <1>1 DEF CloseOne, Walking, LastWord, Waits, LayerOps, SelfAt, Top
<1>4. \A m \in 1..w : At(calls, m) # mySelf
  BY <1>1, <1>2, <1>3, OnlyHere
<1> QED
  BY <1>4 DEF At

\* Every path to destroy-instance of an instance whose `open` was successful goes through ?close,
\* and through one at a time: those of close-chain, close-parents and close-package do, and that
\* of open-package unless an interposer fails.
THEOREM ClosedBeforeGone == InstancesSpec => ClosedFirst
<1>1. ChainsInv /\ [InstancesNext]_instances
        => [/\ InterposerFails \/ (live \ (live' \union abandoned')) \intersect opened = {}
            /\ CloseOne => \A n \in 1..Len(calls) : calls[n].op = "close" => calls[n].at # mySelf
           ]_instances
  <2> SUFFICES ASSUME ChainsInv, [InstancesNext]_instances, ~(UNCHANGED instances)
               PROVE  /\ InterposerFails \/ (live \ (live' \union abandoned')) \intersect opened = {}
                      /\ CloseOne => \A n \in 1..Len(calls) :
                                       calls[n].op = "close" => calls[n].at # mySelf
    OBVIOUS
  <2>1. ~astray /\ (OfCode \/ OfLayer)
    BY DEF InstancesNext
  <2>2. Typed /\ Good
    BY <2>1 DEF ChainsInv, Good
  <2> QED
    BY <2>1, <2>2, ClosedStep, CloseOnce
<1> QED
  BY <1>1, ChainsStay, PTL DEF InstancesSpec, ClosedFirst

-----------------------------------------------------------------------------
(***************************************************************************)
(* How deep the stack grows.                                               *)
(***************************************************************************)

\* Only what closes goes deeper than MaxCalls.
Reach(f, n) ==
  /\ f.op \notin {"closing", "close"} => n <= MaxCalls
  /\ f.op \in {"path", "package"} => n + 1 <= MaxCalls
Shallow(c) == c \in Seq(Frame) /\ \A n \in 1..Len(c) : Reach(c[n], n)

\* A word that has closed has destroyed an instance.
Spare(c, s, lv) == c[Len(c)].op = "closing" /\ s \in {None, At(c, Len(c))} => lv # Ihandles

Rests(c) == c[Len(c)].op # "closing"

\* The bound of the type invariant.
Bounded == Len(calls) \in 1..MaxCalls + 2 * Cardinality(Ihandles)

\* A word that closes, or its `close`, has an instance of its own: the one that it is at.
LEMMA BoundedStack ==
  ASSUME NEW p, Heap(p), NEW lv \in SUBSET Ihandles, Tree(p, lv), NEW c, NEW s, NEW K,
         Stacked(c, s), Alive(p, lv, c, s, K), Apart(p, c, s, K), Shallow(c), Spare(c, s, lv)
  PROVE  Len(c) <= MaxCalls + 2 * Cardinality(Ihandles)
<1> DEFINE L == Len(c)
           Pair == {"closing", "close"}
           spare == CHOOSE i \in Ihandles : i \notin lv
           Busy(n) == SelfAt(c, s, n) \notin {None, At(c, n)}
           Whose(n) == IF c[n].op = "close" THEN At(c, n)
                       ELSE IF Busy(n) THEN SelfAt(c, s, n) ELSE spare
<1>1. /\ L \in Nat \ {0} /\ c[1].op = "program" /\ \A n \in 1..L : c[n] \in Frame
      /\ \A n \in 2..L : Fits(c[n - 1], c[n]) /\ n - 1 \in 1..L
  BY PiledFacts DEF Stacked
<1>2. ASSUME NEW n \in 1..L, n > MaxCalls
      PROVE  c[n].op \in Pair
  BY <1>2 DEF Shallow, Reach
<1>3. ASSUME NEW n \in 1..L, Waits(c, n), Busy(n)
      PROVE  SelfAt(c, s, n) \in lv /\ \A m \in 1..n : At(c, m) # SelfAt(c, s, n)
  <2>1. Clear(p, c, s, K, n)
    BY <1>3 DEF Apart
  <2>2. SelfAt(c, s, n) \in lv
    BY <1>1, <1>3, SelfAlive DEF Alive
  <2>3. At(c, n) \in (ChainIn(p, SelfAt(c, s, n)) \ {SelfAt(c, s, n)}) \union {None}
    BY <1>3, <2>1 DEF Clear
  <2>4. SelfAt(c, s, n) \in Segment(p, c, s, n)
    BY <2>2, <2>3, SpanFacts DEF Segment
  <2>5. ASSUME NEW m \in 1..n, At(c, m) = SelfAt(c, s, n)
        PROVE  FALSE
    <3>1. SelfAt(c, s, n) \in ChainIn(p, At(c, m))
      BY <2>2, <2>5, ChainBasics
    <3> QED
      BY <2>1, <2>4, <3>1 DEF Clear
  <2> QED
    BY <2>2, <2>5
<1>4. ASSUME NEW n \in 1..L, c[n].op = "close"
      PROVE  /\ At(c, n) \in lv /\ n - 1 \in 1..L
             /\ \A m \in 1..n - 1 : At(c, m) # At(c, n)
  <2>1. n \in 2..L
    BY <1>1, <1>4
  <2>2. Fits(c[n - 1], c[n]) /\ n - 1 \in 1..L /\ n - 1 # L /\ (n - 1) + 1 = n
    BY <1>1, <2>1
  <2>3. Waits(c, n - 1) /\ SelfAt(c, s, n - 1) = At(c, n) /\ Busy(n - 1)
    BY <1>4, <2>2 DEF Fits, Waits, SelfAt, At, Caught
  <2> QED
    BY <1>3, <2>2, <2>3
<1>5. ASSUME NEW n \in 1..L, c[n].op = "closing", n # L
      PROVE  Busy(n) /\ SelfAt(c, s, n) = At(c, n + 1)
  <2>1. n + 1 \in 2..L /\ (n + 1) - 1 = n
    BY <1>1, <1>5
  <2>2. Fits(c[n], c[n + 1])
    BY <1>1, <2>1
  <2>3. c[n + 1].op \in Caught
    <3>1. n + 1 \in 1..L
      BY <1>1, <2>1
    <3>2. c[n + 1] \in Frame
      BY <1>1, <3>1
    <3>3. c[n + 1].op \in Ops
      BY <3>2 DEF Frame
    <3> QED
      BY <1>5, <2>2, <3>3 DEF Fits, Ops, Code, Caught, LayerOps
  <2> QED
    BY <1>5, <2>2, <2>3 DEF Fits, SelfAt, At
<1>6. ASSUME NEW n \in 1..L, c[n].op = "closing", ~Busy(n)
      PROVE  n = L /\ spare \in Ihandles \ lv
  <2>1. n = L
    BY <1>5, <1>6
  <2>2. lv # Ihandles
    BY <1>6, <2>1 DEF Spare, SelfAt
  <2> QED
    BY <2>1, <2>2
<1> HIDE DEF spare
<1>7. ASSUME NEW n \in 1..L, c[n].op \in Pair
      PROVE  Whose(n) \in Ihandles
  <2>1. CASE c[n].op = "close"
    BY <2>1, <1>4
  <2>2. CASE c[n].op = "closing" /\ Busy(n)
    BY <2>2, <1>3 DEF Waits, LayerOps
  <2>3. CASE c[n].op = "closing" /\ ~Busy(n)
    BY <2>3, <1>6
  <2> QED
    BY <1>7, <2>1, <2>2, <2>3
<1>8. ASSUME NEW m \in 1..L, NEW n \in 1..L, m < n, c[m].op \in Pair, c[n].op = c[m].op
      PROVE  Whose(m) # Whose(n)
  <2>1. m \in 1..n - 1 /\ m # L /\ m + 1 \in 1..n /\ m + 1 \in 1..L
    BY <1>1, <1>8
  <2>2. CASE c[m].op = "close"
    BY <2>1, <2>2, <1>8, <1>4
  <2>3. CASE c[m].op = "closing"
    <3>1. Whose(m) = At(c, m + 1) /\ At(c, m + 1) \in lv
      <4>1. Busy(m) /\ SelfAt(c, s, m) = At(c, m + 1)
        BY <2>1, <2>3, <1>5
      <4>2. SelfAt(c, s, m) \in lv
        BY <2>3, <4>1, <1>3 DEF Waits, LayerOps
      <4> QED
        BY <2>3, <4>1, <4>2
    <3>2. CASE Busy(n)
      BY <2>1, <2>3, <3>1, <3>2, <1>8, <1>3 DEF Waits, LayerOps
    <3>3. CASE ~Busy(n)
      BY <2>3, <3>1, <3>3, <1>8, <1>6
    <3> QED
      BY <3>2, <3>3
  <2> QED
    BY <1>8, <2>2, <2>3
<1> HIDE DEF Whose, Busy
<1> DEFINE S == MaxCalls + 1..L
           T == Ihandles \X Pair
           f == [n \in S |-> <<Whose(n), c[n].op>>]
<1>9. MaxCalls \in Nat /\ Cardinality(Ihandles) \in Nat /\ IsFiniteSet(Ihandles)
  BY FS_CardinalityType
<1>10. IsFiniteSet(Pair) /\ Cardinality(Pair) = 2
  <2> DEFINE one == {"closing"}
  <2>1. IsFiniteSet(one) /\ Cardinality(one) = 1
    BY FS_Singleton
  <2>2. Pair = one \cup {"close"} /\ "close" \notin one
    OBVIOUS
  <2> HIDE DEF one, Pair
  <2>3. IsFiniteSet(one \cup {"close"}) /\ Cardinality(one \cup {"close"}) = 1 + 1
    BY ONLY <2>1, <2>2, FS_AddElement
  <2> QED
    BY <2>2, <2>3
<1> HIDE DEF Pair
<1>11. IsFiniteSet(T) /\ Cardinality(T) = 2 * Cardinality(Ihandles)
  <2>1. IsFiniteSet(T) /\ Cardinality(T) = Cardinality(Ihandles) * Cardinality(Pair)
    BY <1>9, <1>10, FS_Product
  <2> QED
    BY <1>9, <1>10, <2>1
<1>12. IsFiniteSet(S) /\ Cardinality(S) = IF MaxCalls + 1 > L THEN 0 ELSE L - MaxCalls
  <2>1. MaxCalls + 1 \in Int /\ L \in Int
    BY <1>1, <1>9
  <2>2. IsFiniteSet(S) /\ Cardinality(S) = IF MaxCalls + 1 > L THEN 0 ELSE L - (MaxCalls + 1) + 1
    BY <2>1, FS_Interval
  <2> QED
    BY <1>1, <1>9, <2>2
<1>13. f \in [S -> T]
  <2> SUFFICES ASSUME NEW n \in S
               PROVE  <<Whose(n), c[n].op>> \in T
    OBVIOUS
  <2>1. n \in 1..L /\ n > MaxCalls
    BY <1>1, <1>9
  <2> QED
    BY <2>1, <1>2, <1>7
<1>14. ASSUME NEW m \in S, NEW n \in S, m # n
       PROVE  f[m] # f[n]
  <2>1. m \in 1..L /\ n \in 1..L /\ m > MaxCalls /\ n > MaxCalls /\ (m < n \/ n < m)
    BY <1>1, <1>9, <1>14
  <2>2. f[m] = <<Whose(m), c[m].op>> /\ f[n] = <<Whose(n), c[n].op>>
    OBVIOUS
  <2> HIDE DEF f
  <2>3. c[m].op = c[n].op => Whose(m) # Whose(n)
    BY <2>1, <1>2, <1>8
  <2> QED
    BY <2>2, <2>3
<1>15. ~(Cardinality(T) < Cardinality(S))
  <2> HIDE DEF S, T, f
  <2> QED
    BY <1>11, <1>12, <1>13, <1>14, FS_PigeonHole
<1> QED
  BY <1>1, <1>9, <1>11, <1>12, <1>15

LEMMA ShallowCut ==
  ASSUME NEW c, Shallow(c), NEW n \in 0..Len(c), NEW d, d = SubSeq(c, 1, n)
  PROVE  Shallow(d) /\ Len(d) = n /\ \A m \in 1..n : d[m] = c[m]
<1>1. c \in Seq(Frame) /\ Len(c) \in Nat
  BY DEF Shallow
<1>2. d \in Seq(Frame) /\ Len(d) = n /\ \A m \in 1..n : d[m] = c[m] /\ m \in 1..Len(c)
  BY <1>1
<1> QED
  BY <1>2 DEF Shallow

LEMMA ShallowPush ==
  ASSUME NEW c, Shallow(c), NEW f \in Frame, Reach(f, Len(c) + 1), NEW d, d = Append(c, f)
  PROVE  Shallow(d) /\ Len(d) = Len(c) + 1 /\ OnTop(d, f)
<1>1. c \in Seq(Frame) /\ Len(c) \in Nat
  BY DEF Shallow
<1>2. /\ d \in Seq(Frame) /\ Len(d) = Len(c) + 1 /\ d[Len(c) + 1] = f
      /\ \A m \in 1..Len(c) : d[m] = c[m]
  BY <1>1
<1>3. ASSUME NEW m \in 1..Len(d)
      PROVE  Reach(d[m], m)
  <2>1. m = Len(c) + 1 \/ m \in 1..Len(c)
    BY <1>1, <1>2
  <2> QED
    BY <2>1, <1>2 DEF Shallow
<1> QED
  BY <1>2, <1>3 DEF Shallow, OnTop

\* The last of a stack in another form.
LEMMA ShallowPut ==
  ASSUME NEW c, Shallow(c), NEW l \in Nat, l + 1 <= Len(c), NEW f \in Frame, Reach(f, l + 1),
         NEW d, d = SubSeq(c, 1, l) \o <<f>>
  PROVE  Shallow(d) /\ Len(d) = l + 1 /\ OnTop(d, f)
<1>1. c \in Seq(Frame) /\ Len(c) \in Nat
  BY DEF Shallow
<1>2. d \in Seq(Frame) /\ Len(d) = l + 1 /\ Agree(c, d, l) /\ OnTop(d, f)
  BY <1>1, Replaced
<1>3. ASSUME NEW m \in 1..Len(d)
      PROVE  Reach(d[m], m)
  <2>1. m = l + 1 \/ (m \in 1..l /\ m \in 1..Len(c))
    BY <1>1, <1>2
  <2> QED
    BY <2>1, <1>2 DEF Shallow, Agree, OnTop
<1> QED
  BY <1>2, <1>3 DEF Shallow

Nested == Shallow(calls) /\ Spare(calls, mySelf, live)
Settled == Shallow(calls) /\ Rests(calls)

LEMMA SettledNested ==
  Settled' => Nested'
BY DEF Settled, Nested, Rests, Spare

\* A word goes on the stack that does not close.
LEMMA PushSettled ==
  ASSUME Nested, NEW f \in Frame, f.op # "closing", Reach(f, Len(calls) + 1),
         calls' = Append(calls, f)
  PROVE  Settled'
<1>1. Shallow(calls') /\ OnTop(calls', f)
  BY ShallowPush DEF Nested
<1> QED
  BY <1>1 DEF Settled, Rests, OnTop

\* Words are done, and code goes on.
LEMMA CutSettled ==
  ASSUME Nested, NEW n \in 1..Len(calls), calls[n].op # "closing", calls' = SubSeq(calls, 1, n)
  PROVE  Settled'
<1>1. n \in 0..Len(calls)
  OBVIOUS
<1>2. Shallow(calls') /\ Len(calls') = n /\ \A m \in 1..n : calls'[m] = calls[m]
  BY <1>1, ShallowCut DEF Nested
<1>3. n \in 1..n
  OBVIOUS
<1> QED
  BY <1>2, <1>3 DEF Settled, Rests

LEMMA WordDone ==
  ASSUME Typed, Good, Nested, Top.op \in LayerOps \union {"method"}, calls' = Below(1)
  PROVE  Settled'
<1> DEFINE l == Len(calls) - 1
<1>1. l \in 1..Len(calls) /\ calls[l].op \in Code
  BY Given, TopWord, TopMethod DEF Top
<1>2. calls' = SubSeq(calls, 1, l) /\ calls[l].op # "closing"
  BY <1>1 DEF Below, Code, Caught
<1> QED
  BY <1>1, <1>2, CutSettled

LEMMA OpenDone ==
  ASSUME Typed, Good, Nested, Top.op \in Caught, calls' = Below(2)
  PROVE  Settled'
<1> DEFINE l == Len(calls) - 2
<1>1. l \in 1..Len(calls) /\ calls[l].op \in Code
  BY Given, TopCaught DEF Top
<1>2. calls' = SubSeq(calls, 1, l) /\ calls[l].op # "closing"
  BY <1>1 DEF Below, Code, Caught
<1> QED
  BY <1>1, <1>2, CutSettled

LEMMA CodeSettled ==
  ASSUME Typed, Good, Nested, OfCode, ~astray', \A h \in held : ~CloseHeld(h)
  PROVE  Settled'
<1> DEFINE L == Len(calls)
<1>1. L \in Nat \ {0} /\ Shallow(calls) /\ MaxCalls \in Nat
  BY Given DEF Nested
<1>2. ASSUME NEW i \in Ihandles, CallMethod(i)
      PROVE  Settled'
  <2> DEFINE f == Word("method", i, mySelf, "", "")
  <2>1. f \in Frame /\ f.op = "method"
    BY DEF Word, Frame, Ops, Code, Selves, Typed
  <2>2. calls' = Append(calls, f) /\ L + 1 <= MaxCalls
    BY <1>2 DEF CallMethod, Deeper
  <2> HIDE DEF f
  <2>3. Reach(f, L + 1)
    BY <2>1, <2>2 DEF Reach
  <2> QED
    BY <2>1, <2>2, <2>3, PushSettled
<1>3. ASSUME NEW goal \in Goals, OpenDev(goal)
      PROVE  Settled'
  <2> DEFINE f == Word("path", None, mySelf, goal, "select")
  <2>1. f \in Frame /\ f.op = "path"
    BY DEF Word, Frame, Ops, Selves, Typed
  <2>2. calls' = Append(calls, f) /\ L + 2 <= MaxCalls
    BY <1>3 DEF OpenDev, Deeper
  <2> HIDE DEF f
  <2>3. Reach(f, L + 1)
    BY <1>1, <2>1, <2>2 DEF Reach
  <2> QED
    BY <2>1, <2>2, <2>3, PushSettled
<1>4. ASSUME NEW i \in Ihandles, OpenPackage(i)
      PROVE  Settled'
  <2> DEFINE f == Word("package", mySelf, mySelf, "", "")
             g == Method("open", i)
             b == Append(calls, f)
  <2>1. f \in Frame /\ f.op = "package"
    BY DEF Word, Frame, Ops, Selves, Typed
  <2>2. g \in Frame /\ g.op = "open"
    <3>1. "open" \in Ops /\ i \in Selves
      BY DEF Ops, Code, Caught, Selves
    <3> QED
      BY <3>1, MethodFrame
  <2>3. calls' = calls \o <<f, g>> /\ L + 2 <= MaxCalls
    BY <1>4 DEF OpenPackage, Deeper
  <2> HIDE DEF f, g
  <2>4. calls' = Append(b, g)
    BY <1>1, <2>1, <2>2, <2>3 DEF Shallow
  <2>5. Reach(f, L + 1) /\ Reach(g, L + 2)
    BY <1>1, <2>1, <2>2, <2>3 DEF Reach
  <2>6. Shallow(b) /\ Len(b) = L + 1
    BY <1>1, <2>1, <2>5, ShallowPush
  <2> HIDE DEF b
  <2>7. Reach(g, Len(b) + 1)
    BY <1>1, <2>5, <2>6
  <2>8. Shallow(calls') /\ OnTop(calls', g)
    BY <2>2, <2>4, <2>6, <2>7, ShallowPush
  <2> QED
    BY <2>2, <2>8 DEF Settled, Rests, OnTop
<1>5. ASSUME NEW package \in BOOLEAN, Interpose(package)
      PROVE  Settled'
  BY <1>1, <1>5 DEF Interpose, Settled, Rests, Top
<1>6. CASE Throw
  <2>1. PICK n \in 1..L - 1 : calls' = SubSeq(calls, 1, n)
                              /\ \A k \in n + 1..L : calls[k].op = "method"
    BY <1>6 DEF Throw
  <2>2. n + 1 \in n + 1..L /\ n + 1 \in 2..L /\ (n + 1) - 1 = n /\ n \in 1..L
    BY <1>1
  <2>3. Fits(calls[n], calls[n + 1]) /\ calls[n + 1].op = "method"
    BY <2>1, <2>2, Given, PiledFacts
  <2>4. calls[n].op # "closing"
    BY <2>3 DEF Fits, Code, Caught
  <2> QED
    BY <2>1, <2>2, <2>4, CutSettled
<1>7. CASE MethodReturns
  BY <1>7, WordDone DEF MethodReturns
<1> QED
  BY <1>2, <1>3, <1>4, <1>5, <1>6, <1>7 DEF OfCode

LEMMA ResultSettled ==
  ASSUME Typed, Good, Nested, Top.op = "path", NEW i, Result(i)
  PROVE  Settled'
BY WordDone DEF Result, LayerOps

\* A method of a word that may still be in its place, or in another form.
LEMMA CalledSettled ==
  ASSUME NEW c, Shallow(c), NEW i \in Ihandles, NEW op \in Caught, Len(c) + 1 <= MaxCalls,
         calls' = Append(c, Method(op, i))
  PROVE  Settled'
<1> DEFINE g == Method(op, i)
<1>1. g \in Frame /\ g.op = op /\ op \notin {"closing", "path", "package"}
  <2>1. op \in Ops /\ i \in Selves /\ op \notin {"closing", "path", "package"}
    BY DEF Ops, Code, Caught, Selves
  <2> QED
    BY <2>1, MethodFrame
<1> HIDE DEF g
<1>2. Reach(g, Len(c) + 1)
  BY <1>1 DEF Reach
<1>3. Shallow(calls') /\ OnTop(calls', g)
  BY <1>1, <1>2, ShallowPush DEF g
<1> QED
  BY <1>1, <1>3 DEF Settled, Rests, OnTop

LEMMA SelectNodeSettled ==
  ASSUME Typed, Good, Nested, NEW i \in Ihandles, SelectNode(i)
  PROVE  Settled'
<1> DEFINE L == Len(calls)
           l == L - 1
<1>1. /\ Top.op = "path" /\ Shallow(calls) /\ L \in Nat /\ L >= 2 /\ calls[L] \in Frame
      /\ L \in 1..L
  BY Given, TopWord DEF Top, LayerOps, Nested, SelectNode
<1>2. Reach(calls[L], L) /\ L + 1 <= MaxCalls
  BY <1>1 DEF Shallow, Reach, Top
<1>3. CASE calls' = Append(calls, Method("open", i)) \/ calls' = Append(calls, Method("apply", i))
  BY <1>1, <1>2, <1>3, CalledSettled DEF Caught
<1>4. CASE calls' = Append(Below(1) \o <<[Top EXCEPT !.stage = "last"]>>, Method("open", i))
  <2> DEFINE f == [Top EXCEPT !.stage = "last"]
             b == Below(1) \o <<f>>
  <2>1. f \in Frame /\ f.op = "path"
    <3>1. "last" \in Stages
      BY DEF Stages
    <3> QED
      BY <1>1, <3>1, Staged DEF Top
  <2> HIDE DEF f
  <2>2. l \in Nat /\ l + 1 = L /\ Reach(f, L)
    BY <1>1, <1>2, <2>1 DEF Reach, Top
  <2>3. Shallow(b) /\ Len(b) = L
    <3>1. b = SubSeq(calls, 1, l) \o <<f>> /\ l + 1 <= Len(calls) /\ Reach(f, l + 1)
      BY <2>2 DEF Below
    <3> HIDE DEF b, l
    <3> QED
      BY <1>1, <2>1, <2>2, <3>1, ShallowPut
  <2>4. calls' = Append(b, Method("open", i))
    BY <1>4 DEF f
  <2> HIDE DEF b
  <2> QED
    BY <1>2, <2>3, <2>4, CalledSettled DEF Caught
<1>5. CASE Result(i)
  BY <1>1, <1>5, ResultSettled
<1> QED
  BY <1>3, <1>4, <1>5 DEF SelectNode

\* A word takes another form once the method that it has called is done.
LEMMA CallerPut ==
  ASSUME Typed, Good, Nested, Top.op \in Caught, Caller.op \in {"path", "package"},
         NEW stage \in Stages, NEW d, d = Below(2) \o <<[Caller EXCEPT !.stage = stage]>>
  PROVE  /\ Shallow(d) /\ Len(d) = Len(calls) - 1 /\ Rests(d) /\ Len(calls) \in Nat
         /\ Len(calls) <= MaxCalls
<1> DEFINE L == Len(calls)
           f == [Caller EXCEPT !.stage = stage]
<1>1. /\ L \in Nat /\ L >= 3 /\ L - 1 \in 1..L /\ Caller \in Frame /\ Caller = calls[L - 1]
      /\ Shallow(calls)
  BY Given, TopCaught DEF Top, Caller, Nested
<1>2. f \in Frame /\ f.op \in {"path", "package"}
  BY <1>1, Staged
<1> HIDE DEF f
<1>3. Reach(Caller, L - 1) /\ L <= MaxCalls
  BY <1>1 DEF Shallow, Reach
<1>4. PICK l \in Nat : l = L - 2
  <2>1. L - 2 \in Nat
    BY <1>1
  <2> QED
    BY <2>1
<1>5. /\ d = SubSeq(calls, 1, l) \o <<f>> /\ l + 1 <= Len(calls) /\ Reach(f, l + 1)
      /\ l + 1 = L - 1
  BY <1>1, <1>2, <1>3, <1>4 DEF Below, f, Reach
<1>6. Shallow(d) /\ Len(d) = l + 1 /\ OnTop(d, f)
  BY <1>1, <1>2, <1>5, ShallowPut
<1> QED
  BY <1>1, <1>2, <1>3, <1>5, <1>6 DEF Rests, OnTop

LEMMA OpenedSettled ==
  ASSUME Typed, Good, Nested, NodeOpened \/ PackageOpened
  PROVE  Settled'
<1> DEFINE L == Len(calls)
<1>1. /\ Top.op \in Caught /\ Caller.op \in {"path", "package"}
  BY DEF NodeOpened, PackageOpened, Caught
<1>2. /\ L \in Nat /\ L >= 3 /\ L - 1 \in 1..L /\ Caller = calls[L - 1] /\ Shallow(calls)
  BY <1>1, Given, TopCaught DEF Top, Caller, Nested
<1>3. Reach(Caller, L - 1) /\ L <= MaxCalls
  BY <1>1, <1>2 DEF Shallow, Reach
<1>4. ASSUME NEW i \in Ihandles, calls' = Append(Below(1), Method("open", i))
      PROVE  Settled'
  <2> DEFINE b == Below(1)
  <2>1. Shallow(b) /\ Len(b) = L - 1
    <3>1. b = SubSeq(calls, 1, L - 1) /\ L - 1 \in 0..L
      BY <1>2 DEF Below
    <3> HIDE DEF b
    <3> QED
      BY <1>2, <3>1, ShallowCut
  <2>2. Len(b) + 1 <= MaxCalls
    BY <1>2, <1>3, <2>1
  <2> HIDE DEF b
  <2> QED
    BY <1>4, <2>1, <2>2, CalledSettled DEF Caught, b
<1>5. CASE calls' = Below(1)
  <2>1. calls' = SubSeq(calls, 1, L - 1) /\ calls[L - 1].op # "closing"
    BY <1>1, <1>2, <1>5 DEF Below
  <2> QED
    BY <1>2, <2>1, CutSettled
<1>6. ASSUME NEW i \in Ihandles,
             calls' = Append(Below(2) \o <<[Caller EXCEPT !.stage = "interposed"]>>, Method("open", i))
      PROVE  Settled'
  <2> DEFINE b == Below(2) \o <<[Caller EXCEPT !.stage = "interposed"]>>
  <2>1. Shallow(b) /\ Len(b) = L - 1
    <3>1. "interposed" \in Stages
      BY DEF Stages
    <3> QED
      BY <1>1, <3>1, CallerPut
  <2>2. Len(b) + 1 <= MaxCalls
    BY <1>2, <1>3, <2>1
  <2> HIDE DEF b
  <2> QED
    BY <1>6, <2>1, <2>2, CalledSettled DEF Caught, b
<1>7. CASE calls' = Below(2)
  BY <1>1, <1>7, OpenDone
<1>8. CASE NodeOpened
  BY <1>4, <1>5, <1>7, <1>8 DEF NodeOpened
<1>9. CASE PackageOpened
  BY <1>6, <1>7, <1>9 DEF PackageOpened
<1> QED
  BY <1>8, <1>9

LEMMA LayerSettled ==
  ASSUME Typed, Good, Nested, OfLayer, ~astray', ~ClosedOne
  PROVE  Settled'
<1> DEFINE L == Len(calls)
<1>1. L \in Nat \ {0} /\ Shallow(calls)
  BY Given DEF Nested
<1>2. ASSUME NEW i \in Ihandles, SelectNode(i)
      PROVE  Settled'
  BY <1>2, SelectNodeSettled
<1>3. CASE NoDevice
  <2>1. /\ calls' = [calls EXCEPT ![L].stage = "close"] /\ calls[L].op = "path"
        /\ calls \in Seq(Frame) /\ L \in 1..L
    BY <1>1, <1>3 DEF NoDevice, Top, Typed
  <2>2. calls[L] \in Frame /\ "close" \in Stages
    BY <2>1 DEF Stages
  <2> DEFINE f == [calls[L] EXCEPT !.stage = "close"]
  <2>3. f \in Frame /\ f.op = "path"
    BY <2>1, <2>2, Staged
  <2>4. calls' = [calls EXCEPT ![L] = f]
    BY <2>1
  <2> HIDE DEF f
  <2>5. /\ calls' \in Seq(Frame) /\ Len(calls') = L /\ calls'[L] = f
        /\ \A n \in 1..L : n # L => calls'[n] = calls[n]
    BY <2>1, <2>3, <2>4
  <2>6. \A n \in 1..L : Reach(calls'[n], n)
    BY <1>1, <2>1, <2>3, <2>5 DEF Shallow, Reach
  <2> QED
    BY <2>3, <2>5, <2>6 DEF Settled, Shallow, Rests
<1>4. CASE NoPackage
  BY <1>4, ResultSettled DEF NoPackage
<1>5. CASE CloseChain
  <2>1. Top.op \in Caught /\ Caller.op \in {"path", "package"} /\ "close" \in Stages
        /\ calls' = Below(2) \o <<[Caller EXCEPT !.stage = "close"]>>
    BY <1>5 DEF CloseChain, Caught, Stages
  <2> QED
    BY <2>1, CallerPut DEF Settled
<1>6. CASE NodeOpened \/ PackageOpened
  BY <1>6, OpenedSettled
<1>7. CASE PackageFails
  BY <1>7, OpenDone DEF PackageFails, Caught
<1>8. CASE CloseOne
  <2> DEFINE f == Method("close", mySelf)
  <2>1. f \in Frame /\ f.op = "close"
    <3>1. "close" \in Ops /\ mySelf \in Selves
      BY DEF Ops, Code, Caught, Typed
    <3> QED
      BY <3>1, MethodFrame
  <2>2. Reach(f, L + 1) /\ calls' = Append(calls, f)
    BY <1>8, <2>1 DEF Reach, CloseOne
  <2> HIDE DEF f
  <2> QED
    BY <2>1, <2>2, PushSettled
<1>9. CASE EndOfChain
  BY <1>9, WordDone DEF EndOfChain, Walking, LayerOps
<1> QED
  BY <1>2, <1>3, <1>4, <1>5, <1>6, <1>7, <1>8, <1>9 DEF OfLayer

LEMMA NestedStep ==
  ASSUME Typed, Good, Nested, OfCode \/ OfLayer, ~astray'
  PROVE  Nested'
<1>1. Len(calls) \in Nat \ {0} /\ Shallow(calls)
  BY Given DEF Nested
<1>2. ASSUME NEW h \in held, CloseHeld(h)
      PROVE  Nested'
  <2> DEFINE f == Word("closing", h[2], mySelf, "", "")
  <2>1. h \in Kept /\ h[1] \in Ihandles /\ h[2] \in Selves
    BY DEF Kept, Typed
  <2>2. From(h) # To(h) /\ From(h) # None
    BY <2>1, Given DEF Strung, Alive, EndsAbove, From, To
  <2>3. f \in Frame /\ f.op = "closing" /\ f.at = h[2]
    BY <2>1 DEF Word, Frame, Ops, Typed
  <2>4. Reach(f, Len(calls) + 1) /\ calls' = Append(calls, f) /\ mySelf' = h[1]
    BY <1>2, <2>3 DEF Reach, CloseHeld
  <2> HIDE DEF f
  <2>5. Shallow(calls') /\ OnTop(calls', f)
    BY <1>1, <2>3, <2>4, ShallowPush
  <2> QED
    BY <2>2, <2>3, <2>4, <2>5 DEF Nested, Spare, OnTop, From, To, At
<1>3. CASE ClosedOne
  <2>1. Top.op \in Caught /\ calls' = Below(1) /\ Destroy({mySelf})
    BY <1>3 DEF ClosedOne, DestroyInstance, Caught
  <2>2. mySelf \in Ihandles /\ Len(calls) - 1 \in 0..Len(calls)
    BY <2>1, Given, TopCaught DEF Top, Typed, Selves
  <2>3. Shallow(calls')
    BY <1>1, <2>1, <2>2, ShallowCut DEF Below
  <2>4. mySelf \notin live'
    <3>1. mySelf \in ChainIn(parent, mySelf)
      BY <2>2, Given, ChainBasics
    <3> QED
      BY <2>1, <3>1, ChainIs DEF Destroy, Gone
  <2> QED
    BY <2>2, <2>3, <2>4 DEF Nested, Spare
<1>4. CASE OfCode /\ \A h \in held : ~CloseHeld(h)
  BY <1>4, CodeSettled, SettledNested
<1>5. CASE OfLayer /\ ~ClosedOne
  BY <1>5, LayerSettled, SettledNested
<1> QED
  BY <1>2, <1>3, <1>4, <1>5

LEMMA NestedBounded ==
  ASSUME Typed, Good, Nested
  PROVE  Bounded
<1>1. Len(calls) \in Nat \ {0} /\ MaxCalls \in Nat /\ Cardinality(Ihandles) \in Nat
  BY Given, FS_CardinalityType
<1>2. Len(calls) <= MaxCalls + 2 * Cardinality(Ihandles)
  BY Given, BoundedStack DEF Nested, Strung
<1> QED
  BY <1>1, <1>2 DEF Bounded

\* The type invariant of chains of instances.  Words that close may close while they close, as
\* deep as the methods like, but each one has an instance of its own.
THEOREM InstancesTyped == InstancesSpec => []InstancesTypeOK
<1> DEFINE NestedInv == ~astray => Nested
           Deep == ~astray => Bounded
<1>1. InstancesInit => NestedInv /\ Bounded
  <2> SUFFICES ASSUME InstancesInit
               PROVE  Nested /\ Bounded
    OBVIOUS
  <2> DEFINE f == Method("program", None)
  <2>1. calls = <<f>>
    BY DEF InstancesInit
  <2>2. f \in Frame /\ f.op = "program"
    <3>1. "program" \in Ops /\ None \in Selves
      BY DEF Ops, Code, Selves
    <3> QED
      BY <3>1, MethodFrame
  <2> HIDE DEF f
  <2>3. calls \in Seq(Frame) /\ Len(calls) = 1 /\ calls[1] = f
    BY <2>1, <2>2
  <2>4. MaxCalls \in Nat \ {0} /\ Cardinality(Ihandles) \in Nat
    BY FS_CardinalityType
  <2>5. Reach(f, 1)
    BY <2>2, <2>4 DEF Reach
  <2>6. Nested
    BY <2>2, <2>3, <2>5 DEF Nested, Shallow, Spare
  <2> QED
    BY <2>3, <2>4, <2>6 DEF Bounded
<1>2. ChainsInv /\ NestedInv /\ [InstancesNext]_instances => NestedInv'
  <2> SUFFICES ASSUME ChainsInv, NestedInv, [InstancesNext]_instances, ~astray'
               PROVE  Nested'
    OBVIOUS
  <2>1. CASE ~astray /\ (OfCode \/ OfLayer)
    BY <2>1, NestedStep DEF ChainsInv, Good
  <2>2. CASE UNCHANGED instances
    BY <2>2 DEF instances, Nested, Shallow, Spare
  <2> QED
    BY <2>1, <2>2 DEF InstancesNext
<1>3. ChainsInv /\ NestedInv => Deep
  BY NestedBounded DEF ChainsInv, Good
<1>4. ChainsInv /\ Bounded /\ Deep' /\ [InstancesNext]_instances => Bounded'
  <2> SUFFICES ASSUME ChainsInv, Bounded, [InstancesNext]_instances, astray'
               PROVE  Bounded'
    OBVIOUS
  <2>1. CASE ~astray /\ (OfCode \/ OfLayer)
    <3>1. Len(calls') \in 1..Len(calls) /\ Cardinality(Ihandles) \in Nat /\ MaxCalls \in Nat
      BY <2>1, AstrayTyped, FS_CardinalityType DEF ChainsInv, Good
    <3> QED
      BY <3>1 DEF Bounded
  <2>2. CASE UNCHANGED instances
    BY <2>2 DEF instances, Bounded
  <2> QED
    BY <2>1, <2>2 DEF InstancesNext
<1>5. ChainsInv /\ Bounded => InstancesTypeOK
  BY DEF ChainsInv, Typed, Bounded, InstancesTypeOK
<1> QED
  BY <1>1, <1>2, <1>3, <1>4, <1>5, ChainsStay, PTL DEF InstancesSpec

-----------------------------------------------------------------------------
(***************************************************************************)
(* The deblocker.                                                          *)
(***************************************************************************)

HIDE InstancesAssumption

USE DeblockerAssumption

DeviceEnd == Capacity * BlockSize

\* Where the window is, and where a turn of a transfer finds the buffer.
InWindow ==
  /\ btop <= bend /\ dstart + Synced <= MaxPos
  /\ run = "closed" => ~dirty
  /\ run = "copyout" => bcurrent <= btop
  /\ run = "more" => bcurrent = btop
  /\ run = "room" => bcurrent = bend
  /\ run \in {"copyin", "room"} => dstart + bcurrent + rem <= MaxPos

IInv == TypeOK /\ InWindow /\ CleanIsDevice

LEMMA Bounds ==
  /\ BlockSize \in Nat \ {0} /\ BufSize \in Nat \ {0} /\ MaxLen \in Nat
  /\ DeviceEnd \in Nat /\ MaxPos = DeviceEnd + BufSize
BY DEF DeviceEnd, MaxPos

-----------------------------------------------------------------------------
\* What % does is settled by one way to write the number.
Way(a, w, q, r) == q \in Nat /\ r \in 0..w-1 /\ a = w * q + r

LEMMA WayIs ==
  ASSUME NEW w \in Nat \ {0}, NEW a \in Nat, NEW q, NEW r, Way(a, w, q, r)
  PROVE  a % w = r /\ a \div w = q
BY DEF Way

LEMMA WayThere ==
  ASSUME NEW w \in Nat \ {0}, NEW a \in Nat
  PROVE  Way(a, w, a \div w, a % w)
BY DEF Way

\* A multiple, and the sum of two.
LEMMA MultipleIs ==
  ASSUME NEW w \in Nat \ {0}, NEW k \in Nat
  PROVE  k * w \in Nat /\ (k * w) % w = 0
<1>1. k * w \in Nat /\ Way(k * w, w, k, 0)
  BY DEF Way
<1> QED
  BY <1>1, WayIs

LEMMA MultipleAdds ==
  ASSUME NEW w \in Nat \ {0}, NEW a \in Nat, a % w = 0, NEW b \in Nat, b % w = 0
  PROVE  (a + b) % w = 0
<1>1. PICK p, z : Way(a, w, p, z) /\ z = 0
  BY WayThere
<1>2. PICK q, r : Way(b, w, q, r) /\ r = 0
  BY WayThere
<1>3. p \in Nat /\ q \in Nat /\ a = w * p /\ b = w * q
  BY <1>1, <1>2 DEF Way
<1>4. w * p + w * q = w * (p + q)
  BY <1>3
<1>5. Way(a + b, w, p + q, 0)
  BY <1>3, <1>4 DEF Way
<1> QED
  BY <1>5, WayIs

\* A buffer is a number of blocks.
LEMMA MultipleOf ==
  ASSUME NEW w \in Nat \ {0}, NEW v \in Nat \ {0}, v % w = 0, NEW a \in Nat, a % v = 0
  PROVE  a % w = 0
<1>1. PICK p, z : Way(a, v, p, z) /\ z = 0
  BY WayThere
<1>2. PICK q, r : Way(v, w, q, r) /\ r = 0
  BY WayThere
<1>3. p \in Nat /\ q \in Nat /\ a = v * p /\ v = w * q
  BY <1>1, <1>2 DEF Way
<1>4. a = w * (q * p) /\ q * p \in Nat
  BY <1>3
<1>5. Way(a, w, q * p, 0)
  BY <1>4 DEF Way
<1> QED
  BY <1>5, WayIs

LEMMA DivBounds ==
  ASSUME NEW w \in Nat \ {0}, NEW a \in Nat, NEW k \in 0..(a \div w)
  PROVE  k * w \in Nat /\ k * w <= a /\ a \div w \in Nat
<1>1. PICK q, r : Way(a, w, q, r) /\ q = a \div w
  BY WayThere
<1>2. q \in Nat /\ r \in Nat /\ a = w * q + r /\ k \in 0..q
  BY <1>1 DEF Way
<1>3. PICK m \in Nat : q = k + m
  <2>1. q - k \in Nat /\ q = k + (q - k)
    BY <1>2
  <2> QED
    BY <2>1
<1>4. w * q = k * w + w * m /\ w * m \in Nat /\ k * w \in Nat
  BY <1>2, <1>3
<1> QED
  BY <1>1, <1>2, <1>4

LEMMA AlignedFacts ==
  ASSUME NEW d \in Nat
  PROVE  /\ Aligned(d) \in Nat /\ Aligned(d) % BufSize = 0
         /\ Aligned(d) <= d /\ d - Aligned(d) \in 0..BufSize-1
         /\ d % BufSize = 0 => Aligned(d) = d
<1>1. PICK q, r : Way(d, BufSize, q, r) /\ r = d % BufSize
  BY WayThere
<1>2. q \in Nat /\ r \in 0..BufSize-1 /\ d = BufSize * q + r /\ Aligned(d) = d - r
  BY <1>1 DEF Way, Aligned
<1>3. BufSize * q \in Nat /\ Aligned(d) = BufSize * q
  BY <1>2
<1>4. Way(BufSize * q, BufSize, q, 0)
  BY <1>2, <1>3 DEF Way
<1>5. (BufSize * q) % BufSize = 0
  BY <1>3, <1>4, WayIs
<1>6. Aligned(d) % BufSize = 0 /\ Aligned(d) \in Nat
  BY <1>3, <1>5
<1>7. Aligned(d) <= d /\ d - Aligned(d) = r /\ (r = 0 => Aligned(d) = d)
  BY <1>2, <1>6
<1> QED
  BY <1>1, <1>2, <1>6, <1>7

-----------------------------------------------------------------------------
\* What the places of a device hold, and the places that are not the buffer's.
ByteOf(s) == [p \in 0..Len(s)-1 |-> s[p+1]]
Device(s) == s \in Seq(Byte) /\ Len(s) <= DeviceEnd /\ Len(s) % BlockSize = 0
KeptAt(f, g, p) ==
  IF p \in DOMAIN f THEN p \in DOMAIN g /\ g[p] = f[p]
  ELSE p \in DOMAIN g => \E q \in DOMAIN f : p < q
Within(g) == DOMAIN g \subseteq 0..MaxPos
SettledAs(f, g) == Within(g) /\ \A p \in Nat : KeptAt(f, g, p)
SameElsewhere(f, g) ==
  Within(g) /\ \A p \in Nat : p \notin dstart..dstart+BufSize-1 => KeptAt(f, g, p)

\* The window, as the steps use it.
LEMMA WindowFacts ==
  ASSUME IInv
  PROVE  /\ Device(dev) /\ buf \in [Places -> Byte]
         /\ btop \in 0..BufSize /\ bend \in 0..BufSize /\ bcurrent \in 0..bend
         /\ bend \in {0, BufSize} /\ btop <= bend
         /\ Synced \in 0..BufSize /\ btop <= Synced /\ bcurrent <= Synced /\ Synced <= bend
         /\ Synced \in {btop, bcurrent}
         /\ ~dirty => Synced = btop
         /\ dstart \in Nat /\ dstart % BufSize = 0 /\ dstart + Synced <= MaxPos
         /\ shortfall \in BOOLEAN /\ rem \in 0..MaxLen
BY DEF IInv, TypeOK, InWindow, Device, DeviceEnd, Synced, Most

LEMMA StoredIs ==
  ASSUME IInv, NEW k \in Taken(Blocks), dirty, NEW s \in Stored(k)
  PROVE  LET n == k * BlockSize
             end == Most(Len(dev), IF k = 0 THEN 0 ELSE dstart + n)
         IN  /\ n \in 0..Synced /\ (k = 0 => n = 0) /\ (k # 0 => n > 0)
             /\ k \in 0..Blocks
             /\ Device(s) /\ Len(s) = end /\ end \in Nat
             /\ \A p \in 1..end :
                  /\ p \in dstart+1..dstart+n => s[p] = buf[p - 1 - dstart]
                  /\ p \in 1..Len(dev) \ (dstart+1..dstart+n) => s[p] = dev[p]
<1> DEFINE n == k * BlockSize
           end == Most(Len(dev), IF k = 0 THEN 0 ELSE dstart + n)
<1>0. /\ Device(dev) /\ Len(dev) \in Nat
      /\ Synced \in 0..BufSize /\ dstart \in Nat /\ dstart % BufSize = 0
  BY WindowFacts DEF Device
<1>1. /\ k \in 0..(Synced \div BlockSize) /\ k \in 0..Blocks
      /\ k = 0 \/ dstart + n <= DeviceEnd
  BY DEF Taken, Blocks, DeviceEnd
<1>2. n \in Nat /\ n <= Synced /\ k \in Nat
  BY <1>0, <1>1, DivBounds
<1>3. (k = 0 => n = 0) /\ (k # 0 => n > 0)
  BY <1>2
<1>4. n % BlockSize = 0
  BY <1>2, MultipleIs
<1>5. (dstart + n) % BlockSize = 0
  BY <1>0, <1>2, <1>4, MultipleOf, MultipleAdds
<1>6. end \in Nat /\ end <= DeviceEnd /\ end % BlockSize = 0
  <2>1. CASE k = 0
    <3>1. end = Len(dev)
      BY <2>1, <1>0 DEF Most
    <3> QED
      BY <3>1, <1>0 DEF Device
  <2>2. CASE k # 0
    <3>1. end = Len(dev) \/ end = dstart + n
      BY <2>2 DEF Most
    <3>2. dstart + n \in Nat /\ dstart + n <= DeviceEnd
      BY <2>2, <1>0, <1>1, <1>2
    <3> HIDE DEF n, end
    <3> QED
      BY <3>1, <3>2, <1>0, <1>5 DEF Device
  <2> QED
    BY <2>1, <2>2
<1>7. /\ s \in [1..end -> Byte]
      /\ \A p \in 1..end :
           /\ p \in dstart+1..dstart+n => s[p] = buf[p - 1 - dstart]
           /\ p \in 1..Len(dev) \ (dstart+1..dstart+n) => s[p] = dev[p]
  BY DEF Stored
<1> HIDE DEF n, end
<1>8. s \in Seq(Byte) /\ Len(s) = end
  BY <1>6, <1>7
<1>9. Device(s)
  BY <1>6, <1>8 DEF Device
<1> QED
  BY <1>1, <1>2, <1>3, <1>6, <1>7, <1>8, <1>9, <1>0 DEF n, end

LEMMA DataIs ==
  /\ DOMAIN Data = 0..Len(dev)-1 \union Window
  /\ \A p \in DOMAIN Data : Data[p] = IF p \in Window THEN buf[p - dstart] ELSE dev[p+1]
  /\ Data = [p \in DOMAIN Data |-> Data[p]]
BY DEF Data

LEMMA CleanData ==
  /\ ~dirty => Data = ByteOf(dev)
  /\ ~dirty' => Data' = ByteOf(dev')
<1>1. ASSUME ~dirty PROVE Data = ByteOf(dev)
  <2>1. Window = {}
    BY <1>1 DEF Window
  <2> QED
    BY <2>1 DEF Data, ByteOf
<1>2. ASSUME ~dirty' PROVE Data' = ByteOf(dev')
  <2>1. Window' = {}
    BY <1>2 DEF Window
  <2> QED
    BY <2>1 DEF Data, ByteOf
<1> QED
  BY <1>1, <1>2

\* The positions of the data; data that has not changed is settled.
LEMMA DataWithin ==
  ASSUME IInv
  PROVE  Within(Data)
<1>1. Len(dev) \in Nat /\ Len(dev) <= MaxPos /\ dstart \in Nat /\ Synced \in Nat
      /\ dstart + Synced <= MaxPos /\ MaxPos \in Nat
  BY WindowFacts, Bounds DEF Device
<1> QED
  BY <1>1, DataIs DEF Within, Window

LEMMA SameSettled ==
  ASSUME IInv, Data' = Data
  PROVE  SettledAs(Data, Data') /\ SameElsewhere(Data, Data')
<1>1. Within(Data')
  BY DataWithin DEF Within
<1>2. \A p : KeptAt(Data, Data', p)
  BY DEF KeptAt
<1> QED
  BY <1>1, <1>2 DEF SettledAs, SameElsewhere

\* What the device has after the buffer is written.
LEMMA FlushedFacts ==
  ASSUME IInv, NEW k \in Taken(Blocks), NEW s, IF dirty THEN s \in Stored(k) ELSE s = dev
  PROVE  /\ Device(s) /\ k \in 0..Blocks /\ Blocks \in Nat
         /\ AllTaken(k) => SettledAs(Data, ByteOf(s)) /\ (Synced = 0 \/ dstart + Synced <= Len(s))
         /\ SameElsewhere(Data, ByteOf(s))
<1> DEFINE n == k * BlockSize
           end == Most(Len(dev), IF k = 0 THEN 0 ELSE dstart + n)
<1>1. /\ Device(dev) /\ Len(dev) \in Nat
      /\ Synced \in 0..BufSize /\ dstart \in Nat
      /\ ~dirty => Synced = btop
  BY WindowFacts DEF Device
<1>2. CASE ~dirty
  <2>1. s = dev /\ ByteOf(s) = Data
    BY <1>2, CleanData
  <2>2. Synced = 0 \/ dstart + Synced <= Len(s)
    <3>1. CASE btop > 0
      <4>1. btop \in Nat /\ btop - 1 \in 0..btop-1
        BY <3>1, WindowFacts
      <4>2. dstart + (btop - 1) < Len(dev)
        BY <1>2, <4>1 DEF IInv, CleanIsDevice
      <4> QED
        BY <1>1, <1>2, <2>1, <4>1, <4>2
    <3> QED
      BY <1>1, <1>2, <3>1, WindowFacts
  <2>3. Blocks = 0 /\ k \in 0..Blocks
    BY <1>2 DEF Blocks, Taken
  <2>4. SettledAs(Data, ByteOf(s)) /\ SameElsewhere(Data, ByteOf(s))
    BY <2>1, DataWithin DEF SameElsewhere, SettledAs, KeptAt
  <2> QED
    BY <1>1, <2>1, <2>2, <2>3, <2>4
<1>3. CASE dirty
  <2>1. s \in Stored(k)
    BY <1>3
  <2>2. /\ n \in 0..Synced /\ (k = 0 => n = 0) /\ (k # 0 => n > 0)
        /\ k \in 0..Blocks
        /\ Device(s) /\ Len(s) = end /\ end \in Nat
        /\ \A p \in 1..end :
             /\ p \in dstart+1..dstart+n => s[p] = buf[p - 1 - dstart]
             /\ p \in 1..Len(dev) \ (dstart+1..dstart+n) => s[p] = dev[p]
    BY <1>3, <2>1, StoredIs
  <2>3. end = IF k # 0 /\ dstart + n > Len(dev) THEN dstart + n ELSE Len(dev)
    BY <1>1, <2>2 DEF Most
  <2>4. Blocks \in Nat
    BY <1>1, <1>3, DivBounds DEF Blocks
  <2>5. Window = dstart..dstart+Synced-1
    BY <1>3 DEF Window
  <2>6. DOMAIN ByteOf(s) = 0..end-1 /\ \A p \in 0..end-1 : ByteOf(s)[p] = s[p+1]
    BY <2>2 DEF ByteOf
  <2>7. end <= DeviceEnd
    BY <2>2 DEF Device
  <2> HIDE DEF n, end
  <2>8. Within(ByteOf(s))
    BY <2>2, <2>6, <2>7, Bounds DEF Within
  <2>9. ASSUME NEW p \in Nat, p \notin dstart+n..dstart+Synced-1
        PROVE  KeptAt(Data, ByteOf(s), p)
    <3>1. CASE p \in Window
      <4>1. p \in dstart..dstart+n-1 /\ n > 0
        BY <1>1, <2>2, <2>5, <2>9, <3>1
      <4>2. p \in 0..end-1 /\ p + 1 \in 1..end /\ p + 1 \in dstart+1..dstart+n
            /\ (p + 1) - 1 - dstart = p - dstart
        BY <1>1, <2>2, <2>3, <4>1
      <4>3. ByteOf(s)[p] = buf[p - dstart]
        BY <2>2, <2>6, <4>2
      <4> QED
        BY <2>6, <3>1, <4>2, <4>3, DataIs DEF KeptAt
    <3>2. CASE p \notin Window /\ p \in 0..Len(dev)-1
      <4>1. p \in 0..end-1 /\ p + 1 \in 1..end /\ p + 1 \in 1..Len(dev) \ (dstart+1..dstart+n)
        BY <1>1, <2>2, <2>3, <2>5, <3>2
      <4>2. ByteOf(s)[p] = dev[p+1]
        BY <2>2, <2>6, <4>1
      <4> QED
        BY <2>6, <3>2, <4>1, <4>2, DataIs DEF KeptAt
    <3>3. CASE p \notin Window /\ p \notin 0..Len(dev)-1
      <4>1. p \notin DOMAIN Data
        BY <3>3, DataIs
      <4>2. ASSUME p \in 0..end-1
            PROVE  dstart \in DOMAIN Data /\ p < dstart
        <5>1. k # 0 /\ end = dstart + n /\ n > 0 /\ p < dstart + n
          BY <1>1, <2>2, <2>3, <3>3, <4>2
        <5>2. dstart \in Window
          BY <1>1, <2>2, <2>5, <5>1
        <5>3. p < dstart
          BY <1>1, <2>2, <2>5, <3>3, <5>1
        <5> QED
          BY <5>2, <5>3, DataIs
      <4> QED
        BY <2>6, <4>1, <4>2 DEF KeptAt
    <3> QED
      BY <3>1, <3>2, <3>3
  <2>10. ASSUME AllTaken(k)
         PROVE  SettledAs(Data, ByteOf(s)) /\ (Synced = 0 \/ dstart + Synced <= Len(s))
    <3>1. n = Synced
      BY <1>3, <2>10 DEF AllTaken, n
    <3>2. \A p \in Nat : p \notin dstart+n..dstart+Synced-1
      BY <1>1, <3>1
    <3>3. Synced = 0 \/ dstart + Synced <= Len(s)
      BY <1>1, <2>2, <2>3, <3>1
    <3> QED
      BY <2>8, <2>9, <3>2, <3>3 DEF SettledAs
  <2>11. SameElsewhere(Data, ByteOf(s))
    <3>1. \A p \in Nat : p \notin dstart..dstart+BufSize-1 => p \notin dstart+n..dstart+Synced-1
      BY <1>1, <2>2, Bounds
    <3> QED
      BY <2>8, <2>9, <3>1 DEF SameElsewhere
  <2> QED
    BY <2>2, <2>4, <2>10, <2>11
<1> QED
  BY <1>2, <1>3

-----------------------------------------------------------------------------
\* How many bytes there are from a place where a buffer may begin.
LEMMA ThereFacts ==
  ASSUME NEW s, Device(s), NEW d \in Nat
  PROVE  LET a == Aligned(d)
             n == There(a, s)
         IN  /\ n \in 0..BufSize /\ (n = 0 \/ a + n <= Len(s))
             /\ d <= Len(s) \/ d % BufSize = 0 => d - a <= n
             /\ d - a >= n => Len(s) <= d
             /\ d - a > n => Len(s) <= a + n
<1>1. Len(s) \in Nat
  BY DEF Device
<1>2. PICK a \in Nat : a = Aligned(d) /\ a <= d /\ d - a \in 0..BufSize-1 /\ (d % BufSize = 0 => a = d)
  BY AlignedFacts
<1>3. PICK n : n = There(a, s) /\ n = IF Len(s) > a THEN Least(BufSize, Len(s) - a) ELSE 0
  BY DEF There
<1>4. n \in 0..BufSize /\ (n = 0 \/ a + n <= Len(s))
  BY <1>1, <1>2, <1>3, Bounds DEF Least
<1>5. d <= Len(s) \/ a = d => d - a <= n
  BY <1>1, <1>2, <1>3, Bounds DEF Least
<1>6. d - a >= n => Len(s) <= d
  BY <1>1, <1>2, <1>3, Bounds DEF Least
<1>7. d - a > n => Len(s) <= a + n
  BY <1>1, <1>2, <1>3, Bounds DEF Least
<1> QED
  BY <1>2, <1>3, <1>4, <1>5, <1>6, <1>7

\* The buffer is filled from a device: it has what the device has there.
LEMMA FilledFacts ==
  ASSUME NEW d \in 0..MaxPos, NEW n \in Gives(There(Aligned(d), dev')), Device(dev'),
         buf \in [Places -> Byte], Fill(d, n)
  PROVE  /\ buf' \in [Places -> Byte]
         /\ btop' = n /\ n \in 0..BufSize /\ bend' = BufSize
         /\ bcurrent' \in 0..n /\ bcurrent' = Least(d - Aligned(d), n)
         /\ dstart' = Aligned(d) /\ dstart' \in Nat /\ dstart' % BufSize = 0
         /\ dstart' + bcurrent' \in 0..d /\ Synced' = n /\ dstart' + n <= MaxPos
         /\ CleanIsDevice'
<1>1. d \in Nat /\ d <= MaxPos /\ Len(dev') \in Nat /\ Len(dev') <= DeviceEnd
  BY Bounds DEF Device
<1>2. PICK a \in Nat : a = Aligned(d) /\ a <= d /\ d - a \in 0..BufSize-1 /\ a % BufSize = 0
  BY <1>1, AlignedFacts
<1>3. n \in 0..BufSize /\ (n = 0 \/ a + n <= Len(dev'))
  <2>1. LET a0 == Aligned(d)
            n0 == There(a0, dev')
        IN  n0 \in 0..BufSize /\ (n0 = 0 \/ a0 + n0 <= Len(dev'))
    BY <1>1, ThereFacts
  <2>2. n \in 0..There(a, dev')
    BY <1>2 DEF Gives
  <2> QED
    BY <1>1, <1>2, <2>1, <2>2, Bounds
<1>4. /\ dstart' = a /\ btop' = n /\ bend' = BufSize /\ bcurrent' = Least(d - a, n)
      /\ buf' = [p \in Places |-> IF p < n THEN dev'[a + p + 1] ELSE buf[p]]
  BY <1>2 DEF Fill
<1>5. bcurrent' \in 0..n /\ a + bcurrent' \in 0..d
  BY <1>1, <1>2, <1>3, <1>4 DEF Least
<1>6. Synced' = n
  BY <1>3, <1>4, <1>5 DEF Synced, Most
<1>7. a + n <= MaxPos
  <2>1. n \in Nat /\ DeviceEnd \in Nat /\ MaxPos \in Nat /\ DeviceEnd <= MaxPos
    BY <1>3, Bounds
  <2> QED
    BY <1>1, <1>2, <1>3, <2>1
<1>8. ASSUME NEW p \in Places, p < n
      PROVE  a + p < Len(dev') /\ a + p + 1 \in 1..Len(dev') /\ buf'[p] = dev'[a + p + 1]
  <2>1. p \in Nat /\ n \in Nat /\ n # 0
    BY <1>3, <1>8, Bounds DEF Places
  <2>2. a + p < Len(dev') /\ a + p + 1 \in 1..Len(dev')
    BY <1>1, <1>3, <1>8, <2>1
  <2> QED
    BY <1>4, <1>8, <2>2
<1>9. buf' \in [Places -> Byte]
  <2>1. dev' \in [1..Len(dev') -> Byte]
    BY DEF Device
  <2>2. ASSUME NEW p \in Places
        PROVE  (IF p < n THEN dev'[a + p + 1] ELSE buf[p]) \in Byte
    <3>1. CASE p < n
      BY <1>8, <2>1, <3>1
    <3> QED
      BY <3>1
  <2> QED
    BY <1>4, <2>2
<1>10. ASSUME NEW p \in 0..btop'-1
       PROVE  dstart' + p < Len(dev') /\ buf'[p] = dev'[dstart' + p + 1]
  <2>1. p \in Places /\ p < n
    BY <1>3, <1>4, <1>10 DEF Places
  <2> QED
    BY <1>4, <1>8, <2>1
<1>11. CleanIsDevice'
  BY <1>10 DEF CleanIsDevice
<1> QED
  BY <1>2, <1>3, <1>4, <1>5, <1>6, <1>7, <1>9, <1>11

\* The buffer is written and has no changes any more.
LEMMA WrittenFacts ==
  ASSUME IInv, NEW k \in Taken(Blocks), Flush(k)
  PROVE  /\ Device(dev') /\ ~dirty' /\ dirty' \in BOOLEAN /\ shortfall' \in BOOLEAN
         /\ Data' = ByteOf(dev') /\ SameElsewhere(Data, Data')
         /\ AllTaken(k) => SettledAs(Data, Data') /\ (Synced = 0 \/ dstart + Synced <= Len(dev'))
<1>1. /\ IF dirty THEN dev' \in Stored(k) ELSE dev' = dev
      /\ dirty' = FALSE
      /\ IF dirty THEN shortfall' \in {said < Blocks : said \in 0..k} ELSE shortfall' = shortfall
  BY DEF Flush
<1>2. Data' = ByteOf(dev')
  BY <1>1, CleanData
<1>3. PICK s : s = dev' /\ IF dirty THEN s \in Stored(k) ELSE s = dev
  BY <1>1
<1>4. /\ Device(s) /\ k \in 0..Blocks /\ Blocks \in Nat
      /\ AllTaken(k) => SettledAs(Data, ByteOf(s)) /\ (Synced = 0 \/ dstart + Synced <= Len(s))
      /\ SameElsewhere(Data, ByteOf(s))
  BY <1>3, FlushedFacts
<1>5. shortfall' \in BOOLEAN
  <2>1. ASSUME NEW said \in 0..k PROVE (said < Blocks) \in BOOLEAN
    BY <1>4
  <2> QED
    BY <1>1, <2>1, WindowFacts
<1>6. dirty' \in BOOLEAN
  BY <1>1
<1> QED
  BY <1>1, <1>2, <1>3, <1>4, <1>5, <1>6

LEMMA NotedFacts ==
  ASSUME IInv, NEW well \in BOOLEAN, Noted(well)
  PROVE  lost' \in BOOLEAN /\ (well => lost' = lost) /\ (~well => lost' # lost)
BY DEF Noted, IInv, TypeOK

\* Where a program finds itself once the part of the device with d is in the buffer.
Arrived(d) ==
  LET here == dstart' + bcurrent'
  IN  /\ here \in Aligned(d)..d /\ (here = Aligned(d) \/ here - 1 \in DOMAIN Data')
      /\ \A p \in here..d-1 : p \notin DOMAIN Data'
      /\ d = dstart + Synced \/ d % BufSize = 0 => here = d
      /\ bcurrent' >= btop' => d \notin DOMAIN Data

LEMMA GotFacts ==
  ASSUME IInv, NEW d \in 0..MaxPos, Get(d)
  PROVE  /\ Device(dev') /\ buf' \in [Places -> Byte]
         /\ btop' \in 0..BufSize /\ bend' = BufSize /\ bcurrent' \in 0..btop'
         /\ dstart' \in Nat /\ dstart' % BufSize = 0 /\ dstart' + bcurrent' \in 0..d
         /\ Synced' = btop' /\ dstart' + Synced' <= MaxPos
         /\ ~dirty' /\ dirty' \in BOOLEAN /\ shortfall' \in BOOLEAN /\ lost' \in BOOLEAN
         /\ CleanIsDevice' /\ SameElsewhere(Data, Data')
         /\ lost' # lost \/ (lost' = lost /\ SettledAs(Data, Data') /\ Arrived(d))
<1>1. PICK k \in Taken(Blocks) :
        /\ Flush(k)
        /\ \E n \in Gives(There(Aligned(d), dev')) :
             Fill(d, n) /\ Noted(AllTaken(k) /\ n = There(Aligned(d), dev'))
  BY DEF Get
<1>2. PICK n \in Gives(There(Aligned(d), dev')) :
        Fill(d, n) /\ Noted(AllTaken(k) /\ n = There(Aligned(d), dev'))
  BY <1>1
<1>3. /\ Device(dev') /\ ~dirty' /\ dirty' \in BOOLEAN /\ shortfall' \in BOOLEAN
      /\ Data' = ByteOf(dev') /\ SameElsewhere(Data, Data')
      /\ AllTaken(k) => SettledAs(Data, Data') /\ (Synced = 0 \/ dstart + Synced <= Len(dev'))
  BY <1>1, WrittenFacts
<1>4. buf \in [Places -> Byte] /\ dstart \in Nat /\ Synced \in Nat /\ dstart % BufSize = 0
  BY WindowFacts
<1>5. /\ buf' \in [Places -> Byte]
      /\ btop' = n /\ n \in 0..BufSize /\ bend' = BufSize
      /\ bcurrent' \in 0..n /\ bcurrent' = Least(d - Aligned(d), n)
      /\ dstart' = Aligned(d) /\ dstart' \in Nat /\ dstart' % BufSize = 0
      /\ dstart' + bcurrent' \in 0..d /\ Synced' = n /\ dstart' + n <= MaxPos
      /\ CleanIsDevice'
  BY <1>2, <1>3, <1>4, FilledFacts
<1> DEFINE well == AllTaken(k) /\ n = There(Aligned(d), dev')
<1>6. lost' \in BOOLEAN /\ (well => lost' = lost) /\ (~well => lost' # lost)
  <2>1. well \in BOOLEAN /\ Noted(well)
    BY <1>2 DEF AllTaken
  <2> HIDE DEF well
  <2> QED
    BY <2>1, NotedFacts
<1>7. ASSUME well
      PROVE  SettledAs(Data, Data') /\ Arrived(d)
  <2>1. SettledAs(Data, Data') /\ (Synced = 0 \/ dstart + Synced <= Len(dev'))
        /\ DOMAIN Data' = 0..Len(dev')-1
    BY <1>3, <1>7 DEF ByteOf
  <2>2. PICK a \in Nat : a = Aligned(d) /\ a <= d
    BY AlignedFacts
  <2>3. /\ n = There(a, dev') /\ (n = 0 \/ a + n <= Len(dev'))
        /\ d <= Len(dev') \/ d % BufSize = 0 => d - a <= n
        /\ d - a >= n => Len(dev') <= d
        /\ d - a > n => Len(dev') <= a + n
    <3>1. LET a0 == Aligned(d)
              n0 == There(a0, dev')
          IN  /\ n0 = 0 \/ a0 + n0 <= Len(dev')
              /\ d <= Len(dev') \/ d % BufSize = 0 => d - a0 <= n0
              /\ d - a0 >= n0 => Len(dev') <= d
              /\ d - a0 > n0 => Len(dev') <= a0 + n0
      BY <1>3, ThereFacts
    <3> QED
      BY <1>7, <2>2, <3>1
  <2>4. dstart' + bcurrent' = IF d - a < n THEN d ELSE a + n
    BY <1>5, <2>2 DEF Least
  <2>5. d \in Nat /\ Len(dev') \in Nat /\ n \in Nat
    BY <1>3, <1>5, Bounds DEF Device
  <2> DEFINE here == dstart' + bcurrent'
  <2>6. /\ here \in a..d /\ (here < d => Len(dev') <= here)
        /\ here = a \/ here - 1 \in 0..Len(dev')-1
    <3>1. here = IF d - a < n THEN d ELSE a + n
      BY <2>4
    <3> HIDE DEF here
    <3>2. here \in a..d /\ (here < d => Len(dev') <= here)
      BY <2>2, <2>3, <2>5, <3>1
    <3>3. ASSUME here # a PROVE here - 1 \in 0..Len(dev')-1
      <4>1. here \in Nat /\ here >= 1 /\ here <= a + n /\ n # 0
        BY <2>2, <2>5, <3>1, <3>3
      <4> QED
        BY <2>2, <2>3, <2>5, <4>1
    <3> QED
      BY <3>2, <3>3
  <2>7. \A p \in here..d-1 : p \notin DOMAIN Data'
    BY <2>1, <2>2, <2>5, <2>6
  <2>8. here = Aligned(d) \/ here - 1 \in DOMAIN Data'
    BY <2>1, <2>2, <2>6
  <2>9. d = dstart + Synced \/ d % BufSize = 0 => here = d
    <3>1. ASSUME d = dstart + Synced, d % BufSize # 0
          PROVE  d <= Len(dev')
      <4>1. Synced # 0
        BY <1>4, <3>1
      <4> QED
        BY <2>1, <3>1, <4>1
    <3>2. d <= Len(dev') \/ d % BufSize = 0 => here = d
      BY <2>2, <2>3, <2>4, <2>5
    <3> QED
      BY <3>1, <3>2
  <2>10. bcurrent' >= btop' => d \notin DOMAIN Data
    <3>1. bcurrent' >= btop' => d \notin DOMAIN Data'
      BY <1>5, <2>1, <2>2, <2>3, <2>5 DEF Least
    <3>2. d \in DOMAIN Data => d \in DOMAIN Data'
      BY <2>1, <2>5 DEF SettledAs, KeptAt
    <3> QED
      BY <3>1, <3>2
  <2> HIDE DEF here
  <2>11. here \in Aligned(d)..d
    BY <2>2, <2>6
  <2> QED
    BY <2>1, <2>7, <2>8, <2>9, <2>10, <2>11 DEF Arrived, here
<1> HIDE DEF well
<1> QED
  BY <1>3, <1>5, <1>6, <1>7
-----------------------------------------------------------------------------
\* What goes on, as ByteDevice has it, and the steps of ByteDevice.
Mode == CASE run \in {"copyout", "more"} -> "read"
          [] run \in {"copyin", "room"} -> "write"
          [] OTHER -> run

LEMMA ModeIs ==
  /\ run \in {"copyout", "more"} => Mode = "read"
  /\ run \in {"copyin", "room"} => Mode = "write"
  /\ run \in {"closed", "idle"} => Mode = run
BY DEF Mode

LEMMA ModeIsNext ==
  /\ run' \in {"copyout", "more"} => Mode' = "read"
  /\ run' \in {"copyin", "room"} => Mode' = "write"
  /\ run' \in {"closed", "idle"} => Mode' = run'
  /\ run' = run => Mode' = Mode
BY DEF Mode

Place == dstart + bcurrent

LEMMA AsOpen ==
  ASSUME Mode = "closed", Mode' = "idle", Place' = 0, ~shortfall', shortfall' \in BOOLEAN,
         Data' = Data, rem' = rem, lost' = lost
  PROVE  Bytes!Open
BY DEF Mode, Place, Bytes!Open

LEMMA AsSettled ==
  ASSUME SettledAs(Data, Data')
  PROVE  Bytes!Settled
<1>1. Bytes!Positions \subseteq Nat /\ Bytes!Positions = 0..MaxPos
  BY Bounds DEF Bytes!Positions
<1> QED
  BY <1>1 DEF SettledAs, Within, KeptAt, Bytes!Settled, Bytes!Kept

LEMMA AsClose ==
  ASSUME Mode = "idle", Mode' = "closed", SettledAs(Data, Data'), rem' = rem, lost' = lost
  PROVE  Bytes!Close
BY AsSettled DEF Mode, Bytes!Close

LEMMA AsSeek ==
  ASSUME Mode = "idle", Mode' = Mode, SettledAs(Data, Data'), rem' = rem, lost' = lost,
         NEW d \in 0..MaxPos, Place' \in Aligned(d)..d,
         Place' = Aligned(d) \/ Place' - 1 \in DOMAIN Data',
         \A p \in Place'..d-1 : p \notin DOMAIN Data'
  PROVE  Bytes!Seek
<1>1. Bytes!Start(d) = Aligned(d) /\ d \in Bytes!Positions
  BY DEF Bytes!Start, Aligned, Bytes!Positions
<1> QED
  BY <1>1, AsSettled DEF Mode, Place, Bytes!Seek

LEMMA AsBegin ==
  ASSUME Mode = "idle", Mode' \in {"read", "write"}, rem' > 0,
         Data' = Data, Place' = Place, lost' = lost, shortfall' = shortfall
  PROVE  Bytes!Begin
BY DEF Mode, Place, Bytes!Begin

LEMMA AsRead ==
  ASSUME Mode = "read", Place' > Place, rem' = rem - (Place' - Place),
         Place..Place'-1 \subseteq DOMAIN Data, Data' = Data,
         Mode' = IF rem' = 0 THEN "idle" ELSE "read",
         lost' = lost, shortfall' = shortfall
  PROVE  Bytes!Move
BY DEF Mode, Place, Bytes!Move, Bytes!Moved

LEMMA AsWrite ==
  ASSUME Mode = "write", Place' > Place, rem' = rem - (Place' - Place),
         DOMAIN Data' = DOMAIN Data \union (Place..Place'-1),
         \A p \in DOMAIN Data \ (Place..Place'-1) : Data'[p] = Data[p],
         Mode' = IF rem' = 0 THEN "idle" ELSE "write",
         lost' = lost, shortfall' = shortfall
  PROVE  Bytes!Move
BY DEF Mode, Place, Bytes!Move, Bytes!Moved

LEMMA AsEnd ==
  ASSUME (Mode = "read" /\ Place \notin DOMAIN Data) \/ (Mode = "write" /\ shortfall'),
         rem' = 0, Mode' = "idle", SettledAs(Data, Data'), Place' = Place, lost' = lost
  PROVE  Bytes!End
BY AsSettled DEF Mode, Place, Bytes!End

LEMMA AsFlush ==
  ASSUME Mode' = Mode, SettledAs(Data, Data'), Place' = Place, rem' = rem, lost' = lost
  PROVE  Bytes!Flush
BY AsSettled DEF Mode, Place, Bytes!Flush

LEMMA AsFail ==
  ASSUME lost' # lost, dstart \in 0..MaxPos, SameElsewhere(Data, Data'),
         (rem' = rem /\ Mode' \in {Mode, "closed"}) \/ (rem' = 0 /\ Mode' = "idle")
  PROVE  Bytes!Fail
<1>1. Bytes!Positions \subseteq Nat /\ dstart \in Bytes!Positions
  BY Bounds DEF Bytes!Positions
<1>2. Bytes!Kept(Bytes!Positions \ (dstart..dstart+BufSize-1))
  BY <1>1 DEF SameElsewhere, KeptAt, Bytes!Kept
<1>3. DOMAIN Data' \subseteq Bytes!Positions
  BY DEF SameElsewhere, Within, Bytes!Positions
<1> QED
  BY <1>1, <1>2, <1>3 DEF Mode, Bytes!Fail

\* A program sees the same.
LEMMA AsNothing ==
  ASSUME Mode' = Mode, Data' = Data, Place' = Place, rem' = rem, lost' = lost,
         shortfall' = shortfall
  PROVE  UNCHANGED Bytes!vars
BY DEF Mode, Place, Bytes!vars

StepOk == IInv' /\ [Bytes!Next]_(Bytes!vars)

\* The window and the device stay as they are, but for the places that count as valid.
LEMMA SameData ==
  ASSUME dev' = dev, buf' = buf, dstart' = dstart, dirty' = dirty, Synced' = Synced
  PROVE  Data' = Data
BY DEF Data, Window

\* When what is valid is counted anew, it is the same.
LEMMA SyncFacts ==
  ASSUME IInv, dev' = dev, buf' = buf, dstart' = dstart, dirty' = dirty,
         btop' = Synced, bcurrent' \in 0..Synced
  PROVE  Synced' = Synced /\ Data' = Data /\ CleanIsDevice'
<1>1. Synced \in Nat /\ (~dirty => Synced = btop)
  BY WindowFacts
<1>2. Synced' = Synced
  BY <1>1 DEF Synced, Most
<1>3. CleanIsDevice'
  BY <1>1 DEF IInv, CleanIsDevice
<1> QED
  BY <1>2, <1>3, SameData
-----------------------------------------------------------------------------
\* The types, one by one.
LEMMA TypeAgain ==
  ASSUME Device(dev'), buf' \in [Places -> Byte], btop' \in 0..BufSize, bend' \in {0, BufSize},
         bcurrent' \in 0..bend', dstart' \in Nat, dstart' % BufSize = 0,
         dirty' \in BOOLEAN, bcurrent' > btop' => dirty', shortfall' \in BOOLEAN,
         run' \in {"closed", "idle", "copyout", "more", "copyin", "room"},
         rem' \in 0..MaxLen, rem' > 0 <=> run' \notin {"closed", "idle"}, lost' \in BOOLEAN
  PROVE  TypeOK'
BY DEF TypeOK, Device, DeviceEnd

LEMMA RunFacts ==
  ASSUME IInv
  PROVE  /\ run \in {"closed", "idle", "copyout", "more", "copyin", "room"}
         /\ rem > 0 <=> run \notin {"closed", "idle"}
         /\ rem \in 0..MaxLen /\ dirty \in BOOLEAN /\ lost \in BOOLEAN
         /\ bcurrent > btop => dirty
BY DEF IInv, TypeOK

LEMMA OpenStep == ASSUME IInv, Open PROVE StepOk
<1>1. /\ run = "closed" /\ run' = "idle"
      /\ btop' = 0 /\ bend' = 0 /\ bcurrent' = 0 /\ dstart' = 0
      /\ dirty' = FALSE /\ shortfall' = FALSE
      /\ dev' = dev /\ buf' = buf /\ rem' = rem /\ lost' = lost
  BY DEF Open
<1>2. ~dirty
  BY <1>1 DEF IInv, InWindow
<1>3. Data' = Data
  BY <1>1, <1>2, CleanData DEF ByteOf
<1>4. TypeOK'
  <2>1. 0 % BufSize = 0
    BY Bounds
  <2>2. dirty' \in BOOLEAN /\ shortfall' \in BOOLEAN
    BY <1>1
  <2> QED
    BY <1>1, <2>1, <2>2, WindowFacts, RunFacts, TypeAgain
<1>5. Synced' = 0
  BY <1>1 DEF Synced, Most
<1>6. InWindow' /\ CleanIsDevice'
  <2>1. run' = "idle" /\ btop' = 0 /\ bend' = 0 /\ bcurrent' = 0 /\ dstart' = 0
    BY <1>1
  <2> QED
    BY <1>5, <2>1, Bounds DEF InWindow, CleanIsDevice
<1>7. Bytes!Open
  <2>1. ~shortfall' /\ shortfall' \in BOOLEAN
    BY <1>1
  <2>2. Mode = "closed" /\ Mode' = "idle" /\ Place' = 0
    BY <1>1, ModeIs, ModeIsNext DEF Place
  <2>3. rem' = rem /\ lost' = lost
    BY <1>1
  <2> QED
    BY <1>3, <2>1, <2>2, <2>3, AsOpen
<1> QED
  BY <1>4, <1>6, <1>7 DEF IInv, StepOk, Bytes!Next

LEMMA CloseStep == ASSUME IInv, Close PROVE StepOk
<1>1. PICK k \in Taken(Blocks) : Flush(k) /\ Noted(AllTaken(k))
  BY DEF Close
<1>2. /\ run = "idle" /\ run' = "closed" /\ btop' = 0 /\ bcurrent' = 0
      /\ buf' = buf /\ bend' = bend /\ dstart' = dstart /\ rem' = rem
  BY DEF Close
<1>3. /\ Device(dev') /\ ~dirty' /\ dirty' \in BOOLEAN /\ shortfall' \in BOOLEAN
      /\ SameElsewhere(Data, Data') /\ (AllTaken(k) => SettledAs(Data, Data'))
  BY <1>1, WrittenFacts
<1>4. lost' \in BOOLEAN /\ (AllTaken(k) => lost' = lost) /\ (~AllTaken(k) => lost' # lost)
  BY <1>1, NotedFacts DEF AllTaken
<1>5. dstart \in 0..MaxPos
  BY WindowFacts, Bounds
<1>6. TypeOK'
  BY <1>2, <1>3, <1>4, WindowFacts, RunFacts, TypeAgain
<1>7. Synced' = 0
  BY <1>2 DEF Synced, Most
<1>8. InWindow' /\ CleanIsDevice'
  BY <1>2, <1>3, <1>5, <1>7, WindowFacts, Bounds DEF InWindow, CleanIsDevice
<1>9. CASE AllTaken(k)
  BY <1>2, <1>3, <1>4, <1>6, <1>8, <1>9, ModeIs, ModeIsNext, AsClose DEF IInv, StepOk, Bytes!Next
<1>10. CASE ~AllTaken(k)
  BY <1>2, <1>3, <1>4, <1>5, <1>6, <1>8, <1>10, ModeIsNext, AsFail DEF IInv, StepOk, Bytes!Next
<1> QED
  BY <1>9, <1>10

LEMMA SizeStep == ASSUME IInv, Size PROVE StepOk
<1>1. /\ run = "idle" /\ btop' = Synced
      /\ dev' = dev /\ buf' = buf /\ bend' = bend /\ bcurrent' = bcurrent /\ dstart' = dstart
      /\ dirty' = dirty /\ shortfall' = shortfall /\ run' = run /\ rem' = rem /\ lost' = lost
  BY DEF Size
<1>2. Synced \in 0..BufSize /\ bcurrent \in 0..Synced /\ Synced <= bend /\ dstart + Synced <= MaxPos
  BY WindowFacts
<1>3. Synced' = Synced /\ Data' = Data /\ CleanIsDevice'
  BY <1>1, <1>2, SyncFacts
<1>4. TypeOK' /\ InWindow'
  BY <1>1, <1>2, <1>3 DEF IInv, TypeOK, InWindow
<1>5. UNCHANGED Bytes!vars
  BY <1>1, <1>3, ModeIsNext, AsNothing DEF Place
<1> QED
  BY <1>3, <1>4, <1>5 DEF IInv, StepOk

LEMMA ReadStep == ASSUME IInv, NEW len \in 1..MaxLen, Read(len) PROVE StepOk
<1>1. /\ run = "idle" /\ run' = "copyout" /\ rem' = len /\ btop' = Synced
      /\ dev' = dev /\ buf' = buf /\ bend' = bend /\ bcurrent' = bcurrent /\ dstart' = dstart
      /\ dirty' = dirty /\ shortfall' = shortfall /\ lost' = lost
  BY DEF Read
<1>2. Synced \in 0..BufSize /\ bcurrent \in 0..Synced /\ Synced <= bend /\ dstart + Synced <= MaxPos
  BY WindowFacts
<1>3. Synced' = Synced /\ Data' = Data /\ CleanIsDevice'
  BY <1>1, <1>2, SyncFacts
<1>4. TypeOK' /\ InWindow'
  BY <1>1, <1>2, <1>3 DEF IInv, TypeOK, InWindow
<1>5. Bytes!Begin
  BY <1>1, <1>3, ModeIs, ModeIsNext, AsBegin DEF Place
<1> QED
  BY <1>3, <1>4, <1>5 DEF IInv, StepOk, Bytes!Next

LEMMA WriteStep == ASSUME IInv, NEW len \in 1..MaxLen, Write(len) PROVE StepOk
<1>1. /\ run = "idle" /\ run' = "copyin" /\ rem' = len /\ dstart + bcurrent + len <= MaxPos
      /\ dev' = dev /\ buf' = buf /\ btop' = btop /\ bend' = bend /\ bcurrent' = bcurrent
      /\ dstart' = dstart /\ dirty' = dirty /\ shortfall' = shortfall /\ lost' = lost
  BY DEF Write, window
<1>2. Synced' = Synced /\ CleanIsDevice'
  BY <1>1 DEF Synced, IInv, CleanIsDevice
<1>3. TypeOK' /\ InWindow'
  BY <1>1, <1>2 DEF IInv, TypeOK, InWindow
<1>4. Bytes!Begin
  BY <1>1, <1>2, SameData, ModeIs, ModeIsNext, AsBegin DEF Place
<1> QED
  BY <1>2, <1>3, <1>4 DEF IInv, StepOk, Bytes!Next
-----------------------------------------------------------------------------
\* The valid bytes of the buffer are bytes of the data.
LEMMA ValidData ==
  ASSUME IInv
  PROVE  dstart..dstart+Synced-1 \subseteq DOMAIN Data
<1>1. CASE dirty
  BY <1>1, DataIs DEF Window
<1>2. CASE ~dirty
  <2> SUFFICES ASSUME NEW p \in dstart..dstart+Synced-1
               PROVE  p \in 0..Len(dev)-1
    BY DataIs
  <2>1. dstart \in Nat /\ btop \in Nat /\ Synced = btop
    BY <1>2, WindowFacts
  <2>2. p - dstart \in 0..btop-1
    BY <2>1
  <2>3. dstart + (p - dstart) < Len(dev)
    BY <1>2, <2>2 DEF IInv, CleanIsDevice
  <2>4. Len(dev) \in Nat
    BY WindowFacts DEF Device
  <2> QED
    BY <2>1, <2>3, <2>4
<1> QED
  BY <1>1, <1>2

LEMMA AlignedIs ==
  ASSUME NEW d \in Nat, NEW a \in Nat, a % BufSize = 0, a <= d, d - a \in 0..BufSize-1
  PROVE  Aligned(d) = a
<1>1. PICK q, z : Way(a, BufSize, q, z) /\ z = 0
  BY WayThere, Bounds
<1>2. q \in Nat /\ a = BufSize * q
  BY <1>1, Bounds DEF Way
<1>3. Way(d, BufSize, q, d - a)
  BY <1>2, Bounds DEF Way
<1>4. d % BufSize = d - a
  BY <1>3, WayIs, Bounds
<1> QED
  BY <1>4 DEF Aligned

\* A seek within the buffer.
LEMMA SeekInBufferStep ==
  ASSUME IInv, NEW d \in 0..MaxPos, run = "idle", SeekInBuffer(d), run' = run, rem' = rem
  PROVE  StepOk
<1>1. /\ d \in dstart..dstart+bend-1
      /\ btop' = Synced /\ bcurrent' = Least(d - dstart, Synced)
      /\ dev' = dev /\ buf' = buf /\ bend' = bend /\ dstart' = dstart
      /\ dirty' = dirty /\ shortfall' = shortfall
      /\ Noted(Poor => d - dstart <= Synced)
  BY DEF SeekInBuffer, InBuffer
<1>2. /\ Synced \in 0..BufSize /\ Synced <= bend /\ dstart + Synced <= MaxPos
      /\ dstart \in Nat /\ bend \in 0..BufSize /\ Len(dev) \in Nat
  BY WindowFacts DEF Device
<1>3. bcurrent' \in 0..Synced /\ bcurrent' <= d - dstart
      /\ bcurrent' = IF d - dstart < Synced THEN d - dstart ELSE Synced
  BY <1>1, <1>2 DEF Least
<1>4. Synced' = Synced /\ Data' = Data /\ CleanIsDevice'
  BY <1>1, <1>2, <1>3, SyncFacts
<1>5. lost' \in BOOLEAN /\ (lost' = lost => (Poor => d - dstart <= Synced))
  <2>1. (Poor => d - dstart <= Synced) \in BOOLEAN
    OBVIOUS
  <2> QED
    BY <1>1, <2>1, NotedFacts
<1>6. TypeOK'
  BY <1>1, <1>2, <1>3, <1>5, WindowFacts, RunFacts, TypeAgain
<1>7. InWindow'
  BY <1>1, <1>2, <1>4 DEF InWindow
<1>8. CASE lost' = lost
  <2> DEFINE here == dstart + bcurrent'
  <2>1. d \in Nat /\ here \in dstart..d /\ dstart \in Nat
    BY <1>1, <1>2, <1>3
  <2>2. ASSUME here # d
        PROVE  \A p \in here..d-1 : p \notin DOMAIN Data
    <3>1. here = dstart + Synced /\ d - dstart > Synced
      BY <1>1, <1>2, <1>3, <2>2
    <3>2. ~(Synced < There(dstart, dev))
      BY <1>2, <1>5, <1>8, <3>1 DEF Poor
    <3>3. d - dstart < BufSize
      BY <1>1, <1>2
    <3>4. Len(dev) <= dstart + Synced
      BY <1>1, <1>2, <3>1, <3>2, <3>3 DEF There, Least
    <3>5. \A p \in here..d-1 : p \notin 0..Len(dev)-1
      BY <1>2, <3>1, <3>4
    <3>6. \A p \in here..d-1 : p \notin Window
      BY <1>2, <3>1 DEF Window
    <3> QED
      BY <3>5, <3>6, DataIs
  <2>3. here = dstart \/ here - 1 \in DOMAIN Data
    <3> SUFFICES ASSUME here # dstart PROVE here - 1 \in DOMAIN Data
      OBVIOUS
    <3>1. bcurrent' - 1 \in 0..Synced-1 /\ here - 1 = dstart + (bcurrent' - 1)
      BY <1>2, <1>3
    <3>2. dstart..dstart+Synced-1 \subseteq DOMAIN Data
      BY ValidData
    <3> QED
      BY <1>2, <3>1, <3>2
  <2>4. Place' = here /\ Aligned(d) = dstart
    <3>1. d - dstart \in 0..BufSize-1 /\ dstart % BufSize = 0
      BY <1>1, <1>2, WindowFacts
    <3>2. Aligned(d) = dstart
      BY <2>1, <3>1, AlignedIs
    <3> QED
      BY <1>1, <3>2 DEF Place
  <2>5. \A p \in here..d-1 : p \notin DOMAIN Data
    <3>1. CASE here = d
      BY <2>1, <3>1
    <3> QED
      BY <2>2, <3>1
  <2> HIDE DEF here
  <2>6. Bytes!Seek
    BY <1>4, <1>8, <2>1, <2>3, <2>4, <2>5, SameSettled, ModeIs, ModeIsNext, AsSeek
  <2> QED
    BY <1>4, <1>6, <1>7, <2>6 DEF IInv, StepOk, Bytes!Next
<1>9. CASE lost' # lost
  <2>1. SameElsewhere(Data, Data') /\ dstart \in 0..MaxPos
    BY <1>2, <1>4, SameSettled, Bounds
  <2>2. Bytes!Fail
    BY <1>9, <2>1, ModeIsNext, AsFail
  <2> QED
    BY <1>4, <1>6, <1>7, <2>2 DEF IInv, StepOk, Bytes!Next
<1> QED
  BY <1>8, <1>9

\* A seek to where a buffer may begin.
LEMMA SeekToWindowStep ==
  ASSUME IInv, NEW d \in 0..MaxPos, run = "idle", SeekToWindow(d), run' = run, rem' = rem
  PROVE  StepOk
<1>1. PICK k \in Taken(Blocks) : Flush(k) /\ Noted(AllTaken(k))
  BY DEF SeekToWindow
<1>2. /\ d % BufSize = 0 /\ d \in Nat
      /\ dstart' = d /\ btop' = 0 /\ bend' = 0 /\ bcurrent' = 0 /\ buf' = buf
  BY Bounds DEF SeekToWindow
<1>3. /\ Device(dev') /\ ~dirty' /\ dirty' \in BOOLEAN /\ shortfall' \in BOOLEAN
      /\ SameElsewhere(Data, Data') /\ (AllTaken(k) => SettledAs(Data, Data'))
  BY <1>1, WrittenFacts
<1>4. lost' \in BOOLEAN /\ (AllTaken(k) => lost' = lost) /\ (~AllTaken(k) => lost' # lost)
  BY <1>1, NotedFacts DEF AllTaken
<1>5. TypeOK'
  BY <1>2, <1>3, <1>4, WindowFacts, RunFacts, TypeAgain, Bounds
<1>6. Synced' = 0
  BY <1>2 DEF Synced, Most
<1>7. InWindow' /\ CleanIsDevice'
  BY <1>2, <1>3, <1>6, Bounds DEF InWindow, CleanIsDevice
<1>8. CASE AllTaken(k)
  <2>1. Place' = d /\ Aligned(d) = d /\ d..d-1 = {}
    BY <1>2, AlignedFacts DEF Place
  <2>2. Bytes!Seek
    BY <1>2, <1>3, <1>4, <1>8, <2>1, ModeIs, ModeIsNext, AsSeek
  <2> QED
    BY <1>5, <1>7, <2>2 DEF IInv, StepOk, Bytes!Next
<1>9. CASE ~AllTaken(k)
  <2>1. dstart \in 0..MaxPos
    BY WindowFacts, Bounds
  <2>2. Bytes!Fail
    BY <1>3, <1>4, <1>9, <2>1, ModeIsNext, AsFail
  <2> QED
    BY <1>5, <1>7, <2>2 DEF IInv, StepOk, Bytes!Next
<1> QED
  BY <1>8, <1>9

LEMMA GotTyped ==
  ASSUME IInv, NEW d \in 0..MaxPos, Get(d),
         run' \in {"closed", "idle", "copyout", "more", "copyin", "room"},
         rem' \in 0..MaxLen, rem' > 0 <=> run' \notin {"closed", "idle"}
  PROVE  TypeOK'
<1>1. /\ Device(dev') /\ buf' \in [Places -> Byte]
      /\ btop' \in 0..BufSize /\ bend' = BufSize /\ bcurrent' \in 0..btop'
      /\ dstart' \in Nat /\ dstart' % BufSize = 0
      /\ dirty' \in BOOLEAN /\ shortfall' \in BOOLEAN /\ lost' \in BOOLEAN
  BY GotFacts
<1>2. bend' \in {0, BufSize} /\ bcurrent' \in 0..bend' /\ ~(bcurrent' > btop')
  BY <1>1, Bounds
<1> QED
  BY <1>1, <1>2, TypeAgain

\* A seek into another part of the device.
LEMMA SeekElsewhereStep ==
  ASSUME IInv, NEW d \in 0..MaxPos, run = "idle", SeekElsewhere(d), run' = run, rem' = rem
  PROVE  StepOk
<1>1. /\ Device(dev') /\ buf' \in [Places -> Byte]
      /\ btop' \in 0..BufSize /\ bend' = BufSize /\ bcurrent' \in 0..btop'
      /\ dstart' \in Nat /\ dstart' % BufSize = 0 /\ dstart' + bcurrent' \in 0..d
      /\ Synced' = btop' /\ dstart' + Synced' <= MaxPos
      /\ ~dirty' /\ dirty' \in BOOLEAN /\ shortfall' \in BOOLEAN /\ lost' \in BOOLEAN
      /\ CleanIsDevice' /\ SameElsewhere(Data, Data')
      /\ lost' # lost \/ (lost' = lost /\ SettledAs(Data, Data') /\ Arrived(d))
  BY GotFacts DEF SeekElsewhere
<1>2. TypeOK'
  BY GotTyped, RunFacts DEF SeekElsewhere
<1>3. InWindow'
  BY <1>1 DEF InWindow
<1>4. CASE lost' # lost
  <2>1. dstart \in 0..MaxPos
    BY WindowFacts, Bounds
  <2>2. Bytes!Fail
    BY <1>1, <1>4, <2>1, ModeIsNext, AsFail
  <2> QED
    BY <1>1, <1>2, <1>3, <2>2 DEF IInv, StepOk, Bytes!Next
<1>5. CASE lost' = lost /\ SettledAs(Data, Data') /\ Arrived(d)
  <2>1. /\ Place' \in Aligned(d)..d /\ (Place' = Aligned(d) \/ Place' - 1 \in DOMAIN Data')
        /\ \A p \in Place'..d-1 : p \notin DOMAIN Data'
    BY <1>5 DEF Arrived, Place
  <2>2. Bytes!Seek
    BY <1>5, <2>1, ModeIs, ModeIsNext, AsSeek
  <2> QED
    BY <1>1, <1>2, <1>3, <2>2 DEF IInv, StepOk, Bytes!Next
<1> QED
  BY <1>1, <1>4, <1>5

LEMMA SeekStep == ASSUME IInv, NEW d \in 0..MaxPos, Seek(d) PROVE StepOk
BY SeekInBufferStep, SeekToWindowStep, SeekElsewhereStep DEF Seek

-----------------------------------------------------------------------------
LEMMA CopyOutStep == ASSUME IInv, CopyOut PROVE StepOk
<1> DEFINE n == Least(rem, btop - bcurrent)
<1>1. /\ run = "copyout" /\ rem' = rem - n /\ bcurrent' = bcurrent + n
      /\ run' = (IF rem = n THEN "idle" ELSE "more")
      /\ dev' = dev /\ buf' = buf /\ btop' = btop /\ bend' = bend /\ dstart' = dstart
      /\ dirty' = dirty /\ shortfall' = shortfall /\ lost' = lost
  BY DEF CopyOut
<1>2. /\ btop \in 0..BufSize /\ bcurrent \in Nat /\ bcurrent <= btop /\ btop <= bend
      /\ bend \in Nat /\ dstart \in Nat /\ dstart + btop <= MaxPos
      /\ rem \in Nat \ {0} /\ rem <= MaxLen
  BY <1>1, WindowFacts, RunFacts DEF IInv, InWindow
<1>3. n \in Nat /\ n <= rem /\ bcurrent + n <= btop /\ (rem # n => bcurrent + n = btop)
  BY <1>2 DEF Least
<1> HIDE DEF n
<1>4. Synced = btop /\ Synced' = btop
  BY <1>1, <1>2, <1>3 DEF Synced, Most
<1>5. Data' = Data
  BY <1>1, <1>4, SameData
<1>6. CleanIsDevice'
  BY <1>1 DEF IInv, CleanIsDevice
<1>7. TypeOK'
  BY <1>1, <1>2, <1>3, WindowFacts, RunFacts, TypeAgain
<1>8. InWindow'
  BY <1>1, <1>2, <1>3, <1>4 DEF InWindow
<1>9. CASE n = 0
  <2>1. run' = "more" /\ rem' = rem /\ Place' = Place
    BY <1>1, <1>2, <1>9 DEF Place
  <2>2. UNCHANGED Bytes!vars
    BY <1>1, <1>5, <2>1, ModeIs, ModeIsNext, AsNothing
  <2> QED
    BY <1>6, <1>7, <1>8, <2>2 DEF IInv, StepOk
<1>10. CASE n # 0
  <2>1. Place \in Nat /\ Place' = Place + n /\ Place' > Place /\ rem' = rem - (Place' - Place)
    BY <1>1, <1>2, <1>3, <1>10 DEF Place
  <2>2. Place..Place'-1 \subseteq DOMAIN Data
    <3>1. dstart..dstart+btop-1 \subseteq DOMAIN Data
      BY <1>4, ValidData
    <3>2. Place..Place'-1 \subseteq dstart..dstart+btop-1
      BY <1>2, <1>3, <2>1 DEF Place
    <3> QED
      BY <3>1, <3>2
  <2>3. Mode' = IF rem' = 0 THEN "idle" ELSE "read"
    <3>1. rem' = 0 <=> rem = n
      BY <1>1, <1>2, <1>3
    <3> QED
      BY <1>1, <3>1, ModeIsNext
  <2>4. Bytes!Move
    BY <1>1, <1>5, <2>1, <2>2, <2>3, ModeIs, AsRead
  <2> QED
    BY <1>6, <1>7, <1>8, <2>4 DEF IInv, StepOk, Bytes!Next
<1> QED
  BY <1>9, <1>10
LEMMA PlaceIn == ASSUME IInv PROVE dstart + bcurrent \in 0..MaxPos /\ dstart \in 0..MaxPos
BY WindowFacts, Bounds

LEMMA MoreStep == ASSUME IInv, More PROVE StepOk
<1> DEFINE d == dstart + bcurrent
<1>1. /\ run = "more" /\ Get(d)
      /\ IF bcurrent' >= btop' THEN run' = "idle" /\ rem' = 0 ELSE run' = "copyout" /\ rem' = rem
  BY DEF More, ShortSeek, NothingLeft
<1>2. d \in 0..MaxPos /\ dstart \in 0..MaxPos /\ d = Place
  BY PlaceIn DEF Place
<1>3. bcurrent = btop /\ d = dstart + Synced
  <2>1. bcurrent = btop
    BY <1>1 DEF IInv, InWindow
  <2> QED
    BY <2>1, WindowFacts
<1> HIDE DEF d
<1>4. /\ btop' \in 0..BufSize /\ bend' = BufSize /\ bcurrent' \in 0..btop'
      /\ dstart' \in Nat /\ dstart' + bcurrent' \in 0..d
      /\ Synced' = btop' /\ dstart' + Synced' <= MaxPos
      /\ CleanIsDevice' /\ SameElsewhere(Data, Data')
      /\ lost' # lost \/ (lost' = lost /\ SettledAs(Data, Data') /\ Arrived(d))
  BY <1>1, <1>2, GotFacts
<1>5. rem \in 1..MaxLen
  BY <1>1, RunFacts, Bounds
<1>6. TypeOK'
  <2>1. /\ run' \in {"idle", "copyout"} /\ rem' \in 0..MaxLen
        /\ rem' > 0 <=> run' = "copyout"
    BY <1>1, <1>5
  <2> QED
    BY <1>1, <1>2, <2>1, GotTyped
<1>7. InWindow'
  BY <1>1, <1>4 DEF InWindow
<1>8. CASE lost' # lost
  <2>1. (rem' = rem /\ Mode' = Mode) \/ (rem' = 0 /\ Mode' = "idle")
    BY <1>1, ModeIs, ModeIsNext
  <2>2. Bytes!Fail
    BY <1>2, <1>4, <1>8, <2>1, AsFail
  <2> QED
    BY <1>4, <1>6, <1>7, <2>2 DEF IInv, StepOk, Bytes!Next
<1>9. CASE lost' = lost /\ SettledAs(Data, Data') /\ Arrived(d)
  <2>1. Place' = Place /\ (bcurrent' >= btop' => Place \notin DOMAIN Data)
    BY <1>2, <1>3, <1>9 DEF Arrived, Place
  <2>2. CASE bcurrent' >= btop'
    BY <1>1, <1>9, <2>1, <2>2, ModeIs, ModeIsNext, AsEnd, <1>4, <1>6, <1>7
       DEF IInv, StepOk, Bytes!Next
  <2>3. CASE ~(bcurrent' >= btop')
    <3>1. Mode' = Mode /\ rem' = rem
      BY <1>1, <2>3, ModeIs, ModeIsNext
    <3>2. Bytes!Flush
      BY <1>9, <2>1, <3>1, AsFlush
    <3> QED
      BY <1>4, <1>6, <1>7, <3>2 DEF IInv, StepOk, Bytes!Next
  <2> QED
    BY <2>2, <2>3
<1> QED
  BY <1>4, <1>8, <1>9

\* n bytes from c on, in a window at a that had s valid bytes and has t then.
LEMMA WindowGrows ==
  ASSUME NEW a \in Nat, NEW b \in Nat, NEW c \in Nat, NEW n \in Nat \ {0},
         NEW s \in {b, c}, b <= s, c <= s, NEW t \in {b, c + n}, b <= t, c + n <= t
  PROVE  /\ a+c..a+c+n-1 \subseteq a..a+t-1 /\ a..a+s-1 \subseteq a..a+t-1
         /\ \A p \in a..a+t-1 : p \notin a+c..a+c+n-1 =>
              p \in Nat /\ p \in a..a+s-1 /\ p - a \in 0..s-1 /\ p - a \notin c..c+n-1
OBVIOUS

\* What is written is in the data, and nothing else has changed.
LEMMA CopiedIn ==
  ASSUME IInv, NEW n \in Nat \ {0}, bcurrent + n <= bend,
         dev' = dev, dstart' = dstart, btop' = btop, bcurrent' = bcurrent + n, dirty',
         \A p \in Places : p \notin bcurrent..bcurrent+n-1 => buf'[p] = buf[p]
  PROVE  LET new == dstart+bcurrent..dstart+bcurrent+n-1
         IN  /\ DOMAIN Data' = DOMAIN Data \union new
             /\ \A p \in DOMAIN Data \ new : Data'[p] = Data[p]
<1> DEFINE new == dstart+bcurrent..dstart+bcurrent+n-1
<1>1. /\ Len(dev) \in Nat /\ dstart \in Nat /\ btop \in Nat /\ bcurrent \in Nat
      /\ bend \in Nat /\ bend <= BufSize /\ btop <= bend /\ bcurrent <= bend
      /\ BufSize \in Nat /\ Synced \in Nat /\ btop <= Synced /\ bcurrent <= Synced
      /\ Synced <= bend /\ Synced \in {btop, bcurrent} /\ (~dirty => Synced = btop)
  BY WindowFacts, Bounds DEF Device
<1>2. PICK t \in Nat : /\ t = Synced' /\ btop <= t /\ bcurrent + n <= t /\ Synced <= t
                       /\ t <= bend /\ t \in {btop, bcurrent + n}
  BY <1>1 DEF Synced, Most
<1>3. Window' = dstart..dstart+t-1
  BY <1>2 DEF Window
<1>4. /\ DOMAIN Data' = 0..Len(dev)-1 \union Window'
      /\ \A p \in DOMAIN Data' : Data'[p] = IF p \in Window' THEN buf'[p - dstart] ELSE dev[p+1]
  BY DEF Data
<1>5. /\ new \subseteq dstart..dstart+t-1 /\ dstart..dstart+Synced-1 \subseteq dstart..dstart+t-1
      /\ \A p \in dstart..dstart+t-1 : p \notin new =>
           /\ p \in Nat /\ p \in dstart..dstart+Synced-1
           /\ p - dstart \in 0..Synced-1 /\ p - dstart \notin bcurrent..bcurrent+n-1
  <2>1. PICK a, b, c, w \in Nat : a = dstart /\ b = btop /\ c = bcurrent /\ w = Synced
    BY <1>1
  <2>2. /\ w \in {b, c} /\ b <= w /\ c <= w /\ t \in {b, c + n} /\ b <= t /\ c + n <= t
    BY <1>1, <1>2, <2>1
  <2>3. /\ a+c..a+c+n-1 \subseteq a..a+t-1 /\ a..a+w-1 \subseteq a..a+t-1
        /\ \A p \in a..a+t-1 : p \notin a+c..a+c+n-1 =>
             p \in Nat /\ p \in a..a+w-1 /\ p - a \in 0..w-1 /\ p - a \notin c..c+n-1
    BY <2>2, WindowGrows
  <2> QED
    BY <2>1, <2>3
<1>6. new \subseteq Window' /\ Window \subseteq Window'
  BY <1>3, <1>5 DEF Window
<1>7. ASSUME ~dirty, NEW p \in dstart..dstart+btop-1
      PROVE  p \in 0..Len(dev)-1 /\ buf[p - dstart] = dev[p+1]
  <2>1. PICK q \in 0..btop-1 : q = p - dstart /\ p = dstart + q
    BY <1>1, <1>7
  <2>2. dstart + q < Len(dev) /\ buf[q] = dev[dstart + q + 1]
    BY <1>7, <2>1 DEF IInv, CleanIsDevice
  <2> QED
    BY <1>1, <2>1, <2>2
<1>8. ASSUME NEW p \in Window', p \notin new
      PROVE  p \in DOMAIN Data /\ Data[p] = buf[p - dstart] /\ buf'[p - dstart] = buf[p - dstart]
  <2>1. p \in Nat /\ p \in dstart..dstart+Synced-1 /\ p - dstart \in Places
        /\ p - dstart \notin bcurrent..bcurrent+n-1
    <3>1. 0..Synced-1 \subseteq Places
      BY <1>1 DEF Places
    <3> QED
      BY <1>3, <1>5, <1>8, <3>1
  <2>2. buf'[p - dstart] = buf[p - dstart]
    BY <2>1
  <2>3. CASE dirty
    BY <2>1, <2>2, <2>3, DataIs DEF Window
  <2>4. CASE ~dirty
    <3>1. p \in dstart..dstart+btop-1 /\ p \notin Window
      BY <1>1, <2>1, <2>4 DEF Window
    <3>2. p \in 0..Len(dev)-1 /\ buf[p - dstart] = dev[p+1]
      BY <1>7, <2>4, <3>1
    <3> QED
      BY <2>2, <3>1, <3>2, DataIs
  <2> QED
    BY <2>3, <2>4
<1>9. DOMAIN Data' = DOMAIN Data \union new
  BY <1>4, <1>6, <1>8, DataIs
<1>10. ASSUME NEW p \in DOMAIN Data \ new
      PROVE  Data'[p] = Data[p]
  <2>1. CASE p \in Window'
    BY <1>4, <1>8, <1>10, <2>1
  <2>2. CASE p \notin Window'
    BY <1>4, <1>6, <1>9, <1>10, <2>2, DataIs
  <2> QED
    BY <2>1, <2>2
<1> QED
  BY <1>9, <1>10

LEMMA CopyInStep == ASSUME IInv, CopyIn PROVE StepOk
<1> DEFINE n == Least(rem, bend - bcurrent)
           new == bcurrent..bcurrent+n-1
<1>1. /\ run = "copyin" /\ rem' = rem - n /\ bcurrent' = bcurrent + n
      /\ dirty' = (dirty \/ n > 0) /\ run' = (IF rem = n THEN "idle" ELSE "room")
      /\ dev' = dev /\ btop' = btop /\ bend' = bend /\ dstart' = dstart
      /\ shortfall' = shortfall /\ lost' = lost
  BY DEF CopyIn, Changed
<1>2. PICK v \in [new -> Byte] : buf' = [p \in Places |-> IF p \in new THEN v[p] ELSE buf[p]]
  BY DEF CopyIn
<1>3. /\ bcurrent \in Nat /\ bend \in Nat /\ bcurrent <= bend /\ btop \in Nat /\ btop <= bend
      /\ dstart \in Nat /\ Synced \in Nat /\ dstart + Synced <= MaxPos /\ btop <= Synced
      /\ rem \in 1..MaxLen /\ dstart + bcurrent + rem <= MaxPos
  BY <1>1, WindowFacts, RunFacts, Bounds DEF IInv, InWindow
<1>4. n \in Nat /\ n <= rem /\ bcurrent + n <= bend /\ (rem # n => bcurrent + n = bend)
  BY <1>3 DEF Least
<1>5. buf' \in [Places -> Byte] /\ \A p \in Places : p \notin new => buf'[p] = buf[p]
  BY <1>2, WindowFacts
<1> HIDE DEF n
<1>6. dirty' \in BOOLEAN /\ (bcurrent + n > btop => dirty')
  <2>1. dirty' \in BOOLEAN
    BY <1>1
  <2>2. ASSUME bcurrent + n > btop, ~dirty
        PROVE  n > 0
    <3>1. ~(bcurrent > btop)
      BY <2>2, RunFacts
    <3> QED
      BY <1>3, <1>4, <2>2, <3>1
  <2> QED
    BY <1>1, <2>1, <2>2
<1>7. TypeOK'
  <2>1. /\ bcurrent' \in 0..bend' /\ rem' \in 0..MaxLen
        /\ rem' > 0 <=> run' \notin {"closed", "idle"}
        /\ run' \in {"idle", "room"}
    BY <1>1, <1>3, <1>4
  <2> QED
    BY <1>1, <1>5, <1>6, <2>1, WindowFacts, RunFacts, TypeAgain
<1>8. InWindow'
  <2>1. dstart + Synced' <= MaxPos
    <3>1. Synced' = IF btop > bcurrent + n THEN btop ELSE bcurrent + n
      BY <1>1 DEF Synced, Most
    <3>2. MaxPos \in Nat
      BY Bounds
    <3> QED
      BY <1>1, <1>3, <1>4, <3>1, <3>2
  <2> QED
    BY <1>1, <1>3, <1>4, <2>1 DEF InWindow
<1>9. CASE n = 0
  <2>1. new = {}
    BY <1>3, <1>9
  <2>2. buf' = buf
    BY <1>2, <2>1, WindowFacts
  <2>3. /\ bcurrent' = bcurrent /\ run' = "room" /\ rem' = rem /\ dirty' = dirty
        /\ dirty \in BOOLEAN
    BY <1>1, <1>3, <1>9, RunFacts
  <2>4. Synced' = Synced /\ CleanIsDevice'
    BY <1>1, <2>2, <2>3 DEF Synced, IInv, CleanIsDevice
  <2>5. Place' = Place
    BY <1>1, <2>3 DEF Place
  <2>6. Data' = Data
    BY <1>1, <2>2, <2>3, <2>4, SameData
  <2>7. UNCHANGED Bytes!vars
    BY <1>1, <2>3, <2>5, <2>6, ModeIs, ModeIsNext, AsNothing
  <2> QED
    BY <1>7, <1>8, <2>4, <2>7 DEF IInv, StepOk
<1>10. CASE n # 0
  <2>1. dirty' /\ CleanIsDevice'
    <3>1. n > 0
      BY <1>4, <1>10
    <3>2. dirty'
      BY <1>1, <3>1
    <3> QED
      BY <3>2 DEF CleanIsDevice
  <2>2. Place \in Nat /\ Place' = Place + n /\ Place' > Place /\ rem' = rem - (Place' - Place)
    BY <1>1, <1>3, <1>4, <1>10 DEF Place
  <2>3. /\ DOMAIN Data' = DOMAIN Data \union (dstart+bcurrent..dstart+bcurrent+n-1)
        /\ \A p \in DOMAIN Data \ (dstart+bcurrent..dstart+bcurrent+n-1) : Data'[p] = Data[p]
    BY <1>1, <1>4, <1>5, <1>10, <2>1, CopiedIn
  <2>4. Place..Place'-1 = dstart+bcurrent..dstart+bcurrent+n-1
    <3>1. Place = dstart + bcurrent
      BY DEF Place
    <3> QED
      BY <1>4, <2>2, <3>1
  <2>5. Mode' = IF rem' = 0 THEN "idle" ELSE "write"
    <3>1. rem' = 0 <=> rem = n
      BY <1>1, <1>3, <1>4
    <3> QED
      BY <1>1, <3>1, ModeIsNext
  <2>6. Bytes!Move
    BY <1>1, <2>2, <2>3, <2>4, <2>5, ModeIs, AsWrite
  <2> QED
    BY <1>7, <1>8, <2>1, <2>6 DEF IInv, StepOk, Bytes!Next
<1> QED
  BY <1>9, <1>10
-----------------------------------------------------------------------------
\* How a turn that makes room ends.
Ended == IF shortfall' THEN run' = "idle" /\ rem' = 0 ELSE run' = "copyin" /\ rem' = rem

LEMMA RoomSeen ==
  ASSUME IInv, run = "room", Ended,
         \/ lost' # lost /\ SameElsewhere(Data, Data')
         \/ lost' = lost /\ SettledAs(Data, Data') /\ Place' = Place
  PROVE  Bytes!Next
<1>1. Mode = "write"
  BY ModeIs
<1>2. CASE lost' # lost /\ SameElsewhere(Data, Data')
  <2>1. (rem' = rem /\ Mode' = Mode) \/ (rem' = 0 /\ Mode' = "idle")
    BY <1>1, ModeIsNext DEF Ended
  <2> QED
    BY <1>2, <2>1, PlaceIn, AsFail DEF Bytes!Next
<1>3. CASE lost' = lost /\ SettledAs(Data, Data') /\ Place' = Place
  <2>1. CASE ~shortfall'
    BY <1>1, <1>3, <2>1, ModeIsNext, AsFlush DEF Ended, Bytes!Next
  <2>2. CASE shortfall'
    BY <1>1, <1>3, <2>2, ModeIsNext, AsEnd DEF Ended, Bytes!Next
  <2> QED
    BY <2>1, <2>2
<1> QED
  BY <1>2, <1>3

\* Before it makes room a transfer is at the end of the window.
LEMMA RoomFacts ==
  ASSUME IInv, run = "room", Ended
  PROVE  /\ bcurrent = bend /\ bend \in {0, BufSize} /\ dstart \in Nat /\ Synced = bend
         /\ (dstart + bcurrent) % BufSize = 0
         /\ rem \in 1..MaxLen /\ dstart + bcurrent + rem <= MaxPos /\ dstart + bcurrent \in Nat
         /\ run' \in {"idle", "copyin"} /\ rem' \in 0..MaxLen
         /\ rem' > 0 <=> run' \notin {"closed", "idle"}
         /\ run' = "copyin" => rem' = rem
<1>1. /\ bcurrent = bend /\ bend \in {0, BufSize} /\ dstart \in Nat /\ dstart % BufSize = 0
      /\ Synced \in Nat /\ Synced <= bend /\ bcurrent <= Synced
      /\ rem \in 1..MaxLen /\ dstart + bcurrent + rem <= MaxPos
  BY WindowFacts, RunFacts, Bounds DEF IInv, InWindow
<1>2. bcurrent \in Nat /\ bcurrent % BufSize = 0
  <2>1. 0 % BufSize = 0 /\ BufSize % BufSize = 0
    BY Bounds
  <2> QED
    BY <1>1, <2>1, Bounds
<1>3. (dstart + bcurrent) % BufSize = 0
  BY <1>1, <1>2, MultipleAdds
<1>4. /\ run' \in {"idle", "copyin"} /\ rem' \in 0..MaxLen
      /\ rem' > 0 <=> run' \notin {"closed", "idle"}
      /\ run' = "copyin" => rem' = rem
  BY <1>1, Bounds DEF Ended
<1> QED
  BY <1>1, <1>2, <1>3, <1>4

\* The window is read.
LEMMA ReadRoom == ASSUME IInv, run = "room", ShortSeek, Ended PROVE StepOk
<1> DEFINE d == dstart + bcurrent
<1>1. /\ d \in 0..MaxPos /\ d % BufSize = 0 /\ d + rem <= MaxPos /\ rem \in 1..MaxLen
      /\ run' \in {"idle", "copyin"} /\ rem' \in 0..MaxLen
      /\ rem' > 0 <=> run' \notin {"closed", "idle"}
      /\ run' = "copyin" => rem' = rem
  BY RoomFacts, PlaceIn
<1>2. Get(d) /\ d = Place
  BY DEF ShortSeek, Place
<1> HIDE DEF d
<1>3. /\ btop' \in 0..BufSize /\ bend' = BufSize /\ bcurrent' \in 0..btop'
      /\ dstart' \in Nat /\ dstart' + bcurrent' \in 0..d
      /\ Synced' = btop' /\ dstart' + Synced' <= MaxPos
      /\ CleanIsDevice' /\ SameElsewhere(Data, Data')
      /\ lost' # lost \/ (lost' = lost /\ SettledAs(Data, Data') /\ Arrived(d))
  BY <1>1, <1>2, GotFacts
<1>4. TypeOK'
  BY <1>1, <1>2, GotTyped
<1>5. InWindow'
  <2>1. run' = "copyin" => dstart' + bcurrent' + rem' <= MaxPos
    <3>1. PICK a \in Nat : a = dstart' + bcurrent' /\ a <= d
      <4>1. dstart' + bcurrent' \in 0..d /\ d \in Nat
        <5>1. d \in Nat
          BY <1>1, Bounds
        <5>2. dstart' + bcurrent' \in 0..d
          BY ONLY <1>3
        <5> QED
          BY <5>1, <5>2
      <4> QED
        BY <4>1
    <3>2. d \in Nat /\ MaxPos \in Nat /\ a + rem <= MaxPos
      BY <1>1, <3>1, Bounds
    <3> QED
      BY <1>1, <3>1, <3>2
  <2> QED
    BY <1>1, <1>3, <2>1 DEF InWindow
<1>6. Arrived(d) => Place' = Place
  BY <1>1, <1>2 DEF Arrived, Place
<1>7. Bytes!Next
  BY <1>3, <1>6, RoomSeen
<1> QED
  BY <1>3, <1>4, <1>5, <1>7 DEF IInv, StepOk

\* A window that will be overwritten whole is not read.
LEMMA NewRoom == ASSUME IInv, run = "room", OpenWindow, buf' = buf, Ended PROVE StepOk
<1>1. /\ bcurrent = bend /\ bend \in {0, BufSize} /\ dstart \in Nat /\ Synced = bend
      /\ (dstart + bcurrent) % BufSize = 0 /\ dstart % BufSize = 0
      /\ rem \in 1..MaxLen /\ dstart + bcurrent + rem <= MaxPos /\ dstart + bcurrent \in Nat
      /\ run' \in {"idle", "copyin"} /\ rem' \in 0..MaxLen
      /\ rem' > 0 <=> run' \notin {"closed", "idle"}
      /\ run' = "copyin" => rem' = rem
  BY RoomFacts, WindowFacts
<1>2. BufSize \in Nat \ {0} /\ MaxPos \in Nat /\ 0 \in 0..BufSize
  BY Bounds
<1>3. CASE bend < BufSize
  <2>1. /\ bend' = BufSize /\ btop' = Synced
        /\ dev' = dev /\ bcurrent' = bcurrent /\ dstart' = dstart
        /\ dirty' = dirty /\ shortfall' = shortfall /\ lost' = lost
    BY <1>3 DEF OpenWindow
  <2>2. bend = 0 /\ bcurrent = 0 /\ Synced = 0
    BY <1>1, <1>2, <1>3
  <2>3. Synced' = Synced /\ Data' = Data /\ CleanIsDevice'
    <3>1. bcurrent' \in 0..Synced
      BY <2>1, <2>2
    <3> QED
      BY <2>1, <3>1, SyncFacts
  <2>4. TypeOK'
    <3>1. btop' \in 0..BufSize /\ bend' \in {0, BufSize} /\ bcurrent' \in 0..bend'
          /\ ~(bcurrent' > btop') /\ shortfall' \in BOOLEAN /\ dstart' % BufSize = 0
      BY <1>1, <1>2, <2>1, <2>2, WindowFacts
    <3> QED
      BY <1>1, <2>1, <3>1, WindowFacts, RunFacts, TypeAgain
  <2>5. InWindow'
    BY <1>1, <1>2, <2>1, <2>2, <2>3 DEF InWindow
  <2>6. Bytes!Next
    BY <2>1, <2>3, SameSettled, RoomSeen DEF Place
  <2> QED
    BY <2>3, <2>4, <2>5, <2>6 DEF IInv, StepOk
<1>4. CASE ~(bend < BufSize)
  <2>1. PICK k \in Taken(Blocks) : Flush(k) /\ Noted(AllTaken(k))
    BY <1>4 DEF OpenWindow
  <2>2. dstart' = dstart + bcurrent /\ bend' = BufSize /\ btop' = 0 /\ bcurrent' = 0
    BY <1>4 DEF OpenWindow
  <2>3. /\ Device(dev') /\ ~dirty' /\ dirty' \in BOOLEAN /\ shortfall' \in BOOLEAN
        /\ SameElsewhere(Data, Data') /\ (AllTaken(k) => SettledAs(Data, Data'))
    BY <2>1, WrittenFacts
  <2>4. lost' \in BOOLEAN /\ (AllTaken(k) => lost' = lost) /\ (~AllTaken(k) => lost' # lost)
    BY <2>1, NotedFacts DEF AllTaken
  <2>5. Synced' = 0
    BY <2>2 DEF Synced, Most
  <2>6. TypeOK'
    <3>1. btop' \in 0..BufSize /\ bend' \in {0, BufSize} /\ bcurrent' \in 0..bend'
          /\ ~(bcurrent' > btop') /\ dstart' \in Nat /\ dstart' % BufSize = 0
      BY <1>1, <1>2, <2>2
    <3>2. buf' \in [Places -> Byte]
      BY WindowFacts
    <3> QED
      BY <1>1, <2>3, <2>4, <3>1, <3>2, TypeAgain
  <2>7. InWindow'
    <3>1. dstart + bcurrent <= MaxPos
      BY <1>1, <1>2
    <3>2. btop' <= bend' /\ dstart' + Synced' <= MaxPos
      BY <1>1, <1>2, <2>2, <2>5, <3>1
    <3>3. run' = "copyin" => dstart' + bcurrent' + rem' <= MaxPos
      BY <1>1, <2>2
    <3> QED
      BY <1>1, <2>3, <3>2, <3>3 DEF InWindow
  <2>8. CleanIsDevice'
    BY <2>2 DEF CleanIsDevice
  <2>9. Place' = Place
    BY <1>1, <2>2 DEF Place
  <2>10. Bytes!Next
    BY <2>3, <2>4, <2>9, RoomSeen
  <2> QED
    BY <2>6, <2>7, <2>8, <2>10 DEF IInv, StepOk
<1> QED
  BY <1>3, <1>4

LEMMA RoomStep == ASSUME IInv, Room PROVE StepOk
<1>1. run = "room" /\ Ended
  BY DEF Room, Ended
<1>2. ShortSeek \/ (OpenWindow /\ buf' = buf)
  BY DEF Room
<1> QED
  BY <1>1, <1>2, ReadRoom, NewRoom

-----------------------------------------------------------------------------
LEMMA InitOk == Init => IInv /\ Bytes!Init
<1> SUFFICES ASSUME Init PROVE IInv /\ Bytes!Init
  OBVIOUS
<1>1. PICK n \in 0..Capacity : dev \in [1..n*BlockSize -> Byte]
  BY DEF Init
<1>2. /\ buf \in [Places -> Byte]
      /\ btop = 0 /\ bend = 0 /\ bcurrent = 0 /\ dstart = 0
      /\ ~dirty /\ dirty \in BOOLEAN /\ ~shortfall /\ shortfall = FALSE /\ shortfall \in BOOLEAN
      /\ run = "closed" /\ rem = 0 /\ lost = FALSE /\ lost \in BOOLEAN
  BY DEF Init
<1>3. PICK m \in Nat : m = n * BlockSize /\ m % BlockSize = 0 /\ m <= DeviceEnd
  <2>1. PICK r \in Nat : Capacity = n + r
    <3>1. Capacity - n \in Nat /\ Capacity = n + (Capacity - n)
      OBVIOUS
    <3> QED
      BY <3>1
  <2>2. n * BlockSize \in Nat /\ (n * BlockSize) % BlockSize = 0 /\ r * BlockSize \in Nat
    BY Bounds, MultipleIs
  <2>3. DeviceEnd = n * BlockSize + r * BlockSize
    BY <2>1, Bounds DEF DeviceEnd
  <2> QED
    BY <2>2, <2>3
<1>4. Device(dev) /\ Len(dev) = m
  <2>1. dev \in Seq(Byte) /\ Len(dev) = m
    BY <1>1, <1>3
  <2> QED
    BY <1>3, <2>1 DEF Device
<1>5. Synced = 0
  BY <1>2 DEF Synced, Most
<1>6. TypeOK
  <2>1. 0 % BufSize = 0
    BY Bounds
  <2> QED
    BY <1>2, <1>4, <2>1, Bounds DEF TypeOK, Device, DeviceEnd
<1>7. InWindow /\ CleanIsDevice
  BY <1>2, <1>5, Bounds DEF InWindow, CleanIsDevice
<1>8. Bytes!Init
  <2>1. Data \in [0..m-1 -> Byte]
    <3>1. Data = ByteOf(dev)
      BY <1>2, CleanData
    <3>2. dev \in [1..m -> Byte]
      BY <1>1, <1>3
    <3>3. \A p \in 0..m-1 : p + 1 \in 1..m
      OBVIOUS
    <3> QED
      BY <1>4, <3>1, <3>2, <3>3 DEF ByteOf
  <2>2. m \in Bytes!Positions
    BY <1>3, Bounds DEF Bytes!Positions
  <2>3. Mode = "closed" /\ dstart + bcurrent = 0
    BY <1>2, ModeIs
  <2> QED
    BY <1>2, <2>1, <2>2, <2>3 DEF Mode, Bytes!Init
<1> QED
  BY <1>6, <1>7, <1>8 DEF IInv

\* Every step keeps the invariant, and is one of ByteDevice or shows nothing of itself.
LEMMA NextOk == IInv /\ [Next]_vars => StepOk
<1> SUFFICES ASSUME IInv, [Next]_vars PROVE StepOk
  OBVIOUS
<1>1. CASE Open
  BY <1>1, OpenStep
<1>2. CASE Close
  BY <1>2, CloseStep
<1>3. CASE Size
  BY <1>3, SizeStep
<1>4. CASE CopyOut
  BY <1>4, CopyOutStep
<1>5. CASE More
  BY <1>5, MoreStep
<1>6. CASE CopyIn
  BY <1>6, CopyInStep
<1>7. CASE Room
  BY <1>7, RoomStep
<1>8. CASE \E d \in 0..MaxPos : Seek(d)
  BY <1>8, SeekStep
<1>9. CASE \E n \in 1..MaxLen : Read(n) \/ Write(n)
  BY <1>9, ReadStep, WriteStep
<1>10. CASE UNCHANGED vars
  <2>1. /\ dev' = dev /\ buf' = buf /\ btop' = btop /\ bend' = bend /\ bcurrent' = bcurrent
        /\ dstart' = dstart /\ dirty' = dirty /\ shortfall' = shortfall /\ run' = run
        /\ rem' = rem /\ lost' = lost
    BY <1>10 DEF vars
  <2>2. Synced' = Synced
    BY <2>1 DEF Synced
  <2>3. IInv'
    BY <2>1, <2>2 DEF IInv, TypeOK, InWindow, CleanIsDevice
  <2>4. UNCHANGED Bytes!vars
    BY <2>1, <2>2, SameData, ModeIsNext, AsNothing DEF Place
  <2> QED
    BY <2>3, <2>4 DEF StepOk
<1> QED
  BY <1>1, <1>2, <1>3, <1>4, <1>5, <1>6, <1>7, <1>8, <1>9, <1>10 DEF Next, Turn

\* The window stays within the device and a buffer's length, and each turn of a transfer
\* finds it as the code of that turn takes it to be (?flushbuf, copyin, copyout).
THEOREM Invariance == Spec => []IInv
<1>1. IInv /\ [Next]_vars => IInv'
  BY NextOk DEF StepOk
<1> QED
  BY <1>1, InitOk, PTL DEF Spec

\* The variables of an instance keep their types.
THEOREM TypeCorrect == Spec => []TypeOK
<1>1. IInv => TypeOK
  BY DEF IInv
<1> QED
  BY <1>1, Invariance, PTL

\* A buffer without changes holds what the device has (?flushbuf, fillbuf).
THEOREM CleanStaysDevice == Spec => []CleanIsDevice
<1>1. IInv => CleanIsDevice
  BY DEF IInv
<1> QED
  BY <1>1, Invariance, PTL

\* Whatever a program does, and wherever the device fails, it finds a device of bytes that
\* only loses what the device did not take, and that is extended with bytes that nobody
\* wrote only below what was written beyond its end; a seek goes exactly where ByteDevice
\* says (seek, read, write).
THEOREM Refinement == Spec => ImplementsByteDevice
<1>1. IInv /\ [Next]_vars => [Bytes!Next]_(Bytes!vars)
  BY NextOk DEF StepOk
<1> QED
  BY <1>1, InitOk, Invariance, PTL DEF Spec, ImplementsByteDevice, Bytes!Spec
=============================================================================
