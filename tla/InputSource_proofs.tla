------------------------- MODULE InputSource_proofs -------------------------
(***************************************************************************)
(* Where input comes from, and the line that is typed.  First, whoever     *)
(* gives a source back finds its file open and its buffer in use, for any  *)
(* files, buffers, lines and depth of nesting, and the sources are the     *)
(* levels of a stack.  Then the line editor: after each key the terminal   *)
(* shows the line, a tab takes nothing that was typed, and the lines typed *)
(* before are whole in the history array, for rooms, names, arrays and     *)
(* lines of every length.                                                  *)
(***************************************************************************)
EXTENDS InputSource, LineEdit, SequenceTheorems, FiniteSetTheorems, WellFoundedInduction, TLAPS

USE InputAssumption

\* The source that level i is at, where the innermost is at s.
At(n, s, i) == IF i < Len(n) THEN n[i+1].saved ELSE s

Fits(is, s) ==
  /\ is = "interact" => s.id = Console /\ s.buf = Tib
  /\ is = "evaluate" => s.id = Text /\ s.buf = Text
  /\ is = "include" => s.id \in Files /\ s.buf \in Buffers

Includes(n) == {i \in 1..Len(n) : n[i].is = "include"}

\* Each level is at a source of its own kind, and those of the files are open, in use and
\* all different; what else is open or in use is lost.
Owned(n, s, o, h, l) ==
  /\ \A i \in 1..Len(n) : Fits(n[i].is, At(n, s, i))
  /\ \A i \in Includes(n) : At(n, s, i).id \in o /\ At(n, s, i).buf \in h
  /\ \A i, j \in Includes(n) :
       i # j => At(n, s, i).id # At(n, s, j).id /\ At(n, s, i).buf # At(n, s, j).buf
  /\ \A f \in o : f \in l \/ \E i \in Includes(n) : At(n, s, i).id = f
  /\ \A b \in h : b \in l \/ \E i \in Includes(n) : At(n, s, i).buf = b

IInv == /\ TypeOK
        /\ nest[1].is = "interact"
        /\ ~torn => Owned(nest, src, open, heap, lost)

SamePlace(s, t) == s.id = t.id /\ s.buf = t.buf

\* A level is of one of the three kinds.
LEMMA FrameKind ==
  ASSUME NEW n \in Seq(Frame), NEW i \in 1..Len(n)
  PROVE  n[i].is \in {"interact", "evaluate", "include"}
<1>1. n[i] \in Frame
  OBVIOUS
<1> QED
  BY <1>1 DEF Frame

\* The innermost source moves on.
LEMMA OwnedMoves ==
  ASSUME NEW n \in Seq(Frame), NEW s, NEW t, NEW o, NEW h, NEW l,
         Owned(n, s, o, h, l), SamePlace(t, s)
  PROVE  Owned(n, t, o, h, l)
<1>1. \A i \in 1..Len(n) : At(n, t, i).id = At(n, s, i).id /\ At(n, t, i).buf = At(n, s, i).buf
  BY DEF At, SamePlace
<1>2. Includes(n) \subseteq 1..Len(n)
  BY DEF Includes
<1> QED
  BY <1>1, <1>2 DEF Owned, Fits

\* What the levels are at when one more is put on them, or the innermost taken off.
LEMMA AtAppend ==
  ASSUME NEW n \in Seq(Frame), Len(n) > 0, NEW f \in Frame, NEW t, NEW v, v = f.saved
  PROVE  /\ Append(n, f) \in Seq(Frame) /\ Len(Append(n, f)) = Len(n) + 1
         /\ \A i \in 1..Len(n) : Append(n, f)[i] = n[i]
         /\ Append(n, f)[Len(n)+1] = f
         /\ \A i \in 1..Len(n) : At(Append(n, f), t, i) = At(n, v, i)
         /\ At(Append(n, f), t, Len(n) + 1) = t
<1>1. /\ Append(n, f) \in Seq(Frame) /\ Len(Append(n, f)) = Len(n) + 1
      /\ \A i \in 1..Len(n) : Append(n, f)[i] = n[i]
      /\ Append(n, f)[Len(n)+1] = f
  BY AppendProperties
<1>2. ASSUME NEW i \in 1..Len(n)
      PROVE  At(Append(n, f), t, i) = At(n, v, i)
  <2>1. CASE i < Len(n)
    BY <1>1, <2>1 DEF At
  <2>2. CASE i = Len(n)
    BY <1>1, <2>2 DEF At
  <2> QED
    BY <2>1, <2>2
<1> QED
  BY <1>1, <1>2 DEF At

\* Taking the innermost level off leaves the others where they were.
LEMMA AtOuter ==
  ASSUME NEW n \in Seq(Frame), Len(n) > 1, NEW s
  PROVE  LET m == SubSeq(n, 1, Len(n) - 1)
         IN /\ m \in Seq(Frame) /\ Len(m) = Len(n) - 1
            /\ \A i \in 1..Len(m) : m[i] = n[i]
            /\ \A i \in 1..Len(m) : At(m, n[Len(n)].saved, i) = At(n, s, i)
<1> DEFINE m == SubSeq(n, 1, Len(n) - 1)
<1>1. /\ m \in Seq(Frame) /\ Len(m) = Len(n) - 1
      /\ \A i \in 1..Len(m) : m[i] = n[i]
  BY SubSeqProperties
<1>2. ASSUME NEW i \in 1..Len(m)
      PROVE  At(m, n[Len(n)].saved, i) = At(n, s, i)
  <2>1. CASE i < Len(m)
    BY <1>1, <2>1 DEF At
  <2>2. CASE i = Len(m)
    BY <1>1, <2>2 DEF At
  <2> QED
    BY <2>1, <2>2, <1>1
<1> QED
  BY <1>1, <1>2

-----------------------------------------------------------------------------
\* evaluate and interact in a word: no file is opened.
LEMMA OwnedBegin ==
  ASSUME NEW n \in Seq(Frame), Len(n) > 0, NEW f \in Frame, f.is # "include",
         NEW s, NEW t, NEW v, v = f.saved, NEW o, NEW h, NEW l,
         Owned(n, s, o, h, l), SamePlace(v, s), Fits(f.is, t)
  PROVE  Owned(Append(n, f), t, o, h, l)
<1> DEFINE m == Append(n, f)
<1>1. Owned(n, v, o, h, l)
  BY OwnedMoves
<1>2. /\ Len(m) = Len(n) + 1 /\ \A i \in 1..Len(n) : m[i] = n[i]
      /\ m[Len(n)+1] = f
      /\ \A i \in 1..Len(n) : At(m, t, i) = At(n, v, i)
      /\ At(m, t, Len(n) + 1) = t
  BY AtAppend
<1>3. Includes(m) = Includes(n) /\ Includes(n) \subseteq 1..Len(n)
  BY <1>2 DEF Includes
<1> HIDE DEF m
<1>4. \A i \in 1..Len(m) : Fits(m[i].is, At(m, t, i))
  BY <1>1, <1>2 DEF Owned
<1>5. \A i \in Includes(m) : At(m, t, i) = At(n, v, i)
  BY <1>2, <1>3
<1>6. Owned(m, t, o, h, l)
  BY <1>1, <1>3, <1>4, <1>5 DEF Owned
<1> QED
  BY <1>6 DEF m

\* include-file, with a file that is not open and a buffer that is not in use.
LEMMA OwnedInclude ==
  ASSUME NEW n \in Seq(Frame), Len(n) > 0, NEW f \in Frame, f.is = "include",
         NEW s, NEW t, NEW v, v = f.saved, NEW o, NEW h, NEW l,
         Owned(n, s, o, h, l), SamePlace(v, s), Fits(f.is, t),
         t.id \notin o, t.buf \notin h
  PROVE  Owned(Append(n, f), t, o \union {t.id}, h \union {t.buf}, l)
<1> DEFINE m == Append(n, f)
           last == Len(n) + 1
<1>1. Owned(n, v, o, h, l)
  BY OwnedMoves
<1>2. /\ Len(m) = last /\ \A i \in 1..Len(n) : m[i] = n[i]
      /\ m[last] = f
      /\ \A i \in 1..Len(n) : At(m, t, i) = At(n, v, i)
      /\ At(m, t, last) = t
  BY AtAppend
<1>3. /\ Includes(m) = Includes(n) \union {last} /\ Includes(n) \subseteq 1..Len(n)
      /\ last \notin Includes(n)
  BY <1>2 DEF Includes
<1> HIDE DEF m, last
<1>4. \A i \in 1..Len(m) : Fits(m[i].is, At(m, t, i))
  BY <1>1, <1>2 DEF Owned, last
<1>5. \A i \in Includes(n) : /\ At(m, t, i) = At(n, v, i)
                             /\ At(m, t, i).id \in o /\ At(m, t, i).buf \in h
  BY <1>1, <1>2, <1>3 DEF Owned
<1>6. \A i, j \in Includes(m) :
        i # j => At(m, t, i).id # At(m, t, j).id /\ At(m, t, i).buf # At(m, t, j).buf
  BY <1>1, <1>2, <1>3, <1>5 DEF Owned
<1>7. /\ \A g \in o \union {t.id} : g \in l \/ \E i \in Includes(m) : At(m, t, i).id = g
      /\ \A b \in h \union {t.buf} : b \in l \/ \E i \in Includes(m) : At(m, t, i).buf = b
  BY <1>1, <1>2, <1>3, <1>5 DEF Owned
<1>8. Owned(m, t, o \union {t.id}, h \union {t.buf}, l)
  BY <1>2, <1>3, <1>4, <1>5, <1>6, <1>7 DEF Owned
<1> QED
  BY <1>8 DEF m

\* A source that is no file's is given back.
LEMMA OwnedBack ==
  ASSUME NEW n \in Seq(Frame), Len(n) > 1, n[Len(n)].is # "include",
         NEW s, NEW o, NEW h, NEW l, Owned(n, s, o, h, l)
  PROVE  Owned(SubSeq(n, 1, Len(n) - 1), n[Len(n)].saved, o, h, l)
<1> DEFINE m == SubSeq(n, 1, Len(n) - 1)
           t == n[Len(n)].saved
<1>1. /\ Len(m) = Len(n) - 1
      /\ \A i \in 1..Len(m) : m[i] = n[i]
      /\ \A i \in 1..Len(m) : At(m, t, i) = At(n, s, i)
  BY AtOuter
<1>2. Includes(m) = Includes(n) /\ Includes(n) \subseteq 1..Len(m)
  BY <1>1 DEF Includes
<1> HIDE DEF m, t
<1>3. \A i \in 1..Len(m) : Fits(m[i].is, At(m, t, i))
  BY <1>1 DEF Owned
<1>4. \A i \in Includes(m) : At(m, t, i) = At(n, s, i)
  BY <1>1, <1>2
<1>5. Owned(m, t, o, h, l)
  BY <1>2, <1>3, <1>4 DEF Owned
<1> QED
  BY <1>5 DEF m, t

\* include-file closes the file and frees the buffer of the source it is at.
LEMMA OwnedEnds ==
  ASSUME NEW n \in Seq(Frame), Len(n) > 1, n[Len(n)].is = "include",
         NEW s, NEW o, NEW h, NEW l, Owned(n, s, o, h, l)
  PROVE  Owned(SubSeq(n, 1, Len(n) - 1), n[Len(n)].saved, o \ {s.id}, h \ {s.buf}, l)
<1> DEFINE m == SubSeq(n, 1, Len(n) - 1)
           t == n[Len(n)].saved
           last == Len(n)
<1>1. /\ Len(m) = last - 1
      /\ \A i \in 1..Len(m) : m[i] = n[i]
      /\ \A i \in 1..Len(m) : At(m, t, i) = At(n, s, i)
      /\ At(n, s, last) = s
  BY AtOuter DEF At
<1>2. /\ Includes(n) = Includes(m) \union {last} /\ Includes(m) \subseteq 1..Len(m)
      /\ last \notin Includes(m)
  BY <1>1 DEF Includes
<1> HIDE DEF m, t, last
<1>3. \A i \in 1..Len(m) : Fits(m[i].is, At(m, t, i))
  BY <1>1 DEF Owned, last
<1>4. \A i \in Includes(m) : At(m, t, i) = At(n, s, i)
  BY <1>1, <1>2
<1>5. \A i \in Includes(m) : At(m, t, i).id # s.id /\ At(m, t, i).buf # s.buf
  BY <1>1, <1>2, <1>4 DEF Owned
<1>6. Owned(m, t, o \ {s.id}, h \ {s.buf}, l)
  BY <1>1, <1>2, <1>3, <1>4, <1>5 DEF Owned
<1> QED
  BY <1>6 DEF m, t

-----------------------------------------------------------------------------
LEMMA InitIInv == Init => IInv
<1> SUFFICES ASSUME Init
             PROVE  IInv
  OBVIOUS
<1>1. Terminal \in Source /\ Terminal.id = Console /\ Terminal.buf = Tib
      /\ Terminal.in = 0 /\ Terminal.len = 0
  BY DEF Terminal, Input, Source
<1>2. /\ nest = <<[is |-> "interact", saved |-> Terminal]>>
      /\ nest \in Seq(Frame) /\ Len(nest) = 1 /\ nest[1].is = "interact"
      /\ nest[1].saved = Terminal
  BY <1>1 DEF Init, Run, Frame
<1>3. TypeOK
  <2>1. \A s \in {src} \union {nest[i].saved : i \in DOMAIN nest} : s.in <= s.len
    BY <1>1, <1>2 DEF Init
  <2>2. /\ text \in [Buffers \union {Tib, Text} -> 0..Lines]
        /\ read \in [Files \union {Console} -> 0..Lines]
        /\ Len(nest) \in 1..MaxNest
    BY <1>2 DEF Init
  <2> QED
    BY <1>1, <1>2, <2>1, <2>2 DEF Init, TypeOK
<1>4. At(nest, src, 1) = Terminal /\ Includes(nest) = {}
  BY <1>2 DEF At, Includes, Init
<1>5. Owned(nest, src, open, heap, lost)
  BY <1>1, <1>2, <1>4 DEF Owned, Fits, Init
<1> QED
  BY <1>2, <1>3, <1>5 DEF IInv

\* A step within the innermost source.
Within == /\ UNCHANGED <<nest, open, heap, lost>>
          /\ SamePlace(src', src)
          /\ torn => torn'

LEMMA WithinOwned ==
  ASSUME IInv, Within, ~torn'
  PROVE  Owned(nest', src', open', heap', lost')
BY OwnedMoves DEF IInv, Within, TypeOK

LEMMA SrcTyped ==
  ASSUME TypeOK
  PROVE  /\ src = [buf |-> src.buf, id |-> src.id, len |-> src.len, in |-> src.in]
         /\ src.buf \in Buffers \union {Tib, Text} /\ src.id \in Files \union {Console, Text}
         /\ src.len \in Nat /\ src.in \in Nat /\ src.len <= Words /\ src.in <= src.len
BY DEF TypeOK, Source

\* The type of what a step within the innermost source leaves.
LEMMA RefillSafe ==
  ASSUME IInv, NEW goal \in {"refill", "interpret", "raised", "leaving", "ended"}, Refill(goal)
  PROVE  TypeOK' /\ Within
<1>1. PICK len \in 0..Words : src' = Input(src.buf, src.id, len)
  BY DEF Refill
<1>2. src' \in Source /\ src'.in = 0 /\ src'.len = len /\ SamePlace(src', src)
  BY <1>1, SrcTyped DEF Input, Source, SamePlace, IInv
<1>3. src.id \in Files \union {Console} /\ read[src.id] < Lines
  BY SrcTyped DEF Refill, HasNext, IInv
<1>4. read' \in [Files \union {Console} -> 0..Lines] /\ read'[src.id] \in 0..Lines
  BY <1>3 DEF Refill, IInv, TypeOK
<1>5. text' \in [Buffers \union {Tib, Text} -> 0..Lines]
  BY <1>4 DEF Refill, IInv, TypeOK
<1>6. torn' \in BOOLEAN /\ (torn => torn')
  BY DEF Refill, IInv, TypeOK, Waiting
<1>7. TypeOK'
  BY <1>2, <1>4, <1>5, <1>6 DEF Refill, IInv, TypeOK
<1> QED
  BY <1>2, <1>6, <1>7 DEF Within, Refill

LEMMA RefillThrowsSafe ==
  ASSUME IInv, RefillThrows
  PROVE  TypeOK' /\ Within
<1>1. read' \in [Files \union {Console} -> 0..Lines] /\ read'[src.id] \in 0..Lines
  BY DEF RefillThrows, IInv, TypeOK
<1>2. text' \in [Buffers \union {Tib, Text} -> 0..Lines]
  BY <1>1 DEF RefillThrows, IInv, TypeOK
<1>3. torn' \in BOOLEAN /\ (torn => torn')
  BY DEF RefillThrows, IInv, TypeOK, Waiting
<1> QED
  BY <1>1, <1>2, <1>3 DEF RefillThrows, IInv, TypeOK, Within, SamePlace

LEMMA AtLastSafe ==
  ASSUME IInv
  PROVE  /\ AtLast \in Source /\ SamePlace(AtLast, src) /\ AtLast.in <= AtLast.len
<1>1. CASE src.id = Text
  BY <1>1, SrcTyped DEF AtLast, Source, SamePlace, IInv
<1>2. CASE src.id # Text
  BY <1>2, SrcTyped DEF AtLast, Source, SamePlace, Input, IInv
<1> QED
  BY <1>1, <1>2

LEMMA ParsedSafe ==
  ASSUME IInv, ParsesWord
  PROVE  Parsed \in Source /\ SamePlace(Parsed, src) /\ Parsed.in <= Parsed.len
BY SrcTyped DEF Parsed, ParsesWord, AtEnd, Source, SamePlace, IInv

LEMMA WithinSafe ==
  ASSUME IInv, TypeOK', Within
  PROVE  IInv'
BY WithinOwned DEF IInv, Within

-----------------------------------------------------------------------------
InPlace(n, s) == \A u \in {s} \union {n[i].saved : i \in DOMAIN n} : u.in <= u.len

\* A source is opened.
LEMMA BeginSafe ==
  ASSUME IInv, NEW is \in {"interact", "evaluate", "include"},
         NEW input \in Source, input.in <= input.len, NEW then, Begin(is, input, then)
  PROVE  /\ nest' = Append(nest, Run(is, Parsed)) /\ Run(is, Parsed) \in Frame
         /\ Run(is, Parsed).is = is /\ Run(is, Parsed).saved = Parsed
         /\ SamePlace(Parsed, src)
         /\ nest' \in Seq(Frame) /\ Len(nest') \in 1..MaxNest /\ nest'[1].is = "interact"
         /\ src' = input /\ src' \in Source /\ InPlace(nest', src')
<1>1. /\ Parsed \in Source /\ SamePlace(Parsed, src) /\ Parsed.in <= Parsed.len
      /\ nest' = Append(nest, Run(is, Parsed)) /\ src' = input /\ Len(nest) < MaxNest
  BY ParsedSafe DEF Begin
<1>2. /\ nest \in Seq(Frame) /\ Len(nest) \in 1..MaxNest /\ nest[1].is = "interact"
      /\ \A i \in 1..Len(nest) : nest[i].saved.in <= nest[i].saved.len
  BY DEF IInv, TypeOK
<1> DEFINE f == Run(is, Parsed)
<1>3. f \in Frame /\ f.is = is /\ f.saved = Parsed
  BY <1>1 DEF Run, Frame
<1> HIDE DEF f
<1>4. /\ nest' \in Seq(Frame) /\ Len(nest') = Len(nest) + 1
      /\ \A i \in 1..Len(nest) : nest'[i] = nest[i]
      /\ nest'[Len(nest)+1] = f
  BY <1>1, <1>2, <1>3, AppendProperties DEF f
<1>5. InPlace(nest', src')
  <2>1. \A i \in 1..Len(nest') : nest'[i].saved.in <= nest'[i].saved.len
    BY <1>1, <1>2, <1>3, <1>4
  <2> QED
    BY <2>1, <1>1, <1>4 DEF InPlace
<1>6. Len(nest') \in 1..MaxNest /\ nest'[1].is = "interact"
  BY <1>1, <1>2, <1>4
<1> QED
  BY <1>1, <1>3, <1>4, <1>5, <1>6 DEF f

\* The innermost source is given back.
LEMMA BackSafe ==
  ASSUME IInv, Innermost.is # "interact" \/ Len(nest) # 1
  PROVE  /\ Len(nest) > 1 /\ nest \in Seq(Frame)
         /\ Outer \in Seq(Frame) /\ Len(Outer) = Len(nest) - 1
         /\ Len(Outer) \in 1..MaxNest /\ Outer[1].is = "interact"
         /\ Innermost.saved \in Source
         /\ \A s \in Source : s.in <= s.len => InPlace(Outer, s)
         /\ Innermost.saved.in <= Innermost.saved.len
<1>1. /\ nest \in Seq(Frame) /\ Len(nest) \in 1..MaxNest /\ nest[1].is = "interact"
      /\ \A i \in 1..Len(nest) : nest[i].saved.in <= nest[i].saved.len
  BY DEF IInv, TypeOK
<1>2. Len(nest) > 1
  <2>1. Len(nest) # 1
    <3>1. SUFFICES ASSUME Len(nest) = 1
                   PROVE  Innermost.is = "interact"
      OBVIOUS
    <3> QED
      BY <1>1, <3>1 DEF Innermost
  <2>2. Len(nest) \in Nat /\ Len(nest) >= 1
    BY <1>1
  <2>3. \A k \in Nat : k >= 1 /\ k # 1 => k > 1
    OBVIOUS
  <2> QED
    BY <2>1, <2>2, <2>3
<1>3. /\ Outer \in Seq(Frame) /\ Len(Outer) = Len(nest) - 1
      /\ \A i \in 1..Len(Outer) : Outer[i] = nest[i]
  BY <1>1, <1>2, AtOuter DEF Outer
<1>4. Innermost.saved \in Source /\ Innermost.saved.in <= Innermost.saved.len
  <2>1. nest[Len(nest)] \in Frame
    BY <1>1, <1>2
  <2> QED
    BY <1>1, <2>1 DEF Innermost, Frame
<1>5. ASSUME NEW s \in Source, s.in <= s.len
      PROVE  InPlace(Outer, s)
  BY <1>1, <1>3, <1>5 DEF InPlace
<1>6. Len(Outer) \in 1..MaxNest /\ Outer[1].is = "interact"
  BY <1>1, <1>2, <1>3
<1> QED
  BY <1>1, <1>2, <1>3, <1>4, <1>5, <1>6

-----------------------------------------------------------------------------
LEMMA NextLineStep == IInv /\ NextLine => IInv'
BY RefillSafe, RefillThrowsSafe, WithinSafe DEF NextLine

LEMMA WordRefillsStep == IInv /\ WordRefills => IInv'
<1> SUFFICES ASSUME IInv, WordRefills
             PROVE  IInv'
  OBVIOUS
<1>1. CASE Refill("interpret") \/ RefillThrows
  BY <1>1, RefillSafe, RefillThrowsSafe, WithinSafe
<1>2. CASE src' = AtLast /\ UNCHANGED <<text, read, nest, run, leave, open, heap, lost, torn>>
  <2>1. TypeOK' /\ Within
    BY <1>2, AtLastSafe DEF IInv, TypeOK, Within
  <2> QED
    BY <2>1, WithinSafe
<1> QED
  BY <1>1, <1>2 DEF WordRefills

LEMMA WordStep == IInv /\ (Word \/ Throw) => IInv'
<1> SUFFICES ASSUME IInv, Word \/ Throw
             PROVE  IInv'
  OBVIOUS
<1>1. Parsed \in Source /\ SamePlace(Parsed, src) /\ Parsed.in <= Parsed.len
  BY ParsedSafe DEF Word, Throw
<1>2. TypeOK' /\ Within
  BY <1>1 DEF Word, Throw, IInv, TypeOK, Within
<1> QED
  BY <1>2, WithinSafe

LEMMA LineDoneStep == IInv /\ LineDone => IInv'
<1> SUFFICES ASSUME IInv, LineDone
             PROVE  IInv'
  OBVIOUS
<1>1. TypeOK' /\ Within
  BY DEF LineDone, IInv, TypeOK, Within, SamePlace
<1> QED
  BY <1>1, WithinSafe

LEMMA EvaluateStep == IInv /\ Evaluate => IInv'
<1> SUFFICES ASSUME IInv, Evaluate
             PROVE  IInv'
  OBVIOUS
<1>1. PICK len \in 0..Words : Begin("evaluate", Input(Text, Text, len), "interpret")
  BY DEF Evaluate
<1> DEFINE t == Input(Text, Text, len)
           f == Run("evaluate", Parsed)
<1>2. t \in Source /\ t.in <= t.len /\ t.id = Text /\ t.buf = Text
  BY DEF Input, Source
<1> HIDE DEF t
<1>3. /\ nest' = Append(nest, f) /\ f \in Frame /\ f.is = "evaluate" /\ f.saved = Parsed
      /\ SamePlace(Parsed, src)
      /\ nest' \in Seq(Frame) /\ Len(nest') \in 1..MaxNest /\ nest'[1].is = "interact"
      /\ src' = t /\ src' \in Source /\ InPlace(nest', src')
  BY <1>1, <1>2, BeginSafe DEF t
<1>4. TypeOK'
  BY <1>1, <1>3 DEF Evaluate, Begin, IInv, TypeOK, InPlace
<1>5. ASSUME ~torn'
      PROVE  Owned(nest', src', open', heap', lost')
  <2>1. /\ Owned(nest, src, open, heap, lost) /\ nest \in Seq(Frame) /\ Len(nest) > 0
        /\ UNCHANGED <<open, heap, lost>>
    BY <1>5 DEF IInv, TypeOK, Evaluate
  <2>2. Fits(f.is, t)
    BY <1>2, <1>3 DEF Fits
  <2> HIDE DEF f
  <2>3. Owned(Append(nest, f), t, open, heap, lost)
    BY <1>3, <2>1, <2>2, OwnedBegin
  <2> QED
    BY <1>3, <2>1, <2>3
<1> QED
  BY <1>3, <1>4, <1>5 DEF IInv

LEMMA DebugStep == IInv /\ Debug => IInv'
<1> SUFFICES ASSUME IInv, Debug
             PROVE  IInv'
  OBVIOUS
<1> DEFINE f == Run("interact", Parsed)
<1>1. Begin("interact", Terminal, "refill")
  BY DEF Debug
<1>2. Terminal \in Source /\ Terminal.in <= Terminal.len /\ Fits("interact", Terminal)
  BY DEF Terminal, Input, Source, Fits
<1>3. /\ nest' = Append(nest, f) /\ f \in Frame /\ f.is = "interact" /\ f.saved = Parsed
      /\ SamePlace(Parsed, src)
      /\ nest' \in Seq(Frame) /\ Len(nest') \in 1..MaxNest /\ nest'[1].is = "interact"
      /\ src' = Terminal /\ src' \in Source /\ InPlace(nest', src')
  BY <1>1, <1>2, BeginSafe
<1>4. TypeOK'
  BY <1>1, <1>3 DEF Debug, Begin, IInv, TypeOK, InPlace
<1>5. ASSUME ~torn'
      PROVE  Owned(nest', src', open', heap', lost')
  <2>1. /\ Owned(nest, src, open, heap, lost) /\ nest \in Seq(Frame) /\ Len(nest) > 0
        /\ UNCHANGED <<open, heap, lost>>
    BY <1>5 DEF IInv, TypeOK, Debug
  <2> HIDE DEF f
  <2>2. Owned(Append(nest, f), Terminal, open, heap, lost)
    BY <1>2, <1>3, <2>1, OwnedBegin
  <2> QED
    BY <1>3, <2>1, <2>2
<1> QED
  BY <1>3, <1>4, <1>5 DEF IInv

LEMMA IncludeStep == ASSUME NEW g \in Files, NEW b \in Buffers
                     PROVE  IInv /\ Include(g, b) => IInv'
<1> SUFFICES ASSUME IInv, Include(g, b)
             PROVE  IInv'
  OBVIOUS
<1> DEFINE t == Input(b, g, 0)
           f == Run("include", Parsed)
<1>1. Begin("include", t, "refill") /\ g \notin open /\ b \notin heap
  BY DEF Include
<1>2. t \in Source /\ t.in <= t.len /\ t.id = g /\ t.buf = b
  BY DEF Input, Source
<1> HIDE DEF t
<1>3. /\ nest' = Append(nest, f) /\ f \in Frame /\ f.is = "include" /\ f.saved = Parsed
      /\ SamePlace(Parsed, src)
      /\ nest' \in Seq(Frame) /\ Len(nest') \in 1..MaxNest /\ nest'[1].is = "interact"
      /\ src' = t /\ src' \in Source /\ InPlace(nest', src')
  BY <1>1, <1>2, BeginSafe
<1>4. TypeOK'
  <2>1. read' \in [Files \union {Console} -> 0..Lines]
    BY DEF Include, IInv, TypeOK
  <2>2. run' = "refill" /\ UNCHANGED <<text, leave, lost, torn>>
        /\ open' = open \union {g} /\ heap' = heap \union {b}
    BY <1>1 DEF Include, Begin
  <2> QED
    BY <1>3, <2>1, <2>2 DEF IInv, TypeOK, InPlace
<1>5. ASSUME ~torn'
      PROVE  Owned(nest', src', open', heap', lost')
  <2>1. /\ Owned(nest, src, open, heap, lost) /\ nest \in Seq(Frame) /\ Len(nest) > 0
        /\ open' = open \union {t.id} /\ heap' = heap \union {t.buf} /\ UNCHANGED lost
    BY <1>2, <1>5 DEF IInv, TypeOK, Include
  <2>2. Fits(f.is, t)
    BY <1>2, <1>3 DEF Fits
  <2>3. t.id \notin open /\ t.buf \notin heap
    BY <1>1, <1>2
  <2> HIDE DEF f
  <2>4. Owned(Append(nest, f), t, open \union {t.id}, heap \union {t.buf}, lost)
    BY <1>3, <2>1, <2>2, <2>3, OwnedInclude
  <2> QED
    BY <1>3, <2>1, <2>4
<1> QED
  BY <1>3, <1>4, <1>5 DEF IInv

LEMMA IncludeFailsStep == ASSUME NEW g \in Files
                          PROVE  IInv /\ IncludeFails(g) => IInv'
<1> SUFFICES ASSUME IInv, IncludeFails(g)
             PROVE  IInv'
  OBVIOUS
<1>1. Parsed \in Source /\ SamePlace(Parsed, src) /\ Parsed.in <= Parsed.len
  BY ParsedSafe DEF IncludeFails
<1>2. TypeOK'
  BY <1>1 DEF IncludeFails, IInv, TypeOK
<1>3. ASSUME ~torn'
      PROVE  Owned(nest', src', open', heap', lost')
  <2>1. Owned(nest, Parsed, open, heap, lost)
    BY <1>1, <1>3, OwnedMoves DEF IncludeFails, IInv, TypeOK
  <2>2. /\ nest' = nest /\ src' = Parsed /\ heap' = heap
        /\ open' = open \union {g} /\ lost' = lost \union {g}
    BY DEF IncludeFails
  <2> QED
    BY <2>1, <2>2 DEF Owned
<1> QED
  BY <1>2, <1>3 DEF IInv, IncludeFails

LEMMA QuitStep == IInv /\ Quit => IInv'
<1> SUFFICES ASSUME IInv, Quit
             PROVE  IInv'
  OBVIOUS
<1>1. Terminal \in Source /\ Terminal.id = Console /\ Terminal.buf = Tib
      /\ Terminal.in = 0 /\ Terminal.len = 0
  BY DEF Terminal, Input, Source
<1>2. /\ nest' \in Seq(Frame) /\ Len(nest') = 1 /\ nest'[1].is = "interact"
      /\ nest'[1].saved = Terminal /\ src' = Terminal
  BY <1>1 DEF Quit, Run, Frame
<1>3. TypeOK'
  <2>1. \A s \in {src'} \union {nest'[i].saved : i \in DOMAIN nest'} : s.in <= s.len
    BY <1>1, <1>2
  <2>2. Len(nest') \in 1..MaxNest
    BY <1>2
  <2>3. /\ run' = "refill" /\ lost' = open \union heap
        /\ UNCHANGED <<text, read, leave, open, heap, torn>>
    BY DEF Quit
  <2> QED
    BY <1>1, <1>2, <2>1, <2>2, <2>3 DEF IInv, TypeOK
<1>4. At(nest', src', 1) = Terminal /\ Includes(nest') = {}
  BY <1>2 DEF At, Includes
<1>5. Owned(nest', src', open', heap', lost')
  BY <1>1, <1>2, <1>4 DEF Owned, Fits, Quit
<1> QED
  BY <1>2, <1>3, <1>5 DEF IInv

LEMMA EndEvaluateStep == IInv /\ EndEvaluate => IInv'
<1> SUFFICES ASSUME IInv, EndEvaluate
             PROVE  IInv'
  OBVIOUS
<1>1. Innermost.is = "evaluate" /\ nest' = Outer /\ src' = Innermost.saved
      /\ run' \in {"raised", "interpret"}
      /\ UNCHANGED <<text, read, leave, open, heap, lost, torn>>
  BY DEF EndEvaluate, GiveBack
<1>2. /\ Len(nest) > 1 /\ nest \in Seq(Frame)
      /\ nest' \in Seq(Frame) /\ Len(nest') \in 1..MaxNest /\ nest'[1].is = "interact"
      /\ src' \in Source /\ InPlace(nest', src')
  BY <1>1, BackSafe
<1>3. TypeOK'
  BY <1>1, <1>2 DEF IInv, TypeOK, InPlace
<1>4. ASSUME ~torn'
      PROVE  Owned(nest', src', open', heap', lost')
  <2>1. Owned(nest, src, open, heap, lost) /\ nest[Len(nest)].is # "include"
    BY <1>1, <1>4 DEF IInv, Innermost
  <2>2. Owned(SubSeq(nest, 1, Len(nest) - 1), nest[Len(nest)].saved, open, heap, lost)
    BY <1>2, <2>1, OwnedBack
  <2> QED
    BY <1>1, <2>2 DEF Outer, Innermost
<1> QED
  BY <1>2, <1>3, <1>4 DEF IInv

LEMMA EndIncludeStep == IInv /\ EndInclude => IInv'
<1> SUFFICES ASSUME IInv, EndInclude
             PROVE  IInv'
  OBVIOUS
<1>1. Innermost.is = "include" /\ nest' = Outer /\ src' = Innermost.saved
      /\ run' \in {"raised", "interpret"}
      /\ open' = open \ {src.id} /\ heap' = heap \ {src.buf}
      /\ UNCHANGED <<text, read, leave, lost, torn>>
  BY DEF EndInclude, GiveBack
<1>2. /\ Len(nest) > 1 /\ nest \in Seq(Frame)
      /\ nest' \in Seq(Frame) /\ Len(nest') \in 1..MaxNest /\ nest'[1].is = "interact"
      /\ src' \in Source /\ InPlace(nest', src')
  BY <1>1, BackSafe
<1>3. TypeOK'
  BY <1>1, <1>2 DEF IInv, TypeOK, InPlace
<1>4. ASSUME ~torn'
      PROVE  Owned(nest', src', open', heap', lost')
  <2>1. Owned(nest, src, open, heap, lost) /\ nest[Len(nest)].is = "include"
    BY <1>1, <1>4 DEF IInv, Innermost
  <2>2. Owned(SubSeq(nest, 1, Len(nest) - 1), nest[Len(nest)].saved,
              open \ {src.id}, heap \ {src.buf}, lost)
    BY <1>2, <2>1, OwnedEnds
  <2> QED
    BY <1>1, <2>2 DEF Outer, Innermost
<1> QED
  BY <1>2, <1>3, <1>4 DEF IInv
\* An interact within a word goes back to the source it was in only if that is the terminal.
LEMMA EndInteractStep == IInv /\ EndInteract => IInv'
<1> SUFFICES ASSUME IInv, EndInteract
             PROVE  IInv'
  OBVIOUS
<1>1. src' \in Source /\ SamePlace(src', src) /\ src'.in <= src'.len
  <2>1. src' = AtLast \/ src' = src
    BY DEF EndInteract
  <2>2. src \in Source /\ SamePlace(src, src) /\ src.in <= src.len
    BY DEF IInv, TypeOK, SamePlace
  <2> QED
    BY <2>1, <2>2, AtLastSafe
<1>2. /\ Innermost.is = "interact" /\ leave' = FALSE
      /\ UNCHANGED <<text, read, open, heap, lost>>
  BY DEF EndInteract
<1>3. CASE Len(nest) = 1
  <2>1. run' = "ended" /\ UNCHANGED <<nest, torn>>
    BY <1>3 DEF EndInteract
  <2>2. TypeOK' /\ Within
    BY <1>1, <1>2, <2>1 DEF IInv, TypeOK, Within
  <2> QED
    BY <2>2, WithinSafe
<1>4. CASE Len(nest) # 1
  <2>1. /\ nest' = Outer /\ run' = "interpret" /\ torn' \in BOOLEAN /\ (torn => torn')
        /\ ~torn' => src.id = Innermost.saved.id
    BY <1>4 DEF EndInteract, IInv, TypeOK
  <2>2. /\ Len(nest) > 1 /\ nest \in Seq(Frame)
        /\ nest' \in Seq(Frame) /\ Len(nest') \in 1..MaxNest /\ nest'[1].is = "interact"
        /\ InPlace(nest', src')
    BY <1>1, <1>4, <2>1, BackSafe
  <2>3. TypeOK'
    BY <1>1, <1>2, <2>1, <2>2 DEF IInv, TypeOK, InPlace
  <2>4. ASSUME ~torn'
        PROVE  Owned(nest', src', open', heap', lost')
    <3> DEFINE last == Len(nest)
               s == nest[last].saved
    <3>1. Owned(nest, src, open, heap, lost) /\ nest[last].is = "interact"
      BY <1>2, <2>1, <2>4 DEF IInv, Innermost
    <3>2. /\ last \in 1..Len(nest) /\ last - 1 \in 1..Len(nest)
          /\ At(nest, src, last) = src /\ At(nest, src, last - 1) = s
      BY <2>2 DEF At
    <3>3. src.id = Console /\ src.buf = Tib
      BY <3>1, <3>2 DEF Owned, Fits
    <3>4. s.id = Console
      BY <2>1, <2>4, <3>3 DEF Innermost
    <3>5. nest[last-1].is \in {"interact", "evaluate", "include"}
      BY <2>2, <3>2, FrameKind
    <3>6. Fits(nest[last-1].is, s)
      BY <3>1, <3>2 DEF Owned
    <3>7. s.buf = Tib
      BY <3>4, <3>5, <3>6 DEF Fits
    <3>8. SamePlace(src', s)
      BY <1>1, <3>3, <3>4, <3>7 DEF SamePlace
    <3>9. Owned(SubSeq(nest, 1, Len(nest) - 1), s, open, heap, lost)
      BY <2>2, <3>1, OwnedBack
    <3>10. nest' = SubSeq(nest, 1, Len(nest) - 1)
      BY <2>1 DEF Outer
    <3> QED
      BY <1>2, <2>2, <3>8, <3>9, <3>10, OwnedMoves
  <2> QED
    BY <2>2, <2>3, <2>4 DEF IInv
<1> QED
  BY <1>3, <1>4

LEMMA NextStep == IInv /\ [Next]_vars => IInv'
<1> SUFFICES ASSUME IInv, [Next]_vars
             PROVE  IInv'
  OBVIOUS
<1>1. CASE \E f \in Files, b \in Buffers : Include(f, b)
  BY <1>1, IncludeStep
<1>2. CASE \E f \in Files : IncludeFails(f)
  BY <1>2, IncludeFailsStep
<1>3. CASE UNCHANGED vars
  <2>1. TypeOK' /\ Within
    BY <1>3 DEF vars, IInv, TypeOK, Within, SamePlace
  <2> QED
    BY <2>1, WithinSafe
<1> QED
  BY <1>1, <1>2, <1>3, NextLineStep, WordRefillsStep, WordStep, EvaluateStep, DebugStep,
     QuitStep, LineDoneStep, EndEvaluateStep, EndIncludeStep, EndInteractStep DEF Next

\* The invariant behind the next two theorems, for any nesting and whatever errors come
\* between (evaluate, include-file, interact).
THEOREM Invariance == Spec => []IInv
BY InitIInv, NextStep, PTL DEF Spec

\* Every variable keeps to its domain; the place in a line never passes its end.
THEOREM TypeCorrect == Spec => []TypeOK
<1>1. IInv => TypeOK
  BY DEF IInv
<1> QED
  BY <1>1, Invariance, PTL

\* No source is given back whose file has been closed or whose buffer has been freed, and
\* no file or buffer is left that nobody gives back, but for those that are lost (include-file).
THEOREM SourcesOwnedAlways == Spec => []SourcesOwned
<1>1. ASSUME IInv, ~torn
      PROVE  SourcesOwned
  <2>1. Owned(nest, src, open, heap, lost) /\ nest \in Seq(Frame) /\ Len(nest) > 0
        /\ \A i \in 1..Len(nest) : nest[i].is \in {"interact", "evaluate", "include"}
    <3>1. Owned(nest, src, open, heap, lost) /\ nest \in Seq(Frame) /\ Len(nest) > 0
      BY <1>1 DEF IInv, TypeOK
    <3> QED
      BY <3>1, FrameKind
  <2>2. \A s \in InUse : \E i \in 1..Len(nest) : s = At(nest, src, i)
    <3>1. src = At(nest, src, Len(nest)) /\ Len(nest) \in 1..Len(nest)
      BY <2>1 DEF At
    <3>2. ASSUME NEW i \in 2..Len(nest)
          PROVE  nest[i].saved = At(nest, src, i - 1) /\ i - 1 \in 1..Len(nest)
      BY <2>1, <3>2 DEF At
    <3> QED
      BY <3>1, <3>2 DEF InUse, Saved
  <2>3. \A i \in 1..Len(nest) : At(nest, src, i) \in InUse
    <3>1. ASSUME NEW i \in 1..Len(nest), i < Len(nest)
          PROVE  At(nest, src, i) \in InUse
      <4>1. i + 1 \in 2..Len(nest) /\ At(nest, src, i) = nest[i+1].saved
        BY <3>1, <2>1 DEF At
      <4> QED
        BY <4>1 DEF InUse, Saved
    <3>2. ASSUME NEW i \in 1..Len(nest), ~(i < Len(nest))
          PROVE  At(nest, src, i) \in InUse
      BY <3>2 DEF InUse, At
    <3> QED
      BY <3>1, <3>2
  <2>4. ASSUME NEW i \in 1..Len(nest)
        PROVE  /\ At(nest, src, i).id \in open \union {Console, Text}
               /\ At(nest, src, i).buf \in heap \union {Tib, Text}
    <3>1. Fits(nest[i].is, At(nest, src, i))
      BY <2>1 DEF Owned
    <3>2. i \in Includes(nest) => /\ At(nest, src, i).id \in open
                                  /\ At(nest, src, i).buf \in heap
      BY <2>1 DEF Owned
    <3> QED
      BY <2>1, <3>1, <3>2 DEF Fits, Includes
  <2>5. Includes(nest) \subseteq 1..Len(nest)
    BY DEF Includes
  <2>6. \A f \in open \ lost : \E s \in InUse : s.id = f
    BY <2>1, <2>3, <2>5 DEF Owned
  <2>7. \A b \in heap \ lost : \E s \in InUse : s.buf = b
    BY <2>1, <2>3, <2>5 DEF Owned
  <2>8. \A s \in InUse : /\ s.id \in open \union {Console, Text}
                          /\ s.buf \in heap \union {Tib, Text}
    BY <2>2, <2>4
  <2> QED
    BY <2>6, <2>7, <2>8 DEF SourcesOwned
<1>2. IInv => SourcesOwned
  BY <1>1 DEF SourcesOwned
<1> QED
  BY <1>2, Invariance, PTL
-----------------------------------------------------------------------------
\* A string that evaluate reads is not refilled, and its text stays what it was.
TextInPlace == text[Text] = 0

FInv == IInv /\ TextInPlace

\* Two stacks of which one differs from the other at the top only, or has one level more,
\* or one less.
LEMMA NewTop ==
  ASSUME NEW S, NEW l \in Seq(S), NEW m \in Seq(S), Len(l) > 0, Len(m) = Len(l),
         \A i \in 1..Len(l)-1 : m[i] = l[i]
  PROVE  m = Append(SubSeq(l, 1, Len(l) - 1), m[Len(m)])
<1> DEFINE o == SubSeq(l, 1, Len(l) - 1)
<1>1. o \in Seq(S) /\ Len(o) = Len(l) - 1 /\ \A i \in 1..Len(l)-1 : o[i] = l[i]
  BY SubSeqProperties
<1>2. m[Len(m)] \in S
  BY ElementOfSeq
<1> DEFINE a == Append(o, m[Len(m)])
<1> HIDE DEF o
<1>3. /\ a \in Seq(S) /\ Len(a) = Len(o) + 1
      /\ \A i \in 1..Len(o) : a[i] = o[i]
      /\ a[Len(o) + 1] = m[Len(m)]
  BY <1>1, <1>2, AppendProperties
<1> HIDE DEF a
<1>4. Len(a) = Len(m) /\ \A i \in 1..Len(m) : m[i] = a[i]
  BY <1>1, <1>3
<1>5. m = a
  BY <1>3, <1>4, SeqEqual
<1> QED
  BY <1>5 DEF a, o

LEMMA OneMore ==
  ASSUME NEW S, NEW l \in Seq(S), NEW m \in Seq(S), Len(l) > 0, Len(m) = Len(l) + 1,
         \A i \in 1..Len(l)-1 : m[i] = l[i]
  PROVE  m = Append(Append(SubSeq(l, 1, Len(l) - 1), m[Len(l)]), m[Len(m)])
<1> DEFINE k == SubSeq(m, 1, Len(m) - 1)
<1>1. k \in Seq(S) /\ Len(k) = Len(l) /\ \A i \in 1..Len(l) : k[i] = m[i]
  BY SubSeqProperties
<1> HIDE DEF k
<1>2. \A i \in 1..Len(l)-1 : k[i] = l[i]
  BY <1>1
<1>3. k = Append(SubSeq(l, 1, Len(l) - 1), k[Len(k)])
  BY <1>1, <1>2, NewTop
<1>4. k[Len(k)] = m[Len(l)]
  BY <1>1
<1>5. m = Append(SubSeq(m, 1, Len(m) - 1), m[Len(m)])
  BY NewTop
<1> QED
  BY <1>3, <1>4, <1>5 DEF k

LEMMA OneLess ==
  ASSUME NEW S, NEW l \in Seq(S), NEW m \in Seq(S), Len(l) > 1, Len(m) = Len(l) - 1,
         \A i \in 1..Len(m) : m[i] = l[i]
  PROVE  m = SubSeq(l, 1, Len(l) - 1)
<1> DEFINE o == SubSeq(l, 1, Len(l) - 1)
<1>1. o \in Seq(S) /\ Len(o) = Len(m) /\ \A i \in 1..Len(m) : o[i] = l[i]
  BY SubSeqProperties
<1> HIDE DEF o
<1>2. m = o
  BY <1>1, SeqEqual
<1> QED
  BY <1>2 DEF o

LEMMA OneLessEmptied ==
  ASSUME NEW S, NEW l \in Seq(S), NEW m \in Seq(S), Len(l) > 1, Len(m) = Len(l) - 1,
         \A i \in 1..Len(m)-1 : m[i] = l[i],
         m[Len(m)] = [l[Len(m)] EXCEPT !.words = {}]
  PROVE  LET o == SubSeq(l, 1, Len(l) - 1)
         IN  m = [o EXCEPT ![Len(o)].words = {}]
<1> DEFINE o == SubSeq(l, 1, Len(l) - 1)
<1>1. o \in Seq(S) /\ Len(o) = Len(m) /\ \A i \in 1..Len(m) : o[i] = l[i]
  BY SubSeqProperties
<1> HIDE DEF o
<1>2. o = [i \in 1..Len(o) |-> o[i]] /\ m = [i \in 1..Len(m) |-> m[i]]
  BY <1>1
<1> DEFINE e == [o EXCEPT ![Len(o)].words = {}]
<1>3. e = [i \in 1..Len(o) |-> IF i = Len(o) THEN [o[i] EXCEPT !.words = {}] ELSE o[i]]
  BY <1>2
<1>4. ASSUME NEW i \in 1..Len(m)
      PROVE  m[i] = IF i = Len(o) THEN [o[i] EXCEPT !.words = {}] ELSE o[i]
  <2>1. o[i] = l[i] /\ Len(m) = Len(o)
    BY <1>1
  <2>2. CASE i = Len(m)
    BY <2>1, <2>2
  <2>3. CASE i # Len(m)
    <3>1. i \in 1..Len(m)-1
      BY <2>3
    <3> QED
      BY <2>1, <2>3, <3>1
  <2> QED
    BY <2>2, <2>3
<1>5. m = e
  BY <1>1, <1>2, <1>3, <1>4
<1> QED
  BY <1>5 DEF o
-----------------------------------------------------------------------------
\* The words left on the line that s is at, and the levels, of any frames, source and text.
Left(t, s) == {<<t[s.buf], k>> : k \in s.in+1..s.len}
LevelOf(s, t, r) == [id |-> s.id, words |-> IF r = "interpret" THEN Left(t, s) ELSE {}]
Stack(n, s, t, r) ==
  [i \in 1..Len(n) |-> LevelOf(At(n, s, i), t, IF i < Len(n) THEN "interpret" ELSE r)]

LevelSet == [id : Files \union {Console, Text}, words : SUBSET (Int \X Int)]
Texts == [Buffers \union {Tib, Text} -> 0..Lines]

LEMMA LevelTyped ==
  ASSUME NEW s \in Source, NEW t \in Texts, NEW r
  PROVE  LevelOf(s, t, r) \in LevelSet
<1>1. s.in \in Int /\ s.len \in Int /\ t[s.buf] \in Int /\ s.id \in Files \union {Console, Text}
  BY DEF Source, Texts
<1>2. Left(t, s) \in SUBSET (Int \X Int)
  BY <1>1 DEF Left
<1> QED
  BY <1>1, <1>2 DEF LevelOf, LevelSet

LEMMA StackFacts ==
  ASSUME NEW n \in Seq(Frame), NEW s \in Source, NEW t \in Texts, NEW r, Len(n) > 0
  PROVE  LET l == Stack(n, s, t, r)
         IN  /\ l \in Seq(LevelSet) /\ Len(l) = Len(n)
             /\ \A i \in 1..Len(n)-1 : l[i] = LevelOf(At(n, s, i), t, "interpret")
             /\ l[Len(n)] = LevelOf(s, t, r)
<1> DEFINE l == Stack(n, s, t, r)
<1>1. \A i \in 1..Len(n) : At(n, s, i) \in Source
  <2>1. \A i \in 1..Len(n) : n[i] \in Frame
    OBVIOUS
  <2>2. \A i \in 1..Len(n) : n[i].saved \in Source
    BY <2>1 DEF Frame
  <2> QED
    BY <2>2 DEF At
<1>2. l \in [1..Len(n) -> LevelSet]
  BY <1>1, LevelTyped DEF Stack
<1>3. Len(n) \in Nat
  OBVIOUS
<1>4. \A i \in 1..Len(n)-1 : l[i] = LevelOf(At(n, s, i), t, "interpret")
  BY DEF Stack
<1>5. l[Len(n)] = LevelOf(s, t, r)
  BY DEF Stack, At
<1> HIDE DEF l
<1>6. l \in Seq(LevelSet) /\ Len(l) = Len(n)
  BY <1>2, <1>3
<1> QED
  BY <1>4, <1>5, <1>6 DEF l

\* Levels is the stack of this state, and of the next one.
LEMMA LevelsNow == ASSUME TypeOK PROVE Levels = Stack(nest, src, text, run)
<1>1. ASSUME NEW i \in 1..Len(nest)
      PROVE  Levels[i] = Stack(nest, src, text, run)[i]
  BY DEF Levels, Stack, LevelOf, At, Rest, Left
<1>2. /\ Levels = [i \in 1..Len(nest) |-> Levels[i]]
      /\ Stack(nest, src, text, run) = [i \in 1..Len(nest) |-> Stack(nest, src, text, run)[i]]
  BY DEF Levels, Stack
<1> QED
  BY <1>1, <1>2

LEMMA LevelsThen == ASSUME TypeOK' PROVE Levels' = Stack(nest', src', text', run')
<1>1. ASSUME NEW i \in 1..Len(nest')
      PROVE  Levels'[i] = Stack(nest', src', text', run')[i]
  BY DEF Levels, Stack, LevelOf, At, Rest, Left
<1>2. /\ Levels' = [i \in 1..Len(nest') |-> Levels'[i]]
      /\ Stack(nest', src', text', run')
           = [i \in 1..Len(nest') |-> Stack(nest', src', text', run')[i]]
  BY DEF Levels, Stack
<1> QED
  BY <1>1, <1>2

\* The levels of the two states of a step.
LEMMA BothLevels ==
  ASSUME IInv, IInv'
  PROVE  /\ Levels \in Seq(LevelSet) /\ Len(Levels) = Len(nest)
         /\ \A i \in 1..Len(nest)-1 : Levels[i] = LevelOf(At(nest, src, i), text, "interpret")
         /\ Levels[Len(nest)] = LevelOf(src, text, run)
         /\ Levels' \in Seq(LevelSet) /\ Len(Levels') = Len(nest')
         /\ \A i \in 1..Len(nest')-1 :
              Levels'[i] = LevelOf(At(nest', src', i), text', "interpret")
         /\ Levels'[Len(nest')] = LevelOf(src', text', run')
         /\ nest \in Seq(Frame) /\ Len(nest) \in 1..MaxNest
         /\ nest' \in Seq(Frame) /\ Len(nest') \in 1..MaxNest
<1>1. /\ nest \in Seq(Frame) /\ Len(nest) \in 1..MaxNest /\ src \in Source /\ text \in Texts
      /\ nest' \in Seq(Frame) /\ Len(nest') \in 1..MaxNest /\ src' \in Source /\ text' \in Texts
  BY DEF IInv, TypeOK, Texts
<1>2. Levels = Stack(nest, src, text, run) /\ Levels' = Stack(nest', src', text', run')
  BY LevelsNow, LevelsThen DEF IInv
<1> DEFINE L == Levels
           M == Levels'
<1>3. /\ Len(nest) > 0 /\ Len(nest') > 0
  BY <1>1
<1>4. /\ Levels \in Seq(LevelSet) /\ Len(Levels) = Len(nest)
      /\ \A i \in 1..Len(nest)-1 : Levels[i] = LevelOf(At(nest, src, i), text, "interpret")
      /\ Levels[Len(nest)] = LevelOf(src, text, run)
  BY <1>1, <1>2, <1>3, StackFacts
<1>5. /\ Levels' \in Seq(LevelSet) /\ Len(Levels') = Len(nest')
      /\ \A i \in 1..Len(nest')-1 :
           Levels'[i] = LevelOf(At(nest', src', i), text', "interpret")
      /\ Levels'[Len(nest')] = LevelOf(src', text', run')
  BY <1>1, <1>2, <1>3, StackFacts
<1> QED
  BY <1>1, <1>4, <1>5
-----------------------------------------------------------------------------
\* The first of the words left, and the others.
LEMMA FirstWord ==
  ASSUME NEW s, NEW u, NEW t, s.in \in Nat, s.len \in Nat, s.in < s.len,
         u.buf = s.buf, u.len = s.len, u.in = s.in + 1
  PROVE  LET w == CHOOSE x \in Left(t, s) : \A v \in Left(t, s) : x[2] <= v[2]
         IN  Left(t, s) # {} /\ Left(t, u) = Left(t, s) \ {w}
<1> DEFINE b == t[s.buf]
           L == Left(t, s)
           w == CHOOSE x \in L : \A v \in L : x[2] <= v[2]
           first == <<b, s.in + 1>>
<1>1. L = {<<b, k>> : k \in s.in+1..s.len} /\ Left(t, u) = {<<b, k>> : k \in s.in+2..s.len}
  BY DEF Left
<1> HIDE DEF b, L
<1>2. first \in L /\ first[2] = s.in + 1
  BY <1>1
<1>3. \A v \in L : \E k \in s.in+1..s.len : v = <<b, k>> /\ v[2] = k
  BY <1>1
<1>4. \A v \in L : first[2] <= v[2]
  BY <1>2, <1>3
<1>5. w \in L /\ \A v \in L : w[2] <= v[2]
  BY <1>2, <1>4
<1> HIDE DEF w
<1>6. w[2] = s.in + 1
  BY <1>2, <1>3, <1>4, <1>5
<1>7. w = first
  BY <1>3, <1>5, <1>6
<1>8. Left(t, u) = L \ {w}
  <2>1. ASSUME NEW x PROVE x \in Left(t, u) <=> x \in L /\ x # w
    <3>1. ASSUME x \in Left(t, u) PROVE x \in L /\ x # w
      <4>1. PICK k \in s.in+2..s.len : x = <<b, k>>
        BY <1>1, <3>1
      <4>2. k \in s.in+1..s.len /\ k # s.in + 1
        BY <4>1
      <4> QED
        BY <1>1, <1>7, <4>1, <4>2
    <3>2. ASSUME x \in L, x # w PROVE x \in Left(t, u)
      <4>1. PICK k \in s.in+1..s.len : x = <<b, k>>
        BY <1>3, <3>2
      <4>2. k # s.in + 1
        BY <1>7, <3>2, <4>1
      <4>3. k \in s.in+2..s.len
        BY <4>1, <4>2
      <4> QED
        BY <1>1, <4>1, <4>3
    <3> QED
      BY <3>1, <3>2
  <2> QED
    BY <2>1
<1> QED
  BY <1>2, <1>8 DEF L, w

\* A step within the innermost source that leaves the words of the others alone changes
\* the top of the stack at most.
TextKept == \A i \in 1..Len(nest)-1 : Left(text', At(nest, src, i)) = Left(text, At(nest, src, i))

LEMMA WithinLevels ==
  ASSUME IInv, IInv', nest' = nest, SamePlace(src', src), TextKept
  PROVE  /\ Len(Levels) > 0
         /\ Levels[Len(Levels)] = LevelOf(src, text, run)
         /\ Levels' = Append(SubSeq(Levels, 1, Len(Levels) - 1), LevelOf(src', text', run'))
         /\ LevelOf(src', text', run').words = LevelOf(src, text, run).words => Levels' = Levels
<1>1. /\ Levels \in Seq(LevelSet) /\ Len(Levels) = Len(nest)
      /\ \A i \in 1..Len(nest)-1 : Levels[i] = LevelOf(At(nest, src, i), text, "interpret")
      /\ Levels[Len(nest)] = LevelOf(src, text, run)
      /\ Levels' \in Seq(LevelSet) /\ Len(Levels') = Len(nest)
      /\ \A i \in 1..Len(nest)-1 : Levels'[i] = LevelOf(At(nest, src', i), text', "interpret")
      /\ Levels'[Len(nest)] = LevelOf(src', text', run')
      /\ Len(nest) \in Nat /\ Len(nest) > 0
  BY BothLevels
<1>2. \A i \in 1..Len(nest)-1 : At(nest, src', i) = At(nest, src, i)
  BY DEF At
<1>3. \A i \in 1..Len(nest)-1 : Levels'[i] = Levels[i]
  BY <1>1, <1>2 DEF LevelOf, TextKept
<1>4. Levels' = Append(SubSeq(Levels, 1, Len(Levels) - 1), LevelOf(src', text', run'))
  BY <1>1, <1>3, NewTop
<1>5. ASSUME LevelOf(src', text', run').words = LevelOf(src, text, run).words
      PROVE  Levels' = Levels
  <2>1. LevelOf(src', text', run') = LevelOf(src, text, run)
    BY <1>5 DEF LevelOf, SamePlace
  <2>2. \A i \in 1..Len(nest) : Levels'[i] = Levels[i]
    BY <1>1, <1>3, <2>1
  <2> QED
    BY <1>1, <2>2, SeqEqual
<1> QED
  BY <1>1, <1>4, <1>5

\* A refill overwrites words of no other source, or it tears one.
LEMMA NotTorn ==
  ASSUME IInv, NEW v, text' = [text EXCEPT ![src.buf] = v], ~Waiting(src.buf)
  PROVE  TextKept
<1> SUFFICES ASSUME NEW i \in 1..Len(nest)-1
             PROVE  Left(text', At(nest, src, i)) = Left(text, At(nest, src, i))
  BY DEF TextKept
<1>1. nest \in Seq(Frame) /\ Len(nest) \in Nat
  BY DEF IInv, TypeOK
<1>2. i + 1 \in 2..Len(nest) /\ i + 1 \in 1..Len(nest) /\ At(nest, src, i) = nest[i+1].saved
  BY <1>1 DEF At
<1>3. nest[i+1] \in Frame
  BY <1>1, <1>2
<1> DEFINE s == nest[i+1].saved
<1>4. s \in Source
  BY <1>3 DEF Frame
<1> HIDE DEF s
<1>5. CASE s.buf = src.buf
  <2>1. s.in = s.len /\ s.in \in Int
    BY <1>2, <1>4, <1>5 DEF Waiting, AtEnd, Source, s
  <2>2. s.in+1..s.len = {}
    BY <2>1
  <2> QED
    BY <1>2, <2>2 DEF Left, s
<1>6. CASE s.buf # src.buf
  <2>1. text'[s.buf] = text[s.buf]
    BY <1>4, <1>6 DEF IInv, TypeOK, Source
  <2> QED
    BY <1>2, <2>1 DEF Left, s
<1> QED
  BY <1>5, <1>6

\* Steps that read nothing keep all texts.
LEMMA TextUnchanged == ASSUME text' = text PROVE TextKept
BY DEF TextKept

\* The words that are left of an empty line, or of one that has been read.
LEMMA NoWords == ASSUME NEW s \in Source, NEW t, AtEnd(s) PROVE Left(t, s) = {}
<1>1. s.in = s.len /\ s.in \in Int
  BY DEF AtEnd, Source
<1>2. s.in+1..s.len = {}
  BY <1>1
<1> QED
  BY <1>2 DEF Left

LEMMA WholeLine ==
  ASSUME NEW b, NEW f, NEW len \in Nat, NEW t
  PROVE  Left(t, Input(b, f, len)) = Sources!Line(t[b], len)
BY DEF Left, Input, Sources!Line

USE DEF Sources!Top, Sources!Outside, Sources!Level
-----------------------------------------------------------------------------
LEMMA RefillFills ==
  ASSUME IInv, IInv', Refill("interpret"), ~torn, ~torn', run # "raised",
         run # "interpret" \/ AtEnd(src)
  PROVE  Sources!Fill
<1>1. PICK len \in 0..Words : src' = Input(src.buf, src.id, len)
  BY DEF Refill
<1>2. /\ nest' = nest /\ run' = "interpret" /\ src.id # Text
      /\ read' = [read EXCEPT ![src.id] = @ + 1]
      /\ text' = [text EXCEPT ![src.buf] = read'[src.id]] /\ ~Waiting(src.buf) /\ torn' = torn
  BY DEF Refill, HasNext, IInv, TypeOK
<1>3. SamePlace(src', src) /\ src'.id = src.id
  BY <1>1 DEF SamePlace, Input
<1>4. TextKept
  BY <1>2, NotTorn
<1>5. text'[src.buf] = read'[src.id]
  BY <1>2, SrcTyped DEF IInv, TypeOK
<1>6. LevelOf(src', text', run') = Sources!Level(src.id, Sources!Line(read'[src.id], len))
  <2>1. Left(text', Input(src.buf, src.id, len)) = Sources!Line(text'[src.buf], len)
    BY WholeLine
  <2>2. Left(text', src') = Sources!Line(read'[src.id], len)
    BY <1>1, <1>5, <2>1
  <2> QED
    BY <1>2, <1>3, <2>2 DEF LevelOf
<1>7. /\ Levels[Len(Levels)].id = src.id /\ Levels[Len(Levels)].words = {}
      /\ Levels' = Append(SubSeq(Levels, 1, Len(Levels) - 1), LevelOf(src', text', run'))
  <2>1. LevelOf(src, text, run).id = src.id /\ LevelOf(src, text, run).words = {}
    BY NoWords DEF LevelOf, IInv, TypeOK
  <2> QED
    BY <1>2, <1>3, <1>4, <2>1, WithinLevels
<1> QED
  BY <1>1, <1>2, <1>6, <1>7 DEF Sources!Fill

LEMMA RefillRaises ==
  ASSUME IInv, IInv', RefillThrows, ~torn, ~torn', run # "raised"
  PROVE  Sources!Raise
<1>1. /\ nest' = nest /\ src' = src /\ run' = "raised" /\ src.id \in Files
      /\ read' = [read EXCEPT ![src.id] = IF @ < Lines THEN @ + 1 ELSE @]
      /\ text' = [text EXCEPT ![src.buf] = read'[src.id]] /\ ~Waiting(src.buf) /\ torn' = torn
  BY DEF RefillThrows, IInv, TypeOK
<1>2. TextKept /\ SamePlace(src', src)
  BY <1>1, NotTorn DEF SamePlace
<1>3. LevelOf(src', text', run') = Sources!Level(src.id, {})
  BY <1>1 DEF LevelOf
<1>4. /\ Levels[Len(Levels)].id = src.id
      /\ Levels' = Append(SubSeq(Levels, 1, Len(Levels) - 1), LevelOf(src', text', run'))
  BY <1>1, <1>2, WithinLevels DEF LevelOf
<1>5. read' = read \/ read' = [read EXCEPT ![src.id] = @ + 1]
  <2>1. read = [read EXCEPT ![src.id] = read[src.id]]
    BY DEF IInv, TypeOK
  <2> QED
    BY <1>1, <2>1
<1> QED
  BY <1>1, <1>3, <1>4, <1>5 DEF Sources!Raise

\* The other steps within a source: the rest of the line is given up, or a word is taken.
LEMMA GivesUp ==
  ASSUME IInv, IInv', nest' = nest, text' = text, read' = read, torn' = torn,
         SamePlace(src', src), run # "raised", run' = "raised"
  PROVE  Sources!Raise
<1>1. LevelOf(src', text', run') = Sources!Level(src.id, {})
  BY DEF LevelOf, SamePlace
<1>2. /\ Levels[Len(Levels)].id = src.id
      /\ Levels' = Append(SubSeq(Levels, 1, Len(Levels) - 1), LevelOf(src', text', run'))
  BY WithinLevels, TextUnchanged DEF LevelOf
<1> QED
  BY <1>1, <1>2 DEF Sources!Raise

LEMMA WordRefillsStutters ==
  ASSUME IInv, IInv', WordRefills, src' = AtLast,
         UNCHANGED <<text, read, nest, run, leave, open, heap, lost, torn>>
  PROVE  UNCHANGED Sources!vars
<1>1. SamePlace(src', src) /\ AtEnd(src') /\ AtEnd(src)
  <2>1. SamePlace(AtLast, src)
    BY AtLastSafe
  <2>2. AtEnd(AtLast)
    BY SrcTyped DEF AtLast, AtEnd, Input, IInv
  <2> QED
    BY <2>1, <2>2 DEF AtEnd, WordRefills
<1>2. LevelOf(src', text', run').words = {} /\ LevelOf(src, text, run).words = {}
  <2>1. src \in Source /\ src' \in Source
    BY DEF IInv, TypeOK
  <2> QED
    BY <1>1, <2>1, NoWords DEF LevelOf
<1>3. Levels' = Levels
  BY <1>1, <1>2, WithinLevels, TextUnchanged
<1> QED
  BY <1>3 DEF Sources!vars

\* Parsing takes the first of the words left.
LEMMA ParsedWord ==
  ASSUME IInv, ParsesWord
  PROVE  LET l == LevelOf(src, text, run)
             w == CHOOSE x \in l.words : \A v \in l.words : x[2] <= v[2]
         IN  /\ l.words # {}
             /\ LevelOf(Parsed, text, "interpret") = Sources!Level(l.id, l.words \ {w})
<1>1. /\ src.in \in Nat /\ src.len \in Nat /\ src.in < src.len /\ run = "interpret"
      /\ Parsed.buf = src.buf /\ Parsed.len = src.len /\ Parsed.in = src.in + 1
      /\ Parsed.id = src.id
  BY SrcTyped DEF ParsesWord, AtEnd, Parsed, IInv
<1>2. LET w == CHOOSE x \in Left(text, src) : \A v \in Left(text, src) : x[2] <= v[2]
      IN  Left(text, src) # {} /\ Left(text, Parsed) = Left(text, src) \ {w}
  BY <1>1, FirstWord
<1>3. LevelOf(src, text, run) = [id |-> src.id, words |-> Left(text, src)]
  BY <1>1 DEF LevelOf
<1>4. LevelOf(Parsed, text, "interpret") = [id |-> src.id, words |-> Left(text, Parsed)]
  BY <1>1 DEF LevelOf
<1> QED
  BY <1>2, <1>3, <1>4

LEMMA WordTakes == ASSUME IInv, IInv', Word PROVE Sources!Take
<1>1. /\ src' = Parsed /\ ParsesWord /\ nest' = nest /\ text' = text /\ run' = "interpret"
      /\ read' = read /\ torn' = torn
  BY DEF Word, ParsesWord
<1>2. SamePlace(src', src)
  BY <1>1, ParsedSafe
<1>3. /\ Levels[Len(Levels)] = LevelOf(src, text, run)
      /\ Levels' = Append(SubSeq(Levels, 1, Len(Levels) - 1), LevelOf(Parsed, text, "interpret"))
  BY <1>1, <1>2, WithinLevels, TextUnchanged
<1>4. Sources!Next1 = LevelOf(Parsed, text, "interpret") /\ Sources!Top.words # {}
  BY <1>1, <1>3, ParsedWord DEF Sources!Next1
<1> QED
  BY <1>1, <1>3, <1>4 DEF Sources!Take, ParsesWord

LEMMA ThrowGivesUp == ASSUME IInv, IInv', Throw \/ \E f \in Files : IncludeFails(f)
                      PROVE  Sources!Raise
<1>1. /\ src' = Parsed /\ ParsesWord /\ nest' = nest /\ text' = text /\ run' = "raised"
      /\ read' = read /\ torn' = torn /\ run # "raised"
  BY DEF Throw, IncludeFails, ParsesWord
<1> QED
  BY <1>1, ParsedSafe, GivesUp
-----------------------------------------------------------------------------
LEMMA AtPushed ==
  ASSUME NEW n \in Seq(Frame), NEW f, NEW t, NEW m, Len(m) = Len(n) + 1,
         \A i \in 1..Len(n) : m[i] = n[i], m[Len(n)+1] = f
  PROVE  \A i \in 1..Len(n) : At(m, t, i) = At(n, f.saved, i)
<1>1. Len(n) \in Nat
  OBVIOUS
<1>2. ASSUME NEW i \in 1..Len(n), i < Len(n)
      PROVE  At(m, t, i) = At(n, f.saved, i)
  <2>1. i + 1 \in 1..Len(n) /\ i < Len(m)
    BY <1>1, <1>2
  <2>2. m[i+1] = n[i+1]
    BY <1>1, <2>1
  <2> QED
    BY <1>2, <2>1, <2>2 DEF At
<1>3. ASSUME NEW i \in 1..Len(n), ~(i < Len(n))
      PROVE  At(m, t, i) = At(n, f.saved, i)
  <2>1. i = Len(n) /\ i < Len(m)
    BY <1>1, <1>3
  <2> QED
    BY <1>1, <2>1 DEF At
<1> QED
  BY <1>1, <1>2, <1>3

\* evaluate, include-file and the debugger's interact put a level on the stack.
LEMMA BeginOpens ==
  ASSUME IInv, IInv', NEW is \in {"interact", "evaluate", "include"},
         NEW input \in Source, input.in <= input.len, NEW then, Begin(is, input, then),
         text' = text
  PROVE  /\ Sources!Top.words # {}
         /\ Levels' = Append(Append(Sources!Outside, Sources!Next1), LevelOf(input, text, then))
<1>1. /\ nest' = Append(nest, Run(is, Parsed)) /\ Run(is, Parsed) \in Frame
      /\ Run(is, Parsed).saved = Parsed /\ src' = input /\ SamePlace(Parsed, src)
  BY BeginSafe
<1>2. run' = then /\ ParsesWord
  BY DEF Begin
<1>3. /\ Levels \in Seq(LevelSet) /\ Len(Levels) = Len(nest)
      /\ \A i \in 1..Len(nest)-1 : Levels[i] = LevelOf(At(nest, src, i), text, "interpret")
      /\ Levels[Len(nest)] = LevelOf(src, text, run)
      /\ Levels' \in Seq(LevelSet) /\ Len(Levels') = Len(nest')
      /\ \A i \in 1..Len(nest')-1 :
           Levels'[i] = LevelOf(At(nest', src', i), text, "interpret")
      /\ Levels'[Len(nest')] = LevelOf(input, text, then)
      /\ nest \in Seq(Frame) /\ Len(nest) \in Nat /\ Len(nest) > 0
  BY <1>1, <1>2, BothLevels
<1> DEFINE f == Run(is, Parsed)
<1>4. nest' = Append(nest, f) /\ f \in Frame /\ Parsed = f.saved
  BY <1>1
<1>5. \A i \in 1..Len(nest)-1 : At(nest, Parsed, i) = At(nest, src, i)
  BY DEF At
<1>6. At(nest, Parsed, Len(nest)) = Parsed
  BY <1>3 DEF At
<1> HIDE DEF f
<1>7. Len(nest') = Len(nest) + 1 /\ \A i \in 1..Len(nest) : At(nest', src', i) = At(nest, Parsed, i)
  <2>1. f \in Frame /\ Parsed = f.saved /\ nest \in Seq(Frame) /\ Len(nest) > 0
        /\ nest' = Append(nest, f)
    BY <1>3, <1>4
  <2>2. /\ Len(nest') = Len(nest) + 1 /\ \A i \in 1..Len(nest) : nest'[i] = nest[i]
        /\ nest'[Len(nest)+1] = f
    BY <2>1, AppendProperties
  <2>3. \A i \in 1..Len(nest) : At(nest', src', i) = At(nest, f.saved, i)
    <3>0. PICK m, g, u : m = nest' /\ g = f /\ u = src'
      OBVIOUS
    <3>1. PICK n \in Seq(Frame) : n = nest /\ m = nest' /\ g = f /\ u = src'
      BY <2>1, <3>0
    <3>2. Len(m) = Len(n) + 1
      BY <2>2, <3>1
    <3>3. \A i \in 1..Len(n) : m[i] = n[i]
      BY <2>2, <3>1
    <3>4. m[Len(n)+1] = g
      BY <2>2, <3>1
    <3>5. \A i \in 1..Len(n) : At(m, u, i) = At(n, g.saved, i)
      BY <3>2, <3>3, <3>4, AtPushed
    <3> QED
      BY <3>1, <3>5
  <2> QED
    BY <2>1, <2>2, <2>3
<1>8. \A i \in 1..Len(Levels)-1 : Levels'[i] = Levels[i]
  BY <1>3, <1>5, <1>7
<1>9. Levels'[Len(Levels)] = LevelOf(Parsed, text, "interpret")
  BY <1>3, <1>6, <1>7
<1>10. Levels' = Append(Append(SubSeq(Levels, 1, Len(Levels) - 1), Levels'[Len(Levels)]),
                        Levels'[Len(Levels')])
  BY <1>3, <1>7, <1>8, OneMore
<1>11. /\ Levels[Len(Levels)].words # {}
       /\ Sources!Next1 = LevelOf(Parsed, text, "interpret")
  BY <1>2, <1>3, ParsedWord DEF Sources!Next1
<1> QED
  BY <1>3, <1>9, <1>10, <1>11

LEMMA EvaluateOpens == ASSUME FInv, IInv', Evaluate PROVE Sources!Open
<1>1. PICK len \in 0..Words : Begin("evaluate", Input(Text, Text, len), "interpret")
  BY DEF Evaluate
<1> DEFINE t == Input(Text, Text, len)
<1>2. /\ t \in Source /\ t.in <= t.len /\ t.id = Text /\ text' = text /\ read' = read
      /\ torn' = torn
  BY DEF Input, Source, Evaluate
<1>6. run = "interpret" /\ run' = "interpret"
  BY <1>1 DEF Begin, ParsesWord
<1>3. Left(text, t) = Sources!Line(0, len)
  BY WholeLine DEF FInv, TextInPlace
<1> HIDE DEF t
<1>4. /\ Sources!Top.words # {}
      /\ Levels' = Append(Append(Sources!Outside, Sources!Next1), LevelOf(t, text, "interpret"))
  BY <1>1, <1>2, BeginOpens DEF FInv, t
<1>5. LevelOf(t, text, "interpret") = Sources!Level(Text, Sources!Line(0, len))
  BY <1>2, <1>3 DEF LevelOf
<1> HIDE DEF Sources!Top, Sources!Outside, Sources!Level
<1> QED
  BY <1>2, <1>4, <1>5, <1>6 DEF Sources!Open

LEMMA IncludeOpens ==
  ASSUME IInv, IInv', NEW f \in Files, NEW b \in Buffers, Include(f, b)
  PROVE  Sources!Open
<1> DEFINE t == Input(b, f, 0)
<1>1. /\ Begin("include", t, "refill") /\ text' = text /\ torn' = torn
      /\ read' = [read EXCEPT ![f] = 0]
  BY DEF Include
<1>2. t \in Source /\ t.in <= t.len /\ t.id = f
  BY DEF Input, Source
<1> HIDE DEF t
<1>3. /\ Sources!Top.words # {}
      /\ Levels' = Append(Append(Sources!Outside, Sources!Next1), LevelOf(t, text, "refill"))
  BY <1>1, <1>2, BeginOpens
<1>4. LevelOf(t, text, "refill") = Sources!Level(f, {})
  BY <1>2 DEF LevelOf
<1>5. f \in DOMAIN read /\ f # Console /\ run = "interpret" /\ run' = "refill"
  BY <1>1 DEF IInv, TypeOK, Begin, ParsesWord
<1> HIDE DEF Sources!Top, Sources!Outside, Sources!Level
<1> QED
  BY <1>1, <1>3, <1>4, <1>5 DEF Sources!Open

LEMMA DebugOpens == ASSUME IInv, IInv', Debug PROVE Sources!Open
<1>1. Begin("interact", Terminal, "refill") /\ text' = text /\ torn' = torn /\ read' = read
  BY DEF Debug
<1>2. Terminal \in Source /\ Terminal.in <= Terminal.len /\ Terminal.id = Console
  BY DEF Terminal, Input, Source
<1>3. /\ Sources!Top.words # {}
      /\ Levels' = Append(Append(Sources!Outside, Sources!Next1), LevelOf(Terminal, text, "refill"))
  BY <1>1, <1>2, BeginOpens
<1>4. LevelOf(Terminal, text, "refill") = Sources!Level(Console, {})
  BY <1>2 DEF LevelOf
<1>5. Console \in DOMAIN read /\ run = "interpret" /\ run' = "refill"
  BY <1>1 DEF IInv, TypeOK, Begin, ParsesWord
<1> HIDE DEF Sources!Top, Sources!Outside, Sources!Level
<1> QED
  BY <1>1, <1>3, <1>4, <1>5 DEF Sources!Open

LEMMA QuitRestarts == ASSUME IInv, IInv', Quit PROVE Sources!Restart
<1>1. nest' = <<Run("interact", Terminal)>> /\ src' = Terminal /\ run' = "refill"
      /\ read' = read /\ torn' = torn /\ run = "interpret"
  BY DEF Quit, ParsesWord
<1>2. Len(nest') = 1
  BY <1>1
<1>3. /\ Levels' \in Seq(LevelSet) /\ Len(Levels') = 1
      /\ Levels'[1] = LevelOf(Terminal, text', "refill")
  BY <1>1, <1>2, BothLevels
<1>4. LevelOf(Terminal, text', "refill") = Sources!Level(Console, {})
  BY DEF LevelOf, Terminal, Input
<1>5. Levels' = <<Sources!Level(Console, {})>>
  BY <1>3, <1>4
<1> QED
  BY <1>1, <1>5 DEF Sources!Restart

\* What the innermost level is at.
LEMMA InnermostFits == ASSUME IInv, ~torn PROVE Fits(Innermost.is, src)
<1>1. nest \in Seq(Frame) /\ Len(nest) \in 1..Len(nest) /\ At(nest, src, Len(nest)) = src
  BY DEF IInv, TypeOK, At
<1> QED
  BY <1>1 DEF IInv, Owned, Innermost

\* A line that is done is none of the stack's business, but where an error is caught.
LEMMA LineDoneCatches ==
  ASSUME IInv, IInv', LineDone, ~torn
  PROVE  Sources!Catch \/ UNCHANGED Sources!vars
<1>1. /\ src' = src /\ nest' = nest /\ text' = text /\ read' = read /\ torn' = torn
      /\ run' # "interpret" /\ run' # "raised" /\ (run # "interpret" \/ AtEnd(src))
      /\ run = "raised" => Innermost.is = "interact"
  BY DEF LineDone
<1>2. LevelOf(src', text', run').words = {} /\ LevelOf(src, text, run).words = {}
  <2>1. src \in Source
    BY DEF IInv, TypeOK
  <2> QED
    BY <1>1, <2>1, NoWords DEF LevelOf
<1>3. Levels' = Levels /\ Levels[Len(Levels)].id = src.id
  BY <1>1, <1>2, WithinLevels, TextUnchanged DEF SamePlace, LevelOf
<1>4. run = "raised" => src.id = Console
  BY <1>1, InnermostFits DEF Fits
<1> QED
  BY <1>1, <1>3, <1>4 DEF Sources!vars, Sources!Catch

\* Where one level is left, the ones below it are as they were.
LEMMA OneLeft ==
  ASSUME IInv, IInv', Len(nest) > 1, nest' = Outer, text' = text
  PROVE  /\ Levels \in Seq(LevelSet) /\ Levels' \in Seq(LevelSet)
         /\ Len(Levels) > 1 /\ Len(Levels') = Len(Levels) - 1
         /\ \A i \in 1..Len(Levels')-1 : Levels'[i] = Levels[i]
         /\ Levels[Len(Levels')] = LevelOf(Innermost.saved, text, "interpret")
         /\ Levels'[Len(Levels')] = LevelOf(src', text, run')
         /\ Levels[Len(Levels)] = LevelOf(src, text, run)
<1>1. /\ Levels \in Seq(LevelSet) /\ Len(Levels) = Len(nest)
      /\ \A i \in 1..Len(nest)-1 : Levels[i] = LevelOf(At(nest, src, i), text, "interpret")
      /\ Levels' \in Seq(LevelSet) /\ Len(Levels') = Len(nest')
      /\ \A i \in 1..Len(nest')-1 :
           Levels'[i] = LevelOf(At(nest', src', i), text, "interpret")
      /\ Levels'[Len(nest')] = LevelOf(src', text, run')
      /\ Levels[Len(nest)] = LevelOf(src, text, run)
      /\ nest \in Seq(Frame) /\ Len(nest) \in Nat
  BY BothLevels
<1> DEFINE m == SubSeq(nest, 1, Len(nest) - 1)
<1>2. /\ nest' = m /\ Len(m) = Len(nest) - 1
      /\ \A i \in 1..Len(m) : At(m, nest[Len(nest)].saved, i) = At(nest, src, i)
  BY <1>1, AtOuter DEF Outer
<1> HIDE DEF m
<1>3. \A i \in 1..Len(m)-1 : At(m, src', i) = At(nest, src, i)
  BY <1>2 DEF At
<1>4. \A i \in 1..Len(Levels')-1 : Levels'[i] = Levels[i]
  BY <1>1, <1>2, <1>3
<1>5. At(nest, src, Len(nest) - 1) = Innermost.saved
  BY <1>1 DEF At, Innermost
<1>6. Levels[Len(nest) - 1] = LevelOf(Innermost.saved, text, "interpret")
  BY <1>1, <1>5
<1> QED
  BY <1>1, <1>2, <1>4, <1>6

LEMMA BackCloses ==
  ASSUME IInv, IInv', ~torn, EndEvaluate \/ EndInclude
  PROVE  Sources!Close \/ Sources!Pass
<1>1. /\ Innermost.is # "interact" /\ nest' = Outer /\ src' = Innermost.saved
      /\ text' = text /\ read' = read /\ torn' = torn
      /\ run' = IF run = "raised" THEN "raised" ELSE "interpret"
      /\ run # "raised" => run # "interpret" \/ AtEnd(src)
  BY DEF EndEvaluate, EndInclude, GiveBack, NoMore
<1>2. Len(nest) > 1
  BY <1>1, BackSafe
<1>3. /\ Levels \in Seq(LevelSet) /\ Levels' \in Seq(LevelSet)
      /\ Len(Levels) > 1 /\ Len(Levels') = Len(Levels) - 1
      /\ \A i \in 1..Len(Levels')-1 : Levels'[i] = Levels[i]
      /\ Levels[Len(Levels')] = LevelOf(Innermost.saved, text, "interpret")
      /\ Levels'[Len(Levels')] = LevelOf(Innermost.saved, text, run')
      /\ Levels[Len(Levels)] = LevelOf(src, text, run)
  BY <1>1, <1>2, OneLeft
<1>4. CASE run # "raised"
  <2>1. \A i \in 1..Len(Levels') : Levels'[i] = Levels[i]
    BY <1>1, <1>3, <1>4
  <2>2. Levels' = Sources!Outside
    BY <1>3, <2>1, OneLess
  <2>3. LevelOf(src, text, run).words = {}
    BY <1>1, <1>4, NoWords DEF LevelOf, IInv, TypeOK
  <2> QED
    BY <1>1, <1>3, <1>4, <2>2, <2>3 DEF Sources!Close
<1>5. CASE run = "raised"
  <2> DEFINE l == LevelOf(Innermost.saved, text, "interpret")
             k == Len(Levels')
  <2>1. LevelOf(Innermost.saved, text, "raised") = [l EXCEPT !.words = {}]
    BY DEF LevelOf
  <2> HIDE DEF l
  <2>2. Levels[k] = l /\ Levels'[k] = [l EXCEPT !.words = {}]
    BY <1>1, <1>3, <1>5, <2>1 DEF l
  <2>3. Levels'[k] = [Levels[k] EXCEPT !.words = {}]
    BY <2>2
  <2>4. Levels' = [Sources!Outside EXCEPT ![Len(Sources!Outside)].words = {}]
    BY <1>3, <2>3, OneLessEmptied
  <2>5. src.id # Console
    <3>1. nest \in Seq(Frame) /\ Len(nest) \in 1..Len(nest)
      BY DEF IInv, TypeOK
    <3>2. Innermost.is \in {"evaluate", "include"}
      BY <1>1, <3>1, FrameKind DEF Innermost
    <3> QED
      BY <3>2, InnermostFits DEF Fits
  <2>6. Levels[Len(Levels)].id = src.id
    BY <1>3 DEF LevelOf
  <2> QED
    BY <1>1, <1>3, <1>5, <2>4, <2>5, <2>6 DEF Sources!Pass
<1> QED
  BY <1>4, <1>5

LEMMA InteractCloses ==
  ASSUME IInv, IInv', EndInteract, ~torn, ~torn'
  PROVE  Sources!Close \/ UNCHANGED Sources!vars
<1>1. /\ text' = text /\ read' = read /\ (src' = AtLast \/ src' = src)
      /\ run # "interpret" /\ run # "raised" /\ run' # "raised"
  BY DEF EndInteract, NoMore
<1>2. SamePlace(src', src)
  BY <1>1, AtLastSafe DEF SamePlace
<1>3. CASE Len(nest) = 1
  <2>1. nest' = nest /\ torn' = torn /\ run' = "ended"
    BY <1>3 DEF EndInteract
  <2>2. LevelOf(src', text', run').words = {} /\ LevelOf(src, text, run).words = {}
    BY <1>1, <2>1 DEF LevelOf
  <2>3. Levels' = Levels
    BY <1>1, <1>2, <2>1, <2>2, WithinLevels, TextUnchanged
  <2> QED
    BY <1>1, <2>1, <2>3 DEF Sources!vars
<1>4. CASE Len(nest) # 1
  <2>1. /\ nest' = Outer /\ run' = "interpret"
        /\ src.id = Innermost.saved.id /\ AtEnd(Innermost.saved) /\ AtEnd(src') /\ torn' = torn
    BY <1>4 DEF EndInteract, IInv, TypeOK
  <2>2. Len(nest) > 1 /\ Innermost.saved \in Source /\ src' \in Source
    BY <1>4, BackSafe DEF IInv, TypeOK
  <2>3. /\ Levels \in Seq(LevelSet) /\ Levels' \in Seq(LevelSet)
        /\ Len(Levels) > 1 /\ Len(Levels') = Len(Levels) - 1
        /\ \A i \in 1..Len(Levels')-1 : Levels'[i] = Levels[i]
        /\ Levels[Len(Levels')] = LevelOf(Innermost.saved, text, "interpret")
        /\ Levels'[Len(Levels')] = LevelOf(src', text, run')
        /\ Levels[Len(Levels)].words = {}
    BY <1>1, <2>1, <2>2, OneLeft DEF LevelOf
  <2>4. Left(text, Innermost.saved) = {} /\ Left(text, src') = {}
    BY <2>1, <2>2, NoWords
  <2>5. LevelOf(src', text, run') = LevelOf(Innermost.saved, text, "interpret")
    BY <1>2, <2>1, <2>4 DEF LevelOf, SamePlace
  <2>6. \A i \in 1..Len(Levels') : Levels'[i] = Levels[i]
    BY <2>3, <2>5
  <2>7. Levels' = Sources!Outside
    BY <2>3, <2>6, OneLess
  <2> QED
    BY <1>1, <2>1, <2>3, <2>7 DEF Sources!Close
<1> QED
  BY <1>3, <1>4
-----------------------------------------------------------------------------
LEMMA InitFInv == Init => FInv /\ Sources!Init
<1> SUFFICES ASSUME Init
             PROVE  FInv /\ Sources!Init
  OBVIOUS
<1>1. IInv /\ TextInPlace
  BY InitIInv DEF Init, TextInPlace
<1>2. nest = <<Run("interact", Terminal)>> /\ Len(nest) = 1 /\ src = Terminal /\ run = "refill"
      /\ text \in Texts /\ nest \in Seq(Frame) /\ src \in Source
  BY <1>1 DEF Init, IInv, TypeOK, Texts
<1>3. Levels = Stack(nest, src, text, run)
  BY <1>1, LevelsNow DEF IInv
<1>4. Levels \in Seq(LevelSet) /\ Len(Levels) = Len(nest)
      /\ Levels[Len(nest)] = LevelOf(src, text, run)
  <2>1. nest \in Seq(Frame) /\ src \in Source /\ text \in Texts /\ Len(nest) > 0
    BY <1>2
  <2> QED
    BY <1>3, <2>1, StackFacts
<1>5. LevelOf(Terminal, text, "refill") = Sources!Level(Console, {})
  BY DEF LevelOf, Terminal, Input
<1>6. Levels = <<Sources!Level(Console, {})>>
  BY <1>2, <1>4, <1>5
<1> QED
  BY <1>1, <1>6 DEF Sources!Init, FInv, Init

\* Only the buffers of files and of the terminal are read into.
LEMMA NextFInv == FInv /\ [Next]_vars => FInv'
<1> SUFFICES ASSUME FInv, [Next]_vars
             PROVE  TextInPlace'
  BY NextStep DEF FInv
<1>1. CASE text' = text
  BY <1>1 DEF FInv, TextInPlace
<1>2. CASE text' # text
  <2>1. ~torn /\ (NextLine \/ WordRefills)
    BY <1>2 DEF Next, Word, Throw, Evaluate, Debug, Quit, Include, IncludeFails, LineDone,
                EndEvaluate, EndInclude, EndInteract, vars
  <2>2. src.id # Text /\ \E v : text' = [text EXCEPT ![src.buf] = v]
    BY <1>2, <2>1 DEF NextLine, WordRefills, Refill, RefillThrows, HasNext
  <2>3. /\ nest \in Seq(Frame) /\ Len(nest) \in 1..Len(nest) /\ At(nest, src, Len(nest)) = src
    BY DEF FInv, IInv, TypeOK, At
  <2>4. /\ Fits(nest[Len(nest)].is, src)
        /\ nest[Len(nest)].is \in {"interact", "evaluate", "include"}
    BY <2>1, <2>3, FrameKind DEF FInv, IInv, Owned
  <2>5. src.buf # Text
    BY <2>2, <2>4 DEF Fits
  <2> QED
    BY <2>2, <2>5 DEF FInv, IInv, TypeOK, TextInPlace
<1> QED
  BY <1>1, <1>2

LEMMA StepImplements ==
  ASSUME FInv, IInv', [Next]_vars
  PROVE  [Sources!Next]_(Sources!vars)
<1> HIDE DEF Sources!Top, Sources!Outside, Sources!Level
<1>1. IInv
  BY DEF FInv
<1>2. CASE UNCHANGED vars
  BY <1>2 DEF vars, Sources!vars, Levels, Rest
<1>3. CASE Next /\ torn'
  BY <1>3 DEF IInv, TypeOK, Sources!Next, Sources!Damage
<1>4. CASE Next /\ ~torn'
  <2>1. ~torn
    BY <1>4 DEF Next
  <2>2. CASE NextLine
    BY <1>1, <1>4, <2>1, <2>2, RefillFills, RefillRaises DEF NextLine, Sources!Next
  <2>3. CASE WordRefills
    <3>1. CASE Refill("interpret") \/ RefillThrows
      BY <1>1, <1>4, <2>1, <2>3, <3>1, RefillFills, RefillRaises DEF WordRefills, Sources!Next
    <3>2. CASE /\ src' = AtLast
               /\ UNCHANGED <<text, read, nest, run, leave, open, heap, lost, torn>>
      BY <1>1, <2>3, <3>2, WordRefillsStutters
    <3> QED
      BY <2>3, <3>1, <3>2 DEF WordRefills
  <2>4. CASE Word
    BY <1>1, <2>4, WordTakes DEF Sources!Next
  <2>5. CASE Throw \/ \E f \in Files : IncludeFails(f)
    BY <1>1, <2>5, ThrowGivesUp DEF Sources!Next
  <2>6. CASE Evaluate
    BY <2>6, EvaluateOpens DEF Sources!Next
  <2>7. CASE \E f \in Files, b \in Buffers : Include(f, b)
    BY <1>1, <2>7, IncludeOpens DEF Sources!Next
  <2>8. CASE Debug
    BY <1>1, <2>8, DebugOpens DEF Sources!Next
  <2>9. CASE Quit
    BY <1>1, <2>9, QuitRestarts DEF Sources!Next
  <2>10. CASE LineDone
    BY <1>1, <2>1, <2>10, LineDoneCatches DEF Sources!Next
  <2>11. CASE EndEvaluate \/ EndInclude
    BY <1>1, <2>1, <2>11, BackCloses DEF Sources!Next
  <2>12. CASE EndInteract
    BY <1>1, <1>4, <2>1, <2>12, InteractCloses DEF Sources!Next
  <2> QED
    BY <1>4, <2>2, <2>3, <2>4, <2>5, <2>6, <2>7, <2>8, <2>9, <2>10, <2>11, <2>12 DEF Next
<1> QED
  BY <1>2, <1>3, <1>4

\* For any nesting of sources and errors at any word: every word is taken once and in its
\* place, a source ends when its words are used up, and an error gives up the rest of the
\* sources it passes through, of no other, and goes no further than the innermost interact,
\* until a source is torn (interp.fth).
THEOREM Refinement == Spec => ImplementsInputStack
<1>1. Init => FInv
  BY InitFInv
<1>2. Init => Sources!Init
  BY InitFInv
<1>3. FInv => IInv
  BY DEF FInv
<1>4. FInv /\ IInv' /\ [Next]_vars => [Sources!Next]_(Sources!vars)
  BY StepImplements
<1> QED
  BY <1>1, <1>2, <1>3, <1>4, NextFInv, Invariance, PTL DEF Spec, ImplementsInputStack, Sources!Spec

HIDE InputAssumption

-----------------------------------------------------------------------------
(***************************************************************************)
(* Numbers and loops.                                                      *)
(***************************************************************************)

\* A set of numbers that is not empty has a least one.
LEMMA NatLeast ==
  ASSUME NEW T \in SUBSET Nat, T # {}
  PROVE  \E x \in T : \A y \in T : x <= y
<1>1. PICK x \in T : \A y \in T : ~(<<y, x>> \in OpToRel(<, Nat))
  BY WFMin, NatLessThanWellFounded
<1>2. \A y \in T : ~(y < x)
  BY <1>1 DEF OpToRel
<1> QED
  BY <1>2

\* Induction, over a set: what a least number outside it would be contradicts.
LEMMA Induct ==
  ASSUME NEW S, 0 \in S, \A n \in Nat : n \in S => n + 1 \in S
  PROVE  \A n \in Nat : n \in S
<1> SUFFICES ASSUME Nat \ S # {}
             PROVE  FALSE
  OBVIOUS
<1>1. PICK x \in Nat \ S : \A y \in Nat \ S : x <= y
  <2> DEFINE T == Nat \ S
  <2>1. T \in SUBSET Nat /\ T # {}
    OBVIOUS
  <2> HIDE DEF T
  <2>2. \E x \in T : \A y \in T : x <= y
    BY <2>1, NatLeast
  <2> QED
    BY <2>2 DEF T
<1>2. x # 0 /\ x - 1 \in Nat
  BY <1>1
<1>3. x - 1 \in S
  BY <1>1, <1>2
<1> QED
  BY <1>1, <1>2, <1>3

\* A loop with a body F in G.
Loop(t, n, G, e, F) ==
  t[0] = e /\ \A i \in 1..n : t[i-1] \in G => t[i] = F[<<t[i-1], i>>]

\* There is a function that has each turn of it.
LEMMA LoopRuns ==
  ASSUME NEW n \in Nat, NEW G, NEW e \in G, NEW F \in [G \X (1..n) -> G]
  PROVE  \E t \in [0..n -> G] : Loop(t, n, G, e, F)
<1> DEFINE Upto(m) == \E t \in [0..m -> G] : /\ t[0] = e
                                             /\ \A i \in 1..m : t[i] = F[<<t[i-1], i>>]
           S == {m \in Nat : m <= n => Upto(m)}
<1>1. 0 \in S
  <2> DEFINE t == [i \in 0..0 |-> e]
  <2>1. t \in [0..0 -> G] /\ t[0] = e /\ \A i \in 1..0 : t[i] = F[<<t[i-1], i>>]
    OBVIOUS
  <2>2. Upto(0)
    BY <2>1
  <2> QED
    BY <2>2
<1>2. ASSUME NEW m \in Nat, m \in S, m + 1 <= n
      PROVE  Upto(m + 1)
  <2>1. PICK t \in [0..m -> G] : t[0] = e /\ \A i \in 1..m : t[i] = F[<<t[i-1], i>>]
    BY <1>2
  <2> DEFINE u == [i \in 0..m+1 |-> IF i = m + 1 THEN F[<<t[m], m + 1>>] ELSE t[i]]
  <2>2. t[m] \in G /\ m + 1 \in 1..n
    BY <1>2, <2>1
  <2>3. F[<<t[m], m + 1>>] \in G
    BY <2>2
  <2>4. u \in [0..m+1 -> G]
    BY <2>1, <2>3
  <2>5. u[0] = e
    BY <2>1
  <2>6. ASSUME NEW i \in 1..m+1
        PROVE  u[i] = F[<<u[i-1], i>>]
    <3>1. CASE i = m + 1
      <4>1. i - 1 = m /\ m # m + 1 /\ m \in 0..m+1
        BY <3>1
      <4>2. u[m] = t[m] /\ u[m + 1] = F[<<t[m], m + 1>>]
        BY <4>1
      <4> HIDE DEF u
      <4> QED
        BY <3>1, <4>1, <4>2
    <3>2. CASE i # m + 1
      <4>1. i \in 1..m /\ i - 1 \in 0..m /\ i - 1 # m + 1
        BY <3>2
      <4> QED
        BY <4>1, <2>1
    <3> QED
      BY <3>1, <3>2
  <2> HIDE DEF u
  <2> QED
    BY <2>4, <2>5, <2>6
<1> HIDE DEF Upto
<1>3. \A m \in Nat : m \in S => m + 1 \in S
  BY <1>2
<1>4. \A m \in Nat : m \in S
  <2> HIDE DEF S
  <2> QED
    BY <1>1, <1>3, Induct
<1>5. Upto(n)
  BY <1>4
<1>6. PICK t \in [0..n -> G] : t[0] = e /\ \A i \in 1..n : t[i] = F[<<t[i-1], i>>]
  BY <1>5 DEF Upto
<1> QED
  BY <1>6 DEF Loop

\* What is true before a loop, and after each turn if it was before, is true at its end.
LEMMA LoopEnds ==
  ASSUME NEW n \in Nat, NEW t, NEW T, <<t[0], 0>> \in T,
         \A i \in 1..n : <<t[i-1], i - 1>> \in T => <<t[i], i>> \in T
  PROVE  <<t[n], n>> \in T
<1> DEFINE S == {m \in Nat : m <= n => <<t[m], m>> \in T}
<1>1. 0 \in S
  OBVIOUS
<1>2. ASSUME NEW m \in Nat, m \in S, m + 1 <= n
      PROVE  <<t[m + 1], m + 1>> \in T
  <2>1. m + 1 \in 1..n /\ (m + 1) - 1 = m /\ <<t[m], m>> \in T
    BY <1>2
  <2> QED
    BY <2>1
<1>3. \A m \in Nat : m \in S => m + 1 \in S
  BY <1>2
<1>4. \A m \in Nat : m \in S
  <2> HIDE DEF S
  <2> QED
    BY <1>1, <1>3, Induct
<1> QED
  BY <1>4

\* What is true before a turn is true after it.
Keeps(F, n, G, T) == \A x \in G, i \in 1..n : <<x, i - 1>> \in T => <<F[<<x, i>>], i>> \in T

\* What the body of a loop keeps is true at its end.
LEMMA LoopKeeps ==
  ASSUME NEW n \in Nat, NEW G, NEW e \in G, NEW F \in [G \X (1..n) -> G], NEW T,
         <<e, 0>> \in T, Keeps(F, n, G, T),
         NEW t, Loop(t, n, G, e, F)
  PROVE  t[n] \in G /\ <<t[n], n>> \in T
<1> DEFINE V == T \intersect (G \X Nat)
<1>1. <<t[0], 0>> \in V
  BY DEF Loop
<1>2. ASSUME NEW i \in 1..n, <<t[i-1], i - 1>> \in V
      PROVE  <<t[i], i>> \in V
  <2>1. t[i-1] \in G /\ <<t[i-1], i - 1>> \in T
    BY <1>2
  <2>2. t[i] = F[<<t[i-1], i>>] /\ F[<<t[i-1], i>>] \in G
    BY <2>1 DEF Loop
  <2>3. <<F[<<t[i-1], i>>], i>> \in T
    BY <2>1 DEF Keeps
  <2> QED
    BY <2>2, <2>3
<1>3. <<t[n], n>> \in V
  <2> HIDE DEF V
  <2> QED
    BY <1>1, <1>2, LoopEnds
<1> QED
  BY <1>3


-----------------------------------------------------------------------------
(***************************************************************************)
(* The line and what the terminal shows of it.                             *)
(***************************************************************************)
USE EditAssumption

\* The terminal shows the line, with spaces behind it and the cursor in its place.
Shows(shown, line) == /\ \A i \in 1..Len(line) : shown[i] = line[i]
                      /\ \A i \in Len(line)+1..Cap : shown[i] = Space

Editors == {e \in [line : Seq(Letters), this : Nat, shown : [1..Cap -> Letters], col : Nat] :
              Len(e.line) <= Cap /\ e.this <= Len(e.line) /\ e.col = e.this
              /\ Shows(e.shown, e.line)}

\* What is in a line editor: the cursor is inside the line, the line fits, the screen shows it.
LEMMA EditorFacts ==
  ASSUME NEW e \in Editors
  PROVE  /\ e.line \in Seq(Letters) /\ Len(e.line) \in 0..Cap
         /\ e.this \in 0..Len(e.line) /\ e.col = e.this
         /\ e.shown \in [1..Cap -> Letters] /\ Shows(e.shown, e.line)
         /\ e = [line |-> e.line, this |-> e.this, shown |-> e.shown, col |-> e.col]
<1>1. e.line \in Seq(Letters)
  BY DEF Editors
<1> QED
  BY <1>1, LenProperties DEF Editors

LEMMA EditorIs ==
  ASSUME NEW line \in Seq(Letters), NEW this \in 0..Len(line), Len(line) <= Cap,
         NEW shown \in [1..Cap -> Letters], Shows(shown, line)
  PROVE  [line |-> line, this |-> this, shown |-> shown, col |-> this] \in Editors
BY LenProperties DEF Editors

\* What is on the two sides of the cursor.
LEMMA Sides ==
  ASSUME NEW e \in Editors
  PROVE  /\ LeftOf(e) \in Seq(Letters) /\ Len(LeftOf(e)) = e.this
         /\ RightOf(e) \in Seq(Letters) /\ Len(RightOf(e)) = Len(e.line) - e.this
         /\ \A i \in 1..e.this : LeftOf(e)[i] = e.line[i]
         /\ \A i \in 1..Len(e.line) - e.this : RightOf(e)[i] = e.line[e.this + i]
         /\ LeftOf(e) \o RightOf(e) = e.line
<1> DEFINE len == Len(e.line)
<1>1. e.line \in Seq(Letters) /\ len \in Nat /\ e.this \in 0..len
  BY EditorFacts
<1>2. \A i \in 1..len : e.line[i] \in Letters
  BY <1>1, ElementOfSeq
<1>3. /\ LeftOf(e) \in Seq(Letters) /\ Len(LeftOf(e)) = e.this
      /\ \A i \in 1..e.this : LeftOf(e)[i] = e.line[i]
  <2>1. \A i \in 1..e.this : e.line[i] \in Letters
    BY <1>1, <1>2
  <2> QED
    BY <2>1, <1>1, SubSeqProperties DEF LeftOf
<1>4. /\ RightOf(e) \in Seq(Letters) /\ Len(RightOf(e)) = len - e.this
      /\ \A i \in 1..len - e.this : RightOf(e)[i] = e.line[e.this + i]
  <2>1. \A i \in e.this+1..len : e.line[i] \in Letters
    BY <1>1, <1>2
  <2>2. e.this + 1 \in Int /\ len \in Int
    BY <1>1
  <2>3. /\ RightOf(e) \in Seq(Letters)
        /\ Len(RightOf(e)) = IF e.this + 1 <= len THEN len - (e.this + 1) + 1 ELSE 0
        /\ \A i \in 1..len - (e.this + 1) + 1 : RightOf(e)[i] = e.line[(e.this + 1) + i - 1]
    BY <2>1, <2>2, SubSeqProperties DEF RightOf
  <2> QED
    BY <2>3, <1>1
<1>5. LeftOf(e) \o RightOf(e) = e.line
  <2> DEFINE both == LeftOf(e) \o RightOf(e)
  <2>1. /\ both \in Seq(Letters) /\ Len(both) = Len(LeftOf(e)) + Len(RightOf(e))
        /\ \A i \in 1..Len(LeftOf(e)) + Len(RightOf(e)) :
             both[i] = IF i <= Len(LeftOf(e)) THEN LeftOf(e)[i] ELSE RightOf(e)[i - Len(LeftOf(e))]
    BY <1>3, <1>4, ConcatProperties
  <2> HIDE DEF both
  <2>2. Len(both) = len
    BY <1>1, <1>3, <1>4, <2>1
  <2>3. ASSUME NEW i \in 1..len PROVE both[i] = e.line[i]
    <3>1. CASE i <= e.this
      <4>1. i \in 1..e.this /\ i \in 1..Len(LeftOf(e)) + Len(RightOf(e)) /\ i <= Len(LeftOf(e))
        BY <3>1, <1>1, <1>3, <1>4
      <4>2. both[i] = LeftOf(e)[i]
        BY <4>1, <2>1
      <4> QED
        BY <4>1, <4>2, <1>3
    <3>2. CASE i > e.this
      <4>1. i - e.this \in 1..len - e.this
        BY <3>2, <1>1
      <4> QED
        BY <3>2, <4>1, <1>1, <1>3, <1>4, <2>1
    <3> QED
      BY <3>1, <3>2, <1>1
  <2> QED
    BY <1>1, <2>1, <2>2, <2>3, SeqEqual DEF both
<1> QED
  BY <1>3, <1>4, <1>5

\* A text that is emitted where the shown one is L so far.
Written(shown, n, s) == [i \in 1..Cap |-> IF i - n \in 1..Len(s) THEN s[i-n] ELSE shown[i]]

LEMMA WrittenShows ==
  ASSUME NEW shown \in [1..Cap -> Letters], NEW L \in Seq(Letters), NEW s \in Seq(Letters),
         \A i \in 1..Len(L) : shown[i] = L[i], Len(L) + Len(s) <= Cap
  PROVE  /\ Written(shown, Len(L), s) \in [1..Cap -> Letters]
         /\ \A i \in 1..Len(L) + Len(s) : Written(shown, Len(L), s)[i] = (L \o s)[i]
         /\ \A i \in Len(L)+Len(s)+1..Cap : Written(shown, Len(L), s)[i] = shown[i]
<1> DEFINE n == Len(L)
           m == Len(s)
           both == L \o s
<1>1. n \in Nat /\ m \in Nat /\ \A i \in 1..m : s[i] \in Letters
  BY LenProperties, ElementOfSeq
<1>2. \A i \in 1..n + m : both[i] = IF i <= n THEN L[i] ELSE s[i - n]
  BY ConcatProperties
<1> HIDE DEF n, m, both
<1>3. Written(shown, n, s) \in [1..Cap -> Letters]
  BY <1>1 DEF Written, m
<1>4. ASSUME NEW i \in 1..n + m
      PROVE  Written(shown, n, s)[i] = both[i]
  <2>1. i \in 1..Cap /\ i \in Nat
    BY <1>1 DEF n, m
  <2>2. CASE i <= n
    <3>1. ~(i - n \in 1..m) /\ i \in 1..n
      BY <2>2, <2>1, <1>1
    <3>2. Written(shown, n, s)[i] = shown[i]
      BY <3>1, <2>1 DEF Written, m
    <3> QED
      BY <3>1, <3>2, <2>2, <1>2 DEF n
  <2>3. CASE i > n
    <3>1. i - n \in 1..m /\ ~(i <= n)
      BY <2>3, <2>1, <1>1
    <3>2. Written(shown, n, s)[i] = s[i - n]
      BY <3>1, <2>1 DEF Written, m
    <3> QED
      BY <3>1, <3>2, <1>2
  <2> QED
    BY <2>1, <2>2, <2>3, <1>1
<1>5. ASSUME NEW i \in n+m+1..Cap
      PROVE  Written(shown, n, s)[i] = shown[i]
  <2>1. i \in 1..Cap /\ ~(i - n \in 1..m)
    BY <1>1
  <2> QED
    BY <2>1 DEF Written, m
<1> QED
  BY <1>3, <1>4, <1>5 DEF n, m, both

\* The same, with names for the lengths, and for what else is done to sequences.
Agree(f, g, n) == \A i \in 1..n : f[i] = g[i]
AgreeBehind(f, g, n) == \A i \in n+1..Cap : f[i] = g[i]

LEMMA WrittenBehind ==
  ASSUME NEW shown \in [1..Cap -> Letters], NEW L \in Seq(Letters), NEW s \in Seq(Letters),
         NEW n \in Nat, NEW m \in Nat, n = Len(L), m = Len(s), Agree(shown, L, n), n + m <= Cap
  PROVE  /\ Written(shown, n, s) \in [1..Cap -> Letters]
         /\ Agree(Written(shown, n, s), L \o s, n + m)
         /\ AgreeBehind(Written(shown, n, s), shown, n + m)
<1>1. (\A i \in 1..Len(L) : shown[i] = L[i]) /\ Len(L) + Len(s) <= Cap
  BY DEF Agree
<1>2. /\ Written(shown, Len(L), s) \in [1..Cap -> Letters]
      /\ \A i \in 1..Len(L) + Len(s) : Written(shown, Len(L), s)[i] = (L \o s)[i]
      /\ \A i \in Len(L)+Len(s)+1..Cap : Written(shown, Len(L), s)[i] = shown[i]
  BY ONLY <1>1, WrittenShows
<1> QED
  BY <1>2 DEF Agree, AgreeBehind

LEMMA Joined ==
  ASSUME NEW A \in Seq(Letters), NEW B \in Seq(Letters), NEW n, NEW m, n = Len(A), m = Len(B)
  PROVE  /\ n \in Nat /\ m \in Nat
         /\ A \o B \in Seq(Letters) /\ Len(A \o B) = n + m
         /\ \A i \in 1..n + m : (A \o B)[i] = IF i <= n THEN A[i] ELSE B[i - n]
BY ConcatProperties, LenProperties

LEMMA Cut ==
  ASSUME NEW s \in Seq(Letters), NEW from \in Nat \ {0}, NEW to \in Nat,
         to <= Len(s), from <= to + 1
  PROVE  /\ SubSeq(s, from, to) \in Seq(Letters)
         /\ Len(SubSeq(s, from, to)) = (to - from) + 1
         /\ \A i \in 1..(to - from) + 1 : SubSeq(s, from, to)[i] = s[(from + i) - 1]
<1>1. \A i \in from..to : s[i] \in Letters
  BY LenProperties, ElementOfSeq
<1>2. /\ SubSeq(s, from, to) \in Seq(Letters)
      /\ Len(SubSeq(s, from, to)) = IF from <= to THEN to - from + 1 ELSE 0
      /\ \A i \in 1..to - from + 1 : SubSeq(s, from, to)[i] = s[from + i - 1]
  BY <1>1, SubSeqProperties
<1>3. from <= to \/ (to - from) + 1 = 0
  OBVIOUS
<1>4. (to - from) + 1 = to - from + 1
  OBVIOUS
<1>5. \A i \in 1..(to - from) + 1 : (from + i) - 1 = from + i - 1
  OBVIOUS
<1> QED
  BY <1>2, <1>3, <1>4, <1>5

\* Two texts with the same beginning.
LEMMA SameBeginning ==
  ASSUME NEW s \in Seq(Letters), NEW t \in Seq(Letters), NEW m \in Nat,
         m <= Len(s), m <= Len(t), \A i \in 1..m : s[i] = t[i]
  PROVE  SubSeq(s, 1, m) = SubSeq(t, 1, m)
<1> DEFINE A == SubSeq(s, 1, m)
           B == SubSeq(t, 1, m)
<1>1. 1 \in Nat \ {0} /\ 1 <= m + 1 /\ m = (m - 1) + 1 /\ \A i \in 1..m : (1 + i) - 1 = i
  OBVIOUS
<1>2. A \in Seq(Letters) /\ Len(A) = m /\ \A i \in 1..m : A[i] = s[i]
  BY <1>1, Cut
<1>3. B \in Seq(Letters) /\ Len(B) = m /\ \A i \in 1..m : B[i] = t[i]
  BY <1>1, Cut
<1> HIDE DEF A, B
<1>4. \A i \in 1..Len(A) : A[i] = B[i]
  BY <1>2, <1>3
<1>5. A = B
  BY <1>2, <1>3, <1>4, SeqEqual
<1> QED
  BY <1>5 DEF A, B

\* The texts that fit into what is left.
LEMMA AtMostFits ==
  ASSUME NEW n \in Nat, NEW s \in Seq(Letters)
  PROVE  /\ AtMost(n, s) \in Seq(Letters)
         /\ Len(AtMost(n, s)) = IF n <= Len(s) THEN n ELSE Len(s)
         /\ \A i \in 1..Len(AtMost(n, s)) : AtMost(n, s)[i] = s[i]
         /\ Len(s) <= n => AtMost(n, s) = s
<1> DEFINE m == IF n <= Len(s) THEN n ELSE Len(s)
<1>1. Len(s) \in Nat
  BY LenProperties
<1>2. Min({n, Len(s)}) = m
  BY <1>1 DEF Min
<1>3. m \in 0..Len(s)
  BY <1>1
<1> HIDE DEF m
<1>4. \A i \in 1..m : s[i] \in Letters
  BY <1>1, <1>3, ElementOfSeq
<1>5. /\ SubSeq(s, 1, m) \in Seq(Letters) /\ Len(SubSeq(s, 1, m)) = m
      /\ \A i \in 1..m : SubSeq(s, 1, m)[i] = s[i]
  BY <1>1, <1>3, <1>4, SubSeqProperties
<1>6. Len(s) <= n => m = Len(s)
  BY <1>1 DEF m
<1>7. AtMost(n, s) = SubSeq(s, 1, m)
  BY <1>2 DEF AtMost
<1>8. Len(s) <= n => AtMost(n, s) = s
  BY <1>6, <1>7, SubSeqFull
<1> QED
  BY <1>5, <1>7, <1>8 DEF m

-----------------------------------------------------------------------------
(***************************************************************************)
(* addchar, erase_char and the moves of the cursor.                        *)
(***************************************************************************)

LEMMA EmitIs ==
  ASSUME NEW e, NEW line, NEW this, NEW shown, NEW col, NEW s,
         e = [line |-> line, this |-> this, shown |-> shown, col |-> col]
  PROVE  Emit(e, s) = [line |-> line, this |-> this, shown |-> Written(shown, col, s),
                       col |-> col + Len(s)]
<1> DEFINE new == Written(shown, col, s)
<1>1. e.col = col /\ e.shown = shown
  OBVIOUS
<1>2. Emit(e, s) = [e EXCEPT !.shown = new, !.col = @ + Len(s)]
  BY <1>1 DEF Emit, Written
<1> HIDE DEF new
<1> QED
  BY <1>2 DEF new

LEMMA BackspaceIs ==
  ASSUME NEW e, NEW line, NEW this, NEW shown, NEW col, NEW n,
         e = [line |-> line, this |-> this, shown |-> shown, col |-> col]
  PROVE  Backspace(e, n) = [line |-> line, this |-> this, shown |-> shown, col |-> col - n]
BY DEF Backspace

LEMMA SidesAre ==
  ASSUME NEW A \in Seq(Letters), NEW B \in Seq(Letters), NEW x,
         x.line = A \o B, x.this = Len(A)
  PROVE  LeftOf(x) = A /\ RightOf(x) = B
<1> DEFINE both == A \o B
           n == Len(A)
           m == Len(B)
<1>1. n \in Nat /\ m \in Nat
  BY LenProperties
<1>2. /\ both \in Seq(Letters) /\ Len(both) = n + m
      /\ \A i \in 1..n + m : both[i] = IF i <= n THEN A[i] ELSE B[i - n]
  BY ConcatProperties
<1>3. \A i \in 1..n + m : both[i] \in Letters
  BY <1>2, ElementOfSeq
<1> HIDE DEF both, n, m
<1>4. /\ SubSeq(both, 1, n) \in Seq(Letters) /\ Len(SubSeq(both, 1, n)) = n
      /\ \A i \in 1..n : SubSeq(both, 1, n)[i] = both[i]
  <2>1. \A i \in 1..n : both[i] \in Letters
    BY <1>1, <1>3
  <2> QED
    BY <2>1, <1>1, SubSeqProperties
<1>5. SubSeq(both, 1, n) = A
  <2>1. ASSUME NEW i \in 1..n PROVE SubSeq(both, 1, n)[i] = A[i]
    BY <1>1, <1>2, <1>4
  <2> QED
    BY <2>1, <1>4, SeqEqual DEF n
<1> DEFINE from == n + 1
           to == n + m
<1>6. /\ from \in Int /\ to \in Int /\ from = n + 1 /\ to = n + m
      /\ \A i \in from..to : both[i] \in Letters
  BY <1>1, <1>3
<1> HIDE DEF from, to
<1>7. /\ SubSeq(both, from, to) \in Seq(Letters)
      /\ Len(SubSeq(both, from, to)) = IF from <= to THEN to - from + 1 ELSE 0
      /\ \A i \in 1..to - from + 1 : SubSeq(both, from, to)[i] = both[from + i - 1]
  BY <1>6, SubSeqProperties
<1>8. SubSeq(both, from, to) = B
  <2>1. Len(SubSeq(both, from, to)) = m
    BY <1>1, <1>6, <1>7
  <2>2. ASSUME NEW i \in 1..m PROVE SubSeq(both, from, to)[i] = B[i]
    <3>1. /\ i \in 1..to - from + 1 /\ from + i - 1 = n + i /\ n + i \in 1..n + m
          /\ ~(n + i <= n) /\ (n + i) - n = i
      BY <1>1, <1>6
    <3> QED
      BY <3>1, <1>2, <1>7
  <2> QED
    BY <2>1, <2>2, <1>7, SeqEqual DEF m
<1> QED
  BY <1>2, <1>5, <1>8 DEF LeftOf, RightOf, both, n, m, from, to

\* addchar puts the character before the cursor, and pushes the last one out of a full line.
LEMMA addcharKeeps ==
  ASSUME NEW e \in Editors, NEW c \in Letters
  PROVE  /\ addchar(e, c) \in Editors
         /\ Len(e.line) < Cap => /\ LeftOf(addchar(e, c)) = Append(LeftOf(e), c)
                                 /\ RightOf(addchar(e, c)) = RightOf(e)
                                 /\ Len(addchar(e, c).line) = Len(e.line) + 1
                                 /\ addchar(e, c).this = e.this + 1
<1>1. CASE e.this = Cap
  <2>1. ~(Len(e.line) < Cap) /\ addchar(e, c) = e
    BY <1>1, EditorFacts DEF addchar
  <2> QED
    BY <2>1
<1>2. CASE e.this # Cap
  <2> DEFINE L == LeftOf(e)
             R == RightOf(e)
             rest == AtMost(Cap - 1 - e.this, R)
             s == <<c>> \o rest
             line == L \o <<c>> \o rest
             shown == Written(e.shown, e.this, s)
  <2>1. /\ e.line \in Seq(Letters) /\ Len(e.line) \in 0..Cap /\ e.this \in 0..Cap - 1
        /\ e.this \in 0..Len(e.line) /\ e.col = e.this /\ e.shown \in [1..Cap -> Letters]
        /\ \A i \in 1..Len(e.line) : e.shown[i] = e.line[i]
        /\ \A i \in Len(e.line)+1..Cap : e.shown[i] = Space
    BY <1>2, EditorFacts DEF Shows
  <2>2. /\ L \in Seq(Letters) /\ Len(L) = e.this /\ \A i \in 1..e.this : L[i] = e.line[i]
        /\ R \in Seq(Letters) /\ Len(R) = Len(e.line) - e.this
    BY Sides
  <2>3. /\ rest \in Seq(Letters)
        /\ Len(rest) = IF Cap - 1 - e.this <= Len(R) THEN Cap - 1 - e.this ELSE Len(R)
        /\ Len(R) <= Cap - 1 - e.this => rest = R
    BY <2>1, <2>2, AtMostFits
  <2>4. addchar(e, c) = [line |-> line, this |-> e.this + 1, shown |-> shown, col |-> e.this + 1]
    <3>1. e = [line |-> e.line, this |-> e.this, shown |-> e.shown, col |-> e.this]
      BY EditorFacts
    <3>2. Len(s) = 1 + Len(rest) /\ Len(rest) \in Nat
      BY <2>1, <2>2, <2>3, ConcatProperties
    <3>3. (e.this + Len(s)) - Len(rest) = e.this + 1
      BY <3>2, <2>1
    <3>4. addchar(e, c) = [Backspace(Emit(e, s), Len(rest)) EXCEPT !.line = line, !.this = @ + 1]
      BY <1>2 DEF addchar
    <3> HIDE DEF line, s, rest
    <3>5. Emit(e, s) = [line |-> e.line, this |-> e.this, shown |-> shown,
                        col |-> e.this + Len(s)]
      BY <3>1, EmitIs
    <3> HIDE DEF shown
    <3> DEFINE x == Emit(e, s)
    <3>6. x = [line |-> e.line, this |-> e.this, shown |-> shown, col |-> e.this + Len(s)]
      BY <3>5
    <3>7. addchar(e, c) = [Backspace(x, Len(rest)) EXCEPT !.line = line, !.this = @ + 1]
      BY <3>4
    <3> HIDE DEF x
    <3> DEFINE r == Len(rest)
               col == e.this + Len(s)
               y == Backspace(x, r)
               old == e.line
               this == e.this
    <3>8. x = [line |-> old, this |-> this, shown |-> shown, col |-> col]
          /\ addchar(e, c) = [y EXCEPT !.line = line, !.this = @ + 1]
          /\ col - r = this + 1
      <4>1. x = [line |-> old, this |-> this, shown |-> shown, col |-> col]
        BY <3>6
      <4>2. addchar(e, c) = [y EXCEPT !.line = line, !.this = @ + 1]
        BY <3>7
      <4>3. col - r = this + 1
        BY <3>3
      <4> QED
        BY <4>1, <4>2, <4>3
    <3> HIDE DEF r, col, old, this
    <3>9. y = [line |-> old, this |-> this, shown |-> shown, col |-> col - r]
      BY <3>8, BackspaceIs
    <3> HIDE DEF y
    <3>10. addchar(e, c) = [line |-> line, this |-> this + 1, shown |-> shown, col |-> this + 1]
      BY <3>8, <3>9
    <3> QED
      BY <3>10 DEF this
  <2>5. /\ s \in Seq(Letters) /\ Len(s) = 1 + Len(rest)
        /\ line = L \o s
        /\ line = Append(L, c) \o rest /\ Append(L, c) \in Seq(Letters)
        /\ Len(Append(L, c)) = e.this + 1
    <3>1. <<c>> \in Seq(Letters) /\ Len(<<c>>) = 1
      OBVIOUS
    <3>2. line = L \o s
      BY <2>2, <2>3, <3>1, ConcatAssociative
    <3>3. s \in Seq(Letters) /\ Len(s) = 1 + Len(rest)
      BY <2>3, <3>1, ConcatProperties
    <3>4. Append(L, c) = L \o <<c>> /\ Append(L, c) \in Seq(Letters)
          /\ Len(Append(L, c)) = e.this + 1
      BY <2>2, AppendIsConcat, AppendProperties
    <3> QED
      BY <3>2, <3>3, <3>4
  <2> DEFINE k == Len(rest)
             len == Len(e.line)
  <2>6. /\ k \in Nat /\ len \in Nat
        /\ k = IF Cap - 1 - e.this <= len - e.this THEN Cap - 1 - e.this ELSE len - e.this
    BY <2>1, <2>2, <2>3
  <2>7. line \in Seq(Letters) /\ Len(line) = e.this + 1 + k
    BY <2>1, <2>2, <2>5, <2>6, ConcatProperties
  <2>8. addchar(e, c).line = line /\ addchar(e, c).this = e.this + 1
    BY <2>4
  <2>9. LeftOf(addchar(e, c)) = Append(L, c) /\ RightOf(addchar(e, c)) = rest
    <3> DEFINE A == Append(L, c)
               x == addchar(e, c)
    <3>1. A \in Seq(Letters) /\ rest \in Seq(Letters) /\ x.line = A \o rest /\ x.this = Len(A)
      BY <2>3, <2>5, <2>8
    <3> HIDE DEF A, x, rest
    <3>2. LeftOf(x) = A /\ RightOf(x) = rest
      BY <3>1, SidesAre
    <3> QED
      BY <3>2 DEF A, x
  <2>10. Len(e.line) < Cap => rest = R /\ k = len - e.this
    <3>1. len < Cap => len - e.this <= Cap - 1 - e.this
      BY <2>1
    <3>2. len < Cap => rest = R
      BY <3>1, <2>2, <2>3
    <3> QED
      BY <3>2, <2>2
  <2>11. addchar(e, c) \in Editors
    <3> HIDE DEF rest, s, k, L, line
    <3>1. e.this + Len(s) <= Cap
      BY <2>1, <2>5, <2>6 DEF k
    <3>2. \A i \in 1..Len(L) : e.shown[i] = L[i]
      BY <2>1, <2>2
    <3>3. /\ shown \in [1..Cap -> Letters]
          /\ \A i \in 1..e.this + Len(s) : shown[i] = line[i]
          /\ \A i \in e.this+Len(s)+1..Cap : shown[i] = e.shown[i]
      <4> DEFINE n == e.this
                 m == Len(s)
                 was == e.shown
      <4>1. /\ was \in [1..Cap -> Letters] /\ L \in Seq(Letters) /\ s \in Seq(Letters)
            /\ n = Len(L) /\ n \in Nat /\ m \in Nat /\ n + m <= Cap /\ Cap \in Nat
            /\ shown = Written(was, n, s) /\ line = L \o s
        BY <2>1, <2>2, <2>5, <3>1, LenProperties
      <4>2. Agree(was, L, n)
        BY <3>2, <4>1 DEF Agree
      <4> HIDE DEF shown, was, n
      <4>3. shown \in [1..Cap -> Letters]
        BY ONLY <4>1, <4>2, WrittenBehind
      <4>4. Agree(shown, line, n + m)
        BY ONLY <4>1, <4>2, WrittenBehind
      <4>5. AgreeBehind(shown, was, n + m)
        BY ONLY <4>1, <4>2, WrittenBehind
      <4> QED
        BY ONLY <4>3, <4>4, <4>5 DEF Agree, AgreeBehind, was, n
    <3> HIDE DEF shown
    <3>4. ASSUME NEW i \in Len(line)+1..Cap PROVE shown[i] = Space
      <4>1. e.this + Len(s) = e.this + 1 + k
        <5>1. Len(s) = 1 + k
          BY <2>5 DEF k
        <5> QED
          BY <5>1, <2>1, <2>6
      <4>2. shown[i] = e.shown[i]
        BY <4>1, <3>3, <2>7, <2>1, <2>6
      <4>3. i \in len+1..Cap
        BY <2>1, <2>6, <2>7
      <4> QED
        BY <4>2, <4>3, <2>1
    <3>5. Shows(shown, line)
      <4>1. Len(line) = e.this + Len(s)
        <5>1. Len(s) = 1 + k
          BY <2>5 DEF k
        <5> QED
          BY <5>1, <2>1, <2>6, <2>7
      <4> QED
        BY <4>1, <3>3, <3>4 DEF Shows
    <3>6. e.this + 1 \in 0..Len(line) /\ Len(line) <= Cap
      BY <2>1, <2>6, <2>7
    <3> QED
      BY <2>4, <2>7, <3>3, <3>5, <3>6, EditorIs
  <2> HIDE DEF line, s
  <2>12. Len(e.line) < Cap => Len(addchar(e, c).line) = Len(e.line) + 1
    BY <2>1, <2>6, <2>7, <2>8, <2>10
  <2> QED
    BY <2>8, <2>9, <2>10, <2>11, <2>12
<1> QED
  BY <1>1, <1>2

\* erase_char takes the character before the cursor, if there is one.
LEMMA erase_charKeeps ==
  ASSUME NEW e \in Editors
  PROVE  /\ erase_char(e) \in Editors
         /\ RightOf(erase_char(e)) = RightOf(e)
         /\ e.this > 0 => /\ LeftOf(erase_char(e)) = SubSeq(e.line, 1, e.this - 1)
                          /\ Len(erase_char(e).line) = Len(e.line) - 1
                          /\ erase_char(e).this = e.this - 1
<1> DEFINE old == e.line
           len == Len(old)
           p == e.this
           was == e.shown
<1>1. /\ old \in Seq(Letters) /\ len \in 0..Cap /\ p \in 0..len /\ was \in [1..Cap -> Letters]
      /\ \A i \in 1..len : was[i] = old[i]
      /\ \A i \in len+1..Cap : was[i] = Space
      /\ e = [line |-> old, this |-> p, shown |-> was, col |-> p]
  BY EditorFacts DEF Shows
<1>2. CASE p = 0
  <2>1. erase_char(e) = e /\ ~(e.this > 0)
    BY <1>2 DEF erase_char
  <2> QED
    BY <2>1
<1>3. CASE p # 0
  <2> DEFINE R == RightOf(e)
             A == SubSeq(old, 1, p - 1)
             s == R \o <<Space>>
             r == Len(R)
             n == p - 1
             line == A \o R
             both == A \o s
             shown == Written(was, n, s)
             x == Backspace(e, 1)
             y == Emit(x, s)
             z == Backspace(y, r + 1)
             new == erase_char(e)
  <2>1. R \in Seq(Letters) /\ r = len - p /\ \A i \in 1..r : R[i] = old[p+i]
    BY Sides
  <2>2. n \in 0..len - 1 /\ r \in Nat
    BY <1>1, <1>3, <2>1
  <2>3. A \in Seq(Letters) /\ Len(A) = n /\ \A i \in 1..n : A[i] = old[i]
    <3>1. \A i \in 1..n : old[i] \in Letters
      BY <1>1, <2>2, ElementOfSeq
    <3> HIDE DEF old
    <3>2. /\ SubSeq(old, 1, n) \in Seq(Letters)
          /\ Len(SubSeq(old, 1, n)) = IF 1 <= n THEN n - 1 + 1 ELSE 0
          /\ \A i \in 1..n - 1 + 1 : SubSeq(old, 1, n)[i] = old[1 + i - 1]
      <4> HIDE DEF n
      <4>1. n \in Int
        BY <2>2
      <4> QED
        BY <4>1, <3>1, SubSeqProperties
    <3> QED
      BY <3>2, <2>2
  <2>4. <<Space>> \in Seq(Letters) /\ Len(<<Space>>) = 1
    OBVIOUS
  <2>5. s \in Seq(Letters) /\ Len(s) = r + 1
        /\ \A i \in 1..r + 1 : s[i] = IF i <= r THEN R[i] ELSE Space
    <3>1. \A i \in 1..Len(R) + 1 : s[i] = IF i <= Len(R) THEN R[i] ELSE <<Space>>[i - Len(R)]
      BY <2>1, <2>4, ConcatProperties
    <3>2. \A i \in 1..r + 1 : ~(i <= r) => <<Space>>[i - r] = Space
      <4> TAKE i \in 1..r + 1
      <4>1. ~(i <= r) => i - r = 1
        BY <2>2
      <4> QED
        BY <4>1
    <3>3. s \in Seq(Letters) /\ Len(s) = r + 1
      BY <2>1, <2>4, ConcatProperties
    <3> QED
      BY <3>1, <3>2, <3>3
  <2>6. line \in Seq(Letters) /\ Len(line) = n + r
        /\ \A i \in 1..n + r : line[i] = IF i <= n THEN A[i] ELSE R[i - n]
    BY <2>1, <2>3, ConcatProperties
  <2>7. both \in Seq(Letters) /\ Len(both) = n + (r + 1)
        /\ \A i \in 1..n + (r + 1) : both[i] = IF i <= n THEN A[i] ELSE s[i - n]
    <3> HIDE DEF A, s, n
    <3> DEFINE m == r + 1
    <3>1. n = Len(A) /\ m = Len(s)
      BY <2>3, <2>5
    <3> HIDE DEF m
    <3>2. both \in Seq(Letters) /\ Len(both) = n + m
          /\ \A i \in 1..n + m : both[i] = IF i <= n THEN A[i] ELSE s[i - n]
      BY <2>3, <2>5, <3>1, Joined
    <3> QED
      BY <3>2 DEF m
  <2>8. new = [z EXCEPT !.line = line, !.this = @ - 1]
    BY <1>3 DEF erase_char
  <2>9. /\ shown \in [1..Cap -> Letters]
        /\ \A i \in 1..n + (r + 1) : shown[i] = both[i]
        /\ \A i \in n+(r + 1)+1..Cap : shown[i] = was[i]
    <3> DEFINE m == r + 1
    <3>1. n + m <= Cap
      BY <1>1, <2>1
    <3>2. ASSUME NEW i \in 1..n PROVE was[i] = A[i]
      <4>1. i \in 1..len
        BY <2>2, <1>1
      <4> HIDE DEF was, old, A, n, len
      <4> QED
        BY <4>1, <1>1, <2>3
    <3>3. m = Len(s) /\ n = Len(A)
      BY <2>3, <2>5
    <3> HIDE DEF old, p, was, R, A, s, r, n, both, shown, m
    <3>4. /\ Written(was, n, s) \in [1..Cap -> Letters]
          /\ Agree(Written(was, n, s), both, n + m)
          /\ AgreeBehind(Written(was, n, s), was, n + m)
      <4>1. /\ was \in [1..Cap -> Letters] /\ A \in Seq(Letters) /\ s \in Seq(Letters)
            /\ n = Len(A) /\ m = Len(s) /\ both = A \o s
            /\ Agree(was, A, n) /\ n + m <= Cap /\ Cap \in Nat /\ n \in Nat /\ m \in Nat
        BY <1>1, <2>3, <2>5, <3>1, <3>2, <3>3, LenProperties DEF both, Agree
      <4>2. Agree(Written(was, n, s), both, n + m)
        BY ONLY <4>1, WrittenBehind
      <4>3. Written(was, n, s) \in [1..Cap -> Letters]
        BY ONLY <4>1, WrittenBehind
      <4>4. AgreeBehind(Written(was, n, s), was, n + m)
        BY ONLY <4>1, WrittenBehind
      <4> QED
        BY ONLY <4>2, <4>3, <4>4
    <3> QED
      BY <3>4 DEF m, shown, Agree, AgreeBehind
  <2> HIDE DEF old, len, p, was, R, A, s, r, line, both, shown, x, y, z, new
  <2>10. new = [line |-> line, this |-> n, shown |-> shown, col |-> n]
    <3>1. x = [line |-> old, this |-> p, shown |-> was, col |-> p - 1]
      BY <1>1, BackspaceIs DEF x
    <3>2. y = [line |-> old, this |-> p, shown |-> shown, col |-> (p - 1) + Len(s)]
      BY <3>1, EmitIs DEF y, shown
    <3>3. z = [line |-> old, this |-> p, shown |-> shown, col |-> ((p - 1) + Len(s)) - (r + 1)]
      BY <3>2, BackspaceIs DEF z
    <3>4. ((p - 1) + Len(s)) - (r + 1) = n
      BY <2>2, <2>5, <1>1
    <3> QED
      BY <2>8, <3>3, <3>4
  <2>11. Shows(shown, line) /\ Len(line) <= Cap /\ n \in 0..Len(line)
    <3>1. ASSUME NEW i \in 1..n + r PROVE shown[i] = line[i]
      <4>1. i \in 1..n + (r + 1) /\ i \in Nat
        BY <2>2
      <4>2. CASE i <= n
        BY <4>1, <4>2, <2>6, <2>7, <2>9
      <4>3. CASE ~(i <= n)
        <5>1. i - n \in 1..r + 1 /\ i - n <= r
          BY <4>3, <4>1, <2>2
        <5>2. both[i] = s[i - n] /\ s[i - n] = R[i - n]
          BY <4>1, <4>3, <5>1, <2>5, <2>7
        <5> QED
          BY <4>1, <4>3, <5>2, <2>6, <2>9
      <4> QED
        BY <4>2, <4>3
    <3>2. ASSUME NEW i \in n+r+1..Cap PROVE shown[i] = Space
      <4>1. CASE i = n + (r + 1)
        <5>1. i - n = r + 1 /\ ~(i <= n) /\ i \in 1..n + (r + 1) /\ r + 1 \in 1..r + 1 /\ ~(r + 1 <= r)
          BY <4>1, <2>2
        <5>2. both[i] = s[r + 1] /\ s[r + 1] = Space
          BY <5>1, <2>5, <2>7
        <5> QED
          BY <5>1, <5>2, <2>9
      <4>2. CASE i # n + (r + 1)
        <5>1. i \in n+(r + 1)+1..Cap /\ i \in len+1..Cap
          <6>1. n + (r + 1) = len
            BY <1>1, <2>1 DEF n
          <6>2. i \in Int /\ n \in Nat /\ r \in Nat /\ len \in Nat
            BY <1>1, <2>1, <2>2
          <6> QED
            BY <4>2, <6>1, <6>2
        <5> QED
          BY <5>1, <1>1, <2>9
      <4> QED
        BY <4>1, <4>2
    <3>3. Len(line) <= Cap /\ n \in 0..Len(line)
      BY <1>1, <2>1, <2>2, <2>6
    <3> QED
      BY <3>1, <3>2, <3>3, <2>6 DEF Shows
  <2>12. new \in Editors
    <3> HIDE DEF n
    <3> QED
      BY <2>6, <2>9, <2>10, <2>11, EditorIs
  <2>13. LeftOf(new) = A /\ RightOf(new) = R
    BY <2>1, <2>3, <2>10, SidesAre DEF line
  <2>14. Len(new.line) = len - 1 /\ new.this = p - 1
    <3>1. new.line = line /\ new.this = n
      BY ONLY <2>10
    <3>2. Len(line) = len - 1 /\ n = p - 1
      BY <1>1, <2>1, <2>2, <2>6 DEF n
    <3> QED
      BY <3>1, <3>2
  <2> QED
    BY <2>12, <2>13, <2>14 DEF new, A, R, p, old, len
<1> QED
  BY <1>2, <1>3

\* Moving the cursor changes nothing but its place.
LEMMA GoToKeeps ==
  ASSUME NEW e \in Editors, NEW p \in 0..Len(e.line)
  PROVE  GoTo(e, p) \in Editors /\ GoTo(e, p).line = e.line /\ GoTo(e, p).this = p
<1> DEFINE line == e.line
           len == Len(line)
           this == e.this
           was == e.shown
<1>1. /\ line \in Seq(Letters) /\ len \in 0..Cap /\ this \in 0..len /\ was \in [1..Cap -> Letters]
      /\ \A i \in 1..len : was[i] = line[i]
      /\ Shows(was, line)
      /\ e = [line |-> line, this |-> this, shown |-> was, col |-> this]
  BY EditorFacts DEF Shows
<1>2. CASE p > this
  <2> DEFINE L == LeftOf(e)
             s == SubSeq(line, this + 1, p)
             both == L \o s
             shown == Written(was, this, s)
             x == Emit(e, s)
             new == GoTo(e, p)
  <2>1. L \in Seq(Letters) /\ Len(L) = this /\ \A i \in 1..this : L[i] = line[i]
    BY Sides
  <2>2. this + 1 \in Int /\ p \in Int /\ \A i \in this+1..p : line[i] \in Letters
    BY <1>1, ElementOfSeq
  <2>3. /\ s \in Seq(Letters) /\ Len(s) = p - this
        /\ \A i \in 1..p - this : s[i] = line[this + i]
    <3> HIDE DEF line
    <3> DEFINE from == this + 1
    <3>1. from \in Nat \ {0} /\ p \in Nat /\ p <= Len(line) /\ from <= p + 1
      BY <1>1, <1>2
    <3>2. from = this + 1 /\ p \in Nat /\ this \in Nat
      BY <1>1
    <3>3. SubSeq(line, from, p) = s
      OBVIOUS
    <3> HIDE DEF from, s
    <3>4. /\ SubSeq(line, from, p) \in Seq(Letters)
          /\ Len(SubSeq(line, from, p)) = (p - from) + 1
          /\ \A i \in 1..(p - from) + 1 : SubSeq(line, from, p)[i] = line[(from + i) - 1]
      BY <1>1, <3>1, Cut
    <3>5. (p - from) + 1 = p - this
      BY ONLY <3>2
    <3>6. \A i \in 1..p - this : (from + i) - 1 = this + i
      BY ONLY <3>2
    <3> QED
      BY <3>3, <3>4, <3>5, <3>6
  <2>4. new = [x EXCEPT !.this = p]
    BY <1>2 DEF GoTo
  <2> HIDE DEF line, len, this, was, L, s, both, shown, x, new
  <2>5. new = [line |-> line, this |-> p, shown |-> shown, col |-> p]
    <3>1. x = [line |-> line, this |-> this, shown |-> shown, col |-> this + Len(s)]
      BY <1>1, EmitIs DEF x, shown
    <3>2. this + Len(s) = p
      BY <1>1, <2>3 DEF len, line
    <3> QED
      BY <2>4, <3>1, <3>2
  <2>6. \A i \in 1..p : both[i] = line[i]
    <3> TAKE i \in 1..p
    <3>1. both[i] = IF i <= Len(L) THEN L[i] ELSE s[i - Len(L)]
      <4>1. i \in 1..Len(L) + Len(s)
        BY <1>1, <2>1, <2>3
      <4> QED
        BY <4>1, <2>1, <2>3, ConcatProperties DEF both
    <3>2. CASE i <= this
      <4>1. i \in 1..this
        BY <3>2, <1>1
      <4> QED
        BY <4>1, <3>1, <3>2, <2>1
    <3>3. CASE ~(i <= this)
      <4>1. i - this \in 1..p - this /\ this + (i - this) = i
        BY <3>3, <1>1
      <4> QED
        BY <4>1, <3>1, <3>3, <2>1, <2>3
    <3> QED
      BY <3>2, <3>3
  <2>7. /\ shown \in [1..Cap -> Letters]
        /\ \A i \in 1..p : shown[i] = both[i]
        /\ \A i \in p+1..Cap : shown[i] = was[i]
    <3> DEFINE m == p - this
    <3>1. this + m = p /\ p <= Cap /\ this \in Nat
      BY <1>1 DEF len, line
    <3>2. ASSUME NEW i \in 1..this PROVE was[i] = L[i]
      <4>1. i \in 1..len
        BY <1>1 DEF len, line
      <4> QED
        BY <4>1, <1>1, <2>1
    <3>3. m = Len(s)
      BY <2>3
    <3> HIDE DEF m
    <3>4. /\ Written(was, this, s) \in [1..Cap -> Letters]
          /\ Agree(Written(was, this, s), both, this + m)
          /\ AgreeBehind(Written(was, this, s), was, this + m)
      <4>1. /\ was \in [1..Cap -> Letters] /\ L \in Seq(Letters) /\ s \in Seq(Letters)
            /\ this = Len(L) /\ m = Len(s) /\ both = L \o s
            /\ Agree(was, L, this) /\ this + m <= Cap /\ Cap \in Nat /\ this \in Nat /\ m \in Nat
        BY <1>1, <2>1, <2>3, <3>1, <3>2, <3>3, LenProperties DEF both, Agree
      <4>2. Agree(Written(was, this, s), both, this + m)
        BY ONLY <4>1, WrittenBehind
      <4>3. Written(was, this, s) \in [1..Cap -> Letters]
        BY ONLY <4>1, WrittenBehind
      <4>4. AgreeBehind(Written(was, this, s), was, this + m)
        BY ONLY <4>1, WrittenBehind
      <4> QED
        BY ONLY <4>2, <4>3, <4>4
    <3> QED
      BY <3>1, <3>4 DEF shown, Agree, AgreeBehind
  <2>8. Shows(shown, line)
    <3>1. ASSUME NEW i \in 1..len PROVE shown[i] = line[i]
      <4>1. CASE i <= p
        BY <4>1, <1>1, <2>6, <2>7
      <4>2. CASE ~(i <= p)
        <5>1. i \in p+1..Cap
          BY <4>2, <1>1 DEF len, line
        <5> QED
          BY <5>1, <1>1, <2>7
      <4> QED
        BY <4>1, <4>2
    <3>2. ASSUME NEW i \in len+1..Cap PROVE shown[i] = Space
      <4>1. i \in p+1..Cap
        BY <1>1 DEF len, line
      <4> QED
        BY <4>1, <1>1, <2>7 DEF Shows, len
    <3> QED
      BY <3>1, <3>2 DEF Shows, len
  <2>9. p \in 0..Len(line) /\ Len(line) <= Cap
    BY <1>1 DEF line, len
  <2>10. new \in Editors
    BY <1>1, <2>5, <2>7, <2>8, <2>9, EditorIs
  <2> QED
    BY <2>5, <2>10 DEF new, line
<1>3. CASE ~(p > this)
  <2> DEFINE x == Backspace(e, this - p)
             new == GoTo(e, p)
  <2>1. new = [x EXCEPT !.this = p]
    BY <1>3 DEF GoTo
  <2>2. p \in 0..Len(line) /\ Len(line) <= Cap
    BY <1>1
  <2> HIDE DEF line, len, this, was, x, new
  <2>3. x = [line |-> line, this |-> this, shown |-> was, col |-> this - (this - p)]
    BY <1>1, BackspaceIs DEF x
  <2>4. this - (this - p) = p
    BY <1>1 DEF line
  <2>5. new = [line |-> line, this |-> p, shown |-> was, col |-> p]
    BY <2>1, <2>3, <2>4
  <2>6. new \in Editors
    BY <1>1, <2>2, <2>5, EditorIs
  <2> QED
    BY <2>5, <2>6 DEF new, line
<1> QED
  BY <1>2, <1>3

-----------------------------------------------------------------------------
(***************************************************************************)
(* Loops over the line, and the words in it.                               *)
(***************************************************************************)

\* Erase takes what is before the cursor, as long as there is something.
LEMMA EraseKeeps ==
  ASSUME NEW e \in Editors, NEW n \in Nat
  PROVE  /\ Erase(n, e) \in Editors
         /\ n <= e.this => /\ LeftOf(Erase(n, e)) = SubSeq(e.line, 1, e.this - n)
                           /\ RightOf(Erase(n, e)) = RightOf(e)
                           /\ Erase(n, e).this = e.this - n
<1> DEFINE F == [q \in Editors \X (1..n) |-> erase_char(q[1])]
           Is(a) == a = [i \in 0..n |-> IF i = 0 THEN e ELSE erase_char(a[i-1])]
           after == CHOOSE a : Is(a)
           Undone(x, i) == /\ LeftOf(x) = SubSeq(e.line, 1, e.this - i)
                           /\ RightOf(x) = RightOf(e)
                           /\ x.this = e.this - i
           T == {q \in Editors \X (0..n) : n <= e.this => Undone(q[1], q[2])}
<1>1. F \in [Editors \X (1..n) -> Editors]
  BY erase_charKeeps
<1>2. Is(after)
  <2> HIDE DEF F
  <2>1. PICK t \in [0..n -> Editors] : Loop(t, n, Editors, e, F)
    BY <1>1, LoopRuns
  <2>2. ASSUME NEW i \in 1..n PROVE t[i] = erase_char(t[i-1])
    <3>1. t[i-1] \in Editors
      BY <2>1
    <3> QED
      BY <2>1, <3>1 DEF F, Loop
  <2>3. Is(t)
    BY <2>1, <2>2 DEF Loop
  <2> HIDE DEF Is
  <2> QED
    BY <2>3
<1>3. Erase(n, e) = after[n]
  BY DEF Erase, Times
<1>4. Loop(after, n, Editors, e, F)
  <2> HIDE DEF after
  <2>1. after[0] = e
    BY <1>2
  <2>2. ASSUME NEW i \in 1..n, after[i-1] \in Editors PROVE after[i] = F[<<after[i-1], i>>]
    <3>1. i \in 0..n /\ i # 0
      OBVIOUS
    <3>2. after[i] = erase_char(after[i-1])
      BY <1>2, <3>1
    <3> QED
      BY <2>2, <3>2
  <2> QED
    BY <2>1, <2>2 DEF Loop
<1>5. <<e, 0>> \in T
  <2>1. Undone(e, 0)
    BY EditorFacts DEF LeftOf
  <2> HIDE DEF Undone
  <2> QED
    BY <2>1
<1>6. ASSUME NEW x \in Editors, NEW i \in 1..n, <<x, i - 1>> \in T
      PROVE  <<F[<<x, i>>], i>> \in T
  <2> DEFINE y == erase_char(x)
  <2>1. F[<<x, i>>] = y /\ y \in Editors
    BY erase_charKeeps
  <2>2. ASSUME n <= e.this PROVE Undone(y, i)
    <3>1. Undone(x, i - 1)
      BY <1>6, <2>2
    <3>2. e.this \in Nat /\ e.this - (i - 1) > 0 /\ (e.this - (i - 1)) - 1 = e.this - i
          /\ e.this - i \in Nat
      BY <2>2, EditorFacts
    <3>3. /\ RightOf(y) = RightOf(e) /\ y.this = e.this - i
          /\ LeftOf(y) = SubSeq(x.line, 1, e.this - i)
      BY <3>1, <3>2, erase_charKeeps
    <3>4. SubSeq(x.line, 1, e.this - i) = SubSeq(e.line, 1, e.this - i)
      <4> DEFINE m == e.this - i
      <4>1. /\ e.line \in Seq(Letters) /\ x.line \in Seq(Letters) /\ m \in Nat /\ m < x.this
            /\ m <= Len(x.line) /\ m <= Len(e.line) /\ x.this = m + 1
            /\ x.this <= Len(e.line) /\ x.this <= Len(x.line) /\ x.this \in Nat
        BY <3>1, <3>2, EditorFacts
      <4>2. ASSUME NEW k \in 1..m PROVE x.line[k] = e.line[k]
        <5>1. LeftOf(x) = SubSeq(e.line, 1, x.this)
          BY <3>1
        <5>2. k \in 1..x.this /\ (1 + k) - 1 = k /\ (x.this - 1) + 1 = x.this
          BY <4>1
        <5> DEFINE s == e.line
                   p == x.this
        <5>3. SubSeq(s, 1, p)[k] = s[(1 + k) - 1]
          <6>1. s \in Seq(Letters) /\ 1 \in Nat \ {0} /\ p \in Nat /\ p <= Len(s) /\ 1 <= p + 1
                /\ k \in 1..(p - 1) + 1
            BY <4>1, <5>2
          <6> HIDE DEF s, p
          <6> QED
            BY <6>1, Cut
        <5>4. LeftOf(x)[k] = x.line[k]
          BY <5>2, Sides
        <5> QED
          BY <5>1, <5>2, <5>3, <5>4
      <4> DEFINE s == x.line
                 t == e.line
      <4>3. s \in Seq(Letters) /\ t \in Seq(Letters) /\ m \in Nat /\ m <= Len(s) /\ m <= Len(t)
            /\ \A k \in 1..m : s[k] = t[k]
        BY <4>1, <4>2
      <4> HIDE DEF s, t, m
      <4>4. SubSeq(s, 1, m) = SubSeq(t, 1, m)
        BY <4>3, SameBeginning
      <4> QED
        BY <4>4 DEF s, t, m
    <3> QED
      BY <3>3, <3>4
  <2> QED
    BY <2>1, <2>2
<1> HIDE DEF F, Is, after, T
<1>7. after[n] \in Editors /\ <<after[n], n>> \in T
  <2>1. Keeps(F, n, Editors, T)
    BY <1>6 DEF Keeps
  <2> QED
    BY <1>1, <1>4, <1>5, <2>1, LoopKeeps
<1> QED
  BY <1>3, <1>7 DEF T

\* AddAll puts a text before the cursor, as long as the line has room for it.
LEMMA AddAllKeeps ==
  ASSUME NEW e \in Editors, NEW s \in Seq(Letters)
  PROVE  /\ AddAll(e, s) \in Editors
         /\ ~NoRoom(e, s) => /\ LeftOf(AddAll(e, s)) = LeftOf(e) \o s
                             /\ RightOf(AddAll(e, s)) = RightOf(e)
                             /\ AddAll(e, s).this = e.this + Len(s)
<1> DEFINE n == Len(s)
           F == [q \in Editors \X (1..n) |-> addchar(q[1], s[q[2]])]
           Is(a) == a = [i \in 0..n |-> IF i = 0 THEN e ELSE addchar(a[i-1], s[i])]
           after == CHOOSE a : Is(a)
           Put(x, i) == /\ LeftOf(x) = LeftOf(e) \o SubSeq(s, 1, i)
                        /\ RightOf(x) = RightOf(e)
                        /\ Len(x.line) = Len(e.line) + i
                        /\ x.this = e.this + i
           T == {q \in Editors \X (0..n) : ~NoRoom(e, s) => Put(q[1], q[2])}
<1>0. n \in Nat /\ \A i \in 1..n : s[i] \in Letters
  BY LenProperties, ElementOfSeq
<1>1. F \in [Editors \X (1..n) -> Editors]
  BY <1>0, addcharKeeps
<1>2. Is(after)
  <2> HIDE DEF F
  <2>1. PICK t \in [0..n -> Editors] : Loop(t, n, Editors, e, F)
    <3> HIDE DEF n
    <3> QED
      BY <1>0, <1>1, LoopRuns
  <2>2. ASSUME NEW i \in 1..n PROVE t[i] = addchar(t[i-1], s[i])
    <3>1. t[i-1] \in Editors
      BY <1>0, <2>1
    <3> QED
      BY <2>1, <3>1 DEF F, Loop
  <2>3. Is(t)
    BY <2>1, <2>2 DEF Loop
  <2> HIDE DEF Is
  <2> QED
    BY <2>3
<1>3. AddAll(e, s) = after[n]
  BY DEF AddAll, Times
<1>4. Loop(after, n, Editors, e, F)
  <2> HIDE DEF after
  <2>1. after[0] = e
    BY <1>0, <1>2
  <2>2. ASSUME NEW i \in 1..n, after[i-1] \in Editors PROVE after[i] = F[<<after[i-1], i>>]
    <3>1. i \in 0..n /\ i # 0
      BY <1>0
    <3>2. after[i] = addchar(after[i-1], s[i])
      BY <1>2, <3>1
    <3> QED
      BY <2>2, <3>2
  <2> QED
    BY <2>1, <2>2 DEF Loop
<1>5. <<e, 0>> \in T
  <2>1. Put(e, 0)
    <3>1. SubSeq(s, 1, 0) = <<>>
      BY SubSeqEmpty
    <3>2. LeftOf(e) \o <<>> = LeftOf(e)
      BY Sides, ConcatEmptySeq
    <3>3. Len(e.line) \in Nat /\ e.this \in Nat
      BY EditorFacts
    <3>4. Len(e.line) + 0 = Len(e.line) /\ e.this + 0 = e.this
      BY <3>3
    <3> QED
      BY <3>1, <3>2, <3>4
  <2> HIDE DEF Put
  <2> QED
    BY <1>0, <2>1
<1>6. ASSUME NEW x \in Editors, NEW i \in 1..n, <<x, i - 1>> \in T
      PROVE  <<F[<<x, i>>], i>> \in T
  <2> DEFINE y == addchar(x, s[i])
  <2>1. F[<<x, i>>] = y /\ y \in Editors /\ i \in 0..n
    BY <1>0, addcharKeeps
  <2>2. ASSUME ~NoRoom(e, s) PROVE Put(y, i)
    <3>1. Put(x, i - 1)
      BY <1>6, <2>2
    <3>2. Len(e.line) \in Nat /\ e.this \in Nat /\ i \in Nat /\ Len(e.line) + n <= Cap
      BY <1>0, <2>2, EditorFacts DEF NoRoom
    <3>3. Len(x.line) < Cap
      BY <3>1, <3>2, <1>0
    <3>4. /\ LeftOf(y) = Append(LeftOf(x), s[i]) /\ RightOf(y) = RightOf(x)
          /\ Len(y.line) = Len(x.line) + 1 /\ y.this = x.this + 1
      BY <1>0, <3>3, addcharKeeps
    <3>5. Append(LeftOf(x), s[i]) = LeftOf(e) \o SubSeq(s, 1, i)
      <4> DEFINE A == LeftOf(e)
                 B == SubSeq(s, 1, i - 1)
                 c == s[i]
      <4>1. A \in Seq(Letters) /\ <<c>> \in Seq(Letters) /\ c \in Letters
            /\ LeftOf(x) \in Seq(Letters)
        BY <1>0, Sides
      <4>2. B \in Seq(Letters) /\ SubSeq(s, 1, i) = B \o <<c>>
        <5>1. 1 \in Nat \ {0} /\ i - 1 \in Nat /\ i - 1 <= Len(s) /\ 1 <= (i - 1) + 1
              /\ 1 \in 1..Len(s) /\ i \in 1..Len(s)
          BY <1>0
        <5> HIDE DEF n
        <5>2. B \in Seq(Letters)
          BY <5>1, Cut
        <5>3. SubSeq(s, 1, i) = B \o <<c>>
          BY <5>1, SubSeqRecursiveSecond
        <5> QED
          BY <5>2, <5>3
      <4>3. LeftOf(x) = A \o B
        BY <3>1
      <4> HIDE DEF A, B, c
      <4>4. Append(LeftOf(x), c) = (A \o B) \o <<c>>
        BY <4>1, <4>3, AppendIsConcat
      <4>5. (A \o B) \o <<c>> = A \o (B \o <<c>>)
        <5> DEFINE d == <<c>>
        <5>1. A \in Seq(Letters) /\ B \in Seq(Letters) /\ d \in Seq(Letters)
          BY <4>1, <4>2
        <5> HIDE DEF d
        <5>2. (A \o B) \o d = A \o (B \o d)
          BY ONLY <5>1, ConcatAssociative
        <5> QED
          BY <5>2 DEF d
      <4> QED
        BY <4>2, <4>4, <4>5 DEF A, c
    <3>6. Len(y.line) = Len(e.line) + i /\ y.this = e.this + i /\ RightOf(y) = RightOf(e)
      <4> HIDE DEF y
      <4> QED
        BY <3>1, <3>2, <3>4
    <3>7. LeftOf(y) = LeftOf(e) \o SubSeq(s, 1, i)
      <4> HIDE DEF y
      <4> QED
        BY <3>4, <3>5
    <3> QED
      BY <3>6, <3>7
  <2> HIDE DEF y, Put
  <2> QED
    BY <2>1, <2>2
<1>7. after[n] \in Editors /\ <<after[n], n>> \in T
  <2> HIDE DEF F, Is, after, T, n
  <2>1. Keeps(F, n, Editors, T)
    BY <1>6 DEF Keeps
  <2> QED
    BY <1>0, <1>1, <1>4, <1>5, <2>1, LoopKeeps
<1>8. SubSeq(s, 1, n) = s
  BY SubSeqFull
<1> HIDE DEF F, Is, after
<1>9. ~NoRoom(e, s) => Put(after[n], n)
  BY <1>7
<1> QED
  BY <1>3, <1>7, <1>8, <1>9

LEMMA MovesKeep ==
  ASSUME NEW e \in Editors
  PROVE  forward_char(e) \in Editors /\ backward_char(e) \in Editors
<1>1. e.this = Len(e.line) \/ e.this + 1 \in 0..Len(e.line)
  BY EditorFacts
<1>2. e.this = 0 \/ e.this - 1 \in 0..Len(e.line)
  BY EditorFacts
<1> QED
  BY <1>1, <1>2, GoToKeeps DEF forward_char, backward_char

\* What the kill key leaves, forward_char and erase_char in turn, is a line on its screen.
LEMMA KillKeeps ==
  ASSUME NEW e \in Editors, NEW n \in Nat
  PROVE  Kill(n, e) \in Editors
<1> DEFINE Op(x) == erase_char(forward_char(x))
           F == [q \in Editors \X (1..n) |-> Op(q[1])]
           Is(a) == a = [i \in 0..n |-> IF i = 0 THEN e ELSE Op(a[i-1])]
           after == CHOOSE a : Is(a)
           T == Editors \X (0..n)
<1>1. \A x \in Editors : Op(x) \in Editors
  BY MovesKeep, erase_charKeeps
<1>2. Kill(n, e) = after[n]
  BY DEF Kill, Times
<1> HIDE DEF Op
<1>3. F \in [Editors \X (1..n) -> Editors]
  BY <1>1
<1>4. Is(after)
  <2> HIDE DEF F
  <2>1. PICK t \in [0..n -> Editors] : Loop(t, n, Editors, e, F)
    BY <1>3, LoopRuns
  <2>2. ASSUME NEW i \in 1..n PROVE t[i] = Op(t[i-1])
    <3>1. t[i-1] \in Editors
      BY <2>1
    <3> QED
      BY <2>1, <3>1 DEF F, Loop
  <2>3. Is(t)
    BY <2>1, <2>2 DEF Loop
  <2> HIDE DEF Is
  <2> QED
    BY <2>3
<1>5. Loop(after, n, Editors, e, F)
  <2> HIDE DEF after
  <2>1. after[0] = e
    BY <1>4
  <2>2. ASSUME NEW i \in 1..n, after[i-1] \in Editors PROVE after[i] = F[<<after[i-1], i>>]
    <3>1. i \in 0..n /\ i # 0
      OBVIOUS
    <3>2. after[i] = Op(after[i-1])
      BY <1>4, <3>1
    <3> QED
      BY <2>2, <3>2
  <2> QED
    BY <2>1, <2>2 DEF Loop
<1>6. <<e, 0>> \in T /\ Keeps(F, n, Editors, T)
  BY <1>1 DEF Keeps
<1> HIDE DEF F, Is, after, T
<1> QED
  BY <1>2, <1>3, <1>5, <1>6, LoopKeeps

-----------------------------------------------------------------------------
(***************************************************************************)
(* The places that the moves go to.                                        *)
(***************************************************************************)
LEMMA MinIn ==
  ASSUME NEW T \in SUBSET Nat, T # {}
  PROVE  Min(T) \in T /\ \A x \in T : Min(T) <= x
BY NatLeast DEF Min

LEMMA MaxIn ==
  ASSUME NEW n \in Nat, NEW T \in SUBSET (0..n), T # {}
  PROVE  Max(T) \in T /\ \A x \in T : x <= Max(T)
<1> DEFINE U == {n - x : x \in T}
<1>1. U \in SUBSET Nat /\ U # {}
  <2>1. \A x \in T : n - x \in Nat
    OBVIOUS
  <2>2. PICK x \in T : TRUE
    OBVIOUS
  <2>3. n - x \in U
    OBVIOUS
  <2>4. \A y \in U : y \in Nat
    BY <2>1
  <2> HIDE DEF U
  <2> QED
    BY <2>3, <2>4
<1>2. PICK y \in U : \A z \in U : y <= z
  <2> HIDE DEF U
  <2> QED
    BY <1>1, NatLeast
<1>3. PICK x \in T : y = n - x
  BY <1>2
<1>4. ASSUME NEW z \in T PROVE x >= z
  <2>1. n - x <= n - z
    BY <1>2, <1>3
  <2>2. x \in Nat /\ z \in Nat
    OBVIOUS
  <2> QED
    BY <2>1, <2>2
<1>5. \E m \in T : \A z \in T : m >= z
  BY <1>4
<1>6. Max(T) \in T /\ \A z \in T : Max(T) >= z
  BY <1>5 DEF Max
<1> QED
  BY <1>6

LEMMA WordStartIn ==
  ASSUME NEW e \in Editors, NEW p \in Nat
  PROVE  WordStart(e, p) \in 0..p
<1> DEFINE T == {q \in 0..p : q = 0 \/ AfterSpace(e, q)}
<1>1. 0 \in T
  OBVIOUS
<1>2. T \in SUBSET (0..p)
  OBVIOUS
<1> HIDE DEF T
<1>3. Max(T) \in T
  BY <1>1, <1>2, MaxIn
<1> QED
  BY <1>3 DEF WordStart, T

LEMMA WordEndIn ==
  ASSUME NEW e \in Editors, NEW p \in 0..Len(e.line)
  PROVE  WordEnd(e, p) \in p..Len(e.line)
<1> DEFINE T == {q \in p..Len(e.line) : q = Len(e.line) \/ BeforeSpace(e, q)}
<1>1. Len(e.line) \in T /\ T \in SUBSET Nat
  BY EditorFacts
<1> HIDE DEF T
<1>2. Min(T) \in T
  BY <1>1, MinIn
<1> QED
  BY <1>2 DEF WordEnd, T

LEMMA WordMovesKeep ==
  ASSUME NEW e \in Editors
  PROVE  /\ forward_word(e) \in Editors /\ backward_word(e) \in Editors
         /\ erase_word(e) \in Editors /\ erase_line(e) \in Editors
         /\ ToWordEnd(e) \in Editors /\ ToWordEnd(e).line = e.line
<1> DEFINE len == Len(e.line)
<1>1. len \in Nat /\ e.this \in 0..len
  BY EditorFacts
<1>2. forward_word(e) \in Editors
  <2> DEFINE T == {p \in e.this..len : ~BeforeSpace(e, p)}
             word == Min(T)
             U == {p \in word..len : p = len \/ BeforeSpace(e, p)}
  <2>1. T \in SUBSET Nat /\ len \in T
    BY <1>1 DEF BeforeSpace
  <2>2. word \in T
    <3> HIDE DEF T
    <3> QED
      BY <2>1, MinIn
  <2>3. word \in 0..len
    BY <1>1, <2>2
  <2> HIDE DEF word
  <2>4. U \in SUBSET Nat /\ len \in U
    BY <1>1, <2>3
  <2>5. Min(U) \in U
    <3> HIDE DEF U
    <3> QED
      BY <2>4, MinIn
  <2>6. Min(U) \in 0..len
    BY <1>1, <2>3, <2>5
  <2>7. forward_word(e) = GoTo(e, Min(U))
    BY DEF forward_word, word
  <2> HIDE DEF U
  <2> QED
    BY <2>6, <2>7, GoToKeeps
<1>3. backward_word(e) \in Editors
  <2> DEFINE atWord == e.this < len /\ ~BeforeSpace(e, e.this) /\ AfterSpace(e, e.this)
             from == IF atWord THEN e.this - 1 ELSE e.this
             T == {p \in 0..from : p = 0 \/ ~BeforeSpace(e, p)}
  <2>1. from \in 0..len
    <3>1. atWord => e.this > 0
      BY DEF AfterSpace
    <3> HIDE DEF atWord
    <3> QED
      BY <1>1, <3>1
  <2>2. backward_word(e) = GoTo(e, WordStart(e, Max(T)))
    BY DEF backward_word
  <2> HIDE DEF from
  <2>3. 0 \in T /\ T \in SUBSET (0..from)
    BY <1>1, <2>1
  <2>4. Max(T) \in 0..len
    <3>1. Max(T) \in T
      <4>1. from \in Nat
        BY <1>1, <2>1
      <4> HIDE DEF T
      <4> QED
        BY <2>3, <4>1, MaxIn
    <3> QED
      BY <1>1, <2>1, <3>1
  <2> HIDE DEF T
  <2>5. WordStart(e, Max(T)) \in 0..len
    BY <1>1, <2>4, WordStartIn
  <2> QED
    BY <2>2, <2>5, GoToKeeps
<1>4. erase_word(e) \in Editors
  <2> DEFINE T == {p \in 0..e.this : p = 0 \/ ~AfterSpace(e, p)}
  <2>1. 0 \in T /\ T \in SUBSET (0..e.this)
    BY <1>1
  <2>2. Max(T) \in 0..e.this
    <3>1. Max(T) \in T
      <4>1. e.this \in Nat
        BY <1>1
      <4> HIDE DEF T
      <4> QED
        BY <2>1, <4>1, MaxIn
    <3> QED
      BY <3>1
  <2>3. erase_word(e) = Erase(e.this - WordStart(e, Max(T)), e)
    BY DEF erase_word
  <2> HIDE DEF T
  <2>4. e.this - WordStart(e, Max(T)) \in Nat
    <3> DEFINE at == Max(T)  from == WordStart(e, at)
    <3>1. e.this \in 0..len /\ at \in 0..e.this
      BY <1>1, <2>2
    <3>2. from \in 0..at
      BY <3>1, WordStartIn
    <3> HIDE DEF at, from
    <3>3. e.this - from \in Nat
      BY <3>1, <3>2
    <3> QED
      BY <3>3 DEF at, from
  <2> QED
    BY <2>3, <2>4, EraseKeeps
<1>5. erase_line(e) \in Editors
  <2>1. GoTo(e, len) \in Editors
    BY <1>1, GoToKeeps
  <2> QED
    BY <1>1, <2>1, EraseKeeps DEF erase_line
<1>6. ToWordEnd(e) \in Editors /\ ToWordEnd(e).line = e.line
  <2>1. WordEnd(e, WordStart(e, e.this)) \in 0..len
    <3>1. WordStart(e, e.this) \in 0..len
      BY <1>1, WordStartIn
    <3> QED
      BY <1>1, <3>1, WordEndIn
  <2> QED
    BY <2>1, GoToKeeps DEF ToWordEnd
<1> QED
  BY <1>2, <1>3, <1>4, <1>5, <1>6
-----------------------------------------------------------------------------
(***************************************************************************)
(* The history array of the line editor.                                   *)
(***************************************************************************)

USE HistoryAssumption

\* An array and a length of which HistoryTypeOK and HistoryWhole are true.
WholeArray(cells, n) ==
  /\ cells \in [Index -> Letters \union {Nul}] /\ n \in 0..MaxHistory
  /\ cells[MaxHistory-1] = Nul
  /\ n # 0 => cells[n-1] = Nul
  /\ \A i \in n..MaxHistory-1 : cells[i] = Nul

\* validate_history keeps the array or empties it.
LEMMA ValidWhole ==
  ASSUME WholeArray(lastline, saved_length)
  PROVE  WholeArray(ValidLine, ValidLength)
BY DEF WholeArray, ValidLine, ValidLength, Index

\* A line that is found ends before what the length covers does.
LEMMA FoundInside ==
  ASSUME NEW cells, NEW n, WholeArray(cells, n),
         NEW line \in Seq(Letters), line # <<>>,
         NEW p \in Found(cells, line)
  PROVE  /\ p \in Nat /\ Len(line) \in Nat \ {0}
         /\ p + Len(line) < n /\ n <= MaxHistory
<1> DEFINE len == Len(line)
<1>1. len \in Nat \ {0}
  OBVIOUS
<1>2. p \in Index /\ p + len < MaxHistory
  BY DEF Found, Starts
<1>3. line[len] \in Letters /\ cells[p+len-1] = line[len]
  BY <1>1 DEF Found
<1>4. cells[p+len-1] # Nul
  BY <1>3
<1>5. p + len - 1 < n
  BY <1>1, <1>2, <1>4 DEF WholeArray, Index
<1>6. p + len # n
  BY <1>1, <1>2, <1>4 DEF WholeArray, Index
<1>7. p \in Nat /\ n \in Nat /\ n <= MaxHistory
  BY <1>2 DEF Index, WholeArray
<1>8. p + len < n
  <2> HIDE DEF len
  <2> QED
    BY ONLY <1>1, <1>5, <1>6, <1>7
<1> QED
  BY <1>1, <1>7, <1>8

\* A line that moves to the front takes the place up to its old terminator.
LEMMA MoveKeepsWhole ==
  ASSUME NEW cells, NEW n, WholeArray(cells, n),
         NEW line \in Seq(Letters), line # <<>>,
         NEW p \in Found(cells, line)
  PROVE  WholeArray(MoveToFront(cells, p, line), n)
<1> DEFINE len == Len(line)
           moved == MoveToFront(cells, p, line)
<1>1. /\ p \in Nat /\ len \in Nat \ {0} /\ p + len < n
      /\ n \in Nat /\ n <= MaxHistory
  <2>1. /\ p \in Nat /\ Len(line) \in Nat \ {0}
        /\ p + Len(line) < n /\ n <= MaxHistory
    BY FoundInside
  <2> QED
    BY <2>1 DEF WholeArray
<1>2. moved \in [Index -> Letters \union {Nul}]
  <2> SUFFICES ASSUME NEW i \in Index
               PROVE  moved[i] \in Letters \union {Nul} 
    BY DEF MoveToFront
  <2>1. CASE i < len
    <3>1. moved[i] = line[i+1]
      BY <2>1 DEF MoveToFront
    <3>2. i + 1 \in 1..Len(line)
      BY <2>1, <1>1 DEF Index
    <3> QED
      BY <3>1, <3>2
  <2>2. CASE i = len
    BY <2>2, <1>1 DEF MoveToFront
  <2>3. CASE i > len /\ i < p + len
    BY <2>3, <1>1 DEF MoveToFront, WholeArray, Index
  <2>4. CASE i > len /\ i >= p + len
    BY <2>4, <1>1 DEF MoveToFront, WholeArray, Index
  <2> QED
    BY <2>1, <2>2, <2>3, <2>4, <1>1 DEF Index
<1>3. ASSUME NEW i \in Index, i >= p + len
      PROVE  moved[i] = Nul \/ moved[i] = cells[i]
  BY <1>1, <1>3 DEF MoveToFront, Index
<1>4. moved[MaxHistory-1] = Nul /\ moved[n-1] = Nul
  BY <1>1, <1>3 DEF WholeArray, Index
<1>5. \A i \in n..MaxHistory-1 : moved[i] = Nul
  BY <1>1, <1>3 DEF WholeArray, Index
<1> QED
  BY <1>1, <1>2, <1>4, <1>5 DEF WholeArray

\* A new line shifts the others, and the last cell becomes a terminator.
LEMMA PrependKeepsWhole ==
  ASSUME NEW cells, NEW n, WholeArray(cells, n),
         NEW line \in Seq(Letters), line # <<>>
  PROVE  WholeArray(Prepend(cells, line), Capped(n + NewLength(line)))
<1> DEFINE new == NewLength(line)
           front == Prepend(cells, line)
           m == Capped(n + new)
<1>1. /\ Len(line) \in Nat \ {0} /\ n \in Nat /\ n <= MaxHistory
      /\ new \in 1..MaxHistory /\ new <= Len(line) + 1
      /\ m \in 1..MaxHistory /\ (m = n + new \/ (m = MaxHistory /\ m <= n + new))
  BY DEF NewLength, Capped, WholeArray
<1>2. ASSUME NEW i \in Index
      PROVE  front[i] = IF i = new - 1 \/ i = MaxHistory - 1 THEN Nul
                        ELSE IF i < new THEN line[i+1] ELSE cells[i-new]
  BY DEF Prepend
<1> HIDE DEF new, front, m
<1>3. front \in [Index -> Letters \union {Nul}]
  <2>1. front = [i \in Index |-> front[i]]
    BY DEF front, Prepend
  <2> SUFFICES ASSUME NEW i \in Index
               PROVE  front[i] \in Letters \union {Nul}
    BY <2>1
  <2>2. CASE i = new - 1 \/ i = MaxHistory - 1
    BY <2>2, <1>2
  <2>3. CASE i < new - 1 /\ i # MaxHistory - 1
    <3>1. front[i] = line[i+1]
      BY <2>3, <1>1, <1>2 DEF Index
    <3>2. i + 1 \in 1..Len(line)
      BY <2>3, <1>1 DEF Index
    <3> QED
      BY <3>1, <3>2
  <2>4. CASE i >= new /\ i # MaxHistory - 1
    <3>1. front[i] = cells[i-new] /\ i - new \in Index
      BY <2>4, <1>1, <1>2 DEF Index
    <3> QED
      BY <3>1 DEF WholeArray
  <2> QED
    BY <2>2, <2>3, <2>4, <1>1 DEF Index
<1>4. front[MaxHistory-1] = Nul
  BY <1>2 DEF Index
<1>5. front[m-1] = Nul
  <2>1. CASE m = MaxHistory
    BY <2>1, <1>4
  <2>2. CASE m < MaxHistory /\ n = 0
    BY <2>2, <1>1, <1>2 DEF Index
  <2>3. CASE m < MaxHistory /\ n # 0
    <3>1. m = n + new /\ m - 1 \in Index /\ m - 1 >= new /\ (m - 1) - new = n - 1
      BY <2>3, <1>1 DEF Index
    <3> DEFINE j == m - 1
    <3>2. j \in Index /\ j >= new /\ j # new - 1 /\ j # MaxHistory - 1 /\ ~(j < new)
      BY <3>1, <2>3, <1>1
    <3> HIDE DEF j
    <3>3. front[j] = cells[j-new]
      BY <3>2, <1>2
    <3>4. cells[n-1] = Nul
      BY <2>3 DEF WholeArray
    <3> QED
      BY <3>1, <3>3, <3>4 DEF j
  <2> QED
    BY <2>1, <2>2, <2>3, <1>1
<1>6. ASSUME NEW i \in m..MaxHistory-1
      PROVE  front[i] = Nul
  <2>1. CASE i = MaxHistory - 1
    BY <2>1, <1>4
  <2>2. CASE i # MaxHistory - 1
    <3>1. m = n + new /\ i \in Index /\ i >= new /\ i - new \in n..MaxHistory-1
      BY <2>2, <1>1, <1>6 DEF Index
    <3>2. front[i] = cells[i-new]
      BY <3>1, <2>2, <1>1, <1>2
    <3> QED
      BY <3>1, <3>2 DEF WholeArray
  <2> QED
    BY <2>1, <2>2
<1> QED
  BY <1>1, <1>3, <1>4, <1>5, <1>6 DEF WholeArray, m, front, new

\* The invariant of the array.
ArrayWhole == WholeArray(lastline, saved_length)

LEMMA InitWhole == HistoryInit => ArrayWhole
BY DEF HistoryInit, ArrayWhole, WholeArray, Index

\* Each step of the history, with any line, keeps the array whole.
LEMMA NextWhole == ArrayWhole /\ [HistoryNext]_history => ArrayWhole'
<1> SUFFICES ASSUME ArrayWhole, [HistoryNext]_history
             PROVE  ArrayWhole'
  OBVIOUS
<1>1. WholeArray(ValidLine, ValidLength)
  BY ValidWhole DEF ArrayWhole
<1>2. CASE Validate
  BY <1>1, <1>2 DEF Validate, ArrayWhole
<1>3. CASE \E line \in Seq(Letters) : AddToHistory(line)
  <2>1. PICK line \in Seq(Letters) : AddToHistory(line)
    BY <1>3
  <2>2. CASE line = <<>> /\ Validate
    BY <1>1, <2>2 DEF Validate, ArrayWhole
  <2>3. CASE line # <<>> /\ Remembered(line)
    <3>1. PICK p \in Found(ValidLine, line) : lastline' = MoveToFront(ValidLine, p, line)
      BY <2>1, <2>3 DEF AddToHistory
    <3>2. saved_length' = ValidLength
      BY <2>1, <2>3 DEF AddToHistory
    <3> QED
      BY <1>1, <2>3, <3>1, <3>2, MoveKeepsWhole DEF ArrayWhole
  <2>4. CASE line # <<>> /\ ~Remembered(line)
    <3>1. /\ lastline' = Prepend(ValidLine, line)
          /\ saved_length' = Capped(ValidLength + NewLength(line))
      BY <2>1, <2>4 DEF AddToHistory
    <3> QED
      BY <1>1, <2>4, <3>1, PrependKeepsWhole DEF ArrayWhole
  <2> QED
    BY <2>1, <2>2, <2>3, <2>4 DEF AddToHistory
<1>4. CASE UNCHANGED history
  BY <1>4 DEF history, ArrayWhole
<1> QED
  BY <1>2, <1>3, <1>4 DEF HistoryNext

\* Whatever lines are added, found again or lost, the scans of the array end in it and find
\* whole lines (add_to_history, already_in_history, validate_history).
THEOREM HistoryAlwaysWhole == HistorySpec => [](HistoryTypeOK /\ HistoryWhole)
<1>1. ArrayWhole => HistoryTypeOK /\ HistoryWhole
  BY DEF ArrayWhole, WholeArray, HistoryTypeOK, HistoryWhole
<1> QED
  BY <1>1, InitWhole, NextWhole, PTL DEF HistorySpec

-----------------------------------------------------------------------------
(***************************************************************************)
(* What get_history finds.                                                 *)
(***************************************************************************)
LEMMA EndIs ==
  ASSUME NEW cells, NEW n, WholeArray(cells, n), NEW p \in Index
  PROVE  /\ End(cells, p) \in p..MaxHistory-1 /\ cells[End(cells, p)] = Nul
         /\ \A i \in p..End(cells, p)-1 : cells[i] # Nul
<1> DEFINE T == {e \in p..MaxHistory-1 : cells[e] = Nul}
<1>1. p \in Nat /\ MaxHistory \in Nat /\ p <= MaxHistory - 1
  BY DEF Index
<1>2. T \in SUBSET Nat /\ MaxHistory - 1 \in T
  BY <1>1 DEF WholeArray
<1>3. PICK e \in T : \A x \in T : e <= x
  <2> HIDE DEF T
  <2> QED
    BY <1>2, NatLeast
<1>4. ASSUME NEW i \in p..e-1, cells[i] = Nul PROVE FALSE
  <2>1. e \in Nat /\ e <= MaxHistory - 1 /\ i \in Nat
    BY <1>1
  <2>2. i \in T /\ ~(e <= i)
    BY <1>1, <1>4, <2>1
  <2> QED
    BY <1>3, <2>2
<1>5. e \in p..MaxHistory-1 /\ cells[e] = Nul /\ \A i \in p..e-1 : cells[i] # Nul
  BY <1>4
<1> QED
  BY <1>5 DEF End

LEMMA TextAtTyped ==
  ASSUME NEW cells, NEW n, WholeArray(cells, n), NEW p \in Index
  PROVE  TextAt(cells, p) \in Seq(Letters)
<1> DEFINE e == End(cells, p)
           len == e - p
<1>1. e \in p..MaxHistory-1 /\ \A i \in p..e-1 : cells[i] # Nul
  BY EndIs
<1>2. p \in Nat /\ MaxHistory \in Nat
  BY DEF Index
<1> HIDE DEF e
<1>3. len \in Nat
  BY <1>1, <1>2
<1>4. ASSUME NEW i \in 1..len PROVE cells[p+i-1] \in Letters
  <2>1. p+i-1 \in p..e-1 /\ p+i-1 \in Index
    BY <1>1, <1>2 DEF Index
  <2>2. cells[p+i-1] \in Letters \union {Nul}
    BY <2>1 DEF WholeArray
  <2> QED
    BY <1>1, <2>1, <2>2
<1>5. TextAt(cells, p) = [i \in 1..len |-> cells[p+i-1]]
  BY DEF TextAt, e
<1> HIDE DEF len
<1> QED
  BY <1>3, <1>4, <1>5

\* A finite set of numbers has one with n others below it.
LEMMA NthExists ==
  ASSUME NEW S \in SUBSET Nat, IsFiniteSet(S), NEW n \in Nat, n < Cardinality(S)
  PROVE  \E p \in S : Cardinality({q \in S : q < p}) = n
<1> DEFINE Below(p) == {q \in S : q < p}
           T == {m \in Nat : m < Cardinality(S) => \E p \in S : Cardinality(Below(p)) = m}
<1>0. Cardinality(S) \in Nat
  BY FS_CardinalityType
<1>1. 0 \in T
  <2> SUFFICES ASSUME 0 < Cardinality(S)
               PROVE  \E p \in S : Cardinality(Below(p)) = 0
    OBVIOUS
  <2>1. S # {}
    BY FS_EmptySet
  <2>2. PICK p \in S : \A y \in S : p <= y
    BY <2>1, NatLeast
  <2>3. ASSUME NEW q \in S PROVE ~(q < p)
    <3>1. p \in Nat /\ q \in Nat /\ p <= q
      BY <2>2
    <3> QED
      BY <3>1
  <2>4. Below(p) = {}
    BY <2>3
  <2> HIDE DEF Below
  <2> QED
    BY <2>4, FS_EmptySet
<1>2. ASSUME NEW m \in Nat, m \in T, m + 1 < Cardinality(S)
      PROVE  \E p \in S : Cardinality(Below(p)) = m + 1
  <2>1. PICK p \in S : Cardinality(Below(p)) = m
    BY <1>0, <1>2
  <2> DEFINE U == Below(p) \union {p}
             V == S \ U
  <2>2. IsFiniteSet(U) /\ Cardinality(U) = m + 1
    <3>1. IsFiniteSet(Below(p)) /\ p \notin Below(p)
      BY FS_Subset
    <3> HIDE DEF Below
    <3> QED
      BY <2>1, <3>1, FS_AddElement
  <2>3. V # {}
    <3>1. U \subseteq S
      OBVIOUS
    <3>2. V = {} => U = S
      BY <3>1
    <3> HIDE DEF U, V
    <3> QED
      BY <1>2, <2>2, <3>2
  <2>4. PICK r \in V : \A y \in V : r <= y
    <3>1. V \in SUBSET Nat
      OBVIOUS
    <3> HIDE DEF V
    <3> QED
      BY <2>3, <3>1, NatLeast
  <2>5. r \in S /\ r > p
    OBVIOUS
  <2>6. Below(r) = U
    <3>1. ASSUME NEW q \in S, q < r PROVE q \in U
      BY <2>4, <3>1
    <3>2. ASSUME NEW q \in U PROVE q \in S /\ q < r
      BY <2>5
    <3> QED
      BY <3>1, <3>2
  <2> HIDE DEF U, Below
  <2> QED
    BY <2>2, <2>5, <2>6
<1> HIDE DEF Below
<1>3. \A m \in Nat : m \in T => m + 1 \in T
  BY <1>2
<1>4. \A m \in Nat : m \in T
  <2> HIDE DEF T
  <2> QED
    BY <1>1, <1>3, Induct
<1> QED
  BY <1>4 DEF Below

\* A line got back from the history is a line, cut to the room there is.
LEMMA RecalledTyped ==
  ASSUME ArrayWhole, NEW n \in Int, InHistory(n)
  PROVE  Recalled(n) \in Seq(Letters) /\ n \in 0..MaxHistory-1
<1> DEFINE S == Starts(ValidLine)
           L == LinesIn(ValidLine, ValidLength)
<1>1. WholeArray(ValidLine, ValidLength)
  BY ValidWhole DEF ArrayWhole
<1>2. IsFiniteSet(Index) /\ Cardinality(Index) = MaxHistory
  BY FS_Interval DEF Index
<1>3. S \in SUBSET Index /\ L \in SUBSET S /\ Index \in SUBSET Nat
  BY DEF Starts, LinesIn, Index
<1>4. n \in 0..Cardinality(L) - 1
  BY DEF InHistory
<1> HIDE DEF S, L
<1>5. /\ IsFiniteSet(S) /\ Cardinality(S) <= MaxHistory /\ Cardinality(S) \in Nat
      /\ Cardinality(L) <= Cardinality(S) /\ Cardinality(L) \in Nat
  <2>1. IsFiniteSet(S) /\ Cardinality(S) <= MaxHistory
    BY <1>2, <1>3, FS_Subset
  <2>2. IsFiniteSet(L) /\ Cardinality(L) <= Cardinality(S)
    BY <1>3, <2>1, FS_Subset
  <2> QED
    BY <2>1, <2>2, FS_CardinalityType
<1>6. n \in Nat /\ n < Cardinality(S) /\ n <= MaxHistory - 1
  BY <1>4, <1>5
<1>7. S \in SUBSET Nat
  BY <1>3
<1>8. \E p \in S : Cardinality({q \in S : q < p}) = n
  BY <1>5, <1>6, <1>7, NthExists
<1>9. Nth(ValidLine, n) \in S
  BY <1>8 DEF Nth, S
<1>10. Nth(ValidLine, n) \in Index
  BY <1>3, <1>9
<1>11. TextAt(ValidLine, Nth(ValidLine, n)) \in Seq(Letters)
  <2> DEFINE p == Nth(ValidLine, n)
             cells == ValidLine
             len == ValidLength
  <2>1. p \in Index /\ WholeArray(cells, len)
    BY <1>1, <1>10
  <2> HIDE DEF p, cells, len
  <2>2. TextAt(cells, p) \in Seq(Letters)
    BY <2>1, TextAtTyped
  <2> QED
    BY <2>2 DEF p, cells
<1> QED
  BY <1>6, <1>11 DEF Recalled

-----------------------------------------------------------------------------
(***************************************************************************)
(* Completion.                                                             *)
(***************************************************************************)

\* The names that begin with word.
Beginning(word) == {name \in Seq(Letters) : IsPrefix(word, name)}

LEMMA MatchesTyped ==
  ASSUME NEW word \in Seq(Letters)
  PROVE  Matches(word) \in Seq(Beginning(word)) /\ Len(Matches(word)) \in 0..Len(Names)
<1> DEFINE n == Len(Names)
           G == Seq(Beginning(word))
           Op(x, i) == IF IsPrefix(word, Names[i]) THEN Append(x, Names[i]) ELSE x
           F == [q \in G \X (1..n) |-> Op(q[1], q[2])]
           Is(a) == a = [i \in 0..n |-> IF i = 0 THEN <<>> ELSE Op(a[i-1], i)]
           after == CHOOSE a : Is(a)
           T == {q \in G \X (0..n) : Len(q[1]) <= q[2]}
<1>0. n \in Nat /\ \A i \in 1..n : Names[i] \in Seq(Letters)
  BY LenProperties, ElementOfSeq
<1>1. ASSUME NEW x \in G, NEW i \in 1..n
      PROVE  /\ Op(x, i) \in G /\ Len(x) \in Nat
             /\ Len(Op(x, i)) = Len(x) \/ Len(Op(x, i)) = Len(x) + 1
  <2> DEFINE B == Beginning(word)
             name == Names[i]
  <2>1. x \in Seq(B) /\ Len(x) \in Nat
    BY LenProperties
  <2>2. CASE IsPrefix(word, name)
    <3>1. name \in B
      BY <1>0, <2>2 DEF Beginning
    <3> HIDE DEF B, name
    <3>2. Append(x, name) \in Seq(B) /\ Len(Append(x, name)) = Len(x) + 1
      BY <2>1, <3>1, AppendProperties
    <3> QED
      BY <2>1, <2>2, <3>2 DEF B, name
  <2>3. CASE ~IsPrefix(word, name)
    BY <2>1, <2>3
  <2> QED
    BY <2>2, <2>3
<1>2. Matches(word) = after[n]
  BY DEF Matches, Times
<1>3. <<>> \in G
  OBVIOUS
<1> HIDE DEF Op, G, n
<1>4. F \in [G \X (1..n) -> G]
  BY <1>1
<1>5. Is(after)
  <2> HIDE DEF F
  <2>1. PICK t \in [0..n -> G] : Loop(t, n, G, <<>>, F)
    BY <1>0, <1>3, <1>4, LoopRuns
  <2>2. ASSUME NEW i \in 1..n PROVE t[i] = Op(t[i-1], i)
    <3>1. t[i-1] \in G
      BY <1>0, <2>1
    <3> QED
      BY <2>1, <3>1 DEF F, Loop
  <2>3. Is(t)
    BY <2>1, <2>2 DEF Loop
  <2> HIDE DEF Is
  <2> QED
    BY <2>3
<1>6. Loop(after, n, G, <<>>, F)
  <2> HIDE DEF after
  <2>1. after[0] = <<>>
    BY <1>0, <1>5
  <2>2. ASSUME NEW i \in 1..n, after[i-1] \in G PROVE after[i] = F[<<after[i-1], i>>]
    <3>1. i \in 0..n /\ i # 0
      BY <1>0
    <3>2. after[i] = Op(after[i-1], i)
      BY <1>5, <3>1
    <3> QED
      BY <2>2, <3>2
  <2> QED
    BY <2>1, <2>2 DEF Loop
<1>7. <<<<>>, 0>> \in T
  BY <1>0, <1>3
<1>8. Keeps(F, n, G, T)
  <2> SUFFICES ASSUME NEW x \in G, NEW i \in 1..n, <<x, i - 1>> \in T
               PROVE  <<F[<<x, i>>], i>> \in T
    BY DEF Keeps
  <2>1. F[<<x, i>>] = Op(x, i)
    OBVIOUS
  <2>2. Len(Op(x, i)) <= i /\ Op(x, i) \in G /\ i \in 0..n
    BY <1>0, <1>1
  <2> QED
    BY <2>1, <2>2
<1> HIDE DEF F, Is, after, T
<1>9. after[n] \in G /\ <<after[n], n>> \in T
  BY <1>0, <1>3, <1>4, <1>6, <1>7, <1>8, LoopKeeps
<1>10. Len(after[n]) <= n
  BY <1>9 DEF T
<1>11. Len(after[n]) \in Nat
  BY <1>9, LenProperties DEF G
<1> QED
  BY <1>0, <1>2, <1>9, <1>10, <1>11 DEF G, n

\* What is behind the word in a name that begins with it.
LEMMA BehindTyped ==
  ASSUME NEW word \in Seq(Letters), NEW name \in Beginning(word)
  PROVE  /\ name \in Seq(Letters) /\ Len(name) >= Len(word) /\ Len(name) \in Nat
         /\ Behind(name, Len(word)) \in Seq(Letters)
         /\ Len(Behind(name, Len(word))) = Len(name) - Len(word)
         /\ SubSeq(name, 1, Len(word)) = word
<1> DEFINE from == Len(word) + 1
           to == Len(name)
<1>1. name \in Seq(Letters) /\ Len(word) <= Len(name)
      /\ SubSeq(word, 1, Len(word)) = SubSeq(name, 1, Len(word))
  BY DEF Beginning, IsPrefix
<1>2. Len(word) \in Nat /\ Len(name) \in Nat
  BY <1>1, LenProperties
<1>3. /\ from \in Nat \ {0} /\ to \in Nat /\ to <= Len(name) /\ from <= to + 1
      /\ (to - from) + 1 = Len(name) - Len(word)
  BY <1>1, <1>2
<1>4. Behind(name, Len(word)) = SubSeq(name, from, to)
  BY DEF Behind
<1> HIDE DEF from, to
<1>5. SubSeq(name, from, to) \in Seq(Letters) /\ Len(SubSeq(name, from, to)) = (to - from) + 1
  BY <1>1, <1>3, Cut
<1> QED
  BY <1>1, <1>2, <1>3, <1>4, <1>5, SubSeqFull

\* As many names begin with what the names in common begin with.
LEMMA CommonMatches ==
  ASSUME NEW word \in Seq(Letters), Matches(word) # <<>>
  PROVE  /\ Common(word) \in Seq(Letters)
         /\ Len(Common(word)) \in Len(word)..Len(Matches(word)[1])
         /\ Len(Matches(Common(word))) = Len(Matches(word))
<1> DEFINE found == Matches(word)
           name == found[1]
           T == {n \in Len(word)..Len(name) : Len(Matches(SubSeq(name, 1, n))) = Len(found)}
           m == Max(T)
<1>1. name \in Beginning(word)
  <2>1. found \in Seq(Beginning(word))
    BY MatchesTyped
  <2> HIDE DEF found
  <2>2. 1 \in 1..Len(found)
    BY <2>1, EmptySeq DEF found
  <2> QED
    BY <2>1, <2>2, ElementOfSeq
<1>2. /\ name \in Seq(Letters) /\ Len(word) \in Nat /\ Len(name) \in Nat
      /\ Len(word) <= Len(name) /\ SubSeq(name, 1, Len(word)) = word
  BY <1>1, BehindTyped, LenProperties
<1>3. Common(word) = SubSeq(name, 1, m)
  BY DEF Common
<1> HIDE DEF name
<1>4. Len(word) \in T
  <2>1. Matches(SubSeq(name, 1, Len(word))) = found
    BY <1>2
  <2>2. Len(word) \in Len(word)..Len(name)
    BY <1>2
  <2> HIDE DEF found
  <2> QED
    BY <2>1, <2>2
<1>5. m \in T
  <2>1. T \in SUBSET (0..Len(name)) /\ T # {}
    BY <1>2, <1>4
  <2> HIDE DEF T
  <2> QED
    BY <1>2, <2>1, MaxIn
<1> HIDE DEF m
<1>6. m \in Len(word)..Len(name) /\ Len(Matches(SubSeq(name, 1, m))) = Len(found)
  BY <1>5
<1>7. /\ SubSeq(name, 1, m) \in Seq(Letters)
      /\ Len(SubSeq(name, 1, m)) = (m - 1) + 1 /\ (m - 1) + 1 = m
  <2>1. 1 \in Nat \ {0} /\ m \in Nat /\ m <= Len(name) /\ 1 <= m + 1 /\ (m - 1) + 1 = m
    BY <1>2, <1>6
  <2> QED
    BY <1>2, <2>1, Cut
<1> HIDE DEF found
<1> QED
  BY <1>3, <1>6, <1>7 DEF name, found

LEMMA WordTyped ==
  ASSUME NEW e \in Editors
  PROVE  find_word_under_cursor(e) \in Seq(Letters)
<1> DEFINE start == WordStart(e, e.this)
           from == start + 1
           to == WordEnd(e, start)
<1>1. e.line \in Seq(Letters) /\ Len(e.line) \in Nat /\ e.this \in 0..Len(e.line)
  BY EditorFacts
<1>2. start \in 0..Len(e.line)
  BY <1>1, WordStartIn
<1> HIDE DEF start
<1>3. to \in start..Len(e.line)
  BY <1>1, <1>2, WordEndIn
<1> HIDE DEF to
<1>4. from \in Nat \ {0} /\ to \in Nat /\ to <= Len(e.line) /\ from <= to + 1
  BY <1>1, <1>2, <1>3
<1>5. SubSeq(e.line, from, to) \in Seq(Letters)
  <2> HIDE DEF from
  <2> QED
    BY <1>1, <1>4, Cut
<1>6. <<>> \in Seq(Letters)
  OBVIOUS
<1> QED
  BY <1>5, <1>6 DEF find_word_under_cursor, start, to

-----------------------------------------------------------------------------
(***************************************************************************)
(* The invariant of the line editor.                                       *)
(***************************************************************************)
Proposals == [word : Seq(Letters), nmatches : Nat \ {0}, thismatch : Nat, matchlen : Nat]

\* The names that a proposal goes round are there, and no shorter than its word.
Offered(p) == /\ p \in Proposals
              /\ p.nmatches = Len(Matches(p.word)) /\ p.thismatch < p.nmatches
              /\ p.matchlen >= Len(p.word)

\* What is before the cursor has the part of the name in it that a tab has put there.
PutIn(e, p) == p.matchlen - Len(p.word) <= e.this

Escapes == {"no", "esc", "bracket", "home", "end", "delete"}

EditInv ==
  /\ ArrayWhole
  /\ ed \in Editors
  /\ escaping \in Escapes
  /\ history_num \in -1..MaxHistory-1
  /\ typing \in BOOLEAN /\ spilled \in BOOLEAN
  /\ proposal # None => Offered(proposal) /\ escaping = "no" /\ typing
  /\ proposal # None /\ ~spilled => PutIn(ed, proposal)

\* The invariant says what the properties say.
LEMMA InvSays == EditInv => EditTypeOK /\ ScreenShowsLine /\ HistoryWhole
<1> SUFFICES ASSUME EditInv
             PROVE  EditTypeOK /\ ScreenShowsLine /\ HistoryWhole
  OBVIOUS
<1>1. /\ ed.line \in Seq(Letters) /\ Len(ed.line) \in 0..Cap
      /\ ed.this \in 0..Len(ed.line) /\ ed.col = ed.this
      /\ ed.shown \in [1..Cap -> Letters] /\ Shows(ed.shown, ed.line)
  BY EditorFacts DEF EditInv
<1>2. ScreenShowsLine
  <2> DEFINE s == ed.shown
             line == ed.line
             len == Len(line)
  <2>1. line \in Seq(Letters) /\ len \in 0..Cap /\ s \in [1..Cap -> Letters] /\ Shows(s, line)
    BY <1>1
  <2> HIDE DEF s, line
  <2>2. \A i \in 1..len : s[i] \in Letters
    BY <2>1
  <2>3. len \in Nat
    BY <2>1
  <2> HIDE DEF len
  <2>4. /\ SubSeq(s, 1, len) \in Seq(Letters)
        /\ Len(SubSeq(s, 1, len)) = IF 1 <= len THEN len - 1 + 1 ELSE 0
        /\ \A i \in 1..len - 1 + 1 : SubSeq(s, 1, len)[i] = s[1 + i - 1]
    BY <2>2, <2>3, SubSeqProperties
  <2>5. Len(SubSeq(s, 1, len)) = Len(line)
    BY <2>3, <2>4 DEF len
  <2>6. ASSUME NEW i \in 1..Len(line) PROVE SubSeq(s, 1, len)[i] = line[i]
    <3>1. i \in 1..len - 1 + 1 /\ 1 + i - 1 = i
      BY <2>3 DEF len
    <3> QED
      BY <2>1, <2>4, <3>1 DEF Shows
  <2>7. SubSeq(s, 1, len) = line
    BY <2>1, <2>4, <2>5, <2>6, SeqEqual
  <2> QED
    BY <1>1, <2>7 DEF ScreenShowsLine, Shows, s, line, len
<1>3. HistoryTypeOK /\ HistoryWhole
  BY DEF EditInv, ArrayWhole, WholeArray, HistoryTypeOK, HistoryWhole
<1>4. /\ proposal.nmatches \in 0..Len(Names)
      /\ proposal # None => proposal.thismatch < proposal.nmatches
      /\ proposal.matchlen >= Len(proposal.word)
  <2>1. Len(Names) \in Nat
    BY LenProperties
  <2>2. CASE proposal = None
    BY <2>1, <2>2 DEF None
  <2>3. CASE proposal # None
    <3>1. Offered(proposal) /\ proposal.word \in Seq(Letters)
      BY <2>3 DEF EditInv, Offered, Proposals
    <3>2. proposal.nmatches \in 0..Len(Names)
      BY <3>1, MatchesTyped DEF Offered
    <3> QED
      BY <3>1, <3>2 DEF Offered
  <2> QED
    BY <2>2, <2>3
<1>5. ed.col \in 0..Cap /\ history_num >= -1 /\ history_num < MaxHistory /\ Len(ed.line) <= Cap
  <2>1. history_num \in -1..MaxHistory-1
    BY DEF EditInv
  <2> QED
    BY <1>1, <2>1
<1> QED
  BY <1>1, <1>2, <1>3, <1>4, <1>5 DEF EditTypeOK, EditInv, Escapes

LEMMA FreshTyped == Fresh \in Editors
<1> DEFINE shown == [i \in 1..Cap |-> Space]
<1>1. <<>> \in Seq(Letters) /\ Len(<<>>) = 0 /\ shown \in [1..Cap -> Letters]
      /\ \A i \in 1..Cap : shown[i] = Space
  OBVIOUS
<1> HIDE DEF shown
<1>2. Shows(shown, <<>>)
  BY <1>1 DEF Shows
<1>3. 0 \in 0..Len(<<>>) /\ Len(<<>>) <= Cap
  BY <1>1
<1> QED
  BY <1>1, <1>2, <1>3, EditorIs DEF Fresh, shown

LEMMA InitEdit == EditInit => EditInv
<1> SUFFICES ASSUME EditInit
             PROVE  EditInv
  OBVIOUS
<1>1. Fresh \in Editors
  BY FreshTyped
<1>2. ArrayWhole
  BY InitWhole DEF EditInit
<1>3. history_num = -1 /\ -1 \in -1..MaxHistory-1
  BY DEF EditInit
<1>4. proposal = None /\ escaping \in Escapes /\ typing \in BOOLEAN /\ spilled \in BOOLEAN
  BY DEF EditInit, Escapes
<1> QED
  BY <1>1, <1>2, <1>3, <1>4 DEF EditInit, EditInv

\* Each key that edits keeps the line and the terminal together.
LEMMA EditedKeeps ==
  ASSUME ed \in Editors, NEW k \in EditKeys
  PROVE  Edited(k) \in Editors
<1> DEFINE len == Len(ed.line)
           killed == Kill(Len(RightOf(ed)), ed)
<1>1. len \in Nat /\ 0 \in 0..len /\ len \in 0..len
  BY EditorFacts
<1>2. /\ erase_char(ed) \in Editors /\ erase_char(forward_char(ed)) \in Editors
      /\ GoTo(ed, 0) \in Editors /\ GoTo(ed, len) \in Editors
      /\ backward_char(ed) \in Editors /\ forward_char(ed) \in Editors
      /\ erase_line(ed) \in Editors /\ erase_word(ed) \in Editors
  BY <1>1, erase_charKeeps, MovesKeep, GoToKeeps, WordMovesKeep
<1>3. killed \in Editors
  <2>1. Len(RightOf(ed)) \in Nat
    BY Sides, LenProperties
  <2> QED
    BY <2>1, KillKeeps
<1>4. k \in Letters => addchar(ed, k) \in Editors
  BY addcharKeeps
<1>5. Edited(k) \in {erase_char(ed), GoTo(ed, 0), backward_char(ed), ed,
                     erase_char(forward_char(ed)), GoTo(ed, len), forward_char(ed), killed,
                     erase_line(ed), erase_word(ed)} \/ (k \in Letters /\ Edited(k) = addchar(ed, k))
  <2> HIDE DEF killed
  <2> QED
    BY DEF Edited, killed
<1> HIDE DEF killed
<1> QED
  BY <1>2, <1>3, <1>4, <1>5

-----------------------------------------------------------------------------
(***************************************************************************)
(* The keys.                                                               *)
(***************************************************************************)

\* A first tab puts in what all names have in common, or the first of them.
LEMMA CompletedStep ==
  ASSUME EditInv, typing, proposal = None, complete_word, escaping' = "no",
         UNCHANGED <<lastline, saved_length, history_num, typing>>
  PROVE  EditInv'
<1> DEFINE word == find_word_under_cursor(ed)
           found == Matches(word)
           name == found[1]
           new == Behind(name, Len(word))
           e == ToWordEnd(ed)
<1>1. ed \in Editors /\ e \in Editors /\ e.line = ed.line /\ word \in Seq(Letters)
  BY WordMovesKeep, WordTyped DEF EditInv
<1>2. /\ ArrayWhole' /\ escaping' \in Escapes /\ history_num' \in -1..MaxHistory-1
      /\ typing' \in BOOLEAN /\ typing' /\ escaping' = "no"
  BY DEF EditInv, ArrayWhole, Escapes
<1>3. CASE word = <<>> \/ found = <<>>
  <2>1. ed' = e /\ proposal' = None /\ spilled' = spilled
    BY <1>3 DEF complete_word
  <2> QED
    BY <1>1, <1>2, <2>1 DEF EditInv
<1>4. CASE ~(word = <<>> \/ found = <<>>)
  <2>1. /\ name \in Seq(Letters) /\ Len(name) \in Nat /\ Len(word) \in Nat
        /\ Len(name) >= Len(word) /\ new \in Seq(Letters) /\ Len(new) = Len(name) - Len(word)
    <3>1. found \in Seq(Beginning(word))
      BY <1>1, MatchesTyped
    <3>2. 1 \in 1..Len(found)
      BY <1>4, <3>1, EmptySeq
    <3>3. name \in Beginning(word)
      <4> HIDE DEF found
      <4> QED
        BY <3>1, <3>2, ElementOfSeq
    <3> HIDE DEF name, word
    <3> QED
      BY <1>1, <3>3, BehindTyped, LenProperties
  <2>2. AddAll(e, new) \in Editors
    BY <1>1, <2>1, AddAllKeeps
  <2>3. CASE Len(found) = 1
    <3>1. ed' = addchar(AddAll(e, new), Space) /\ proposal' = None /\ spilled' = spilled
      BY <1>4, <2>3 DEF complete_word
    <3>2. ed' \in Editors
      BY <2>2, <3>1, addcharKeeps
    <3> QED
      BY <1>2, <3>1, <3>2 DEF EditInv
  <2>4. CASE Len(found) # 1
    <3> DEFINE p == [word |-> Common(word), nmatches |-> Len(found),
                     thismatch |-> 0, matchlen |-> Len(name)]
    <3>1. ed' = AddAll(e, new) /\ proposal' = p /\ spilled' = NoRoom(ed, new)
      BY <1>4, <2>4 DEF complete_word
    <3>2. /\ Common(word) \in Seq(Letters) /\ Len(Common(word)) \in Len(word)..Len(name)
          /\ Len(Matches(Common(word))) = Len(found)
      BY <1>1, <1>4, CommonMatches
    <3>3. Len(found) \in Nat \ {0}
      <4>1. found \in Seq(Beginning(word))
        BY <1>1, MatchesTyped
      <4> HIDE DEF found
      <4> QED
        BY <1>4, <4>1, EmptySeq
    <3> HIDE DEF word, found, name, new, e
    <3>4. Offered(p)
      BY <2>1, <3>2, <3>3 DEF Offered, Proposals
    <3>5. ASSUME ~NoRoom(ed, new) PROVE PutIn(AddAll(e, new), p)
      <4>1. ~NoRoom(e, new)
        BY <1>1, <3>5 DEF NoRoom
      <4>2. AddAll(e, new).this = e.this + Len(new)
        BY <1>1, <2>1, <4>1, AddAllKeeps
      <4>3. e.this \in Nat
        BY <1>1, EditorFacts
      <4> QED
        BY <2>1, <3>2, <4>2, <4>3 DEF PutIn
    <3> HIDE DEF p
    <3>6. NoRoom(ed, new) \in BOOLEAN
      BY DEF NoRoom
    <3> QED
      BY <1>2, <2>2, <3>1, <3>4, <3>5, <3>6 DEF EditInv
  <2> QED
    BY <2>3, <2>4
<1> QED
  BY <1>3, <1>4

\* What the next tab takes out and what it puts in.
LEMMA NextProposal ==
  ASSUME EditInv, proposal # None, propose_word
  PROVE  \E base \in Editors, name \in Beginning(proposal.word) :
           /\ ed' = AddAll(base, Behind(name, Len(proposal.word)))
           /\ proposal' = [proposal EXCEPT !.thismatch = NextMatch, !.matchlen = Len(name)]
           /\ NextMatch \in 0..proposal.nmatches-1
           /\ spilled' = (spilled \/ NoRoom(base, Behind(name, Len(proposal.word))))
           /\ ~spilled => /\ LeftOf(base) = SubSeq(ed.line, 1,
                                         ed.this - (proposal.matchlen - Len(proposal.word)))
                          /\ RightOf(base) = RightOf(ed)
<1> DEFINE p == proposal
           word == p.word
           found == Matches(word)
           match == NextMatch
           name == found[match+1]
           erased == p.matchlen - Len(word)
           base == Erase(erased, ed)
           new == Behind(name, Len(word))
<1>1. Offered(p) /\ ed \in Editors /\ (~spilled => PutIn(ed, p))
  BY DEF EditInv
<1>2. /\ word \in Seq(Letters) /\ p.nmatches \in Nat \ {0} /\ p.thismatch \in Nat
      /\ p.matchlen \in Nat /\ Len(word) \in Nat /\ p.nmatches = Len(found)
      /\ p.matchlen >= Len(word)
  BY <1>1, LenProperties DEF Offered, Proposals
<1>3. match \in 0..p.nmatches-1
  BY <1>2 DEF NextMatch
<1>4. name \in Beginning(word)
  <2>1. found \in Seq(Beginning(word))
    BY <1>2, MatchesTyped
  <2>2. match + 1 \in 1..Len(found)
    BY <1>2, <1>3
  <2> HIDE DEF found, match
  <2> QED
    BY <2>1, <2>2, ElementOfSeq
<1>5. erased \in Nat
  BY <1>2
<1>6. /\ ed' = AddAll(base, new)
      /\ proposal' = [p EXCEPT !.thismatch = match, !.matchlen = Len(name)]
      /\ spilled' = (spilled \/ NoRoom(base, new))
  BY DEF propose_word, Proposed
<1> HIDE DEF erased
<1>7. base \in Editors
  BY <1>1, <1>5, EraseKeeps
<1>8. ~spilled => erased <= ed.this
  BY <1>1 DEF PutIn, erased
<1>9. ~spilled => LeftOf(base) = SubSeq(ed.line, 1, ed.this - erased) /\ RightOf(base) = RightOf(ed)
  BY <1>1, <1>5, <1>8, EraseKeeps
<1> HIDE DEF base, name, found, match
<1> QED
  BY <1>3, <1>4, <1>6, <1>7, <1>9 DEF erased, match

\* A tab in a proposal exchanges one name for the next.
LEMMA ProposedStep ==
  ASSUME EditInv, typing, proposal # None, propose_word, escaping' = "no",
         UNCHANGED <<lastline, saved_length, history_num, typing>>
  PROVE  EditInv'
<1> DEFINE p == proposal
           q == proposal'
           word == p.word
<1>1. PICK base \in Editors, name \in Beginning(word) :
        /\ ed' = AddAll(base, Behind(name, Len(word)))
        /\ q = [p EXCEPT !.thismatch = NextMatch, !.matchlen = Len(name)]
        /\ NextMatch \in 0..p.nmatches-1
        /\ spilled' = (spilled \/ NoRoom(base, Behind(name, Len(word))))
  BY NextProposal
<1> DEFINE new == Behind(name, Len(word))
<1>2. Offered(p) /\ word \in Seq(Letters) /\ p.nmatches \in Nat \ {0}
  BY DEF EditInv, Offered, Proposals
<1>3. /\ new \in Seq(Letters) /\ Len(new) = Len(name) - Len(word) /\ Len(name) \in Nat
      /\ Len(name) >= Len(word)
  BY <1>2, BehindTyped
<1>4. /\ ArrayWhole' /\ escaping' \in Escapes /\ history_num' \in -1..MaxHistory-1
      /\ typing' \in BOOLEAN /\ typing' /\ escaping' = "no"
  BY DEF EditInv, ArrayWhole, Escapes
<1>5. ed' \in Editors
  BY <1>1, <1>3, AddAllKeeps
<1>6. q.word = word /\ q.matchlen = Len(name) /\ Offered(q)
  <2> DEFINE m == NextMatch
             len == Len(name)
  <2>1. m \in Nat /\ m < p.nmatches
    BY <1>1, <1>2
  <2>2. q = [p EXCEPT !.thismatch = m, !.matchlen = len] /\ len \in Nat /\ len >= Len(word)
    BY <1>1, <1>3
  <2>3. p \in Proposals
    BY <1>2 DEF Offered
  <2> HIDE DEF m, len, p, q
  <2>4. /\ q \in Proposals /\ q.word = p.word /\ q.nmatches = p.nmatches
        /\ q.thismatch = m /\ q.matchlen = len
    BY <2>1, <2>2, <2>3 DEF Proposals
  <2> QED
    BY <1>2, <2>1, <2>2, <2>4 DEF Offered, len
<1>7. ASSUME ~NoRoom(base, new) PROVE PutIn(ed', q)
  <2>1. ed'.this = base.this + Len(new)
    BY <1>1, <1>3, <1>7, AddAllKeeps
  <2>2. base.this \in Nat
    BY EditorFacts
  <2>3. Len(name) - Len(word) <= ed'.this
    BY <1>3, <2>1, <2>2
  <2> QED
    BY <1>6, <2>3 DEF PutIn
<1>8. spilled' \in BOOLEAN /\ (~spilled' => ~NoRoom(base, new))
  BY <1>1 DEF NoRoom
<1> HIDE DEF new
<1> QED
  BY <1>4, <1>5, <1>6, <1>7, <1>8 DEF EditInv

\* A key that goes back or forth in the history has a line of it in the editor.
LEMMA RecallStep ==
  ASSUME EditInv, typing, NEW n \in Int, Recall(n), escaping' = "no"
  PROVE  EditInv'
<1>1. ArrayWhole'
  <2>1. ArrayWhole
    BY DEF EditInv
  <2>2. HistoryNext
    BY DEF Recall, HistoryNext
  <2> QED
    BY <2>1, <2>2, NextWhole
<1>2. ed' \in Editors /\ history_num' \in -1..MaxHistory-1
  <2>1. CASE InHistory(n)
    <3> DEFINE s == AtMost(Cap - 1, Recalled(n))
               e == erase_line(ed)
    <3>1. Recalled(n) \in Seq(Letters) /\ n \in 0..MaxHistory-1
      BY <2>1, RecalledTyped DEF EditInv
    <3>2. Cap - 1 \in Nat
      OBVIOUS
    <3>3. s \in Seq(Letters)
      BY <3>1, <3>2, AtMostFits
    <3>4. e \in Editors
      BY WordMovesKeep DEF EditInv
    <3>5. ed' = AddAll(e, s) /\ history_num' = n
      BY <2>1 DEF Recall, get_history
    <3>6. n \in -1..MaxHistory-1
      BY <3>1
    <3> HIDE DEF s, e
    <3> QED
      BY <3>3, <3>4, <3>5, <3>6, AddAllKeeps
  <2>2. CASE ~InHistory(n)
    BY <2>2 DEF Recall, get_history, EditInv
  <2> QED
    BY <2>1, <2>2
<1>3. proposal' = None /\ spilled' = FALSE /\ typing' = typing
  BY DEF Recall
<1> QED
  BY <1>1, <1>2, <1>3 DEF EditInv, Escapes

LEMMA FinishStep ==
  ASSUME EditInv, Finish, escaping' = "no"
  PROVE  EditInv'
<1>1. ed.line \in Seq(Letters)
  BY EditorFacts DEF EditInv
<1>2. ArrayWhole'
  <2>1. ArrayWhole
    BY DEF EditInv
  <2>2. HistoryNext
    BY <1>1 DEF Finish, HistoryNext
  <2> QED
    BY <2>1, <2>2, NextWhole
<1>3. /\ ed' = ed /\ history_num' = history_num /\ proposal' = None /\ spilled' = FALSE
      /\ typing' = FALSE
  BY DEF Finish
<1> QED
  BY <1>2, <1>3 DEF EditInv, Escapes

LEMMA PressedStep ==
  ASSUME EditInv, typing, NEW k, Pressed(k), escaping' = "no"
  PROVE  EditInv'
<1>1. CASE Edit(k)
  <2>1. /\ ed' = Edited(k) /\ k \in EditKeys /\ proposal' = None /\ spilled' = FALSE
        /\ UNCHANGED <<lastline, saved_length, history_num, typing>>
    BY <1>1 DEF Edit
  <2>2. ed' \in Editors
    BY <2>1, EditedKeeps DEF EditInv
  <2> QED
    BY <2>1, <2>2 DEF EditInv, ArrayWhole, Escapes
<1>2. CASE Tab
  <2>1. CASE proposal = None
    BY <1>2, <2>1, CompletedStep DEF Tab
  <2>2. CASE proposal # None
    BY <1>2, <2>2, ProposedStep DEF Tab
  <2> QED
    BY <2>1, <2>2
<1>3. CASE Recall(history_num + 1) \/ Recall(history_num - 1)
  <2>1. history_num + 1 \in Int /\ history_num - 1 \in Int
    BY DEF EditInv
  <2> QED
    BY <1>3, <2>1, RecallStep
<1>4. CASE Finish
  BY <1>4, FinishStep
<1> QED
  BY <1>1, <1>2, <1>3, <1>4 DEF Pressed

\* Where no name is offered, the second key of a sequence may move the cursor.
LEMMA EscapesStep ==
  ASSUME EditInv, typing, NEW k, Escape \/ EscapeKey(k) \/ BracketKey(k) \/ TildeKey(k)
  PROVE  EditInv'
<1>1. CASE Escape
  BY <1>1 DEF Escape, EditInv, ArrayWhole, Escapes
<1>2. CASE EscapeKey(k)
  <2>1. /\ escaping = "esc" /\ escaping' \in {"bracket", "no"}
        /\ ed' \in {forward_word(ed), backward_word(ed), ed}
        /\ UNCHANGED <<lastline, saved_length, history_num, proposal, typing, spilled>>
    BY <1>2 DEF EscapeKey
  <2>2. proposal = None
    BY <2>1 DEF EditInv
  <2>3. ed' \in Editors
    BY <2>1, WordMovesKeep DEF EditInv
  <2> QED
    BY <2>1, <2>2, <2>3 DEF EditInv, ArrayWhole, Escapes
<1>3. CASE BracketKey(k)
  <2>1. escaping = "bracket" /\ proposal = None
    BY <1>3 DEF BracketKey, EditInv
  <2>2. CASE k \in DOMAIN Awaited
    <3>1. /\ escaping' = Awaited[k]
          /\ UNCHANGED <<lastline, saved_length, ed, history_num, proposal, typing, spilled>>
      BY <1>3, <2>2 DEF BracketKey
    <3>2. escaping' \in {"home", "end", "delete"}
      BY <2>2, <3>1 DEF Awaited
    <3> QED
      BY <2>1, <3>1, <3>2 DEF EditInv, ArrayWhole, Escapes
  <2>3. CASE k \notin DOMAIN Awaited
    BY <1>3, <2>3, PressedStep DEF BracketKey
  <2> QED
    BY <2>2, <2>3
<1>4. CASE TildeKey(k)
  <2>1. escaping' = "no" /\ proposal = None
    BY <1>4 DEF TildeKey, EditInv
  <2>2. CASE k = "~"
    BY <1>4, <2>1, <2>2, PressedStep DEF TildeKey
  <2>3. CASE k # "~"
    BY <1>4, <2>1, <2>3 DEF TildeKey, EditInv, ArrayWhole, Escapes
  <2> QED
    BY <2>2, <2>3
<1> QED
  BY <1>1, <1>2, <1>3, <1>4

\* Each key keeps the invariant.
LEMMA NextEdit == EditInv /\ [EditNext]_editor => EditInv'
<1> SUFFICES ASSUME EditInv, [EditNext]_editor
             PROVE  EditInv'
  OBVIOUS
<1>1. ASSUME typing, NEW k, Key(k) PROVE EditInv'
  BY <1>1, PressedStep DEF Key, EditInv
<1>2. CASE Step
  <2>1. typing /\ \E k : Key(k) \/ Escape \/ EscapeKey(k) \/ BracketKey(k) \/ TildeKey(k)
    BY <1>2 DEF Step
  <2> QED
    BY <1>1, <2>1, EscapesStep
<1>3. CASE Start
  <2>1. /\ ed' = Fresh /\ escaping' = "no" /\ history_num' = -1 /\ typing' = TRUE
        /\ UNCHANGED <<lastline, saved_length, proposal, spilled>>
    BY <1>3 DEF Start
  <2>2. proposal = None
    BY <1>3 DEF Start, EditInv
  <2>3. ed' \in Editors /\ history_num' \in -1..MaxHistory-1
    BY <2>1, FreshTyped
  <2> QED
    BY <2>1, <2>2, <2>3 DEF EditInv, ArrayWhole, Escapes
<1>4. CASE UNCHANGED editor
  BY <1>4 DEF editor, EditInv, ArrayWhole
<1> QED
  BY <1>2, <1>3, <1>4 DEF EditNext

\* A tab that exchanges one name for another leaves the rest of the line alone.
LEMMA ProposedKeepsTyped ==
  ASSUME EditInv, proposal # None, propose_word, ~spilled, ~spilled'
  PROVE  Typed' = Typed
<1> DEFINE p == proposal
           word == p.word
           before == SubSeq(ed.line, 1, ed.this - (p.matchlen - Len(word)))
<1>1. PICK base \in Editors, name \in Beginning(word) :
        /\ ed' = AddAll(base, Behind(name, Len(word)))
        /\ proposal' = [p EXCEPT !.thismatch = NextMatch, !.matchlen = Len(name)]
        /\ spilled' = (spilled \/ NoRoom(base, Behind(name, Len(word))))
        /\ ~spilled => LeftOf(base) = before /\ RightOf(base) = RightOf(ed)
  BY NextProposal
<1> DEFINE new == Behind(name, Len(word))
           e == AddAll(base, new)
           len == Len(name)
<1>2. p \in Proposals /\ word \in Seq(Letters)
  BY DEF EditInv, Offered, Proposals
<1>3. /\ new \in Seq(Letters) /\ Len(new) = Len(name) - Len(word) /\ Len(name) \in Nat
      /\ Len(word) \in Nat
  BY <1>2, BehindTyped, LenProperties
<1>4. /\ e \in Editors /\ LeftOf(e) = LeftOf(base) \o new /\ RightOf(e) = RightOf(base)
      /\ e.this = base.this + Len(new)
  BY <1>1, <1>3, AddAllKeeps
<1>5. ed' = e /\ LeftOf(base) = before /\ RightOf(e) = RightOf(ed)
  BY <1>1, <1>4
<1>6. proposal'.matchlen = len /\ proposal'.word = word
  <2>1. proposal' = [p EXCEPT !.thismatch = NextMatch, !.matchlen = len]
    BY <1>1
  <2> HIDE DEF len, p
  <2> QED
    BY <1>2, <2>1 DEF Proposals, p
<1>7. /\ base.this \in Nat /\ e.line \in Seq(Letters) /\ base.this <= e.this
      /\ e.this <= Len(e.line) /\ e.this \in Nat /\ Len(e.line) \in Nat
      /\ LeftOf(base) \in Seq(Letters) /\ Len(LeftOf(base)) = base.this
      /\ base.line \in Seq(Letters) /\ base.this <= Len(base.line) /\ Len(base.line) \in Nat
      /\ LeftOf(base) = SubSeq(base.line, 1, base.this)
  <2> HIDE DEF e, new
  <2>1. /\ e.line \in Seq(Letters) /\ e.this <= Len(e.line) /\ e.this \in Nat
        /\ Len(e.line) \in Nat
    BY <1>4, EditorFacts
  <2>2. /\ base.line \in Seq(Letters) /\ base.this <= Len(base.line) /\ base.this \in Nat
        /\ Len(base.line) \in Nat
    BY EditorFacts
  <2>3. /\ LeftOf(base) \in Seq(Letters) /\ Len(LeftOf(base)) = base.this
        /\ LeftOf(base) = SubSeq(base.line, 1, base.this)
    BY Sides DEF LeftOf
  <2>4. base.this <= e.this
    BY <1>3, <1>4, <2>2, LenProperties
  <2> QED
    BY <2>1, <2>2, <2>3, <2>4
<1>8. e.this - (len - Len(word)) = base.this
  BY <1>3, <1>4, <1>7
<1> HIDE DEF new, e, len, before, p, word
<1>9. SubSeq(e.line, 1, base.this) = LeftOf(base)
  <2>1. ASSUME NEW i \in 1..base.this PROVE e.line[i] = base.line[i]
    <3>1. i \in 1..e.this
      BY <1>7
    <3>2. LeftOf(e)[i] = e.line[i] /\ LeftOf(base)[i] = base.line[i]
      BY <1>4, <3>1, Sides
    <3>3. (LeftOf(base) \o new)[i] = LeftOf(base)[i]
      <4> DEFINE A == LeftOf(base)
                 n == base.this
                 m == Len(new)
      <4>1. A \in Seq(Letters) /\ n = Len(A) /\ m = Len(new) /\ m \in Nat /\ n \in Nat
        BY <1>3, <1>7, LenProperties
      <4>2. i \in 1..n + m /\ i <= n
        BY <4>1
      <4> HIDE DEF A, n, m
      <4>3. \A j \in 1..n + m : (A \o new)[j] = IF j <= n THEN A[j] ELSE new[j - n]
        BY <1>3, <4>1, Joined
      <4> QED
        BY <4>2, <4>3 DEF A
    <3> QED
      BY <1>4, <3>2, <3>3
  <2>2. base.this <= Len(e.line)
    BY <1>7
  <2> DEFINE s == e.line
             t == base.line
             m == base.this
  <2>3. s \in Seq(Letters) /\ t \in Seq(Letters) /\ m \in Nat /\ m <= Len(s) /\ m <= Len(t)
        /\ \A i \in 1..m : s[i] = t[i]
    BY <1>7, <2>1, <2>2
  <2> HIDE DEF s, t, m
  <2>4. SubSeq(s, 1, m) = SubSeq(t, 1, m)
    BY <2>3, SameBeginning
  <2> QED
    BY <1>7, <2>4 DEF s, t, m
<1>10. Typed' = [before |-> SubSeq(ed'.line, 1, ed'.this - (len - Len(word))),
                 behind |-> RightOf(ed')]
  BY <1>6 DEF Typed, RightOf
<1>11. Typed = [before |-> before, behind |-> RightOf(ed)]
  BY DEF Typed, before, p, word
<1> QED
  BY <1>5, <1>8, <1>9, <1>10, <1>11

\* No step but a tab goes from proposal to proposal, and a tab leaves the typed line alone.
LEMMA TypedStep ==
  EditInv /\ [EditNext]_editor =>
    (proposal # None /\ proposal' # None /\ ~spilled /\ ~spilled' => Typed' = Typed)
<1> SUFFICES ASSUME EditInv, [EditNext]_editor, proposal # None, proposal' # None,
                    ~spilled, ~spilled'
             PROVE  Typed' = Typed
  OBVIOUS
<1>1. escaping = "no" /\ typing
  BY DEF EditInv
<1>2. CASE Step
  <2>1. ~Escape
    BY DEF Escape
  <2>2. \A k : ~EscapeKey(k) /\ ~BracketKey(k) /\ ~TildeKey(k)
    BY <1>1 DEF EscapeKey, BracketKey, TildeKey
  <2>3. PICK k : Key(k)
    BY <1>2, <2>1, <2>2 DEF Step
  <2>4. Pressed(k)
    BY <2>3 DEF Key
  <2>5. ~Edit(k) /\ ~Finish /\ \A n : ~Recall(n)
    BY DEF Edit, Finish, Recall
  <2>6. Tab
    BY <2>4, <2>5 DEF Pressed
  <2> QED
    BY <2>6, ProposedKeepsTyped DEF Tab
<1>3. CASE Start
  BY <1>1, <1>3 DEF Start
<1>4. CASE UNCHANGED editor
  BY <1>4 DEF editor, Typed, RightOf
<1> QED
  BY <1>2, <1>3, <1>4 DEF EditNext

\* Whatever is pressed, the line, the screen, the history and the proposal fit each other
\* (lineedit.c).
THEOREM EditInvariance == EditSpec => []EditInv
BY InitEdit, NextEdit, PTL DEF EditSpec

\* The line never outgrows its room, and the cursor never leaves the line.
THEOREM EditTypeCorrect == EditSpec => []EditTypeOK
BY EditInvariance, InvSays, PTL

\* The terminal shows the line after each key, for lines, names and rooms of any length.
THEOREM ScreenAlwaysShowsLine == EditSpec => []ScreenShowsLine
BY EditInvariance, InvSays, PTL

\* The scans of the history end in its array, whatever keys are pressed.
THEOREM EditedHistoryWhole == EditSpec => []HistoryWhole
BY EditInvariance, InvSays, PTL

\* Further tabs exchange one name for another and touch nothing else.
THEOREM ProposalsKeepTyped == EditSpec => ProposalKeepsTyped
<1>1. EditInv /\ [EditNext]_editor =>
        [proposal # None /\ proposal' # None /\ ~spilled /\ ~spilled' => Typed' = Typed]_editor
  BY TypedStep
<1> QED
  BY <1>1, EditInvariance, PTL DEF EditSpec, ProposalKeepsTyped

HIDE HistoryAssumption
HIDE EditAssumption

-----------------------------------------------------------------------------
(***************************************************************************)
(* The history as a list of lines: how the lines are laid in the array,    *)
(* what is read off it, and what a new line and a line that moves to the   *)
(* front make of them.                                                     *)
(***************************************************************************)
AnyLine == Seq(Letters)

\* The cells up to n hold the lines, each with its terminator; line k begins at pos[k].
Laid(cells, n, L, pos) ==
  /\ L \in Seq(AnyLine) /\ n \in Nat /\ pos \in [1..Len(L)+1 -> Nat]
  /\ pos[1] = 0 /\ pos[Len(L)+1] = n
  /\ \A k \in 1..Len(L) :
       /\ pos[k+1] = pos[k] + Len(L[k]) + 1 /\ cells[pos[k+1]-1] = Nul
       /\ \A i \in 1..Len(L[k]) : cells[pos[k]+i-1] = L[k][i]

\* Lines further on begin further on.
LEMMA LaidGrows ==
  ASSUME NEW cells, NEW n, NEW L, NEW pos, Laid(cells, n, L, pos)
  PROVE  \A j, k \in 1..Len(L)+1 : j < k => pos[j] < pos[k]
<1> DEFINE last == Len(L) + 1
           S == {d \in Nat : \A j \in 1..last : j + d + 1 <= last => pos[j] < pos[j+d+1]}
<1>1. last \in Nat /\ pos \in [1..last -> Nat] /\ L \in Seq(AnyLine)
  BY LenProperties DEF Laid
<1>2. ASSUME NEW j \in 1..last, j + 1 <= last PROVE pos[j] < pos[j+1]
  <2>1. j \in 1..Len(L)
    BY <1>1, <1>2
  <2>2. L[j] \in Seq(Letters)
    BY <1>1, <2>1 DEF AnyLine
  <2>3. Len(L[j]) \in Nat /\ pos[j] \in Nat
    BY <1>1, <2>2
  <2>4. pos[j+1] = pos[j] + Len(L[j]) + 1
    BY <2>1 DEF Laid
  <2> QED
    BY <2>3, <2>4
<1> HIDE DEF last
<1>3. 0 \in S
  BY <1>2
<1>4. ASSUME NEW d \in Nat, d \in S PROVE d + 1 \in S
  <2>1. ASSUME NEW j \in 1..last, j + (d + 1) + 1 <= last PROVE pos[j] < pos[j+(d+1)+1]
    <3> DEFINE a == j + d + 1
    <3>1. a \in 1..last /\ a + 1 <= last /\ a + 1 = j + (d + 1) + 1 /\ j + d + 1 <= last
      BY <1>1, <2>1
    <3>2. pos[j] < pos[a] /\ pos[a] < pos[a+1]
      BY <1>2, <1>4, <3>1
    <3>3. pos[j] \in Nat /\ pos[a] \in Nat /\ pos[a+1] \in Nat
      BY <1>1, <3>1
    <3> HIDE DEF a
    <3> QED
      BY <3>1, <3>2, <3>3
  <2> QED
    BY <2>1
<1>5. \A d \in Nat : d \in S
  <2> HIDE DEF S
  <2> QED
    BY <1>3, <1>4, Induct
<1>6. ASSUME NEW j \in 1..last, NEW k \in 1..last, j < k PROVE pos[j] < pos[k]
  <2> DEFINE d == k - j - 1
  <2>1. d \in Nat /\ j + d + 1 = k
    BY <1>1, <1>6
  <2>2. d \in S
    BY <1>5, <2>1
  <2> HIDE DEF d
  <2> QED
    BY <2>1, <2>2
<1> QED
  BY <1>6 DEF last

\* What a line is where it is laid.
LEMMA LaidFacts ==
  ASSUME NEW cells, NEW n, NEW L, NEW pos, Laid(cells, n, L, pos), NEW k \in 1..Len(L)
  PROVE  /\ L[k] \in Seq(Letters) /\ Len(L[k]) \in Nat /\ Len(L) \in Nat /\ n \in Nat
         /\ pos[k] \in Nat /\ pos[k+1] \in Nat /\ pos[k+1] = pos[k] + Len(L[k]) + 1
         /\ pos[k+1] <= n /\ cells[pos[k]+Len(L[k])] = Nul
         /\ \A i \in 1..Len(L[k]) : cells[pos[k]+i-1] = L[k][i] /\ L[k][i] # Nul
<1>1. L \in Seq(AnyLine) /\ Len(L) \in Nat /\ pos \in [1..Len(L)+1 -> Nat] /\ n \in Nat
  BY LenProperties DEF Laid
<1>2. L[k] \in Seq(Letters)
  BY <1>1 DEF AnyLine
<1>3. Len(L[k]) \in Nat
  BY <1>2
<1>4. k \in 1..Len(L)+1 /\ k + 1 \in 1..Len(L)+1 /\ Len(L) + 1 \in 1..Len(L)+1
  BY <1>1
<1>5. pos[k] \in Nat /\ pos[k+1] \in Nat
  BY <1>1, <1>4
<1>6. pos[k+1] = pos[k] + Len(L[k]) + 1 /\ cells[pos[k+1]-1] = Nul
  BY DEF Laid
<1>7. pos[k+1] <= n
  <2>1. pos[Len(L)+1] = n
    BY DEF Laid
  <2>2. k + 1 < Len(L) + 1 \/ k + 1 = Len(L) + 1
    BY <1>1
  <2>3. k + 1 < Len(L) + 1 => pos[k+1] < pos[Len(L)+1]
    BY <1>4, LaidGrows
  <2> QED
    BY <1>1, <1>5, <2>1, <2>2, <2>3
<1>8. pos[k+1] - 1 = pos[k] + Len(L[k])
  BY <1>3, <1>5, <1>6
<1>9. ASSUME NEW i \in 1..Len(L[k]) PROVE cells[pos[k]+i-1] = L[k][i] /\ L[k][i] # Nul
  <2>1. L[k][i] \in Letters
    BY <1>2
  <2> QED
    BY <2>1, HistoryAssumption DEF Laid
<1> QED
  BY <1>1, <1>2, <1>3, <1>5, <1>6, <1>7, <1>8, <1>9

\* Each cell is in one of the lines or ends it.
LEMMA LaidCovers ==
  ASSUME NEW cells, NEW n, NEW L, NEW pos, Laid(cells, n, L, pos), NEW i \in 0..n-1
  PROVE  \E k \in 1..Len(L) : pos[k] <= i /\ i <= pos[k] + Len(L[k])
<1> DEFINE T == {k \in 1..Len(L)+1 : i < pos[k]}
<1>1. /\ L \in Seq(AnyLine) /\ Len(L) \in Nat /\ n \in Nat
      /\ pos \in [1..Len(L)+1 -> Nat] /\ pos[1] = 0 /\ pos[Len(L)+1] = n
  BY LenProperties DEF Laid
<1>2. T \in SUBSET Nat /\ Len(L) + 1 \in T
  BY <1>1
<1>3. PICK k \in T : \A m \in T : k <= m
  <2> HIDE DEF T
  <2> QED
    BY <1>2, NatLeast
<1>4. k \in 1..Len(L)+1 /\ i < pos[k] /\ k # 1
  BY <1>1
<1> DEFINE j == k - 1
<1>5. j \in 1..Len(L) /\ j + 1 = k /\ ~(k <= j) /\ j \in 1..Len(L)+1
  BY <1>1, <1>4
<1>6. ~(i < pos[j])
  BY <1>3, <1>5
<1>7. pos[j] \in Nat /\ Len(L[j]) \in Nat /\ pos[k] = pos[j] + Len(L[j]) + 1
  BY <1>5, LaidFacts
<1> HIDE DEF j, T
<1>8. pos[j] <= i /\ i <= pos[j] + Len(L[j])
  BY <1>1, <1>4, <1>6, <1>7
<1> QED
  BY <1>5, <1>8

-----------------------------------------------------------------------------
\* The places where the first k lines begin.
Places(pos, k) == {pos[j] : j \in 1..k}

\* The lines that the length covers begin at these places.
LEMMA LaidStarts ==
  ASSUME NEW cells, NEW n, WholeArray(cells, n), NEW L, NEW pos, Laid(cells, n, L, pos)
  PROVE  LinesIn(cells, n) = Places(pos, Len(L))
<1>1. MaxHistory \in Nat /\ n \in 0..MaxHistory
  BY HistoryAssumption DEF WholeArray
<1>2. ASSUME NEW k \in 1..Len(L) PROVE pos[k] \in LinesIn(cells, n)
  <2>1. pos[k] \in Nat /\ Len(L[k]) \in Nat /\ pos[k] + Len(L[k]) + 1 <= n
    BY LaidFacts
  <2>2. pos[k] \in Index /\ pos[k] < n
    BY <1>1, <2>1 DEF Index
  <2>3. pos[k] = 0 \/ cells[pos[k]-1] = Nul
    <3>1. CASE k = 1
      BY <3>1 DEF Laid
    <3>2. CASE k # 1
      <4> DEFINE j == k - 1
      <4>1. j \in 1..Len(L) /\ j + 1 = k
        BY <3>2
      <4> HIDE DEF j
      <4>2. cells[pos[j+1]-1] = Nul
        BY <4>1 DEF Laid
      <4> QED
        BY <4>1, <4>2
    <3> QED
      BY <3>1, <3>2
  <2> QED
    BY <2>2, <2>3 DEF LinesIn, Starts
<1>3. ASSUME NEW p \in LinesIn(cells, n) PROVE \E k \in 1..Len(L) : pos[k] = p
  <2>1. p \in Nat /\ p < n /\ (p = 0 \/ cells[p-1] = Nul)
    BY DEF LinesIn, Starts, Index
  <2>2. p \in 0..n-1
    BY <1>1, <2>1
  <2>3. PICK k \in 1..Len(L) : pos[k] <= p /\ p <= pos[k] + Len(L[k])
    BY <2>2, LaidCovers
  <2>4. /\ pos[k] \in Nat /\ Len(L[k]) \in Nat
        /\ \A i \in 1..Len(L[k]) : cells[pos[k]+i-1] = L[k][i] /\ L[k][i] # Nul
    BY LaidFacts
  <2> DEFINE i == p - pos[k]
  <2>5. pos[k] # p => i \in 1..Len(L[k]) /\ pos[k] + i - 1 = p - 1 /\ p # 0
    BY <2>1, <2>3, <2>4
  <2> HIDE DEF i
  <2> QED
    BY <2>1, <2>4, <2>5
<1> QED
  BY <1>2, <1>3 DEF Places

\* As many places as lines, and as many before line k as lines before it.
LEMMA LaidCount ==
  ASSUME NEW cells, NEW n, NEW L, NEW pos, Laid(cells, n, L, pos), NEW k \in 0..Len(L)
  PROVE  IsFiniteSet(Places(pos, k)) /\ Cardinality(Places(pos, k)) = k
<1> DEFINE P(m) == {pos[j] : j \in 1..m}
           S == {m \in Nat : m <= Len(L) => IsFiniteSet(P(m)) /\ Cardinality(P(m)) = m}
<1>1. 0 \in S
  <2>1. P(0) = {}
    OBVIOUS
  <2> HIDE DEF P
  <2> QED
    BY <2>1, FS_EmptySet
<1>2. ASSUME NEW m \in Nat, m \in S PROVE m + 1 \in S
  <2> SUFFICES ASSUME m + 1 <= Len(L)
               PROVE  IsFiniteSet(P(m+1)) /\ Cardinality(P(m+1)) = m + 1
    OBVIOUS
  <2>1. Len(L) \in Nat
    BY LenProperties DEF Laid
  <2>2. IsFiniteSet(P(m)) /\ Cardinality(P(m)) = m
    BY <1>2, <2>1
  <2>3. P(m+1) = P(m) \union {pos[m+1]}
    <3>1. 1..m+1 = 1..m \union {m+1}
      OBVIOUS
    <3> QED
      BY <3>1
  <2>4. pos[m+1] \notin P(m)
    <3>1. ASSUME NEW j \in 1..m PROVE pos[j] # pos[m+1]
      <4>1. j \in 1..Len(L)+1 /\ m + 1 \in 1..Len(L)+1 /\ j < m + 1
        BY <2>1
      <4>2. pos[j] < pos[m+1]
        BY <4>1, LaidGrows
      <4>3. pos[j] \in Nat /\ pos[m+1] \in Nat
        BY <4>1 DEF Laid
      <4> QED
        BY <4>2, <4>3
    <3> QED
      BY <3>1
  <2> HIDE DEF P
  <2> QED
    BY <2>2, <2>3, <2>4, FS_AddElement
<1>3. \A m \in Nat : m \in S
  <2> HIDE DEF S
  <2> QED
    BY <1>1, <1>2, Induct
<1>4. k \in Nat /\ k <= Len(L)
  BY LenProperties DEF Laid
<1>5. k \in S
  BY <1>3, <1>4
<1>6. IsFiniteSet(P(k)) /\ Cardinality(P(k)) = k
  <2> HIDE DEF P
  <2> QED
    BY <1>4, <1>5
<1> QED
  BY <1>6 DEF Places

\* A place in a finite set is known by how many are before it.
LEMMA NthUnique ==
  ASSUME NEW S \in SUBSET Nat, IsFiniteSet(S), NEW p \in S, NEW r \in S,
         Cardinality({q \in S : q < p}) = Cardinality({q \in S : q < r})
  PROVE  p = r
<1>1. ASSUME NEW x \in S, NEW y \in S, x < y
      PROVE  Cardinality({q \in S : q < x}) # Cardinality({q \in S : q < y})
  <2> DEFINE X == {q \in S : q < x}
             Y == {q \in S : q < y}
             Z == X \union {x}
  <2>1. X \subseteq S /\ Y \subseteq S /\ Z \subseteq Y /\ x \notin X
    <3>1. x \in Nat /\ y \in Nat /\ ~(x < x)
      OBVIOUS
    <3>2. ASSUME NEW q \in X PROVE q \in Y
      <4>1. q \in S /\ q \in Nat /\ q < x
        OBVIOUS
      <4>2. q < y
        BY <1>1, <3>1, <4>1
      <4> QED
        BY <4>1, <4>2
    <3>3. x \in Y /\ x \notin X
      BY <1>1, <3>1
    <3> QED
      BY <3>2, <3>3
  <2> HIDE DEF X, Y
  <2>2. IsFiniteSet(X) /\ IsFiniteSet(Y)
    BY <2>1, FS_Subset
  <2>3. Cardinality(Z) = Cardinality(X) + 1 /\ IsFiniteSet(Z)
    BY <2>1, <2>2, FS_AddElement
  <2>4. Cardinality(Z) <= Cardinality(Y)
    BY <2>1, <2>2, FS_Subset
  <2>5. Cardinality(X) \in Nat /\ Cardinality(Y) \in Nat
    BY <2>2, FS_CardinalityType
  <2>6. Cardinality(X) # Cardinality(Y)
    <3> HIDE DEF Z
    <3> QED
      BY <2>3, <2>4, <2>5
  <2> QED
    BY <2>6 DEF X, Y
<1>2. p \in Nat /\ r \in Nat
  OBVIOUS
<1>3. ~(p < r)
  BY <1>1
<1>4. ~(r < p)
  BY <1>1
<1> QED
  BY <1>2, <1>3, <1>4

\* Line k begins where k - 1 others do before.
LEMMA LaidNth ==
  ASSUME NEW cells, NEW n, WholeArray(cells, n), NEW L, NEW pos, Laid(cells, n, L, pos),
         NEW k \in 1..Len(L)
  PROVE  Nth(cells, k - 1) = pos[k]
<1> DEFINE S == Starts(cells)
           Below(p) == {q \in S : q < p}
<1>1. /\ S \in SUBSET Nat /\ IsFiniteSet(S) /\ Len(L) \in Nat /\ n \in Nat
      /\ pos \in [1..Len(L)+1 -> Nat]
  <2>1. IsFiniteSet(Index) /\ Index \in SUBSET Nat
    BY FS_Interval, HistoryAssumption DEF Index
  <2>2. S \subseteq Index
    BY DEF Starts
  <2>3. IsFiniteSet(S)
    BY <2>1, <2>2, FS_Subset
  <2> HIDE DEF S
  <2> QED
    BY <2>1, <2>2, <2>3, LenProperties DEF Laid
<1>2. LinesIn(cells, n) = {pos[j] : j \in 1..Len(L)}
  BY LaidStarts DEF Places
<1>3. LinesIn(cells, n) = {p \in S : p < n}
  BY DEF LinesIn
<1>4. pos[k] \in S /\ pos[k] \in Nat /\ pos[k] < n
  <2>1. pos[k] \in LinesIn(cells, n)
    BY <1>2
  <2> HIDE DEF S
  <2> QED
    BY <1>1, <1>3, <2>1
<1>5. Below(pos[k]) = {pos[j] : j \in 1..k-1}
  <2>1. ASSUME NEW j \in 1..k-1 PROVE pos[j] \in Below(pos[k])
    <3>1. j \in 1..Len(L) /\ j \in 1..Len(L)+1 /\ k \in 1..Len(L)+1 /\ j < k
      BY <1>1
    <3>2. pos[j] < pos[k]
      BY <3>1, LaidGrows
    <3>3. pos[j] \in S
      <4> HIDE DEF S
      <4> QED
        BY <1>2, <1>3, <3>1
    <3> HIDE DEF S
    <3> QED
      BY <3>2, <3>3
  <2>2. ASSUME NEW q \in S, q < pos[k] PROVE q \in {pos[j] : j \in 1..k-1}
    <3>1. q \in Nat /\ q < n
      <4> HIDE DEF S
      <4> QED
        BY <1>1, <1>4, <2>2
    <3>2. PICK j \in 1..Len(L) : pos[j] = q
      <4> HIDE DEF S
      <4> QED
        BY <1>2, <1>3, <3>1
    <3>3. j \in 1..Len(L)+1 /\ k \in 1..Len(L)+1
      BY <1>1
    <3>4. ~(k < j)
      <4>1. k < j => pos[k] < pos[j]
        BY <3>3, LaidGrows
      <4> QED
        BY <1>4, <2>2, <3>1, <3>2, <4>1
    <3>5. j # k
      BY <1>4, <2>2, <3>2
    <3>6. j \in 1..k-1
      BY <3>3, <3>4, <3>5
    <3> QED
      BY <3>2, <3>6
  <2> HIDE DEF S
  <2> QED
    BY <2>1, <2>2
<1>6. Cardinality(Below(pos[k])) = k - 1
  <2> DEFINE m == k - 1
  <2>1. m \in 0..Len(L)
    BY <1>1
  <2> HIDE DEF m
  <2>2. Cardinality(Places(pos, m)) = m
    BY <2>1, LaidCount
  <2> HIDE DEF Below
  <2> QED
    BY <1>5, <2>2 DEF m, Places
<1> HIDE DEF S
<1>7. ASSUME NEW p \in S, Cardinality(Below(p)) = k - 1 PROVE p = pos[k]
  BY <1>1, <1>4, <1>6, <1>7, NthUnique
<1>8. Nth(cells, k - 1) = CHOOSE p \in S : Cardinality(Below(p)) = k - 1
  BY DEF Nth, S
<1> HIDE DEF Below
<1> QED
  BY <1>4, <1>6, <1>7, <1>8

\* What is read there is the line.
LEMMA LaidText ==
  ASSUME NEW cells, NEW n, WholeArray(cells, n), NEW L, NEW pos, Laid(cells, n, L, pos),
         NEW k \in 1..Len(L)
  PROVE  pos[k] \in Index /\ TextAt(cells, pos[k]) = L[k]
<1> DEFINE p == pos[k]
           len == Len(L[k])
           e == End(cells, p)
<1>1. /\ L[k] \in Seq(Letters) /\ len \in Nat /\ p \in Nat /\ p + len + 1 <= n /\ n \in Nat
      /\ cells[p+len] = Nul /\ \A i \in 1..len : cells[p+i-1] = L[k][i] /\ L[k][i] # Nul
  BY LaidFacts
<1>2. MaxHistory \in Nat /\ n <= MaxHistory /\ p \in Index
  BY <1>1, HistoryAssumption DEF WholeArray, Index
<1>3. e \in p..MaxHistory-1 /\ cells[e] = Nul /\ \A i \in p..e-1 : cells[i] # Nul
  BY <1>2, EndIs
<1> HIDE DEF e, p, len
<1>4. ~(e < p + len)
  <2>1. ASSUME e < p + len PROVE FALSE
    <3> DEFINE i == e - p + 1
    <3>1. i \in 1..len /\ p + i - 1 = e
      BY <1>1, <1>2, <1>3, <2>1
    <3> HIDE DEF i
    <3> QED
      BY <1>1, <1>3, <3>1
  <2> QED
    BY <2>1
<1>5. ~(p + len < e)
  BY <1>1, <1>2, <1>3
<1>6. e - p = len
  BY <1>1, <1>2, <1>3, <1>4, <1>5
<1>7. TextAt(cells, p) = [i \in 1..len |-> cells[p+i-1]]
  BY <1>6 DEF TextAt, e
<1>8. L[k] = [i \in 1..len |-> L[k][i]]
  <2> DEFINE s == L[k]
  <2>1. s \in Seq(Letters) /\ len = Len(s)
    BY <1>1 DEF len
  <2> HIDE DEF s
  <2>2. s = [i \in 1..len |-> s[i]]
    BY <2>1
  <2> QED
    BY <2>2 DEF s
<1>9. [i \in 1..len |-> cells[p+i-1]] = [i \in 1..len |-> L[k][i]]
  BY <1>1
<1> QED
  BY <1>2, <1>7, <1>8, <1>9 DEF p

\* The lines that are read off an array are those that are laid in it.
LinesOf(cells, n) == [k \in 1..Cardinality(LinesIn(cells, n)) |-> TextAt(cells, Nth(cells, k - 1))]

LEMMA LaidRead ==
  ASSUME NEW cells, NEW n, WholeArray(cells, n), NEW L, NEW pos, Laid(cells, n, L, pos)
  PROVE  LinesOf(cells, n) = L
<1>1. L \in Seq(AnyLine) /\ Len(L) \in Nat
  BY LenProperties DEF Laid
<1>2. Cardinality(LinesIn(cells, n)) = Len(L)
  <2> DEFINE m == Len(L)
  <2>1. m \in 0..Len(L)
    BY <1>1
  <2> HIDE DEF m
  <2>2. Cardinality(Places(pos, m)) = m
    BY <2>1, LaidCount
  <2>3. LinesIn(cells, n) = Places(pos, m)
    BY LaidStarts DEF m
  <2> QED
    BY <2>2, <2>3 DEF m
<1>3. ASSUME NEW k \in 1..Len(L) PROVE TextAt(cells, Nth(cells, k - 1)) = L[k]
  BY LaidNth, LaidText
<1>4. LinesOf(cells, n) = [k \in 1..Len(L) |-> TextAt(cells, Nth(cells, k - 1))]
  BY <1>2 DEF LinesOf
<1>5. L = [k \in 1..Len(L) |-> L[k]]
  BY <1>1
<1> QED
  BY <1>3, <1>4, <1>5

-----------------------------------------------------------------------------
\* Two parts of the lines, one behind the other.
LEMMA JoinedAny ==
  ASSUME NEW A \in Seq(AnyLine), NEW B \in Seq(AnyLine), NEW n, NEW m, n = Len(A), m = Len(B)
  PROVE  /\ A \o B \in Seq(AnyLine) /\ Len(A \o B) = n + m
         /\ \A i \in 1..n + m : (A \o B)[i] = IF i <= n THEN A[i] ELSE B[i - n]
BY ConcatProperties, LenProperties

\* A line in front of others.
LEMMA OneBefore ==
  ASSUME NEW x \in AnyLine, NEW s \in Seq(AnyLine)
  PROVE  /\ <<x>> \o s \in Seq(AnyLine) /\ Len(<<x>> \o s) = Len(s) + 1
         /\ (<<x>> \o s)[1] = x
         /\ \A k \in 1..Len(s) : (<<x>> \o s)[k+1] = s[k]
<1> DEFINE y == <<x>>
           m == Len(s)
<1>0. y \in Seq(AnyLine) /\ s \in Seq(AnyLine) /\ m = Len(s)
  OBVIOUS
<1>1. m \in Nat /\ Len(y) = 1 /\ y[1] = x
  OBVIOUS
<1> HIDE DEF y, m
<1>2. /\ y \o s \in Seq(AnyLine) /\ Len(y \o s) = 1 + m
      /\ \A i \in 1..1+m : (y \o s)[i] = IF i <= 1 THEN y[i] ELSE s[i-1]
  <2> DEFINE l == Len(y)
  <2>1. l = Len(y)
    OBVIOUS
  <2> HIDE DEF l
  <2>2. y \o s \in Seq(AnyLine) /\ Len(y \o s) = l + m
    BY <1>0, <2>1, JoinedAny
  <2>3. \A i \in 1..l+m : (y \o s)[i] = IF i <= l THEN y[i] ELSE s[i-l]
    BY <1>0, <2>1, JoinedAny
  <2> QED
    BY <1>1, <2>1, <2>2, <2>3
<1>3. 1 \in 1..1+m /\ (y \o s)[1] = x
  BY <1>1, <1>2
<1>4. ASSUME NEW k \in 1..m PROVE (y \o s)[k+1] = s[k]
  <2>1. k + 1 \in 1..1+m /\ ~(k + 1 <= 1) /\ (k + 1) - 1 = k
    BY <1>1
  <2> QED
    BY <1>2, <2>1
<1> QED
  BY <1>0, <1>1, <1>2, <1>3, <1>4 DEF y, m

\* The array that add_to_history would leave if it had no end.
Unbounded(cells, line) ==
  [i \in Nat |-> IF i < Len(line) THEN line[i+1]
                 ELSE IF i = Len(line) THEN Nul ELSE cells[i-Len(line)-1]]

PushedOn(pos, len, m) == [k \in 1..m |-> IF k = 1 THEN 0 ELSE pos[k-1] + len + 1]

\* It holds the new line and then the others.
LEMMA JoinLaid ==
  ASSUME NEW cells, NEW n, NEW L, NEW pos, Laid(cells, n, L, pos), NEW line \in Seq(Letters)
  PROVE  Laid(Unbounded(cells, line), n + Len(line) + 1, <<line>> \o L,
              PushedOn(pos, Len(line), Len(L) + 2))
<1> DEFINE len == Len(line)
           h == <<line>> \o L
           m == Len(L)
           q == PushedOn(pos, len, m + 2)
           big == Unbounded(cells, line)
<1>1. /\ len \in Nat /\ L \in Seq(AnyLine) /\ m \in Nat /\ n \in Nat
      /\ pos \in [1..m+1 -> Nat] /\ pos[1] = 0 /\ pos[m+1] = n
  BY LenProperties DEF Laid
<1>2. h \in Seq(AnyLine) /\ Len(h) = m + 1 /\ h[1] = line /\ \A k \in 1..m : h[k+1] = L[k]
  BY <1>1, OneBefore DEF AnyLine
<1>3. /\ q = [k \in 1..m+2 |-> IF k = 1 THEN 0 ELSE pos[k-1] + len + 1]
      /\ big = [i \in Nat |-> IF i < len THEN line[i+1]
                              ELSE IF i = len THEN Nul ELSE cells[i-len-1]]
  BY DEF PushedOn, Unbounded
<1>4. ASSUME NEW j \in 1..m
      PROVE  /\ L[j] \in Seq(Letters) /\ Len(L[j]) \in Nat /\ pos[j] \in Nat /\ pos[j+1] \in Nat
             /\ pos[j+1] = pos[j] + Len(L[j]) + 1 /\ cells[pos[j]+Len(L[j])] = Nul
             /\ \A i \in 1..Len(L[j]) : cells[pos[j]+i-1] = L[j][i]
  BY LaidFacts
<1> HIDE DEF len, h, m, q, big
<1>5. q \in [1..Len(h)+1 -> Nat] /\ q[1] = 0 /\ q[Len(h)+1] = n + len + 1
  <2>1. ASSUME NEW k \in 1..m+2 PROVE q[k] \in Nat
    <3>1. k # 1 => k - 1 \in 1..m+1
      BY <1>1
    <3>2. k # 1 => pos[k-1] \in Nat
      BY <1>1, <3>1
    <3> QED
      BY <1>1, <1>3, <3>2
  <2>2. q \in [1..m+2 -> Nat]
    BY <1>3, <2>1
  <2>3. (m + 1) + 1 = m + 2 /\ m + 2 \in 1..m+2 /\ m + 2 # 1 /\ (m + 2) - 1 = m + 1 /\ 1 \in 1..m+2
    BY <1>1
  <2> QED
    BY <1>1, <1>2, <1>3, <2>2, <2>3
<1>6. /\ q[2] = q[1] + Len(h[1]) + 1 /\ big[q[2]-1] = Nul
      /\ \A i \in 1..Len(h[1]) : big[q[1]+i-1] = h[1][i]
  <2>1. q[1] = 0 /\ q[2] = len + 1 /\ Len(h[1]) = len
    BY <1>1, <1>2, <1>3 DEF len
  <2>2. big[len] = Nul
    BY <1>1, <1>3
  <2>3. ASSUME NEW i \in 1..len PROVE big[0+i-1] = line[i]
    <3>1. 0 + i - 1 \in Nat /\ 0 + i - 1 < len /\ (0 + i - 1) + 1 = i
      BY <1>1
    <3> QED
      BY <1>3, <3>1
  <2> QED
    BY <1>1, <1>2, <2>1, <2>2, <2>3
<1>7. ASSUME NEW j \in 1..m
      PROVE  /\ q[j+2] = q[j+1] + Len(h[j+1]) + 1 /\ big[q[j+2]-1] = Nul
             /\ \A i \in 1..Len(h[j+1]) : big[q[j+1]+i-1] = h[j+1][i]
  <2> DEFINE s == L[j]
             at == pos[j]
             l == Len(s)
  <2>1. /\ at \in Nat /\ l \in Nat /\ pos[j+1] = at + l + 1 /\ cells[at+l] = Nul
        /\ \A i \in 1..l : cells[at+i-1] = s[i]
    BY <1>4
  <2>2. h[j+1] = s
    BY <1>2
  <2> HIDE DEF s, at, l
  <2>3. q[j+1] = at + len + 1
    <3>1. j + 1 \in 1..m+2 /\ j + 1 # 1 /\ (j + 1) - 1 = j
      BY <1>1
    <3> QED
      BY <1>3, <3>1 DEF at
  <2>4. q[j+2] = (at + l + 1) + len + 1
    <3>1. j + 2 \in 1..m+2 /\ j + 2 # 1 /\ (j + 2) - 1 = j + 1
      BY <1>1
    <3> QED
      BY <1>3, <2>1, <3>1
  <2>5. ASSUME NEW i \in Nat PROVE big[at+len+1+i] = cells[at+i]
    <3>1. at + len + 1 + i \in Nat /\ ~(at + len + 1 + i < len) /\ at + len + 1 + i # len
          /\ (at + len + 1 + i) - len - 1 = at + i
      BY <1>1, <2>1
    <3> QED
      BY <1>3, <3>1
  <2>6. big[q[j+2]-1] = Nul
    <3>1. q[j+2] - 1 = at + len + 1 + l
      BY <1>1, <2>1, <2>4
    <3> QED
      BY <2>1, <2>5, <3>1
  <2>7. ASSUME NEW i \in 1..l PROVE big[q[j+1]+i-1] = s[i]
    <3> DEFINE d == i - 1
    <3>1. d \in Nat /\ q[j+1] + i - 1 = at + len + 1 + d /\ at + d = at + i - 1
      BY <1>1, <2>1, <2>3
    <3> HIDE DEF d
    <3>2. big[q[j+1]+i-1] = cells[at+i-1]
      BY <2>5, <3>1
    <3> QED
      BY <2>1, <3>2
  <2>8. q[j+2] = q[j+1] + l + 1
    BY <1>1, <2>1, <2>3, <2>4
  <2> QED
    BY <2>2, <2>6, <2>7, <2>8 DEF l
<1>8. ASSUME NEW k \in 1..Len(h)
      PROVE  /\ q[k+1] = q[k] + Len(h[k]) + 1 /\ big[q[k+1]-1] = Nul
             /\ \A i \in 1..Len(h[k]) : big[q[k]+i-1] = h[k][i]
  <2>1. CASE k = 1
    BY <1>6, <2>1
  <2>2. CASE k # 1
    <3> DEFINE j == k - 1
    <3>1. j \in 1..m /\ j + 1 = k /\ j + 2 = k + 1
      BY <1>1, <1>2, <2>2
    <3> HIDE DEF j
    <3> QED
      BY <1>7, <3>1
  <2> QED
    BY <2>1, <2>2
<1> DEFINE N == n + len + 1
<1>9. N \in Nat /\ q[Len(h)+1] = N
  BY <1>1, <1>5
<1> HIDE DEF N
<1>10. Laid(big, N, h, q)
  BY <1>2, <1>5, <1>8, <1>9 DEF Laid
<1> QED
  BY <1>10 DEF N, big, len, h, q, m

\* The array does have an end, and the last line one of its own.
LEMMA PrependIs ==
  ASSUME NEW cells, NEW line \in Seq(Letters), line # <<>>, NEW i \in Index
  PROVE  Prepend(cells, line)[i] = IF i = MaxHistory - 1 THEN Nul ELSE Unbounded(cells, line)[i]
<1> DEFINE len == Len(line)
           new == NewLength(line)
<1>1. /\ len \in Nat \ {0} /\ MaxHistory \in Nat \ {0} /\ i \in Nat /\ i <= MaxHistory - 1
      /\ new = IF len + 1 > MaxHistory THEN MaxHistory ELSE len + 1
  BY HistoryAssumption DEF Index, NewLength
<1>2. Prepend(cells, line)[i] = IF i \in {new-1, MaxHistory-1} THEN Nul
                                ELSE IF i < new THEN line[i+1] ELSE cells[i-new]
  BY DEF Prepend
<1>3. Unbounded(cells, line)[i] = IF i < len THEN line[i+1]
                                  ELSE IF i = len THEN Nul ELSE cells[i-len-1]
  BY <1>1 DEF Unbounded
<1> HIDE DEF len, new
<1>4. CASE i = MaxHistory - 1
  BY <1>2, <1>4
<1>5. CASE i # MaxHistory - 1 /\ len + 1 <= MaxHistory
  <2>1. new = len + 1 /\ i - new = i - len - 1
    BY <1>1, <1>5
  <2>2. i < len => i < new /\ i # new - 1
    BY <1>1, <2>1
  <2>3. i = len => i = new - 1
    BY <1>1, <2>1
  <2>4. ~(i < len) /\ i # len => ~(i < new) /\ i # new - 1
    BY <1>1, <2>1
  <2> QED
    BY <1>2, <1>3, <1>5, <2>1, <2>2, <2>3, <2>4
<1>6. CASE i # MaxHistory - 1 /\ ~(len + 1 <= MaxHistory)
  <2>1. new = MaxHistory /\ i < new /\ i # new - 1 /\ i < len
    BY <1>1, <1>6
  <2> QED
    BY <1>2, <1>3, <1>6, <2>1
<1> QED
  BY <1>4, <1>5, <1>6

\* The lines are h, or those of them that there is room for.
Held(L, pos, h) ==
  /\ Len(L) <= Len(h)
  /\ \A i \in 1..Len(L) : \/ L[i] = h[i]
                          \/ /\ i = Len(L) /\ pos[i+1] = MaxHistory
                             /\ L[i] = SubSeq(h[i], 1, Len(L[i]))
  /\ Len(L) < Len(h) => pos[Len(L)+1] = MaxHistory

\* What is laid in an array without end is held in one that ends.
LEMMA WholeLaid ==
  ASSUME NEW big, NEW n, NEW h, NEW q, Laid(big, n, h, q), n <= MaxHistory,
         NEW cells, \A i \in Index : cells[i] = IF i = MaxHistory - 1 THEN Nul ELSE big[i]
  PROVE  Laid(cells, n, h, q) /\ Held(h, q, h)
<1>1. MaxHistory \in Nat \ {0} /\ n \in Nat /\ Len(h) \in Nat
  BY HistoryAssumption, LenProperties DEF Laid
<1>2. ASSUME NEW k \in 1..Len(h)
      PROVE  /\ q[k+1] = q[k] + Len(h[k]) + 1 /\ cells[q[k+1]-1] = Nul
             /\ \A i \in 1..Len(h[k]) : cells[q[k]+i-1] = h[k][i]
  <2> DEFINE at == q[k]
             len == Len(h[k])
  <2>1. /\ len \in Nat /\ at \in Nat /\ q[k+1] = at + len + 1 /\ q[k+1] <= n /\ q[k+1] \in Nat
        /\ big[at+len] = Nul /\ \A i \in 1..len : big[at+i-1] = h[k][i]
    BY LaidFacts
  <2> HIDE DEF at, len
  <2>2. q[k+1] - 1 = at + len /\ at + len \in Index
    BY <1>1, <2>1 DEF Index
  <2>3. cells[q[k+1]-1] = Nul
    BY <2>1, <2>2
  <2>4. ASSUME NEW i \in 1..len PROVE cells[at+i-1] = h[k][i]
    <3>1. at + i - 1 \in Index /\ at + i - 1 # MaxHistory - 1
      BY <1>1, <2>1 DEF Index
    <3> QED
      BY <2>1, <3>1
  <2> QED
    BY <2>1, <2>3, <2>4 DEF at, len
<1>3. Laid(cells, n, h, q)
  BY <1>2 DEF Laid
<1>4. Held(h, q, h)
  BY <1>1 DEF Held
<1> QED
  BY <1>3, <1>4

\* Where they are more than there is room for, the last one is cut.
LEMMA CutLaid ==
  ASSUME NEW big, NEW n, NEW h, NEW q, Laid(big, n, h, q), n > MaxHistory,
         NEW cells, \A i \in Index : cells[i] = IF i = MaxHistory - 1 THEN Nul ELSE big[i]
  PROVE  \E L, pos : Laid(cells, MaxHistory, L, pos) /\ Held(L, pos, h)
<1> DEFINE T == {k \in 1..Len(h)+1 : MaxHistory <= q[k]}
           all == Len(h)
<1>1. /\ MaxHistory \in Nat \ {0} /\ n \in Nat /\ all \in Nat /\ h \in Seq(AnyLine)
      /\ q \in [1..all+1 -> Nat] /\ q[1] = 0 /\ q[all+1] = n
  BY HistoryAssumption, LenProperties DEF Laid
<1>2. T \in SUBSET Nat /\ all + 1 \in T
  BY <1>1
<1>3. PICK t \in T : \A k \in T : t <= k
  <2> HIDE DEF T
  <2> QED
    BY <1>2, NatLeast
<1>4. t \in 1..all+1 /\ MaxHistory <= q[t] /\ t # 1
  BY <1>1
<1> DEFINE m == t - 1
<1>5. m \in 1..all /\ m + 1 = t /\ m \in Nat /\ m \in 1..all+1
  BY <1>1, <1>4
<1>6. q[m] < MaxHistory
  <2>1. ~(t <= m)
    BY <1>1, <1>4
  <2>2. m \notin T
    BY <1>3, <2>1
  <2>3. ~(MaxHistory <= q[m])
    BY <1>5, <2>2
  <2>4. q[m] \in Nat
    BY <1>1, <1>5
  <2> QED
    BY <1>1, <2>3, <2>4
<1> HIDE DEF T, m
<1> DEFINE at == q[m]
           c == MaxHistory - 1 - at
           last == h[m]
           L == [k \in 1..m |-> IF k = m THEN SubSeq(last, 1, c) ELSE h[k]]
           pos == [k \in 1..m+1 |-> IF k = m + 1 THEN MaxHistory ELSE q[k]]
<1>7. /\ last \in Seq(Letters) /\ at \in Nat /\ Len(last) \in Nat /\ q[m+1] = at + Len(last) + 1
      /\ \A i \in 1..Len(last) : big[at+i-1] = last[i]
  BY <1>5, LaidFacts
<1>8. c \in Nat /\ c <= Len(last) /\ at + c + 1 = MaxHistory
  BY <1>1, <1>4, <1>5, <1>6, <1>7
<1> HIDE DEF c, last
<1>9. /\ SubSeq(last, 1, c) \in Seq(Letters) /\ Len(SubSeq(last, 1, c)) = c
      /\ \A i \in 1..c : SubSeq(last, 1, c)[i] = last[i]
  <2>1. 1 \in Nat \ {0} /\ 1 <= c + 1 /\ (c - 1) + 1 = c
    BY <1>8
  <2>2. /\ SubSeq(last, 1, c) \in Seq(Letters) /\ Len(SubSeq(last, 1, c)) = (c - 1) + 1
        /\ \A i \in 1..(c - 1) + 1 : SubSeq(last, 1, c)[i] = last[(1 + i) - 1]
    BY <1>7, <1>8, <2>1, Cut
  <2>3. ASSUME NEW i \in 1..c PROVE (1 + i) - 1 = i
    OBVIOUS
  <2> QED
    BY <2>1, <2>2, <2>3
<1>10. /\ L \in Seq(AnyLine) /\ Len(L) = m /\ L[m] = SubSeq(last, 1, c)
       /\ \A k \in 1..m : k # m => L[k] = h[k]
  <2>1. ASSUME NEW k \in 1..m PROVE L[k] \in AnyLine
    <3>1. k \in 1..all
      BY <1>1, <1>5
    <3>2. h[k] \in AnyLine
      BY <1>1, <3>1
    <3> QED
      BY <1>9, <3>2 DEF AnyLine
  <2>2. L \in [1..m -> AnyLine]
    BY <2>1
  <2>3. L \in Seq(AnyLine) /\ Len(L) = m
    <3> HIDE DEF L
    <3> QED
      BY <1>5, <2>2
  <2>4. m \in 1..m
    BY <1>5
  <2> QED
    BY <2>3, <2>4
<1>11. /\ pos \in [1..m+1 -> Nat] /\ pos[1] = 0 /\ pos[m+1] = MaxHistory
       /\ \A k \in 1..m : pos[k] = q[k]
  <2>1. ASSUME NEW k \in 1..m+1 PROVE pos[k] \in Nat
    <3>1. k \in 1..all+1
      BY <1>1, <1>5
    <3> QED
      BY <1>1, <3>1
  <2>2. ASSUME NEW k \in 1..m PROVE pos[k] = q[k]
    BY <1>5
  <2>3. 1 \in 1..m /\ m + 1 \in 1..m+1
    BY <1>5
  <2> QED
    BY <1>1, <2>1, <2>2, <2>3
<1> HIDE DEF L, pos
<1>12. ASSUME NEW k \in 1..m
       PROVE  /\ pos[k+1] = pos[k] + Len(L[k]) + 1 /\ cells[pos[k+1]-1] = Nul
              /\ \A i \in 1..Len(L[k]) : cells[pos[k]+i-1] = L[k][i]
  <2>1. CASE k = m
    <3>1. pos[k] = at /\ pos[k+1] = MaxHistory /\ Len(L[k]) = c
      BY <1>9, <1>10, <1>11, <2>1
    <3>2. MaxHistory - 1 \in Index
      BY <1>1 DEF Index
    <3>3. ASSUME NEW i \in 1..c PROVE cells[at+i-1] = L[k][i]
      <4> HIDE DEF at
      <4>1. at + i - 1 \in Index /\ at + i - 1 # MaxHistory - 1 /\ i \in 1..Len(last)
        BY <1>1, <1>7, <1>8 DEF Index
      <4>2. cells[at+i-1] = last[i]
        BY <1>7, <4>1
      <4> QED
        BY <1>9, <1>10, <2>1, <4>2
    <3> HIDE DEF at
    <3> QED
      BY <1>8, <3>1, <3>2, <3>3
  <2>2. CASE k # m
    <3> DEFINE s == h[k]
               len == Len(s)
    <3>1. k \in 1..all /\ k + 1 \in 1..m /\ k \in 1..all+1 /\ k + 1 \in 1..all+1
      BY <1>1, <1>5, <2>2
    <3>2. /\ len \in Nat /\ q[k] \in Nat /\ q[k+1] = q[k] + len + 1 /\ big[q[k]+len] = Nul
          /\ \A i \in 1..len : big[q[k]+i-1] = s[i]
      BY <3>1, LaidFacts
    <3>3. q[k+1] <= at
      <4>1. k + 1 = m \/ k + 1 < m
        BY <1>5, <3>1
      <4>2. k + 1 < m => q[k+1] < q[m]
        BY <1>5, <3>1, LaidGrows
      <4> HIDE DEF len
      <4> QED
        BY <1>7, <3>2, <4>1, <4>2
    <3>4. L[k] = s /\ pos[k] = q[k] /\ pos[k+1] = q[k+1]
      BY <1>10, <1>11, <2>2, <3>1
    <3> DEFINE x == q[k]
    <3>5. x \in Nat /\ q[k+1] = x + len + 1
      BY <3>2
    <3> HIDE DEF len, s, at, x
    <3>6. q[k+1] - 1 = x + len /\ x + len \in Index /\ x + len # MaxHistory - 1
      BY <1>1, <1>6, <1>7, <3>2, <3>3, <3>5 DEF Index, at
    <3>7. cells[q[k+1]-1] = Nul
      BY <3>2, <3>6 DEF x
    <3>8. ASSUME NEW i \in 1..len PROVE cells[x+i-1] = s[i]
      <4>1. x + i - 1 \in Index /\ x + i - 1 # MaxHistory - 1
        BY <1>1, <3>2, <3>5, <3>6 DEF Index
      <4> QED
        BY <3>2, <4>1 DEF x
    <3> QED
      BY <3>4, <3>5, <3>7, <3>8 DEF x, len
  <2> QED
    BY <2>1, <2>2
<1>13. Laid(cells, MaxHistory, L, pos)
  BY <1>1, <1>10, <1>11, <1>12 DEF Laid
<1>14. Held(L, pos, h)
  <2>1. Len(L) <= all
    BY <1>1, <1>5, <1>10
  <2>2. ASSUME NEW i \in 1..Len(L)
        PROVE  \/ L[i] = h[i]
               \/ /\ i = Len(L) /\ pos[i+1] = MaxHistory
                  /\ L[i] = SubSeq(h[i], 1, Len(L[i]))
    BY <1>9, <1>10, <1>11 DEF last
  <2>3. pos[Len(L)+1] = MaxHistory
    BY <1>10, <1>11
  <2> QED
    BY <2>1, <2>2, <2>3 DEF Held
<1> QED
  BY <1>13, <1>14

\* add_to_history puts the line before the others, of which it keeps what there is room for.
LEMMA PrependLaid ==
  ASSUME NEW cells, NEW n, NEW L, NEW pos, Laid(cells, n, L, pos),
         NEW line \in Seq(Letters), line # <<>>
  PROVE  \E new, at : /\ Laid(Prepend(cells, line), Capped(n + NewLength(line)), new, at)
                      /\ Held(new, at, <<line>> \o L)
<1> DEFINE len == Len(line)
           big == Unbounded(cells, line)
           N == n + len + 1
           h == <<line>> \o L
           q == PushedOn(pos, len, Len(L) + 2)
           front == Prepend(cells, line)
           cap == Capped(n + NewLength(line))
<1>1. n \in Nat /\ MaxHistory \in Nat \ {0} /\ len \in Nat \ {0}
  BY HistoryAssumption DEF Laid
<1>2. Laid(big, N, h, q)
  BY JoinLaid
<1>3. \A i \in Index : front[i] = IF i = MaxHistory - 1 THEN Nul ELSE big[i]
  BY PrependIs
<1>4. cap = IF N <= MaxHistory THEN N ELSE MaxHistory
  BY <1>1 DEF Capped, NewLength
<1>5. N \in Nat
  BY <1>1
<1> HIDE DEF big, N, h, q, front, cap
<1>6. CASE N <= MaxHistory
  BY <1>2, <1>3, <1>4, <1>6, WholeLaid DEF front, cap, h
<1>7. CASE ~(N <= MaxHistory)
  <2>1. N > MaxHistory
    BY <1>1, <1>5, <1>7
  <2>2. \E new, at : Laid(front, MaxHistory, new, at) /\ Held(new, at, h)
    BY <1>2, <1>3, <2>1, CutLaid
  <2>3. cap = MaxHistory
    BY <1>4, <1>7
  <2> QED
    BY <2>2, <2>3 DEF front, cap, h
<1> QED
  BY <1>6, <1>7

-----------------------------------------------------------------------------
\* A line that is found is one of the lines, and each of them is found where it is laid.
LEMMA FoundLaid ==
  ASSUME NEW cells, NEW n, WholeArray(cells, n), NEW L, NEW pos, Laid(cells, n, L, pos),
         NEW line \in Seq(Letters), line # <<>>
  PROVE  /\ \A p \in Found(cells, line) : \E k \in 1..Len(L) : pos[k] = p /\ L[k] = line
         /\ \A k \in 1..Len(L) : L[k] = line => pos[k] \in Found(cells, line)
<1>1. LinesIn(cells, n) = {pos[j] : j \in 1..Len(L)}
  BY LaidStarts DEF Places
<1>2. n \in Nat /\ n <= MaxHistory /\ MaxHistory \in Nat
  BY HistoryAssumption DEF WholeArray
<1>3. ASSUME NEW p \in Found(cells, line)
      PROVE  \E k \in 1..Len(L) : pos[k] = p /\ L[k] = line
  <2>1. /\ p \in Nat /\ Len(line) \in Nat \ {0} /\ p + Len(line) < n
    BY FoundInside
  <2>2. /\ p \in Starts(cells) /\ cells[p+Len(line)] = Nul
        /\ \A i \in 1..Len(line) : cells[p+i-1] = line[i]
    BY DEF Found
  <2>3. p \in LinesIn(cells, n)
    BY <1>2, <2>1, <2>2 DEF LinesIn
  <2>4. PICK k \in 1..Len(L) : pos[k] = p
    BY <1>1, <2>3
  <2> DEFINE s == L[k]
             len == Len(s)
             all == Len(line)
  <2>5. /\ s \in Seq(Letters) /\ len \in Nat /\ len = Len(s) /\ cells[p+len] = Nul
        /\ \A i \in 1..len : cells[p+i-1] = s[i] /\ s[i] # Nul
    BY <2>4, LaidFacts
  <2>6. all \in Nat /\ all = Len(line) /\ \A i \in 1..all : line[i] \in Letters /\ line[i] # Nul
    BY HistoryAssumption
  <2> HIDE DEF s, len, all
  <2>7. ~(len < all)
    <3>1. ASSUME len < all PROVE FALSE
      <4>1. len + 1 \in 1..all /\ p + (len + 1) - 1 = p + len
        BY <2>1, <2>5, <2>6, <3>1
      <4> QED
        BY <2>2, <2>5, <2>6, <4>1
    <3> QED
      BY <3>1
  <2>8. ~(all < len)
    <3>1. ASSUME all < len PROVE FALSE
      <4>1. all + 1 \in 1..len /\ p + (all + 1) - 1 = p + all
        BY <2>1, <2>5, <2>6, <3>1
      <4> QED
        BY <2>2, <2>5, <2>6, <4>1
    <3> QED
      BY <3>1
  <2>9. len = all
    BY <2>5, <2>6, <2>7, <2>8
  <2>10. \A i \in 1..all : s[i] = line[i]
    BY <2>2, <2>5, <2>6, <2>9
  <2>11. s = line
    <3>1. s = [i \in 1..len |-> s[i]]
      BY <2>5
    <3>2. line = [i \in 1..all |-> line[i]]
      BY <2>6
    <3>3. [i \in 1..all |-> s[i]] = [i \in 1..all |-> line[i]]
      BY <2>10
    <3> QED
      BY <2>9, <3>1, <3>2, <3>3
  <2> QED
    BY <2>4, <2>11 DEF s
<1>4. ASSUME NEW k \in 1..Len(L), L[k] = line
      PROVE  pos[k] \in Found(cells, line)
  <2>1. /\ pos[k] \in Nat /\ Len(line) \in Nat /\ pos[k] + Len(line) + 1 <= n
        /\ cells[pos[k]+Len(line)] = Nul
        /\ \A i \in 1..Len(line) : cells[pos[k]+i-1] = line[i]
    BY <1>4, LaidFacts
  <2>2. pos[k] \in Starts(cells)
    BY <1>1 DEF LinesIn
  <2>3. pos[k] + Len(line) < MaxHistory
    BY <1>2, <2>1
  <2> QED
    BY <2>1, <2>2, <2>3 DEF Found
<1> QED
  BY <1>3, <1>4

\* The line k goes to the front, and those before it down by one.
Raised(L, k, line) ==
  [j \in 1..Len(L) |-> IF j = 1 THEN line ELSE IF j <= k THEN L[j-1] ELSE L[j]]

RaisedPlaces(pos, len, m, k) ==
  [j \in 1..m+1 |-> IF j = 1 THEN 0 ELSE IF j <= k THEN pos[j-1] + len + 1 ELSE pos[j]]

\* The cells are moved as the lines are.
LEMMA MoveLaid ==
  ASSUME NEW cells, NEW n, n <= MaxHistory, NEW L, NEW pos, Laid(cells, n, L, pos),
         NEW k \in 1..Len(L), NEW line, line = L[k]
  PROVE  Laid(MoveToFront(cells, pos[k], line), n, Raised(L, k, line),
              RaisedPlaces(pos, Len(line), Len(L), k))
<1> DEFINE len == Len(line)
           p == pos[k]
           m == Len(L)
           R == Raised(L, k, line)
           q == RaisedPlaces(pos, len, m, k)
           moved == MoveToFront(cells, p, line)
<1>1. /\ n \in Nat /\ MaxHistory \in Nat /\ m \in Nat /\ L \in Seq(AnyLine) /\ k \in 1..m
      /\ pos \in [1..m+1 -> Nat] /\ pos[1] = 0 /\ pos[m+1] = n
  BY HistoryAssumption, LenProperties DEF Laid
<1>2. ASSUME NEW j \in 1..m
      PROVE  /\ L[j] \in Seq(Letters) /\ Len(L[j]) \in Nat /\ pos[j] \in Nat /\ pos[j+1] \in Nat
             /\ pos[j+1] = pos[j] + Len(L[j]) + 1 /\ pos[j+1] <= n
             /\ cells[pos[j]+Len(L[j])] = Nul
             /\ \A i \in 1..Len(L[j]) : cells[pos[j]+i-1] = L[j][i]
  BY LaidFacts
<1>3. /\ line \in Seq(Letters) /\ len \in Nat /\ p \in Nat /\ pos[k+1] = p + len + 1
      /\ p + len + 1 <= n /\ cells[p+len] = Nul
  BY <1>1, <1>2
<1>4. /\ R = [j \in 1..m |-> IF j = 1 THEN line ELSE IF j <= k THEN L[j-1] ELSE L[j]]
      /\ q = [j \in 1..m+1 |-> IF j = 1 THEN 0
                               ELSE IF j <= k THEN pos[j-1] + len + 1 ELSE pos[j]]
      /\ moved = [i \in Index |-> IF i < len THEN line[i+1] ELSE IF i = len THEN Nul
                                  ELSE IF i < p + len THEN cells[i-len-1] ELSE cells[i]]
  BY DEF Raised, RaisedPlaces, MoveToFront
<1> HIDE DEF len, p, m, R, q, moved
<1>5. R \in Seq(AnyLine) /\ Len(R) = m
  <2>1. ASSUME NEW j \in 1..m
        PROVE  (IF j = 1 THEN line ELSE IF j <= k THEN L[j-1] ELSE L[j]) \in AnyLine
    <3>1. line \in AnyLine /\ L[j] \in AnyLine
      BY <1>2, <1>3 DEF AnyLine
    <3>2. j # 1 => j - 1 \in 1..m
      BY <1>1
    <3>3. j # 1 => L[j-1] \in AnyLine
      BY <1>2, <3>2 DEF AnyLine
    <3> QED
      BY <3>1, <3>3
  <2>2. R \in [1..m -> AnyLine]
    BY <1>4, <2>1
  <2> QED
    BY <1>1, <2>2
<1>6. q \in [1..m+1 -> Nat] /\ q[1] = 0 /\ q[m+1] = n
  <2>1. ASSUME NEW j \in 1..m+1
        PROVE  (IF j = 1 THEN 0 ELSE IF j <= k THEN pos[j-1] + len + 1 ELSE pos[j]) \in Nat
    <3>1. pos[j] \in Nat
      BY <1>1
    <3>2. j # 1 => j - 1 \in 1..m+1
      BY <1>1
    <3>3. j # 1 => pos[j-1] \in Nat
      BY <1>1, <3>2
    <3> QED
      BY <1>3, <3>1, <3>3
  <2>2. q \in [1..m+1 -> Nat]
    BY <1>4, <2>1
  <2>3. 1 \in 1..m+1 /\ m + 1 \in 1..m+1 /\ m + 1 # 1 /\ ~(m + 1 <= k)
    BY <1>1
  <2> QED
    BY <1>1, <1>4, <2>2, <2>3
<1>7. ASSUME NEW i \in Nat, i <= n - 1 PROVE i \in Index
  BY <1>1, <1>7 DEF Index
\* The lines before p, one further down.
<1>8. ASSUME NEW i \in Nat, i < p PROVE moved[i+len+1] = cells[i]
  <2> DEFINE j == i + len + 1
  <2>1. j \in Nat /\ j <= n - 1 /\ ~(j < len) /\ j # len /\ j - len - 1 = i /\ j <= p + len
    BY <1>1, <1>3, <1>8
  <2>2. j \in Index
    BY <1>7, <2>1
  <2>3. CASE j < p + len
    BY <1>4, <2>1, <2>2, <2>3
  <2>4. CASE ~(j < p + len)
    <3>1. i = p - 1 /\ j = p + len
      BY <1>3, <1>8, <2>4
    <3>2. moved[j] = cells[p+len]
      BY <1>4, <2>1, <2>2, <2>4, <3>1
    <3>3. cells[p-1] = Nul
      <4>1. k # 1 /\ k - 1 \in 1..m /\ (k - 1) + 1 = k
        BY <1>1, <1>3, <1>8 DEF p
      <4> DEFINE u == k - 1
      <4>2. u \in 1..m /\ u + 1 = k
        BY <4>1
      <4> HIDE DEF u
      <4>3. pos[k] = pos[u] + Len(L[u]) + 1 /\ cells[pos[u]+Len(L[u])] = Nul
            /\ pos[u] \in Nat /\ Len(L[u]) \in Nat
        BY <1>2, <4>2
      <4>4. p - 1 = pos[u] + Len(L[u])
        BY <4>3 DEF p
      <4> QED
        BY <4>3, <4>4
    <3> QED
      BY <1>3, <3>1, <3>2, <3>3
  <2> QED
    BY <2>3, <2>4
\* Those behind it, where they were.
<1>9. ASSUME NEW i \in Nat, p + len < i, i <= n - 1 PROVE moved[i] = cells[i]
  <2>1. i \in Index /\ ~(i < len) /\ i # len /\ ~(i < p + len)
    BY <1>3, <1>7, <1>9
  <2> QED
    BY <1>4, <2>1
<1>10. ASSUME NEW j \in 1..m
       PROVE  /\ q[j+1] = q[j] + Len(R[j]) + 1 /\ moved[q[j+1]-1] = Nul
              /\ \A i \in 1..Len(R[j]) : moved[q[j]+i-1] = R[j][i]
  <2>0. j \in 1..m+1 /\ j + 1 \in 1..m+1 /\ j + 1 # 1 /\ (j + 1) - 1 = j
    BY <1>1
  <2>1. CASE j = 1
    <3>1. q[j] = 0 /\ R[j] = line
      BY <1>4, <1>6, <2>1
    <3>2. q[j+1] = len + 1
      <4>1. CASE j + 1 <= k
        BY <1>1, <1>3, <1>4, <2>0, <2>1, <4>1
      <4>2. CASE ~(j + 1 <= k)
        <5>1. k = 1 /\ p = 0
          BY <1>1, <2>1, <4>2 DEF p
        <5>2. q[j+1] = pos[k+1]
          BY <1>4, <2>0, <2>1, <4>2, <5>1
        <5> QED
          BY <1>3, <5>1, <5>2
      <4> QED
        BY <4>1, <4>2
    <3>3. len \in Index /\ moved[len] = Nul
      <4>1. len \in Index
        BY <1>3, <1>1, <1>7
      <4> QED
        BY <1>3, <1>4, <4>1
    <3>4. ASSUME NEW i \in 1..len PROVE moved[0+i-1] = line[i]
      <4>1. 0 + i - 1 \in Nat /\ 0 + i - 1 <= n - 1 /\ 0 + i - 1 < len /\ (0 + i - 1) + 1 = i
        BY <1>1, <1>3
      <4>2. 0 + i - 1 \in Index
        BY <1>7, <4>1
      <4> QED
        BY <1>4, <4>1, <4>2
    <3>5. (len + 1) - 1 = len /\ 0 + len + 1 = len + 1 /\ Len(R[j]) = len
      BY <1>3, <3>1 DEF len
    <3> QED
      BY <3>1, <3>2, <3>3, <3>4, <3>5
  <2>2. CASE j # 1 /\ j <= k
    <3> DEFINE u == j - 1
               s == L[u]
               at == pos[u]
               l == Len(s)
    <3>1. u \in 1..m /\ u + 1 = j /\ u < k /\ u \in 1..m+1
      BY <1>1, <2>2
    <3> HIDE DEF u
    <3>2. /\ at \in Nat /\ l \in Nat /\ pos[u+1] = at + l + 1 /\ cells[at+l] = Nul
          /\ \A i \in 1..l : cells[at+i-1] = s[i]
      BY <1>2, <3>1
    <3>3. R[j] = s /\ q[j] = at + len + 1
      BY <1>4, <2>0, <2>2 DEF u
    <3>4. q[j+1] = (at + l + 1) + len + 1
      <4>1. CASE j + 1 <= k
        <5>1. q[j+1] = pos[j] + len + 1
          BY <1>4, <2>0, <4>1
        <5> QED
          BY <3>1, <3>2, <5>1
      <4>2. CASE ~(j + 1 <= k)
        <5>1. j = k
          BY <1>1, <2>2, <4>2
        <5>2. q[j+1] = pos[k+1] /\ p = at + l + 1
          BY <1>4, <2>0, <3>1, <3>2, <4>2, <5>1 DEF p
        <5> QED
          BY <1>3, <5>2
      <4> QED
        BY <4>1, <4>2
    <3>5. at + l < p
      <4>1. j = k \/ j < k
        BY <1>1, <2>2
      <4>2. pos[j] <= p /\ pos[j] \in Nat
        <5>1. j < k => pos[j] < pos[k]
          <6>1. j \in 1..Len(L)+1 /\ k \in 1..Len(L)+1
            BY <1>1, <2>0 DEF m
          <6> QED
            BY <6>1, LaidGrows
        <5> QED
          BY <1>1, <1>3, <2>0, <4>1, <5>1 DEF p
      <4> QED
        BY <1>3, <3>1, <3>2, <4>2
    <3> HIDE DEF s, at, l
    <3>6. moved[q[j+1]-1] = Nul
      <4>1. q[j+1] - 1 = (at + l) + len + 1 /\ at + l \in Nat
        BY <1>3, <3>2, <3>4
      <4> QED
        BY <1>8, <3>2, <3>5, <4>1
    <3>7. ASSUME NEW i \in 1..l PROVE moved[q[j]+i-1] = s[i]
      <4> DEFINE d == at + i - 1
      <4>1. d \in Nat /\ d < p /\ q[j] + i - 1 = d + len + 1
        BY <1>3, <3>2, <3>3, <3>5
      <4>2. cells[d] = s[i]
        BY <3>2
      <4> HIDE DEF d
      <4> QED
        BY <1>8, <4>1, <4>2
    <3>8. q[j+1] = q[j] + l + 1
      BY <1>3, <3>2, <3>3, <3>4
    <3> QED
      BY <3>3, <3>6, <3>7, <3>8 DEF l
  <2>3. CASE k < j
    <3> DEFINE s == L[j]
               at == pos[j]
               l == Len(s)
    <3>1. /\ at \in Nat /\ l \in Nat /\ pos[j+1] = at + l + 1 /\ pos[j+1] <= n
          /\ cells[at+l] = Nul /\ \A i \in 1..l : cells[at+i-1] = s[i]
      BY <1>2
    <3>2. j # 1 /\ ~(j <= k) /\ ~(j + 1 <= k)
      BY <1>1, <2>3
    <3>3. R[j] = s /\ q[j] = at /\ q[j+1] = at + l + 1
      BY <1>4, <2>0, <3>1, <3>2
    <3>4. p + len < at
      <4>1. k + 1 = j \/ k + 1 < j
        BY <1>1, <2>3
      <4>2. k + 1 < j => pos[k+1] < pos[j]
        <5>1. j \in 1..Len(L)+1 /\ k + 1 \in 1..Len(L)+1
          BY <1>1, <2>0 DEF m
        <5> QED
          BY <5>1, LaidGrows
      <4> QED
        BY <1>3, <3>1, <4>1, <4>2
    <3> HIDE DEF s, at, l
    <3>5. moved[q[j+1]-1] = Nul
      <4>1. q[j+1] - 1 = at + l /\ at + l \in Nat /\ p + len < at + l /\ at + l <= n - 1
        BY <1>1, <1>3, <3>1, <3>3, <3>4
      <4> QED
        BY <1>9, <3>1, <4>1
    <3>6. ASSUME NEW i \in 1..l PROVE moved[q[j]+i-1] = s[i]
      <4> DEFINE d == at + i - 1
      <4>1. d \in Nat /\ p + len < d /\ d <= n - 1 /\ q[j] + i - 1 = d
        BY <1>1, <1>3, <3>1, <3>3, <3>4
      <4>2. cells[d] = s[i]
        BY <3>1
      <4> HIDE DEF d
      <4> QED
        BY <1>9, <4>1, <4>2
    <3> QED
      BY <3>3, <3>5, <3>6 DEF l
  <2> QED
    BY <1>1, <2>1, <2>2, <2>3
<1>11. Laid(moved, n, R, q)
  BY <1>1, <1>5, <1>6, <1>10 DEF Laid
<1> QED
  BY <1>11 DEF moved, R, q, p, len, m

\* A part of the lines.
LEMMA PartOf ==
  ASSUME NEW s \in Seq(AnyLine), NEW from \in Nat \ {0}, NEW to \in Nat,
         to <= Len(s), from <= to + 1
  PROVE  /\ SubSeq(s, from, to) \in Seq(AnyLine)
         /\ Len(SubSeq(s, from, to)) = (to - from) + 1
         /\ \A i \in 1..(to - from) + 1 : SubSeq(s, from, to)[i] = s[(from + i) - 1]
<1>1. \A i \in from..to : s[i] \in AnyLine
  BY LenProperties, ElementOfSeq
<1>2. /\ SubSeq(s, from, to) \in Seq(AnyLine)
      /\ Len(SubSeq(s, from, to)) = IF from <= to THEN to - from + 1 ELSE 0
      /\ \A i \in 1..to - from + 1 : SubSeq(s, from, to)[i] = s[from + i - 1]
  BY <1>1, SubSeqProperties
<1>3. from <= to \/ (to - from) + 1 = 0
  OBVIOUS
<1>4. (to - from) + 1 = to - from + 1
  OBVIOUS
<1>5. \A i \in 1..(to - from) + 1 : (from + i) - 1 = from + i - 1
  OBVIOUS
<1> QED
  BY <1>2, <1>3, <1>4, <1>5

\* Raised is the list with the line taken out and put in front.
LEMMA RaisedIs ==
  ASSUME NEW L \in Seq(AnyLine), NEW k \in 1..Len(L), NEW line \in AnyLine
  PROVE  Raised(L, k, line) = <<line>> \o SubSeq(L, 1, k - 1) \o SubSeq(L, k + 1, Len(L))
<1> DEFINE m == Len(L)
           B == SubSeq(L, 1, k - 1)
           A == SubSeq(L, k + 1, m)
           F == <<line>> \o B
           W == F \o A
           j == k - 1
           l == m - k
<1>1. m \in Nat /\ k \in Nat /\ k <= m /\ 1 <= k /\ j \in Nat /\ l \in Nat /\ j + 1 = k /\ k + l = m
  OBVIOUS
<1>2. B \in Seq(AnyLine) /\ Len(B) = j /\ \A i \in 1..j : B[i] = L[i]
  <2>1. 1 \in Nat \ {0} /\ j \in Nat /\ j <= Len(L) /\ 1 <= j + 1 /\ (j - 1) + 1 = j
        /\ \A i \in 1..j : (1 + i) - 1 = i
    BY <1>1
  <2> HIDE DEF j
  <2>2. /\ SubSeq(L, 1, j) \in Seq(AnyLine) /\ Len(SubSeq(L, 1, j)) = (j - 1) + 1
        /\ \A i \in 1..(j - 1) + 1 : SubSeq(L, 1, j)[i] = L[(1 + i) - 1]
    BY <2>1, PartOf
  <2> QED
    BY <2>1, <2>2 DEF j
<1>3. A \in Seq(AnyLine) /\ Len(A) = l /\ \A i \in 1..l : A[i] = L[k+i]
  <2> DEFINE from == k + 1
  <2>1. from \in Nat \ {0} /\ m \in Nat /\ m <= Len(L) /\ from <= m + 1 /\ (m - from) + 1 = l
        /\ \A i \in 1..l : (from + i) - 1 = k + i
    BY <1>1
  <2> HIDE DEF from, m
  <2>2. /\ SubSeq(L, from, m) \in Seq(AnyLine) /\ Len(SubSeq(L, from, m)) = (m - from) + 1
        /\ \A i \in 1..(m - from) + 1 : SubSeq(L, from, m)[i] = L[(from + i) - 1]
    BY <2>1, PartOf
  <2> HIDE DEF l
  <2> QED
    BY <2>1, <2>2 DEF from
<1> HIDE DEF B, A, m, j, l
<1>4. /\ F \in Seq(AnyLine) /\ Len(F) = k /\ F[1] = line
      /\ \A i \in 1..j : F[i+1] = L[i]
  BY <1>1, <1>2, OneBefore
<1> HIDE DEF F
<1>5. /\ W \in Seq(AnyLine) /\ Len(W) = m
      /\ \A i \in 1..m : W[i] = IF i <= k THEN F[i] ELSE A[i-k]
  <2>1. F \in Seq(AnyLine) /\ A \in Seq(AnyLine) /\ k = Len(F) /\ l = Len(A)
    BY <1>3, <1>4
  <2>2. /\ F \o A \in Seq(AnyLine) /\ Len(F \o A) = k + l
        /\ \A i \in 1..k + l : (F \o A)[i] = IF i <= k THEN F[i] ELSE A[i-k]
    BY <2>1, JoinedAny
  <2> QED
    BY <1>1, <2>2
<1>6. ASSUME NEW i \in 1..m
      PROVE  W[i] = IF i = 1 THEN line ELSE IF i <= k THEN L[i-1] ELSE L[i]
  <2> HIDE DEF W
  <2>1. CASE i = 1
    BY <1>1, <1>4, <1>5, <2>1
  <2>2. CASE i # 1 /\ i <= k
    <3> DEFINE d == i - 1
    <3>1. d \in 1..j /\ d + 1 = i
      BY <1>1, <2>2
    <3> HIDE DEF d
    <3>2. F[d+1] = L[d]
      BY <1>4, <3>1
    <3> QED
      BY <1>5, <2>2, <3>1, <3>2 DEF d
  <2>3. CASE ~(i <= k)
    <3> DEFINE d == i - k
    <3>1. d \in 1..l /\ k + d = i /\ i # 1
      BY <1>1, <2>3
    <3>2. A[d] = L[k+d]
      BY <1>3, <3>1
    <3> QED
      BY <1>5, <2>3, <3>1, <3>2
  <2> QED
    BY <2>1, <2>2, <2>3
<1> HIDE DEF W
<1>7. W = [i \in 1..m |-> W[i]]
  BY <1>5
<1>8. Raised(L, k, line) = W
  BY <1>6, <1>7 DEF Raised, m
<1> QED
  BY <1>8 DEF W, F, B, A, m

-----------------------------------------------------------------------------
(***************************************************************************)
(* The history is a list of lines.                                         *)
(***************************************************************************)

\* What a new array holds, where its lines are those of the list.
LEMMA KeptIs ==
  ASSUME NEW L, NEW pos, ArrayWhole, Laid(lastline, saved_length, L, pos)
  PROVE  LinesKept = L
<1>1. LinesOf(lastline, saved_length) = L
  BY LaidRead DEF ArrayWhole
<1> QED
  BY <1>1 DEF LinesKept, LinesOf

\* The same of the array after a step.
LEMMA KeptBecomes ==
  ASSUME NEW L, NEW pos, ArrayWhole', Laid(lastline', saved_length', L, pos)
  PROVE  LinesKept' = L
<1> DEFINE cells == lastline'
           n == saved_length'
<1>1. WholeArray(cells, n)
  BY DEF ArrayWhole
<1>2. Laid(cells, n, L, pos)
  OBVIOUS
<1>3. LinesKept' = LinesOf(cells, n)
  BY DEF LinesKept, LinesOf
<1> HIDE DEF cells, n
<1>4. LinesOf(cells, n) = L
  BY <1>1, <1>2, LaidRead
<1> QED
  BY <1>3, <1>4

\* The room that the first lines take is where the next one begins.
LEMMA RoomIs ==
  ASSUME NEW n, NEW L, NEW pos, NEW cells, Laid(cells, n, L, pos), LinesKept' = L
  PROVE  \A i \in 0..Len(L) : Kept!Room[i] = pos[i+1]
<1> DEFINE m == Len(L)
           F == [q \in Nat \X (1..m) |-> q[1] + Len(L[q[2]]) + 1]
           Is(r) == r = [i \in 0..m |-> IF i = 0 THEN 0 ELSE r[i-1] + Len(L[i]) + 1]
           room == CHOOSE r : Is(r)
           S == {i \in Nat : i <= m => room[i] = pos[i+1]}
<1>1. m \in Nat /\ \A i \in 1..m : Len(L[i]) \in Nat
  BY LenProperties, LaidFacts DEF Laid
<1>2. F \in [Nat \X (1..m) -> Nat]
  BY <1>1
<1>3. Is(room)
  <2> HIDE DEF F, m
  <2>1. PICK t \in [0..m -> Nat] : Loop(t, m, Nat, 0, F)
    BY <1>1, <1>2, LoopRuns
  <2>2. ASSUME NEW i \in 1..m PROVE t[i] = t[i-1] + Len(L[i]) + 1
    <3>1. t[i-1] \in Nat
      BY <1>1, <2>1
    <3>2. t[i] = F[<<t[i-1], i>>]
      BY <2>1, <3>1 DEF Loop
    <3> QED
      BY <3>1, <3>2 DEF F
  <2>3. Is(t)
    BY <1>1, <2>1, <2>2 DEF Loop
  <2> HIDE DEF Is
  <2> QED
    BY <2>3
<1>4. Kept!Room = room
  BY DEF Kept!Room
<1> HIDE DEF room, F
<1>5. 0 \in S
  BY <1>1, <1>3 DEF Laid
<1>6. ASSUME NEW i \in Nat, i \in S PROVE i + 1 \in S
  <2> SUFFICES ASSUME i + 1 <= m
               PROVE  room[i+1] = pos[(i+1)+1]
    OBVIOUS
  <2> DEFINE j == i + 1
  <2>1. j \in 1..m /\ j # 0 /\ j - 1 = i /\ i <= m /\ j \in 0..m
    BY <1>1
  <2>2. room[j-1] = pos[j]
    BY <1>6, <2>1
  <2>3. pos[j+1] = pos[j] + Len(L[j]) + 1
    BY <2>1 DEF Laid
  <2> HIDE DEF j
  <2>4. room[j] = room[j-1] + Len(L[j]) + 1
    BY <1>3, <2>1
  <2> QED
    BY <2>2, <2>3, <2>4 DEF j
<1>7. \A i \in Nat : i \in S
  <2> HIDE DEF S
  <2> QED
    BY <1>5, <1>6, Induct
<1>8. ASSUME NEW i \in 0..m PROVE room[i] = pos[i+1]
  <2>1. i \in Nat /\ i <= m
    BY <1>1
  <2> QED
    BY <1>7, <2>1
<1> QED
  BY <1>4, <1>8

\* Lines that are held are what the abstract history may keep of them.
LEMMA HoldsIs ==
  ASSUME NEW n, NEW L, NEW pos, NEW cells, Laid(cells, n, L, pos), n <= MaxHistory,
         LinesKept' = L, NEW h \in Seq(AnyLine), Held(L, pos, h)
  PROVE  Kept!Holds(h)
<1>1. L \in Seq(AnyLine) /\ Len(L) \in Nat /\ DOMAIN L = 1..Len(L) /\ pos[Len(L)+1] = n
  BY LenProperties DEF Laid
<1>2. \A i \in 0..Len(L) : Kept!Room[i] = pos[i+1]
  BY RoomIs
<1>3. Kept!Room[Len(L)] = n
  <2>1. Len(L) \in 0..Len(L)
    BY <1>1
  <2> QED
    BY <1>1, <1>2, <2>1
<1>4. ASSUME NEW i \in 1..Len(L)
      PROVE  \/ L[i] = h[i]
             \/ i = Len(L) /\ Kept!Room[i] = MaxHistory /\ L[i] = SubSeq(h[i], 1, Len(L[i]))
  <2>1. Kept!Room[i] = pos[i+1]
    BY <1>1, <1>2
  <2> QED
    BY <2>1 DEF Held
<1>5. Len(L) <= Len(h) /\ (Len(L) < Len(h) => n = MaxHistory)
  BY <1>1 DEF Held
<1> QED
  BY <1>1, <1>3, <1>4, <1>5 DEF Kept!Holds

\* validate_history finds what spoils a line, and nothing else but an array without lines.
LEMMA SpoiltIs ==
  ASSUME NEW L, NEW pos, ArrayWhole, Laid(lastline, saved_length, L, pos)
  PROVE  /\ Valid => ~Kept!Spoilt
         /\ ~Valid => Kept!Spoilt \/ L = <<>>
<1> DEFINE n == saved_length
<1>1. /\ LinesKept = L /\ L \in Seq(AnyLine) /\ Len(L) \in Nat /\ DOMAIN L = 1..Len(L)
      /\ MaxHistory \in Nat /\ n \in Nat /\ n <= MaxHistory
  <2>1. LinesKept = L
    BY KeptIs
  <2>2. L \in Seq(AnyLine) /\ Len(L) \in Nat /\ DOMAIN L = 1..Len(L)
    BY LenProperties DEF Laid
  <2>3. MaxHistory \in Nat /\ n \in Nat /\ n <= MaxHistory
    BY HistoryAssumption DEF ArrayWhole, WholeArray
  <2> QED
    BY <2>1, <2>2, <2>3
<1>2. Kept!Spoilt <=> \E k \in 1..Len(L) : \E i \in DOMAIN L[k] : L[k][i] \in Wide
  BY <1>1 DEF Kept!Spoilt
<1>3. ASSUME NEW k \in 1..Len(L)
      PROVE  /\ DOMAIN L[k] = 1..Len(L[k]) /\ Len(L[k]) \in Nat
             /\ pos[k] \in Nat /\ pos[k] + Len(L[k]) + 1 <= n
             /\ lastline[pos[k]+Len(L[k])] = Nul
             /\ \A i \in 1..Len(L[k]) : lastline[pos[k]+i-1] = L[k][i]
  <2>1. /\ L[k] \in Seq(Letters) /\ Len(L[k]) \in Nat
        /\ pos[k] \in Nat /\ pos[k] + Len(L[k]) + 1 <= n
        /\ lastline[pos[k]+Len(L[k])] = Nul
        /\ \A i \in 1..Len(L[k]) : lastline[pos[k]+i-1] = L[k][i]
    BY LaidFacts
  <2> QED
    BY <2>1
<1>4. Valid => ~Kept!Spoilt
  <2> SUFFICES ASSUME Valid, Kept!Spoilt
               PROVE  FALSE
    OBVIOUS
  <2>1. PICK k \in 1..Len(L) : \E i \in DOMAIN L[k] : L[k][i] \in Wide
    BY <1>2
  <2>2. PICK i \in 1..Len(L[k]) : L[k][i] \in Wide
    BY <1>3, <2>1
  <2> DEFINE at == pos[k]
             len == Len(L[k])
  <2>3. at \in Nat /\ len \in Nat /\ at + len + 1 <= n /\ i \in 1..len
    BY <1>3, <2>2
  <2>4. lastline[at+i-1] \in Wide
    BY <1>3, <2>2
  <2> HIDE DEF at, len
  <2>5. at + i - 1 \in Index
    BY <1>1, <2>3 DEF Index
  <2> QED
    BY <2>4, <2>5 DEF Valid
<1>5. ~Valid => Kept!Spoilt \/ L = <<>>
  <2> SUFFICES ASSUME ~Valid, L # <<>>
               PROVE  Kept!Spoilt
    OBVIOUS
  <2>1. n \in 1..MaxHistory
    <3>1. 1 \in 1..Len(L)
      BY <1>1
    <3>2. n # 0
      BY <1>1, <1>3, <3>1
    <3> QED
      BY <1>1, <3>2
  <2>2. PICK c \in Index : lastline[c] \in Wide
    BY <2>1 DEF Valid
  <2>3. lastline[c] # Nul
    BY <2>2, HistoryAssumption
  <2>4. c \in 0..n-1
    BY <1>1, <2>3 DEF ArrayWhole, WholeArray, Index
  <2>5. PICK k \in 1..Len(L) : pos[k] <= c /\ c <= pos[k] + Len(L[k])
    BY <2>4, LaidCovers
  <2> DEFINE i == c - pos[k] + 1
             at == pos[k]
             len == Len(L[k])
  <2>6. at \in Nat /\ len \in Nat /\ at <= c /\ c <= at + len /\ c # at + len /\ c \in Nat
    BY <1>3, <2>3, <2>5 DEF Index
  <2> DEFINE d == (c - at) + 1
  <2>7. d \in 1..len /\ at + d - 1 = c
    <3> HIDE DEF at, len
    <3> QED
      BY <2>6
  <2> HIDE DEF d
  <2>8. L[k][d] = lastline[at+d-1]
    BY <1>3, <2>7
  <2>9. d \in DOMAIN L[k]
    BY <1>3, <2>7
  <2> QED
    BY <1>2, <2>2, <2>7, <2>8, <2>9
<1> QED
  BY <1>4, <1>5

Listed == \E L, pos : Laid(lastline, saved_length, L, pos)

\* An array without lines.
LEMMA EmptyLaid ==
  ASSUME NEW cells
  PROVE  Laid(cells, 0, <<>>, [k \in 1..1 |-> 0])
<1> DEFINE L == <<>>
           pos == [k \in 1..1 |-> 0]
<1>1. L \in Seq(AnyLine) /\ Len(L) = 0 /\ pos \in [1..1 -> Nat] /\ pos[1] = 0
  OBVIOUS
<1> HIDE DEF L, pos
<1>2. Len(L) + 1 = 1 /\ 1..Len(L) = {} /\ 0 \in Nat
  BY <1>1
<1>3. Laid(cells, 0, L, pos)
  BY <1>1, <1>2 DEF Laid
<1> QED
  BY <1>3 DEF L, pos

\* What is there after validate_history: the lines, or none.
LEMMA ValidLaid ==
  ASSUME NEW L, NEW pos, ArrayWhole, Laid(lastline, saved_length, L, pos)
  PROVE  \E V, at : /\ Laid(ValidLine, ValidLength, V, at) /\ V \in Seq(AnyLine)
                    /\ \/ Valid /\ V = L /\ ~Kept!Spoilt
                       \/ ~Valid /\ V = <<>> /\ (Kept!Spoilt \/ L = <<>>)
<1>1. L \in Seq(AnyLine)
  BY DEF Laid
<1>2. CASE Valid
  BY <1>1, <1>2, SpoiltIs DEF ValidLine, ValidLength
<1>3. CASE ~Valid
  <2>1. Laid(ValidLine, ValidLength, <<>>, [k \in 1..1 |-> 0])
    BY <1>3, EmptyLaid DEF ValidLength
  <2>2. <<>> \in Seq(AnyLine)
    OBVIOUS
  <2> QED
    BY <1>3, <2>1, <2>2, SpoiltIs
<1> QED
  BY <1>2, <1>3

\* The history is used, or spoilt lines go.
LEMMA ValidateForgets ==
  ASSUME ArrayWhole, ArrayWhole', Listed, Validate
  PROVE  Listed' /\ (Kept!Forget \/ LinesKept' = LinesKept)
<1>1. PICK L, pos : Laid(lastline, saved_length, L, pos)
  BY DEF Listed
<1>2. PICK V, at : /\ Laid(ValidLine, ValidLength, V, at)
                   /\ \/ V = L
                      \/ V = <<>> /\ (Kept!Spoilt \/ L = <<>>)
  BY <1>1, ValidLaid
<1>3. Laid(lastline', saved_length', V, at)
  BY <1>2 DEF Validate
<1>4. LinesKept = L
  BY <1>1, KeptIs
<1>5. LinesKept' = V
  BY <1>3, KeptBecomes
<1>6. Listed'
  BY <1>3 DEF Listed
<1>7. Kept!Forget \/ LinesKept' = LinesKept
  BY <1>2, <1>4, <1>5 DEF Kept!Forget
<1> QED
  BY <1>6, <1>7

\* A line that is typed comes first.
LEMMA AddRemembers ==
  ASSUME ArrayWhole, ArrayWhole', Listed, NEW line \in Seq(Letters), line # <<>>,
         AddToHistory(line)
  PROVE  Listed' /\ Kept!Remember(line)
<1>1. PICK L, pos : Laid(lastline, saved_length, L, pos)
  BY DEF Listed
<1>2. PICK V, at : /\ Laid(ValidLine, ValidLength, V, at) /\ V \in Seq(AnyLine)
                   /\ \/ Valid /\ V = L /\ ~Kept!Spoilt
                      \/ ~Valid /\ V = <<>> /\ (Kept!Spoilt \/ L = <<>>)
  BY <1>1, ValidLaid
<1>3. LinesKept = L /\ L \in Seq(AnyLine) /\ DOMAIN L = 1..Len(L) /\ Len(L) \in Nat
  BY <1>1, KeptIs, LenProperties DEF Laid
<1>4. WholeArray(ValidLine, ValidLength) /\ line \in AnyLine
  BY ValidWhole DEF ArrayWhole, AnyLine
<1>5. /\ \A p \in Found(ValidLine, line) : \E k \in 1..Len(V) : at[k] = p /\ V[k] = line
      /\ \A k \in 1..Len(V) : V[k] = line => at[k] \in Found(ValidLine, line)
  BY <1>2, <1>4, FoundLaid
<1>6. CASE Remembered(line)
  <2>1. PICK p \in Found(ValidLine, line) : lastline' = MoveToFront(ValidLine, p, line)
    BY <1>6 DEF AddToHistory
  <2>2. saved_length' = ValidLength /\ ValidLength # 0
    BY <1>6 DEF AddToHistory, Remembered
  <2>3. PICK k \in 1..Len(V) : at[k] = p /\ V[k] = line
    BY <1>5, <2>1
  <2>4. Valid /\ V = L /\ ~Kept!Spoilt
    BY <1>2, <2>2 DEF ValidLength
  <2> DEFINE new == Raised(V, k, line)
             places == RaisedPlaces(at, Len(line), Len(V), k)
  <2>5. Laid(MoveToFront(ValidLine, at[k], line), ValidLength, new, places)
    <3>1. ValidLength <= MaxHistory
      BY <1>4, HistoryAssumption DEF WholeArray
    <3> QED
      BY <1>2, <2>3, <3>1, MoveLaid
  <2>6. Laid(lastline', saved_length', new, places)
    BY <2>1, <2>2, <2>3, <2>5
  <2>7. LinesKept' = new
    BY <2>6, KeptBecomes
  <2>8. new = <<line>> \o SubSeq(L, 1, k - 1) \o SubSeq(L, k + 1, Len(L))
    BY <1>2, <1>4, <2>3, <2>4, RaisedIs
  <2>9. k \in DOMAIN L /\ L[k] = line
    BY <1>3, <2>3, <2>4
  <2>10. Listed'
    BY <2>6 DEF Listed
  <2> HIDE DEF new, places
  <2>11. Kept!Remember(line)
    BY <1>3, <2>4, <2>7, <2>8, <2>9 DEF Kept!Remember, Kept!Before, Kept!After
  <2> QED
    BY <2>10, <2>11
<1>7. CASE ~Remembered(line)
  <2>1. /\ lastline' = Prepend(ValidLine, line)
        /\ saved_length' = Capped(ValidLength + NewLength(line))
    BY <1>7 DEF AddToHistory
  <2> DEFINE h == <<line>> \o V
  <2>2. PICK new, places :
          /\ Laid(Prepend(ValidLine, line), Capped(ValidLength + NewLength(line)), new, places)
          /\ Held(new, places, h)
    BY <1>2, PrependLaid
  <2>3. Laid(lastline', saved_length', new, places)
    BY <2>1, <2>2
  <2>4. LinesKept' = new
    BY <2>3, KeptBecomes
  <2>5. h \in Seq(AnyLine)
    BY <1>2, <1>4, OneBefore
  <2>6. saved_length' <= MaxHistory
    BY HistoryAssumption DEF ArrayWhole, WholeArray
  <2> HIDE DEF h
  <2>7. Kept!Holds(h)
    <3> DEFINE cells == lastline'
               n == saved_length'
    <3>1. Laid(cells, n, new, places) /\ n <= MaxHistory
      BY <2>3, <2>6
    <3> HIDE DEF cells, n
    <3> QED
      BY <2>2, <2>4, <2>5, <3>1, HoldsIs
  <2>8. \A k \in 1..Len(V) : V[k] # line
    <3>1. ASSUME NEW k \in 1..Len(V), V[k] = line PROVE FALSE
      <4>1. ValidLength # 0
        BY <1>2, <3>1 DEF ValidLength, Valid
      <4> QED
        BY <1>5, <1>7, <3>1, <4>1 DEF Remembered
    <3> QED
      BY <3>1
  <2>9. Kept!Remember(line)
    <3>1. CASE Valid /\ V = L /\ ~Kept!Spoilt
      BY <1>3, <2>7, <2>8, <3>1 DEF Kept!Remember, h
    <3>2. CASE V = <<>> /\ (Kept!Spoilt \/ L = <<>>)
      <4>1. h = <<line>>
        BY <3>2 DEF h
      <4>2. CASE Kept!Spoilt
        BY <2>7, <4>1, <4>2 DEF Kept!Remember
      <4>3. CASE ~Kept!Spoilt
        <5>1. L = <<>> /\ V = L
          BY <3>2, <4>3
        <5> QED
          BY <1>3, <2>7, <2>8, <4>3, <5>1 DEF Kept!Remember, h
      <4> QED
        BY <4>2, <4>3
    <3> QED
      BY <1>2, <3>1, <3>2
  <2>10. Listed'
    BY <2>3 DEF Listed
  <2> QED
    BY <2>9, <2>10
<1> QED
  BY <1>6, <1>7

\* What a step does to the lines.
KeptStep ==
  /\ Listed'
  /\ [ \/ typing /\ ~typing' /\ Kept!Remember(ed.line)
       \/ Kept!Forget ]_LinesKept

\* Steps that leave the array alone.
LEMMA SameKept ==
  ASSUME Listed, UNCHANGED <<lastline, saved_length>>
  PROVE  KeptStep
<1>1. lastline' = lastline /\ saved_length' = saved_length
  OBVIOUS
<1>2. Listed'
  BY <1>1 DEF Listed
<1>3. LinesKept' = LinesKept
  BY <1>1 DEF LinesKept
<1> QED
  BY <1>2, <1>3 DEF KeptStep

\* A key: the history is left alone, read (get_history), or the line goes into it.
LEMMA PressedKept ==
  ASSUME EditInv, EditInv', Listed, typing, NEW k, Pressed(k)
  PROVE  KeptStep
<1>1. ArrayWhole /\ ArrayWhole' /\ ed.line \in Seq(Letters)
  BY EditorFacts DEF EditInv
<1>2. CASE Edit(k)
  BY <1>2, SameKept DEF Edit
<1>3. CASE Tab
  BY <1>3, SameKept DEF Tab
<1>4. CASE \E n : Recall(n)
  <2>1. Validate
    BY <1>4 DEF Recall
  <2> QED
    BY <1>1, <2>1, ValidateForgets DEF KeptStep
<1>5. CASE Finish
  <2>1. AddToHistory(ed.line) /\ typing' = FALSE
    BY <1>5 DEF Finish
  <2>2. CASE ed.line = <<>>
    <3>1. Validate
      BY <2>1, <2>2 DEF AddToHistory
    <3> QED
      BY <1>1, <3>1, ValidateForgets DEF KeptStep
  <2>3. CASE ed.line # <<>>
    BY <1>1, <2>1, <2>3, AddRemembers DEF KeptStep
  <2> QED
    BY <2>2, <2>3
<1> QED
  BY <1>2, <1>3, <1>4, <1>5 DEF Pressed

\* Each step of the line editor keeps the lines, puts one first, or forgets them all.
LEMMA NextKept ==
  ASSUME EditInv, EditInv', Listed, [EditNext]_editor
  PROVE  KeptStep
<1>1. CASE Step
  <2>1. CASE \E k : Pressed(k)
    BY <1>1, <2>1, PressedKept DEF Step
  <2>2. CASE Escape
    BY <2>2, SameKept DEF Escape
  <2>3. CASE \E k : EscapeKey(k)
    BY <2>3, SameKept DEF EscapeKey
  <2>4. ASSUME NEW k, BracketKey(k) PROVE KeptStep
    BY <2>1, <2>4, SameKept DEF BracketKey
  <2>5. ASSUME NEW k, TildeKey(k) PROVE KeptStep
    BY <2>1, <2>5, SameKept DEF TildeKey
  <2>6. ASSUME NEW k, Key(k) PROVE KeptStep
    BY <2>1, <2>6 DEF Key
  <2> QED
    BY <1>1, <2>2, <2>3, <2>4, <2>5, <2>6 DEF Step
<1>2. CASE Start
  BY <1>2, SameKept DEF Start
<1>3. CASE UNCHANGED editor
  BY <1>3, SameKept DEF editor
<1> QED
  BY <1>1, <1>2, <1>3 DEF EditNext

\* At the start there are none.
LEMMA InitKept == EditInit => Listed /\ Kept!Init
<1> SUFFICES ASSUME EditInit
             PROVE  Listed /\ Kept!Init
  OBVIOUS
<1>1. Laid(lastline, saved_length, <<>>, [k \in 1..1 |-> 0])
  BY EmptyLaid DEF EditInit, HistoryInit
<1>2. ArrayWhole
  BY InitEdit DEF EditInv
<1>3. LinesKept = <<>>
  BY <1>1, <1>2, KeptIs
<1> QED
  BY <1>1, <1>3 DEF Listed, Kept!Init

\* The array is the list of the latest lines, in their order, each once and whole but for the
\* last, whatever is typed, recalled and completed (add_to_history, already_in_history).
THEOREM KeepsLineHistory == EditSpec => ImplementsLineHistory
<1>1. EditInv /\ EditInv' /\ Listed /\ [EditNext]_editor => Listed'
  BY NextKept DEF KeptStep
<1>2. EditInv /\ EditInv' /\ Listed /\ [EditNext]_editor =>
        [ \/ typing /\ ~typing' /\ Kept!Remember(ed.line)
          \/ Kept!Forget ]_LinesKept
  BY NextKept DEF KeptStep
<1>3. EditInit => Listed /\ Kept!Init
  BY InitKept
<1> QED
  BY <1>1, <1>2, <1>3, EditInvariance, PTL DEF EditSpec, ImplementsLineHistory
=============================================================================
