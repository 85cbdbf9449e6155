------------------------- MODULE Exceptions_proofs -------------------------
(***************************************************************************)
(* Proofs about Exceptions: its invariants for every size of the two       *)
(* stacks, and that it implements TryCatch.                                *)
(***************************************************************************)
EXTENDS Exceptions, TLAPS

\* The inductive invariant: HANDLER and XFP can only be trusted together with
\* the shape of the cells they point at, so no part is inductive by itself.
IInv == TypeOK /\ HandlerChain /\ StackDiscipline /\ LocalsCurrent

-----------------------------------------------------------------------------
(***************************************************************************)
(* Stacks that agree on their lowest n cells, but for the values of locals. *)
(***************************************************************************)
Agree(s, t, n) == \A i \in 1..n : /\ t[i].kind = s[i].kind
                                  /\ s[i].kind # "loc" => t[i].val = s[i].val

LEMMA AgreeTop ==
  ASSUME NEW s \in Stack, NEW t \in Stack, NEW n \in 0..RSSize, Agree(s, t, n),
         NEW k, NEW h, NEW m \in 0..n, IsTop(s, k, h, m)
  PROVE  IsTop(t, k, h, m)
  BY SizesAreNat DEF Agree, IsTop

LEMMA AgreeShape ==
  ASSUME NEW s \in Stack, NEW t \in Stack, NEW n \in 0..RSSize, Agree(s, t, n),
         WellFormed(s, n)
  PROVE  WellFormed(t, n)
  <1> USE SizesAreNat
  <1> SUFFICES ASSUME NEW i \in 1..n
               PROVE  /\ t[i].kind # "dead"
                      /\ t[i].kind = "finish" <=> i = 1
                      /\ t[i].kind = "handler" => CatchFrame(t, i)
                      /\ t[i].kind = "oldrp" => LocalsFrame(t, i)
                      /\ t[i].kind = "caught" => i > 1 /\ t[i - 1].kind = "handler"
                      /\ t[i].kind = "free" => i > 1 /\ t[i - 1].kind = "oldrp"
    BY DEF WellFormed
  <1>1. ASSUME t[i].kind = "handler" PROVE CatchFrame(t, i)
    <2>1. CatchFrame(s, i)
      BY <1>1 DEF Agree, WellFormed
    <2>2. i - 1 \in 1..n /\ i - 2 \in 1..n
      BY <2>1 DEF CatchFrame
    <2>3. t[i-1].kind = s[i-1].kind /\ t[i-2].kind = s[i-2].kind /\ t[i-1].val = s[i-1].val
      BY <2>1, <2>2 DEF CatchFrame, Agree
    <2>4. QED
      BY <2>1, <2>3 DEF CatchFrame
  <1>2. ASSUME t[i].kind = "oldrp" PROVE LocalsFrame(t, i)
    BY <1>2 DEF Agree, WellFormed, LocalsFrame
  <1>3. QED
    BY <1>1, <1>2 DEF Agree, WellFormed

LEMMA AgreeLinks ==
  ASSUME NEW s \in Stack, NEW t \in Stack, NEW n \in 0..RSSize, Agree(s, t, n)
  PROVE  /\ HandlerLinks(s, n) => HandlerLinks(t, n)
         /\ FrameLinks(s, n) => FrameLinks(t, n)
  <1>1. ASSUME HandlerLinks(s, n) PROVE HandlerLinks(t, n)
    <2> SUFFICES ASSUME NEW i \in 1..n, t[i].kind = "handler"
                 PROVE  IsTop(t, "handler", t[i].val, i - 1)
      BY DEF HandlerLinks
    <2>1. s[i].kind = "handler" /\ t[i].val = s[i].val /\ i - 1 \in 0..n
      BY SizesAreNat DEF Agree
    <2>2. IsTop(s, "handler", s[i].val, i - 1)
      BY <1>1, <2>1 DEF HandlerLinks
    <2>3. QED
      BY <2>1, <2>2, AgreeTop
  <1>2. ASSUME FrameLinks(s, n) PROVE FrameLinks(t, n)
    <2> SUFFICES ASSUME NEW i \in 1..n, t[i].kind = "xfp"
                 PROVE  XfpIsTop(t, t[i].val, i - 1)
      BY DEF FrameLinks
    <2>1. s[i].kind = "xfp" /\ t[i].val = s[i].val /\ i - 1 \in 0..n
      BY SizesAreNat DEF Agree
    <2>2. XfpIsTop(s, s[i].val, i - 1)
      BY <1>2, <2>1 DEF FrameLinks
    <2>3. QED
      BY <2>1, <2>2, AgreeTop DEF XfpIsTop
  <1>3. QED
    BY <1>1, <1>2

\* Everything at once, for a stack that was cut or grown above its n cells.
Shaped(s, n) == WellFormed(s, n) /\ HandlerLinks(s, n)

LEMMA AgreeAll ==
  ASSUME NEW s \in Stack, NEW t \in Stack, NEW n \in 0..RSSize, NEW m \in n..RSSize,
         Agree(s, t, n)
  PROVE  /\ Shaped(s, m) => Shaped(t, n)
         /\ FrameLinks(s, m) => FrameLinks(t, n)
  <1>1. 1..n \subseteq 1..m
    BY SizesAreNat
  <1>2. /\ WellFormed(s, m) => WellFormed(s, n)
        /\ HandlerLinks(s, m) => HandlerLinks(s, n)
        /\ FrameLinks(s, m) => FrameLinks(s, n)
    BY <1>1 DEF WellFormed, HandlerLinks, FrameLinks
  <1>3. QED
    BY <1>2, AgreeShape, AgreeLinks DEF Shaped

\* More cells, none of kind k.
LEMMA TopAbove ==
  ASSUME NEW s \in Stack, NEW n \in 0..RSSize, NEW m \in n..RSSize, NEW k, NEW h,
         IsTop(s, k, h, n), \A i \in n+1..m : s[i].kind # k
  PROVE  IsTop(s, k, h, m)
  BY SizesAreNat DEF IsTop

-----------------------------------------------------------------------------
(***************************************************************************)
(* What a push and a pop do to the stack.                                  *)
(***************************************************************************)
CellType == [kind : Kinds, val : Nat]

LEMMA PushStack ==
  ASSUME TypeOK, NEW n \in Nat, rp + n <= RSSize,
         NEW c, \A i \in 1..n : c[i] \in CellType
  PROVE  /\ Push(c, n) \in Stack
         /\ Agree(rs, Push(c, n), rp)
         /\ \A i \in 1..n : Push(c, n)[rp + i] = c[i]
  <1> USE SizesAreNat DEF TypeOK, Slots
  <1>1. ASSUME NEW i \in Slots PROVE Push(c, n)[i] \in CellType
    <2>1. CASE i \in rp+1..rp+n
      <3>1. i - rp \in 1..n
        BY <2>1
      <3>2. Push(c, n)[i] = c[i - rp]
        BY <2>1 DEF Push
      <3>3. QED
        BY <3>1, <3>2
    <2>2. CASE i \notin rp+1..rp+n
      BY <2>2 DEF Push, CellType, Stack
    <2>3. QED
      BY <2>1, <2>2
  <1>2. Push(c, n) \in Stack
    BY <1>1 DEF Push, Stack, CellType
  <1>3. Agree(rs, Push(c, n), rp)
    BY DEF Agree, Push
  <1>4. \A i \in 1..n : Push(c, n)[rp + i] = c[i]
    BY DEF Push
  <1>5. QED
    BY <1>2, <1>3, <1>4

LEMMA CutStack ==
  ASSUME TypeOK, NEW n \in 0..RSSize
  PROVE  /\ Cut(n) \in Stack
         /\ Agree(rs, Cut(n), n)
         /\ \A i \in 1..n : Cut(n)[i] = rs[i]
  <1> USE SizesAreNat DEF TypeOK
  <1>1. \A i \in Slots : rs[i] \in CellType
    BY DEF Stack, CellType
  <1>2. Dead \in CellType
    BY DEF Dead, CellType, Kinds
  <1>3. Cut(n) \in Stack
    BY <1>1, <1>2 DEF Cut, Stack, CellType
  <1>4. \A i \in 1..n : Cut(n)[i] = rs[i]
    BY DEF Cut, Slots
  <1>5. QED
    BY <1>3, <1>4 DEF Agree

-----------------------------------------------------------------------------
(***************************************************************************)
(* Each action preserves the invariant.                                    *)
(***************************************************************************)

\* The invariant of a program that has kept to its own memory.
Sound == IInv /\ frames # "stray"

LEMMA SoundFacts ==
  ASSUME Sound
  PROVE  /\ TypeOK
         /\ Shaped(rs, rp) /\ IsTop(rs, "handler", handler, rp)
         /\ handler \in 0..rp
         /\ frames = "ok" => XfpIsTop(rs, xfp, rp) /\ FrameLinks(rs, rp)
  BY DEF Sound, IInv, HandlerChain, StackDiscipline, LocalsCurrent, Shaped, IsTop

\* Calls and >R push one cell.
LEMMA PushOne ==
  ASSUME Sound, rp + 1 <= RSSize, NEW k \in {"finish", "ret", "data"},
         k = "finish" <=> rp = 0,
         rs' = Push(<<Plain(k)>>, 1), rp' = rp + 1,
         depth' \in 0..DSSize, ip' = "body",
         UNCHANGED <<handler, xfp, frames>>
  PROVE  IInv'
  <1>0. /\ TypeOK /\ Shaped(rs, rp) /\ IsTop(rs, "handler", handler, rp)
        /\ frames = "ok" => XfpIsTop(rs, xfp, rp) /\ FrameLinks(rs, rp)
    BY SoundFacts
  <1>1. rp \in 0..RSSize /\ rp + 1 \in 1..RSSize /\ rp + 1 \in rp..RSSize
    BY <1>0, SizesAreNat DEF TypeOK
  <1>2. <<Plain(k)>>[1] = [kind |-> k, val |-> 0]
    BY DEF Plain, Pointer
  <1>3. \A i \in 1..1 : <<Plain(k)>>[i] \in CellType
    BY <1>2 DEF CellType, Kinds, Returns
  <1>4. /\ rs' \in Stack /\ Agree(rs, rs', rp)
        /\ rs'[rp + 1] = [kind |-> k, val |-> 0]
    BY <1>0, <1>2, <1>3, PushStack
  <1>5. Shaped(rs', rp) /\ (frames = "ok" => FrameLinks(rs', rp))
    BY <1>0, <1>1, <1>4, AgreeAll DEF TypeOK
  <1>6. /\ IsTop(rs', "handler", handler, rp)
        /\ frames = "ok" => XfpIsTop(rs', xfp, rp)
    BY <1>0, <1>1, <1>4, AgreeTop DEF TypeOK, XfpIsTop
  <1>7. /\ IsTop(rs', "handler", handler, rp + 1)
        /\ frames = "ok" => XfpIsTop(rs', xfp, rp + 1)
    BY <1>1, <1>4, <1>6, TopAbove DEF XfpIsTop
  <1>8. WellFormed(rs', rp + 1) /\ HandlerLinks(rs', rp + 1)
    BY <1>1, <1>4, <1>5 DEF Shaped, WellFormed, HandlerLinks
  <1>9. frames = "ok" => FrameLinks(rs', rp + 1)
    BY <1>1, <1>4, <1>5 DEF FrameLinks
  <1>10. TypeOK'
    BY <1>0, <1>1, <1>4 DEF TypeOK
  <1>11. QED
    BY <1>1, <1>7, <1>8, <1>9, <1>10
       DEF IInv, HandlerChain, StackDiscipline, LocalsCurrent

\* A return address on a sound stack leads where its cell says, and what is left
\* below it is what is needed there.
LEMMA Resumed ==
  ASSUME Sound, NEW i \in 1..rp, rs[i].kind \in Returns \union {"free"}
  PROVE  /\ Resume(rs[i]) \in {"host", "body", "tail", "free"}
         /\ Resume(rs[i]) = "host" => i = 1
         /\ Resume(rs[i]) # "host" => i > 1
         /\ Resume(rs[i]) = "tail" => rs[i - 1].kind = "handler"
         /\ Resume(rs[i]) = "free" => rs[i - 1].kind = "oldrp"
  <1>1. WellFormed(rs, rp)
    BY SoundFacts DEF Shaped
  <1>2. /\ rs[i].kind = "finish" <=> i = 1
        /\ rs[i].kind = "caught" => i > 1 /\ rs[i - 1].kind = "handler"
        /\ rs[i].kind = "free" => i > 1 /\ rs[i - 1].kind = "oldrp"
    BY <1>1 DEF WellFormed
  <1>3. rp \in Nat
    BY SizesAreNat DEF Sound, IInv, TypeOK
  <1>4. QED
    BY <1>2, <1>3 DEF Resume, Returns

\* Returns, R> and THROW cut the stack.
LEMMA PopTo ==
  ASSUME Sound, NEW n \in 0..rp, rs' = Cut(n), rp' = n,
         IsTop(rs, "handler", handler', n),
         frames' = "ok" => frames = "ok" /\ XfpIsTop(rs, xfp', n),
         frames' \in {"ok", "stale"}, depth' \in 0..DSSize, xfp' \in Nat,
         ip' \in {"host", "body", "tail", "free"},
         ip' = "host" <=> n = 0,
         ip' = "tail" => rs[n].kind = "handler",
         ip' = "free" => rs[n].kind = "oldrp"
  PROVE  IInv'
  <1>1. /\ TypeOK /\ Shaped(rs, rp)
        /\ frames = "ok" => FrameLinks(rs, rp)
    BY SoundFacts
  <1>2. rp \in 0..RSSize /\ n \in 0..RSSize /\ rp \in n..RSSize
    BY <1>1, SizesAreNat DEF TypeOK
  <1>3. rs' \in Stack /\ Agree(rs, rs', n) /\ \A i \in 1..n : rs'[i] = rs[i]
    BY <1>1, <1>2, CutStack
  <1>4. Shaped(rs', n) /\ (frames = "ok" => FrameLinks(rs', n))
    BY <1>1, <1>2, <1>3, AgreeAll DEF TypeOK
  <1>5. IsTop(rs', "handler", handler', n)
    BY <1>1, <1>2, <1>3, AgreeTop DEF TypeOK
  <1>6. frames' = "ok" => XfpIsTop(rs', xfp', n)
    BY <1>1, <1>2, <1>3, AgreeTop DEF TypeOK, XfpIsTop
  <1>7. TypeOK'
    BY <1>2, <1>3, <1>5 DEF TypeOK, IsTop
  <1>8. n > 0 => rs'[n] = rs[n]
    BY <1>2, <1>3
  <1>9. n = 0 => handler' = 0
    BY <1>5 DEF IsTop
  <1>10. QED
    BY <1>2, <1>4, <1>5, <1>6, <1>7, <1>8, <1>9
       DEF IInv, HandlerChain, StackDiscipline, LocalsCurrent, Shaped

LEMMA UnnestStep ==
  ASSUME Sound, Unnest
  PROVE  IInv'
  <1>1. /\ TypeOK /\ IsTop(rs, "handler", handler, rp) /\ handler \in 0..rp
        /\ frames = "ok" => XfpIsTop(rs, xfp, rp)
    BY SoundFacts
  <1>2. rp \in 0..RSSize /\ rp - 1 \in 0..rp /\ rp \in 1..rp
    BY <1>1, SizesAreNat DEF TypeOK, Unnest
  <1>3. rs[rp].kind \notin {"handler", "xfp"}
    BY DEF Unnest, Returns
  <1>4. \A k \in {"handler", "xfp"} : \A h : IsTop(rs, k, h, rp) => IsTop(rs, k, h, rp - 1)
    BY <1>2, <1>3 DEF IsTop
  <1>5. /\ IsTop(rs, "handler", handler, rp - 1)
        /\ frames = "ok" => XfpIsTop(rs, xfp, rp - 1)
    BY <1>1, <1>4 DEF XfpIsTop
  <1>6. frames \in {"ok", "stale"}
    BY <1>1 DEF TypeOK, Sound
  <1>7. QED
    BY <1>1, <1>2, <1>5, <1>6, Resumed, PopTo DEF Unnest, TypeOK

LEMMA RFromStep ==
  ASSUME Sound, RFrom
  PROVE  IInv'
  <1>1. /\ TypeOK /\ IsTop(rs, "handler", handler, rp) /\ Shaped(rs, rp)
        /\ frames = "ok" => XfpIsTop(rs, xfp, rp)
    BY SoundFacts
  <1>2. rp \in 0..RSSize /\ rp - 1 \in 0..rp /\ rp \in 1..rp
    BY <1>1, SizesAreNat DEF TypeOK, RFrom
  <1>3. rs[rp].kind = "data" /\ rp # 1
    BY <1>1, <1>2 DEF RFrom, Shaped, WellFormed
  <1>4. \A k \in {"handler", "xfp"} : \A h : IsTop(rs, k, h, rp) => IsTop(rs, k, h, rp - 1)
    BY <1>2, <1>3 DEF IsTop
  <1>5. /\ IsTop(rs, "handler", handler, rp - 1)
        /\ frames = "ok" => XfpIsTop(rs, xfp, rp - 1)
    BY <1>1, <1>4 DEF XfpIsTop
  <1>6. frames \in {"ok", "stale"} /\ depth + 1 \in 0..DSSize
    BY <1>1, SizesAreNat DEF TypeOK, Sound, RFrom
  <1>7. QED
    BY <1>1, <1>2, <1>3, <1>5, <1>6, PopTo DEF RFrom, TypeOK

\* What a sound stack holds at and below the catch frame whose top cell is h.
LEMMA AtCatchFrame ==
  ASSUME Sound, NEW h \in 1..rp, rs[h].kind = "handler"
  PROVE  /\ h > 3 /\ h - 3 \in 1..rp /\ h - 2 \in 1..rp
         /\ rs[h - 1].val \in 1..DSSize
         /\ rs[h - 2].kind = "ret"
         /\ IsTop(rs, "handler", rs[h].val, h - 3)
         /\ \A x : IsTop(rs, "xfp", x, h) => IsTop(rs, "xfp", x, h - 3)
  <1>1. TypeOK /\ Shaped(rs, rp)
    BY SoundFacts
  <1>2. rp \in 0..RSSize
    BY <1>1 DEF TypeOK
  <1>3. CatchFrame(rs, h) /\ IsTop(rs, "handler", rs[h].val, h - 1)
    BY <1>1 DEF Shaped, WellFormed, HandlerLinks
  <1>4. \A i \in h-2..h : rs[i].kind # "xfp"
    BY <1>2, <1>3 DEF CatchFrame
  <1>5. \A x : IsTop(rs, "xfp", x, h) => IsTop(rs, "xfp", x, h - 3)
    BY <1>2, <1>3, <1>4, SizesAreNat DEF IsTop, CatchFrame
  <1>6. \A i \in h-2..h-1 : rs[i].kind # "handler"
    BY <1>2, <1>3 DEF CatchFrame
  <1>7. IsTop(rs, "handler", rs[h].val, h - 3)
    BY <1>2, <1>3, <1>6, SizesAreNat DEF IsTop, CatchFrame
  <1>8. QED
    BY <1>2, <1>3, <1>5, <1>7, SizesAreNat DEF CatchFrame

LEMMA CatchDoneStep ==
  ASSUME Sound, CatchDone
  PROVE  IInv'
  <1>1. /\ TypeOK /\ IsTop(rs, "handler", handler, rp)
        /\ frames = "ok" => XfpIsTop(rs, xfp, rp)
    BY SoundFacts
  <1>2. rp \in 1..rp /\ rs[rp].kind = "handler"
    BY <1>1, SizesAreNat DEF Sound, IInv, StackDiscipline, CatchDone, TypeOK
  <1>3. /\ rp > 3 /\ rp - 3 \in 1..rp /\ rp - 2 \in 1..rp
        /\ rs[rp - 2].kind = "ret"
        /\ IsTop(rs, "handler", rs[rp].val, rp - 3)
        /\ \A x : IsTop(rs, "xfp", x, rp) => IsTop(rs, "xfp", x, rp - 3)
    BY <1>2, AtCatchFrame
  <1>4. frames \in {"ok", "stale"} /\ depth + 1 \in 0..DSSize
    BY <1>1, SizesAreNat DEF TypeOK, Sound, CatchDone
  <1>5. Resume(rs[rp - 2]) = "body"
    BY <1>3 DEF Resume
  <1>6. frames = "ok" => XfpIsTop(rs, xfp, rp - 3)
    BY <1>1, <1>3 DEF XfpIsTop
  <1>7. /\ rp - 3 \in 0..rp /\ rp - 3 # 0 /\ ip' = "body" /\ xfp' = xfp /\ frames' = frames
        /\ handler' = rs[rp].val /\ rs' = Cut(rp - 3) /\ rp' = rp - 3 /\ depth' = depth + 1
    BY <1>2, <1>3, <1>5, SizesAreNat DEF CatchDone, Outer, TypeOK
  <1>8. QED
    BY <1>1, <1>3, <1>4, <1>6, <1>7, PopTo DEF TypeOK

LEMMA ThrowToHandlerStep ==
  ASSUME Sound, ThrowToHandler
  PROVE  IInv'
  <1> DEFINE h == handler
  <1>1. /\ TypeOK /\ IsTop(rs, "handler", h, rp)
        /\ frames = "ok" => XfpIsTop(rs, xfp, rp)
    BY SoundFacts
  <1>2. h \in 1..rp /\ rs[h].kind = "handler" /\ rp \in 0..RSSize
    BY <1>1, SizesAreNat DEF ThrowToHandler, TypeOK, IsTop
  <1>3. /\ h > 3 /\ h - 3 \in 1..rp /\ h - 2 \in 1..rp
        /\ rs[h - 1].val \in 1..DSSize
        /\ rs[h - 2].kind = "ret"
        /\ IsTop(rs, "handler", rs[h].val, h - 3)
    BY <1>2, AtCatchFrame
  <1>4. Resume(rs[h - 2]) = "body"
    BY <1>3 DEF Resume
  <1>5. Unwind(h)
    BY <1>2 DEF ThrowToHandler
  <1>6. frames' \in {"ok", "stale"} /\ (frames' = "ok" => frames = "ok" /\ xfp <= h - 3)
    BY <1>1, <1>2, <1>5, SizesAreNat DEF TypeOK, Sound, Unwind, XfpLeft
  <1>7. \A i \in h-2..h : rs[i].kind # "xfp"
    BY <1>1, <1>2, <1>3, SoundFacts DEF Shaped, WellFormed, CatchFrame
  <1>8. ASSUME frames' = "ok" PROVE XfpIsTop(rs, xfp, h - 3)
    <2>1. XfpIsTop(rs, xfp, rp) /\ xfp <= h - 3
      BY <1>1, <1>6, <1>8
    <2>2. CASE xfp = 0
      BY <1>2, <1>3, <2>1, <2>2, SizesAreNat DEF XfpIsTop, IsTop
    <2>3. CASE xfp # 0
      <3>1. xfp + 1 \in 1..rp /\ rs[xfp + 1].kind = "xfp"
        BY <1>1, <1>2, <2>1, <2>3, SizesAreNat DEF XfpIsTop, IsTop, TypeOK
      <3>2. xfp + 1 \in 1..h-3
        BY <1>1, <1>2, <1>7, <2>1, <3>1, SizesAreNat DEF TypeOK
      <3>3. QED
        BY <1>2, <2>1, <2>3, <3>2, SizesAreNat DEF XfpIsTop, IsTop
    <2>4. QED
      BY <2>2, <2>3
  <1>9. /\ h - 3 \in 0..rp /\ h - 3 # 0 /\ ip' = "body" /\ xfp' = xfp
        /\ handler' = rs[h].val /\ rs' = Cut(h - 3) /\ rp' = h - 3
        /\ depth' \in 0..DSSize
    BY <1>2, <1>3, <1>4, <1>5, SizesAreNat DEF Unwind, Outer, ThrowDepth
  <1>10. QED
    BY <1>1, <1>3, <1>6, <1>8, <1>9, PopTo DEF TypeOK

LEMMA ThrowToHostStep ==
  ASSUME Sound, ThrowToHost
  PROVE  IInv'
  <1>1. TypeOK /\ (frames = "ok" => XfpIsTop(rs, xfp, rp))
    BY SoundFacts
  <1>2. IsTop(rs, "handler", 0, 0)
    BY DEF IsTop
  <1>3. frames' \in {"ok", "stale"} /\ (frames' = "ok" => frames = "ok" /\ xfp = 0)
    BY <1>1 DEF TypeOK, Sound, ThrowToHost, XfpLeft
  <1>4. xfp = 0 => XfpIsTop(rs, xfp, 0)
    BY DEF XfpIsTop, IsTop
  <1>5. 0 \in 0..rp /\ 0 \in 0..DSSize
    BY <1>1, SizesAreNat DEF TypeOK
  <1>6. QED
    BY <1>1, <1>2, <1>3, <1>4, <1>5, PopTo DEF TypeOK, ThrowToHost

LEMMA CatchStep ==
  ASSUME Sound, Catch
  PROVE  IInv'
  <1> DEFINE c == CatchCells
  <1>0. /\ TypeOK /\ Shaped(rs, rp) /\ IsTop(rs, "handler", handler, rp)
        /\ frames = "ok" => XfpIsTop(rs, xfp, rp) /\ FrameLinks(rs, rp)
    BY SoundFacts
  <1>1. /\ rp \in 1..RSSize /\ rp + 4 \in 1..RSSize /\ rp + 4 \in rp..RSSize
        /\ depth \in 1..DSSize
    BY <1>0, SizesAreNat DEF TypeOK, Catch, Sound, IInv, StackDiscipline
  <1>2. /\ c[1] = [kind |-> "ret", val |-> 0] /\ c[2] = [kind |-> "sp", val |-> depth]
        /\ c[3] = [kind |-> "handler", val |-> handler]
        /\ c[4] = [kind |-> "caught", val |-> 0]
    BY DEF CatchCells, Plain, Pointer
  <1>3. \A i \in 1..4 : c[i] \in CellType
    BY <1>0, <1>1, <1>2 DEF CellType, Kinds, Returns, TypeOK
  <1> HIDE DEF c
  <1>4. rs' = Push(c, 4)
    BY DEF Catch, c
  <1>5. rs' \in Stack /\ Agree(rs, rs', rp) /\ \A i \in 1..4 : rs'[rp + i] = c[i]
    BY <1>0, <1>1, <1>3, <1>4, PushStack
  <1>6. /\ rs'[rp + 1] = [kind |-> "ret", val |-> 0]
        /\ rs'[rp + 2] = [kind |-> "sp", val |-> depth]
        /\ rs'[rp + 3] = [kind |-> "handler", val |-> handler]
        /\ rs'[rp + 4] = [kind |-> "caught", val |-> 0]
    BY <1>2, <1>5
  <1>7. Shaped(rs', rp) /\ (frames = "ok" => FrameLinks(rs', rp))
    BY <1>0, <1>1, <1>5, AgreeAll DEF TypeOK
  <1>8. /\ IsTop(rs', "handler", handler, rp)
        /\ frames = "ok" => XfpIsTop(rs', xfp, rp)
    BY <1>0, <1>1, <1>5, AgreeTop DEF TypeOK, XfpIsTop
  <1>9. \A i \in 1..rp+4 : i \in 1..rp \/ i = rp+1 \/ i = rp+2 \/ i = rp+3 \/ i = rp+4
    BY <1>1
  <1>10. IsTop(rs', "handler", rp + 3, rp + 4)
    BY <1>1, <1>6 DEF IsTop
  <1>11. IsTop(rs', "handler", handler, rp + 2)
    BY <1>1, <1>6, <1>8 DEF IsTop
  <1>12. frames = "ok" => XfpIsTop(rs', xfp, rp + 4)
    BY <1>1, <1>6, <1>8 DEF IsTop, XfpIsTop
  <1>13. WellFormed(rs', rp + 4)
    <2> SUFFICES ASSUME NEW i \in 1..rp+4
                 PROVE  /\ rs'[i].kind # "dead"
                        /\ rs'[i].kind = "finish" <=> i = 1
                        /\ rs'[i].kind = "handler" => CatchFrame(rs', i)
                        /\ rs'[i].kind = "oldrp" => LocalsFrame(rs', i)
                        /\ rs'[i].kind = "caught" => i > 1 /\ rs'[i - 1].kind = "handler"
                        /\ rs'[i].kind = "free" => i > 1 /\ rs'[i - 1].kind = "oldrp"
      BY DEF WellFormed
    <2>1. CASE i \in 1..rp
      BY <1>7, <2>1 DEF Shaped, WellFormed
    <2>2. CASE i = rp + 3
      BY <1>1, <1>6, <2>2 DEF CatchFrame
    <2>3. QED
      BY <1>1, <1>6, <1>9, <2>1, <2>2
  <1>14. HandlerLinks(rs', rp + 4)
    <2> SUFFICES ASSUME NEW i \in 1..rp+4, rs'[i].kind = "handler"
                 PROVE  IsTop(rs', "handler", rs'[i].val, i - 1)
      BY DEF HandlerLinks
    <2>1. CASE i \in 1..rp
      BY <1>7, <2>1 DEF Shaped, HandlerLinks
    <2>2. CASE i = rp + 3
      <3>1. i - 1 = rp + 2 /\ rs'[i].val = handler
        BY <1>1, <1>6, <2>2
      <3>2. QED
        BY <1>11, <3>1
    <2>3. QED
      BY <1>1, <1>6, <1>9, <2>1, <2>2
  <1>15. frames = "ok" => FrameLinks(rs', rp + 4)
    BY <1>6, <1>7, <1>9 DEF FrameLinks
  <1>16. TypeOK'
    <2>1. /\ rp' = rp + 4 /\ handler' = rp + 3 /\ depth' = depth - 1
          /\ UNCHANGED <<xfp, ip, frames>>
      BY DEF Catch
    <2>2. rp + 3 \in Nat /\ rp + 4 \in 0..RSSize /\ depth - 1 \in 0..DSSize
      BY <1>1, SizesAreNat
    <2>3. QED
      BY <1>0, <1>5, <2>1, <2>2 DEF TypeOK
  <1>17. QED
    BY <1>1, <1>10, <1>12, <1>13, <1>14, <1>15, <1>16
       DEF IInv, HandlerChain, StackDiscipline, LocalsCurrent, Catch

LEMMA AllocateLocalsStep ==
  ASSUME Sound, NEW n \in 1..MaxLoc, AllocateLocals(n)
  PROVE  IInv'
  <1> DEFINE c == FrameCells(n)
  <1>0. /\ TypeOK /\ Shaped(rs, rp) /\ IsTop(rs, "handler", handler, rp)
        /\ frames = "ok" => XfpIsTop(rs, xfp, rp) /\ FrameLinks(rs, rp)
    BY SoundFacts
  <1>1. /\ rp \in 1..RSSize /\ rp + n + 3 \in 1..RSSize /\ rp + n + 3 \in rp..RSSize
        /\ depth - n \in 0..DSSize /\ n \in Nat \ {0} /\ n + 3 \in Nat
    BY <1>0, SizesAreNat DEF TypeOK, AllocateLocals
  <1>2. /\ \A i \in 1..n : c[i] = [kind |-> "loc", val |-> 0]
        /\ c[n + 1] = [kind |-> "xfp", val |-> xfp]
        /\ c[n + 2] = [kind |-> "oldrp", val |-> rp]
        /\ c[n + 3] = [kind |-> "free", val |-> 0]
    BY <1>1 DEF FrameCells, Plain, Pointer
  <1>3. \A i \in 1..n+3 : c[i] \in CellType
    <2>1. \A i \in 1..n+3 : i \in 1..n \/ i = n+1 \/ i = n+2 \/ i = n+3
      BY <1>1
    <2>2. /\ [kind |-> "loc", val |-> 0] \in CellType
          /\ [kind |-> "xfp", val |-> xfp] \in CellType
          /\ [kind |-> "oldrp", val |-> rp] \in CellType
          /\ [kind |-> "free", val |-> 0] \in CellType
      BY <1>0, <1>1 DEF CellType, Kinds, Returns, TypeOK
    <2>3. QED
      BY <1>2, <2>1, <2>2
  <1> HIDE DEF c
  <1>4. rs' = Push(c, n + 3)
    BY DEF AllocateLocals, c
  <1>5. rs' \in Stack /\ Agree(rs, rs', rp) /\ \A i \in 1..n+3 : rs'[rp + i] = c[i]
    BY <1>0, <1>1, <1>3, <1>4, PushStack
  <1>6. /\ \A i \in rp+1..rp+n : rs'[i].kind = "loc"
        /\ rs'[rp + n + 1] = [kind |-> "xfp", val |-> xfp]
        /\ rs'[rp + n + 2] = [kind |-> "oldrp", val |-> rp]
        /\ rs'[rp + n + 3] = [kind |-> "free", val |-> 0]
    <2>1. \A i \in rp+1..rp+n : i - rp \in 1..n /\ i - rp \in 1..n+3 /\ rp + (i - rp) = i
      BY <1>1
    <2>2. /\ n + 1 \in 1..n+3 /\ n + 2 \in 1..n+3 /\ n + 3 \in 1..n+3
          /\ rp + n + 1 = rp + (n + 1) /\ rp + n + 2 = rp + (n + 2)
          /\ rp + n + 3 = rp + (n + 3)
      BY <1>1
    <2>3. QED
      BY <1>2, <1>5, <2>1, <2>2
  <1>7. Shaped(rs', rp) /\ (frames = "ok" => FrameLinks(rs', rp))
    BY <1>0, <1>1, <1>5, AgreeAll DEF TypeOK
  <1>8. /\ IsTop(rs', "handler", handler, rp)
        /\ frames = "ok" => XfpIsTop(rs', xfp, rp)
    BY <1>0, <1>1, <1>5, AgreeTop DEF TypeOK, XfpIsTop
  <1>9. \A i \in 1..rp+n+3 : \/ i \in 1..rp \/ i \in rp+1..rp+n
                             \/ i = rp+n+1 \/ i = rp+n+2 \/ i = rp+n+3
    BY <1>1
  <1>10. IsTop(rs', "handler", handler, rp + n + 3)
    BY <1>1, <1>6, <1>8, <1>9 DEF IsTop
  <1>11. frames = "ok" => XfpIsTop(rs', rp + n, rp + n + 3)
    BY <1>1, <1>6 DEF IsTop, XfpIsTop
  <1>12. frames = "ok" => XfpIsTop(rs', xfp, rp + n)
    BY <1>1, <1>6, <1>8 DEF IsTop, XfpIsTop
  <1>13. WellFormed(rs', rp + n + 3)
    <2> SUFFICES ASSUME NEW i \in 1..rp+n+3
                 PROVE  /\ rs'[i].kind # "dead"
                        /\ rs'[i].kind = "finish" <=> i = 1
                        /\ rs'[i].kind = "handler" => CatchFrame(rs', i)
                        /\ rs'[i].kind = "oldrp" => LocalsFrame(rs', i)
                        /\ rs'[i].kind = "caught" => i > 1 /\ rs'[i - 1].kind = "handler"
                        /\ rs'[i].kind = "free" => i > 1 /\ rs'[i - 1].kind = "oldrp"
      BY DEF WellFormed
    <2>1. CASE i \in 1..rp
      BY <1>7, <2>1 DEF Shaped, WellFormed
    <2>2. CASE i \in rp+1..rp+n
      BY <1>1, <1>6, <2>2
    <2>3. CASE i = rp + n + 2
      <3>1. rs'[rp].kind \in Returns
        BY <1>1, <1>5 DEF Agree, AllocateLocals
      <3>2. LocalsFrame(rs', i)
        BY <1>1, <1>6, <2>3, <3>1 DEF LocalsFrame
      <3>3. QED
        BY <1>1, <1>6, <2>3, <3>2
    <2>4. CASE i = rp + n + 1 \/ i = rp + n + 3
      BY <1>1, <1>6, <2>4
    <2>5. QED
      BY <1>9, <2>1, <2>2, <2>3, <2>4
  <1>14. HandlerLinks(rs', rp + n + 3)
    BY <1>6, <1>7, <1>9 DEF HandlerLinks, Shaped
  <1>15. ASSUME frames = "ok" PROVE FrameLinks(rs', rp + n + 3)
    <2> SUFFICES ASSUME NEW i \in 1..rp+n+3, rs'[i].kind = "xfp"
                 PROVE  XfpIsTop(rs', rs'[i].val, i - 1)
      BY DEF FrameLinks
    <2>1. CASE i \in 1..rp
      BY <1>7, <1>15, <2>1 DEF FrameLinks
    <2>2. CASE i = rp + n + 1
      <3>1. i - 1 = rp + n /\ rs'[i].val = xfp
        BY <1>1, <1>6, <2>2
      <3>2. QED
        BY <1>12, <1>15, <3>1
    <2>3. QED
      BY <1>6, <1>9, <2>1, <2>2
  <1>16. TypeOK'
    <2>1. /\ rp' = rp + n + 3 /\ xfp' = rp + n /\ depth' = depth - n
          /\ UNCHANGED <<handler, ip, frames>>
      BY DEF AllocateLocals
    <2>2. rp + n \in Nat /\ rp + n + 3 \in 0..RSSize
      BY <1>1
    <2>3. QED
      BY <1>0, <1>1, <1>5, <2>1, <2>2 DEF TypeOK
  <1>17. QED
    BY <1>1, <1>10, <1>11, <1>13, <1>14, <1>15, <1>16
       DEF IInv, HandlerChain, StackDiscipline, LocalsCurrent, AllocateLocals

LEMMA FreeLocalsStep ==
  ASSUME Sound, FreeLocals
  PROVE  IInv'
  <1> DEFINE r == rs[rp].val
  <1>1. /\ TypeOK /\ Shaped(rs, rp) /\ IsTop(rs, "handler", handler, rp)
        /\ frames = "ok" => XfpIsTop(rs, xfp, rp) /\ FrameLinks(rs, rp)
    BY SoundFacts
  <1>2. /\ rp \in 1..rp /\ rp \in 0..RSSize /\ rs[rp].kind = "oldrp"
        /\ ip = "free" /\ frames \in {"ok", "stale"}
    BY <1>1, SizesAreNat DEF Sound, IInv, StackDiscipline, FreeLocals, TypeOK
  <1>3. LocalsFrame(rs, rp)
    BY <1>1, <1>2 DEF Shaped, WellFormed
  <1>4. /\ r \in 1..rp-3 /\ rs[r].kind \in Returns /\ rp > 3 /\ rs[rp - 1].kind = "xfp"
        /\ \A j \in r+1..rp-2 : rs[j].kind = "loc"
    BY <1>3 DEF LocalsFrame
  <1>5. r \in 1..rp /\ r - 1 \in 0..rp /\ r - 1 \in 0..rp-2
    BY <1>2, <1>4
  <1>6. IsTop(rs, "handler", handler, r - 1)
    <2>1. \A j \in r..rp : rs[j].kind # "handler"
      <3>1. \A j \in r..rp : j = r \/ j \in r+1..rp-2 \/ j = rp-1 \/ j = rp
        BY <1>2, <1>5
      <3>2. QED
        BY <1>2, <1>4, <3>1 DEF Returns
    <2>2. QED
      BY <1>1, <1>2, <1>5, <2>1 DEF IsTop
  <1>7. ASSUME frames = "ok" PROVE xfp' \in Nat /\ XfpIsTop(rs, xfp', r - 1)
    <2>1. xfp + 1 = rp - 1 /\ xfp < rp
      BY <1>1, <1>2, <1>4, <1>7 DEF XfpIsTop, IsTop, TypeOK
    <2>2. xfp' = rs[rp - 1].val
      BY <1>4, <2>1 DEF FreeLocals, SavedXfp
    <2>3. rp - 1 \in 1..rp /\ rp - 1 \in Slots
      BY <1>2, <1>4, SizesAreNat DEF Slots
    <2>4. XfpIsTop(rs, xfp', rp - 2) /\ xfp' \in Nat
      <3>1. (rp - 1) - 1 = rp - 2
        BY <1>2
      <3>2. QED
        BY <1>1, <1>4, <1>7, <2>2, <2>3, <3>1 DEF FrameLinks, TypeOK, Stack
    <2>5. \A j \in r..rp-2 : rs[j].kind # "xfp"
      <3>1. \A j \in r..rp-2 : j = r \/ j \in r+1..rp-2
        BY <1>2, <1>5
      <3>2. QED
        BY <1>4, <3>1 DEF Returns
    <2>6. \A q : IsTop(rs, "xfp", q, rp - 2) => IsTop(rs, "xfp", q, r - 1)
      <3> SUFFICES ASSUME NEW q, IsTop(rs, "xfp", q, rp - 2)
                   PROVE  IsTop(rs, "xfp", q, r - 1)
        OBVIOUS
      <3>1. q \in 0..rp-2 /\ q \notin r..rp-2
        BY <1>2, <1>4, <1>5, <2>5 DEF IsTop
      <3>2. q \in 0..r-1 /\ r - 1 <= rp - 2
        BY <1>2, <1>5, <3>1
      <3>3. QED
        BY <1>2, <1>5, <3>2 DEF IsTop
    <2>7. QED
      BY <2>4, <2>6 DEF XfpIsTop
  <1>8. xfp' \in Nat
    <2>1. xfp < rp => xfp + 1 \in Slots
      BY <1>1, <1>2, SizesAreNat DEF TypeOK, Slots
    <2>2. QED
      BY <1>1, <2>1, SizesAreNat DEF FreeLocals, SavedXfp, TypeOK, Stack
  <1>9. /\ rs' = Cut(r - 1) /\ rp' = r - 1 /\ handler' = handler /\ frames' = frames
        /\ depth' = depth /\ ip' = Resume(rs[r])
    BY DEF FreeLocals
  <1>10. r - 1 = 0 <=> r = 1
    BY <1>5, <1>2
  <1>11. /\ Resume(rs[r]) \in {"host", "body", "tail", "free"}
         /\ Resume(rs[r]) = "host" <=> r = 1
         /\ Resume(rs[r]) = "tail" => rs[r - 1].kind = "handler"
         /\ Resume(rs[r]) = "free" => rs[r - 1].kind = "oldrp"
    BY <1>2, <1>4, <1>5, Resumed
  <1> HIDE DEF r
  <1>12. QED
    BY <1>1, <1>2, <1>5, <1>6, <1>7, <1>8, <1>9, <1>10, <1>11, PopTo DEF TypeOK

\* A store to a local of the current frame hits one of its cells; a stray one
\* ends what the invariant has to say, except about types.
LEMMA SetLocalStep ==
  ASSUME Sound, NEW k \in 0..MaxLoc-1, SetLocal(k)
  PROVE  IInv'
  <1>1. /\ TypeOK /\ Shaped(rs, rp) /\ IsTop(rs, "handler", handler, rp)
        /\ frames = "ok" => XfpIsTop(rs, xfp, rp) /\ FrameLinks(rs, rp)
    BY SoundFacts
  <1>2. rp \in 0..RSSize /\ k \in Nat
    BY <1>1, SizesAreNat DEF TypeOK
  <1>3. PICK i \in Slots : /\ InFrame(i) /\ rs[i - 1].val + k < i - 3
                           /\ frames' = IF xfp = i - 3 THEN frames ELSE "stray"
    BY DEF SetLocal
  <1>4. rs' \in Stack
    <2>1. Plain("loc") \in CellType
      BY DEF Plain, Pointer, CellType, Kinds
    <2>2. \A j \in Slots : rs[j] \in CellType
      BY <1>1 DEF TypeOK, Stack, CellType
    <2>3. QED
      BY <2>1, <2>2 DEF SetLocal, Stack, CellType
  <1>5. TypeOK'
    BY <1>1, <1>3, <1>4, SizesAreNat DEF TypeOK, SetLocal
  <1>6. ASSUME xfp = i - 3 PROVE Agree(rs, rs', rp)
    <2>1. i > 1 /\ rs[i - 1].kind = "oldrp" /\ i \in 1..rp
      BY <1>1, <1>3 DEF InFrame, Shaped, WellFormed
    <2>2. LocalsFrame(rs, i - 1)
      BY <1>1, <1>2, <2>1 DEF Shaped, WellFormed
    <2>3. /\ rs[i - 1].val \in 1..i-4
          /\ \A j \in rs[i - 1].val+1..i-3 : rs[j].kind = "loc"
      BY <1>2, <2>1, <2>2 DEF LocalsFrame
    <2>4. \A j \in Slots : j + k = xfp => rs[j].kind = "loc"
      BY <1>2, <1>3, <1>6, <2>1, <2>3 DEF Slots
    <2>5. \A j \in Slots : rs'[j] = rs[j] \/ (rs[j].kind = "loc" /\ rs'[j].kind = "loc")
      BY <2>4 DEF SetLocal, Plain, Pointer
    <2>6. QED
      BY <1>2, <2>5, SizesAreNat DEF Agree, Slots
  <1>7. CASE xfp # i - 3
    BY <1>3, <1>5, <1>7 DEF IInv, HandlerChain, StackDiscipline, LocalsCurrent
  <1>8. CASE xfp = i - 3
    <2>1. /\ frames' = frames
          /\ UNCHANGED <<rp, handler, xfp, ip>>
      BY <1>3, <1>8 DEF SetLocal
    <2>2. Shaped(rs', rp) /\ (frames = "ok" => FrameLinks(rs', rp))
      BY <1>1, <1>2, <1>4, <1>6, <1>8, AgreeAll DEF TypeOK
    <2>3. /\ IsTop(rs', "handler", handler, rp)
          /\ frames = "ok" => XfpIsTop(rs', xfp, rp)
      BY <1>1, <1>2, <1>4, <1>6, <1>8, AgreeTop DEF TypeOK, XfpIsTop
    <2>4. ip = "body" /\ rp > 0
      BY DEF SetLocal, Sound, IInv, StackDiscipline
    <2>5. QED
      BY <1>5, <2>1, <2>2, <2>3, <2>4
         DEF IInv, HandlerChain, StackDiscipline, LocalsCurrent, Shaped
  <1>9. QED
    BY <1>7, <1>8

\* Steps that touch nothing but the depth of the data stack.
LEMMA DepthStep ==
  ASSUME Sound, Primitive \/ ThrowZero
  PROVE  IInv'
  <1>1. depth' \in 0..DSSize /\ UNCHANGED <<rs, rp, handler, xfp, ip, frames>>
    BY SizesAreNat DEF Primitive, ThrowZero, Sound, IInv, TypeOK
  <1>2. QED
    BY <1>1 DEF Sound, IInv, TypeOK, HandlerChain, StackDiscipline, LocalsCurrent

-----------------------------------------------------------------------------
(***************************************************************************)
(* The theorems.                                                           *)
(***************************************************************************)

LEMMA InitInv == Init => IInv
  <1>1. Init => TypeOK
    BY SizesAreNat DEF Init, TypeOK, Stack, Slots, Dead, Kinds
  <1>2. Init => HandlerChain /\ StackDiscipline /\ LocalsCurrent
    BY DEF Init, HandlerChain, StackDiscipline, LocalsCurrent, HandlerLinks,
           FrameLinks, WellFormed, IsTop, XfpIsTop
  <1>3. QED
    BY <1>1, <1>2 DEF IInv

LEMMA NextInv == IInv /\ [Next]_vars => IInv'
  <1> SUFFICES ASSUME IInv, [Next]_vars PROVE IInv'
    OBVIOUS
  <1>1. CASE UNCHANGED vars
    BY <1>1 DEF vars, IInv, TypeOK, HandlerChain, StackDiscipline, LocalsCurrent
  <1>2. CASE Next
    <2>1. Sound
      BY <1>2 DEF Next, Sound
    <2>2. CASE ExecuteWord
      <3>1. rp = 0
        BY <2>1, <2>2 DEF ExecuteWord, Sound, IInv, StackDiscipline
      <3>2. QED
        BY <2>1, <2>2, <3>1, PushOne DEF ExecuteWord, Sound, IInv, TypeOK
    <2>3. CASE DoColon
      <3>1. rp # 0
        BY <2>1, <2>3 DEF DoColon, Sound, IInv, StackDiscipline, TypeOK
      <3>2. QED
        BY <2>1, <2>3, <3>1, PushOne DEF DoColon, Sound, IInv, TypeOK
    <2>4. CASE ToR
      <3>1. rp # 0 /\ depth - 1 \in 0..DSSize
        BY <2>1, <2>4, SizesAreNat DEF ToR, Sound, IInv, StackDiscipline, TypeOK
      <3>2. QED
        BY <2>1, <2>4, <3>1, PushOne DEF ToR
    <2>5. CASE Primitive \/ ThrowZero
      BY <2>1, <2>5, DepthStep
    <2>6. CASE Unnest
      BY <2>1, <2>6, UnnestStep
    <2>7. CASE RFrom
      BY <2>1, <2>7, RFromStep
    <2>8. CASE Catch
      BY <2>1, <2>8, CatchStep
    <2>9. CASE CatchDone
      BY <2>1, <2>9, CatchDoneStep
    <2>10. CASE ThrowToHost
      BY <2>1, <2>10, ThrowToHostStep
    <2>11. CASE ThrowToHandler
      BY <2>1, <2>11, ThrowToHandlerStep
    <2>12. ASSUME NEW n \in 1..MaxLoc, AllocateLocals(n) PROVE IInv'
      BY <2>1, <2>12, AllocateLocalsStep
    <2>13. CASE FreeLocals
      BY <2>1, <2>13, FreeLocalsStep
    <2>14. ASSUME NEW k \in 0..MaxLoc-1, SetLocal(k) PROVE IInv'
      BY <2>1, <2>14, SetLocalStep
    <2>15. QED
      BY <1>2, <2>2, <2>3, <2>4, <2>5, <2>6, <2>7, <2>8, <2>9, <2>10, <2>11, <2>12,
         <2>13, <2>14 DEF Next
  <1>3. QED
    BY <1>1, <1>2

\* The inductive invariant holds for return and data stacks of every size.
THEOREM Invariance == Spec => []IInv
  BY InitInv, NextInv, PTL DEF Spec

\* Every variable keeps to its domain: in particular no throw leaves the data
\* stack deeper than some catch found it.
THEOREM TypeCorrect == Spec => []TypeOK
  <1>1. IInv => TypeOK
    BY DEF IInv
  <1>2. QED
    BY <1>1, Invariance, PTL

\* HANDLER and the saved handlers link exactly the catch frames on the return
\* stack, innermost first.
THEOREM HandlerChainCorrect == Spec => []HandlerChain
  <1>1. IInv => HandlerChain
    BY DEF IInv
  <1>2. QED
    BY <1>1, Invariance, PTL

\* What is popped is always what was pushed for it, and the host gets the machine
\* back with no handler in force.
THEOREM StackDisciplineCorrect == Spec => []StackDiscipline
  <1>1. IInv => StackDiscipline
    BY DEF IInv
  <1>2. QED
    BY <1>1, Invariance, PTL

\* XFP is the current locals frame as long as no throw has left one.
THEOREM LocalsCurrentCorrect == Spec => []LocalsCurrent
  <1>1. IInv => LocalsCurrent
    BY DEF IInv
  <1>2. QED
    BY <1>1, Invariance, PTL

-----------------------------------------------------------------------------
(***************************************************************************)
(* Refinement of TryCatch.                                                 *)
(***************************************************************************)

\* The CATCHes on two stacks are the same when they agree up to the last one.
LEMMA SameTries ==
  ASSUME NEW s \in Stack, NEW t \in Stack, NEW n \in 0..RSSize,
         NEW m \in n..RSSize, NEW l \in n..RSSize,
         Agree(s, t, n), WellFormed(s, n),
         \A i \in n+1..m : s[i].kind # "handler",
         \A i \in n+1..l : t[i].kind # "handler"
  PROVE  Tries(s, m) = Tries(t, l)
  <1>1. {j \in 1..m : s[j].kind = "handler"} = {j \in 1..l : t[j].kind = "handler"}
    BY SizesAreNat DEF Agree
  <1>2. \A i \in 1..m : s[i].kind = "handler" => i \in 1..n
    BY SizesAreNat
  <1>3. ASSUME NEW i \in 1..n, s[i].kind = "handler" PROVE s[i - 1].val = t[i - 1].val
    <2>1. CatchFrame(s, i)
      BY <1>3 DEF WellFormed
    <2>2. i - 1 \in 1..n /\ s[i - 1].kind = "sp"
      BY <2>1, SizesAreNat DEF CatchFrame
    <2>3. QED
      BY <2>2 DEF Agree
  <1>4. \A i \in {j \in 1..m : s[j].kind = "handler"} :
          [calls |-> i - 3, items |-> s[i - 1].val] = [calls |-> i - 3, items |-> t[i - 1].val]
    BY <1>2, <1>3
  <1>5. QED
    BY <1>1, <1>4 DEF Tries

\* CATCHes are told apart by where they return to, below the frame.
LEMMA TryDepths ==
  ASSUME Sound, NEW x \in Tries(rs, rp)
  PROVE  \E i \in 1..rp : /\ rs[i].kind = "handler" /\ i > 3
                          /\ x.calls = i - 3 /\ x.items = rs[i - 1].val
                          /\ i <= handler
  <1>1. PICK i \in 1..rp : /\ rs[i].kind = "handler"
                           /\ x = [calls |-> i - 3, items |-> rs[i - 1].val]
    BY DEF Tries
  <1>2. i > 3
    BY <1>1, AtCatchFrame
  <1>3. i <= handler
    BY <1>1, SoundFacts, SizesAreNat DEF IsTop, TypeOK
  <1>4. QED
    BY <1>1, <1>2, <1>3

\* Steps that leave every catch frame where it is.
LEMMA WorkSteps ==
  ASSUME Sound, TypeOK', frames' # "stray", NEW n \in 0..rp, n <= rp', handler <= n,
         Agree(rs, rs', n), \A i \in n+1..rp' : rs'[i].kind # "handler"
  PROVE  TC!Work
  <1>1. /\ TypeOK /\ WellFormed(rs, rp)
        /\ \A i \in handler+1..rp : rs[i].kind # "handler"
    BY SoundFacts DEF Shaped, IsTop
  <1>2. /\ n \in 0..RSSize /\ rp \in n..RSSize /\ rp' \in n..RSSize
        /\ handler \in Nat
    BY <1>1, SizesAreNat DEF TypeOK
  <1>3. WellFormed(rs, n) /\ \A i \in n+1..rp : rs[i].kind # "handler"
    BY <1>1, <1>2 DEF WellFormed
  <1>4. Tries(rs, rp) = Tries(rs', rp')
    BY <1>1, <1>2, <1>3, SameTries DEF TypeOK
  <1>5. \A t \in Tries(rs, rp) : rp' > t.calls
    BY <1>2, TryDepths
  <1>6. rp' \in Nat /\ depth' \in Nat
    BY SizesAreNat DEF TypeOK
  <1>7. frames # "stray"
    BY DEF Sound
  <1>8. QED
    BY <1>4, <1>5, <1>6, <1>7 DEF TC!Work

\* Popping the innermost catch frame ends that CATCH and no other.
LEMMA PopTry ==
  ASSUME Sound, NEW h \in 1..rp, h = handler, rs' = Cut(h - 3), rp' = h - 3
  PROVE  LET t == [calls |-> h - 3, items |-> rs[h - 1].val]
         IN  /\ TC!Innermost(t)
             /\ Tries(rs', rp') = Tries(rs, rp) \ {t}
  <1> DEFINE t == [calls |-> h - 3, items |-> rs[h - 1].val]
  <1>1. /\ TypeOK /\ rs[h].kind = "handler" /\ rp \in 0..RSSize /\ WellFormed(rs, rp)
        /\ \A i \in h+1..rp : rs[i].kind # "handler"
    BY SoundFacts, SizesAreNat DEF TypeOK, IsTop, Shaped
  <1>2. /\ h > 3 /\ h - 3 \in 0..RSSize /\ rs[h - 2].kind = "ret"
        /\ rs[h - 1].kind = "sp"
    BY <1>1, AtCatchFrame, SizesAreNat DEF WellFormed, CatchFrame
  <1>3. t \in Tries(rs, rp)
    BY <1>1 DEF Tries
  <1>4. \A u \in Tries(rs, rp) : u.calls <= t.calls
    BY <1>1, TryDepths
  <1>5. Tries(rs', h - 3) = Tries(rs, h - 3)
    <2>1. rs' \in Stack /\ Agree(rs, rs', h - 3) /\ WellFormed(rs, h - 3)
      BY <1>1, <1>2, CutStack DEF WellFormed
    <2>2. Agree(rs, rs, h - 3) /\ h - 3 \in h-3..RSSize
      BY <1>1, <1>2, SizesAreNat DEF Agree
    <2>3. QED
      BY <1>1, <1>2, <2>1, <2>2, SameTries DEF TypeOK
  <1>6. \A i \in 1..rp : rs[i].kind = "handler" => i \in 1..h-3 \/ i = h
    BY <1>1, <1>2
  <1>7. Tries(rs, rp) \ {t} \subseteq Tries(rs, h - 3)
    <2> SUFFICES ASSUME NEW u \in Tries(rs, rp), u # t PROVE u \in Tries(rs, h - 3)
      OBVIOUS
    <2>1. PICK i \in 1..rp : /\ rs[i].kind = "handler"
                             /\ u = [calls |-> i - 3, items |-> rs[i - 1].val]
      BY DEF Tries
    <2>2. i \in 1..h-3
      BY <1>6, <2>1
    <2>3. QED
      BY <2>1, <2>2 DEF Tries
  <1>8. Tries(rs, h - 3) \subseteq Tries(rs, rp) \ {t}
    <2> SUFFICES ASSUME NEW u \in Tries(rs, h - 3) PROVE u \in Tries(rs, rp) /\ u # t
      OBVIOUS
    <2>1. PICK i \in 1..h-3 : /\ rs[i].kind = "handler"
                              /\ u = [calls |-> i - 3, items |-> rs[i - 1].val]
      BY DEF Tries
    <2>2. i \in 1..rp /\ i - 3 # h - 3
      BY <1>1, <1>2
    <2>3. u.calls # t.calls
      BY <2>1, <2>2
    <2>4. QED
      BY <2>1, <2>2, <2>3 DEF Tries
  <1>9. QED
    BY <1>3, <1>4, <1>5, <1>7, <1>8 DEF TC!Innermost

LEMMA CatchTries ==
  ASSUME Sound, Catch
  PROVE  TC!Try
  <1> DEFINE c == CatchCells
  <1>1. /\ TypeOK /\ WellFormed(rs, rp) /\ rp \in 1..RSSize /\ rp + 4 \in rp..RSSize
        /\ rp + 2 \in rp..RSSize /\ depth \in 1..DSSize /\ handler \in 0..rp
    BY SoundFacts, SizesAreNat
       DEF TypeOK, Catch, Shaped, Sound, IInv, StackDiscipline
  <1>2. /\ c[1].kind = "ret" /\ c[2] = [kind |-> "sp", val |-> depth]
        /\ c[3].kind = "handler" /\ c[4].kind = "caught"
    BY DEF CatchCells, Plain, Pointer
  <1>3. \A i \in 1..4 : c[i] \in CellType
    BY <1>1 DEF CellType, Kinds, Returns, CatchCells, Plain, Pointer, TypeOK
  <1> HIDE DEF c
  <1>4. rs' \in Stack /\ Agree(rs, rs', rp) /\ \A i \in 1..4 : rs'[rp + i] = c[i]
    BY <1>1, <1>3, PushStack DEF Catch, c
  <1>5. /\ rs'[rp + 1].kind = "ret" /\ rs'[rp + 2] = [kind |-> "sp", val |-> depth]
        /\ rs'[rp + 3].kind = "handler" /\ rs'[rp + 4].kind = "caught"
    BY <1>2, <1>4
  <1>6. Tries(rs, rp) = Tries(rs', rp + 2)
    <2>1. \A i \in rp+1..rp+2 : i = rp + 1 \/ i = rp + 2
      BY <1>1
    <2>2. \A i \in rp+1..rp+2 : rs'[i].kind # "handler"
      BY <1>5, <2>1
    <2>3. \A i \in rp+1..rp : rs[i].kind # "handler"
      BY <1>1
    <2>4. rp \in 0..RSSize /\ rp \in rp..RSSize
      BY <1>1
    <2>5. QED
      BY <1>1, <1>4, <2>2, <2>3, <2>4, SameTries DEF TypeOK
  <1> DEFINE new == [calls |-> rp, items |-> depth]
  <1>7. Tries(rs', rp + 4) = Tries(rs', rp + 2) \union {new}
    <2>1. {j \in 1..rp+4 : rs'[j].kind = "handler"}
            = {j \in 1..rp+2 : rs'[j].kind = "handler"} \union {rp + 3}
      BY <1>1, <1>5
    <2>2. [calls |-> (rp + 3) - 3, items |-> rs'[(rp + 3) - 1].val] = new
      BY <1>1, <1>5
    <2>3. QED
      BY <2>1, <2>2 DEF Tries
  <1>8. \A t \in Tries(rs, rp) : rp > t.calls
    BY <1>1, TryDepths
  <1>9. rp' = rp + 4 /\ rp + 4 > rp /\ depth' = depth - 1 /\ frames' = frames
    BY <1>1 DEF Catch
  <1>10. QED
    BY <1>6, <1>7, <1>8, <1>9 DEF TC!Try

LEMMA CatchDoneEnds ==
  ASSUME Sound, CatchDone
  PROVE  TC!EndTry
  <1>1. /\ TypeOK /\ IsTop(rs, "handler", handler, rp) /\ rp \in 1..rp
        /\ rs[rp].kind = "handler"
    BY SoundFacts, SizesAreNat DEF Sound, IInv, StackDiscipline, CatchDone, TypeOK
  <1>2. rp = handler
    BY <1>1, SizesAreNat DEF IsTop, TypeOK
  <1>3. rs' = Cut(rp - 3) /\ rp' = rp - 3 /\ depth' = depth + 1 /\ frames' = frames
    BY DEF CatchDone
  <1>4. QED
    BY <1>1, <1>2, <1>3, PopTry DEF TC!EndTry, TC!Innermost

LEMMA ThrowThrows ==
  ASSUME Sound, ThrowToHandler
  PROVE  TC!Throw
  <1>1. handler \in 1..rp /\ handler <= rp
    BY SoundFacts, SizesAreNat DEF ThrowToHandler, TypeOK
  <1>2. /\ rs' = Cut(handler - 3) /\ rp' = handler - 3
        /\ depth' = rs[handler - 1].val
    BY <1>1 DEF ThrowToHandler, Unwind, ThrowDepth
  <1>3. (frames' = "stray") = (frames = "stray")
    BY <1>1 DEF ThrowToHandler, Unwind, XfpLeft, Sound
  <1>4. QED
    BY <1>1, <1>2, <1>3, PopTry DEF TC!Throw, TC!Innermost

LEMMA ThrowToHostUncaught ==
  ASSUME Sound, ThrowToHost
  PROVE  TC!Uncaught
  <1>1. \A i \in 1..rp : rs[i].kind # "handler"
    BY SoundFacts DEF ThrowToHost, IsTop
  <1>2. Tries(rs, rp) = {}
    BY <1>1 DEF Tries
  <1>3. rp' = 0 /\ depth' = 0 /\ frames # "stray" /\ frames' # "stray"
    BY DEF ThrowToHost, XfpLeft, Sound
  <1>4. Tries(rs', 0) = {}
    BY DEF Tries
  <1>5. QED
    BY <1>2, <1>3, <1>4 DEF TC!Uncaught

\* Calls and >R grow the stack by one cell.
LEMMA PushWorks ==
  ASSUME Sound, TypeOK', ExecuteWord \/ DoColon \/ ToR
  PROVE  TC!Work
  <1>1. PICK k \in {"finish", "ret", "data"} :
          /\ rs' = Push(<<Plain(k)>>, 1) /\ rp' = rp + 1 /\ rp + 1 <= RSSize
          /\ frames' = frames
    BY DEF ExecuteWord, DoColon, ToR
  <1>2. TypeOK /\ handler \in 0..rp
    BY SoundFacts
  <1>3. <<Plain(k)>>[1] \in CellType /\ <<Plain(k)>>[1].kind = k
    BY DEF Plain, Pointer, CellType, Kinds, Returns
  <1>4. Agree(rs, rs', rp) /\ rs'[rp + 1].kind = k
    BY <1>1, <1>2, <1>3, PushStack
  <1>5. /\ rp \in 0..rp /\ rp <= rp' /\ handler <= rp
        /\ \A i \in rp+1..rp' : rs'[i].kind # "handler"
    BY <1>1, <1>2, <1>4, SizesAreNat DEF TypeOK
  <1>6. QED
    BY <1>1, <1>4, <1>5, WorkSteps DEF Sound

LEMMA LocalsWork ==
  ASSUME Sound, TypeOK', NEW n \in 1..MaxLoc, AllocateLocals(n)
  PROVE  TC!Work
  <1> DEFINE c == FrameCells(n)
  <1>1. /\ TypeOK /\ rp \in 0..RSSize /\ handler \in 0..rp /\ n + 3 \in Nat
        /\ rp + (n + 3) <= RSSize
    BY SoundFacts, SizesAreNat DEF TypeOK, AllocateLocals
  <1>2. \A i \in 1..n+3 : c[i] \in CellType /\ c[i].kind # "handler"
    BY <1>1, SizesAreNat DEF FrameCells, Plain, Pointer, CellType, Kinds, Returns, TypeOK
  <1> HIDE DEF c
  <1>3. Agree(rs, rs', rp) /\ \A i \in 1..n+3 : rs'[rp + i] = c[i]
    BY <1>1, <1>2, PushStack DEF AllocateLocals, c
  <1>4. rp' = rp + (n + 3) /\ frames' = frames
    BY <1>1 DEF AllocateLocals
  <1>5. \A i \in rp+1..rp' : i - rp \in 1..n+3 /\ rp + (i - rp) = i
    BY <1>1, <1>4
  <1>6. \A i \in rp+1..rp' : rs'[i].kind # "handler"
    BY <1>2, <1>3, <1>5
  <1>7. rp \in 0..rp /\ rp <= rp' /\ handler <= rp
    BY <1>1, <1>4
  <1>8. QED
    BY <1>3, <1>4, <1>6, <1>7, WorkSteps DEF Sound

\* Returns and R> cut the stack above the innermost catch frame.
LEMMA PopWorks ==
  ASSUME Sound, IInv', frames' = frames, handler' = handler,
         NEW n \in 0..rp, rs' = Cut(n), rp' = n
  PROVE  TC!Work
  <1>1. TypeOK /\ n \in 0..RSSize
    BY SoundFacts, SizesAreNat DEF TypeOK
  <1>2. Agree(rs, rs', n)
    BY <1>1, CutStack
  <1>3. handler <= n
    BY <1>1, SizesAreNat DEF Sound, IInv, HandlerChain, IsTop
  <1>4. n <= rp' /\ (\A i \in n+1..rp' : rs'[i].kind # "handler")
    BY <1>1
  <1>5. QED
    BY <1>2, <1>3, <1>4, WorkSteps DEF Sound, IInv

LEMMA StillWorks ==
  ASSUME Sound, TypeOK', UNCHANGED <<rs, rp, frames>>
  PROVE  TC!Work
  <1>1. TypeOK /\ handler \in 0..rp
    BY SoundFacts
  <1>2. /\ Agree(rs, rs', rp) /\ rp \in 0..rp /\ rp <= rp' /\ handler <= rp
        /\ \A i \in rp+1..rp' : rs'[i].kind # "handler"
    BY <1>1, SizesAreNat DEF Agree, TypeOK
  <1>3. QED
    BY <1>2, WorkSteps DEF Sound

\* A store to a local stays within the frame, or it is a breach.
LEMMA SetLocalWorks ==
  ASSUME Sound, IInv', NEW k \in 0..MaxLoc-1, SetLocal(k)
  PROVE  TC!Work \/ TC!Breach
  <1>1. CASE frames' = "stray"
    BY <1>1 DEF TC!Breach
  <1>2. CASE frames' # "stray"
    <2>1. TypeOK /\ handler \in 0..rp /\ Shaped(rs, rp) /\ rp \in 0..RSSize
      BY SoundFacts DEF TypeOK
    <2>2. PICK i \in Slots : /\ InFrame(i) /\ rs[i - 1].val + k < i - 3
                              /\ xfp = i - 3
      BY <1>2 DEF SetLocal
    <2>3. i > 1 /\ rs[i - 1].kind = "oldrp" /\ i \in 1..rp
      BY <2>1, <2>2 DEF InFrame, Shaped, WellFormed
    <2>4. LocalsFrame(rs, i - 1)
      BY <2>1, <2>3 DEF Shaped, WellFormed
    <2>5. /\ rs[i - 1].val \in 1..i-4
          /\ \A j \in rs[i - 1].val+1..i-3 : rs[j].kind = "loc"
      BY <2>1, <2>3, <2>4 DEF LocalsFrame
    <2>6. \A j \in Slots : j + k = xfp => rs[j].kind = "loc"
      BY <2>1, <2>2, <2>3, <2>5, SizesAreNat DEF Slots
    <2>7. \A j \in Slots : rs'[j] = rs[j] \/ (rs[j].kind = "loc" /\ rs'[j].kind = "loc")
      BY <2>6 DEF SetLocal, Plain, Pointer
    <2>8. Agree(rs, rs', rp) /\ rp \in 0..rp /\ rp <= rp' /\ handler <= rp
      BY <2>1, <2>7, SizesAreNat DEF Agree, Slots, SetLocal
    <2>9. \A i_1 \in rp+1..rp' : rs'[i_1].kind # "handler"
      BY <2>1 DEF SetLocal
    <2>10. QED
      BY <1>2, <2>8, <2>9, WorkSteps DEF IInv
  <1>3. QED
    BY <1>1, <1>2

LEMMA StepRefines == IInv /\ IInv' /\ [Next]_vars => [TC!Next]_TC!vars
  <1> SUFFICES ASSUME IInv, IInv', [Next]_vars PROVE [TC!Next]_TC!vars
    OBVIOUS
  <1>1. CASE UNCHANGED vars
    BY <1>1 DEF vars, TC!vars, Tries
  <1>2. CASE Next
    <2>1. Sound /\ TypeOK'
      BY <1>2 DEF Next, Sound, IInv
    <2>2. CASE ExecuteWord \/ DoColon \/ ToR
      BY <2>1, <2>2, PushWorks DEF TC!Next
    <2>3. CASE Primitive \/ ThrowZero
      <3>1. UNCHANGED <<rs, rp, frames>>
        BY <2>3 DEF Primitive, ThrowZero
      <3>2. QED
        BY <2>1, <3>1, StillWorks DEF TC!Next
    <2>4. CASE Unnest \/ RFrom
      <3>1. rp - 1 \in 0..rp
        BY <2>1, <2>4, SizesAreNat DEF Unnest, RFrom, TypeOK, IInv
      <3>2. QED
        BY <2>1, <2>4, <3>1, PopWorks DEF Unnest, RFrom, TC!Next
    <2>5. CASE FreeLocals
      <3>1. rp \in 1..rp /\ rs[rp].kind = "oldrp" /\ WellFormed(rs, rp)
        BY <2>1, <2>5, SizesAreNat DEF FreeLocals, Sound, IInv, StackDiscipline, TypeOK
      <3>2. rs[rp].val \in 1..rp-3
        BY <3>1 DEF WellFormed, LocalsFrame
      <3>3. rs[rp].val - 1 \in 0..rp
        BY <3>1, <3>2
      <3>4. QED
        BY <2>1, <2>5, <3>3, PopWorks DEF FreeLocals, TC!Next
    <2>6. CASE Catch
      BY <2>1, <2>6, CatchTries DEF TC!Next
    <2>7. CASE CatchDone
      BY <2>1, <2>7, CatchDoneEnds DEF TC!Next
    <2>8. CASE ThrowToHost
      BY <2>1, <2>8, ThrowToHostUncaught DEF TC!Next
    <2>9. CASE ThrowToHandler
      BY <2>1, <2>9, ThrowThrows DEF TC!Next
    <2>10. ASSUME NEW n \in 1..MaxLoc, AllocateLocals(n) PROVE TC!Next
      BY <2>1, <2>10, LocalsWork DEF TC!Next
    <2>11. ASSUME NEW k \in 0..MaxLoc-1, SetLocal(k) PROVE TC!Next
      BY <2>1, <2>11, SetLocalWorks DEF TC!Next
    <2>12. QED
      BY <1>2, <2>2, <2>3, <2>4, <2>5, <2>6, <2>7, <2>8, <2>9, <2>10, <2>11 DEF Next
  <1>3. QED
    BY <1>1, <1>2

\* CATCH and THROW, as the code carries them out on the return stack, do what
\* the exception word set promises, for stacks of every size.
THEOREM Refinement == Spec => ImplementsTryCatch
  <1>1. Init => TC!Init
    BY DEF Init, TC!Init, Tries
  <1>2. QED
    BY <1>1, StepRefines, Invariance, PTL DEF Spec, ImplementsTryCatch, TC!Spec
=============================================================================
