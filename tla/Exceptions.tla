----------------------------- MODULE Exceptions -----------------------------
(***************************************************************************)
(* CATCH and THROW of the inner interpreter, with the return stack they    *)
(* unwind and the frames of local variables that live on the same stack.   *)
(*                                                                         *)
(* The return stack is kept as it lies in memory: a cell holds a return    *)
(* address, a value moved there by >R, or one of the pointers that CATCH   *)
(* and ALLOCATE-LOCALS save.  A pointer into the stack is the depth of the *)
(* cell it points at and 0 is the null pointer, so that `*rp` is rs[rp].   *)
(* What is not on the stack any more is Dead: memory that nothing has to   *)
(* preserve.  The data stack is its depth; what the program computes and   *)
(* the instructions that leave both stacks alone are left out.             *)
(***************************************************************************)
EXTENDS Integers

CONSTANTS RSSize,   \* cells of the return stack
          DSSize,   \* bound on the depth of the data stack
          MaxLoc    \* most locals one word declares

ASSUME SizesAreNat == RSSize \in Nat /\ DSSize \in Nat /\ MaxLoc \in Nat

VARIABLES rs,      \* the memory of the return stack
          rp,      \* number of cells in use; rs[rp] is the top
          depth,   \* depth of the data stack
          handler, \* user variable HANDLER: the innermost catch frame
          xfp,     \* user variable XFP: the current locals frame
          ip,      \* where execution goes on
          frames   \* history: what has become of XFP

vars == <<rs, rp, depth, handler, xfp, ip, frames>>

Slots == 1..RSSize

\* "ret" returns into a colon definition, "caught" into the tail of CATCH,
\* "free" to freelocbuf[], "finish" to the FINISHED token of ctbuf[].
Returns == {"ret", "caught", "finish"}
Kinds == Returns \union {"free", "data", "sp", "handler", "loc", "xfp", "oldrp", "dead"}
Dead == [kind |-> "dead", val |-> 0]

\* Where each kind of return address leads.  "body" is any point of a running
\* definition; "host" is the C program that called the interpreter.
Resume(cell) == CASE cell.kind = "ret"    -> "body"
                  [] cell.kind = "caught" -> "tail"
                  [] cell.kind = "free"   -> "free"
                  [] OTHER                -> "host"

Stack == [Slots -> [kind : Kinds, val : Nat]]

TypeOK == /\ rs \in Stack
          /\ rp \in 0..RSSize
          /\ depth \in 0..DSSize
          /\ handler \in Nat
          /\ xfp \in Nat
          /\ ip \in {"host", "body", "tail", "free"}
          /\ frames \in {"ok", "stale", "stray"}

Pointer(k, v) == [kind |-> k, val |-> v]
Plain(k) == Pointer(k, 0)

\* The stack with the cells of the sequence s pushed, its last one on top.
Push(s, n) == [i \in Slots |-> IF i \in rp+1..rp+n THEN s[i-rp] ELSE rs[i]]

\* The stack cut to its lowest n cells.
Cut(n) == [i \in Slots |-> IF i > n THEN Dead ELSE rs[i]]

-----------------------------------------------------------------------------
(***************************************************************************)
(* Plain execution.                                                        *)
(***************************************************************************)

\* execute_word, execute_xt: the host runs a word; it comes back to FINISHED.
ExecuteWord ==
  /\ ip = "host" /\ rp + 1 <= RSSize
  /\ rs' = Push(<<Plain("finish")>>, 1) /\ rp' = rp + 1
  /\ ip' = "body"
  /\ UNCHANGED <<depth, handler, xfp, frames>>

\* A code word: it changes the data stack and nothing else that is kept here.
Primitive ==
  /\ ip = "body"
  /\ depth' \in {depth - 1, depth + 1} \intersect (0..DSSize)
  /\ UNCHANGED <<rs, rp, handler, xfp, ip, frames>>

\* A colon definition is entered.
DoColon ==
  /\ ip = "body" /\ rp + 1 <= RSSize
  /\ rs' = Push(<<Plain("ret")>>, 1) /\ rp' = rp + 1
  /\ UNCHANGED <<depth, handler, xfp, ip, frames>>

\* EXIT or the UNNEST of `;`.  A program balances >R and R> before it.
Unnest ==
  /\ ip = "body" /\ rp > 0 /\ rs[rp].kind \in Returns \union {"free"}
  /\ ip' = Resume(rs[rp])
  /\ rp' = rp - 1 /\ rs' = Cut(rp - 1)
  /\ UNCHANGED <<depth, handler, xfp, frames>>

ToR ==
  /\ ip = "body" /\ depth > 0 /\ rp + 1 <= RSSize
  /\ rs' = Push(<<Plain("data")>>, 1) /\ rp' = rp + 1
  /\ depth' = depth - 1
  /\ UNCHANGED <<handler, xfp, ip, frames>>

RFrom ==
  /\ ip = "body" /\ rp > 0 /\ rs[rp].kind = "data" /\ depth < DSSize
  /\ rp' = rp - 1 /\ rs' = Cut(rp - 1)
  /\ depth' = depth + 1
  /\ UNCHANGED <<handler, xfp, ip, frames>>

-----------------------------------------------------------------------------
(***************************************************************************)
(* CATCH and THROW.                                                        *)
(***************************************************************************)

\* What CATCH leaves on the return stack: the address of its caller, the data
\* stack pointer (which still counts the xt), the handler in force, and the
\* address in its own body to which the caught word returns.
CatchCells == <<Plain("ret"), Pointer("sp", depth), Pointer("handler", handler),
                Plain("caught")>>

\* CATCH up to its EXECUTE.
Catch ==
  /\ ip = "body" /\ depth > 0 /\ rp + 4 <= RSSize
  /\ rs' = Push(CatchCells, 4) /\ rp' = rp + 4
  /\ handler' = rp + 3
  /\ depth' = depth - 1
  /\ UNCHANGED <<xfp, ip, frames>>

\* The handler that was in force when the catch frame at h was made.
OuterNone(h) == 0
Outer(h) == rs[h].val

\* The rest of CATCH: push 0, put the previous handler in force again, return.
CatchDone ==
  /\ ip = "tail" /\ depth < DSSize
  /\ depth' = depth + 1
  /\ handler' = Outer(rp)
  /\ ip' = Resume(rs[rp - 2])
  /\ rp' = rp - 3 /\ rs' = Cut(rp - 3)
  /\ UNCHANGED <<xfp, frames>>

ThrowZero ==
  /\ ip = "body" /\ depth > 0
  /\ depth' = depth - 1
  /\ UNCHANGED <<rs, rp, handler, xfp, ip, frames>>

\* XFP is not restored: it may be left pointing above the n cells that remain.
XfpLeft(n) == frames' = IF xfp > n THEN "stale" ELSE frames

\* No handler: both stacks are reset and the interpreter returns 1 to the host.
ThrowToHost ==
  /\ ip = "body" /\ handler = 0
  /\ rp' = 0 /\ rs' = Cut(0)
  /\ depth' = 0
  /\ ip' = "host"
  /\ XfpLeft(0)
  /\ UNCHANGED <<handler, xfp>>

\* The data stack depth after a throw to the frame at h: the saved sp without
\* the xt, and the error number.
ThrowDepthWithXt(h) == rs[h - 1].val + 1
ThrowDepth(h) == rs[h - 1].val

\* The three cells of the catch frame at h are popped.
Unwind(h) ==
  /\ handler' = Outer(h)
  /\ depth' = ThrowDepth(h)
  /\ ip' = Resume(rs[h - 2])
  /\ rp' = h - 3 /\ rs' = Cut(h - 3)
  /\ XfpLeft(h - 3)
  /\ UNCHANGED xfp

\* The copy of the unwound cells to RSSAVE, for ATRACE, is left out; it stops at HANDLER, or at
\* once when rp is already below it, and so does THROW.
ThrowToHandler ==
  /\ ip = "body" /\ handler # 0
  /\ Unwind(IF handler <= rp THEN handler ELSE rp)

-----------------------------------------------------------------------------
(***************************************************************************)
(* Local variables.                                                        *)
(***************************************************************************)

\* The frame ALLOCATE-LOCALS makes: n values, the old XFP, the old rp, and a
\* return address that makes the word pass through freelocbuf[] on its way out.
FrameCellsLateRp(n) == [i \in 1..n+3 |-> IF i <= n THEN Plain("loc")
                                         ELSE IF i = n+1 THEN Pointer("xfp", xfp)
                                         ELSE IF i = n+2 THEN Pointer("oldrp", rp + n)
                                         ELSE Plain("free")]

FrameCells(n) == [i \in 1..n+3 |-> IF i <= n THEN Plain("loc")
                                   ELSE IF i = n+1 THEN Pointer("xfp", xfp)
                                   ELSE IF i = n+2 THEN Pointer("oldrp", rp)
                                   ELSE Plain("free")]

\* The compiler puts it at the start of a word, when the word has nothing else
\* on the return stack.
AllocateLocals(n) ==
  /\ ip = "body" /\ depth >= n /\ rp + n + 3 <= RSSize
  /\ rp > 0 /\ rs[rp].kind \in Returns
  /\ rs' = Push(FrameCells(n), n + 3) /\ rp' = rp + n + 3
  /\ xfp' = rp + n
  /\ depth' = depth - n
  /\ UNCHANGED <<handler, ip, frames>>

\* XFP[-1], read from wherever XFP points now: a saved pointer, or anything.
SavedXfp == IF xfp < rp /\ rs[xfp + 1].kind = "xfp" THEN {rs[xfp + 1].val} ELSE 0..RSSize

\* freelocbuf[]: FREE-LOCALS takes XFP back through XFP itself and rp from the
\* frame, UNNEST returns from the word.
FreeLocalsKeepsXfp ==
  /\ ip = "free"
  /\ LET r == rs[rp].val
     IN ip' = Resume(rs[r]) /\ rp' = r - 1 /\ rs' = Cut(r - 1)
  /\ UNCHANGED <<depth, handler, xfp, frames>>

FreeLocals ==
  /\ ip = "free"
  /\ xfp' \in SavedXfp
  /\ LET r == rs[rp].val
     IN ip' = Resume(rs[r]) /\ rp' = r - 1 /\ rs' = Cut(r - 1)
  /\ UNCHANGED <<depth, handler, frames>>

\* The word that is executing has locals, in the frame that ends at i.
InFrame(i) == /\ i \in 1..rp /\ rs[i].kind = "free"
              /\ \A j \in i+1..rp : rs[j].kind = "data"

\* SET-LOCAL of local k stores through XFP, whatever is there by now.
SetLocal(k) ==
  /\ ip = "body" /\ depth > 0
  /\ \E i \in Slots : /\ InFrame(i) /\ rs[i - 1].val + k < i - 3
                      /\ frames' = IF xfp = i - 3 THEN frames ELSE "stray"
  /\ rs' = [i \in Slots |-> IF i + k = xfp /\ i <= rp THEN Plain("loc") ELSE rs[i]]
  /\ depth' = depth - 1
  /\ UNCHANGED <<rp, handler, xfp, ip>>

-----------------------------------------------------------------------------
Init == /\ rs = [i \in Slots |-> Dead] /\ rp = 0
        /\ depth = 0
        /\ handler = 0
        /\ xfp = 0
        /\ ip = "host"
        /\ frames = "ok"

\* After a stray store the stack may hold anything: the model ends there.
Next == /\ frames # "stray"
        /\ \/ ExecuteWord \/ Primitive \/ DoColon \/ Unnest \/ ToR \/ RFrom
           \/ Catch \/ CatchDone \/ ThrowZero \/ ThrowToHost \/ ThrowToHandler
           \/ \E n \in 1..MaxLoc : AllocateLocals(n)
           \/ FreeLocals
           \/ \E k \in 0..MaxLoc-1 : SetLocal(k)

Spec == Init /\ [][Next]_vars
-----------------------------------------------------------------------------
(***************************************************************************)
(* Properties.                                                             *)
(***************************************************************************)

\* h is the highest cell of kind k among the lowest n cells of the stack s, or 0
\* without one.
IsTop(s, k, h, n) == /\ h \in 0..n
                     /\ h > 0 => s[h].kind = k
                     /\ \A i \in h+1..n : s[i].kind # k

\* HANDLER points at the innermost catch frame of the return stack, and the
\* handler saved in each frame at the next one out: THROW never unwinds to a
\* frame that is gone and never skips one (CATCH, THROW).
HandlerLinks(s, n) ==
  \A i \in 1..n : s[i].kind = "handler" => IsTop(s, "handler", s[i].val, i - 1)
HandlerChain ==
  frames # "stray" => IsTop(rs, "handler", handler, rp) /\ HandlerLinks(rs, rp)

\* What each cell of the return stack lies upon.  A catch frame and a locals
\* frame are whole as long as their top cell is on the stack.
CatchFrame(s, i) == /\ i > 3 /\ s[i - 1].kind = "sp" /\ s[i - 2].kind = "ret"
                    /\ s[i - 1].val \in 1..DSSize
LocalsFrame(s, i) == /\ i > 3 /\ s[i - 1].kind = "xfp"
                     /\ s[i].val \in 1..i-3 /\ s[s[i].val].kind \in Returns
                     /\ \A j \in s[i].val+1..i-2 : s[j].kind = "loc"
WellFormed(s, n) ==
  \A i \in 1..n : /\ s[i].kind # "dead"
                  /\ s[i].kind = "finish" <=> i = 1
                  /\ s[i].kind = "handler" => CatchFrame(s, i)
                  /\ s[i].kind = "oldrp" => LocalsFrame(s, i)
                  /\ s[i].kind = "caught" => i > 1 /\ s[i - 1].kind = "handler"
                  /\ s[i].kind = "free" => i > 1 /\ s[i - 1].kind = "oldrp"

\* Wherever a word, CATCH or freelocbuf[] goes on, it finds on top of the return
\* stack what it is about to pop, and the host gets the machine back with the
\* return stack empty and no handler in force (CATCH, FREE-LOCALS, FINISHED).
StackDiscipline ==
  frames # "stray" =>
    /\ WellFormed(rs, rp)
    /\ ip = "body" => rp > 0
    /\ ip = "tail" => rp > 0 /\ rs[rp].kind = "handler"
    /\ ip = "free" => rp > 0 /\ rs[rp].kind = "oldrp"
    /\ ip = "host" => rp = 0 /\ handler = 0

\* Until a THROW leaves a word that has locals, XFP is the frame of the latest
\* word with locals that has not returned: locals survive calls, CATCH and every
\* THROW that stays within such a word (ALLOCATE-LOCALS, FREE-LOCALS, THROW).
XfpIsTop(s, x, n) == IsTop(s, "xfp", IF x = 0 THEN 0 ELSE x + 1, n)
FrameLinks(s, n) ==
  \A i \in 1..n : s[i].kind = "xfp" => XfpIsTop(s, s[i].val, i - 1)
LocalsCurrent ==
  frames = "ok" => XfpIsTop(rs, xfp, rp) /\ FrameLinks(rs, rp)

\* The word sets EXCEPTION and LOCALS, which readme and environ.fth list as
\* provided, together: a word that catches a THROW still has its own locals.
LocalsSurviveThrow ==
  ip = "body" => \A i \in Slots : InFrame(i) => xfp = i - 3

\* The CATCHes on the lowest n cells of the stack s: where each of them returns
\* to and the depth of the data stack it found.
Tries(s, n) == {[calls |-> i - 3, items |-> s[i - 1].val] :
                  i \in {j \in 1..n : s[j].kind = "handler"}}

\* The return stack and the data stack do what TryCatch promises.
TC == INSTANCE TryCatch WITH calls <- rp, items <- depth, tries <- Tries(rs, rp),
                             void <- (frames = "stray")

\* Every step of the interpreter is one that the exception word set allows: the
\* handler chain finds the innermost CATCH and restores what it found.
ImplementsTryCatch == TC!Spec
=============================================================================
