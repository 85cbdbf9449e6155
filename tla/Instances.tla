------------------------------ MODULE Instances ------------------------------
(***************************************************************************)
(* Instances of the packages of the Open Firmware layer: how `open-dev`    *)
(* and `open-package` make chains of them, how their methods call each     *)
(* other, and how the chains are closed again.                             *)
(*                                                                         *)
(* An instance is its address, and `my-self` the one whose data the words  *)
(* of a package find.  `calls` has, from the program on, the code that     *)
(* runs and the words of this layer that wait for it.  The device tree,    *)
(* the data and the arguments of an instance are left out, so that any     *)
(* node may be found or not, any method calls what it may, and any `open`  *)
(* may fail.                                                               *)
(***************************************************************************)
EXTENDS Integers, Sequences, FiniteSets

CONSTANTS Ihandles, \* addresses of instances
          None,     \* 0, no instance
          MaxCalls  \* bound on nested calls, except those that close

ASSUME InstancesAssumption ==
  None \notin Ihandles /\ IsFiniteSet(Ihandles) /\ MaxCalls \in Nat \ {0}

Selves == Ihandles \union {None}

\* "open" and "close" are methods that this layer calls, and "apply" the one that
\* execute-device-method runs: it catches their errors.  "package" is open-package, "path"
\* what open-dev, begin-open-dev and execute-device-method have in common, and "closing"
\* close-package and close-dev.
Caught == {"open", "close", "apply"}
Code == {"program", "method"} \union Caught
Ops == Code \union {"package", "path", "closing"}
Goals == {"open-dev", "begin-open-dev", "execute-device-method"}

\* Of code, `at` is its instance; of the other words, where a walk up the chain ends.
\* `saved` is what `)package` makes my-self again.  `goal` is the word that walks a path, and
\* `stage` how far the word is.
Frame == [op : Ops, at : Selves, saved : Selves, goal : Goals \union {""},
          stage : {"", "select", "last", "close", "interposed"}]

VARIABLES mySelf,     \* `my-self`
          live,       \* the instances that are allocated and not abandoned
          abandoned,  \* history: those that are allocated and have lost, with the instance that
                      \* opened them, the only one that had their ihandle
          parent,     \* `my-parent` of each
          calls,      \* what runs, the latest last
          held,       \* ihandles that were returned and not closed, each with the instance
                      \* that close-package goes back to
          interposer, \* there is an `interposer`
          forPackage, \* `pkg-interpose?`
          opened,     \* history: the live ones whose `open` was successful and whose `close`
                      \* has not been called
          leftOpen,   \* history: the end of a chain that execute-device-method has left open
          astray      \* history: a throw, or an interposed package that is opened, has left
                      \* the wrong my-self, where the model ends

instances == <<mySelf, live, abandoned, parent, calls, held, interposer, forPackage, opened,
               leftOpen, astray>>
heap == <<live, abandoned, parent>>
interposing == <<interposer, forPackage>>

InstancesTypeOK ==
  /\ mySelf \in Selves /\ live \subseteq Ihandles /\ opened \subseteq Ihandles
  /\ abandoned \subseteq Ihandles \ live /\ parent \in [Ihandles -> Selves]
  /\ calls \in Seq(Frame) /\ Len(calls) \in 1..MaxCalls + 2 * Cardinality(Ihandles)
  /\ held \subseteq Ihandles \X Selves /\ leftOpen \subseteq Ihandles
  /\ interposer \in BOOLEAN /\ forPackage \in BOOLEAN /\ astray \in BOOLEAN

Top == calls[Len(calls)]
Caller == calls[Len(calls) - 1]
Below(n) == SubSeq(calls, 1, Len(calls) - n)
Running == Top.op \in Code
Deeper(n) == Len(calls) + n <= MaxCalls

Word(op, at, saved, goal, stage) ==
  [op |-> op, at |-> at, saved |-> saved, goal |-> goal, stage |-> stage]
Method(op, at) == Word(op, at, None, "", "")

\* i, its parent, and so on: what every set has that has i and the parents of its members;
\* and those of them that are closed on the way to `end`.
Upward(S) == \A j \in S : parent[j] \in S \union {None}
Chain(i) == {j \in Ihandles : \A S \in SUBSET Ihandles :
                                i \in S \union {None} /\ Upward(S) => j \in S}
Closed(i, end) == Chain(i) \ Chain(end)

-----------------------------------------------------------------------------
(***************************************************************************)
(* Instances.                                                              *)
(***************************************************************************)

\* allocate-instance and new-instance: a child of my-self.
NewInstance(i) ==
  /\ i \notin live \union abandoned /\ live' = live \union {i}
  /\ parent' = [parent EXCEPT ![i] = mySelf] /\ UNCHANGED abandoned

\* destroy-instance of each of S.  An ihandle from open-package is an `instance value` of the
\* instance that opened it and is lost with it, as in the `open` of sdnode.fth when disk-label
\* fails: the child stays allocated, and its my-parent is not looked at any more.
Gone(S) == {j \in live : Chain(j) \intersect S # {}}
Destroy(S) ==
  /\ live' = live \ Gone(S) /\ abandoned' = abandoned \union (Gone(S) \ S)
  /\ parent' = [j \in Ihandles |-> IF j \in Gone(S) THEN None ELSE parent[j]]
  /\ held' = {h \in held : h[1] \notin Gone(S)} /\ opened' = opened \ Gone(S)

\* destroy-instance, of my-self; a mutant that forgets to go to the parent.
DestroyKeepsSelf == Destroy({mySelf}) /\ UNCHANGED mySelf
DestroyInstance == Destroy({mySelf}) /\ mySelf' = parent[mySelf]

-----------------------------------------------------------------------------
(***************************************************************************)
(* Words that code calls.                                                  *)
(***************************************************************************)

\* $call-method and $call-parent: package( has saved my-self, which )package restores.
CallMethod(i) ==
  /\ Running /\ Deeper(1)
  /\ i \in {parent[s] : s \in {mySelf} \ {None}} \union {h[1] : h \in held}
  /\ i # None
  /\ calls' = Append(calls, Word("method", i, mySelf, "", "")) /\ mySelf' = i
  /\ UNCHANGED <<heap, held, interposing, opened, leftOpen, astray>>

\* open-dev, begin-open-dev and execute-device-method, up to the first select-node.  An empty
\* path is not found and changes nothing.
OpenDev(goal) ==
  /\ Running /\ Deeper(2)
  /\ calls' = Append(calls, Word("path", None, mySelf, goal, "select"))
  /\ mySelf' = None /\ interposer' = FALSE
  /\ UNCHANGED <<heap, held, forPackage, opened, leftOpen, astray>>

\* open-package, up to the package's `open`.
OpenPackage(i) ==
  /\ Running /\ Deeper(2)
  /\ NewInstance(i) /\ mySelf' = i
  /\ calls' = calls \o <<Word("package", mySelf, mySelf, "", ""), Method("open", i)>>
  /\ UNCHANGED <<held, interposing, opened, leftOpen, astray>>

\* close-package and close-dev.  What still runs is not closed, nor is
\* its parent.
CloseHeld(h) ==
  /\ Running
  /\ h \in held /\ h[2] \in {mySelf, None}
  /\ \A n \in 1..Len(calls) :
       (Chain(calls[n].at) \union Chain(calls[n].saved)) \intersect Closed(h[1], h[2]) = {}
  /\ calls' = Append(calls, Word("closing", h[2], mySelf, "", ""))
  /\ mySelf' = h[1] /\ held' = held \ {h}
  /\ UNCHANGED <<heap, interposing, opened, leftOpen, astray>>

\* interpose and package-interpose, in an `open`.
Interpose(package) ==
  /\ Top.op = "open"
  /\ interposer' = TRUE /\ forPackage' = package
  /\ UNCHANGED <<mySelf, heap, calls, held, opened, leftOpen, astray>>

\* An error, caught by code below or by this layer.  `catch` does not save my-self, and the
\* )package of the methods that are left does not run.
Throw ==
  /\ Top.op = "method"
  /\ \E n \in 1..Len(calls) - 1 :
       /\ \A k \in n + 1..Len(calls) : calls[k].op = "method"
       /\ calls' = SubSeq(calls, 1, n)
       /\ astray' = (mySelf # calls[n].at)
  /\ UNCHANGED <<mySelf, heap, held, interposing, opened, leftOpen>>

\* The end of a method that the program or another method has called.
MethodReturns ==
  /\ Top.op = "method"
  /\ calls' = Below(1) /\ mySelf' = Top.saved
  /\ UNCHANGED <<heap, held, interposing, opened, leftOpen, astray>>

-----------------------------------------------------------------------------
(***************************************************************************)
(* open-dev, begin-open-dev and execute-device-method.                     *)
(***************************************************************************)

\* The word is done: )package, and my-self is its result where it has one.
Result(i) ==
  /\ calls' = Below(1) /\ mySelf' = Top.saved
  /\ IF Top.goal = "execute-device-method"
     THEN leftOpen' = leftOpen \union ({i} \ {None}) /\ UNCHANGED held
     ELSE held' = held \union ({i} \ {None}) \X {None} /\ UNCHANGED leftOpen

\* select-node and open-parents: the next node, whose `open` follows unless it is the last.
SelectNode(i) ==
  /\ Top.op = "path" /\ Top.stage = "select"
  /\ NewInstance(i)
  /\ \/ /\ mySelf' = i /\ calls' = Append(calls, Method("open", i))
        /\ UNCHANGED <<held, leftOpen>>
     \/ /\ Top.goal = "open-dev" /\ mySelf' = i
        /\ calls' = Append(Below(1) \o <<[Top EXCEPT !.stage = "last"]>>, Method("open", i))
        /\ UNCHANGED <<held, leftOpen>>
     \/ /\ Top.goal = "execute-device-method" /\ mySelf' = i
        /\ calls' = Append(calls, Method("apply", i))
        /\ UNCHANGED <<held, leftOpen>>
     \/ Top.goal = "begin-open-dev" /\ Result(i)
  /\ UNCHANGED <<interposing, opened, astray>>

\* select-node does not find a device node: close-parents, and throw.
NoDevice ==
  /\ Top.op = "path" /\ Top.stage = "select"
  /\ calls' = [calls EXCEPT ![Len(calls)].stage = "close"]
  /\ UNCHANGED <<mySelf, heap, held, interposing, opened, leftOpen, astray>>

\* It does not find a support package: throw.
NoPackage ==
  /\ Top.op = "path" /\ Top.stage = "select"
  /\ Result(mySelf)
  /\ UNCHANGED <<heap, interposing, opened, astray>>

\* (apply-method) and (open-node), where `open` has failed, and the end of
\* execute-device-method: close-chain.
CloseChain ==
  /\ Top.op \in {"open", "apply"} /\ Caller.op = "path"
  /\ DestroyInstance
  /\ calls' = Below(2) \o <<[Caller EXCEPT !.stage = "close"]>>
  /\ UNCHANGED <<interposing, leftOpen, astray>>

\* open-node, after a successful `open`: the interposer's instance is opened in its turn.
NodeOpened ==
  /\ Top.op = "open" /\ Caller.op = "path"
  /\ opened' = opened \union {mySelf}
  /\ \/ /\ interposer /\ interposer' = FALSE /\ forPackage' = FALSE
        /\ \E i \in Ihandles : /\ NewInstance(i) /\ mySelf' = i
                               /\ calls' = Append(Below(1), Method("open", i))
        /\ UNCHANGED held
     \/ /\ ~interposer /\ Caller.stage = "select"
        /\ calls' = Below(1) /\ UNCHANGED <<mySelf, heap, held, interposing>>
     \/ /\ ~interposer /\ Caller.stage = "last"
        /\ calls' = Below(2) /\ mySelf' = Caller.saved
        /\ held' = held \union {<<mySelf, None>>} /\ UNCHANGED <<heap, interposing>>
  /\ UNCHANGED <<leftOpen, astray>>

-----------------------------------------------------------------------------
(***************************************************************************)
(* open-package.                                                           *)
(***************************************************************************)

\* A successful `open` of a package.
PackageOpened ==
  /\ Top.op = "open" /\ Caller.op = "package"
  /\ opened' = opened \union {mySelf}
  /\ \/ /\ interposer /\ forPackage /\ interposer' = FALSE /\ forPackage' = FALSE
        /\ \E i \in Ihandles :
             /\ NewInstance(i) /\ mySelf' = i
             /\ calls' = Append(Below(2) \o <<[Caller EXCEPT !.stage = "interposed"]>>,
                                Method("open", i))
        /\ UNCHANGED <<held, astray>>
     \/ /\ ~(interposer /\ forPackage)
        /\ calls' = Below(2) /\ mySelf' = parent[mySelf]
        /\ held' = held \union {<<mySelf, Caller.at>>}
        /\ astray' = (Caller.stage = "interposed")
        /\ UNCHANGED <<heap, interposing>>
  /\ UNCHANGED leftOpen

\* A failed one; every open-package that waits for it destroys its own instance too.
PackageFails ==
  /\ Top.op = "open" /\ Caller.op = "package"
  /\ Destroy(Closed(mySelf, Caller.at)) /\ mySelf' = Caller.at
  /\ calls' = Below(2)
  /\ UNCHANGED <<interposing, leftOpen, astray>>

-----------------------------------------------------------------------------
(***************************************************************************)
(* close-package, close-parents and ?close.                                *)
(***************************************************************************)

Walking == Top.op = "closing" \/ (Top.op = "path" /\ Top.stage = "close")

\* There is another instance to close; a mutant that stops one below the end.
MoreToCloseButOne == mySelf \notin {None, Top.at} /\ parent[mySelf] # Top.at
MoreToClose == mySelf \notin {None, Top.at}

\* ?close and destroy-instance of the next one; a mutant without ?close.
CloseOneSilently ==
  /\ Walking /\ MoreToClose
  /\ DestroyInstance
  /\ UNCHANGED <<calls, interposing, leftOpen, astray>>
CloseOne ==
  /\ Walking /\ MoreToClose
  /\ opened' = opened \ {mySelf}
  /\ calls' = Append(calls, Method("close", mySelf))
  /\ UNCHANGED <<mySelf, heap, held, interposing, leftOpen, astray>>

\* The `close` has returned or thrown: destroy-instance.
ClosedOne ==
  /\ Top.op = "close"
  /\ DestroyInstance
  /\ calls' = Below(1)
  /\ UNCHANGED <<interposing, leftOpen, astray>>

EndOfChain ==
  /\ Walking /\ ~MoreToClose
  /\ calls' = Below(1) /\ mySelf' = Top.saved
  /\ UNCHANGED <<heap, held, interposing, opened, leftOpen, astray>>

-----------------------------------------------------------------------------

InstancesInit ==
  /\ mySelf = None /\ live = {} /\ abandoned = {} /\ parent = [i \in Ihandles |-> None]
  /\ calls = <<Method("program", None)>> /\ held = {}
  /\ interposer = FALSE /\ forPackage = FALSE
  /\ opened = {} /\ leftOpen = {} /\ astray = FALSE

OfCode == \/ \E i \in Ihandles : CallMethod(i) \/ OpenPackage(i)
          \/ \E goal \in Goals : OpenDev(goal)
          \/ \E h \in held : CloseHeld(h)
          \/ \E package \in BOOLEAN : Interpose(package)
          \/ Throw \/ MethodReturns

OfLayer == \/ \E i \in Ihandles : SelectNode(i)
           \/ NoDevice \/ NoPackage \/ CloseChain \/ NodeOpened
           \/ PackageOpened \/ PackageFails \/ CloseOne \/ ClosedOne \/ EndOfChain

InstancesNext == \/ ~astray /\ (OfCode \/ OfLayer)
                 \/ astray /\ UNCHANGED instances

InstancesSpec == InstancesInit /\ [][InstancesNext]_instances

-----------------------------------------------------------------------------
(***************************************************************************)
(* Properties.                                                             *)
(***************************************************************************)

\* No word is left with the address of an instance that is gone: my-self, what )package will
\* restore, the parents of the living and every ihandle that may still be used are alive, and
\* each chain still goes up to the instance at which close-package will stop.  An abandoned
\* instance (sdnode.fth:86) has a parent that is gone, and nobody has its address.
NoDangling == ~astray =>
  /\ {mySelf} \union {parent[i] : i \in live} \subseteq live \union {None}
  /\ \A n \in 1..Len(calls) : {calls[n].at, calls[n].saved} \subseteq live \union {None}
  /\ \A h \in held : h[1] \in live /\ h[2] \in (Chain(h[1]) \ {h[1]}) \union {None}

\* This layer loses nothing: on every path through it every instance is on the chain of an
\* ihandle that somebody has, or of a word that runs, but for what a package abandons that is
\* destroyed before it has closed what it opened (sdnode.fth:86), and for what
\* execute-device-method leaves open on a path that names a support package there is not.  For
\* such a path open-dev and begin-open-dev return the parents, which somebody has so far,
\* although their comments say 0 (ofwcore.fth:2537, 2555; see ZeroAfterThrow).
NothingLost == ~astray =>
  LET ends == {mySelf} \union {calls[n].at : n \in 1..Len(calls)} \union {h[1] : h \in held}
  IN live = UNION {Chain(i) : i \in (ends \union leftOpen) \ {None}}

\* The one step that destroys an instance that was opened and not closed: open-package, for
\* the package that an interposer sits on, when the interposer's `open` fails
\* (ofwcore.fth:2396, 2401).
InterposerFails == PackageFails /\ Caller.stage = "interposed"

\* On every other path, in error or not, an instance that was opened is not destroyed before
\* its `close` has been called, and `close` is not called again while it runs.
ClosedFirst ==
  [][/\ InterposerFails \/ (live \ (live' \union abandoned')) \intersect opened = {}
     /\ CloseOne => \A n \in 1..Len(calls) : calls[n].op = "close" => calls[n].at # mySelf
    ]_instances

\* What the comments of open-dev and begin-open-dev say of an error: they return 0 after it.
\* It fails here, and no run checks it.
ZeroAfterThrow == [][NoPackage => mySelf = None]_instances
=============================================================================
