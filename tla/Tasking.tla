------------------------------ MODULE Tasking -------------------------------
(***************************************************************************)
(* Cooperative multitasking: user areas linked in a ring, round which      *)
(* (pause goes to the next task that is awake.  The words of tasking.fth   *)
(* are run by the current task; only the loop of (pause changes it.        *)
(***************************************************************************)
EXTENDS Naturals

CONSTANTS Tasks, \* the tasks there may be
          Main,  \* the one that runs first
          Nil    \* the null link

ASSUME MainIsTask == Main \in Tasks /\ Nil \notin Tasks

VARIABLES up,        \* the current task
          link,      \* LINK of each user area
          asleep,    \* ASLEEP of each user area
          pause,     \* what the deferred word `pause` does in each task
          allocated, \* the tasks that have a user area
          forked,    \* history: the tasks that were given a word to execute
          begun,     \* history: multi has run
          looping    \* (pause is looking for the next task

sched == <<link, asleep, pause>>
vars == <<up, sched, allocated, forked, begun, looping>>

TypeOK == /\ up \in Tasks
          /\ link \in [Tasks -> Tasks \union {Nil}]
          /\ asleep \in [Tasks -> BOOLEAN]
          /\ pause \in [Tasks -> {"noop", "(pause"}]
          /\ allocated \in SUBSET Tasks
          /\ forked \in SUBSET Tasks
          /\ begun \in BOOLEAN
          /\ looping \in BOOLEAN

\* The tasks one comes to from t along the links, t included.
Closed(S) == \A v \in S : link[v] \in Tasks => link[v] \in S
From(t) == {u \in Tasks : \A S \in SUBSET Tasks : t \in S /\ Closed(S) => u \in S}
Ring == From(up)

-----------------------------------------------------------------------------
\* (pause saves the stack pointers and enters its loop.
EnterPause == /\ ~looping /\ pause[up] = "(pause"
              /\ looping' = TRUE
              /\ UNCHANGED <<up, sched, allocated, forked, begun>>

\* One turn of the loop: the next task in the ring, if it is awake, goes on.
PauseStepInverted == /\ looping
                     /\ up' = link[up]
                     /\ looping' = ~asleep[link[up]]
                     /\ UNCHANGED <<sched, allocated, forked, begun>>
PauseStepTestsFirst == /\ looping
                       /\ up' = IF asleep[up] THEN link[up] ELSE up
                       /\ looping' = asleep[up]
                       /\ UNCHANGED <<sched, allocated, forked, begun>>
PauseStep == /\ looping
             /\ up' = link[up]
             /\ looping' = asleep[link[up]]
             /\ UNCHANGED <<sched, allocated, forked, begun>>

\* allocate-task: the new user area is a copy of the creator's, and follows it in
\* the ring.
AllocateLinkFirst(t) ==
  /\ ~looping /\ t \notin allocated
  /\ link' = [link EXCEPT ![up] = t, ![t] = t]
  /\ pause' = [pause EXCEPT ![t] = pause[up]]
  /\ asleep' = [asleep EXCEPT ![t] = TRUE]
  /\ allocated' = allocated \union {t}
  /\ UNCHANGED <<up, forked, begun, looping>>
AllocateAwake(t) ==
  /\ ~looping /\ t \notin allocated
  /\ link' = [link EXCEPT ![up] = t, ![t] = link[up]]
  /\ pause' = [pause EXCEPT ![t] = pause[up]]
  /\ asleep' = [asleep EXCEPT ![t] = asleep[up]]
  /\ allocated' = allocated \union {t}
  /\ UNCHANGED <<up, forked, begun, looping>>
Allocate(t) ==
  /\ ~looping /\ t \notin allocated
  /\ link' = [link EXCEPT ![up] = t, ![t] = link[up]]
  /\ pause' = [pause EXCEPT ![t] = pause[up]]
  /\ asleep' = [asleep EXCEPT ![t] = TRUE]
  /\ allocated' = allocated \union {t}
  /\ UNCHANGED <<up, forked, begun, looping>>

\* multi, unless `pause` is (pause already: a ring of the current task alone.
InitRingAlways == /\ link' = [link EXCEPT ![up] = up]
                  /\ asleep' = [asleep EXCEPT ![up] = FALSE]
                  /\ pause' = [pause EXCEPT ![up] = "(pause"]
InitRing == IF pause[up] = "(pause"
            THEN UNCHANGED sched
            ELSE /\ link' = [link EXCEPT ![up] = up]
                 /\ asleep' = [asleep EXCEPT ![up] = FALSE]
                 /\ pause' = [pause EXCEPT ![up] = "(pause"]

Multi == /\ ~looping
         /\ InitRing /\ begun' = TRUE
         /\ UNCHANGED <<up, allocated, forked, looping>>

\* fork: multi, then the stacks of t are set up to execute a word.
Fork(t) == /\ ~looping /\ t \in allocated
           /\ InitRing /\ begun' = TRUE
           /\ forked' = forked \union {t}
           /\ UNCHANGED <<up, allocated, looping>>

Single == /\ ~looping
          /\ pause' = [pause EXCEPT ![up] = "noop"]
          /\ UNCHANGED <<up, link, asleep, allocated, forked, begun, looping>>

Sleep(t) == /\ ~looping /\ t \in allocated
            /\ asleep' = [asleep EXCEPT ![t] = TRUE]
            /\ UNCHANGED <<up, link, pause, allocated, forked, begun, looping>>

\* A program wakes only tasks that have a word to execute.
Wake(t) == /\ ~looping /\ t \in forked \union {Main}
           /\ asleep' = [asleep EXCEPT ![t] = FALSE]
           /\ UNCHANGED <<up, link, pause, allocated, forked, begun, looping>>

\* stop goes to (pause whatever `pause` is.  A program does it only after multi:
\* before, there is no ring.
Stop == /\ ~looping /\ begun
        /\ asleep' = [asleep EXCEPT ![up] = TRUE]
        /\ looping' = TRUE
        /\ UNCHANGED <<up, link, pause, allocated, forked, begun>>

Init == /\ up = Main /\ allocated = {Main} /\ forked = {}
        /\ link = [t \in Tasks |-> Nil]
        /\ asleep = [t \in Tasks |-> FALSE]
        /\ pause = [t \in Tasks |-> "noop"]
        /\ begun = FALSE /\ looping = FALSE

Next == \/ EnterPause \/ PauseStep \/ Multi \/ Single \/ Stop
        \/ \E t \in Tasks : Allocate(t) \/ Fork(t) \/ Sleep(t) \/ Wake(t)

\* The loop runs on, and a task that can pause does so now and then.
Fairness == WF_vars(PauseStep) /\ WF_vars(EnterPause)

Spec == Init /\ [][Next]_vars /\ Fairness
-----------------------------------------------------------------------------
(***************************************************************************)
(* Properties.                                                             *)
(***************************************************************************)

\* Once there is a ring, the links lead from the current task round to itself,
\* through user areas that exist, so that the loop of (pause never leaves them
\* ((pause, allocate-task, multi).
RingClosed ==
  begun => Ring \subseteq allocated /\ \A t \in Ring : link[t] \in Ring /\ up \in From(t)

\* The task that runs has stacks of its own, never those of the task whose user
\* area was copied for it (allocate-task, fork, wake).
OwnStacks == ~looping => up \in forked \union {Main}

\* A task falls out of the ring only when one that has called `single` makes a
\* new ring (multi).
RingKept == [][begun /\ pause[up] = "(pause" => Ring \subseteq Ring']_vars

\* (pause comes back as long as a task of the ring is awake.
PauseReturns == looping /\ (\E t \in Ring : ~asleep[t]) ~> ~looping

\* Each task in the ring has its turn while it stays awake, unless it drops out or
\* the current task cannot pause.
EveryTaskRuns ==
  \A t \in Tasks : t \in Ring /\ ~asleep[t] /\ begun
                     ~> up = t \/ asleep[t] \/ t \notin Ring \/ pause[up] = "noop"

\* tasking.fth:109 says of fork that it adds the task to the round-robin list.
ForkedInRing == forked \subseteq Ring
=============================================================================
