--------------------------- MODULE Tasking_proofs ---------------------------
(***************************************************************************)
(* Proofs that the ring of Tasking stays closed and that each task runs on *)
(* its own stacks, for any set of tasks.                                   *)
(***************************************************************************)
EXTENDS Tasking, TLAPS

\* From(t), for links l.
Along(l, S) == \A v \in S : l[v] \in Tasks => l[v] \in S
Reach(l, t) == {u \in Tasks : \A S \in SUBSET Tasks : t \in S /\ Along(l, S) => u \in S}

\* The links l lead from u round to u, through A.
Round(l, u, A) == /\ Reach(l, u) \subseteq A
                  /\ \A t \in Reach(l, u) : l[t] \in Reach(l, u) /\ u \in Reach(l, t)

\* Tasks that have no word to execute are asleep, and not in control.
Idle == \A t \in allocated \ (forked \union {Main}) : asleep[t]

\* A task can only be in (pause, or go there, when there is a ring.
NeedsRing == (looping => begun) /\ \A t \in Tasks : pause[t] = "(pause" => begun

IInv == /\ TypeOK
        /\ up \in allocated /\ Main \in allocated /\ forked \subseteq allocated
        /\ NeedsRing /\ Idle /\ OwnStacks
        /\ begun => Round(link, up, allocated)
-----------------------------------------------------------------------------
\* Round is RingClosed.
LEMMA RoundIsRing == (begun => Round(link, up, allocated)) <=> RingClosed
  BY DEF Round, Reach, Along, RingClosed, Ring, From, Closed

\* The tasks one comes to from t have t among them and are followed by each other.
LEMMA ReachFacts ==
  ASSUME NEW l, NEW t \in Tasks
  PROVE  t \in Reach(l, t) /\ Along(l, Reach(l, t)) /\ Reach(l, t) \subseteq Tasks
  BY DEF Reach, Along

\* They are the fewest such tasks.
LEMMA ReachLeast ==
  ASSUME NEW l, NEW t \in Tasks, NEW S \in SUBSET Tasks, t \in S, Along(l, S)
  PROVE  Reach(l, t) \subseteq S
  BY DEF Reach

\* A task linked to itself is a ring.
LEMMA RoundAlone ==
  ASSUME NEW u \in Tasks, NEW l \in [Tasks -> Tasks \union {Nil}], NEW A, u \in A
  PROVE  Round([l EXCEPT ![u] = u], u, A)
  <1> DEFINE k == [l EXCEPT ![u] = u]
  <1>1. k[u] = u
    OBVIOUS
  <1> HIDE DEF k
  <1>2. Reach(k, u) = {u}
    <2>1. Along(k, {u})
      BY <1>1 DEF Along
    <2>2. QED
      BY <2>1, ReachFacts, ReachLeast
  <1>3. QED
    BY <1>1, <1>2 DEF Round, k

\* One step along a ring leads to a place in the same ring.
LEMMA RoundStep ==
  ASSUME NEW u \in Tasks, NEW l, NEW A \in SUBSET Tasks, Round(l, u, A)
  PROVE  l[u] \in A /\ Round(l, l[u], A) /\ Reach(l, u) \subseteq Reach(l, l[u])
  <1>1. u \in Reach(l, u) /\ l[u] \in Reach(l, u) /\ l[u] \in A
    BY ReachFacts DEF Round
  <1>2. Reach(l, l[u]) \subseteq Reach(l, u)
    BY <1>1, ReachFacts, ReachLeast
  <1>3. ASSUME NEW t \in Reach(l, l[u])
        PROVE  l[t] \in Reach(l, l[u]) /\ l[u] \in Reach(l, t)
    <2>1. t \in Reach(l, u) /\ t \in Tasks /\ l[t] \in Tasks
      BY <1>2, <1>3, ReachFacts DEF Round
    <2>2. l[t] \in Reach(l, l[u])
      BY <1>1, <1>3, <2>1, ReachFacts DEF Along
    <2>3. u \in Reach(l, t)
      BY <2>1 DEF Round
    <2>4. l[u] \in Reach(l, t)
      BY <1>1, <2>1, <2>3, ReachFacts DEF Along
    <2>5. QED
      BY <2>2, <2>4
  <1>4. Reach(l, u) \subseteq Reach(l, l[u])
    <2>1. u \in Reach(l, l[u])
      BY <1>1 DEF Round
    <2>2. QED
      BY <1>1, <2>1, ReachFacts, ReachLeast
  <1>5. QED
    BY <1>1, <1>2, <1>3, <1>4 DEF Round

\* A task that is put behind u makes the ring one longer.
LEMMA RoundInsert ==
  ASSUME NEW u \in Tasks, NEW l \in [Tasks -> Tasks \union {Nil}], NEW A \in SUBSET Tasks,
         Round(l, u, A), NEW n \in Tasks \ A
  PROVE  LET k == [l EXCEPT ![u] = n, ![n] = l[u]]
         IN  Round(k, u, A \union {n}) /\ Reach(l, u) \subseteq Reach(k, u)
  <1> DEFINE k == [l EXCEPT ![u] = n, ![n] = l[u]]
             R == Reach(l, u)
  <1>1. u \in R /\ R \subseteq A /\ n \notin R /\ l[u] \in R /\ Along(l, R)
    BY ReachFacts DEF Round
  <1>2. k[u] = n /\ k[n] = l[u] /\ \A w \in R \ {u} : k[w] = l[w]
    BY <1>1
  <1>3. \A w \in R : l[w] \in R /\ u \in Reach(l, w)
    BY DEF Round
  <1> HIDE DEF k, R
  <1>4. \A w \in R \union {n} : k[w] \in R \union {n}
    BY <1>1, <1>2, <1>3
  <1>5. Reach(k, u) \subseteq R \union {n}
    <2>1. R \union {n} \in SUBSET Tasks /\ Along(k, R \union {n})
      BY <1>1, <1>4 DEF Along
    <2>2. QED
      BY <1>1, <2>1, ReachLeast
  <1>6. ASSUME NEW t \in R \union {n} PROVE u \in Reach(k, t)
    <2> SUFFICES ASSUME NEW S \in SUBSET Tasks, t \in S, Along(k, S), u \notin S
                 PROVE  FALSE
      BY DEF Reach
    <2>1. PICK v \in R : v \in S
      BY <1>1, <1>2, <1>6 DEF Along
    <2>2. Along(l, S \intersect R)
      BY <1>2, <1>3, <1>1 DEF Along
    <2>3. u \in S \intersect R
      BY <2>1, <2>2, <1>3 DEF Reach
    <2>4. QED
      BY <2>3
  <1>7. \A t \in Reach(k, u) : k[t] \in Reach(k, u)
    BY <1>1, <1>4, <1>5, ReachFacts DEF Along
  <1>8. R \subseteq Reach(k, u)
    <2> SUFFICES ASSUME NEW S \in SUBSET Tasks, u \in S, Along(k, S)
                 PROVE  R \subseteq S
      BY <1>1 DEF Reach
    <2>1. l[u] \in S
      BY <1>1, <1>2 DEF Along
    <2>2. Along(l, S \intersect R)
      BY <1>1, <1>2, <1>3, <2>1 DEF Along
    <2>3. QED
      BY <1>1, <2>2, ReachLeast DEF R
  <1>9. QED
    BY <1>1, <1>5, <1>6, <1>7, <1>8 DEF Round, k, R
-----------------------------------------------------------------------------
LEMMA InitInv == Init => IInv
  BY MainIsTask DEF Init, IInv, TypeOK, NeedsRing, Idle, OwnStacks

\* multi leaves a ring through the current task.
LEMMA InitRingFacts ==
  ASSUME IInv, ~looping, InitRing
  PROVE  /\ link' \in [Tasks -> Tasks \union {Nil}]
         /\ asleep' \in [Tasks -> BOOLEAN] /\ pause' \in [Tasks -> {"noop", "(pause"}]
         /\ \A t \in allocated \ (forked \union {Main}) : asleep'[t]
         /\ Round(link', up, allocated)
  <1>1. /\ link \in [Tasks -> Tasks \union {Nil}] /\ asleep \in [Tasks -> BOOLEAN]
        /\ pause \in [Tasks -> {"noop", "(pause"}] /\ up \in Tasks /\ up \in allocated
        /\ up \in forked \union {Main} /\ Idle /\ NeedsRing
        /\ begun => Round(link, up, allocated)
    BY DEF IInv, TypeOK, OwnStacks
  <1>2. CASE pause[up] = "(pause"
    BY <1>1, <1>2 DEF InitRing, sched, NeedsRing, Idle
  <1>3. CASE pause[up] # "(pause"
    <2>1. /\ link' = [link EXCEPT ![up] = up] /\ asleep' = [asleep EXCEPT ![up] = FALSE]
          /\ pause' = [pause EXCEPT ![up] = "(pause"]
      BY <1>3 DEF InitRing
    <2>2. Round(link', up, allocated)
      BY <1>1, <2>1, RoundAlone
    <2>3. QED
      BY <1>1, <2>1, <2>2 DEF Idle
  <1>4. QED
    BY <1>2, <1>3

LEMMA NextInv == IInv /\ [Next]_vars => IInv'
  <1> SUFFICES ASSUME IInv, [Next]_vars PROVE IInv'
    OBVIOUS
  <1>0. TypeOK /\ up \in allocated /\ allocated \in SUBSET Tasks
    BY DEF IInv, TypeOK
  <1>1. CASE EnterPause
    BY <1>1 DEF EnterPause, IInv, TypeOK, NeedsRing, Idle, OwnStacks, sched
  <1>2. CASE PauseStep
    <2>1. link[up] \in allocated /\ Round(link, link[up], allocated)
      BY <1>0, <1>2, RoundStep DEF PauseStep, IInv, NeedsRing, TypeOK
    <2>2. QED
      BY <1>2, <2>1 DEF PauseStep, IInv, TypeOK, NeedsRing, Idle, OwnStacks, sched
  <1>3. CASE Multi
    BY <1>3, InitRingFacts DEF Multi, IInv, TypeOK, NeedsRing, Idle, OwnStacks
  <1>4. CASE Single
    BY <1>4 DEF Single, IInv, TypeOK, NeedsRing, Idle, OwnStacks
  <1>5. CASE Stop
    BY <1>5 DEF Stop, IInv, TypeOK, NeedsRing, Idle, OwnStacks
  <1>6. ASSUME NEW t \in Tasks, Allocate(t) PROVE IInv'
    <2>1. begun => Round(link', up, allocated \union {t})
      BY <1>0, <1>6, RoundInsert DEF Allocate, IInv, TypeOK
    <2>2. /\ link' \in [Tasks -> Tasks \union {Nil}] /\ asleep' \in [Tasks -> BOOLEAN]
          /\ pause' \in [Tasks -> {"noop", "(pause"}]
      BY <1>0, <1>6 DEF Allocate, TypeOK
    <2>3. Idle'
      BY <1>0, <1>6 DEF Allocate, IInv, TypeOK, Idle
    <2>4. NeedsRing' /\ OwnStacks'
      BY <1>0, <1>6 DEF Allocate, IInv, TypeOK, NeedsRing, OwnStacks
    <2>5. QED
      BY <1>6, <2>1, <2>2, <2>3, <2>4 DEF Allocate, IInv, TypeOK
  <1>7. ASSUME NEW t \in Tasks, Fork(t) PROVE IInv'
    BY <1>7, InitRingFacts DEF Fork, IInv, TypeOK, NeedsRing, Idle, OwnStacks
  <1>8. ASSUME NEW t \in Tasks, Sleep(t) PROVE IInv'
    BY <1>8 DEF Sleep, IInv, TypeOK, NeedsRing, Idle, OwnStacks
  <1>9. ASSUME NEW t \in Tasks, Wake(t) PROVE IInv'
    BY <1>9 DEF Wake, IInv, TypeOK, NeedsRing, Idle, OwnStacks
  <1>10. CASE UNCHANGED vars
    BY <1>10 DEF vars, sched, IInv, TypeOK, NeedsRing, Idle, OwnStacks
  <1>11. QED
    BY <1>1, <1>2, <1>3, <1>4, <1>5, <1>6, <1>7, <1>8, <1>9, <1>10 DEF Next

\* The invariant is true of every state, whatever the tasks do to each other.
THEOREM Invariance == Spec => []IInv
  BY InitInv, NextInv, PTL DEF Spec

\* Every variable keeps to its domain; above all, UP is never a null link.
THEOREM TypeCorrect == Spec => []TypeOK
  <1>1. IInv => TypeOK
    BY DEF IInv
  <1>2. QED
    BY <1>1, Invariance, PTL

\* Once there is a ring it stays closed, for any number of tasks ((pause,
\* allocate-task, multi).
THEOREM RingClosedAlways == Spec => []RingClosed
  <1>1. IInv => RingClosed
    BY RoundIsRing DEF IInv
  <1>2. QED
    BY <1>1, Invariance, PTL

\* Only tasks that were given stacks and a word are in control (fork, wake).
THEOREM OwnStacksAlways == Spec => []OwnStacks
  <1>1. IInv => OwnStacks
    BY DEF IInv
  <1>2. QED
    BY <1>1, Invariance, PTL

\* No step but a new ring made by a task that has called `single` drops a task from
\* the ring (multi, fork).
THEOREM RingKeptAlways == Spec => RingKept
  <1> DEFINE Kept == begun /\ pause[up] = "(pause" => Ring \subseteq Ring'
  <1>1. ASSUME IInv, [Next]_vars, begun, pause[up] = "(pause"
        PROVE  Ring \subseteq Ring'
    <2>1. Ring = Reach(link, up) /\ Ring' = Reach(link', up')
      BY DEF Ring, From, Closed, Reach, Along
    <2>2. /\ up \in Tasks /\ allocated \in SUBSET Tasks /\ Round(link, up, allocated)
          /\ link \in [Tasks -> Tasks \union {Nil}]
      BY <1>1 DEF IInv, TypeOK
    <2>3. CASE PauseStep
      BY <2>1, <2>2, <2>3, RoundStep DEF PauseStep, sched
    <2>4. ASSUME NEW t \in Tasks, Allocate(t) PROVE Ring \subseteq Ring'
      BY <2>1, <2>2, <2>4, RoundInsert DEF Allocate
    <2>5. CASE link' = link /\ up' = up
      BY <2>1, <2>5
    <2>6. CASE EnterPause \/ Multi \/ Single \/ Stop \/ UNCHANGED vars
      BY <1>1, <2>5, <2>6 DEF EnterPause, Multi, InitRing, Single, Stop, vars, sched
    <2>7. ASSUME NEW t \in Tasks, Fork(t) \/ Sleep(t) \/ Wake(t) PROVE Ring \subseteq Ring'
      BY <1>1, <2>5, <2>7 DEF Fork, InitRing, Sleep, Wake, sched
    <2>8. QED
      BY <1>1, <2>3, <2>4, <2>6, <2>7 DEF Next
  <1>2. IInv /\ [Next]_vars => [Kept]_vars
    BY <1>1
  <1>3. QED
    BY <1>2, Invariance, PTL DEF Spec, RingKept
=============================================================================
