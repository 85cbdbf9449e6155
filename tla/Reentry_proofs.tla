---------------------------- MODULE Reentry_proofs ----------------------------
(***************************************************************************)
(* Proofs that callbacks give the foreground back its stacks, that no cell *)
(* is left over, and that no waiting answer is overwritten, for any set of *)
(* connections and any bounds.                                             *)
(***************************************************************************)
EXTENDS Reentry, FiniteSetTheorems, TLAPS

\* The stacks of the foreground, with what it waits for on top.
Waits(s) == s.of = "main" /\ s.depth = 1

\* The host waits for what the foreground waits for, and for nothing else.
HostInStep == /\ delay <=> main = "rest"
              /\ input_wait = IF main \in {"key", "accept"} THEN main ELSE "none"

\* Whose stacks are current, and where the other ones are kept.
WhoRuns ==
  IF run = <<>> THEN main # "runs" /\ Waits(V)
  ELSE CASE run[1].who = "main" -> /\ main = "runs" /\ Waits(V)
                                   /\ run[1].on.of = "main" /\ run[1].on.depth = 0
                                   /\ run[1].on.extra = V.extra
         [] run[1].who \in {"timer", "connect"} -> main # "runs" /\ Waits(V) /\ run[1].on = V
         [] run[1].who = "alarm" -> /\ main # "runs" /\ Waits(alarm_stacks_save)
                                    /\ run[1].at = "word"
         [] OTHER -> /\ main # "runs" /\ Waits(lwip_stacks_save)
                     /\ run[1].on.of = "lwip" /\ run[1].on.depth < Slots
                     /\ ~overtaken => run[1].on.extra = 0

\* The token behind the word is still the one that a callback, or an answer, needs.
TokenKept ==
  ~overtaken => /\ lwip_stacks.depth > 0 => ctbuf.end = "finished-pop"
                /\ run # <<>> =>
                     /\ run[1].who = "timer" => ctbuf.end = "finished"
                     /\ run[1].who \in {"connect", "receiver"} => ctbuf.end = "finished-pop"

IInv == /\ TypeOK /\ slip # "lost" /\ lwip_stacks.of = "lwip"
        /\ StacksLevel /\ AnswersKept
        /\ slip = "none" => HostInStep /\ WhoRuns /\ TokenKept
-----------------------------------------------------------------------------
\* The answers to c that wait in the lowest d places of w.
Here(w, d, c) == {i \in 1..d : w[i].to = c}

LEMMA HereFinite ==
  ASSUME NEW w, NEW d \in Nat, NEW c
  PROVE  IsFiniteSet(Here(w, d, c)) /\ Cardinality(Here(w, d, c)) \in 0..d
  <1>1. IsFiniteSet(1..d) /\ Cardinality(1..d) = d
    BY FS_Interval
  <1>2. Here(w, d, c) \in SUBSET (1..d)
    BY DEF Here
  <1>3. QED
    BY <1>1, <1>2, FS_Subset, FS_CardinalityType

\* One more place counts for the connection that its answer goes to.
LEMMA HereGrows ==
  ASSUME NEW w, NEW d \in Nat, NEW c
  PROVE  Cardinality(Here(w, d + 1, c))
           = Cardinality(Here(w, d, c)) + IF w[d + 1].to = c THEN 1 ELSE 0
  <1>1. CASE w[d + 1].to = c
    <2>1. Here(w, d + 1, c) = Here(w, d, c) \union {d + 1}
      BY <1>1 DEF Here
    <2>2. d + 1 \notin Here(w, d, c)
      BY DEF Here
    <2>3. QED
      BY <1>1, <2>1, <2>2, HereFinite, FS_AddElement
  <1>2. CASE w[d + 1].to # c
    <2>1. Here(w, d + 1, c) = Here(w, d, c)
      BY <1>2 DEF Here
    <2>2. QED
      BY <1>2, <2>1, HereFinite
  <1>3. QED
    BY <1>1, <1>2

\* AnswersKept, with the answers that wait and the one that runs counted apart.
LEMMA AnswersCounted ==
  AnswersKept <=>
    (slip = "none" => \A c \in Conns :
       answering[c] = Cardinality(Here(waiting, Depth, c))
                        + IF RunsAnswer /\ run[1].answer.to = c THEN 1 ELSE 0)
  BY DEF AnswersKept, Here
-----------------------------------------------------------------------------
LEMMA BoundsPositive ==
  /\ Pieces \in Nat /\ Pieces > 0 /\ Segs \in Nat /\ Segs > 0 /\ SndBuf \in Nat /\ SndBuf > 0
  /\ Slots \in Nat /\ Slots > 0 /\ Excess \in Nat /\ Excess > 0
  BY ReentryAssumption

\* At most one call of inner_interpreter has not returned.
LEMMA OneCall ==
  ASSUME TypeOK
  PROVE  run = <<>> \/ (run # <<>> /\ run[1] \in Call /\ run = <<run[1]>>)
  <1>1. run \in Seq(Call) /\ Len(run) \in Nat /\ Len(run) <= 1
    BY DEF TypeOK
  <1>2. CASE Len(run) = 0
    BY <1>1, <1>2
  <1>3. CASE Len(run) = 1
    <2>1. run[1] \in Call
      BY <1>1, <1>3
    <2>2. run = <<run[1]>>
      BY <1>1, <1>3
    <2>3. QED
      BY <1>3, <2>1, <2>2
  <1>4. Len(run) = 0 \/ Len(run) = 1
    <2> DEFINE n == Len(run)
    <2>1. n \in Nat /\ n <= 1
      BY <1>1
    <2> HIDE DEF n
    <2>2. n = 0 \/ n = 1
      BY <2>1
    <2>3. QED
      BY <2>2 DEF n
  <1>5. QED
    BY <1>2, <1>3, <1>4

LEMMA InitInv == Init => IInv
  <1> SUFFICES ASSUME Init PROVE IInv
    OBVIOUS
  <1> USE BoundsPositive DEF Init, At, Goes, Calls
  <1>1. run[1] = Goes("main", At("main", 0)) /\ run # <<>> /\ run[1].who = "main"
    OBVIOUS
  <1>2. TypeOK
    <2>1. (CHOOSE c \in Conns : TRUE) \in Conns
      BY ReentryAssumption
    <2>2. waiting \in [1..Slots -> Answer] /\ rx_pcb \in Conns
      BY <2>1 DEF Answer
    <2>3. {V, alarm_stacks_save, lwip_stacks_save, lwip_stacks} \subseteq Stacks
      BY DEF Stacks
    <2>4. run \in Seq(Call) /\ Len(run) <= 1
      BY DEF Call, Stacks
    <2>5. ctbuf \in Tokens /\ main \in {"runs", "key", "accept", "rest"}
          /\ input_wait \in {"none", "key", "accept"} /\ delay \in BOOLEAN
      BY DEF Tokens
    <2>6. /\ unsent \in [Conns -> 0..SndBuf] /\ answering \in [Conns -> 0..Slots]
          /\ overlapped \subseteq Conns
      OBVIOUS
    <2>7. QED
      BY <2>2, <2>3, <2>4, <2>5, <2>6 DEF TypeOK
  <1>3. AnswersKept
    <2>1. \A c \in Conns : Here(waiting, 0, c) = {}
      BY DEF Here
    <2>2. Depth = 0 /\ ~RunsAnswer
      BY <1>1 DEF Depth, RunsAnswer
    <2>3. \A c \in Conns : Cardinality(Here(waiting, 0, c)) = 0
      BY <2>1, FS_EmptySet
    <2>4. \A c \in Conns : answering[c] = 0
      OBVIOUS
    <2>5. QED
      BY <2>2, <2>3, <2>4, AnswersCounted
  <1>4. StacksLevel
    BY DEF StacksLevel
  <1>5. HostInStep /\ WhoRuns /\ TokenKept
    BY <1>1 DEF HostInStep, WhoRuns, TokenKept, Waits
  <1>6. QED
    BY <1>2, <1>3, <1>4, <1>5 DEF IInv
-----------------------------------------------------------------------------
\* A step that begins no answer, finishes none and moves none.
LEMMA SameAnswers ==
  ASSUME AnswersKept, slip = "none", waiting' = waiting, answering' = answering,
         Depth' = Depth, RunsAnswer' <=> RunsAnswer,
         RunsAnswer => run'[1].answer.to = run[1].answer.to
  PROVE  AnswersKept'
  BY DEF AnswersKept

\* The same, when neither the call before nor the call after is to `receiver`.
LEMMA NoAnswerRuns ==
  ASSUME AnswersKept, slip = "none", ~RunsAnswer, ~RunsAnswer', waiting' = waiting,
         answering' = answering, lwip_stacks' = lwip_stacks
  PROVE  AnswersKept'
  BY SameAnswers DEF Depth

LEMMA StacksTyped ==
  ASSUME NEW s \in Stacks
  PROVE  /\ s.of \in {"main", "alarm", "lwip"} /\ s.depth \in 0..Slots
         /\ s.extra \in -Excess..Excess
         /\ \A d \in 0..Slots : /\ [s EXCEPT !.depth = d] \in Stacks
                                /\ [s EXCEPT !.depth = d].of = s.of
                                /\ [s EXCEPT !.depth = d].depth = d
                                /\ [s EXCEPT !.depth = d].extra = s.extra
  BY DEF Stacks

\* key, sys-accept and rest leave the stacks of the foreground with one frame on them.
LEMMA OutInv ==
  ASSUME IInv, NEW why \in {"key", "accept", "rest"}, Out(why), HostInStep', TypeOK'
  PROVE  IInv'
  <1> USE BoundsPositive DEF Out, Runs, stacks, net
  <1>1. run # <<>> /\ run[1].who = "main" /\ slip = "none" /\ run' = <<>> /\ slip' = "none"
    OBVIOUS
  <1>2. run[1] \in Call /\ run[1].on \in Stacks
    BY OneCall DEF IInv, Call
  <1>3. run[1].on.of = "main" /\ run[1].on.depth = 0 /\ run[1].on.extra = V.extra
    BY <1>1 DEF IInv, WhoRuns
  <1>4. Waits(V') /\ V'.extra = V.extra
    <2>1. V' = [run[1].on EXCEPT !.depth = 1]
      BY <1>3
    <2>2. QED
      BY <1>2, <1>3, <2>1, StacksTyped DEF Waits
  <1>5. AnswersKept'
    BY <1>1, NoAnswerRuns DEF IInv, RunsAnswer
  <1>6. StacksLevel'
    BY <1>1, <1>4 DEF IInv, StacksLevel
  <1>7. WhoRuns' /\ TokenKept'
    BY <1>1, <1>4 DEF IInv, WhoRuns, TokenKept
  <1>8. QED
    BY <1>1, <1>5, <1>6, <1>7 DEF IInv

LEMMA OutTyped ==
  ASSUME IInv, NEW why \in {"key", "accept", "rest"}, Out(why),
         input_wait' \in {"none", "key", "accept"}, delay' \in BOOLEAN
  PROVE  TypeOK'
  <1> USE BoundsPositive DEF Out, Runs, stacks, net
  <1>1. run[1].on \in Stacks /\ run[1].on.depth = 0
    BY OneCall DEF IInv, Call, WhoRuns
  <1>2. V' \in Stacks
    <2>1. V' = [run[1].on EXCEPT !.depth = 1] /\ 1 \in 0..Slots
      BY <1>1
    <2>2. QED
      BY <1>1, <2>1, StacksTyped
  <1>3. QED
    BY <1>2 DEF IInv, TypeOK

LEMMA ForegroundInv ==
  ASSUME IInv, Foreground
  PROVE  IInv'
  <1>1. main = "runs" /\ input_wait = "none" /\ delay = FALSE
    <2>1. slip = "none" /\ run # <<>> /\ run[1].who = "main"
      BY DEF Foreground, Key, Accept, Ms, Out, Runs
    <2>2. main = "runs"
      BY <2>1 DEF IInv, WhoRuns
    <2>3. QED
      BY <2>1, <2>2 DEF IInv, HostInStep, TypeOK
  <1>2. CASE Key
    BY <1>1, <1>2, OutInv, OutTyped DEF Key, Out, HostInStep
  <1>3. CASE Accept
    BY <1>1, <1>3, OutInv, OutTyped DEF Accept, Out, HostInStep
  <1>4. CASE Ms
    BY <1>1, <1>4, OutInv, OutTyped DEF Ms, Out, HostInStep
  <1>5. QED
    BY <1>2, <1>3, <1>4 DEF Foreground

\* What the host calls when the foreground has waited long enough finds it waiting for that.
LEMMA ResumeInv ==
  ASSUME IInv, NEW why \in {"key", "accept", "rest"}, why = main, Resume(why), HostInStep',
         input_wait' \in {"none", "key", "accept"}, delay' \in BOOLEAN
  PROVE  IInv'
  <1> USE BoundsPositive DEF Resume, Idle, stacks, net
  <1>1. run = <<>> /\ slip = "none" /\ slip' = "none" /\ Waits(V) /\ V \in Stacks
    BY DEF IInv, TypeOK, WhoRuns, Waits
  <1>2. PICK on \in Stacks : /\ run' = <<Goes("main", on)>> /\ on.of = "main" /\ on.depth = 0
                             /\ on.extra = V.extra
    <2>1. V.depth - 1 = 0 /\ 0 \in 0..Slots
      BY <1>1 DEF Waits
    <2>2. run' = <<Goes("main", [V EXCEPT !.depth = 0])>>
      BY <2>1
    <2>3. QED
      BY <1>1, <2>1, <2>2, StacksTyped DEF Waits
  <1>3. run' # <<>> /\ run'[1] = Goes("main", on) /\ Len(run') = 1
    BY <1>2
  <1>4. Goes("main", on) = [who |-> "main", at |-> "word", on |-> on]
    BY DEF Goes, Calls
  <1>5. TypeOK'
    <2>1. run' \in Seq(Call) /\ Len(run') <= 1
      BY <1>2, <1>3, <1>4 DEF Call
    <2>2. QED
      BY <2>1 DEF IInv, TypeOK
  <1>6. AnswersKept'
    BY <1>1, <1>3, <1>4, NoAnswerRuns DEF IInv, RunsAnswer
  <1>7. StacksLevel'
    BY <1>1 DEF IInv, StacksLevel
  <1>8. WhoRuns'
    BY <1>1, <1>2, <1>3, <1>4 DEF WhoRuns, Waits
  <1>9. TokenKept'
    BY <1>1, <1>3, <1>4 DEF IInv, TokenKept
  <1>10. QED
    BY <1>1, <1>5, <1>6, <1>7, <1>8, <1>9 DEF IInv

LEMMA HostInv ==
  ASSUME IInv, lua_handle_input \/ delay_callback
  PROVE  IInv'
  <1>1. slip = "none" /\ HostInStep /\ TypeOK
    BY DEF lua_handle_input, delay_callback, Resume, Idle, IInv
  <1>2. CASE lua_handle_input
    <2>1. input_wait = main /\ main \in {"key", "accept"} /\ delay = FALSE
      BY <1>1, <1>2 DEF lua_handle_input, HostInStep, TypeOK
    <2>2. HostInStep'
      BY <1>2, <2>1 DEF lua_handle_input, Resume, HostInStep
    <2>3. QED
      BY <1>2, <2>1, <2>2, ResumeInv DEF lua_handle_input
  <1>3. CASE delay_callback
    <2>1. main = "rest" /\ input_wait = "none"
      BY <1>1, <1>3 DEF delay_callback, HostInStep, TypeOK
    <2>2. HostInStep'
      BY <1>3, <2>1 DEF delay_callback, Resume, HostInStep
    <2>3. QED
      BY <1>3, <2>1, <2>2, ResumeInv DEF delay_callback
  <1>4. QED
    BY <1>2, <1>3
-----------------------------------------------------------------------------
\* Calls from the host.
LEMMA CallTyped ==
  ASSUME NEW who \in {"main", "alarm", "timer", "connect"}, NEW on \in Stacks
  PROVE  /\ <<Calls(who, on)>> \in Seq(Call) /\ Len(<<Calls(who, on)>>) = 1
         /\ <<Goes(who, on)>> \in Seq(Call) /\ Len(<<Goes(who, on)>>) = 1
         /\ <<Calls(who, on)>>[1] = Calls(who, on) /\ <<Goes(who, on)>>[1] = Goes(who, on)
         /\ Calls(who, on).who = who /\ Goes(who, on).who = who
         /\ Calls(who, on).on = on /\ Goes(who, on).on = on /\ Goes(who, on).at = "word"
  <1>1. Calls(who, on) = [who |-> who, at |-> "ctbuf", on |-> on]
    BY DEF Calls
  <1>2. Goes(who, on) = [who |-> who, at |-> "word", on |-> on]
    BY DEF Calls, Goes
  <1>3. Calls(who, on) \in Call /\ Goes(who, on) \in Call
    BY <1>1, <1>2 DEF Call
  <1>4. QED
    BY <1>1, <1>2, <1>3

\* timer_callback and connect_cb: what they call runs on the stacks of the foreground.
LEMMA OnForegroundInv ==
  ASSUME IInv, Idle, NEW who \in {"timer", "connect"},
         Ctbuf(who, IF who = "timer" THEN "finished" ELSE "finished-pop"),
         run' = <<Calls(who, V)>>,
         UNCHANGED <<main, waiting, V, stacks, host, net, slip>>
  PROVE  IInv'
  <1> USE DEF Idle, Ctbuf, stacks, host, net
  <1> DEFINE end == IF who = "timer" THEN "finished" ELSE "finished-pop"
  <1>1. /\ run = <<>> /\ slip = "none" /\ slip' = "none" /\ Waits(V) /\ V \in Stacks
        /\ main # "runs"
    BY DEF IInv, TypeOK, WhoRuns
  <1>2. run' \in Seq(Call) /\ Len(run') = 1 /\ run' # <<>>
        /\ run'[1].who = who /\ run'[1].on = V
    BY <1>1, CallTyped
  <1>3. ctbuf' = [xt |-> who, end |-> end] /\ ctbuf' \in Tokens /\ ctbuf'.end = end
    BY DEF Tokens
  <1>4. overtaken' = (overtaken \/ (lwip_stacks.depth > 0 /\ end # ctbuf.end))
    BY <1>1 DEF Live
  <1>5. TypeOK'
    BY <1>2, <1>3, <1>4 DEF IInv, TypeOK
  <1>6. AnswersKept'
    BY <1>1, <1>2, NoAnswerRuns DEF IInv, RunsAnswer
  <1>7. StacksLevel'
    BY <1>1, <1>4 DEF IInv, StacksLevel
  <1>8. WhoRuns' /\ HostInStep'
    BY <1>1, <1>2 DEF IInv, WhoRuns, Waits, HostInStep
  <1>9. TokenKept'
    BY <1>1, <1>2, <1>3, <1>4 DEF IInv, TokenKept
  <1>10. QED
    BY <1>1, <1>5, <1>6, <1>7, <1>8, <1>9 DEF IInv

LEMMA AlarmInv ==
  ASSUME IInv, alarm_callback
  PROVE  IInv'
  <1> USE BoundsPositive DEF alarm_callback, Idle, Ctbuf, host, net
  <1>1. /\ run = <<>> /\ slip = "none" /\ slip' = "none" /\ Waits(V) /\ V \in Stacks
        /\ main # "runs"
    BY DEF IInv, TypeOK, WhoRuns
  <1>2. V' \in Stacks /\ V'.extra = 0
    BY DEF At, Stacks
  <1>3. run' \in Seq(Call) /\ Len(run') = 1 /\ run' # <<>>
        /\ run'[1].who = "alarm" /\ run'[1].at = "word"
    BY <1>2, CallTyped
  <1>4. ctbuf' \in Tokens /\ ctbuf'.end = "finished"
    BY DEF Tokens
  <1>5. overtaken' = (overtaken \/ (lwip_stacks.depth > 0 /\ "finished" # ctbuf.end))
    BY <1>1 DEF Live
  <1>6. TypeOK'
    BY <1>1, <1>2, <1>3, <1>4, <1>5 DEF IInv, TypeOK
  <1>7. AnswersKept'
    BY <1>1, <1>3, NoAnswerRuns DEF IInv, RunsAnswer
  <1>8. StacksLevel'
    BY <1>1, <1>2, <1>5 DEF IInv, StacksLevel
  <1>9. WhoRuns' /\ HostInStep'
    BY <1>1, <1>3 DEF IInv, WhoRuns, Waits, HostInStep
  <1>10. TokenKept'
    BY <1>1, <1>3, <1>4, <1>5 DEF IInv, TokenKept
  <1>11. QED
    BY <1>1, <1>6, <1>7, <1>8, <1>9, <1>10 DEF IInv

\* An interrupt keeps the stacks that are current and gives them back.
LEMMA GpioInv ==
  ASSUME IInv, gpio_callback
  PROVE  IInv'
  <1> USE DEF gpio_callback, Ctbuf, host, net
  <1>1. slip = "none" /\ slip' = "none" /\ V \in Stacks
    BY DEF IInv, TypeOK
  <1>2. run # <<>> => run[1].who # "alarm"
    BY <1>1 DEF IInv, WhoRuns, Runs
  <1>3. ctbuf' \in Tokens /\ ctbuf'.end = "finished"
    BY DEF Tokens
  <1>4. overtaken' \in BOOLEAN /\ (overtaken => overtaken')
    BY DEF IInv, TypeOK
  <1>5. TypeOK'
    BY <1>1, <1>3, <1>4 DEF IInv, TypeOK
  <1>6. AnswersKept'
    BY <1>1 DEF IInv, AnswersKept, Depth, RunsAnswer
  <1>7. StacksLevel'
    BY <1>1, <1>4 DEF IInv, StacksLevel
  <1>8. WhoRuns' /\ HostInStep'
    BY <1>1, <1>2, <1>4 DEF IInv, WhoRuns, HostInStep
  <1>9. TokenKept'
    <2> SUFFICES ASSUME ~overtaken'
                 PROVE  /\ lwip_stacks.depth = 0 \/ ctbuf.end = "finished"
                        /\ run # <<>> /\ run[1].who # "main" => ctbuf.end = "finished"
      BY <1>1, <1>3, <1>4 DEF IInv, TokenKept, TypeOK, Stacks
    <2>1. ~(Live /\ "finished" # ctbuf.end)
      OBVIOUS
    <2>2. lwip_stacks.depth \in Nat
      BY BoundsPositive DEF IInv, TypeOK, Stacks
    <2>3. QED
      BY <2>1, <2>2 DEF Live
  <1>10. QED
    BY <1>1, <1>5, <1>6, <1>7, <1>8, <1>9 DEF IInv

\* A request: the answer to it begins on the stacks that other answers wait on.
LEMMA RecvInv ==
  ASSUME IInv, NEW c \in Conns, NEW pieces \in 0..Pieces, recv_cb(c, pieces)
  PROVE  IInv'
  <1> USE BoundsPositive DEF recv_cb, Idle, Ctbuf, host
  <1>1. /\ run = <<>> /\ slip = "none" /\ slip' = "none" /\ Waits(V) /\ V \in Stacks
        /\ main # "runs" /\ lwip_stacks \in Stacks /\ lwip_stacks.depth < Slots
        /\ lwip_stacks.of = "lwip" /\ lwip_stacks.depth \in Nat
    BY DEF IInv, TypeOK, WhoRuns, Stacks
  <1> DEFINE r == [who |-> "receiver", at |-> "ctbuf", on |-> lwip_stacks,
                   answer |-> [to |-> c, left |-> pieces]]
  <1>2. run' = <<r>> /\ r \in Call /\ r.answer.to = c
    BY <1>1 DEF Call, Answer
  <1>3. /\ run' \in Seq(Call) /\ Len(run') = 1 /\ run' # <<>> /\ run'[1] = r
        /\ run'[1].who = "receiver" /\ run'[1].on = lwip_stacks /\ run'[1].answer.to = c
    BY <1>2
  <1>4. ctbuf' \in Tokens /\ ctbuf'.end = "finished-pop"
    BY DEF Tokens
  <1>5. overtaken' = (overtaken \/ (lwip_stacks.depth > 0 /\ "finished-pop" # ctbuf.end))
    BY <1>1 DEF Live
  <1>6. /\ \A a \in Conns : answering[a] = Cardinality(Here(waiting, lwip_stacks.depth, a))
        /\ answering \in [Conns -> 0..Slots]
    <2>1. Depth = lwip_stacks.depth /\ ~RunsAnswer
      BY <1>1 DEF Depth, RunsAnswer
    <2>2. \A a \in Conns : answering[a] = Cardinality(Here(waiting, lwip_stacks.depth, a)) + 0
      BY <1>1, <2>1, AnswersCounted DEF IInv
    <2>3. QED
      BY <1>1, <2>2, HereFinite DEF IInv, TypeOK
  <1>7. answering[c] + 1 \in 0..Slots
    BY <1>1, <1>6, HereFinite
  <1>8. TypeOK'
    <2>1. answering' \in [Conns -> 0..Slots]
      BY <1>6, <1>7
    <2>2. overlapped' \subseteq Conns
      BY DEF IInv, TypeOK
    <2>3. V' = lwip_stacks /\ lwip_stacks_save' = V
      OBVIOUS
    <2>4. QED
      BY <1>1, <1>3, <1>4, <1>5, <2>1, <2>2, <2>3 DEF IInv, TypeOK
  <1>9. AnswersKept'
    <2>1. Depth' = lwip_stacks.depth /\ RunsAnswer'
      BY <1>3 DEF Depth, RunsAnswer
    <2>2. \A a \in Conns : Cardinality(Here(waiting', Depth', a)) = answering[a]
      BY <1>6, <2>1
    <2>3. \A a \in Conns : answering'[a] = answering[a] + IF c = a THEN 1 ELSE 0
      BY <1>6
    <2>4. \A a \in Conns : answering'[a] = Cardinality(Here(waiting', Depth', a))
                              + IF RunsAnswer' /\ run'[1].answer.to = a THEN 1 ELSE 0
      BY <1>3, <2>1, <2>2, <2>3
    <2>5. QED
      BY <2>4 DEF AnswersKept, Here
  <1>10. StacksLevel'
    BY <1>1, <1>5 DEF IInv, StacksLevel
  <1>11. WhoRuns' /\ HostInStep'
    <2>1. ~overtaken' => lwip_stacks.extra = 0
      BY <1>1, <1>5 DEF IInv, StacksLevel
    <2>2. QED
      BY <1>1, <1>3, <2>1 DEF IInv, WhoRuns, Waits, HostInStep
  <1>12. TokenKept'
    BY <1>1, <1>3, <1>4, <1>5 DEF IInv, TokenKept
  <1>13. QED
    BY <1>1, <1>8, <1>9, <1>10, <1>11, <1>12 DEF IInv

\* Segments are acknowledged: the answer on top goes on.
LEMMA SentInv ==
  ASSUME IInv, NEW c \in Conns, NEW n \in 1..SndBuf, continuation_cb(c, n)
  PROVE  IInv'
  <1> USE BoundsPositive DEF continuation_cb, Idle, host
  <1>1. /\ run = <<>> /\ slip = "none" /\ Waits(V) /\ V \in Stacks
        /\ main # "runs" /\ lwip_stacks \in Stacks /\ lwip_stacks.of = "lwip"
        /\ lwip_stacks.depth \in 0..Slots
    BY DEF IInv, TypeOK, WhoRuns, Stacks
  <1>2. unsent' \in [Conns -> 0..SndBuf]
    <2>1. unsent \in [Conns -> 0..SndBuf] /\ n <= unsent[c]
      BY DEF IInv, TypeOK
    <2>2. unsent[c] - n \in 0..SndBuf
      BY <2>1
    <2>3. QED
      BY <2>1, <2>2
  <1>3. CASE lwip_stacks.depth = 0
    <2>1. slip' = "stray" /\ run' = run /\ rx_pcb' = rx_pcb
      BY <1>3
    <2>2. TypeOK'
      BY <1>1, <1>2, <2>1 DEF IInv, TypeOK
    <2>3. QED
      BY <1>1, <2>1, <2>2 DEF IInv, StacksLevel, AnswersKept
  <1>4. CASE lwip_stacks.depth # 0
    <2> DEFINE d == lwip_stacks.depth - 1
    <2>1. d \in 0..Slots /\ d < Slots /\ d + 1 = lwip_stacks.depth /\ d + 1 \in 1..Slots /\ d \in Nat
      BY <1>1, <1>4
    <2>2. PICK on \in Stacks : /\ on = [lwip_stacks EXCEPT !.depth = d]
                               /\ on.of = "lwip" /\ on.depth = d /\ on.extra = lwip_stacks.extra
      BY <1>1, <2>1, StacksTyped
    <2>3. waiting[d + 1] \in Answer
      BY <2>1 DEF IInv, TypeOK
    <2> DEFINE r == [who |-> "receiver", at |-> "word", on |-> on, answer |-> waiting[d + 1]]
    <2>4. run' = <<r>> /\ rx_pcb' = c /\ slip' = "none"
      BY <1>1, <1>4, <2>1, <2>2
    <2>5. /\ run' \in Seq(Call) /\ Len(run') = 1 /\ run' # <<>> /\ run'[1].who = "receiver"
          /\ run'[1].on = on /\ run'[1].answer.to = waiting[d + 1].to
      BY <2>2, <2>3, <2>4 DEF Call
    <2>6. TypeOK'
      BY <1>1, <1>2, <2>4, <2>5 DEF IInv, TypeOK
    <2>7. AnswersKept'
      <3>1. Depth = d + 1 /\ ~RunsAnswer /\ Depth' = d /\ RunsAnswer'
        BY <1>1, <2>1, <2>2, <2>5 DEF Depth, RunsAnswer
      <3>2. \A a \in Conns : answering[a] = Cardinality(Here(waiting, d + 1, a)) + 0
        BY <1>1, <3>1, AnswersCounted DEF IInv
      <3>3. \A a \in Conns : Cardinality(Here(waiting, d + 1, a)) = Cardinality(Here(waiting, d, a))
                                + IF waiting[d + 1].to = a THEN 1 ELSE 0
        BY <2>1, HereGrows
      <3>4. \A a \in Conns : answering'[a] = Cardinality(Here(waiting', d, a))
                                + IF RunsAnswer' /\ run'[1].answer.to = a THEN 1 ELSE 0
        BY <2>1, <2>5, <3>1, <3>2, <3>3, HereFinite
      <3>5. QED
        BY <3>1, <3>4 DEF AnswersKept, Here
    <2>8. StacksLevel'
      BY <1>1 DEF IInv, StacksLevel
    <2>9. WhoRuns' /\ HostInStep'
      <3>1. ~overtaken' => on.extra = 0
        BY <1>1, <2>2 DEF IInv, StacksLevel
      <3>2. QED
        BY <1>1, <2>1, <2>2, <2>5, <3>1 DEF IInv, WhoRuns, Waits, HostInStep
    <2>10. TokenKept'
      BY <1>1, <2>1, <2>5 DEF IInv, TokenKept
    <2>11. QED
      BY <1>1, <2>4, <2>6, <2>7, <2>8, <2>9, <2>10 DEF IInv
  <1>5. QED
    BY <1>3, <1>4
-----------------------------------------------------------------------------
\* What callbacks do.

\* A receiver that runs, and the answers below it.
LEMMA ReceiverRuns ==
  ASSUME IInv, run # <<>>, run[1].who = "receiver", slip = "none"
  PROVE  /\ run[1].on \in Stacks /\ run[1].on.depth \in Nat /\ run[1].on.depth < Slots
         /\ run[1].on.of = "lwip" /\ (~overtaken => run[1].on.extra = 0)
         /\ run[1].answer \in Answer /\ run[1].answer.to \in Conns
         /\ Waits(lwip_stacks_save) /\ lwip_stacks_save \in Stacks /\ main # "runs"
         /\ \A a \in Conns :
              answering[a] = Cardinality(Here(waiting, run[1].on.depth, a))
                               + IF run[1].answer.to = a THEN 1 ELSE 0
  <1>1. run[1] \in [who : {"receiver"}, at : {"ctbuf", "word"}, on : Stacks, answer : Answer]
    BY OneCall DEF IInv, Call
  <1>2. run[1].on \in Stacks /\ run[1].answer \in Answer /\ run[1].answer.to \in Conns
    BY <1>1 DEF Answer
  <1>3. run[1].on.depth \in Nat
    BY <1>2, BoundsPositive DEF Stacks
  <1>4. /\ main # "runs" /\ Waits(lwip_stacks_save)
        /\ run[1].on.of = "lwip" /\ run[1].on.depth < Slots
        /\ ~overtaken => run[1].on.extra = 0
    BY DEF IInv, WhoRuns
  <1>5. RunsAnswer /\ Depth = run[1].on.depth
    BY DEF RunsAnswer, Depth
  <1>6. QED
    BY <1>2, <1>3, <1>4, <1>5, AnswersCounted DEF IInv, TypeOK

\* The first token: the call goes on, or has been given the wrong word.
LEMMA FetchInv ==
  ASSUME IInv, Fetch
  PROVE  IInv'
  <1> USE DEF Fetch, stacks, host, net
  <1>1. slip = "none" /\ run # <<>> /\ run[1] \in Call /\ run = <<run[1]>>
    BY OneCall DEF IInv
  <1> DEFINE r == [run[1] EXCEPT !.at = "word"]
  <1>2. run' = <<r>>
    BY <1>1
  <1>3. /\ r \in Call /\ r.who = run[1].who /\ r.on = run[1].on /\ r.at = "word"
        /\ run[1].who = "receiver" => r.answer = run[1].answer
    BY <1>1 DEF Call
  <1>4. /\ run' \in Seq(Call) /\ Len(run') = 1 /\ run' # <<>> /\ run'[1].who = run[1].who
        /\ run'[1].on = run[1].on /\ run'[1].at = "word"
        /\ run[1].who = "receiver" => run'[1].answer = run[1].answer
    <2> HIDE DEF r
    <2>1. run'[1] = r /\ run' # <<>> /\ Len(run') = 1
      BY <1>2
    <2>2. run' \in Seq(Call)
      <3>1. <<r>> \in Seq(Call)
        BY <1>3
      <3>2. QED
        BY <1>2, <3>1
    <2>3. QED
      BY <1>3, <2>1, <2>2
  <1>5. TypeOK'
    BY <1>1, <1>4 DEF IInv, TypeOK
  <1>6. AnswersKept'
    <2>1. Depth' = Depth /\ (RunsAnswer' <=> RunsAnswer)
      BY <1>1, <1>4 DEF Depth, RunsAnswer
    <2>2. RunsAnswer => run'[1].answer.to = run[1].answer.to
      BY <1>4 DEF RunsAnswer
    <2>3. QED
      BY <1>1, <2>1, <2>2, SameAnswers DEF IInv
  <1>7. StacksLevel'
    BY <1>1 DEF IInv, StacksLevel
  <1>8. HostInStep' /\ TokenKept'
    BY <1>1, <1>4 DEF IInv, HostInStep, TokenKept
  <1>9. WhoRuns'
    BY <1>1, <1>4 DEF IInv, WhoRuns
  <1>10. QED
    BY <1>1, <1>5, <1>6, <1>7, <1>8, <1>9 DEF IInv

\* The token behind the word keeps the stacks and where they are, and their cells when it
\* takes as many as were left.
LEMMA EndedFacts ==
  ASSUME IInv, NEW on \in Stacks, NEW results \in 0..1
  PROVE  /\ Ended(on, results) \in Stacks /\ Ended(on, results).of = on.of
         /\ Ended(on, results).depth = on.depth
         /\ on.extra = 0 /\ results = (IF ctbuf.end = "finished-pop" THEN 1 ELSE 0)
              => Ended(on, results).extra = 0
  <1> USE BoundsPositive
  <1> DEFINE popped == IF ctbuf.end = "finished-pop" THEN 1 ELSE 0
             extra == on.extra + results - popped
             x == IF extra > Excess THEN Excess ELSE IF extra < -Excess THEN -Excess ELSE extra
  <1>1. on.extra \in Int
    BY DEF Stacks
  <1>2. x \in -Excess..Excess /\ (on.extra = 0 /\ results = popped => x = 0)
    BY <1>1
  <1>3. Ended(on, results) = [on EXCEPT !.extra = x]
    BY DEF Ended
  <1> HIDE DEF x
  <1>4. QED
    BY <1>2, <1>3 DEF Stacks

LEMMA EndHereInv ==
  ASSUME IInv, NEW who \in {"timer", "connect"},
         EndHere(who, IF who = "timer" THEN 0 ELSE 1)
  PROVE  IInv'
  <1> USE DEF EndHere, Runs, stacks, host, net
  <1> DEFINE n == IF who = "timer" THEN 0 ELSE 1
  <1>1. /\ slip = "none" /\ slip' = "none" /\ run # <<>> /\ run[1].who = who /\ run' = <<>>
        /\ main # "runs" /\ Waits(V) /\ run[1].on = V /\ V \in Stacks
    BY DEF IInv, WhoRuns, TypeOK
  <1>2. V' = Ended(V, n) /\ n \in 0..1
    BY <1>1
  <1>3. /\ V' \in Stacks /\ V'.of = V.of /\ V'.depth = V.depth
        /\ V.extra = 0 /\ n = (IF ctbuf.end = "finished-pop" THEN 1 ELSE 0) => V'.extra = 0
    BY <1>1, <1>2, EndedFacts
  <1>4. TypeOK'
    BY <1>1, <1>3 DEF IInv, TypeOK
  <1>5. AnswersKept'
    BY <1>1, NoAnswerRuns DEF IInv, RunsAnswer
  <1>6. StacksLevel'
    <2>1. ~overtaken => V.extra = 0 /\ n = (IF ctbuf.end = "finished-pop" THEN 1 ELSE 0)
      BY <1>1 DEF IInv, StacksLevel, TokenKept
    <2>2. QED
      BY <1>1, <1>3, <2>1 DEF IInv, StacksLevel
  <1>7. WhoRuns' /\ HostInStep' /\ TokenKept'
    BY <1>1, <1>3 DEF IInv, WhoRuns, Waits, HostInStep, TokenKept
  <1>8. QED
    BY <1>1, <1>4, <1>5, <1>6, <1>7 DEF IInv

LEMMA EndAlarmInv ==
  ASSUME IInv, EndAlarm
  PROVE  IInv'
  <1> USE DEF EndAlarm, Runs, stacks, host, net
  <1>1. /\ slip = "none" /\ slip' = "none" /\ run # <<>> /\ run[1].who = "alarm" /\ run' = <<>>
        /\ main # "runs" /\ Waits(alarm_stacks_save) /\ V' = alarm_stacks_save
    BY DEF IInv, WhoRuns
  <1>2. TypeOK'
    BY <1>1 DEF IInv, TypeOK
  <1>3. AnswersKept'
    BY <1>1, NoAnswerRuns DEF IInv, RunsAnswer
  <1>4. StacksLevel'
    BY <1>1 DEF IInv, StacksLevel
  <1>5. WhoRuns' /\ HostInStep' /\ TokenKept'
    BY <1>1 DEF IInv, WhoRuns, Waits, HostInStep, TokenKept
  <1>6. QED
    BY <1>1, <1>2, <1>3, <1>4, <1>5 DEF IInv

\* An answer goes to wait: in the first place that no other one waits in.
LEMMA WriteInv ==
  ASSUME IInv, tcp_write_wait
  PROVE  IInv'
  <1> USE BoundsPositive DEF tcp_write_wait, RestoreStacks, Runs, host
  <1>1. slip = "none" /\ run # <<>> /\ run[1].who = "receiver"
    OBVIOUS
  <1> DEFINE d == run[1].on.depth
             answer == run[1].answer
             rest == [answer EXCEPT !.left = @ - 1]
  <1>2. /\ run[1].on \in Stacks /\ d \in Nat /\ d < Slots /\ run[1].on.of = "lwip"
        /\ ~overtaken => run[1].on.extra = 0
        /\ answer \in Answer /\ answer.to \in Conns
        /\ Waits(lwip_stacks_save) /\ lwip_stacks_save \in Stacks /\ main # "runs"
        /\ \A a \in Conns : answering[a] = Cardinality(Here(waiting, d, a))
                                              + IF answer.to = a THEN 1 ELSE 0
    BY <1>1, ReceiverRuns
  <1>3. d + 1 \in 1..Slots /\ d + 1 \in 0..Slots
    BY <1>2
  <1>4. rest \in Answer /\ rest.to = answer.to
    BY <1>2 DEF Answer
  <1>5. /\ waiting' = [waiting EXCEPT ![d + 1] = rest] /\ waiting \in [1..Slots -> Answer]
        /\ V' = lwip_stacks_save /\ run' = <<>> /\ slip' \in {"none", "crossed"}
        /\ lwip_stacks' = [run[1].on EXCEPT !.depth = d + 1]
        /\ UNCHANGED <<main, ctbuf, input_wait, delay, rx_pcb, answering, overlapped, overtaken,
                       alarm_stacks_save, lwip_stacks_save>>
    BY DEF IInv, TypeOK
  <1>6. /\ waiting' \in [1..Slots -> Answer] /\ waiting'[d + 1].to = answer.to
        /\ \A i \in 1..d : waiting'[i] = waiting[i]
    BY <1>2, <1>3, <1>4, <1>5
  <1>7. /\ lwip_stacks' \in Stacks /\ lwip_stacks'.of = "lwip" /\ lwip_stacks'.depth = d + 1
        /\ lwip_stacks'.extra = run[1].on.extra
    BY <1>2, <1>3, <1>5, StacksTyped
  <1> HIDE DEF d, answer, rest, tcp_write_wait, RestoreStacks, Runs
  <1>8. TypeOK'
    <2>1. unsent' \in [Conns -> 0..SndBuf]
      BY DEF tcp_write_wait, tcp_send, IInv, TypeOK
    <2>2. run' \in Seq(Call) /\ Len(run') <= 1
      BY <1>5
    <2>3. QED
      BY <1>2, <1>5, <1>6, <1>7, <2>1, <2>2 DEF IInv, TypeOK
  <1>9. AnswersKept'
    <2>1. Depth' = d + 1 /\ ~RunsAnswer'
      BY <1>5, <1>7 DEF Depth, RunsAnswer
    <2>2. ASSUME NEW a \in Conns
          PROVE  answering'[a] = Cardinality(Here(waiting', d + 1, a)) + 0
      <3>1. Here(waiting', d, a) = Here(waiting, d, a)
        BY <1>6 DEF Here
      <3>2. Cardinality(Here(waiting', d + 1, a))
              = Cardinality(Here(waiting, d, a)) + IF answer.to = a THEN 1 ELSE 0
        BY <1>2, <1>6, <3>1, HereGrows
      <3>3. Cardinality(Here(waiting', d + 1, a)) \in 0..(d + 1)
        BY <1>2, HereFinite
      <3>4. QED
        BY <1>2, <1>5, <3>2, <3>3
    <2>3. QED
      BY <2>1, <2>2 DEF AnswersKept, Here
  <1>10. StacksLevel'
    BY <1>1, <1>2, <1>5, <1>7 DEF IInv, StacksLevel
  <1>11. HostInStep' /\ WhoRuns'
    BY <1>1, <1>2, <1>5 DEF IInv, HostInStep, WhoRuns
  <1>12. TokenKept'
    BY <1>1, <1>5 DEF IInv, TokenKept
  <1>13. QED
    BY <1>5, <1>7, <1>8, <1>9, <1>10, <1>11, <1>12 DEF IInv

\* An answer is finished.
LEMMA EndReceiverInv ==
  ASSUME IInv, EndReceiver
  PROVE  IInv'
  <1> USE BoundsPositive DEF EndReceiver, RestoreStacks, Runs, host
  <1>1. slip = "none" /\ run # <<>> /\ run[1].who = "receiver"
    OBVIOUS
  <1> DEFINE d == run[1].on.depth
             c == run[1].answer.to
  <1>2. /\ run[1].on \in Stacks /\ d \in Nat /\ d < Slots /\ run[1].on.of = "lwip"
        /\ ~overtaken => run[1].on.extra = 0
        /\ c \in Conns
        /\ Waits(lwip_stacks_save) /\ lwip_stacks_save \in Stacks /\ main # "runs"
        /\ \A a \in Conns : answering[a] = Cardinality(Here(waiting, d, a))
                                              + IF c = a THEN 1 ELSE 0
    BY <1>1, ReceiverRuns
  <1>3. /\ V' = lwip_stacks_save /\ run' = <<>> /\ slip' \in {"none", "crossed"}
        /\ lwip_stacks' = Ended(run[1].on, 1) /\ overtaken' = overtaken /\ ctbuf' = ctbuf
        /\ answering' = [answering EXCEPT ![c] = @ - 1] /\ waiting' = waiting
        /\ answering \in [Conns -> 0..Slots]
    BY DEF IInv, TypeOK
  <1>4. /\ lwip_stacks' \in Stacks /\ lwip_stacks'.of = "lwip" /\ lwip_stacks'.depth = d
        /\ run[1].on.extra = 0 /\ ctbuf.end = "finished-pop" => lwip_stacks'.extra = 0
    BY <1>2, <1>3, EndedFacts
  <1> HIDE DEF d, c
  <1>5. \A a \in Conns : answering'[a] = Cardinality(Here(waiting, d, a))
    BY <1>2, <1>3, HereFinite
  <1>6. TypeOK'
    <2>1. answering' \in [Conns -> 0..Slots]
      <3>1. answering[c] - 1 \in 0..Slots
        BY <1>2, <1>3, <1>5, HereFinite
      <3>2. QED
        BY <1>3, <3>1
    <2>2. run' \in Seq(Call) /\ Len(run') <= 1
      BY <1>3
    <2>3. QED
      BY <1>2, <1>3, <1>4, <2>1, <2>2 DEF IInv, TypeOK
  <1>7. AnswersKept'
    <2>1. Depth' = d /\ ~RunsAnswer'
      BY <1>3, <1>4 DEF Depth, RunsAnswer
    <2>2. \A a \in Conns : answering'[a] = Cardinality(Here(waiting', d, a)) + 0
      BY <1>2, <1>3, <1>5, HereFinite
    <2>3. QED
      BY <2>1, <2>2 DEF AnswersKept, Here
  <1>8. ~overtaken => ctbuf.end = "finished-pop"
    BY <1>1 DEF IInv, TokenKept
  <1>9. StacksLevel'
    BY <1>1, <1>2, <1>3, <1>4, <1>8 DEF IInv, StacksLevel
  <1>10. HostInStep' /\ WhoRuns' /\ TokenKept'
    BY <1>1, <1>2, <1>3, <1>8 DEF IInv, HostInStep, WhoRuns, TokenKept
  <1>11. QED
    BY <1>3, <1>4, <1>6, <1>7, <1>9, <1>10 DEF IInv
-----------------------------------------------------------------------------
LEMMA StepInv ==
  ASSUME IInv, [Next]_vars
  PROVE  IInv'
  <1>1. CASE Foreground
    BY <1>1, ForegroundInv
  <1>2. CASE lua_handle_input \/ delay_callback
    BY <1>2, HostInv
  <1>3. CASE timer_callback
    BY <1>3, OnForegroundInv DEF timer_callback
  <1>4. CASE connect_cb
    BY <1>4, OnForegroundInv DEF connect_cb
  <1>5. CASE alarm_callback
    BY <1>5, AlarmInv
  <1>6. CASE gpio_callback
    BY <1>6, GpioInv
  <1>7. CASE \E c \in Conns, n \in 0..Pieces : recv_cb(c, n)
    BY <1>7, RecvInv
  <1>8. CASE Callback
    <2>1. CASE EndTimer
      BY <2>1, EndHereInv DEF EndTimer
    <2>2. CASE EndConnect
      BY <2>2, EndHereInv DEF EndConnect
    <2>3. QED
      BY <1>8, <2>1, <2>2, FetchInv, EndAlarmInv, EndReceiverInv, WriteInv DEF Callback
  <1>9. CASE \E c \in Conns : Sent(c)
    BY <1>9, SentInv DEF Sent
  <1>10. CASE UNCHANGED vars
    BY <1>10 DEF vars, IInv, TypeOK, StacksLevel, AnswersKept, Depth, RunsAnswer, HostInStep,
                 WhoRuns, TokenKept, Waits
  <1>11. QED
    BY <1>1, <1>2, <1>3, <1>4, <1>5, <1>6, <1>7, <1>8, <1>9, <1>10 DEF Next

\* What the foreground left is what it finds.
LEMMA InvKeepsForeground ==
  ASSUME IInv
  PROVE  ForegroundKept
  <1>1. slip # "lost"
    BY DEF IInv
  <1>2. ASSUME slip = "none" PROVE HostWaits
    BY <1>2 DEF IInv, HostInStep, HostWaits, TypeOK
  <1>3. ASSUME slip = "none", main # "runs" PROVE Home.of = "main" /\ Home.depth = 1
    <2>1. run # <<>> => run[1] \in Call
      BY OneCall DEF IInv
    <2>2. QED
      BY <1>3, <2>1 DEF IInv, WhoRuns, Waits, Home, Call
  <1>4. QED
    BY <1>1, <1>2, <1>3 DEF ForegroundKept

\* Who is on which stacks, and what is kept where meanwhile, holds in all behaviours, for any
\* connections and bounds (switch_stacks, continuation_cb).
THEOREM Reenters == Spec => []IInv
  <1>1. Init => IInv
    BY InitInv
  <1>2. IInv /\ [Next]_vars => IInv'
    BY StepInv
  <1>3. QED
    BY <1>1, <1>2, PTL DEF Spec

\* Every variable keeps its type; none of the bounds on the stacks is passed (forth.c,
\* app/esp8266/interface.c).
THEOREM TypeCorrect == Spec => []TypeOK
  <1>1. IInv => TypeOK
    BY DEF IInv
  <1>2. QED
    BY <1>1, Reenters, PTL

\* Whatever calls Forth while the foreground waits, and however the calls follow each other,
\* the foreground goes on where it was, and the host waits for what it waits for.
THEOREM KeepsForeground == Spec => []ForegroundKept
  <1>1. IInv => ForegroundKept
    BY InvKeepsForeground
  <1>2. QED
    BY <1>1, Reenters, PTL

\* No callback leaves a cell on a data stack or takes one, unless ctbuf was written by
\* another one while it needed it.
THEOREM KeepsStacksLevel == Spec => []StacksLevel
  <1>1. IInv => StacksLevel
    BY DEF IInv
  <1>2. QED
    BY <1>1, Reenters, PTL

\* Each answer that has begun is on the lwip stack once, or runs: none is lost and none is
\* taken twice, however many there are and on however many connections.
THEOREM KeepsAnswers == Spec => []AnswersKept
  <1>1. IInv => AnswersKept
    BY DEF IInv
  <1>2. QED
    BY <1>1, Reenters, PTL
=============================================================================
