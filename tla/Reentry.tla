------------------------------- MODULE Reentry -------------------------------
(***************************************************************************)
(* Forth in an event loop (forth.c with app/esp8266).  The foreground      *)
(* program returns to the host whenever it waits, leaving its stacks as    *)
(* they are, and goes on in a later call; timers, alarms, pins and the     *)
(* network call Forth in between, on its stacks or on others, and the      *)
(* answer to a request waits in the middle of a callback until its data    *)
(* have been delivered (continuation).  All entries use one ctbuf.         *)
(***************************************************************************)
EXTENDS Integers, Sequences, FiniteSets

CONSTANTS Conns,   \* TCP connections
          Pieces,  \* most pieces in an answer
          Segs,    \* segments that a piece is sent in
          SndBuf,  \* segments that the network holds for a connection
          Slots,   \* bound on the answers that wait at a time
          Excess   \* bound on the cells left over on a data stack

ASSUME ReentryAssumption == /\ {Pieces, Segs, SndBuf, Slots, Excess} \subseteq Nat \ {0}
                            /\ Conns # {}

VARIABLES main,        \* what the foreground waits for, at the bottom of its stack
          waiting,     \* the answers that wait on the return stack of lwip_stacks
          V,           \* XRP and XSP: whose stack, its depth, and the data cells on it that
                       \* belong to no one
          alarm_stacks_save, lwip_stacks_save, lwip_stacks,
          run,         \* the calls of inner_interpreter that have not returned, but for those
                       \* from gpio_callback
          ctbuf,       \* the word to run, and the token behind it
          input_wait, delay, \* what the host waits for
          rx_pcb,      \* the connection that tcp-write-wait writes to
          unsent,      \* segments not yet acknowledged
          answering,   \* history: answers begun on each connection and not finished
          overlapped,  \* history: connections with two answers at a time
          overtaken,   \* history: ctbuf was written while a callback needed it
          slip         \* history: what has gone wrong, and the behaviour ends

vars == <<main, waiting, V, alarm_stacks_save, lwip_stacks_save, lwip_stacks, run, ctbuf,
          input_wait, delay, rx_pcb, unsent, answering, overlapped, overtaken, slip>>

host == <<input_wait, delay>>
net == <<rx_pcb, unsent, answering, overlapped>>
stacks == <<alarm_stacks_save, lwip_stacks_save, lwip_stacks>>

Stacks == [of : {"main", "alarm", "lwip"}, depth : 0..Slots, extra : -Excess..Excess]
Answer == [to : Conns, left : 0..Pieces]
Tokens == [xt : {"app", "alarm", "timer", "connect", "receiver", "gpio"},
           end : {"finished", "finished-pop"}]
Call == [who : {"main", "alarm", "timer", "connect"}, at : {"ctbuf", "word"}, on : Stacks]
        \union [who : {"receiver"}, at : {"ctbuf", "word"}, on : Stacks, answer : Answer]

TypeOK ==
  /\ main \in {"runs", "key", "accept", "rest"}
  /\ waiting \in [1..Slots -> Answer]
  /\ {V, alarm_stacks_save, lwip_stacks_save, lwip_stacks} \subseteq Stacks
  /\ run \in Seq(Call) /\ Len(run) <= 1
  /\ ctbuf \in Tokens
  /\ input_wait \in {"none", "key", "accept"} /\ delay \in BOOLEAN
  /\ rx_pcb \in Conns
  /\ unsent \in [Conns -> 0..SndBuf]
  /\ answering \in [Conns -> 0..Slots]
  /\ overlapped \subseteq Conns /\ overtaken \in BOOLEAN
  /\ slip \in {"none", "ctbuf", "crossed", "stray", "lost"}

At(of, depth) == [of |-> of, depth |-> depth, extra |-> 0]
Calls(who, on) == [who |-> who, at |-> "ctbuf", on |-> on]
Goes(who, on) == [Calls(who, on) EXCEPT !.at = "word"]

\* execute_word("app") has been called and runs.
Init == /\ main = "runs"
        /\ waiting = [i \in 1..Slots |-> [to |-> CHOOSE c \in Conns : TRUE, left |-> 0]]
        /\ V = At("main", 1)
        /\ alarm_stacks_save = V /\ lwip_stacks_save = V /\ lwip_stacks = At("lwip", 0)
        /\ run = <<Goes("main", At("main", 0))>>
        /\ ctbuf = [xt |-> "app", end |-> "finished"]
        /\ input_wait = "none" /\ delay = FALSE
        /\ rx_pcb = waiting[1].to
        /\ unsent = [c \in Conns |-> 0] /\ answering = [c \in Conns |-> 0]
        /\ overlapped = {} /\ overtaken = FALSE /\ slip = "none"

Idle == run = <<>> /\ slip = "none"
Runs(who) == run # <<>> /\ run[1].who = who /\ run[1].at = "word" /\ slip = "none"

-----------------------------------------------------------------------------
(***************************************************************************)
(* The foreground: key, sys-accept and rest leave the inner interpreter    *)
(* through `out`, and the host calls it again.                             *)
(***************************************************************************)
Out(why) == /\ Runs("main")
            /\ main' = why
            /\ V' = [run[1].on EXCEPT !.depth = @ + 1]
            /\ run' = <<>>
            /\ UNCHANGED <<waiting, stacks, ctbuf, net, overtaken, slip>>

Key == Out("key") /\ input_wait' = "key" /\ UNCHANGED delay
Accept == Out("accept") /\ input_wait' = "accept" /\ UNCHANGED delay
Ms == Out("rest") /\ delay' = TRUE /\ UNCHANGED input_wait

\* inner_interpreter, for what waits on the current stacks.
Resume(why) == /\ Idle
               /\ run' = <<Goes("main", [V EXCEPT !.depth = @ - 1])>>
               /\ main' = "runs"
               /\ slip' = IF V.of = "main" /\ main = why THEN "none" ELSE "lost"
               /\ UNCHANGED <<waiting, V, stacks, ctbuf, net, overtaken>>

lua_handle_input == /\ input_wait # "none"
                    /\ Resume(input_wait)
                    /\ input_wait' = "none" /\ UNCHANGED delay

delay_callback == delay /\ Resume("rest") /\ delay' = FALSE /\ UNCHANGED input_wait

-----------------------------------------------------------------------------
(***************************************************************************)
(* Callbacks.                                                              *)
(***************************************************************************)

\* A callback that has yet to come to the second token of ctbuf.
Live == lwip_stacks.depth > 0 \/ (run # <<>> /\ run[1].who # "main")

Ctbuf(xt, end) == /\ ctbuf' = [xt |-> xt, end |-> end]
                  /\ overtaken' = (overtaken \/ (Live /\ end # ctbuf.end))

\* timer_callback and connect_cb run on the stacks of the foreground.
timer_callback == /\ Idle
                  /\ Ctbuf("timer", "finished")
                  /\ run' = <<Calls("timer", V)>>
                  /\ UNCHANGED <<main, waiting, V, stacks, host, net, slip>>

connect_cbKeepsResult == /\ Idle
                         /\ Ctbuf("connect", "finished")
                         /\ run' = <<Calls("connect", V)>>
                         /\ UNCHANGED <<main, waiting, V, stacks, host, net, slip>>

connect_cb == /\ Idle
              /\ Ctbuf("connect", "finished-pop")
              /\ run' = <<Calls("connect", V)>>
              /\ UNCHANGED <<main, waiting, V, stacks, host, net, slip>>

alarm_callback == /\ Idle
                  /\ Ctbuf("alarm", "finished")
                  /\ alarm_stacks_save' = V /\ V' = At("alarm", 0)
                  /\ run' = <<Goes("alarm", V')>>
                  /\ UNCHANGED <<main, waiting, lwip_stacks_save, lwip_stacks, host, net, slip>>

gpio_callbackAnyTime ==
  /\ slip = "none"
  /\ Ctbuf("gpio", "finished")
  /\ alarm_stacks_save' = V
  /\ UNCHANGED <<main, waiting, V, lwip_stacks_save, lwip_stacks, run, host, net, slip>>

\* An interrupt at any moment, but not within an alarm callback or another interrupt.
gpio_callback ==
  /\ slip = "none" /\ ~Runs("alarm")
  /\ Ctbuf("gpio", "finished")
  /\ alarm_stacks_save' = V                  \* and back
  /\ UNCHANGED <<main, waiting, V, lwip_stacks_save, lwip_stacks, run, host, net, slip>>

\* A request, which the word `receiver` answers in some pieces.
recv_cb(c, pieces) ==
  /\ Idle /\ lwip_stacks.depth < Slots
  /\ Ctbuf("receiver", "finished-pop")
  /\ lwip_stacks_save' = V /\ V' = lwip_stacks
  /\ run' = <<[who |-> "receiver", at |-> "ctbuf", on |-> V',
               answer |-> [to |-> c, left |-> pieces]]>>
  /\ rx_pcb' = c /\ answering' = [answering EXCEPT ![c] = @ + 1]
  /\ overlapped' = IF answering[c] > 0 THEN overlapped \union {c} ELSE overlapped
  /\ UNCHANGED <<main, waiting, alarm_stacks_save, lwip_stacks, host, unsent, slip>>

\* inner_interpreter takes its first token from ctbuf.
Fetch == /\ slip = "none" /\ run # <<>> /\ run[1].at = "ctbuf"
         /\ run' = [run EXCEPT ![1].at = "word"]
         /\ slip' = IF ctbuf.xt = run[1].who THEN "none" ELSE "ctbuf"
         /\ UNCHANGED <<main, waiting, V, stacks, ctbuf, host, net, overtaken>>

\* The token behind the word: finished keeps a result that is there, finished-pop takes
\* a cell that may not be.
Ended(on, results) ==
  LET popped == IF ctbuf.end = "finished-pop" THEN 1 ELSE 0
      extra == on.extra + results - popped
  IN [on EXCEPT !.extra = IF extra > Excess THEN Excess ELSE IF extra < -Excess THEN -Excess
                          ELSE extra]

EndHere(who, results) ==
  /\ Runs(who)
  /\ V' = Ended(run[1].on, results)
  /\ run' = <<>>
  /\ UNCHANGED <<main, waiting, stacks, ctbuf, host, net, overtaken, slip>>

EndTimer == EndHere("timer", 0)
EndConnect == EndHere("connect", 1)

EndAlarm == /\ Runs("alarm")
            /\ V' = alarm_stacks_save
            /\ run' = <<>>
            /\ UNCHANGED <<main, waiting, stacks, ctbuf, host, net, overtaken, slip>>

-----------------------------------------------------------------------------
(***************************************************************************)
(* Answers to requests.                                                    *)
(***************************************************************************)
RestoreStacksKeepsOld(on) == /\ V' = lwip_stacks_save /\ UNCHANGED lwip_stacks
                             /\ run' = <<>>
                             /\ UNCHANGED <<alarm_stacks_save, lwip_stacks_save>>

\* RESTORE_STACKS, and the callback returns to the network.
RestoreStacks(on) == /\ V' = lwip_stacks_save /\ lwip_stacks' = on
                     /\ run' = <<>>
                     /\ UNCHANGED <<alarm_stacks_save, lwip_stacks_save>>

\* tcp-write refuses what does not fit, and tcp-send drops the error.
tcp_sendOneFree ==
  unsent' = [unsent EXCEPT ![rx_pcb] = IF @ + Segs >= SndBuf THEN @ ELSE @ + Segs]

tcp_send ==
  unsent' = [unsent EXCEPT ![rx_pcb] = IF @ + Segs > SndBuf THEN @ ELSE @ + Segs]

OwnConnection == rx_pcb = run[1].answer.to

\* tcp-write-wait: tcp-send, which ends in continuation.
tcp_write_wait ==
  /\ Runs("receiver")
  /\ LET on == run[1].on
         answer == run[1].answer
     IN /\ answer.left > 0
        /\ waiting' = [waiting EXCEPT ![on.depth + 1] = [answer EXCEPT !.left = @ - 1]]
        /\ RestoreStacks([on EXCEPT !.depth = @ + 1])
  /\ slip' = IF OwnConnection THEN "none" ELSE "crossed"
  /\ tcp_send
  /\ UNCHANGED <<main, ctbuf, host, rx_pcb, answering, overlapped, overtaken>>

\* `receiver` closes rx-pcb and returns; its result is popped if ctbuf still says so.
EndReceiver ==
  /\ Runs("receiver")
  /\ run[1].answer.left = 0
  /\ RestoreStacks(Ended(run[1].on, 1))
  /\ answering' = [answering EXCEPT ![run[1].answer.to] = @ - 1]
  /\ slip' = IF OwnConnection THEN "none" ELSE "crossed"
  /\ UNCHANGED <<main, waiting, ctbuf, host, rx_pcb, unsent, overlapped, overtaken>>

\* Segments are acknowledged: whatever answer is on top goes on, with this connection.
continuation_cb(c, segments) ==
  /\ Idle /\ segments <= unsent[c]
  /\ unsent' = [unsent EXCEPT ![c] = @ - segments]
  /\ lwip_stacks_save' = V /\ V' = lwip_stacks
  /\ IF V'.depth = 0
       THEN slip' = "stray" /\ UNCHANGED <<run, rx_pcb>>
       ELSE /\ run' = <<[who |-> "receiver", at |-> "word", on |-> [V' EXCEPT !.depth = @ - 1],
                         answer |-> waiting[V'.depth]]>>
            /\ rx_pcb' = c
            /\ UNCHANGED slip
  /\ UNCHANGED <<main, waiting, alarm_stacks_save, lwip_stacks, ctbuf, host, answering,
                 overlapped, overtaken>>

Sent(c) == \E n \in 1..SndBuf : continuation_cb(c, n)

Foreground == Key \/ Accept \/ Ms
Callback == \/ Fetch \/ EndTimer \/ EndConnect \/ EndAlarm \/ EndReceiver
            \/ tcp_write_wait

Next == \/ Foreground \/ lua_handle_input \/ delay_callback
        \/ timer_callback \/ connect_cb \/ alarm_callback \/ gpio_callback
        \/ \E c \in Conns, n \in 0..Pieces : recv_cb(c, n)
        \/ Callback \/ \E c \in Conns : Sent(c)

\* The interpreter goes on, the foreground waits now and then, and the host gets round to
\* every event: what has been sent is acknowledged.
Spec == /\ Init /\ [][Next]_vars
        /\ WF_vars(Foreground) /\ WF_vars(Callback)
        /\ \A c \in Conns : SF_vars(Sent(c))
-----------------------------------------------------------------------------
(***************************************************************************)
(* Properties.                                                             *)
(***************************************************************************)

\* The stacks that will be current when what runs has returned.
Home == IF run = <<>> THEN V
        ELSE CASE run[1].who = "alarm" -> alarm_stacks_save
               [] run[1].who = "receiver" -> lwip_stacks_save
               [] OTHER -> run[1].on

HostWaits == CASE main = "runs" -> TRUE
               [] main = "rest" -> delay
               [] OTHER -> input_wait = main

\* While the foreground waits, every callback goes back to its stacks as it left them, and
\* the host still waits for what it waits for (switch_stacks, lua_handle_input, delay_callback).
ForegroundKept ==
  /\ slip # "lost"
  /\ slip = "none" => /\ main # "runs" => Home.of = "main" /\ Home.depth = 1
                      /\ HostWaits

\* No callback leaves a cell or takes one that is not its own, unless another one wrote
\* ctbuf before it was done (execute_xt, execute_xt_pop).
StacksLevel ==
  slip = "none" /\ ~overtaken => /\ V.extra = 0 /\ lwip_stacks.extra = 0
                                 /\ lwip_stacks_save.extra = 0 /\ alarm_stacks_save.extra = 0

RunsAnswer == run # <<>> /\ run[1].who = "receiver"
Depth == IF RunsAnswer THEN run[1].on.depth ELSE lwip_stacks.depth

\* Each answer that has begun waits in one place of the lwip stack or runs: none is
\* overwritten by one that began later (SWITCH_STACKS, RESTORE_STACKS).
AnswersKept ==
  slip = "none" =>
    \A c \in Conns :
      LET here == {i \in 1..Depth : waiting[i].to = c}
      IN answering[c] = Cardinality(here) + IF RunsAnswer /\ run[1].answer.to = c THEN 1 ELSE 0

\* An answer that waits goes on until it is finished, unless one is taken for another: one
\* acknowledgement may do for the pieces of two answers on the same connection
\* (tcp-write-wait, continuation_cb).
Answered == \A c \in Conns :
              answering[c] > 0 ~> answering[c] = 0 \/ c \in overlapped \/ slip # "none"

\* `When the data has been delivered, "continuation" returns to Forth ... like a blocking
\* send`: an answer goes on with its own connection.
SendBlocks == slip # "crossed"
=============================================================================
