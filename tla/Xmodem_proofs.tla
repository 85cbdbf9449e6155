---------------------------- MODULE Xmodem_proofs ----------------------------
(***************************************************************************)
(* The file that the receiver writes is the one that was sent, for files   *)
(* of any length, buffers of any size, sector numbers of any width and any *)
(* number of faults on the line, as long as no sector at the end of a      *)
(* buffer, or with a number that goes over the line as 0, is sent twice.   *)
(***************************************************************************)
EXTENDS Xmodem, SequenceTheorems, TLAPS

USE XmodemAssumption

\* Whether what is under way to the receiver is damaged, and whether what it was sent
\* last will not be sent again.
Wrong == IF toR # <<>> /\ Head(toR).wrong # "nothing" THEN 1 ELSE 0
Settled == sender # "data" \/ toS = <<"ack">> \/ receiver = "failed"
Unsettled == IF Settled THEN 0 ELSE 1

\* At most one message is under way, or the two with which the receiver gives up; and it
\* is what the sender has last sent.
ToReceiver == Len(toR) <= 1 /\ (toR # <<>> => toS = <<>>)
ToSender == /\ toS \in {<<>>, <<"ack">>, <<"nak">>, <<"can">>, <<"can", "nak">>}
            /\ receiver \in {"start", "gobble"} => toS = <<>>
FromSender == toR # <<>> =>
                LET m == Head(toR)
                IN  \/ sender = "data" /\ m.is = "sector" /\ m.n = sector
                    \/ sender = "eot" /\ m.is = "eot"
                    \/ sender = "aborted" /\ m.is = "can"

Phases ==
  /\ sender \in {"off", "start"} \/ receiver = "start" => sector = 0
  /\ sender \in {"data", "eot", "done"} => sector > 0
  /\ sender \in {"eot", "done"} => sector = Size
  /\ receiver = "done" => sector = Size /\ sender \in {"eot", "done", "aborted"}
  /\ sender = "done" \/ (sender = "eot" /\ toS = <<"ack">>) => receiver = "done"

\* The receiver has the number of the present sector or of the one before, or it is ahead
\* by Wrap for each fault that made a sector come again.
Behind(k) == /\ got = sector - 1 + k * Wrap /\ k + Wrong <= faults
             /\ sender \in {"data", "aborted"} /\ toS # <<"ack">>
Level(k) == got = sector + k * Wrap /\ k + Wrong + Unsettled <= faults
Counted == IF sector = 0 THEN got = 0
           ELSE \E k \in 0..faults : Behind(k) \/ Level(k)

\* The sectors that the sender knows to be in their place are there, and the receiver is
\* ahead by no more than one.
Acked == IF sender \in {"eot", "done"} \/ (sender = "data" /\ toS = <<"ack">>) THEN sector
         ELSE IF sector = 0 THEN 0 ELSE sector - 1
NoneTwice == Once(AtWrap \union AtEnd)
InPlace ==
  /\ Acked <= got /\ got <= sector /\ (receiver = "done" => got = Size)
  /\ \A n \in 1..got : heard[n] # "nothing"
  /\ chunk % Chunk = 0 /\ got - chunk < Chunk
  /\ Len(file) = (IF receiver = "done" THEN Size ELSE chunk)
  /\ \A i \in 1..Len(file) : file[i] = i
  /\ receiver # "done" => \A i \in 1..Chunk : chunk + i <= Acked => buf[i] = chunk + i

IInv == /\ TypeOK /\ ToReceiver /\ ToSender /\ FromSender /\ Phases /\ Counted
        /\ NoneTwice => InPlace
-----------------------------------------------------------------------------
\* What % does is settled by one way to write the number.
Written(a, w, q, r) == q \in Nat /\ r \in 0..w-1 /\ a = w * q + r

LEMMA ModIs ==
  ASSUME NEW w \in Nat \ {0}, NEW a \in Nat, NEW q, NEW r, Written(a, w, q, r)
  PROVE  a % w = r
BY DEF Written

LEMMA ModWay ==
  ASSUME NEW w \in Nat \ {0}, NEW a \in Nat
  PROVE  Written(a, w, a \div w, a % w)
BY DEF Written

\* Multiples of w.
LEMMA ModMultiple ==
  ASSUME NEW w \in Nat \ {0}, NEW a \in Nat, a % w = 0
  PROVE  (a + w) % w = 0
<1>1. PICK q, r : Written(a, w, q, r) /\ r = 0
  BY ModWay
<1>2. q \in Nat /\ a = w * q
  BY <1>1 DEF Written
<1>3. Written(a + w, w, q + 1, 0)
  BY <1>2 DEF Written
<1>4. a + w \in Nat
  OBVIOUS
<1> QED
  BY <1>3, <1>4, ModIs

\* update-sector# with sector n, from the number before n.
LEMMA NumberAfter ==
  ASSUME NEW n \in Nat \ {0}, NEW k \in Nat, NEW g, g = n - 1 + k * Wrap
  PROVE  (g - (g % Wrap)) + (IF n % Wrap = 0 THEN Wrap ELSE n % Wrap) = g + 1
<1>1. PICK q, r : Written(n, Wrap, q, r) /\ r = n % Wrap
  BY ModWay
<1>2. q \in Nat /\ r \in 0..Wrap-1 /\ n = Wrap * q + r /\ g \in Nat
  BY <1>1 DEF Written
<1>3. CASE r = 0
  <2>1. q # 0
    BY <1>2, <1>3
  <2>2. Written(g, Wrap, q - 1 + k, Wrap - 1)
    BY <1>2, <1>3, <2>1 DEF Written
  <2>3. g % Wrap = Wrap - 1
    BY <1>2, <2>2, ModIs
  <2> QED
    BY <1>1, <1>2, <1>3, <2>3
<1>4. CASE r # 0
  <2>1. Written(g, Wrap, q + k, r - 1)
    BY <1>2, <1>4 DEF Written
  <2>2. g % Wrap = r - 1
    BY <1>2, <2>1, ModIs
  <2> QED
    BY <1>1, <1>2, <1>4, <2>2
<1> QED
  BY <1>3, <1>4

\* The same from n itself.
LEMMA NumberAgain ==
  ASSUME NEW n \in Nat \ {0}, NEW k \in Nat, NEW g, g = n + k * Wrap
  PROVE  (g - (g % Wrap)) + (IF n % Wrap = 0 THEN Wrap ELSE n % Wrap)
           = IF n % Wrap = 0 THEN n + (k + 1) * Wrap ELSE g
<1>1. PICK q, r : Written(n, Wrap, q, r) /\ r = n % Wrap
  BY ModWay
<1>2. q \in Nat /\ r \in 0..Wrap-1 /\ n = Wrap * q + r /\ g \in Nat
  BY <1>1 DEF Written
<1>3. Written(g, Wrap, q + k, r)
  BY <1>2 DEF Written
<1>4. g % Wrap = r
  BY <1>2, <1>3, ModIs
<1>5. n + (k + 1) * Wrap = g + Wrap
  OBVIOUS
<1> QED
  BY <1>1, <1>2, <1>4, <1>5

\* The numbers stay within the bound of TypeOK.
LEMMA Bounded ==
  ASSUME NEW n \in 0..Size, NEW k \in 0..MaxFaults
  PROVE  n + k * Wrap \in 0..Size + Wrap * MaxFaults
<1>1. k * Wrap <= MaxFaults * Wrap /\ 0 <= k * Wrap
  OBVIOUS
<1> QED
  BY <1>1
-----------------------------------------------------------------------------
\* Of one message, nothing remains when it is taken.
LEMMA OneTaken ==
  ASSUME NEW S, NEW s \in Seq(S), s # <<>>, Len(s) <= 1
  PROVE  Tail(s) = <<>> /\ Len(s) = 1 /\ Head(s) = s[1] /\ Head(s) \in S
<1>1. PICK n \in Nat \ {0} : n = Len(s)
  BY EmptySeq
<1>2. Len(s) = 1
  <2>1. n <= 1
    BY <1>1
  <2>2. n = 1
    BY <2>1
  <2> QED
    BY <1>1, <2>2
<1>3. Tail(s) \in Seq(S) /\ Len(Tail(s)) = 0 /\ Head(s) \in S
  BY <1>2, HeadTailProperties
<1>4. Tail(s) = <<>>
  BY <1>3, EmptySeq
<1>5. Head(s) = s[1]
  BY <1>2
<1> QED
  BY <1>2, <1>3, <1>4, <1>5

LEMMA TakenEmpties ==
  ASSUME IInv, toR # <<>>
  PROVE  /\ Tail(toR) = <<>> /\ Len(toR) = 1 /\ Head(toR) = toR[1] /\ Head(toR) \in Message
         /\ toS = <<>>
<1>1. toR \in Seq(Message) /\ Len(toR) <= 1 /\ toS = <<>>
  BY DEF IInv, TypeOK, ToReceiver
<1> QED
  BY <1>1, OneTaken

\* The answers that may be under way.
Answers == {<<>>, <<"ack">>, <<"nak">>, <<"can">>, <<"can", "nak">>}

LEMMA AnswersAre ==
  ASSUME NEW s \in Answers
  PROVE  /\ s \in Seq({"ack", "nak", "can"})
         /\ s # <<>> /\ Head(s) = "ack" => s = <<"ack">>
         /\ s # <<>> /\ Head(s) = "nak" => s = <<"nak">>
         /\ s # <<>> => Tail(s) \in {<<>>, <<"nak">>}
         /\ s = <<"ack">> \/ s = <<"nak">> => Tail(s) = <<>>
<1>1. CASE s = <<>>
  BY <1>1
<1>2. CASE s = <<"ack">>
  BY <1>2
<1>3. CASE s = <<"nak">>
  BY <1>3
<1>4. CASE s = <<"can">>
  BY <1>4
<1>5. CASE s = <<"can", "nak">>
  BY <1>5
<1> QED
  BY <1>1, <1>2, <1>3, <1>4, <1>5 DEF Answers

LEMMA AnswersDiffer ==
  /\ <<>> # <<"ack">> /\ <<"nak">> # <<"ack">> /\ <<"can">> # <<"ack">>
  /\ <<"can", "nak">> # <<"ack">> /\ <<"ack">> # <<>> /\ <<"nak">> # <<>>
OBVIOUS

\* A message sent where there was none.
LEMMA OneSent ==
  ASSUME NEW m \in Message
  PROVE  /\ Append(<<>>, m) \in Seq(Message) /\ Len(Append(<<>>, m)) = 1
         /\ Append(<<>>, m) # <<>> /\ Head(Append(<<>>, m)) = m
<1> HIDE DEF Message
<1> QED
  OBVIOUS

LEMMA MessagesAre ==
  /\ EotMessage \in Message /\ CanMessage \in Message
  /\ \A n \in 0..Size : SectorMessage(n) \in Message
BY DEF EotMessage, CanMessage, SectorMessage, Message

\* An answer added where there was none.
LEMMA OneAnswer ==
  ASSUME NEW s \in Answers
  PROVE  <<>> \o s = s
BY AnswersAre, ConcatEmptySeq

\* Steps that leave what is in its place alone.
LEMMA PlaceKept ==
  ASSUME IInv, UNCHANGED <<got, chunk, buf, file, heard>>,
         receiver' = "done" <=> receiver = "done", Acked' \in Int, Acked' <= Acked,
         sector' \in Int, sector <= sector'
  PROVE  NoneTwice' => InPlace'
<1>1. NoneTwice' <=> NoneTwice
  BY DEF NoneTwice, Once, AtWrap, AtEnd
<1>2. got \in Int /\ chunk \in Int /\ Acked \in Int /\ sector \in Int
  BY DEF IInv, TypeOK, Acked
<1>3. ASSUME InPlace
      PROVE  InPlace'
  BY <1>2, <1>3 DEF InPlace
<1> QED
  BY <1>1, <1>3 DEF IInv
-----------------------------------------------------------------------------
(***************************************************************************)
(* The sender.                                                             *)
(***************************************************************************)
LEMMA SStartInv ==
  ASSUME IInv, SStart
  PROVE  IInv'
<1>1. toR = <<>> /\ sector = 0 /\ got = 0
  BY DEF IInv, SStart, FromSender, Phases, Counted
<1>2. TypeOK'
  BY AnswersAre DEF IInv, TypeOK, SStart, rside, Answers
<1>3. ToReceiver' /\ ToSender' /\ FromSender' /\ Phases' /\ Counted'
  BY <1>1, AnswersDiffer DEF IInv, SStart, rside, ToReceiver, ToSender, FromSender, Phases, Counted
<1>4. NoneTwice' => InPlace'
  <2>1. Acked' = 0 /\ Acked = 0
    BY <1>1 DEF SStart, Acked, IInv, Phases
  <2> QED
    BY <1>1, <2>1, PlaceKept DEF SStart, rside, IInv
<1> QED
  BY <1>2, <1>3, <1>4 DEF IInv

LEMMA SBeginInv ==
  ASSUME IInv, SBegin
  PROVE  IInv'
<1>1. toS \in Answers /\ toR = <<>> /\ sector = 0 /\ got = 0 /\ receiver \notin {"start", "gobble", "done"}
  BY DEF IInv, SBegin, ToReceiver, ToSender, Phases, Counted, Answers
<1>2. SectorMessage(1) \in Message /\ SectorMessage(1).is = "sector" /\ SectorMessage(1).n = 1
      /\ SectorMessage(1).wrong = "nothing"
  BY MessagesAre DEF SectorMessage
<1>3. toR' \in Seq(Message) /\ Len(toR') = 1 /\ Head(toR') = SectorMessage(1) /\ toS' = <<>>
  BY <1>1, <1>2, OneSent DEF SBegin
<1>4. TypeOK'
  BY <1>3, AnswersAre DEF IInv, TypeOK, SBegin, rside, Answers
<1>5. ToReceiver' /\ ToSender' /\ FromSender' /\ Phases'
  BY <1>1, <1>2, <1>3, AnswersDiffer DEF IInv, SBegin, rside, ToReceiver, ToSender, FromSender, Phases
<1>6. Counted'
  <2>1. Behind(0)'
    BY <1>1, <1>2, <1>3, AnswersDiffer DEF IInv, TypeOK, SBegin, rside, Behind, Wrong
  <2>2. faults' \in Nat
    BY DEF SBegin, IInv, TypeOK
  <2> QED
    BY <2>1, <2>2 DEF SBegin, Counted
<1>7. NoneTwice' => InPlace'
  <2>1. Acked' = 0 /\ Acked = 0
    BY <1>1, <1>3, AnswersDiffer DEF SBegin, Acked, IInv, Phases
  <2> QED
    BY <1>1, <2>1, PlaceKept DEF SBegin, rside, IInv
<1> QED
  BY <1>4, <1>5, <1>6, <1>7 DEF IInv

LEMMA SStartTimeoutInv ==
  ASSUME IInv, SStartTimeout
  PROVE  IInv'
<1>1. toR = <<>> /\ toS = <<>> /\ sector = 0 /\ got = 0
  BY DEF IInv, SStartTimeout, Quiet, Phases, Counted
<1>2. TypeOK'
  BY DEF IInv, TypeOK, SStartTimeout, rside
<1>3. ToReceiver' /\ ToSender' /\ FromSender' /\ Phases' /\ Counted'
  BY <1>1, AnswersDiffer
     DEF IInv, SStartTimeout, rside, ToReceiver, ToSender, FromSender, Phases, Counted
<1>4. NoneTwice' => InPlace'
  <2>1. Acked' = 0 /\ Acked = 0
    BY <1>1 DEF SStartTimeout, Acked, IInv, Phases
  <2> QED
    BY <1>1, <2>1, PlaceKept DEF SStartTimeout, rside, IInv
<1> QED
  BY <1>2, <1>3, <1>4 DEF IInv

\* What the sender sends again is a message of the present sector or the EOT.
LEMMA CurrentIs ==
  ASSUME IInv, Waiting
  PROVE  /\ Current \in Message /\ Current.wrong = "nothing"
         /\ sender = "data" => Current.is = "sector" /\ Current.n = sector
         /\ sender = "eot" => Current.is = "eot"
BY MessagesAre DEF IInv, TypeOK, Waiting, Current, EotMessage, SectorMessage

\* Behind and Level when the sender sends what it sent before.
LEMMA ResentInv ==
  ASSUME IInv, Waiting, toS \in {<<>>, <<"nak">>}, toR = <<>>, toS' = <<>>,
         toR' = Append(toR, Current), snaks' \in 0..MaxErrors,
         UNCHANGED <<sender, sector, rside, faults>>
  PROVE  IInv'
<1>1. /\ Current \in Message /\ Current.wrong = "nothing"
      /\ sender = "data" => Current.is = "sector" /\ Current.n = sector
      /\ sender = "eot" => Current.is = "eot"
  BY CurrentIs
<1>2. toR' \in Seq(Message) /\ Len(toR') = 1 /\ Head(toR') = Current /\ toS' = <<>>
  BY <1>1, OneSent
<1>3. TypeOK'
  BY <1>2, AnswersAre DEF IInv, TypeOK, rside, Answers
<1>4. ToReceiver' /\ ToSender' /\ FromSender' /\ Phases'
  BY <1>1, <1>2, AnswersDiffer
     DEF IInv, Waiting, rside, ToReceiver, ToSender, FromSender, Phases
<1>5. Counted'
  <2>1. Wrong' = 0 /\ Wrong = 0 /\ Unsettled' = Unsettled
    BY <1>1, <1>2, AnswersDiffer DEF Wrong, Unsettled, Settled, rside
  <2>2. \A k \in Nat : (Behind(k) => Behind(k)') /\ (Level(k) => Level(k)')
    BY <2>1, AnswersDiffer DEF rside, Behind, Level
  <2> QED
    BY <2>2 DEF IInv, TypeOK, Counted, rside
<1>6. NoneTwice' => InPlace'
  <2>1. sector \in Int
    BY DEF IInv, TypeOK
  <2>2. toS # <<"ack">> /\ toS' # <<"ack">> /\ sender' = sender /\ sector' = sector
    BY AnswersDiffer
  <2>3. Acked' = Acked
    BY <2>2 DEF Acked
  <2>4. Acked \in Int
    BY <2>1 DEF Acked
  <2> QED
    BY <2>1, <2>2, <2>3, <2>4, PlaceKept DEF rside
<1> QED
  BY <1>3, <1>4, <1>5, <1>6 DEF IInv

LEMMA STimeoutInv ==
  ASSUME IInv, STimeout
  PROVE  IInv'
BY ResentInv DEF STimeout, sside, Quiet, IInv, TypeOK

\* A step of a sender that gives up, or leaves the present sector for the EOT.
LEMMA SNakInv ==
  ASSUME IInv, SNak
  PROVE  IInv'
<1>1. toS = <<"nak">> /\ toS' = <<>> /\ toR = <<>>
  <2>1. toS \in Answers /\ toR = <<>>
    BY DEF IInv, SNak, ToReceiver, ToSender, Answers
  <2> QED
    BY <2>1, AnswersAre DEF SNak
<1>2. CASE snaks + 1 <= MaxErrors
  BY <1>1, <1>2, ResentInv DEF SNak, IInv, TypeOK
<1>3. CASE snaks + 1 > MaxErrors
  <2>1. /\ sender' = "aborted" /\ toR' = Append(<<>>, CanMessage) /\ snaks' = snaks
        /\ UNCHANGED <<sector, receiver, got, chunk, buf, file, rnaks, heard, faults>>
    BY <1>1, <1>3 DEF SNak, rside
  <2>2. /\ toR' \in Seq(Message) /\ Len(toR') = 1 /\ Head(toR') = CanMessage
        /\ CanMessage.is = "can" /\ CanMessage.wrong = "nothing"
    BY <2>1, MessagesAre, OneSent DEF CanMessage
  <2>3. TypeOK'
    BY <1>1, <2>1, <2>2, AnswersAre DEF IInv, TypeOK, Answers
  <2>4. ToReceiver' /\ ToSender' /\ FromSender' /\ Phases'
    BY <1>1, <2>1, <2>2, AnswersDiffer
       DEF IInv, SNak, Waiting, ToReceiver, ToSender, FromSender, Phases
  <2>5. Counted'
    <3>1. Wrong' = 0 /\ Wrong = 0 /\ Unsettled' = 0 /\ Unsettled \in {0, 1}
      BY <1>1, <2>1, <2>2 DEF Wrong, Unsettled, Settled
    <3>2. \A k \in Nat : (Behind(k) => Behind(k)') /\ (Level(k) => Level(k)')
      BY <1>1, <2>1, <3>1, AnswersDiffer DEF Behind, Level, IInv, TypeOK
    <3>3. UNCHANGED <<sector, got, faults>> /\ faults \in Nat /\ Counted
      BY <2>1 DEF IInv, TypeOK
    <3> QED
      BY <3>2, <3>3 DEF Counted
  <2>6. NoneTwice' => InPlace'
    <3>1. sector \in Nat
      BY DEF IInv, TypeOK
    <3>2. Acked' <= Acked /\ Acked' \in Int
      BY <2>1, <3>1 DEF Acked
    <3> QED
      BY <2>1, <3>1, <3>2, PlaceKept
  <2> QED
    BY <2>3, <2>4, <2>5, <2>6 DEF IInv
<1>4. snaks + 1 <= MaxErrors \/ snaks + 1 > MaxErrors
  <2>1. snaks \in Nat
    BY DEF IInv, TypeOK
  <2> QED
    BY <2>1
<1> QED
  BY <1>2, <1>3, <1>4

LEMMA SCanInv ==
  ASSUME IInv, SCan
  PROVE  IInv'
<1>1. /\ sender' = "aborted" /\ toS' = <<>> /\ toR = <<>> /\ toR' = <<>>
      /\ sender \in {"start", "data", "eot"} /\ toS # <<"ack">>
      /\ UNCHANGED <<sector, snaks, receiver, got, chunk, buf, file, rnaks, heard, faults>>
  BY DEF IInv, SCan, rside, ToReceiver
<1>2. TypeOK'
  BY <1>1, AnswersAre DEF IInv, TypeOK, Answers
<1>3. ToReceiver' /\ ToSender' /\ FromSender' /\ Phases'
  BY <1>1, AnswersDiffer DEF IInv, ToReceiver, ToSender, FromSender, Phases
<1>4. Counted'
  <2>1. Wrong' = 0 /\ Wrong = 0 /\ Unsettled' = 0 /\ Unsettled \in {0, 1}
    BY <1>1 DEF Wrong, Unsettled, Settled
  <2>2. \A k \in Nat : sector > 0 => (Behind(k) => Behind(k)') /\ (Level(k) => Level(k)')
    BY <1>1, <2>1, AnswersDiffer DEF Behind, Level, IInv, TypeOK
  <2> QED
    BY <1>1, <2>2 DEF IInv, TypeOK, Counted
<1>5. NoneTwice' => InPlace'
  <2>1. sector \in Nat
    BY DEF IInv, TypeOK
  <2>2. Acked' <= Acked /\ Acked' \in Int
    BY <1>1, <2>1 DEF Acked
  <2> QED
    BY <1>1, <2>1, <2>2, PlaceKept
<1> QED
  BY <1>2, <1>3, <1>4, <1>5 DEF IInv

LEMMA SAckInv ==
  ASSUME IInv, SAck
  PROVE  IInv'
<1>1. /\ toS = <<"ack">> /\ toS' = <<>> /\ toR = <<>> /\ sender \in {"data", "eot"}
      /\ snaks' = 0
      /\ UNCHANGED <<receiver, got, chunk, buf, file, rnaks, heard, faults>>
      /\ receiver \notin {"start", "gobble"} /\ sector \in Nat \ {0}
  <2>1. toS \in Answers /\ toR = <<>>
    BY DEF IInv, SAck, ToReceiver, ToSender, Answers
  <2>2. toS = <<"ack">> /\ toS' = <<>>
    BY <2>1, AnswersAre DEF SAck
  <2> QED
    BY <2>1, <2>2, AnswersDiffer DEF SAck, rside, Waiting, IInv, TypeOK, Phases, ToSender
<1>2. \E k \in 0..faults : got = sector + k * Wrap
  BY <1>1 DEF IInv, TypeOK, Counted, Behind, Level
<1>3. Acked = sector
  BY <1>1 DEF Acked
<1>4. CASE sender = "data" /\ sector < Size /\ sector' = sector + 1 /\ sender' = "data"
           /\ toR' = Append(<<>>, SectorMessage(sector + 1))
  <2> DEFINE m == SectorMessage(sector + 1)
  <2>1. m \in Message /\ m.is = "sector" /\ m.n = sector' /\ m.wrong = "nothing"
    BY <1>1, <1>4, MessagesAre DEF SectorMessage
  <2>2. toR' \in Seq(Message) /\ Len(toR') = 1 /\ Head(toR') = m
    BY <1>4, <2>1, OneSent
  <2> HIDE DEF m
  <2>3. TypeOK'
    BY <1>1, <1>4, <2>2, AnswersAre DEF IInv, TypeOK, Answers
  <2>4. ToReceiver' /\ ToSender' /\ FromSender' /\ Phases'
    BY <1>1, <1>4, <2>1, <2>2, AnswersDiffer
       DEF IInv, TypeOK, ToReceiver, ToSender, FromSender, Phases
  <2>5. Counted'
    <3>1. Wrong' = 0
      BY <2>1, <2>2 DEF Wrong
    <3>2. \A k \in 0..faults : got = sector + k * Wrap => Behind(k)'
      BY <1>1, <1>4, <3>1, AnswersDiffer DEF Behind
    <3> QED
      BY <1>1, <1>2, <1>4, <3>2 DEF Counted
  <2>6. NoneTwice' => InPlace'
    <3>1. Acked' = sector
      BY <1>1, <1>4, AnswersDiffer DEF Acked
    <3> QED
      BY <1>1, <1>3, <1>4, <3>1, PlaceKept
  <2> QED
    BY <2>3, <2>4, <2>5, <2>6 DEF IInv
<1>5. CASE sender = "data" /\ sector = Size /\ sector' = sector /\ sender' = "eot"
           /\ toR' = Append(<<>>, EotMessage)
  <2>1. EotMessage \in Message /\ EotMessage.is = "eot" /\ EotMessage.wrong = "nothing"
    BY MessagesAre DEF EotMessage
  <2>2. toR' \in Seq(Message) /\ Len(toR') = 1 /\ Head(toR') = EotMessage
    BY <1>5, <2>1, OneSent
  <2>3. TypeOK'
    BY <1>1, <1>5, <2>2, AnswersAre DEF IInv, TypeOK, Answers
  <2>4. ToReceiver' /\ ToSender' /\ FromSender' /\ Phases'
    BY <1>1, <1>5, <2>1, <2>2, AnswersDiffer
       DEF IInv, TypeOK, ToReceiver, ToSender, FromSender, Phases
  <2>5. Counted'
    <3>1. Wrong' = 0 /\ Unsettled' = 0
      BY <1>5, <2>1, <2>2 DEF Wrong, Unsettled, Settled
    <3>2. \A k \in 0..faults : got = sector + k * Wrap => Level(k)'
      BY <1>1, <1>5, <3>1 DEF Level
    <3> QED
      BY <1>1, <1>2, <1>5, <3>2 DEF Counted
  <2>6. NoneTwice' => InPlace'
    <3>1. Acked' = sector
      BY <1>1, <1>5 DEF Acked
    <3> QED
      BY <1>1, <1>3, <1>5, <3>1, PlaceKept
  <2> QED
    BY <2>3, <2>4, <2>5, <2>6 DEF IInv
<1>6. CASE sender = "eot" /\ sender' = "done" /\ UNCHANGED <<sector, toR>>
  <2>1. TypeOK'
    BY <1>1, <1>6, AnswersAre DEF IInv, TypeOK, Answers
  <2>2. ToReceiver' /\ ToSender' /\ FromSender' /\ Phases'
    BY <1>1, <1>6, AnswersDiffer DEF IInv, TypeOK, ToReceiver, ToSender, FromSender, Phases
  <2>3. Counted'
    <3>1. Wrong' = 0 /\ Unsettled' = 0
      BY <1>1, <1>6 DEF Wrong, Unsettled, Settled
    <3>2. \A k \in 0..faults : got = sector + k * Wrap => Level(k)'
      BY <1>1, <1>6, <3>1 DEF Level
    <3> QED
      BY <1>1, <1>2, <1>6, <3>2 DEF Counted
  <2>4. NoneTwice' => InPlace'
    <3>1. Acked' = sector
      BY <1>1, <1>6 DEF Acked
    <3> QED
      BY <1>1, <1>3, <1>6, <3>1, PlaceKept
  <2> QED
    BY <2>1, <2>2, <2>3, <2>4 DEF IInv
<1> QED
  BY <1>1, <1>4, <1>5, <1>6 DEF SAck
-----------------------------------------------------------------------------
(***************************************************************************)
(* The receiver, where it takes no sector, and the line.                   *)
(***************************************************************************)
\* A message is dropped, or none comes.
LEMMA DroppedInv ==
  ASSUME IInv, toR' = <<>>, toS = <<>>, toS' = <<>>,
         faults' \in {faults, faults + 1}, faults' <= MaxFaults,
         UNCHANGED <<sender, sector, snaks, got, chunk, buf, file, rnaks, heard>>,
         \/ receiver' = receiver
         \/ receiver = "listen" /\ receiver' \in {"gobble", "failed"}
  PROVE  IInv'
<1>1. faults \in Nat /\ faults' \in Nat /\ faults <= faults' /\ sector \in Nat
  BY DEF IInv, TypeOK
<1>2. TypeOK'
  BY <1>1 DEF IInv, TypeOK
<1>3. ToReceiver' /\ ToSender' /\ FromSender' /\ Phases'
  BY AnswersDiffer DEF IInv, ToReceiver, ToSender, FromSender, Phases
<1>4. Counted'
  <2>1. Wrong' = 0 /\ Unsettled \in {0, 1} /\ Wrong \in {0, 1} /\ Unsettled' \in {0, 1}
    BY DEF Wrong, Unsettled
  <2>2. Unsettled' <= Unsettled
    BY AnswersDiffer DEF Unsettled, Settled
  <2>3. ASSUME NEW k \in Nat
        PROVE  (Behind(k) => Behind(k)') /\ (Level(k) => Level(k)')
    <3>1. k + Wrong <= faults => k + Wrong' <= faults'
      BY <1>1, <2>1
    <3>2. k + Wrong + Unsettled <= faults => k + Wrong' + Unsettled' <= faults'
      <4>1. PICK w \in Nat, u \in Nat, v \in Nat : w = Wrong /\ u = Unsettled /\ v = Unsettled'
        BY <2>1
      <4>2. v <= u
        BY <2>2, <4>1
      <4>3. k + w + u <= faults => k + 0 + v <= faults'
        BY <1>1, <4>2
      <4> QED
        BY <2>1, <4>1, <4>3
    <3>3. Behind(k) => Behind(k)'
      BY <3>1, AnswersDiffer DEF Behind
    <3>4. Level(k) => Level(k)'
      BY <3>2 DEF Level
    <3> QED
      BY <3>3, <3>4
  <2>4. Counted
    BY DEF IInv
  <2> QED
    BY <1>1, <2>3, <2>4 DEF Counted
<1>5. NoneTwice' => InPlace'
  <2>1. Acked' = Acked /\ Acked \in Int
    BY <1>1 DEF Acked
  <2> QED
    BY <1>1, <2>1, PlaceKept
<1> QED
  BY <1>2, <1>3, <1>4, <1>5 DEF IInv

LEMMA RBadHeaderInv ==
  ASSUME IInv, RBadHeader
  PROVE  IInv'
BY TakenEmpties, DroppedInv DEF RBadHeader, Listening, Taken, sside, IInv, TypeOK

LEMMA RTimeoutInv ==
  ASSUME IInv, RTimeout
  PROVE  IInv'
BY DroppedInv DEF RTimeout, Quiet, sside, IInv, TypeOK

LEMMA RGobbleInv ==
  ASSUME IInv, RGobble
  PROVE  IInv'
BY TakenEmpties, DroppedInv DEF RGobble, Taken, sside, rside, IInv, TypeOK

LEMMA RCanInv ==
  ASSUME IInv, RCan
  PROVE  IInv'
BY TakenEmpties, DroppedInv DEF RCan, Listening, Taken, sside, IInv, TypeOK

LEMMA RGoneInv ==
  ASSUME IInv, RGone
  PROVE  IInv'
BY TakenEmpties, DroppedInv DEF RGone, Taken, sside, rside, IInv, TypeOK

\* What Answer adds when nothing is under way to the sender.
LEMMA AnswerIs ==
  ASSUME NEW s \in Answers, toS = <<>>, Answer(s)
  PROVE  /\ toS' \in {<<>>, s}
         /\ sender \notin {"off", "done", "aborted"} => toS' = s
BY OneAnswer DEF Answer

LEMMA RStartInv ==
  ASSUME IInv, RStart
  PROVE  IInv'
<1>1. /\ toR = <<>> /\ toR' = <<>> /\ toS = <<>> /\ receiver = "start" /\ receiver' = "listen"
      /\ UNCHANGED <<sender, sector, snaks, got, chunk, buf, file, rnaks, heard, faults>>
      /\ sector = 0 /\ got = 0 /\ chunk = 0
  BY DEF IInv, TypeOK, RStart, sside, ToSender, Phases, Counted
<1>2. toS' \in {<<>>, <<"nak">>}
  BY <1>1, AnswerIs DEF RStart, Answers
<1>3. TypeOK'
  <2>1. toS' \in Seq({"ack", "nak", "can"})
    BY <1>2, AnswersAre DEF Answers
  <2>2. got' - chunk' <= Chunk
    BY <1>1
  <2> QED
    BY <1>1, <2>1, <2>2 DEF IInv, TypeOK
<1>4. ToReceiver' /\ ToSender' /\ FromSender' /\ Phases' /\ Counted'
  BY <1>1, <1>2, AnswersDiffer
     DEF IInv, ToReceiver, ToSender, FromSender, Phases, Counted
<1>5. NoneTwice' => InPlace'
  <2>1. Acked' = 0 /\ Acked = 0
    BY <1>1, AnswersDiffer DEF Acked
  <2> QED
    BY <1>1, <2>1, PlaceKept
<1> QED
  BY <1>3, <1>4, <1>5 DEF IInv

\* The buffer goes to the application: what TypeOK says of the file and of the buffer.
LEMMA LoopTopTypes ==
  ASSUME IInv, NEW g \in 0..Size + Wrap * MaxFaults, chunk <= g, g - chunk <= Chunk,
         NEW b \in [1..Chunk -> 0..Size], LoopTop(g, b)
  PROVE  file' \in Seq(0..Size) /\ chunk' \in 0..g /\ g - chunk' <= Chunk
<1>1. file \in Seq(0..Size) /\ chunk \in Nat /\ Chunk \in Nat /\ g \in Nat
  BY DEF IInv, TypeOK
<1>2. CASE g - chunk = Chunk
  <2>1. [i \in 1..Chunk |-> b[i]] \in Seq(0..Size)
    BY <1>1, IsASeq
  <2>2. file' = file \o [i \in 1..Chunk |-> b[i]] /\ chunk' = g
    BY <1>2 DEF LoopTop
  <2> QED
    BY <1>1, <2>1, <2>2, ConcatProperties
<1>3. CASE g - chunk # Chunk
  BY <1>1, <1>3 DEF LoopTop
<1> QED
  BY <1>2, <1>3

LEMMA RNakInv ==
  ASSUME IInv, RNak
  PROVE  IInv'
<1>1. /\ toR = <<>> /\ toR' = <<>> /\ toS = <<>> /\ receiver = "gobble" /\ receiver' = "listen"
      /\ UNCHANGED <<sender, sector, snaks, got, buf, heard, faults>>
      /\ rnaks' \in 0..MaxErrors + 1
  BY DEF IInv, TypeOK, RNak, sside, ToSender, AtMost
<1>2. toS' \in {<<>>, <<"nak">>, <<"can", "nak">>}
  BY <1>1, AnswerIs DEF RNak, Answers
<1>3. file' \in Seq(0..Size) /\ chunk' \in 0..got /\ got - chunk' <= Chunk
  <2>1. /\ got \in 0..Size + Wrap * MaxFaults /\ chunk <= got /\ got - chunk <= Chunk
        /\ buf \in [1..Chunk -> 0..Size]
    BY <1>1 DEF IInv, TypeOK
  <2> QED
    BY <2>1, LoopTopTypes DEF RNak
<1>4. TypeOK'
  <2>1. toS' \in Seq({"ack", "nak", "can"})
    BY <1>2, AnswersAre DEF Answers
  <2> QED
    BY <1>1, <1>3, <2>1 DEF IInv, TypeOK
<1>5. ToReceiver' /\ ToSender' /\ FromSender' /\ Phases'
  BY <1>1, <1>2, AnswersDiffer DEF IInv, ToReceiver, ToSender, FromSender, Phases
<1>6. Counted'
  <2>1. Wrong' = 0 /\ Wrong = 0
    BY <1>1 DEF Wrong
  <2>2. Unsettled' = Unsettled
    BY <1>1, <1>2, AnswersDiffer DEF Unsettled, Settled
  <2>3. \A k \in Nat : (Behind(k) => Behind(k)') /\ (Level(k) => Level(k)')
    BY <1>1, <1>2, <2>1, <2>2, AnswersDiffer DEF Behind, Level
  <2>4. faults \in Nat /\ Counted
    BY DEF IInv, TypeOK
  <2> QED
    BY <1>1, <2>3, <2>4 DEF Counted
<1>7. NoneTwice' => InPlace'
  <2>1. Acked' = Acked /\ Acked \in Int /\ sector \in Int
    <3>1. sector \in Int
      BY DEF IInv, TypeOK
    <3>2. toS # <<"ack">> /\ toS' # <<"ack">>
      BY <1>1, <1>2, AnswersDiffer
    <3> QED
      BY <1>1, <3>1, <3>2 DEF Acked
  <2>2. InPlace => UNCHANGED <<file, chunk>>
    <3>1. got \in Int /\ chunk \in Int
      BY DEF IInv, TypeOK
    <3> QED
      BY <3>1 DEF InPlace, RNak, LoopTop
  <2>3. NoneTwice' => NoneTwice
    BY <1>1 DEF NoneTwice, Once, AtWrap, AtEnd
  <2>4. NoneTwice => InPlace
    BY DEF IInv
  <2> QED
    BY <1>1, <2>1, <2>2, <2>3, <2>4, PlaceKept
<1> QED
  BY <1>4, <1>5, <1>6, <1>7 DEF IInv

LEMMA REotInv ==
  ASSUME IInv, REot
  PROVE  IInv'
<1>1. /\ toR' = <<>> /\ toS = <<>> /\ receiver = "listen" /\ receiver' = "done"
      /\ UNCHANGED <<sender, sector, snaks, got, chunk, buf, rnaks, heard, faults>>
  BY TakenEmpties DEF REot, Listening, Taken, sside
<1>2. sender = "eot" /\ sector = Size
  <2>1. sender = "eot"
    BY DEF REot, Listening, IInv, FromSender, EotMessage
  <2> QED
    BY <2>1 DEF IInv, Phases
<1>3. toS' = <<"ack">>
  BY <1>1, <1>2, AnswerIs DEF REot, Answers
<1>4. /\ got \in Nat /\ chunk \in 0..got /\ got - chunk <= Chunk
      /\ buf \in [1..Chunk -> 0..Size] /\ file \in Seq(0..Size)
  BY <1>1 DEF IInv, TypeOK
<1> DEFINE rest == SubSeq(buf, 1, got - chunk)
<1>5. rest \in Seq(0..Size) /\ Len(rest) = got - chunk
      /\ \A i \in 1..got - chunk : rest[i] = buf[i]
  BY <1>4, SubSeqProperties
<1>6. file' = file \o rest
  BY DEF REot
<1> HIDE DEF rest
<1>7. /\ file' \in Seq(0..Size) /\ Len(file') = Len(file) + (got - chunk)
      /\ \A i \in 1..Len(file') : file'[i] = IF i <= Len(file) THEN file[i] ELSE rest[i - Len(file)]
  <2>1. /\ file \o rest \in Seq(0..Size) /\ Len(file \o rest) = Len(file) + Len(rest)
        /\ \A i \in 1..Len(file) + Len(rest) :
             (file \o rest)[i] = IF i <= Len(file) THEN file[i] ELSE rest[i - Len(file)]
    BY <1>4, <1>5, ConcatProperties
  <2> QED
    BY <1>5, <1>6, <2>1
<1>8. TypeOK'
  <2>1. toS' \in Seq({"ack", "nak", "can"})
    BY <1>3, AnswersAre DEF Answers
  <2> QED
    BY <1>1, <1>7, <2>1 DEF IInv, TypeOK
<1>9. ToReceiver' /\ ToSender' /\ FromSender' /\ Phases'
  BY <1>1, <1>2, <1>3, AnswersDiffer DEF IInv, ToReceiver, ToSender, FromSender, Phases
<1>10. Counted'
  <2>1. Wrong' = 0 /\ Unsettled' = 0 /\ Wrong \in {0, 1} /\ Unsettled \in {0, 1}
    BY <1>1, <1>2 DEF Wrong, Unsettled, Settled
  <2>2. \A k \in Nat : ~Behind(k) /\ (Level(k) => Level(k)')
    BY <1>1, <1>2, <2>1 DEF Behind, Level, IInv, TypeOK
  <2>3. faults \in Nat /\ Counted
    BY DEF IInv, TypeOK
  <2> QED
    BY <1>1, <2>2, <2>3 DEF Counted
<1>11. ASSUME NoneTwice'
       PROVE  InPlace'
  <2>1. InPlace
    BY <1>1, <1>11 DEF NoneTwice, Once, AtWrap, AtEnd, IInv
  <2>2. Acked = Size /\ Acked' = Size
    BY <1>1, <1>2 DEF Acked
  <2>3. got = Size /\ Len(file) = chunk /\ Len(file') = Size
    BY <1>1, <1>2, <1>4, <1>7, <2>1, <2>2 DEF InPlace
  <2>4. \A i \in 1..Len(file') : file'[i] = i
    <3>1. TAKE i \in 1..Len(file')
    <3>2. CASE i <= chunk
      BY <1>1, <1>7, <2>1, <2>3, <3>2 DEF InPlace
    <3>3. CASE i > chunk
      <4>1. i - chunk \in 1..got - chunk /\ i - chunk \in 1..Chunk
        BY <1>4, <2>3, <3>3
      <4>2. file'[i] = buf[i - chunk]
        <5>1. ~(i <= chunk)
          BY <1>4, <3>3
        <5>2. file'[i] = rest[i - chunk]
          BY <1>7, <2>3, <5>1
        <5> QED
          BY <1>5, <4>1, <5>2
      <4>3. buf[i - chunk] = chunk + (i - chunk)
        BY <1>1, <1>4, <2>1, <2>2, <2>3, <4>1 DEF InPlace
      <4> QED
        BY <1>4, <4>2, <4>3
    <3> QED
      BY <1>4, <3>2, <3>3
  <2> QED
    BY <1>1, <1>2, <2>1, <2>2, <2>3, <2>4 DEF InPlace
<1> QED
  BY <1>8, <1>9, <1>10, <1>11 DEF IInv
-----------------------------------------------------------------------------
(***************************************************************************)
(* The receiver, where it takes a sector.                                  *)
(***************************************************************************)
\* The number that update-sector# makes of that of a sector: it goes on by one, or stays,
\* or goes on by Wrap, where a fault has paid for it.
LEMMA HeaderFacts ==
  ASSUME IInv, Listening, Head(toR).is = "sector", Header(Head(toR).n)
  PROVE  /\ sender = "data" /\ Head(toR).n = sector /\ sector \in Nat \ {0} /\ sector <= Size
         /\ got' \in 0..Size + Wrap * MaxFaults /\ got <= got'
         /\ \E k \in 0..faults : got' = sector + k * Wrap /\ k + Wrong <= faults
         /\ got = sector - 1 => got' = sector
         /\ got = sector /\ sector % Wrap # 0 => got' = sector
<1>1. sender = "data" /\ Head(toR).n = sector
  BY DEF IInv, FromSender, Listening
<1>2. sector \in Nat \ {0} /\ sector <= Size /\ toS = <<>> /\ got \in Nat
      /\ faults \in Nat /\ faults <= MaxFaults
  BY <1>1, TakenEmpties DEF IInv, TypeOK, Phases, Listening
<1>3. Unsettled = 1 /\ Wrong \in Nat
  BY <1>1, <1>2, AnswersDiffer DEF Unsettled, Settled, Wrong, Listening
<1>4. got' = (got - (got % Wrap)) + (IF sector % Wrap = 0 THEN Wrap ELSE sector % Wrap)
  <2>1. (sector % Wrap) \in 0..Wrap-1 /\ got % Wrap \in 0..Wrap-1
    BY <1>2, ModWay DEF Written
  <2> QED
    BY <1>1, <2>1 DEF Header, UpdateSector
<1>5. ASSUME NEW k \in Nat, got = sector - 1 + k * Wrap
      PROVE  got' = got + 1 /\ got' = sector + k * Wrap
  <2>1. got' = got + 1
    BY <1>2, <1>4, <1>5, NumberAfter
  <2> QED
    BY <1>2, <1>5, <2>1
<1>6. ASSUME NEW k \in Nat, got = sector + k * Wrap
      PROVE  got' = IF sector % Wrap = 0 THEN sector + (k + 1) * Wrap ELSE got
  BY <1>2, <1>4, <1>6, NumberAgain
<1>7. PICK k \in 0..faults : Behind(k) \/ Level(k)
  BY <1>2 DEF IInv, Counted
<1>8. got <= got' /\ \E j \in 0..faults : got' = sector + j * Wrap /\ j + Wrong <= faults
  <2>1. CASE Behind(k)
    BY <1>2, <1>5, <1>7, <2>1 DEF Behind
  <2>2. CASE Level(k)
    <3>1. got = sector + k * Wrap /\ k + Wrong + 1 <= faults
      BY <1>3, <2>2 DEF Level
    <3>2. CASE sector % Wrap = 0
      <4>1. got' = sector + (k + 1) * Wrap
        BY <1>6, <1>7, <3>1, <3>2
      <4>2. k + 1 \in 0..faults /\ (k + 1) + Wrong <= faults
        BY <1>2, <1>3, <1>7, <3>1
      <4>3. got <= sector + (k + 1) * Wrap
        BY <1>2, <1>7, <3>1
      <4> QED
        BY <4>1, <4>2, <4>3
    <3>3. CASE sector % Wrap # 0
      <4>1. got' = got
        BY <1>6, <1>7, <3>1, <3>3
      <4>2. k + Wrong <= faults
        BY <1>2, <1>3, <1>7, <3>1
      <4> QED
        BY <1>2, <1>7, <3>1, <4>1, <4>2
    <3> QED
      BY <3>2, <3>3
  <2> QED
    BY <1>7, <2>1, <2>2
<1>9. got' \in 0..Size + Wrap * MaxFaults
  <2>1. PICK j \in 0..faults : got' = sector + j * Wrap
    BY <1>8
  <2>2. j \in 0..MaxFaults /\ sector \in 0..Size
    BY <1>2
  <2> QED
    BY <2>1, <2>2, Bounded
<1>10. got = sector - 1 => got' = sector
  <2>1. got = sector - 1 => got = sector - 1 + 0 * Wrap
    BY <1>2
  <2>2. got = sector - 1 => got' = got + 1
    BY <1>5, <2>1
  <2> QED
    BY <1>2, <2>2
<1>11. got = sector /\ sector % Wrap # 0 => got' = sector
  <2>1. got = sector => got = sector + 0 * Wrap
    BY <1>2
  <2> QED
    BY <1>6, <2>1
<1> QED
  BY <1>1, <1>2, <1>8, <1>9, <1>10, <1>11

\* As long as no sector that must not come twice has, the number is that of the sector, and
\* there is room for it; data that do not fit their checksum never fill the buffer.
LEMMA Hearing ==
  ASSUME IInv, Listening, Head(toR).is = "sector", Header(Head(toR).n),
         NEW good \in BOOLEAN, Hears(Head(toR).n, good), NoneTwice'
  PROVE  /\ InPlace /\ got' = sector /\ sector - chunk \in 1..Chunk
         /\ good \/ sector - chunk < Chunk
         /\ \A n \in 1..sector : heard'[n] # "nothing"
<1>1. /\ sender = "data" /\ Head(toR).n = sector /\ sector \in Sectors
      /\ got = sector - 1 => got' = sector
      /\ got = sector /\ sector % Wrap # 0 => got' = sector
  BY HeaderFacts DEF Sectors
<1>2. /\ heard' = [heard EXCEPT ![sector] = IF good /\ @ = "nothing" THEN "once" ELSE "again"]
      /\ heard \in [Sectors -> {"nothing", "once", "again"}] /\ toS = <<>>
      /\ got \in Nat /\ chunk \in Nat /\ chunk <= got
  <2>1. heard' = [heard EXCEPT ![sector] = IF good /\ @ = "nothing" THEN "once" ELSE "again"]
    BY <1>1 DEF Hears
  <2>2. toS = <<>>
    BY TakenEmpties DEF Listening
  <2>3. /\ heard \in [Sectors -> {"nothing", "once", "again"}]
        /\ got \in Nat /\ chunk \in Nat /\ chunk <= got
    BY DEF IInv, TypeOK
  <2> QED
    BY <2>1, <2>2, <2>3
<1>3. \A n \in Sectors : heard[n] = "again" => heard'[n] = "again"
  BY <1>1, <1>2
<1>4. heard'[sector] = IF good /\ heard[sector] = "nothing" THEN "once" ELSE "again"
  BY <1>1, <1>2
<1>5. InPlace
  BY <1>3 DEF NoneTwice, Once, AtWrap, AtEnd, IInv
<1>6. got \in {sector - 1, sector}
  <2>1. Acked = sector - 1
    BY <1>1, <1>2, AnswersDiffer DEF Acked, Sectors
  <2> QED
    BY <1>1, <1>2, <1>5, <2>1 DEF InPlace, Sectors
<1>7. ~good \/ got = sector => sector % Wrap # 0 /\ sector % Chunk # 0
  <2>1. ~good \/ got = sector => heard'[sector] = "again"
    BY <1>1, <1>4, <1>5 DEF InPlace, Sectors
  <2> QED
    BY <1>1, <2>1 DEF NoneTwice, Once, AtWrap, AtEnd
<1>8. got' = sector
  BY <1>1, <1>6, <1>7
<1>9. chunk % Chunk = 0 /\ got - chunk < Chunk /\ Chunk \in Nat \ {0} /\ sector \in Nat \ {0}
  BY <1>1, <1>5 DEF InPlace, Sectors
<1>10. chunk # sector
  <2>1. chunk = sector => got = sector
    BY <1>2, <1>6, <1>9
  <2> QED
    BY <1>7, <1>9, <2>1
<1>11. sector - chunk \in 1..Chunk
  BY <1>2, <1>6, <1>9, <1>10
<1>12. good \/ sector - chunk < Chunk
  <2>1. (chunk + Chunk) % Chunk = 0
    BY <1>2, <1>9, ModMultiple
  <2>2. sector - chunk = Chunk => sector = chunk + Chunk
    BY <1>2, <1>9
  <2> QED
    BY <1>7, <1>9, <1>11, <2>1, <2>2
<1>13. \A n \in 1..sector : heard'[n] # "nothing"
  <2>1. TAKE n \in 1..sector
  <2>2. CASE n = sector
    BY <1>4, <2>2
  <2>3. CASE n # sector
    <3>1. n \in 1..got /\ n \in Sectors
      BY <1>1, <1>2, <1>6, <1>9, <2>3 DEF Sectors
    <3> QED
      BY <1>2, <1>5, <2>3, <3>1 DEF InPlace
  <2> QED
    BY <2>2, <2>3
<1> QED
  BY <1>5, <1>8, <1>11, <1>12, <1>13

\* Counted after a sector has been taken.
LEMMA TakenCounted ==
  ASSUME IInv, Listening, Head(toR).is = "sector", Header(Head(toR).n), toR' = <<>>,
         UNCHANGED <<sector, faults>>, Settled' \/ Head(toR).wrong # "nothing"
  PROVE  Counted'
<1>1. PICK k \in 0..faults : got' = sector + k * Wrap /\ k + Wrong <= faults
  BY HeaderFacts
<1>2. sector' # 0 /\ faults \in Nat
  BY HeaderFacts DEF IInv, TypeOK
<1>3. Wrong' = 0 /\ Unsettled' <= Wrong
  BY DEF Wrong, Unsettled, Listening
<1>4. Wrong \in Nat /\ Unsettled' \in Nat
  BY DEF Wrong, Unsettled
<1>5. k + 0 + Unsettled' <= faults
  <2>1. PICK w \in Nat, u \in Nat : w = Wrong /\ u = Unsettled' /\ u <= w
    BY <1>3, <1>4
  <2>2. PICK j \in Nat : j = k /\ j + w <= faults
    BY <1>1, <1>2, <2>1
  <2>3. j + 0 + u <= faults
    <3>1. faults \in Nat
      BY <1>2
    <3>2. u <= w
      BY <2>1
    <3>3. j + w <= faults
      BY <2>2
    <3> QED
      BY <3>1, <3>2, <3>3
  <2> QED
    BY <2>1, <2>2, <2>3
<1>6. Level(k)'
  BY <1>1, <1>3, <1>5 DEF Level
<1> QED
  BY <1>2, <1>6 DEF Counted

LEMMA RSectorInv ==
  ASSUME IInv, RSector
  PROVE  IInv'
<1> DEFINE m == Head(toR)
<1>1. /\ Listening /\ m.is = "sector" /\ Header(m.n) /\ Hears(m.n, TRUE)
      /\ toR' = <<>> /\ toS = <<>> /\ receiver = "listen" /\ receiver' = receiver
      /\ UNCHANGED <<sender, sector, snaks, faults>> /\ rnaks' = 0
      /\ ~(got' - chunk > Chunk)
      /\ buf' = [i \in 1..Chunk |-> IF i = got' - chunk THEN m.n ELSE buf[i]]
  BY TakenEmpties DEF RSector, Listening, Taken, sside, Overflow
<1>2. /\ sender = "data" /\ m.n = sector /\ sector \in Nat \ {0} /\ sector <= Size
      /\ got' \in 0..Size + Wrap * MaxFaults /\ got <= got'
  BY <1>1, HeaderFacts
<1>3. toS' = <<"ack">>
  BY <1>1, <1>2, AnswerIs DEF RSector, Answers
<1>4. /\ got \in Nat /\ chunk \in Nat /\ chunk <= got /\ buf \in [1..Chunk -> 0..Size]
      /\ file \in Seq(0..Size) /\ Chunk \in Nat /\ heard \in [Sectors -> {"nothing", "once", "again"}]
  BY DEF IInv, TypeOK
<1>5. buf' \in [1..Chunk -> 0..Size]
  <2>1. \A i \in 1..Chunk : (IF i = got' - chunk THEN m.n ELSE buf[i]) \in 0..Size
    <3>1. m.n \in 0..Size
      BY <1>2
    <3>2. \A i \in 1..Chunk : buf[i] \in 0..Size
      BY <1>4
    <3> QED
      BY <3>1, <3>2
  <2> QED
    BY <1>1, <2>1
<1>6. LoopTop(got', buf')
  BY DEF RSector
<1>7. file' \in Seq(0..Size) /\ chunk' \in 0..got' /\ got' - chunk' <= Chunk
  <2>1. chunk <= got' /\ got' - chunk <= Chunk
    <3>1. PICK g \in Nat, h \in Nat, c \in Nat : g = got' /\ h = got /\ c = chunk /\ h <= g /\ c <= h
      BY <1>2, <1>4
    <3>2. c <= g
      BY <3>1
    <3>3. g - c <= Chunk
      <4>1. ~(g - c > Chunk)
        BY <1>1, <3>1
      <4> QED
        BY <4>1
    <3> QED
      BY <3>1, <3>2, <3>3
  <2> QED
    BY <1>2, <1>5, <1>6, <2>1, LoopTopTypes
<1>8. TypeOK'
  <2>1. toS' \in Seq({"ack", "nak", "can"}) /\ toR' \in Seq(Message)
    BY <1>1, <1>3, AnswersAre DEF Answers
  <2>2. heard' \in [Sectors -> {"nothing", "once", "again"}]
    BY <1>1, <1>4 DEF Hears
  <2>3. /\ UNCHANGED <<sender, sector, snaks, faults, receiver>> /\ rnaks' \in 0..MaxErrors + 1
        /\ got' \in 0..Size + Wrap * MaxFaults
    BY <1>1, <1>2
  <2> QED
    BY <1>5, <1>7, <2>1, <2>2, <2>3 DEF IInv, TypeOK
<1>9. ToReceiver' /\ ToSender' /\ FromSender' /\ Phases'
  BY <1>1, <1>2, <1>3, AnswersDiffer DEF IInv, ToReceiver, ToSender, FromSender, Phases
<1>10. Counted'
  <2>1. Settled'
    BY <1>3 DEF Settled
  <2> QED
    BY <1>1, <2>1, TakenCounted
<1>11. ASSUME NoneTwice'
       PROVE  InPlace'
  <2>1. /\ InPlace /\ got' = sector /\ sector - chunk \in 1..Chunk
        /\ \A n \in 1..sector : heard'[n] # "nothing"
    BY <1>1, <1>11, Hearing
  <2>2. Acked' = sector /\ Acked = sector - 1
    BY <1>1, <1>2, <1>3, AnswersDiffer DEF Acked
  <2>3. \A i \in 1..Chunk : chunk + i <= sector => buf'[i] = chunk + i
    <3>1. TAKE i \in 1..Chunk
    <3>2. CASE i = sector - chunk
      BY <1>1, <1>2, <1>4, <2>1, <3>2
    <3>3. CASE i # sector - chunk
      <4>1. buf'[i] = buf[i]
        BY <1>1, <1>2, <1>4, <2>1, <3>3
      <4>2. chunk + i <= sector => chunk + i <= Acked
        BY <1>2, <1>4, <2>2, <3>3
      <4>3. chunk + i <= Acked => buf[i] = chunk + i
        BY <1>1, <2>1 DEF InPlace
      <4> QED
        BY <4>1, <4>2, <4>3
    <3> QED
      BY <3>2, <3>3
  <2>4. Len(file) = chunk /\ chunk % Chunk = 0 /\ \A i \in 1..Len(file) : file[i] = i
    BY <1>1, <2>1 DEF InPlace
  <2>5. CASE sector - chunk = Chunk
    <3> DEFINE b == [i \in 1..Chunk |-> buf'[i]]
    <3>1. file' = file \o b /\ chunk' = sector
      BY <1>6, <2>1, <2>5 DEF LoopTop
    <3>2. b \in Seq(0..Size) /\ Len(b) = Chunk /\ \A i \in 1..Chunk : b[i] = buf'[i]
      <4>1. b \in Seq(0..Size)
        BY <1>4, <1>5, IsASeq
      <4> QED
        BY <1>4, <4>1
    <3> HIDE DEF b
    <3>3. /\ Len(file') = chunk + Chunk
          /\ \A i \in 1..chunk + Chunk :
               file'[i] = IF i <= chunk THEN file[i] ELSE b[i - chunk]
      <4>1. /\ Len(file \o b) = Len(file) + Len(b)
            /\ \A i \in 1..Len(file) + Len(b) :
                 (file \o b)[i] = IF i <= Len(file) THEN file[i] ELSE b[i - Len(file)]
        BY <1>4, <3>2, ConcatProperties
      <4> QED
        BY <2>4, <3>1, <3>2, <4>1
    <3>4. \A i \in 1..Len(file') : file'[i] = i
      <4>1. TAKE i \in 1..Len(file')
      <4>2. CASE i <= chunk
        BY <1>4, <2>4, <3>3, <4>2
      <4>3. CASE ~(i <= chunk)
        <5>1. i - chunk \in 1..Chunk /\ chunk + (i - chunk) = i /\ i <= sector
          BY <1>2, <1>4, <2>5, <3>3, <4>3
        <5>2. file'[i] = b[i - chunk]
          BY <3>3, <4>3
        <5>3. b[i - chunk] = buf'[i - chunk]
          BY <3>2, <5>1
        <5>4. buf'[i - chunk] = i
          BY <2>3, <5>1
        <5> QED
          BY <5>2, <5>3, <5>4
      <4> QED
        BY <4>2, <4>3
    <3>5. Len(file') = chunk' /\ chunk' % Chunk = 0
      <4>1. sector = chunk + Chunk
        BY <1>2, <1>4, <2>5
      <4> QED
        BY <1>4, <2>4, <3>1, <3>3, <4>1, ModMultiple
    <3>6. \A i \in 1..Chunk : ~(chunk' + i <= Acked')
      BY <1>2, <2>2, <3>1
    <3>7. got' - chunk' < Chunk
      BY <1>2, <2>1, <3>1
    <3> QED
      BY <1>1, <1>2, <2>1, <2>2, <3>4, <3>5, <3>6, <3>7 DEF InPlace
  <2>6. CASE sector - chunk # Chunk
    <3>1. UNCHANGED <<file, chunk>>
      BY <1>6, <2>1, <2>6 DEF LoopTop
    <3>2. got' - chunk' < Chunk
      BY <1>2, <1>4, <2>1, <2>6, <3>1
    <3> QED
      BY <1>1, <1>2, <2>1, <2>2, <2>3, <2>4, <3>1, <3>2 DEF InPlace
  <2> QED
    BY <2>5, <2>6
<1> QED
  BY <1>8, <1>9, <1>10, <1>11 DEF IInv

LEMMA RBadDataInv ==
  ASSUME IInv, RBadData
  PROVE  IInv'
<1> DEFINE m == Head(toR)
<1>1. /\ Listening /\ m.is = "sector" /\ m.wrong # "nothing" /\ Header(m.n) /\ Hears(m.n, FALSE)
      /\ toR' = <<>> /\ toS = <<>> /\ toS' = <<>> /\ receiver = "listen" /\ receiver' = "gobble"
      /\ UNCHANGED <<sender, sector, snaks, faults, chunk, file, rnaks>>
      /\ ~(got' - chunk > Chunk)
      /\ buf' = [i \in 1..Chunk |-> IF i = got' - chunk THEN Bad ELSE buf[i]]
  BY TakenEmpties DEF RBadData, Listening, Taken, sside, Overflow
<1>2. /\ sender = "data" /\ m.n = sector /\ sector \in Nat \ {0} /\ sector <= Size
      /\ got' \in 0..Size + Wrap * MaxFaults /\ got <= got'
  BY <1>1, HeaderFacts
<1>3. /\ got \in Nat /\ chunk \in Nat /\ chunk <= got /\ buf \in [1..Chunk -> 0..Size]
      /\ Chunk \in Nat /\ heard \in [Sectors -> {"nothing", "once", "again"}]
  BY DEF IInv, TypeOK
<1>4. TypeOK'
  <2>1. heard' \in [Sectors -> {"nothing", "once", "again"}]
    BY <1>1, <1>3 DEF Hears
  <2>2. buf' \in [1..Chunk -> 0..Size]
    BY <1>1, <1>3 DEF Bad
  <2>3. chunk' \in 0..got' /\ got' - chunk' <= Chunk
    <3>1. PICK g \in Nat, h \in Nat, c \in Nat : g = got' /\ h = got /\ c = chunk /\ h <= g /\ c <= h
      BY <1>2, <1>3
    <3>2. c \in 0..g
      BY <3>1
    <3>3. g - c <= Chunk
      <4>1. ~(g - c > Chunk)
        BY <1>1, <3>1
      <4> QED
        BY <4>1
    <3>4. chunk' = chunk
      BY <1>1
    <3> QED
      BY <3>1, <3>2, <3>3, <3>4
  <2>4. /\ UNCHANGED <<sender, sector, snaks, faults, file, rnaks>> /\ receiver' = "gobble"
        /\ toR' = <<>> /\ toS' = <<>> /\ got' \in 0..Size + Wrap * MaxFaults
    BY <1>1, <1>2
  <2> QED
    BY <2>1, <2>2, <2>3, <2>4 DEF IInv, TypeOK
<1>5. ToReceiver' /\ ToSender' /\ FromSender' /\ Phases'
  BY <1>1, <1>2, AnswersDiffer DEF IInv, ToReceiver, ToSender, FromSender, Phases
<1>6. Counted'
  BY <1>1, TakenCounted
<1>7. ASSUME NoneTwice'
      PROVE  InPlace'
  <2>1. /\ InPlace /\ got' = sector /\ sector - chunk \in 1..Chunk /\ sector - chunk < Chunk
        /\ \A n \in 1..sector : heard'[n] # "nothing"
    BY <1>1, <1>7, Hearing
  <2>2. Acked' = sector - 1 /\ Acked = sector - 1
    BY <1>1, <1>2, AnswersDiffer DEF Acked
  <2>3. \A i \in 1..Chunk : chunk + i <= Acked' => buf'[i] = chunk + i
    <3>1. TAKE i \in 1..Chunk
    <3>2. chunk + i <= Acked' => i # sector - chunk
      BY <1>2, <1>3, <2>2
    <3>3. i # sector - chunk => buf'[i] = buf[i]
      BY <1>1, <2>1
    <3>4. chunk + i <= Acked => buf[i] = chunk + i
      BY <1>1, <2>1 DEF InPlace
    <3> QED
      BY <2>2, <3>2, <3>3, <3>4
  <2>4. /\ Len(file) = chunk /\ chunk % Chunk = 0 /\ \A i \in 1..Len(file) : file[i] = i
    BY <1>1, <2>1 DEF InPlace
  <2>5. Acked' <= got' /\ got' <= sector'
    BY <1>1, <1>2, <2>1, <2>2
  <2> QED
    BY <1>1, <2>1, <2>3, <2>4, <2>5 DEF InPlace
<1> QED
  BY <1>4, <1>5, <1>6, <1>7 DEF IInv

\* There is always room for the sector as long as none comes twice that must not.
LEMMA ROverflowInv ==
  ASSUME IInv, ROverflow
  PROVE  IInv'
<1> DEFINE m == Head(toR)
<1>1. /\ Listening /\ m.is = "sector" /\ Header(m.n) /\ Hears(m.n, TRUE)
      /\ toR' = <<>> /\ toS = <<>> /\ receiver = "listen" /\ receiver' = "failed"
      /\ UNCHANGED <<sender, sector, snaks, faults, chunk, buf, file, rnaks>>
      /\ got' - chunk > Chunk
  BY TakenEmpties DEF ROverflow, Listening, Taken, sside, Overflow
<1>2. /\ sender = "data" /\ m.n = sector /\ sector \in Nat \ {0} /\ sector <= Size
      /\ got' \in 0..Size + Wrap * MaxFaults /\ got <= got'
  BY <1>1, HeaderFacts
<1>3. toS' = <<"can">>
  BY <1>1, <1>2, AnswerIs DEF ROverflow, Answers
<1>4. TypeOK'
  <2>1. heard' \in [Sectors -> {"nothing", "once", "again"}]
    BY <1>1 DEF Hears, IInv, TypeOK
  <2>2. toS' \in Seq({"ack", "nak", "can"}) /\ toR' \in Seq(Message)
    BY <1>1, <1>3, AnswersAre DEF Answers
  <2>3. chunk' \in 0..got'
    BY <1>1, <1>2 DEF IInv, TypeOK
  <2> QED
    BY <1>1, <1>2, <2>1, <2>2, <2>3 DEF IInv, TypeOK
<1>5. ToReceiver' /\ ToSender' /\ FromSender' /\ Phases'
  BY <1>1, <1>2, <1>3, AnswersDiffer DEF IInv, ToReceiver, ToSender, FromSender, Phases
<1>6. Counted'
  BY <1>1, TakenCounted DEF Settled
<1>7. ~NoneTwice'
  <2>1. NoneTwice' => got' = sector /\ sector - chunk \in 1..Chunk
    BY <1>1, Hearing
  <2> QED
    BY <1>1, <2>1
<1> QED
  BY <1>4, <1>5, <1>6, <1>7 DEF IInv
-----------------------------------------------------------------------------
(***************************************************************************)
(* The line.                                                               *)
(***************************************************************************)
\* An answer is lost: the sector it was for may come again, and this fault pays for it.
LEMMA AnswerLostInv ==
  ASSUME IInv, toS # <<>>, toS' = Tail(toS), faults < MaxFaults, faults' = faults + 1,
         UNCHANGED <<sside, rside, toR>>
  PROVE  IInv'
<1>1. toR = <<>> /\ toS \in Answers /\ receiver \notin {"start", "gobble"}
  BY DEF IInv, ToReceiver, ToSender, Answers
<1>2. toS' \in {<<>>, <<"nak">>}
  BY <1>1, AnswersAre
<1>3. faults \in Nat /\ faults' \in 0..MaxFaults /\ sector \in Nat
  BY DEF IInv, TypeOK
<1>4. TypeOK'
  <2>1. toS' \in Seq({"ack", "nak", "can"})
    BY <1>2, AnswersAre DEF Answers
  <2> QED
    BY <1>3, <2>1 DEF IInv, TypeOK, sside, rside
<1>5. ToReceiver' /\ ToSender' /\ FromSender' /\ Phases'
  BY <1>1, <1>2, AnswersDiffer
     DEF IInv, sside, rside, ToReceiver, ToSender, FromSender, Phases
<1>6. Counted'
  <2>1. Wrong = 0 /\ Wrong' = 0 /\ Unsettled \in {0, 1} /\ Unsettled' \in {0, 1}
    BY <1>1 DEF Wrong, Unsettled
  <2>2. ASSUME NEW k \in Nat
        PROVE  (Behind(k) => Behind(k)') /\ (Level(k) => Level(k)')
    <3>1. k + Wrong <= faults => k + Wrong' <= faults'
      BY <1>3, <2>1
    <3>2. k + Wrong + Unsettled <= faults => k + Wrong' + Unsettled' <= faults'
      <4>1. PICK u \in {0, 1}, v \in {0, 1} : u = Unsettled /\ v = Unsettled'
        BY <2>1
      <4>2. k + 0 + u <= faults => k + 0 + v <= faults'
        BY <1>3
      <4> QED
        BY <2>1, <4>1, <4>2
    <3>3. Behind(k) => Behind(k)'
      BY <1>2, <3>1, AnswersDiffer DEF Behind, sside, rside
    <3>4. Level(k) => Level(k)'
      BY <3>2 DEF Level, sside, rside
    <3> QED
      BY <3>3, <3>4
  <2>3. Counted
    BY DEF IInv
  <2> QED
    BY <1>3, <2>2, <2>3 DEF Counted, sside, rside
<1>7. NoneTwice' => InPlace'
  <2>1. Acked' \in Int /\ Acked' <= Acked
    BY <1>2, <1>3, AnswersDiffer DEF Acked, sside
  <2> QED
    BY <1>3, <2>1, PlaceKept DEF sside, rside
<1> QED
  BY <1>4, <1>5, <1>6, <1>7 DEF IInv

\* A message is damaged, and will come again, for which this fault pays.
LEMMA DamageInv ==
  ASSUME IInv, Damage, faults < MaxFaults, faults' = faults + 1, UNCHANGED <<sside, rside>>
  PROVE  IInv'
<1> DEFINE m == Head(toR)
<1>1. /\ toR \in Seq(Message) /\ Len(toR) = 1 /\ m = toR[1] /\ m \in Message /\ toS = <<>>
      /\ toS' = <<>> /\ toR # <<>>
  BY TakenEmpties DEF Damage, IInv, TypeOK
<1>2. PICK w \in {"header", "data"} : toR' = [toR EXCEPT ![1].wrong = w]
  BY DEF Damage
<1>3. [m EXCEPT !.wrong = w] \in Message /\ [m EXCEPT !.wrong = w].is = m.is
      /\ [m EXCEPT !.wrong = w].n = m.n /\ [m EXCEPT !.wrong = w].wrong = w
  BY <1>1 DEF Message
<1> DEFINE d == [m EXCEPT !.wrong = w]
<1>4. toR' = [toR EXCEPT ![1] = d]
  BY <1>1, <1>2
<1> HIDE DEF d
<1>5. toR' \in Seq(Message) /\ Len(toR') = 1 /\ toR'[1] = d
  <2>1. 1 \in 1..Len(toR) /\ d \in Message
    BY <1>1, <1>3 DEF d
  <2> QED
    BY <1>1, <1>4, <2>1, ExceptSeq
<1>6. toR' # <<>> /\ Head(toR') = d
  <2>1. toR' # <<>>
    <3>1. Len(<<>>) # 1
      OBVIOUS
    <3> QED
      BY <1>5, <3>1
  <2>2. Head(toR') = toR'[1]
    BY <1>5, <2>1, OneTaken
  <2> QED
    BY <1>5, <2>1, <2>2
<1>7. d.is = m.is /\ d.n = m.n /\ d.wrong # "nothing"
  BY <1>3 DEF d
<1>8. faults \in Nat /\ faults' \in 0..MaxFaults /\ sector \in Nat
  BY DEF IInv, TypeOK
<1>9. TypeOK'
  BY <1>1, <1>5, <1>8 DEF IInv, TypeOK, sside, rside
<1>10. ToReceiver' /\ ToSender' /\ FromSender' /\ Phases'
  BY <1>1, <1>5, <1>6, <1>7, AnswersDiffer
     DEF IInv, sside, rside, ToReceiver, ToSender, FromSender, Phases
<1>11. Counted'
  <2>1. Wrong \in {0, 1} /\ Wrong' = 1 /\ Unsettled \in {0, 1} /\ Unsettled' = Unsettled
    BY <1>1, <1>6, <1>7 DEF Wrong, Unsettled, Settled, sside, rside
  <2>2. ASSUME NEW k \in Nat
        PROVE  (Behind(k) => Behind(k)') /\ (Level(k) => Level(k)')
    <3>1. PICK v \in {0, 1}, u \in {0, 1} : v = Wrong /\ u = Unsettled
      BY <2>1
    <3>2. (k + v <= faults => k + 1 <= faults') /\ (k + v + u <= faults => k + 1 + u <= faults')
      BY <1>8
    <3>3. Behind(k) => Behind(k)'
      BY <1>1, <2>1, <3>1, <3>2, AnswersDiffer DEF Behind, sside, rside
    <3>4. Level(k) => Level(k)'
      BY <2>1, <3>1, <3>2 DEF Level, sside, rside
    <3> QED
      BY <3>3, <3>4
  <2>3. Counted
    BY DEF IInv
  <2> QED
    BY <1>8, <2>2, <2>3 DEF Counted, sside, rside
<1>12. NoneTwice' => InPlace'
  <2>1. Acked' = Acked /\ Acked \in Int
    BY <1>1, <1>8 DEF Acked, sside
  <2> QED
    BY <1>8, <2>1, PlaceKept DEF sside, rside
<1> QED
  BY <1>9, <1>10, <1>11, <1>12 DEF IInv

LEMMA FaultInv ==
  ASSUME IInv, Fault
  PROVE  IInv'
<1>1. faults < MaxFaults /\ faults' = faults + 1 /\ UNCHANGED <<sside, rside>> /\ (Lose \/ Damage)
  BY DEF Fault
<1>2. CASE toR # <<>> /\ toR' = Tail(toR) /\ UNCHANGED toS
  <2>1. faults' <= MaxFaults
    BY <1>1 DEF IInv, TypeOK
  <2> QED
    BY <1>1, <1>2, <2>1, TakenEmpties, DroppedInv DEF sside, rside
<1>3. CASE toS # <<>> /\ toS' = Tail(toS) /\ UNCHANGED toR
  BY <1>1, <1>3, AnswerLostInv
<1>4. CASE Damage
  BY <1>1, <1>4, DamageInv
<1> QED
  BY <1>1, <1>2, <1>3, <1>4 DEF Lose
-----------------------------------------------------------------------------
LEMMA InitInv ==
  ASSUME Init
  PROVE  IInv
<1>1. TypeOK
  <2>1. <<>> \in Seq(0..Size) /\ <<>> \in Seq(Message) /\ <<>> \in Seq({"ack", "nak", "can"})
    BY EmptySeq
  <2>2. 0 \in 0..Size + Wrap * MaxFaults
    BY Bounded
  <2> QED
    BY <2>1, <2>2 DEF Init, TypeOK, Bad
<1>2. ToReceiver /\ ToSender /\ FromSender /\ Phases /\ Counted
  BY AnswersDiffer DEF Init, ToReceiver, ToSender, FromSender, Phases, Counted
<1>3. InPlace
  <2>1. 0 % Chunk = 0 /\ Acked = 0 /\ Len(file) = 0
    BY DEF Init, Acked
  <2> QED
    BY <2>1 DEF Init, InPlace
<1> QED
  BY <1>1, <1>2, <1>3 DEF IInv

LEMMA NextInv ==
  ASSUME IInv, [Next]_vars
  PROVE  IInv'
<1>1. CASE SStart
  BY <1>1, SStartInv
<1>2. CASE Send
  BY <1>2, SBeginInv, SStartTimeoutInv, SAckInv, SNakInv, SCanInv, STimeoutInv DEF Send
<1>3. CASE Receive
  BY <1>3, RStartInv, RSectorInv, RBadDataInv, ROverflowInv, RBadHeaderInv, RTimeoutInv,
     RGobbleInv, RNakInv, REotInv, RCanInv, RGoneInv DEF Receive
<1>4. CASE Fault
  BY <1>4, FaultInv
<1>5. CASE UNCHANGED vars
  <2>1. UNCHANGED <<sender, sector, snaks, receiver, got, chunk, buf, file, rnaks, heard, toR,
                    toS, faults>>
    BY <1>5 DEF vars, sside, rside
  <2>2. Acked' = Acked /\ NoneTwice' = NoneTwice /\ Wrong' = Wrong /\ Unsettled' = Unsettled
    BY <2>1 DEF Acked, NoneTwice, Once, AtWrap, AtEnd, Wrong, Unsettled, Settled
  <2>3. TypeOK' /\ ToReceiver' /\ ToSender' /\ FromSender' /\ Phases'
    BY <2>1 DEF IInv, TypeOK, ToReceiver, ToSender, FromSender, Phases
  <2>4. Counted'
    BY <2>1, <2>2 DEF IInv, Counted, Behind, Level
  <2>5. NoneTwice' => InPlace'
    BY <2>1, <2>2 DEF IInv, InPlace
  <2> QED
    BY <2>3, <2>4, <2>5 DEF IInv
<1> QED
  BY <1>1, <1>2, <1>3, <1>4, <1>5 DEF Next

\* What each side knows of the other, and where every sector is, hold in all behaviours of
\* sx and start-receive, whatever the line loses or damages.
THEOREM Invariance == Spec => []IInv
<1>1. Init => IInv
  BY InitInv
<1>2. IInv /\ [Next]_vars => IInv'
  BY NextInv
<1> QED
  BY <1>1, <1>2, PTL DEF Spec

\* The variables of both sides keep their types; got-sector# never gets ahead by more than
\* Wrap for each fault of the line (update-sector#).
THEOREM TypeCorrect == Spec => []TypeOK
<1>1. IInv => TypeOK
  BY DEF IInv
<1> QED
  BY <1>1, Invariance, PTL

\* xmodem-to-file: writes the sectors that were sent, in order, and all of them when the
\* transfer is over on both sides, as long as no sector that update-sector# or
\* try-receive would misplace comes twice.
THEOREM FileStaysIntact == Spec => []FileIsSent
<1>1. IInv => FileIsSent
  BY DEF IInv, FileIsSent, FileIntact, NoneTwice, InPlace, Phases
<1> QED
  BY <1>1, Invariance, PTL

\* wait-ack lets the sender go on to the next sector only when try-receive has put this one
\* where it belongs.
THEOREM AckedStaysStored == Spec => []AckedIsStored
<1>1. IInv => AckedIsStored
  <2> SUFFICES ASSUME IInv, NoneTwice, NEW n \in 1..sector,
                      n < sector \/ sender \in {"eot", "done"}
               PROVE  n <= Len(Received) /\ Received[n] = n
    BY DEF AckedIsStored, NoneTwice
  <2>1. InPlace /\ sector \in Nat /\ n \in Nat \ {0}
    BY DEF IInv, TypeOK
  <2>2. n <= Acked
    BY <2>1 DEF Acked
  <2>3. /\ Acked \in Nat /\ Acked <= got /\ got \in Nat /\ chunk \in Nat /\ chunk <= got
        /\ got - chunk < Chunk /\ Chunk \in Nat /\ got <= Size
    BY <2>1 DEF InPlace, Acked, IInv, TypeOK
  <2>4. CASE receiver = "done"
    BY <2>1, <2>2, <2>3, <2>4 DEF InPlace, Received
  <2>5. CASE receiver # "done"
    <3> DEFINE rest == SubSeq(buf, 1, got - chunk)
    <3>1. buf \in [1..Chunk -> 0..Size] /\ file \in Seq(0..Size) /\ Len(file) = chunk
      BY <2>1, <2>5 DEF IInv, TypeOK, InPlace
    <3>2. \A i \in 1..got - chunk : buf[i] \in 0..Size
      BY <2>3, <3>1
    <3>3. rest \in Seq(0..Size) /\ Len(rest) = got - chunk
          /\ \A i \in 1..got - chunk : rest[i] = buf[i]
      BY <2>3, <3>1, <3>2, SubSeqProperties
    <3>4. Received = file \o rest
      BY <2>5 DEF Received
    <3> HIDE DEF rest
    <3>5. /\ Len(file \o rest) = chunk + (got - chunk)
          /\ \A i \in 1..chunk + (got - chunk) :
               (file \o rest)[i] = IF i <= chunk THEN file[i] ELSE rest[i - chunk]
      <4>1. /\ Len(file \o rest) = Len(file) + Len(rest)
            /\ \A i \in 1..Len(file) + Len(rest) :
                 (file \o rest)[i] = IF i <= Len(file) THEN file[i] ELSE rest[i - Len(file)]
        BY <3>1, <3>3, ConcatProperties
      <4> QED
        BY <3>1, <3>3, <4>1
    <3>6. n \in 1..chunk + (got - chunk)
      BY <2>1, <2>2, <2>3
    <3>7. CASE n <= chunk
      BY <2>1, <2>3, <3>1, <3>4, <3>5, <3>6, <3>7 DEF InPlace
    <3>8. CASE ~(n <= chunk)
      <4>1. n - chunk \in 1..got - chunk /\ n - chunk \in 1..Chunk /\ chunk + (n - chunk) = n
        BY <2>1, <2>2, <2>3, <3>8
      <4>2. buf[n - chunk] = n
        BY <2>1, <2>2, <2>5, <4>1 DEF InPlace
      <4>3. (file \o rest)[n] = rest[n - chunk]
        BY <3>5, <3>6, <3>8
      <4> QED
        BY <3>3, <3>4, <3>5, <3>6, <4>1, <4>2, <4>3
    <3> QED
      BY <3>7, <3>8
  <2> QED
    BY <2>4, <2>5
<1> QED
  BY <1>1, Invariance, PTL
=============================================================================
