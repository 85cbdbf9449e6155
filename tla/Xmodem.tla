------------------------------- MODULE Xmodem -------------------------------
(***************************************************************************)
(* The sender (sx) and the receiver (start-receive, +receive) of           *)
(* xmodem.fth, each on its machine, and a serial line that loses and       *)
(* damages what they send.  The receiver takes the file one buffer at a    *)
(* time, as xmodem-to-file: does.  Bytes arrive long before a timeout, so  *)
(* a side times out only when nothing is under way to either; a byte is    *)
(* never damaged into a control character, and a checksum never fits       *)
(* damaged data.                                                           *)
(***************************************************************************)
EXTENDS Integers, Sequences

CONSTANTS Size,      \* sectors to send
          Wrap,      \* sector numbers go over the line modulo this (256)
          Chunk,     \* sectors that the buffer of the receiver holds
          MaxErrors, \* max#errors
          MaxFaults  \* bound on the faults of the line

ASSUME XmodemAssumption == /\ {Size, Chunk, MaxErrors} \subseteq Nat \ {0}
                           /\ Wrap \in Nat \ {0, 1} /\ MaxFaults \in Nat

VARIABLES sender,  \* where the sender is
          sector,  \* sector#
          snaks,   \* #naks of the sender
          receiver, \* where the receiver is
          got,     \* got-sector#
          chunk,   \* chunk-sector#
          buf,     \* the buffer from base-adr to end-adr
          file,    \* the sectors the application has written
          rnaks,   \* #naks of the receiver
          toR, toS, \* what is under way to each
          faults,  \* the faults so far
          heard    \* history: what was heard of each sector

sside == <<sender, sector, snaks>>
rside == <<receiver, got, chunk, buf, file, rnaks, heard>>
vars == <<sside, rside, toR, toS, faults>>

Sectors == 1..Size
Bad == 0                        \* data that are not those of a sector
Message == [is : {"sector", "eot", "can"}, n : 0..Size, wrong : {"nothing", "header", "data"}]

TypeOK == /\ sender \in {"off", "start", "data", "eot", "done", "aborted"}
          /\ sector \in 0..Size /\ snaks \in 0..MaxErrors
          /\ receiver \in {"start", "listen", "gobble", "done", "failed"}
          /\ got \in 0..Size + Wrap * MaxFaults /\ chunk \in 0..got
          /\ receiver \in {"listen", "gobble"} => got - chunk <= Chunk
          /\ buf \in [1..Chunk -> 0..Size] /\ file \in Seq(0..Size)
          /\ rnaks \in 0..MaxErrors + 1
          /\ toR \in Seq(Message) /\ toS \in Seq({"ack", "nak", "can"})
          /\ faults \in 0..MaxFaults /\ heard \in [Sectors -> {"nothing", "once", "again"}]

AtMost(n, m) == IF n > m THEN m ELSE n
Quiet == toR = <<>> /\ toS = <<>>
-----------------------------------------------------------------------------
(***************************************************************************)
(* The sender.                                                             *)
(***************************************************************************)
EotMessage == [is |-> "eot", n |-> 0, wrong |-> "nothing"]
CanMessage == [is |-> "can", n |-> 0, wrong |-> "nothing"]
SectorMessage(n) == [is |-> "sector", n |-> n, wrong |-> "nothing"]

\* send-packet, or the EOT of end-data.
Current == IF sender = "eot" THEN EotMessage ELSE SectorMessage(sector)

\* The first `gobble` of start-receiver eats what was there before.
SStart == /\ sender = "off" /\ sender' = "start"
          /\ toS' = <<>>
          /\ UNCHANGED <<sector, snaks, rside, toR, faults>>

\* start-receiver: the first NAK, and a `gobble` after it.
SBegin == /\ sender = "start" /\ toS # <<>> /\ Head(toS) = "nak"
          /\ sender' = "data" /\ sector' = 1 /\ snaks' = 0
          /\ toR' = Append(toR, SectorMessage(1)) /\ toS' = <<>>
          /\ UNCHANGED <<rside, faults>>

SStartTimeout == /\ sender = "start" /\ Quiet
                 /\ sender' = "aborted"
                 /\ UNCHANGED <<sector, snaks, rside, toR, toS, faults>>

Waiting == sender \in {"data", "eot"}

\* wait-ack: ACK, NAK, CAN and timeout.  #errors is cleared whenever wait-ack begins,
\* and so never comes near max#errors.
SAck == /\ Waiting /\ toS # <<>> /\ Head(toS) = "ack"
        /\ toS' = Tail(toS) /\ snaks' = 0
        /\ \/ /\ sender = "data" /\ sector < Size
              /\ sector' = sector + 1 /\ UNCHANGED sender
              /\ toR' = Append(toR, SectorMessage(sector + 1))
           \/ /\ sender = "data" /\ sector = Size
              /\ sender' = "eot" /\ UNCHANGED sector
              /\ toR' = Append(toR, EotMessage)
           \/ /\ sender = "eot" /\ sender' = "done"
              /\ UNCHANGED <<sector, toR>>
        /\ UNCHANGED <<rside, faults>>

SNak == /\ Waiting /\ toS # <<>> /\ Head(toS) = "nak"
        /\ toS' = Tail(toS)
        /\ IF snaks + 1 > MaxErrors
           THEN /\ sender' = "aborted" /\ toR' = Append(toR, CanMessage)
                /\ UNCHANGED snaks
           ELSE /\ snaks' = snaks + 1 /\ toR' = Append(toR, Current)
                /\ UNCHANGED sender
        /\ UNCHANGED <<sector, rside, faults>>

SCan == /\ sender \in {"start", "data", "eot"} /\ toS # <<>> /\ Head(toS) = "can"
        /\ toS' = <<>> /\ sender' = "aborted"
        /\ UNCHANGED <<sector, snaks, rside, toR, faults>>

STimeout == /\ Waiting /\ Quiet
            /\ toR' = Append(toR, Current)
            /\ UNCHANGED <<sside, rside, toS, faults>>

Send == SBegin \/ SStartTimeout \/ SAck \/ SNak \/ SCan \/ STimeout
-----------------------------------------------------------------------------
(***************************************************************************)
(* The receiver.                                                           *)
(***************************************************************************)
\* update-sector#, of the number that came over the line.
UpdateSectorLow(b) == (got - (got % Wrap)) + b
UpdateSector(b) == (got - (got % Wrap)) + (IF b = 0 THEN Wrap ELSE b)

\* What the receiver emits is for nobody when the sender is not there.
Answer(s) == toS' = IF sender \in {"off", "done", "aborted"} THEN toS ELSE toS \o s

\* The loop of +receive: a buffer that is full goes to the application, which comes
\* back for the next one.
LoopTop(g, b) ==
  IF g - chunk = Chunk
  THEN file' = file \o [i \in 1..Chunk |-> b[i]] /\ chunk' = g
  ELSE UNCHANGED <<file, chunk>>

\* bottom-adr against end-adr.
OverflowNever(p) == FALSE
Overflow(p) == p > Chunk

Listening == receiver = "listen" /\ toR # <<>>
Taken == toR' = Tail(toR) /\ UNCHANGED <<sside, faults>>
Header(n) == got' = UpdateSector(n % Wrap)
Hears(n, good) ==
  heard' = [heard EXCEPT ![n] = IF good /\ @ = "nothing" THEN "once" ELSE "again"]

\* try-receive of a whole sector.  One from before this buffer goes to junk-buf.
RSectorOnce ==
  LET m == Head(toR)
  IN  /\ Listening /\ m.is = "sector" /\ m.wrong = "nothing"
      /\ Header(m.n) /\ Hears(m.n, TRUE) /\ ~Overflow(got' - chunk)
      /\ buf' = [i \in 1..Chunk |-> IF i = got' - chunk THEN m.n ELSE buf[i]]
      /\ IF got' = got THEN UNCHANGED toS ELSE Answer(<<"ack">>)
      /\ rnaks' = 0
      /\ LoopTop(got', buf')
      /\ Taken /\ UNCHANGED receiver
RSector ==
  LET m == Head(toR)
  IN  /\ Listening /\ m.is = "sector" /\ m.wrong = "nothing"
      /\ Header(m.n) /\ Hears(m.n, TRUE) /\ ~Overflow(got' - chunk)
      /\ buf' = [i \in 1..Chunk |-> IF i = got' - chunk THEN m.n ELSE buf[i]]
      /\ Answer(<<"ack">>) /\ rnaks' = 0
      /\ LoopTop(got', buf')
      /\ Taken /\ UNCHANGED receiver

\* start-receive
RStart == /\ receiver = "start" /\ toR = <<>>
          /\ Answer(<<"nak">>) /\ receiver' = "listen"
          /\ UNCHANGED <<sside, got, chunk, buf, file, rnaks, heard, toR, faults>>

\* The data are short or do not fit the checksum: the number has been taken already.
RBadDataAcks ==
  LET m == Head(toR)
  IN  /\ Listening /\ m.is = "sector" /\ m.wrong = "data"
      /\ Header(m.n) /\ Hears(m.n, FALSE) /\ ~Overflow(got' - chunk)
      /\ buf' = [i \in 1..Chunk |-> IF i = got' - chunk THEN Bad ELSE buf[i]]
      /\ Answer(<<"ack">>) /\ receiver' = "gobble"
      /\ Taken /\ UNCHANGED <<chunk, file, rnaks>>
RBadData ==
  LET m == Head(toR)
  IN  /\ Listening /\ m.is = "sector" /\ m.wrong = "data"
      /\ Header(m.n) /\ Hears(m.n, FALSE) /\ ~Overflow(got' - chunk)
      /\ buf' = [i \in 1..Chunk |-> IF i = got' - chunk THEN Bad ELSE buf[i]]
      /\ receiver' = "gobble"
      /\ Taken /\ UNCHANGED <<chunk, file, rnaks, toS>>

\* There is no room for the sector.
ROverflow ==
  LET m == Head(toR)
  IN  /\ Listening /\ m.is = "sector" /\ m.wrong # "header"
      /\ Header(m.n) /\ Hears(m.n, TRUE) /\ Overflow(got' - chunk)
      /\ Answer(<<"can">>) /\ receiver' = "failed"
      /\ Taken /\ UNCHANGED <<chunk, buf, file, rnaks>>

\* Any other byte, or a sector number and complement that do not fit.
RBadHeader == /\ Listening /\ Head(toR).wrong = "header"
              /\ receiver' = "gobble"
              /\ Taken /\ UNCHANGED <<got, chunk, buf, file, rnaks, heard, toS>>

RTimeout == /\ receiver = "listen" /\ Quiet
            /\ receiver' = "gobble"
            /\ UNCHANGED <<sside, got, chunk, buf, file, rnaks, heard, toR, toS, faults>>

\* receive-error: eat what comes, then NAK.  rx-abort aborts nothing.
RGobble == /\ receiver \in {"start", "gobble"} /\ toR # <<>>
           /\ Taken /\ UNCHANGED <<rside, toS>>

RNak == /\ receiver = "gobble" /\ toR = <<>>
        /\ rnaks' = AtMost(rnaks + 1, MaxErrors + 1)
        /\ Answer(IF rnaks' > MaxErrors THEN <<"can", "nak">> ELSE <<"nak">>)
        /\ receiver' = "listen"
        /\ LoopTop(got, buf)
        /\ UNCHANGED <<sside, got, buf, heard, toR, faults>>

REot == /\ Listening /\ Head(toR) = EotMessage
        /\ Answer(<<"ack">>) /\ receiver' = "done"
        /\ file' = file \o SubSeq(buf, 1, got - chunk)
        /\ Taken /\ UNCHANGED <<got, chunk, buf, rnaks, heard>>

RCan == /\ Listening /\ Head(toR) = CanMessage
        /\ receiver' = "failed"
        /\ Taken /\ UNCHANGED <<got, chunk, buf, file, rnaks, heard, toS>>

\* A receiver that has returned reads nothing.
RGone == /\ receiver \in {"done", "failed"} /\ toR # <<>>
         /\ Taken /\ UNCHANGED <<rside, toS>>

Receive == \/ RStart \/ RSector \/ RBadData \/ ROverflow \/ RBadHeader \/ RTimeout
           \/ RGobble \/ RNak \/ REot \/ RCan \/ RGone
-----------------------------------------------------------------------------
\* The line loses or damages the first of what is under way.
Lose == /\ \/ toR # <<>> /\ toR' = Tail(toR) /\ UNCHANGED toS
           \/ toS # <<>> /\ toS' = Tail(toS) /\ UNCHANGED toR
Damage == /\ toR # <<>> /\ UNCHANGED toS
          /\ \E w \in IF Head(toR).is = "sector" THEN {"header", "data"} ELSE {"header"} :
               toR' = [toR EXCEPT ![1].wrong = w]
Fault == /\ faults < MaxFaults /\ faults' = faults + 1
         /\ Lose \/ Damage
         /\ UNCHANGED <<sside, rside>>

Init == /\ sender = "off" /\ sector = 0 /\ snaks = 0
        /\ receiver = "start" /\ got = 0 /\ chunk = 0 /\ rnaks = 0
        /\ buf = [i \in 1..Chunk |-> Bad] /\ file = <<>>
        /\ toR = <<>> /\ toS = <<>> /\ faults = 0
        /\ heard = [n \in Sectors |-> "nothing"]

Next == SStart \/ Send \/ Receive \/ Fault

\* Both programs run, and their timers with them; the 100 ms of `gobble` are over before
\* the sender's six seconds are for the second time.
Fairness == WF_vars(Send) /\ WF_vars(Receive) /\ SF_vars(RNak)

Spec == Init /\ [][Next]_vars /\ Fairness
-----------------------------------------------------------------------------
(***************************************************************************)
(* Properties.                                                             *)
(***************************************************************************)
\* Sectors that cannot be sent twice: their number goes over the line as 0, or they
\* are the last that the buffer holds.
AtWrap == {n \in Sectors : n % Wrap = 0}
AtEnd == {n \in Sectors : n % Chunk = 0}
Once(S) == \A n \in S : heard[n] # "again"

\* The file is made of the sectors that were sent, in order, and is complete when
\* both sides say so.
FileIntact == /\ \A i \in 1..Len(file) : file[i] = i
              /\ receiver = "done" => Len(file) = Size
              /\ sender = "done" => receiver = "done"

\* Whatever the line does, the file is what was sent, as long as none of those sectors
\* is sent twice (update-sector#, try-receive, wait-ack).
FileIsSent == Once(AtWrap \union AtEnd) => FileIntact

\* The sender goes on to the next sector only when the receiver has this one in its
\* place (try-receive, wait-ack).
Received == IF receiver = "done" THEN file ELSE file \o SubSeq(buf, 1, got - chunk)
AckedIsStored ==
  Once(AtWrap \union AtEnd) /\ receiver # "failed" =>
    \A n \in 1..sector : n < sector \/ sender \in {"eot", "done"} =>
       n <= Len(Received) /\ Received[n] = n

\* A sector that is under way is the beginning of the whole file if the line has no
\* more faults in it than the sides have patience (receive-error, wait-ack).
Patience == MaxErrors - (MaxFaults - faults)
Arrives == receiver = "listen" /\ toR = <<Current>> /\ rnaks <= Patience /\ snaks <= Patience
             ~> receiver = "done" \/ ~Once(AtWrap \union AtEnd)

\* xmodem.fth:136 provides for a sector that is sent again.  One at the end of the
\* buffer, and one whose number goes over the line as 0, should be no exception.
ResentAtEnd == Once(AtWrap) => FileIntact
ResentAtWrap == Once(AtEnd) => FileIntact
=============================================================================
