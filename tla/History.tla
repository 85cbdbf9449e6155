------------------------------ MODULE History ------------------------------
(***************************************************************************)
(* The history of the line editor (lineedit.c): lines with a terminator    *)
(* each, the latest first, in an array that is searched, shifted and       *)
(* reordered in place.                                                     *)
(***************************************************************************)
EXTENDS Integers, Sequences, FiniteSets

CONSTANTS Letters,    \* characters of a line
          Wide,       \* those with the high bit set
          Nul,        \* the terminator
          MaxHistory

ASSUME HistoryAssumption == /\ MaxHistory \in Nat \ {0}
                            /\ Wide \subseteq Letters /\ Nul \notin Letters

VARIABLES lastline, saved_length

history == <<lastline, saved_length>>

Index == 0..MaxHistory-1

HistoryTypeOK == /\ lastline \in [Index -> Letters \union {Nul}]
                 /\ saved_length \in 0..MaxHistory

HistoryInit == lastline = [i \in Index |-> Nul] /\ saved_length = 0

-----------------------------------------------------------------------------
(***************************************************************************)
(* validate_history                                                        *)
(***************************************************************************)
Valid == saved_length \in 1..MaxHistory /\ \A i \in Index : lastline[i] \notin Wide

ValidLine == IF Valid THEN lastline ELSE [i \in Index |-> Nul]
ValidLength == IF Valid THEN saved_length ELSE 0

Validate == lastline' = ValidLine /\ saved_length' = ValidLength

-----------------------------------------------------------------------------
(***************************************************************************)
(* already_in_history and add_to_history, in an array of cells             *)
(***************************************************************************)

\* Where the lines begin that the array can be read as.
Starts(cells) == {p \in Index : p = 0 \/ cells[p-1] = Nul}

Found(cells, line) ==
  {p \in Starts(cells) : /\ p + Len(line) < MaxHistory /\ cells[p+Len(line)] = Nul
                         /\ \A i \in 1..Len(line) : cells[p+i-1] = line[i]}

\* The shift copies into the terminator as well.
MoveToFrontShiftsAll(cells, p, line) ==
  LET len == Len(line)
  IN [i \in Index |-> IF i < len THEN line[i+1]
                      ELSE IF i = len THEN Nul
                      ELSE IF i <= p + len THEN cells[i-len]
                      ELSE cells[i]]

\* What stands before p goes up by the length of the line and its terminator.
MoveToFront(cells, p, line) ==
  LET len == Len(line)
  IN [i \in Index |-> IF i < len THEN line[i+1]
                      ELSE IF i = len THEN Nul
                      ELSE IF i < p + len THEN cells[i-len-1]
                      ELSE cells[i]]

NewLength(line) == IF Len(line) + 1 > MaxHistory THEN MaxHistory ELSE Len(line) + 1

PrependUncut(cells, line) ==
  LET new_length == NewLength(line)
  IN [i \in Index |-> IF i = new_length-1 THEN Nul
                      ELSE IF i < new_length THEN line[i+1]
                      ELSE cells[i-new_length]]

\* The last line is cut if it does not fit.
Prepend(cells, line) ==
  LET new_length == NewLength(line)
  IN [i \in Index |-> IF i \in {new_length-1, MaxHistory-1} THEN Nul
                      ELSE IF i < new_length THEN line[i+1]
                      ELSE cells[i-new_length]]

Capped(n) == IF n > MaxHistory THEN MaxHistory ELSE n

Remembered(line) == ValidLength # 0 /\ Found(ValidLine, line) # {}

AddToHistory(line) ==
  \/ line = <<>> /\ Validate
  \/ /\ line # <<>> /\ Remembered(line)
     /\ \E p \in Found(ValidLine, line) :
          /\ \A q \in Found(ValidLine, line) : p <= q
          /\ lastline' = MoveToFront(ValidLine, p, line)
     /\ saved_length' = ValidLength
  \/ /\ line # <<>> /\ ~Remembered(line)
     /\ lastline' = Prepend(ValidLine, line)
     /\ saved_length' = Capped(ValidLength + NewLength(line))

-----------------------------------------------------------------------------
(***************************************************************************)
(* get_history: line n of those that saved_length covers                   *)
(***************************************************************************)
End(cells, p) == CHOOSE e \in p..MaxHistory-1 : cells[e] = Nul /\ \A i \in p..e-1 : cells[i] # Nul
TextAt(cells, p) == [i \in 1..End(cells, p)-p |-> cells[p+i-1]]

LinesIn(cells, length) == {p \in Starts(cells) : p < length}
Nth(cells, n) == CHOOSE p \in Starts(cells) : Cardinality({q \in Starts(cells) : q < p}) = n

InHistory(n) == n \in 0..Cardinality(LinesIn(ValidLine, ValidLength)) - 1
Recalled(n) == TextAt(ValidLine, Nth(ValidLine, n))

-----------------------------------------------------------------------------
\* The history alone, for any lines.
HistoryNext == Validate \/ \E line \in Seq(Letters) : AddToHistory(line)

HistorySpec == HistoryInit /\ [][HistoryNext]_history

\* The array ends with a terminator, and so does what saved_length covers; behind it is
\* nothing: the scans of already_in_history and get_history end in the array, and what
\* they find are whole lines.
HistoryWhole ==
  /\ lastline[MaxHistory-1] = Nul
  /\ saved_length # 0 => lastline[saved_length-1] = Nul
  /\ \A i \in saved_length..MaxHistory-1 : lastline[i] = Nul
=============================================================================
