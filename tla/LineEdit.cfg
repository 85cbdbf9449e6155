SPECIFICATION EditSpec
CONSTANTS
  a = a
  sp = sp
  w = w
  Letters = {a, sp, w}
  Wide = {w}
  Nul = nul
  Space = sp
  MaxHistory = 5
  Names <- WordList
  Cap = 3
INVARIANTS
  HistoryWhole
  ScreenShowsLine
PROPERTIES
  ProposalKeepsTyped
  ImplementsLineHistory
