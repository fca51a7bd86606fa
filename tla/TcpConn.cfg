CONSTANTS
  W = 6
  NoSeq = NoSeq
  Iss = 4
  MaxData = 2
SPECIFICATION Spec
INVARIANTS SeqIsKnown ClosingMatchesFins LegalTrafficPasses
