CONSTANTS
  OctetBits = 2
  Octets = 2
  Dests <- MCDests
  Preds <- MCDests
  Rule <- Routes
  Drop = Drop
  Gateway = Gateway
  Others = {host}
  Callers = {c1, c2}
  None = None
  MaxBatch = 2
  MaxId = 3
SPECIFICATION RouterSpec
SYMMETRY Symmetry
INVARIANTS TypeOK MatchIsBest LongestPrefixWins
PROPERTIES IdsAreStable DeleteRemovesDest
