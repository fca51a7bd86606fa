CONSTANTS
  Threads = {t1, t2}
  Flows = {f, u}
  TcpFlows = {f}
  Translated = FALSE
  FlagSets <- MCOpenAndClose
  LftLimit = 1
  UftLimit = 1
  TcpLimit = 1
  MaxEpoch = 1
  None = None
SPECIFICATION Spec
INVARIANTS TypeOK FirewallHolds UftIsTracked ReadyHasNoFlows
PROPERTY PausedIsFrozen
SYMMETRY Symmetry
CHECK_DEADLOCK FALSE
