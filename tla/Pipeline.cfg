CONSTANTS
  NoEntry = NoEntry
  r1 = r1
  Flows = {f1, f2}
  Remote <- MCRemote
  PubPorts = {p1}
  FwLimit = 2
  NatLimit = 2
  Ttl = 1
SPECIFICATION Spec
INVARIANTS RepliesPass PortsAccounted
SYMMETRY MCSymmetry
