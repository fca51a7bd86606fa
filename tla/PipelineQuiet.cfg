CONSTANTS
  NoEntry = NoEntry
  r1 = r1
  Flows = {f1}
  Remote <- MCRemote
  PubPorts = {p1, p2}
  FwLimit = 2
  NatLimit = 1
  Ttl = 1
SPECIFICATION FairSpec
PROPERTY QuietPortDrains
