CONSTANTS
  NoEntry = NoEntry
  NoPort = NoPort
  Limit = 3
  Ttl = 2
  Remotes = {r1, r2}
  PrivPorts = {a, b}
  PubPorts = {p1, p2}
SPECIFICATION FairSpec
INVARIANTS TypeOK Paired CountIsExact PortsAreExclusive RoundTrip
PROPERTY IdleFlowsExpire
