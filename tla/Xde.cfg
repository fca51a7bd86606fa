SPECIFICATION Spec
CONSTANTS
  Vnis = {1, 2}
  Vips = {"a", "b", "c"}
  Macs = {"m1", "m2"}
  Hosts = {"self", "h2"}
  Threads = {t1, t2}
  Configs <- MCConfigs
  Pushes <- MCPushes
  Self = "self"
  Boundary <- MCBoundary
  Internet = "inet"
SYMMETRY Symmetry
INVARIANTS LiveIsListed DevicesDistinct PortsShareMappings ListedIsMapped DeliveredHome FailedUnderlayIsQuiet
