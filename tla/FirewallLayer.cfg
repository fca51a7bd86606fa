CONSTANTS
  Flows = {f, g, h}
  NoEntry = NoEntry
  Limit = 2
  Ttl = 2
  MaxStat = 3
SPECIFICATION FwSpec
PROPERTY FilterSpec
SYMMETRY Symmetry
