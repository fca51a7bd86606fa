CONSTANTS
  TransactionIds = {100, 101}
  ServerMac = 60
  Leases <- MCLeases
  RenewTime = 93
  Dns <- MCDns
  ClientTypes <- MCTypes
  ClientOptions <- MCOptions
  MaxOptions = 4
  Nesting = 3
SPECIFICATION DhcpSpec
INVARIANTS ParsedAsMeant ReplyIsEncoded OfferIsKept
