CONSTANTS
  Guests <- MCGuests
  Xids = {x, y}
  MaxInbox = 2
  UftLimit = 1
SPECIFICATION FairSpec
INVARIANTS BoundGuestIsConnected ConfigIsNotShadowed
PROPERTY GuestIsConfigured
