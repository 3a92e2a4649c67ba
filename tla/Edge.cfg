SPECIFICATION EdgeSpec
CONSTANTS
  None = None
  Names = {u1}
  Addrs = {a1, a2}
  Logins = {l1, l2}
  MaxAttempts = 2
  MaxLapses = 1
  MaxErrors = 1
  PublicHosts = {h1, h2}
  MaxStamps = 3
  MaxStarts = 1
  Accounts = {o, g}
  Owner = o
  Endings <- OwnersEnding
  MaxUserEdits = 3
  MaxLookupFails = 1
  Clients = {w1, w2}
  Messages = {m1, m2}
  Buffer = 1
  MaxJoins = 2
INVARIANTS BoundedTries
PROPERTIES BlockEnds FollowsFile RoutesSettle Feeds GoneIsForgotten
CHECK_DEADLOCK FALSE
