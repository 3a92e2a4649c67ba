SPECIFICATION Spec
CONSTANTS
  q1 = q1
  q2 = q2
  q3 = q3
  u1 = u1
  u2 = u2
  d1 = d1
  d2 = d2
  n1 = n1
  None = None
  Requests <- MCRequests
  Stores <- MCStores
  Users <- MCUsers
  SpecsOf <- Renames
  Reuse = FALSE
  Faulty = {}
  MaxChanges = 3
  MaxFaults = 0
  MaxRestarts = 0
INVARIANT OwnedAreDropped
