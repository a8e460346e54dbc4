\* Two requests with three flows: flows of one installation, or syncs of two side by side.
SPECIFICATION MCAccessSpec
CONSTANTS
  Accounts = {u, v}
  Installations = {i, j}
  Repositories = {r1}
  Requests = {q1, q2}
  Nobody = nobody
  Nowhere = nowhere
  MaxFlows = 3
  MaxExpiries = 1
  MaxChanges = 1
SYMMETRY Symmetry
INVARIANTS VerifiedMembers AccessGranted
PROPERTY SyncExact
\* It stops when all flows are gone.
CHECK_DEADLOCK FALSE
