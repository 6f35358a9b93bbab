\* Logins, changes of accounts and the upgrade of sockets, interleaved.
CONSTANTS
  Users = {u1, u2}
  Logins = {l1, l2}
  Changes = {c1, c2}
  Bodies = {{"password"}, {"role", "password"}}
  Sockets = {s1, s2}
  Sessions = {x1, x2}
  MaxAttempts = 1
  MaxSessions = 1
  MaxFaults = 1
SPECIFICATION Spec
CONSTRAINT Focus
SYMMETRY Symmetry
INVARIANTS
  AdminRemains
PROPERTIES
  QuotaOvershoot
  ChangeRevokes
CHECK_DEADLOCK FALSE
