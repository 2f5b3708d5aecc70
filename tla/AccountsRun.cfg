SPECIFICATION Spec
CONSTANTS
  Root = root
  Others = {ann}
  Requests = {p, q}
  Logins = {l}
  Grace = 0
  MaxPassword = 2
  MaxChanges = 2
  MaxRestarts = 1
SYMMETRY Symmetry
INVARIANT AlwaysAnAdmin
INVARIANT SessionsFollow
 
CHECK_DEADLOCK FALSE
