SPECIFICATION Spec
CHECK_DEADLOCK FALSE
CONSTANTS
  bridge = bridge
  k = k
  Providers = {bridge, k}
  Builtin = bridge
  Keyed = {k}
  Editors = {e1, e2}
  Calls = {r1, r2}
  Trip = 3
  MaxEdits = 2
  MaxCalls = 3
  MaxAsked = 4
  Nil = Nil
SYMMETRY OneLikeAnother
INVARIANTS
  TypeOK
  OpenedForCause
