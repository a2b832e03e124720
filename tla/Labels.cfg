CONSTANTS
  hb = hb
  t = t
  Crs = {hb, t}
  Kind <- MCKind
  DepsOf <- MCDepsOf
  UserKeys = {"app", "sts", "team"}
  Values = {"dn"}
  Nil = Nil
SPECIFICATION Spec
INVARIANTS SetsSelectOwnPods BudgetsSelectOwnPods ServicesSelectOwnPods
CHECK_DEADLOCK FALSE
