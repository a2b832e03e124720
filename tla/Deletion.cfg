CONSTANTS
  CRs = {hb}
  Nil = Nil
  Meta <- MCMeta
  Script <- MCScript
  Lagging = {"ss"}
  MaxCrashes = 1
SPECIFICATION Spec
INVARIANTS TypeOK AdoptedBeforeAccepted
PROPERTIES Collected BecomesComplete
CHECK_DEADLOCK FALSE
