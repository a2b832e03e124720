CONSTANTS
  CRs = {hb}
  Nil = Nil
  Meta <- MCMeta
  Script <- ConfigScript
  AdditionalNamespaces <- Additional
  WatchNamespace = "main"
  Workers <- OneWorker
  Lagging = {"ss", "cfg"}
  Env = {}
  MaxFaults = 0
SPECIFICATION Spec
INVARIANTS RestartsAccountedFor
PROPERTIES Converges
CHECK_DEADLOCK FALSE
