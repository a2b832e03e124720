CONSTANTS
  CRs = {hb}
  Nil = Nil
  Meta <- MCMeta
  Script <- LabelledScript
  AdditionalNamespaces <- Additional
  WatchNamespace = "main"
  Workers <- OneWorker
  Lagging = {"ss"}
  Env = {"crash"}
  MaxFaults = 1
SPECIFICATION Spec
INVARIANT RestartsAccountedFor
CHECK_DEADLOCK FALSE
