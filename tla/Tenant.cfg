CONSTANTS
  a = a
  b = b
  CRs = {a}
  Nil = Nil
  Meta <- MixedMeta
  Script <- MixedScript
  AdditionalNamespaces <- Additional
  WatchNamespace = "n1"
  Workers <- TwoWorkers
  Lagging = {"cfg", "ss"}
  Env = {"crash", "apiError", "readError", "lostReply", "resync"}
  MaxFaults = 1
SPECIFICATION Spec
INVARIANTS InvalidNeverApplied
PROPERTIES Converges
CHECK_DEADLOCK FALSE
