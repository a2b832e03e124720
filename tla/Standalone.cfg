CONSTANTS
  a = a
  b = b
  CRs = {b}
  Nil = Nil
  Meta <- MixedMeta
  Script <- MixedScript
  AdditionalNamespaces <- Additional
  WatchNamespace = "n1"
  Workers <- TwoWorkers
  Lagging = {"svc", "cfg", "ss", "pdb"}
  Env = {"crash", "apiError", "lostReply", "podFailure"}
  MaxFaults = 1
SPECIFICATION Spec
INVARIANTS DependenciesFirst RestartsAccountedFor
PROPERTIES Converges
CHECK_DEADLOCK FALSE
