CONSTANTS
  CRs = {hb}
  Nil = Nil
  Meta <- MCMeta
  Script <- UpgradeScript
  AdditionalNamespaces <- Additional
  WatchNamespace = "main"
  Workers <- OneWorker
  Lagging = {"ss", "cfg"}
  Env = {"crash", "apiError", "lostReply", "podFailure", "slowInformer", "resync"}
  MaxFaults = 1
SPECIFICATION Spec
INVARIANTS TypeOK DependenciesFirst RolloutOrder RestartsAccountedFor NoForgottenWrite IdleMeansApplied
PROPERTIES OrderedBringUp ImplementsRollout
CHECK_DEADLOCK FALSE
