CONSTANTS
  hb = hb
  t = t
  CRs = {hb, t}
  Nil = Nil
  Meta <- SharedMeta
  Script <- SharedScript
  AdditionalNamespaces <- Additional
  WatchNamespace = "main"
  Workers <- OneWorker
  Lagging = {"cfg"}
  Env = {"lostReply"}
  MaxFaults = 1
SPECIFICATION Spec
INVARIANTS RestartsAccountedFor IdleMeansApplied
CHECK_DEADLOCK FALSE
