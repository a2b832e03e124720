CONSTANTS
  CRs = {hb}
  Nil = Nil
  Meta <- MCMeta
  Script <- TemplateScript
  AdditionalNamespaces <- Additional
  WatchNamespace = "main"
  Workers <- OneWorker
  Lagging = {"ss"}
  Env = {}
  MaxFaults = 0
SPECIFICATION Spec
PROPERTY RolloutOneByOne
CHECK_DEADLOCK FALSE
