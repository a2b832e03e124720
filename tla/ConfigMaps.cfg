CONSTANTS
  XmlFiles = {site, policy}
  OtherFiles = {props}
  Texts = {good, bad}
  Malformed = {bad}
  Namespaces = {n1, n2}
  MaxElement = 1
  MaxOverrides = 2
SPECIFICATION Spec
INVARIANTS VerdictExact BuiltAsSpecified MalformedExplained
CHECK_DEADLOCK FALSE
