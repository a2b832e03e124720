CONSTANTS
  Pods = {p1, p2}
  Mixes = {{}, {p2}}
  MaxFaults = 1
SPECIFICATION Spec
INVARIANTS TypeOK RegionsMovedFirst SocketFirst BalancerOffExplained OffWhileUnloading
PROPERTIES ShutsDown
CHECK_DEADLOCK FALSE
