SPECIFICATION InstancesSpec
CONSTANTS
  b1 = b1
  b2 = b2
  Bridges <- TwoBridges
  Servers <- NineServers
  NoServer = NoServer
  MaxEvents = 1
INVARIANTS InstancesTypeOK ServingIsReachable
PROPERTIES BridgesConnect
CHECK_DEADLOCK FALSE
