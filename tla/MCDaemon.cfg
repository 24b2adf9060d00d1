CONSTANTS
  client1 = client1
  client2 = client2
  point1 = point1
  point2 = point2
  instance1 = instance1
  instance2 = instance2
  Clients <- MCClients
  MountPoints <- MCMountPoints
  Instances = {instance1, instance2}
  MaxMounts = 2
SPECIFICATION Spec
INVARIANTS
  RegistryExact
  OneManagerPerInstance
  
  
PROPERTIES
  WaitsEnd
CHECK_DEADLOCK FALSE
