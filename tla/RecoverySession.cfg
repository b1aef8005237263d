SPECIFICATION FairSpec
CONSTANTS
  Devs = {eth0, eth1}
  Port = eth0
  NoDev = NoDev
  StaticIp = 9
  StaticSize = 4
  UserIps = {0, 6}
  UserSizes = {8}
  UserDevs = {eth1}
  Unset = Unset
INVARIANTS
  TypeOK
  Accounted
  LeaseAgreed
PROPERTIES
  HostServed
