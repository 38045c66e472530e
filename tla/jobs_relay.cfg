\* A restart and an update of a laptop over two streams of its worker: drops, deaths, a server restart, the pairing taken back.
SPECIFICATION FairSpec
CONSTANTS
  phone = phone
  pn = pn
  cmd = cmd
  rst = rst
  upd = upd
  s1 = s1
  s2 = s2
  l1 = l1
  l2 = l2
  Jobs = {rst, upd}
  Devices = {phone, pn}
  Phone = phone
  Streams = {l1, l2}
  DeviceOf <- MCDeviceOf
  KindOf <- MCKindOf
  StreamDevice <- MCStreamDevice
  StreamKinds <- MCStreamKinds
  Tries = 2
  MayRevoke = {pn}
  MayRestart = TRUE
INVARIANTS TypeOK NothingOutlivesItsWait
PROPERTIES ImplementsRemoteCall EveryCallEnds StreamLetGo
CHECK_DEADLOCK FALSE
