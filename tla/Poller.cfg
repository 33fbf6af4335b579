SPECIFICATION FairSpec
CONSTANTS
  Channel = {c1, c2, c3}
  NoChannel = NoChannel
  Fd = {f1, f2, f3}
  NoFd = NoFd
  InitEventListSize = 1
INVARIANTS TypeOK RegistrationAgrees CtlNeverFails NoStaleDispatch
PROPERTY ReadyIsServed
