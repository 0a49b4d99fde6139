SPECIFICATION LiveSpec
CONSTANTS
  a = a
  b = b
  p1 = p1
  p2 = p2
  r1 = r1
  r2 = r2
  Loop = Loop
  NoChannel = NoChannel
  NoReg = NoReg
  Channels = {a}
  Callers = {p1, p2}
  Manages <- OwnChannels
  MayClose = {p2}
  Reentrant = {}
  CallbackKinds <- BothCallbacks
  Regs = {r1, r2}
  MaxNotify = 1
  QueueCap = 1
INVARIANT ListeningIsSubscribed
PROPERTIES CallsReturn NothingSpawnedAfterUnlisten NotificationsDelivered
