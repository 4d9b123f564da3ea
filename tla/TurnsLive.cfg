SPECIFICATION FairSpec
CONSTANTS
  r1 = r1  r2 = r2  r3 = r3  i1 = i1  i2 = i2  i3 = i3  ann = ann  bob = bob
  thread = thread  ticket = ticket  fileA = fileA  fileB = fileB
  Requests = {r1, r2}
  Instances = {i1, i2}
  Identities = {ann}
  BoundIdentities = {ann}
  ContentTargets <- OneTarget
  FileTargets <- NoTargets
  Locks = {"turn"}
  Modes = {"ticket"}
  ClockMayJump = FALSE
  OfferMs = 1  TurnMs = 1  QueueMs = 2  ReconnectMs = 1  InstanceMs = 1  RetentionMs = 1
  MaxSequence = 2
PROPERTIES TurnsEnd QueuesDrain
