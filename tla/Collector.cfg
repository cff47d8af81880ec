CONSTANTS
  ByteBits = 2
  Samples <- MCSamples
  PayloadLengths = {32, 46}
  MaxReadings = 3
SPECIFICATION FairSpec
CHECK_DEADLOCK FALSE
INVARIANTS
  SamplesInStep
  FreshAsAnnounced
  MixesTwoAtMost
  PacketsWellFormed
PROPERTIES
  AnnouncementsTaken
  ReadReturns
