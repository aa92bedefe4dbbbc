SPECIFICATION MCSpec
CONSTANTS
  Base = 4 Strings <- MCStrings Names <- MCNames Blobs <- MCBlobs MaxEntries = 2
  Messages = {m1, m2} MaxMessages = 3 MaxDemand = 3
INVARIANTS RoundTrip ChannelServed
PROPERTY InputArrives
CHECK_DEADLOCK FALSE
