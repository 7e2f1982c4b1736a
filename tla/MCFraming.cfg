CONSTANTS
  HeaderSize = 2
  MaxPayload = 2
  MaxBuffered = 4
  MaxRead = 3
  InFlight = 1
  MaxFrames = 3
SPECIFICATION FairSpec
INVARIANTS TypeOK DeliveredInOrder FailsOnDefectOnly
PROPERTY SoundFramesArrive
