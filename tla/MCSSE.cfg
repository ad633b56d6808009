SPECIFICATION FairSpec
CONSTANTS
  Ids = {1, 2, 3}
  Extras = 3
INVARIANTS TypeOK ReaderNeverBlocks NoCrossTalk NoLostResponse
PROPERTIES ReaderEnds RoundTripEnds ImplementsRoundTrips
CHECK_DEADLOCK FALSE
