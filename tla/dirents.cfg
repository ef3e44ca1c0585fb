SPECIFICATION FairSpec
CONSTANTS
  Names = {a, b, c}
  LongNames = {c}
  Users = {u1}
  Buffers = {3, 4}
  Rules = {"notBehind", "roomy", "answered"}
INVARIANTS NamesUnique NothingTwice NothingMissed
PROPERTY ListingEnds
CHECK_DEADLOCK FALSE
