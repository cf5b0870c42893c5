SPECIFICATION FairSpec
CONSTANTS
  MinInterval = 1
  MaxInterval = 2
  DefaultInterval = 1
  DefaultHealthGrace = 2
  Absent = Absent
  Empty = Empty
  Garbage = Garbage
  Unreadable = Unreadable
  Inputs <- MCInputs
  MaxTime = 4
INVARIANTS TypeOK NothingLeft ZeroMeansAsked
PROPERTIES GreenIsFresh AcceptedIsRunnable OtherModesDurationIgnored EndsTogether
