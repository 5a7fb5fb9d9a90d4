CONSTANTS
  ReadCapacity = 2
  WriteCapacity = 1
  SendSpace = 1
  RecvSpace = 2
  MaxDescriptors = 3
  MaxBacklog = 2
SPECIFICATION FairSpec
INVARIANTS ConnectionInv ListenerInv NoStrandedWork NoStrandedBacklog
PROPERTIES InputIsTakenIn TimeoutStarvedOnlyFromOutside
