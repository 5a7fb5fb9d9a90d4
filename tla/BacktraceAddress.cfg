CONSTANTS
  Depth = 2
  BufferItems = 4
  PipeItems = 3
  NoReturn = NoReturn
  MaxLength = 4
  Codes <- MCCodes
  Width <- MCWidth
  BeforeTable <- MCBeforeTable
  Junk = {0, 171}
  NoText = NoText
  Objects = {o1, o2, o3}
  Files = {f1, f2, f3}
  MaxDescriptors = 3
  Raw = Raw
  NoFile = NoFile
SPECIFICATION MCSpec
INVARIANTS ReportsTheGivenAddress
CHECK_DEADLOCK FALSE
