SPECIFICATION PipelineSpec
CONSTANTS
  NONE = NONE
  Records <- MCRecords
  Facts <- MCFacts
  BaseScore <- MCBaseScore
  AbsoluteP1 <- MCAbsoluteP1
  Excluded <- MCExcluded
  TrainEnd = 850
  ValEnd = 902
  CellWidth <- MCCellWidth
  Cities <- MCCities
  Fixtures <- MCFixtures
  Deliveries <- MCDeliveries
  Commands <- MCCommands
  MaxStarts = 3
  MaxDeliveries = 1
  MaxKills = 1
INVARIANTS
  OneCorpus
  CleanRunRaisesNoAlarm
  FullRunHeals
  FoldsAreOrderedAndInhabited
  DuplicateGroupsStayInOneFold
CHECK_DEADLOCK FALSE
