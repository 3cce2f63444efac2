CONSTANTS
  j1 = j1
  j2 = j2
  None = None
  Jobs <- MCJobs
  RowIds = {1}
  MaxVersion = 2
  MaxTime = 3
SPECIFICATION FairSpec
PROPERTIES
  HistoryAccumulates
  DigestDescribesPool
  EnrichmentsNeverRegress
  LockIsReleased
  PublishesAtomically
