\* Trends
SPECIFICATION Spec
CONSTANTS
  cron = cron
  manual = manual
  reddit = reddit
  youtube = youtube
  NoRun = NoRun
  Run = {cron, manual}
  Scheduled = {cron}
  Board = {youtube}
  KeyedBoard = {youtube}
  LockStale = 3
  FreshFor = 2
  RunLimit = 1
  MaxCrashes = 2
INVARIANTS NoOverlap LiveMeansRecent
PROPERTIES BoardsNeverRegress DeadLockIsFreed
