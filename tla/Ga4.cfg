\* Ga4
SPECIFICATION Spec
CONSTANTS
  cron = cron
  manual = manual
  first = first
  second = second
  Importer = {cron, manual}
  Request = {first, second}
  Days = 3
  Chunk = 2
  Recent = {2}
  LockDays = 1
SYMMETRY Symmetry
INVARIANTS BackfillIsGapless
PROPERTIES LockIsKept
