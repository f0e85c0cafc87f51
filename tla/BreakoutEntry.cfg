\* BreakoutEntry
SPECIFICATION BreakoutSpec
CONSTANTS
  Persistence = 3
  Resolution = 6
  Cooldown = 12
  Never = Never

PROPERTIES EntryNeedsPersistence
