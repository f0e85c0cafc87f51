\* Ranking
SPECIFICATION Spec
CONSTANTS
  scheduler = scheduler
  administrator = administrator
  Process = {scheduler, administrator}
  Timer = {scheduler}
  Forced = {administrator}
  Site = {1, 2}
  Metrics <- MCMetrics
INVARIANTS PublicationsAreWhole
PROPERTIES LeaderboardsCatchUp ReplacedAsAWhole
