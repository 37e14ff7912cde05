CONSTANTS
  can = can
  slides = slides
  dashboard = dashboard
  Registered <- MCPair
  Class <- MCClass
  DependsOn <- MCDependsOn
  FirstListed <- MCFirstListed
  DefaultOn = {can}
  Mandatory = {}
  Integrated = {can, slides}
  Monitored = {can, slides}
  Answers = {"healthy", "degraded", "failed", "safe_shutdown"}
  Caller = {c1}
  MaxAttempts = 2
SPECIFICATION FairSpec
INVARIANTS
  OwnDependencies
PROPERTIES
  PositionNeverFails
  CallsReturn
  CheckEnds
