CONSTANTS
  can = can
  slides = slides
  dashboard = dashboard
  c1 = c1
  c2 = c2
  Registered <- MCPair
  Class <- MCClass
  DependsOn <- MCDependsOn
  FirstListed <- MCFirstListed
  DefaultOn = {can}
  Mandatory = {}
  Integrated = {can, slides}
  Monitored = {}
  Answers = {}
  Caller = {c1, c2}
  MaxAttempts = 2
SYMMETRY MCCallers
SPECIFICATION HistorySpec
INVARIANTS
  TypeOK
  ReportComplete
  TrackedAgrees
PROPERTIES
  DisableKeepsDependents
