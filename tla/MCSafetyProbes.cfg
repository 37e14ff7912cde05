CONSTANTS
  c1 = c1
  can = can
  slides = slides
  slide_room_safety = slide_room_safety
  awning_safety = awning_safety
  leveling_jack_safety = leveling_jack_safety
  Registered <- MCOneFeature
  Class <- MCClass
  DependsOn <- MCDependsOn
  FirstListed <- MCFirstListed
  Condition = {}
  Interlock = {}
  Default = {}
  Requires <- MCRequires
  MetAtFirst = {}
  DefaultOn = {can}
  Mandatory = {}
  Integrated = {can}
  Monitored = {can}
  Answers = {"healthy", "degraded", "failed", "maintenance"}
  Caller = {c1}
  MaxAttempts = 1
SPECIFICATION SafetyFairSpec
INVARIANTS
  WatchdogGuards
PROPERTIES
  CriticalFailureStops
  WatchdogTrips
