CONSTANTS
  c1 = c1
  can = can
  slides = slides
  slide_room_safety = slide_room_safety
  awning_safety = awning_safety
  leveling_jack_safety = leveling_jack_safety
  Registered <- MCRegistered
  Class <- MCClass
  DependsOn <- MCDependsOn
  FirstListed <- MCFirstListed
  Condition = {"parking_brake_engaged"}
  Interlock = {slide_room_safety, awning_safety, leveling_jack_safety}
  Default = {slide_room_safety, awning_safety, leveling_jack_safety}
  Requires <- MCRequires
  MetAtFirst = {}
  DefaultOn = {can}
  Mandatory = {}
  Integrated = {can}
  Monitored = {can}
  Answers = {"healthy", "failed", "initializing"}
  Caller = {}
  MaxAttempts = 1
SYMMETRY MCSymmetry
SPECIFICATION SafetySpec
INVARIANTS
  SafetyTypeOK
  StopImpliesSafeState
PROPERTIES
  InterlocksHold
  SafeStateReachesOperating
