SPECIFICATION FairSpec
CONSTANTS
  Processes = {p1, p2}
  Cooldown = 1
  MaxRuns = 3
  MaxRequests = 2
  MaxCrashes = 1
INVARIANTS
  IInv
  OneActiveRun
  EventsAgree
PROPERTIES
  RunsEndOnce
  EndingLeavesNothing
  CooldownKept
  ActiveBotsRun
CHECK_DEADLOCK FALSE
