SPECIFICATION Spec
CONSTANTS
  NumEpisodes = 2
  SeasonOf <- OneSeason
  Cap = 1
  JobIds = {j1, j2}
  MaxClears = 1
  MaxOverlaps = 1
  Poll = Poll
  Requests = {r1}
SYMMETRY AnyRows
INVARIANTS TypeOK FetchedOnce
PROPERTY DecisionKept
CHECK_DEADLOCK FALSE
