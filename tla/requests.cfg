SPECIFICATION Spec
CONSTANTS
  Users = {u1}
  JobIds = {j1, j2}
  MaxFaults = 1
  MaxEvents = 3
INVARIANTS TypeOK OnePick 
PROPERTIES NobodyCancelled  Settles
CHECK_DEADLOCK FALSE
