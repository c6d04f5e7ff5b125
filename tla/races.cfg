SPECIFICATION Spec
CONSTANTS
  Hashes = {h1}
  NoHash = NoHash
  MaxJobs = 1
  AutoRetryMax = 0
  AutoResumeMax = 0
  MediaOf <- Movies
  Tasks = {t1, t2}
  Poller = Poller
  Allowed = {"download", "retry", "delete", "dismiss"}
  MaxRestarts = 1
INVARIANTS TypeOK NoStrandedJob DoneWasPlaced
PROPERTIES DeletedStaysClosed JobsLiveOnce
CHECK_DEADLOCK FALSE
