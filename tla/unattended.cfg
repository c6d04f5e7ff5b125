SPECIFICATION FairSpec
CONSTANTS
  Hashes = {h1}
  NoHash = NoHash
  MaxJobs = 1
  AutoRetryMax = 1
  AutoResumeMax = 1
  MediaOf <- Movies
  Tasks = {t1}
  Poller = Poller
  Allowed = {"follow", "read", "removed_by_hand"}
  MaxRestarts = 0
INVARIANTS FlaggedIsLeftAlone 
PROPERTY OpenJobsSettle
CHECK_DEADLOCK FALSE
