SPECIFICATION Spec
CONSTANTS
  Hashes = {h1}
  NoHash = NoHash
  MaxJobs = 1
  AutoRetryMax = 0
  AutoResumeMax = 0
  MediaOf <- Movies
  Tasks = {t1, t2}
  Poller = Poller
  Allowed = {"download", "delete"}
  MaxRestarts = 0
INVARIANT DeletedReleasesHash
CHECK_DEADLOCK FALSE
