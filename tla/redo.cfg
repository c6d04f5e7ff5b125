SPECIFICATION Spec
CONSTANTS
  Hashes = {h1}
  NoHash = NoHash
  MaxJobs = 3
  AutoRetryMax = 0
  AutoResumeMax = 0
  MediaOf <- Movies
  Tasks = {t1}
  Poller = Poller
  Allowed = {"download", "redo"}
  MaxRestarts = 0
INVARIANT OneReplacement
CHECK_DEADLOCK FALSE
