SPECIFICATION Spec
CONSTANTS
  Hashes = {h1}
  NoHash = NoHash
  MaxJobs = 2
  AutoRetryMax = 0
  AutoResumeMax = 0
  MediaOf <- Shows
  Tasks = {t1}
  Poller = Poller
  Allowed = {"download", "added_by_hand", "removed_by_hand"}
  MaxRestarts = 0
INVARIANT HashUnique
CHECK_DEADLOCK FALSE
