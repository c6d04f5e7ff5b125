SPECIFICATION FairSpec
CONSTANTS
  Hashes = {h1}
  NoHash = NoHash
  MaxJobs = 1
  AutoRetryMax = 0
  AutoResumeMax = 0
  MediaOf <- Movies
  Tasks = {t1}
  Poller = Poller
  Allowed = {"download"}
  MaxRestarts = 1
PROPERTY RestartResumes
CHECK_DEADLOCK FALSE
