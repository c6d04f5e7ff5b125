SPECIFICATION Spec
CONSTANTS
  Hashes = {h1}
  NoHash = NoHash
  MaxJobs = 1
  AutoRetryMax = 0
  AutoResumeMax = 0
  MediaOf <- Movies
  Tasks = {t1}
  Poller = Poller
  Allowed = {"download", "dismiss"}
  MaxRestarts = 0
PROPERTY DismissedIsTerminal
CHECK_DEADLOCK FALSE
