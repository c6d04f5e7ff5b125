SPECIFICATION Spec
CONSTANTS
  Media = "SHOW"
  Files <- PackFiles
  Info <- Pack
  NoCode = NoCode
  Runs = {r1, r2}
  MaxFaults = 2
INVARIANTS TypeOK VideosKept 
PROPERTY RetriesFinish
CHECK_DEADLOCK FALSE
