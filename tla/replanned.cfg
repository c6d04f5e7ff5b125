SPECIFICATION Spec
CONSTANTS
  Media = "MOVIE"
  Files <- FeatureFiles
  Info <- Feature
  NoCode = NoCode
  Runs = {r1}
  MaxFaults = 2
INVARIANT VideosKept
CHECK_DEADLOCK FALSE
