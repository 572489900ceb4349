SPECIFICATION Spec
CONSTANTS
  Sources = {s1, s2}
  Chunks = {c1, c2}
  NoFile = NoFile
  Unreadable = Unreadable
  MAX_ATTEMPTS = 2
  Workers = 2
  MaxRuns = 2
  Fetching = {s1, s2}
  Habits = {{"dry-run"}}
INVARIANT ExitZeroMeansReseeded
CHECK_DEADLOCK FALSE
