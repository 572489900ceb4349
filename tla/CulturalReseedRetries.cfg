SPECIFICATION Spec
CONSTANTS
  Sources = {s1}
  Chunks = {c1, c2}
  NoFile = NoFile
  Unreadable = Unreadable
  MAX_ATTEMPTS = 2
  Workers = 1
  MaxRuns = 2
  Fetching = {s1}
  Habits = {{"kill"}}
INVARIANT TransientFaultsAreRetried
CHECK_DEADLOCK FALSE
