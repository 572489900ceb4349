SPECIFICATION FairSpec
CONSTANTS
  Sources = {s1, s2}
  Chunks = {c1, c2}
  NoFile = NoFile
  Unreadable = Unreadable
  MAX_ATTEMPTS = 2
  Workers = 1
  MaxRuns = 1
  Fetching = {s1}
  Habits = {{"from-jsonl", "empty", "kill", "single"}}
PROPERTY RunEnds
CHECK_DEADLOCK FALSE
