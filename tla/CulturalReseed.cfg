SPECIFICATION Spec
CONSTANTS
  Sources = {s1, s2}
  Chunks = {c1, c2}
  NoFile = NoFile
  Unreadable = Unreadable
  MAX_ATTEMPTS = 2
  Workers = 2
  MaxRuns = 2
  Fetching = {s1, s2}
  Habits = {{"kill"},
            {"from-jsonl", "force", "dry-run", "empty", "kill", "wipe",
             "single"}}
SYMMETRY Symmetry
INVARIANTS
  ResumedScrapesReseed
  DroppedAnswersAreRetried
  WorkReachedGraph
  NoFailureIsHidden
CHECK_DEADLOCK FALSE
