SPECIFICATION FairSpec
CONSTANTS
  Calls = {c1, c2, c3}
  FewCalls = {c1, c2}
  Sessions = {s1, s2, s3}
  NoSession = NoSession
  Habits <- MCHabits
INVARIANTS
  TurnsDoNotOverlap
  AnswersUnderPrompts
  FinishedTurnsAreWhole
PROPERTY SendingEnds
CHECK_DEADLOCK FALSE
