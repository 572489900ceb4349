SPECIFICATION Spec
CONSTANTS
  Runs = {r1, r2}
  Questions = {q1, q2}
  Answers <- MCAnswers
  NoQuestion = NoQuestion
  NoDocument = NoDocument
  Torn = Torn
  Garbled = Garbled
  MayOverlap = TRUE
  MayCrash = TRUE
  Others <- MCOthers
SYMMETRY Symmetry
INVARIANTS
  UndisturbedPersistIsExact
  LicencesDecide
  FinishedRunsLeaveNoGap
  SharingAgrees
CHECK_DEADLOCK FALSE
