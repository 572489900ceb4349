SPECIFICATION Spec
CONSTANTS
  Users = {u1, u2}
  Sessions = {s1, s2}
  Requests = {r1, r2, r3}
  NoUser = NoUser
  NoSession = NoSession
  NoRequest = NoRequest
  Serial = {}
SYMMETRY Symmetry
INVARIANTS
  DisplayOrderDeterministic
  EveryNumberAccountedFor
  AnswerFollowsPrompt
  AnnouncedIsDurable
  DoneIsDurable
  OnlyOwnersTouch
  DeletedStaysHidden
  HistoryIsClosed
CHECK_DEADLOCK FALSE
