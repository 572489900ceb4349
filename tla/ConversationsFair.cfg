SPECIFICATION FairSpec
CONSTANTS
  Users = {u1, u2}
  Sessions = {s1, s2}
  Requests = {r1, r2}
  NoUser = NoUser
  NoSession = NoSession
  NoRequest = NoRequest
  Serial = {s1}
INVARIANTS
  AnswerUnderPrompt
  LastModifiedIsNewest
PROPERTIES
  ImplementsTranscript
  RequestsEnd
CHECK_DEADLOCK FALSE
