------------------------- MODULE ConversationsProofs -------------------------
(***************************************************************************)
(* Proofs about Conversations for any number of users, sessions and        *)
(* requests: the inductive invariant IInv and what follows from it; and,   *)
(* from SerialInv on top of it, what a client gets that never overlaps the *)
(* turns of a session.                                                     *)
(***************************************************************************)
EXTENDS Conversations, FiniteSetTheorems, TLAPS

\* Inside append_message, between its two writes.
Inserting == {"insert_user", "insert_answer"}

\* The coroutine runs on a conversation its user owns.
Attached(r) ==
  \/ pc[r] \in {"reserve_user", "insert_user", "session", "reserve_answer",
                "insert_answer", "apply"}
  \/ pc[r] \in {"query", "receive", "finish", "done"} /\ session_id[r] # NoSession

\* The turn has saved its prompt and goes on.
PromptSaved(r) ==
  \/ pc[r] \in {"session", "reserve_answer", "insert_answer"}
  \/ /\ pc[r] \in {"receive", "finish", "done"} /\ kind[r] \in {"new", "send"}
     /\ session_id[r] # NoSession

\* What a request knows at its control point.
LocalsOK ==
  \A r \in Requests :
    /\ pc[r] # "idle" => user[r] \in Users
    /\ pc[r] = "idle" => kind[r] = "new" /\ view[r] = {} /\ emitted[r] = {}
    /\ pc[r] = "idle" \/ (pc[r] = "query" /\ kind[r] = "new") => session_id[r] = NoSession
    /\ pc[r] \in {"authorize", "record"} => session_id[r] \in Sessions
    /\ pc[r] = "apply" => kind[r] \in OnPath \ {"send"}
    /\ pc[r] \in Streaming => kind[r] \in {"new", "send"}
    /\ pc[r] \in Streaming /\ kind[r] = "send" => session_id[r] \in Sessions
    /\ pc[r] = "authorize" => kind[r] \in OnPath
    /\ pc[r] = "record" => kind[r] = "new"

\* Ownership, checked once, holds for as long as the request runs.
OwnershipHeld ==
  \A r \in Requests : Attached(r) =>
    session_id[r] \in Sessions /\ owner[session_id[r]] = user[r]

\* A session without a document is untouched.
NothingBeforeRecord ==
  \A s \in Sessions :
    /\ owner[s] = NoUser => msg_seq[s] = 0 /\ ~archived[s] /\ title[s] = NoRequest
    /\ owner[s] # NoUser => \E r \in Requests : session_id[r] = s

\* Only one turn records a session, and it is the first to.
RecordOK ==
  \A r \in Requests : pc[r] = "record" =>
    /\ owner[session_id[r]] = NoUser
    /\ \A q \in Requests : pc[q] = "record" /\ session_id[q] = session_id[r] => q = r

\* Where a stored message comes from, and that its number was handed out.
MessagesOK ==
  \A m \in messages :
    /\ owner[m.session_id] = m.owner
    /\ pc[m.turn] # "idle" /\ user[m.turn] = m.owner
    /\ session_id[m.turn] = m.session_id
    /\ 1 <= m.seq /\ m.seq <= msg_seq[m.session_id]

\* A number handed out and not yet used is free and belongs to one request.
ReservedOK ==
  \A r \in Requests : pc[r] \in Inserting =>
    /\ 1 <= seq[r] /\ seq[r] <= msg_seq[session_id[r]]
    /\ \A m \in messages : m.session_id = session_id[r] => m.seq # seq[r]
    /\ \A q \in Requests : pc[q] \in Inserting /\ session_id[q] = session_id[r]
                           /\ seq[q] = seq[r] => q = r

\* The prompt of a turn under way, below the number of its answer.
PromptsOK ==
  \A r \in Requests : PromptSaved(r) =>
    \E p \in messages : /\ p.turn = r /\ p.role = "user"
                        /\ p.session_id = session_id[r]
                        /\ pc[r] = "insert_answer" => p.seq < seq[r]

TitlesOK ==
  \A s \in Sessions : title[s] # NoRequest =>
    pc[title[s]] # "idle" /\ user[title[s]] = owner[s]

ViewsOK ==
  \A r \in Requests : \A m \in view[r] : owner[m.session_id] = user[r]

HiddenOK ==
  \A r \in Requests : kind[r] = "delete" /\ pc[r] = "done" =>
    session_id[r] \in Sessions /\ archived[session_id[r]]

AnnouncedOK ==
  \A r \in Requests : "session" \in emitted[r] =>
    /\ session_id[r] \in Sessions /\ owner[session_id[r]] = user[r]
    /\ \E p \in messages : p.turn = r /\ p.role = "user"

\* Which messages a turn has not written yet, and which it has by its end.
BeforePrompt == {"idle", "authorize", "apply", "query", "record", "reserve_user",
                 "insert_user"}
BeforeAnswer == BeforePrompt \cup {"session", "receive", "reserve_answer",
                                  "insert_answer"}

WrittenOnce ==
  /\ \A m, n \in messages : m.turn = n.turn /\ m.role = n.role => m = n
  /\ \A r \in Requests : \A m \in messages : m.turn = r =>
       /\ m.role = "user" => pc[r] \notin BeforePrompt
       /\ m.role = "assistant" => pc[r] \notin BeforeAnswer

AnswersOK ==
  \A r \in Requests :
    /\ "done" \in emitted[r] => pc[r] = "done" /\ kind[r] \in {"new", "send"}
    /\ (pc[r] = "finish" \/ "done" \in emitted[r]) /\ session_id[r] # NoSession =>
         \E m \in messages : m.turn = r /\ m.role = "assistant"

IInv ==
  /\ TypeOK /\ LocalsOK /\ OwnershipHeld /\ NothingBeforeRecord /\ RecordOK
  /\ MessagesOK /\ ReservedOK /\ PromptsOK /\ TitlesOK /\ ViewsOK /\ HiddenOK
  /\ AnnouncedOK /\ DisplayOrderDeterministic /\ AnswerFollowsPrompt
  /\ EveryNumberAccountedFor /\ HistoryIsClosed /\ WrittenOnce /\ AnswersOK
-----------------------------------------------------------------------------
(* Type correctness.                                                       *)

LEMMA InitType == Init => TypeOK
BY NoRequestAssumption DEF Init, TypeOK, Kinds, OnPath, Points

\* A write ends at its next point or with an error.
LEMMA WrittenType ==
  ASSUME TypeOK, NEW r \in Requests, NEW next \in Points, Written(r, next)
  PROVE  pc' \in [Requests -> Points] /\ emitted' \in [Requests -> SUBSET Events]
BY DEF TypeOK, Written, Goto, Emit, Points, Ended, Events

\* The first half of append_message keeps the columns it sets in their types.
LEMMA ReserveType ==
  ASSUME TypeOK, NEW r \in Requests, Reserve(r), session_id[r] \in Sessions
  PROVE  /\ msg_seq' \in [Sessions -> Nat]
         /\ updated_at' \in [Sessions -> Nat]
         /\ seq' \in [Requests -> Nat]
BY DEF TypeOK, Reserve, Increment, After, Touch

\* The second half adds one well-formed message.
LEMMA InsertType ==
  ASSUME TypeOK, NEW r \in Requests, NEW role \in Roles, Insert(r, role),
         session_id[r] \in Sessions, user[r] \in Users
  PROVE  messages' \subseteq Message /\ messages \subseteq messages'
BY DEF TypeOK, Insert, Message

\* The handler's steps and its environment's keep every variable in its type.
LEMMA StepType ==
  ASSUME TypeOK, LocalsOK, OwnershipHeld, NEW r \in Requests,
         Handle(r) \/ Environment(r)
  PROVE  TypeOK'
<1>1. ASSUME NEW u \in Users, PostNew(r, u) PROVE TypeOK'
  BY <1>1 DEF PostNew, OpenStream, Points, Active, Streaming, TypeOK, store, Goto
<1>2. ASSUME NEW u \in Users, NEW k \in OnPath, NEW s \in Sessions, PostOn(r, u, k, s)
      PROVE TypeOK'
  BY <1>2 DEF PostOn, Kinds, Points, Active, TypeOK, store, Goto
<1>3. CASE Authorize(r)
  BY <1>3 DEF Authorize, OpenStream, Points, Active, Streaming, Ended, TypeOK, store, Goto
<1>4. CASE Rename(r)
  BY <1>4 DEF Rename, Ended, Events, TypeOK, request, Goto, Emit, Written, Points
<1>5. CASE Archive(r)
  <2>1. archived' \in [Sessions -> BOOLEAN]
    BY <1>5 DEF Archive, TypeOK
  <2>2. pc' \in [Requests -> Points] /\ emitted' \in [Requests -> SUBSET Events]
    BY <1>5, WrittenType DEF Archive, Points, Ended
  <2> QED
    BY <1>5, <2>1, <2>2 DEF Archive, TypeOK, request
<1>6. CASE GetHistory(r)
  BY <1>6 DEF GetHistory, MessagesOf, Ended, Points, TypeOK, store, Goto
<1>7. CASE Query(r)
  BY <1>7 DEF Query, AfterQuery, Points, Active, Streaming, TypeOK, store, request, Goto
<1>8. ASSUME NEW last \in BOOLEAN, ReceiveSession(r, last) PROVE TypeOK'
  BY <1>8 DEF ReceiveSession, Points, Active, Streaming, TypeOK, store, Goto
<1>9. CASE ReceiveAssistant(r)
  BY <1>9 DEF ReceiveAssistant, Events, TypeOK, store, request, Emit
<1>10. CASE ReceiveResult(r)
  BY <1>10 DEF ReceiveResult, AfterResult, Points, Active, Streaming, TypeOK, store, Goto
<1>11. CASE RecordConversation(r)
  <2>1. pc' \in [Requests -> Points] /\ emitted' \in [Requests -> SUBSET Events]
    BY <1>11, WrittenType DEF RecordConversation, Points, Active, Streaming
  <2>2. session_id[r] \in Sessions /\ user[r] \in Users /\ now[r] \in Nat
    BY <1>11 DEF RecordConversation, LocalsOK, TypeOK
  <2>3. owner' \in [Sessions -> Users \cup {NoUser}]
    BY <1>11, <2>2 DEF RecordConversation, TypeOK
  <2>4. title' \in [Sessions -> Requests \cup {NoRequest}]
    BY <1>11, <2>2 DEF RecordConversation, TypeOK
  <2>5. archived' \in [Sessions -> BOOLEAN]
    BY <1>11, <2>2 DEF RecordConversation, TypeOK
  <2>6. msg_seq' \in [Sessions -> Nat] /\ updated_at' \in [Sessions -> Nat]
    BY <1>11, <2>2 DEF RecordConversation, TypeOK
  <2> QED
    BY <1>11, <2>1, <2>3, <2>4, <2>5, <2>6 DEF RecordConversation, TypeOK, request
<1>12. CASE ReserveUser(r)
  <2>1. pc' \in [Requests -> Points] /\ emitted' \in [Requests -> SUBSET Events]
    BY <1>12, WrittenType DEF ReserveUser, Points, Active, Streaming
  <2>2. session_id[r] \in Sessions
    BY <1>12 DEF ReserveUser, OwnershipHeld, Attached
  <2> QED
    BY <1>12, <2>1, <2>2, ReserveType DEF ReserveUser, TypeOK
<1>13. CASE ReserveAnswer(r)
  <2>1. pc' \in [Requests -> Points] /\ emitted' \in [Requests -> SUBSET Events]
    BY <1>13, WrittenType DEF ReserveAnswer, Points, Active, Streaming
  <2>2. session_id[r] \in Sessions
    BY <1>13 DEF ReserveAnswer, OwnershipHeld, Attached
  <2> QED
    BY <1>13, <2>1, <2>2, ReserveType DEF ReserveAnswer, TypeOK
<1>14. CASE InsertUser(r)
  <2>1. pc' \in [Requests -> Points] /\ emitted' \in [Requests -> SUBSET Events]
    BY <1>14, WrittenType DEF InsertUser, Points, Active, Streaming
  <2>2. session_id[r] \in Sessions /\ user[r] \in Users
    BY <1>14 DEF InsertUser, OwnershipHeld, LocalsOK, Attached
  <2>3. messages' \subseteq Message /\ messages \subseteq messages'
    BY <1>14, <2>2, InsertType DEF InsertUser, Roles
  <2> QED
    BY <1>14, <2>1, <2>3 DEF InsertUser, TypeOK, request
<1>15. CASE InsertAnswer(r)
  <2>1. pc' \in [Requests -> Points] /\ emitted' \in [Requests -> SUBSET Events]
    BY <1>15, WrittenType DEF InsertAnswer, Points, Active, Streaming
  <2>2. session_id[r] \in Sessions /\ user[r] \in Users
    BY <1>15 DEF InsertAnswer, OwnershipHeld, LocalsOK, Attached
  <2>3. messages' \subseteq Message /\ messages \subseteq messages'
    BY <1>15, <2>2, InsertType DEF InsertAnswer, Roles
  <2> QED
    BY <1>15, <2>1, <2>3 DEF InsertAnswer, TypeOK, request
<1>16. CASE AnnounceSession(r)
  BY <1>16 DEF AnnounceSession, AfterSession, Points, Active, Streaming, Events, TypeOK, store, request, Goto, Emit
<1>17. CASE Finish(r)
  BY <1>17 DEF Finish, Points, Ended, Events, TypeOK, store, request, Goto, Emit
<1>18. CASE Fail(r)
  BY <1>18 DEF Fail, Points, Ended, Events, TypeOK, store, request, Goto, Emit
<1>19. CASE Disconnect(r)
  BY <1>19 DEF Disconnect, Points, Ended, TypeOK, store, request, Goto
<1> QED
  BY <1>1, <1>2, <1>3, <1>4, <1>5, <1>6, <1>7, <1>8, <1>9, <1>10, <1>11, <1>12,
     <1>13, <1>14, <1>15, <1>16, <1>17, <1>18, <1>19 DEF Handle, Environment

-----------------------------------------------------------------------------
(* What every step of a request leaves alone.                              *)

\* The coroutines of other requests do not move.
Others(r) ==
  \A q \in Requests \ {r} :
    /\ pc'[q] = pc[q] /\ kind'[q] = kind[q] /\ user'[q] = user[q]
    /\ session_id'[q] = session_id[q] /\ seq'[q] = seq[q]
    /\ emitted'[q] = emitted[q] /\ view'[q] = view[q]

\* A posted request keeps its user, kind and, once known, its session.
Keeps(r) ==
  pc[r] # "idle" =>
    /\ pc'[r] # "idle" /\ user'[r] = user[r] /\ kind'[r] = kind[r]
    /\ session_id[r] # NoSession => session_id'[r] = session_id[r]

\* The store only grows: owners are for good, nothing is taken back.
Grows ==
  /\ messages \subseteq messages'
  /\ \A s \in Sessions : /\ owner[s] # NoUser => owner'[s] = owner[s]
                         /\ msg_seq[s] <= msg_seq'[s]
                         /\ archived[s] => archived'[s]

LEMMA StepOthers ==
  ASSUME TypeOK, NEW r \in Requests, Handle(r) \/ Environment(r)
  PROVE  Others(r)
<1> USE DEF TypeOK, store, request, Goto, Emit, Written, Others
<1>1. ASSUME NEW u \in Users, PostNew(r, u) PROVE Others(r)
  BY <1>1 DEF PostNew, OpenStream
<1>2. ASSUME NEW u \in Users, NEW k \in OnPath, NEW s \in Sessions, PostOn(r, u, k, s)
      PROVE Others(r)
  BY <1>2 DEF PostOn
<1>3. CASE Authorize(r)
  BY <1>3 DEF Authorize, OpenStream
<1>4. CASE Rename(r) \/ Archive(r) \/ GetHistory(r)
  BY <1>4 DEF Rename, Archive, GetHistory
<1>5. CASE Query(r) \/ ReceiveAssistant(r) \/ ReceiveResult(r)
  BY <1>5 DEF Query, AfterQuery, ReceiveAssistant, ReceiveResult, AfterResult
<1>6. ASSUME NEW last \in BOOLEAN, ReceiveSession(r, last) PROVE Others(r)
  BY <1>6 DEF ReceiveSession
<1>7. CASE RecordConversation(r)
  BY <1>7 DEF RecordConversation
<1>8. CASE ReserveUser(r) \/ ReserveAnswer(r)
  BY <1>8 DEF ReserveUser, ReserveAnswer, Reserve, Increment, After, Touch
<1>9. CASE InsertUser(r) \/ InsertAnswer(r)
  BY <1>9 DEF InsertUser, InsertAnswer
<1>10. CASE AnnounceSession(r) \/ Finish(r) \/ Fail(r) \/ Disconnect(r)
  BY <1>10 DEF AnnounceSession, AfterSession, Finish, Fail, Disconnect
<1> QED
  BY <1>1, <1>2, <1>3, <1>4, <1>5, <1>6, <1>7, <1>8, <1>9, <1>10 DEF Handle, Environment

LEMMA StepKeeps ==
  ASSUME TypeOK, NEW r \in Requests, Handle(r) \/ Environment(r)
  PROVE  Keeps(r)
<1> USE DEF TypeOK, store, request, Goto, Emit, Written, Keeps
<1>1. ASSUME NEW u \in Users, PostNew(r, u) PROVE Keeps(r)
  BY <1>1 DEF PostNew
<1>2. ASSUME NEW u \in Users, NEW k \in OnPath, NEW s \in Sessions, PostOn(r, u, k, s)
      PROVE Keeps(r)
  BY <1>2 DEF PostOn
<1>3. CASE Authorize(r)
  BY <1>3 DEF Authorize
<1>4. CASE Rename(r) \/ Archive(r) \/ GetHistory(r)
  BY <1>4 DEF Rename, Archive, GetHistory
<1>5. CASE Query(r) \/ ReceiveAssistant(r) \/ ReceiveResult(r)
  BY <1>5 DEF Query, AfterQuery, ReceiveAssistant, ReceiveResult, AfterResult
<1>6. ASSUME NEW last \in BOOLEAN, ReceiveSession(r, last) PROVE Keeps(r)
  BY <1>6 DEF ReceiveSession
<1>7. CASE RecordConversation(r)
  BY <1>7 DEF RecordConversation
<1>8. CASE ReserveUser(r) \/ ReserveAnswer(r)
  BY <1>8 DEF ReserveUser, ReserveAnswer
<1>9. CASE InsertUser(r) \/ InsertAnswer(r)
  BY <1>9 DEF InsertUser, InsertAnswer
<1>10. CASE AnnounceSession(r) \/ Finish(r) \/ Fail(r) \/ Disconnect(r)
  BY <1>10 DEF AnnounceSession, AfterSession, Finish, Fail, Disconnect
<1> QED
  BY <1>1, <1>2, <1>3, <1>4, <1>5, <1>6, <1>7, <1>8, <1>9, <1>10 DEF Handle, Environment

LEMMA StepGrows ==
  ASSUME TypeOK, NothingBeforeRecord, NEW r \in Requests, Handle(r) \/ Environment(r)
  PROVE  Grows
<1>1. CASE Rename(r)
  BY <1>1 DEF Rename, Grows, TypeOK
<1>2. CASE Archive(r)
  BY <1>2 DEF Archive, Grows, TypeOK
<1>3. CASE RecordConversation(r)
  BY <1>3 DEF RecordConversation, Grows, TypeOK, NothingBeforeRecord
<1>4. CASE ReserveUser(r) \/ ReserveAnswer(r)
  BY <1>4 DEF ReserveUser, ReserveAnswer, Reserve, Increment, After, Touch, Grows, TypeOK
<1>5. CASE InsertUser(r) \/ InsertAnswer(r)
  BY <1>5 DEF InsertUser, InsertAnswer, Insert, Grows, TypeOK
<1>6. CASE UNCHANGED store
  BY <1>6 DEF store, Grows, TypeOK
<1> QED
  BY <1>1, <1>2, <1>3, <1>4, <1>5, <1>6 DEF Handle, Environment, PostNew, PostOn,
     Authorize, GetHistory, Query, AfterQuery, ReceiveSession, ReceiveAssistant, ReceiveResult, AfterResult,
     AnnounceSession, AfterSession, Finish, Fail, Disconnect
-----------------------------------------------------------------------------
(* The inductive step, one lemma per part of IInv.                         *)

LEMMA StepLocals ==
  ASSUME IInv, NEW r \in Requests, Handle(r) \/ Environment(r)
  PROVE  LocalsOK'
<1> USE NoUserAssumption, NoSessionAssumption DEF store, request, Goto, Emit,
      Written, IInv, TypeOK, Others, Keeps, LocalsOK, Points, Active,
      Streaming, Ended, OnPath, Kinds
<1>a. Others(r) /\ Keeps(r) /\ Grows /\ TypeOK
  BY StepOthers, StepKeeps, StepGrows DEF IInv
<1>1. ASSUME NEW u \in Users, PostNew(r, u) PROVE LocalsOK'
  BY <1>a, <1>1 DEF PostNew, OpenStream
<1>2. ASSUME NEW u \in Users, NEW k \in OnPath, NEW s \in Sessions, PostOn(r, u, k, s)
      PROVE  LocalsOK'
  BY <1>a, <1>2 DEF PostOn
<1>3. CASE Authorize(r)
  BY <1>a, <1>3 DEF Authorize, OpenStream
<1>4. CASE Rename(r)
  BY <1>a, <1>4 DEF Rename
<1>5. CASE Archive(r)
  BY <1>a, <1>5 DEF Archive
<1>6. CASE GetHistory(r)
  BY <1>a, <1>6 DEF GetHistory
<1>7. CASE Query(r)
  BY <1>a, <1>7 DEF Query, AfterQuery
<1>8. CASE ReceiveAssistant(r)
  BY <1>a, <1>8 DEF ReceiveAssistant
<1>9. CASE ReceiveResult(r)
  BY <1>a, <1>9 DEF ReceiveResult, AfterResult
<1>10. ASSUME NEW last \in BOOLEAN, ReceiveSession(r, last) PROVE LocalsOK'
  BY <1>a, <1>10 DEF ReceiveSession, FreshSession
<1>11. CASE RecordConversation(r)
  BY <1>a, <1>11 DEF RecordConversation
<1>12. CASE ReserveUser(r)
  BY <1>a, <1>12 DEF ReserveUser, Reserve, Increment, After, Touch
<1>13. CASE ReserveAnswer(r)
  BY <1>a, <1>13 DEF ReserveAnswer, Reserve, Increment, After, Touch
<1>14. CASE InsertUser(r)
  BY <1>a, <1>14 DEF InsertUser, Insert
<1>15. CASE InsertAnswer(r)
  BY <1>a, <1>15 DEF InsertAnswer, Insert
<1>16. CASE AnnounceSession(r)
  BY <1>a, <1>16 DEF AnnounceSession, AfterSession
<1>17. CASE Finish(r)
  BY <1>a, <1>17 DEF Finish
<1>18. CASE Fail(r)
  BY <1>a, <1>18 DEF Fail
<1>19. CASE Disconnect(r)
  BY <1>a, <1>19 DEF Disconnect
<1> QED
  BY <1>1, <1>2, <1>3, <1>4, <1>5, <1>6, <1>7, <1>8, <1>9, <1>10, <1>11, <1>12, <1>13, <1>14, <1>15, <1>16, <1>17, <1>18, <1>19 DEF Handle, Environment

LEMMA StepOwnership ==
  ASSUME IInv, NEW r \in Requests, Handle(r) \/ Environment(r)
  PROVE  OwnershipHeld'
<1> USE NoUserAssumption, NoSessionAssumption DEF store, request, Goto, Emit,
      Written, IInv, TypeOK, Others, Keeps, Grows, LocalsOK, OwnershipHeld,
      Attached, RecordOK, Owns, Streaming, Active, OnPath
<1>a. Others(r) /\ Keeps(r) /\ Grows /\ TypeOK
  BY StepOthers, StepKeeps, StepGrows DEF IInv
<1>1. ASSUME NEW u \in Users, PostNew(r, u) PROVE OwnershipHeld'
  BY <1>a, <1>1 DEF PostNew, OpenStream
<1>2. ASSUME NEW u \in Users, NEW k \in OnPath, NEW s \in Sessions, PostOn(r, u, k, s)
      PROVE  OwnershipHeld'
  BY <1>a, <1>2 DEF PostOn
<1>3. CASE Authorize(r)
  BY <1>a, <1>3 DEF Authorize, OpenStream
<1>4. CASE Rename(r)
  BY <1>a, <1>4 DEF Rename
<1>5. CASE Archive(r)
  BY <1>a, <1>5 DEF Archive
<1>6. CASE GetHistory(r)
  BY <1>a, <1>6 DEF GetHistory
<1>7. CASE Query(r)
  BY <1>a, <1>7 DEF Query, AfterQuery
<1>8. CASE ReceiveAssistant(r)
  BY <1>a, <1>8 DEF ReceiveAssistant
<1>9. CASE ReceiveResult(r)
  BY <1>a, <1>9 DEF ReceiveResult, AfterResult
<1>10. ASSUME NEW last \in BOOLEAN, ReceiveSession(r, last) PROVE OwnershipHeld'
  BY <1>a, <1>10 DEF ReceiveSession, FreshSession
<1>11. CASE RecordConversation(r)
  BY <1>a, <1>11 DEF RecordConversation
<1>12. CASE ReserveUser(r)
  BY <1>a, <1>12 DEF ReserveUser, Reserve, Increment, After, Touch
<1>13. CASE ReserveAnswer(r)
  BY <1>a, <1>13 DEF ReserveAnswer, Reserve, Increment, After, Touch
<1>14. CASE InsertUser(r)
  BY <1>a, <1>14 DEF InsertUser, Insert
<1>15. CASE InsertAnswer(r)
  BY <1>a, <1>15 DEF InsertAnswer, Insert
<1>16. CASE AnnounceSession(r)
  BY <1>a, <1>16 DEF AnnounceSession, AfterSession
<1>17. CASE Finish(r)
  BY <1>a, <1>17 DEF Finish
<1>18. CASE Fail(r)
  BY <1>a, <1>18 DEF Fail
<1>19. CASE Disconnect(r)
  BY <1>a, <1>19 DEF Disconnect
<1> QED
  BY <1>1, <1>2, <1>3, <1>4, <1>5, <1>6, <1>7, <1>8, <1>9, <1>10, <1>11, <1>12, <1>13, <1>14, <1>15, <1>16, <1>17, <1>18, <1>19 DEF Handle, Environment

LEMMA StepNothing ==
  ASSUME IInv, NEW r \in Requests, Handle(r) \/ Environment(r)
  PROVE  NothingBeforeRecord'
<1> USE NoUserAssumption, NoSessionAssumption DEF store, request, Goto, Emit,
      Written, IInv, TypeOK, Others, Keeps, Grows, LocalsOK, OwnershipHeld,
      Attached, NothingBeforeRecord
<1>a. Others(r) /\ Keeps(r) /\ Grows /\ TypeOK
  BY StepOthers, StepKeeps, StepGrows DEF IInv
<1>1. ASSUME NEW u \in Users, PostNew(r, u) PROVE NothingBeforeRecord'
  BY <1>a, <1>1 DEF PostNew, OpenStream
<1>2. ASSUME NEW u \in Users, NEW k \in OnPath, NEW s \in Sessions, PostOn(r, u, k, s)
      PROVE  NothingBeforeRecord'
  BY <1>a, <1>2 DEF PostOn
<1>3. CASE Authorize(r)
  BY <1>a, <1>3 DEF Authorize, OpenStream
<1>4. CASE Rename(r)
  BY <1>a, <1>4 DEF Rename
<1>5. CASE Archive(r)
  BY <1>a, <1>5 DEF Archive
<1>6. CASE GetHistory(r)
  BY <1>a, <1>6 DEF GetHistory
<1>7. CASE Query(r)
  BY <1>a, <1>7 DEF Query, AfterQuery
<1>8. CASE ReceiveAssistant(r)
  BY <1>a, <1>8 DEF ReceiveAssistant
<1>9. CASE ReceiveResult(r)
  BY <1>a, <1>9 DEF ReceiveResult, AfterResult
<1>10. ASSUME NEW last \in BOOLEAN, ReceiveSession(r, last) PROVE NothingBeforeRecord'
  BY <1>a, <1>10 DEF ReceiveSession, FreshSession
<1>11. CASE RecordConversation(r)
  BY <1>a, <1>11 DEF RecordConversation
<1>12. CASE ReserveUser(r)
  BY <1>a, <1>12 DEF ReserveUser, Reserve, Increment, After, Touch
<1>13. CASE ReserveAnswer(r)
  BY <1>a, <1>13 DEF ReserveAnswer, Reserve, Increment, After, Touch
<1>14. CASE InsertUser(r)
  BY <1>a, <1>14 DEF InsertUser, Insert
<1>15. CASE InsertAnswer(r)
  BY <1>a, <1>15 DEF InsertAnswer, Insert
<1>16. CASE AnnounceSession(r)
  BY <1>a, <1>16 DEF AnnounceSession, AfterSession
<1>17. CASE Finish(r)
  BY <1>a, <1>17 DEF Finish
<1>18. CASE Fail(r)
  BY <1>a, <1>18 DEF Fail
<1>19. CASE Disconnect(r)
  BY <1>a, <1>19 DEF Disconnect
<1> QED
  BY <1>1, <1>2, <1>3, <1>4, <1>5, <1>6, <1>7, <1>8, <1>9, <1>10, <1>11, <1>12, <1>13, <1>14, <1>15, <1>16, <1>17, <1>18, <1>19 DEF Handle, Environment

LEMMA StepRecord ==
  ASSUME IInv, NEW r \in Requests, Handle(r) \/ Environment(r)
  PROVE  RecordOK'
<1> USE NoUserAssumption, NoSessionAssumption DEF store, request, Goto, Emit,
      Written, IInv, TypeOK, Others, Keeps, LocalsOK, OwnershipHeld, Attached,
      NothingBeforeRecord, RecordOK, Active, Streaming
<1>a. Others(r) /\ Keeps(r) /\ Grows /\ TypeOK
  BY StepOthers, StepKeeps, StepGrows DEF IInv
<1>1. ASSUME NEW u \in Users, PostNew(r, u) PROVE RecordOK'
  BY <1>a, <1>1 DEF PostNew, OpenStream
<1>2. ASSUME NEW u \in Users, NEW k \in OnPath, NEW s \in Sessions, PostOn(r, u, k, s)
      PROVE  RecordOK'
  BY <1>a, <1>2 DEF PostOn
<1>3. CASE Authorize(r)
  BY <1>a, <1>3 DEF Authorize, OpenStream
<1>4. CASE Rename(r)
  BY <1>a, <1>4 DEF Rename
<1>5. CASE Archive(r)
  BY <1>a, <1>5 DEF Archive
<1>6. CASE GetHistory(r)
  BY <1>a, <1>6 DEF GetHistory
<1>7. CASE Query(r)
  BY <1>a, <1>7 DEF Query, AfterQuery
<1>8. CASE ReceiveAssistant(r)
  BY <1>a, <1>8 DEF ReceiveAssistant
<1>9. CASE ReceiveResult(r)
  BY <1>a, <1>9 DEF ReceiveResult, AfterResult
<1>10. ASSUME NEW last \in BOOLEAN, ReceiveSession(r, last) PROVE RecordOK'
  BY <1>a, <1>10 DEF ReceiveSession, FreshSession
<1>11. CASE RecordConversation(r)
  BY <1>a, <1>11 DEF RecordConversation
<1>12. CASE ReserveUser(r)
  BY <1>a, <1>12 DEF ReserveUser, Reserve, Increment, After, Touch
<1>13. CASE ReserveAnswer(r)
  BY <1>a, <1>13 DEF ReserveAnswer, Reserve, Increment, After, Touch
<1>14. CASE InsertUser(r)
  BY <1>a, <1>14 DEF InsertUser, Insert
<1>15. CASE InsertAnswer(r)
  BY <1>a, <1>15 DEF InsertAnswer, Insert
<1>16. CASE AnnounceSession(r)
  BY <1>a, <1>16 DEF AnnounceSession, AfterSession
<1>17. CASE Finish(r)
  BY <1>a, <1>17 DEF Finish
<1>18. CASE Fail(r)
  BY <1>a, <1>18 DEF Fail
<1>19. CASE Disconnect(r)
  BY <1>a, <1>19 DEF Disconnect
<1> QED
  BY <1>1, <1>2, <1>3, <1>4, <1>5, <1>6, <1>7, <1>8, <1>9, <1>10, <1>11, <1>12, <1>13, <1>14, <1>15, <1>16, <1>17, <1>18, <1>19 DEF Handle, Environment

LEMMA StepMessages ==
  ASSUME IInv, NEW r \in Requests, Handle(r) \/ Environment(r)
  PROVE  MessagesOK'
<1> USE NoUserAssumption, NoSessionAssumption DEF store, request, Goto, Emit,
      Written, IInv, TypeOK, Others, Keeps, Grows, LocalsOK, OwnershipHeld,
      Attached, NothingBeforeRecord, RecordOK, MessagesOK, ReservedOK,
      Inserting, Message
<1>a. Others(r) /\ Keeps(r) /\ Grows /\ TypeOK
  BY StepOthers, StepKeeps, StepGrows DEF IInv
<1>1. ASSUME NEW u \in Users, PostNew(r, u) PROVE MessagesOK'
  BY <1>a, <1>1 DEF PostNew, OpenStream
<1>2. ASSUME NEW u \in Users, NEW k \in OnPath, NEW s \in Sessions, PostOn(r, u, k, s)
      PROVE  MessagesOK'
  BY <1>a, <1>2 DEF PostOn
<1>3. CASE Authorize(r)
  BY <1>a, <1>3 DEF Authorize, OpenStream
<1>4. CASE Rename(r)
  BY <1>a, <1>4 DEF Rename
<1>5. CASE Archive(r)
  BY <1>a, <1>5 DEF Archive
<1>6. CASE GetHistory(r)
  BY <1>a, <1>6 DEF GetHistory
<1>7. CASE Query(r)
  BY <1>a, <1>7 DEF Query, AfterQuery
<1>8. CASE ReceiveAssistant(r)
  BY <1>a, <1>8 DEF ReceiveAssistant
<1>9. CASE ReceiveResult(r)
  BY <1>a, <1>9 DEF ReceiveResult, AfterResult
<1>10. ASSUME NEW last \in BOOLEAN, ReceiveSession(r, last) PROVE MessagesOK'
  BY <1>a, <1>10 DEF ReceiveSession, FreshSession
<1>11. CASE RecordConversation(r)
  BY <1>a, <1>11 DEF RecordConversation
<1>12. CASE ReserveUser(r)
  BY <1>a, <1>12 DEF ReserveUser, Reserve, Increment, After, Touch
<1>13. CASE ReserveAnswer(r)
  BY <1>a, <1>13 DEF ReserveAnswer, Reserve, Increment, After, Touch
<1>14. CASE InsertUser(r)
  BY <1>a, <1>14 DEF InsertUser, Insert
<1>15. CASE InsertAnswer(r)
  BY <1>a, <1>15 DEF InsertAnswer, Insert
<1>16. CASE AnnounceSession(r)
  BY <1>a, <1>16 DEF AnnounceSession, AfterSession
<1>17. CASE Finish(r)
  BY <1>a, <1>17 DEF Finish
<1>18. CASE Fail(r)
  BY <1>a, <1>18 DEF Fail
<1>19. CASE Disconnect(r)
  BY <1>a, <1>19 DEF Disconnect
<1> QED
  BY <1>1, <1>2, <1>3, <1>4, <1>5, <1>6, <1>7, <1>8, <1>9, <1>10, <1>11, <1>12, <1>13, <1>14, <1>15, <1>16, <1>17, <1>18, <1>19 DEF Handle, Environment

LEMMA StepReserved ==
  ASSUME IInv, NEW r \in Requests, Handle(r) \/ Environment(r)
  PROVE  ReservedOK'
<1> USE NoUserAssumption, NoSessionAssumption DEF store, request, Goto, Emit,
      Written, IInv, TypeOK, Others, Keeps, Grows, LocalsOK, OwnershipHeld,
      Attached, RecordOK, MessagesOK, ReservedOK, Inserting, Message
<1>a. Others(r) /\ Keeps(r) /\ Grows /\ TypeOK
  BY StepOthers, StepKeeps, StepGrows DEF IInv
<1>1. ASSUME NEW u \in Users, PostNew(r, u) PROVE ReservedOK'
  BY <1>a, <1>1 DEF PostNew, OpenStream
<1>2. ASSUME NEW u \in Users, NEW k \in OnPath, NEW s \in Sessions, PostOn(r, u, k, s)
      PROVE  ReservedOK'
  BY <1>a, <1>2 DEF PostOn
<1>3. CASE Authorize(r)
  BY <1>a, <1>3 DEF Authorize, OpenStream
<1>4. CASE Rename(r)
  BY <1>a, <1>4 DEF Rename
<1>5. CASE Archive(r)
  BY <1>a, <1>5 DEF Archive
<1>6. CASE GetHistory(r)
  BY <1>a, <1>6 DEF GetHistory
<1>7. CASE Query(r)
  BY <1>a, <1>7 DEF Query, AfterQuery
<1>8. CASE ReceiveAssistant(r)
  BY <1>a, <1>8 DEF ReceiveAssistant
<1>9. CASE ReceiveResult(r)
  BY <1>a, <1>9 DEF ReceiveResult, AfterResult
<1>10. ASSUME NEW last \in BOOLEAN, ReceiveSession(r, last) PROVE ReservedOK'
  BY <1>a, <1>10 DEF ReceiveSession, FreshSession
<1>11. CASE RecordConversation(r)
  BY <1>a, <1>11 DEF RecordConversation
<1>12. CASE ReserveUser(r)
  BY <1>a, <1>12 DEF ReserveUser, Reserve, Increment, After, Touch
<1>13. CASE ReserveAnswer(r)
  BY <1>a, <1>13 DEF ReserveAnswer, Reserve, Increment, After, Touch
<1>14. CASE InsertUser(r)
  BY <1>a, <1>14 DEF InsertUser, Insert
<1>15. CASE InsertAnswer(r)
  BY <1>a, <1>15 DEF InsertAnswer, Insert
<1>16. CASE AnnounceSession(r)
  BY <1>a, <1>16 DEF AnnounceSession, AfterSession
<1>17. CASE Finish(r)
  BY <1>a, <1>17 DEF Finish
<1>18. CASE Fail(r)
  BY <1>a, <1>18 DEF Fail
<1>19. CASE Disconnect(r)
  BY <1>a, <1>19 DEF Disconnect
<1> QED
  BY <1>1, <1>2, <1>3, <1>4, <1>5, <1>6, <1>7, <1>8, <1>9, <1>10, <1>11, <1>12, <1>13, <1>14, <1>15, <1>16, <1>17, <1>18, <1>19 DEF Handle, Environment

LEMMA StepPrompts ==
  ASSUME IInv, NEW r \in Requests, Handle(r) \/ Environment(r)
  PROVE  PromptsOK'
<1> USE NoUserAssumption, NoSessionAssumption DEF store, request, Goto, Emit,
      Written, IInv, TypeOK, Others, Keeps, Grows, LocalsOK, OwnershipHeld,
      Attached, MessagesOK, PromptsOK, PromptSaved, Inserting, Message,
      Active, Streaming, OnPath
<1>a. Others(r) /\ Keeps(r) /\ Grows /\ TypeOK
  BY StepOthers, StepKeeps, StepGrows DEF IInv
<1>1. ASSUME NEW u \in Users, PostNew(r, u) PROVE PromptsOK'
  BY <1>a, <1>1 DEF PostNew, OpenStream
<1>2. ASSUME NEW u \in Users, NEW k \in OnPath, NEW s \in Sessions, PostOn(r, u, k, s)
      PROVE  PromptsOK'
  BY <1>a, <1>2 DEF PostOn
<1>3. CASE Authorize(r)
  BY <1>a, <1>3 DEF Authorize, OpenStream
<1>4. CASE Rename(r)
  BY <1>a, <1>4 DEF Rename
<1>5. CASE Archive(r)
  BY <1>a, <1>5 DEF Archive
<1>6. CASE GetHistory(r)
  BY <1>a, <1>6 DEF GetHistory
<1>7. CASE Query(r)
  BY <1>a, <1>7 DEF Query, AfterQuery
<1>8. CASE ReceiveAssistant(r)
  BY <1>a, <1>8 DEF ReceiveAssistant
<1>9. CASE ReceiveResult(r)
  BY <1>a, <1>9 DEF ReceiveResult, AfterResult
<1>10. ASSUME NEW last \in BOOLEAN, ReceiveSession(r, last) PROVE PromptsOK'
  BY <1>a, <1>10 DEF ReceiveSession, FreshSession
<1>11. CASE RecordConversation(r)
  BY <1>a, <1>11 DEF RecordConversation
<1>12. CASE ReserveUser(r)
  BY <1>a, <1>12 DEF ReserveUser, Reserve, Increment, After, Touch
<1>13. CASE ReserveAnswer(r)
  BY <1>a, <1>13 DEF ReserveAnswer, Reserve, Increment, After, Touch
<1>14. CASE InsertUser(r)
  <2> DEFINE new == [session_id |-> session_id[r], owner |-> user[r],
                     role |-> "user", turn |-> r, seq |-> seq[r]]
  <2>1. new \in messages' /\ new.turn = r /\ new.role = "user" /\ new.session_id = session_id[r]
    BY <1>14 DEF InsertUser, Insert
  <2>2. session_id'[r] = session_id[r]
    BY <1>14 DEF InsertUser
  <2>3. pc'[r] # "insert_answer"
    BY <1>14 DEF InsertUser
  <2>4. \A q \in Requests \ {r} : PromptSaved(q)' =>
          \E p \in messages' : /\ p.turn = q /\ p.role = "user"
                               /\ p.session_id = session_id'[q]
                               /\ pc'[q] = "insert_answer" => p.seq < seq'[q]
    BY <1>a
  <2>5. \E p \in messages' : /\ p.turn = r /\ p.role = "user"
                             /\ p.session_id = session_id'[r]
                             /\ pc'[r] = "insert_answer" => p.seq < seq'[r]
    BY <2>1, <2>2, <2>3
  <2>6. \A q \in Requests : PromptSaved(q)' =>
          \E p \in messages' : /\ p.turn = q /\ p.role = "user"
                               /\ p.session_id = session_id'[q]
                               /\ pc'[q] = "insert_answer" => p.seq < seq'[q]
    BY <2>4, <2>5
  <2> QED
    BY <2>6 DEF PromptsOK
<1>15. CASE InsertAnswer(r)
  BY <1>a, <1>15 DEF InsertAnswer, Insert
<1>16. CASE AnnounceSession(r)
  BY <1>a, <1>16 DEF AnnounceSession, AfterSession
<1>17. CASE Finish(r)
  BY <1>a, <1>17 DEF Finish
<1>18. CASE Fail(r)
  BY <1>a, <1>18 DEF Fail
<1>19. CASE Disconnect(r)
  BY <1>a, <1>19 DEF Disconnect
<1> QED
  BY <1>1, <1>2, <1>3, <1>4, <1>5, <1>6, <1>7, <1>8, <1>9, <1>10, <1>11, <1>12, <1>13, <1>14, <1>15, <1>16, <1>17, <1>18, <1>19 DEF Handle, Environment

LEMMA StepTitles ==
  ASSUME IInv, NEW r \in Requests, Handle(r) \/ Environment(r)
  PROVE  TitlesOK'
<1> USE NoUserAssumption, NoSessionAssumption DEF store, request, Goto, Emit,
      Written, IInv, TypeOK, Others, Keeps, Grows, LocalsOK, OwnershipHeld,
      Attached, NothingBeforeRecord, RecordOK, TitlesOK
<1>a. Others(r) /\ Keeps(r) /\ Grows /\ TypeOK
  BY StepOthers, StepKeeps, StepGrows DEF IInv
<1>1. ASSUME NEW u \in Users, PostNew(r, u) PROVE TitlesOK'
  BY <1>a, <1>1 DEF PostNew, OpenStream
<1>2. ASSUME NEW u \in Users, NEW k \in OnPath, NEW s \in Sessions, PostOn(r, u, k, s)
      PROVE  TitlesOK'
  BY <1>a, <1>2 DEF PostOn
<1>3. CASE Authorize(r)
  BY <1>a, <1>3 DEF Authorize, OpenStream
<1>4. CASE Rename(r)
  BY <1>a, <1>4 DEF Rename
<1>5. CASE Archive(r)
  BY <1>a, <1>5 DEF Archive
<1>6. CASE GetHistory(r)
  BY <1>a, <1>6 DEF GetHistory
<1>7. CASE Query(r)
  BY <1>a, <1>7 DEF Query, AfterQuery
<1>8. CASE ReceiveAssistant(r)
  BY <1>a, <1>8 DEF ReceiveAssistant
<1>9. CASE ReceiveResult(r)
  BY <1>a, <1>9 DEF ReceiveResult, AfterResult
<1>10. ASSUME NEW last \in BOOLEAN, ReceiveSession(r, last) PROVE TitlesOK'
  BY <1>a, <1>10 DEF ReceiveSession, FreshSession
<1>11. CASE RecordConversation(r)
  BY <1>a, <1>11 DEF RecordConversation
<1>12. CASE ReserveUser(r)
  BY <1>a, <1>12 DEF ReserveUser, Reserve, Increment, After, Touch
<1>13. CASE ReserveAnswer(r)
  BY <1>a, <1>13 DEF ReserveAnswer, Reserve, Increment, After, Touch
<1>14. CASE InsertUser(r)
  BY <1>a, <1>14 DEF InsertUser, Insert
<1>15. CASE InsertAnswer(r)
  BY <1>a, <1>15 DEF InsertAnswer, Insert
<1>16. CASE AnnounceSession(r)
  BY <1>a, <1>16 DEF AnnounceSession, AfterSession
<1>17. CASE Finish(r)
  BY <1>a, <1>17 DEF Finish
<1>18. CASE Fail(r)
  BY <1>a, <1>18 DEF Fail
<1>19. CASE Disconnect(r)
  BY <1>a, <1>19 DEF Disconnect
<1> QED
  BY <1>1, <1>2, <1>3, <1>4, <1>5, <1>6, <1>7, <1>8, <1>9, <1>10, <1>11, <1>12, <1>13, <1>14, <1>15, <1>16, <1>17, <1>18, <1>19 DEF Handle, Environment

LEMMA StepViews ==
  ASSUME IInv, NEW r \in Requests, Handle(r) \/ Environment(r)
  PROVE  ViewsOK'
<1> USE NoUserAssumption, NoSessionAssumption DEF store, request, Goto, Emit,
      Written, IInv, TypeOK, Others, Keeps, Grows, LocalsOK, OwnershipHeld,
      Attached, MessagesOK, ViewsOK, MessagesOf, Message
<1>a. Others(r) /\ Keeps(r) /\ Grows /\ TypeOK
  BY StepOthers, StepKeeps, StepGrows DEF IInv
<1>1. ASSUME NEW u \in Users, PostNew(r, u) PROVE ViewsOK'
  BY <1>a, <1>1 DEF PostNew, OpenStream
<1>2. ASSUME NEW u \in Users, NEW k \in OnPath, NEW s \in Sessions, PostOn(r, u, k, s)
      PROVE  ViewsOK'
  BY <1>a, <1>2 DEF PostOn
<1>3. CASE Authorize(r)
  BY <1>a, <1>3 DEF Authorize, OpenStream
<1>4. CASE Rename(r)
  BY <1>a, <1>4 DEF Rename
<1>5. CASE Archive(r)
  BY <1>a, <1>5 DEF Archive
<1>6. CASE GetHistory(r)
  BY <1>a, <1>6 DEF GetHistory
<1>7. CASE Query(r)
  BY <1>a, <1>7 DEF Query, AfterQuery
<1>8. CASE ReceiveAssistant(r)
  BY <1>a, <1>8 DEF ReceiveAssistant
<1>9. CASE ReceiveResult(r)
  BY <1>a, <1>9 DEF ReceiveResult, AfterResult
<1>10. ASSUME NEW last \in BOOLEAN, ReceiveSession(r, last) PROVE ViewsOK'
  BY <1>a, <1>10 DEF ReceiveSession, FreshSession
<1>11. CASE RecordConversation(r)
  BY <1>a, <1>11 DEF RecordConversation
<1>12. CASE ReserveUser(r)
  BY <1>a, <1>12 DEF ReserveUser, Reserve, Increment, After, Touch
<1>13. CASE ReserveAnswer(r)
  BY <1>a, <1>13 DEF ReserveAnswer, Reserve, Increment, After, Touch
<1>14. CASE InsertUser(r)
  BY <1>a, <1>14 DEF InsertUser, Insert
<1>15. CASE InsertAnswer(r)
  BY <1>a, <1>15 DEF InsertAnswer, Insert
<1>16. CASE AnnounceSession(r)
  BY <1>a, <1>16 DEF AnnounceSession, AfterSession
<1>17. CASE Finish(r)
  BY <1>a, <1>17 DEF Finish
<1>18. CASE Fail(r)
  BY <1>a, <1>18 DEF Fail
<1>19. CASE Disconnect(r)
  BY <1>a, <1>19 DEF Disconnect
<1> QED
  BY <1>1, <1>2, <1>3, <1>4, <1>5, <1>6, <1>7, <1>8, <1>9, <1>10, <1>11, <1>12, <1>13, <1>14, <1>15, <1>16, <1>17, <1>18, <1>19 DEF Handle, Environment

LEMMA StepHidden ==
  ASSUME IInv, NEW r \in Requests, Handle(r) \/ Environment(r)
  PROVE  HiddenOK'
<1> USE NoUserAssumption, NoSessionAssumption DEF store, request, Goto, Emit,
      Written, IInv, TypeOK, Others, Keeps, Grows, LocalsOK, OwnershipHeld,
      Attached, HiddenOK, OnPath, Streaming
<1>a. Others(r) /\ Keeps(r) /\ Grows /\ TypeOK
  BY StepOthers, StepKeeps, StepGrows DEF IInv
<1>1. ASSUME NEW u \in Users, PostNew(r, u) PROVE HiddenOK'
  BY <1>a, <1>1 DEF PostNew, OpenStream
<1>2. ASSUME NEW u \in Users, NEW k \in OnPath, NEW s \in Sessions, PostOn(r, u, k, s)
      PROVE  HiddenOK'
  BY <1>a, <1>2 DEF PostOn
<1>3. CASE Authorize(r)
  BY <1>a, <1>3 DEF Authorize, OpenStream
<1>4. CASE Rename(r)
  BY <1>a, <1>4 DEF Rename
<1>5. CASE Archive(r)
  BY <1>a, <1>5 DEF Archive
<1>6. CASE GetHistory(r)
  BY <1>a, <1>6 DEF GetHistory
<1>7. CASE Query(r)
  BY <1>a, <1>7 DEF Query, AfterQuery
<1>8. CASE ReceiveAssistant(r)
  BY <1>a, <1>8 DEF ReceiveAssistant
<1>9. CASE ReceiveResult(r)
  BY <1>a, <1>9 DEF ReceiveResult, AfterResult
<1>10. ASSUME NEW last \in BOOLEAN, ReceiveSession(r, last) PROVE HiddenOK'
  BY <1>a, <1>10 DEF ReceiveSession, FreshSession
<1>11. CASE RecordConversation(r)
  BY <1>a, <1>11 DEF RecordConversation
<1>12. CASE ReserveUser(r)
  BY <1>a, <1>12 DEF ReserveUser, Reserve, Increment, After, Touch
<1>13. CASE ReserveAnswer(r)
  BY <1>a, <1>13 DEF ReserveAnswer, Reserve, Increment, After, Touch
<1>14. CASE InsertUser(r)
  BY <1>a, <1>14 DEF InsertUser, Insert
<1>15. CASE InsertAnswer(r)
  BY <1>a, <1>15 DEF InsertAnswer, Insert
<1>16. CASE AnnounceSession(r)
  BY <1>a, <1>16 DEF AnnounceSession, AfterSession
<1>17. CASE Finish(r)
  BY <1>a, <1>17 DEF Finish
<1>18. CASE Fail(r)
  BY <1>a, <1>18 DEF Fail
<1>19. CASE Disconnect(r)
  BY <1>a, <1>19 DEF Disconnect
<1> QED
  BY <1>1, <1>2, <1>3, <1>4, <1>5, <1>6, <1>7, <1>8, <1>9, <1>10, <1>11, <1>12, <1>13, <1>14, <1>15, <1>16, <1>17, <1>18, <1>19 DEF Handle, Environment

LEMMA StepAnnounced ==
  ASSUME IInv, NEW r \in Requests, Handle(r) \/ Environment(r)
  PROVE  AnnouncedOK'
<1> USE NoUserAssumption, NoSessionAssumption DEF store, request, Goto, Emit,
      Written, IInv, TypeOK, Others, Keeps, Grows, LocalsOK, OwnershipHeld,
      Attached, PromptsOK, PromptSaved, AnnouncedOK, Events
<1>a. Others(r) /\ Keeps(r) /\ Grows /\ TypeOK
  BY StepOthers, StepKeeps, StepGrows DEF IInv
<1>1. ASSUME NEW u \in Users, PostNew(r, u) PROVE AnnouncedOK'
  BY <1>a, <1>1 DEF PostNew, OpenStream
<1>2. ASSUME NEW u \in Users, NEW k \in OnPath, NEW s \in Sessions, PostOn(r, u, k, s)
      PROVE  AnnouncedOK'
  BY <1>a, <1>2 DEF PostOn
<1>3. CASE Authorize(r)
  BY <1>a, <1>3 DEF Authorize, OpenStream
<1>4. CASE Rename(r)
  BY <1>a, <1>4 DEF Rename
<1>5. CASE Archive(r)
  BY <1>a, <1>5 DEF Archive
<1>6. CASE GetHistory(r)
  BY <1>a, <1>6 DEF GetHistory
<1>7. CASE Query(r)
  BY <1>a, <1>7 DEF Query, AfterQuery
<1>8. CASE ReceiveAssistant(r)
  BY <1>a, <1>8 DEF ReceiveAssistant
<1>9. CASE ReceiveResult(r)
  BY <1>a, <1>9 DEF ReceiveResult, AfterResult
<1>10. ASSUME NEW last \in BOOLEAN, ReceiveSession(r, last) PROVE AnnouncedOK'
  BY <1>a, <1>10 DEF ReceiveSession, FreshSession
<1>11. CASE RecordConversation(r)
  BY <1>a, <1>11 DEF RecordConversation
<1>12. CASE ReserveUser(r)
  BY <1>a, <1>12 DEF ReserveUser, Reserve, Increment, After, Touch
<1>13. CASE ReserveAnswer(r)
  BY <1>a, <1>13 DEF ReserveAnswer, Reserve, Increment, After, Touch
<1>14. CASE InsertUser(r)
  BY <1>a, <1>14 DEF InsertUser, Insert
<1>15. CASE InsertAnswer(r)
  BY <1>a, <1>15 DEF InsertAnswer, Insert
<1>16. CASE AnnounceSession(r)
  BY <1>a, <1>16 DEF AnnounceSession, AfterSession
<1>17. CASE Finish(r)
  BY <1>a, <1>17 DEF Finish
<1>18. CASE Fail(r)
  BY <1>a, <1>18 DEF Fail
<1>19. CASE Disconnect(r)
  BY <1>a, <1>19 DEF Disconnect
<1> QED
  BY <1>1, <1>2, <1>3, <1>4, <1>5, <1>6, <1>7, <1>8, <1>9, <1>10, <1>11, <1>12, <1>13, <1>14, <1>15, <1>16, <1>17, <1>18, <1>19 DEF Handle, Environment

LEMMA StepOrder ==
  ASSUME IInv, NEW r \in Requests, Handle(r) \/ Environment(r)
  PROVE  DisplayOrderDeterministic'
<1> USE NoUserAssumption, NoSessionAssumption DEF store, request, Goto, Emit,
      Written, IInv, TypeOK, Others, Keeps, ReservedOK, Inserting,
      DisplayOrderDeterministic
<1>a. Others(r) /\ Keeps(r) /\ Grows /\ TypeOK
  BY StepOthers, StepKeeps, StepGrows DEF IInv
<1>1. ASSUME NEW u \in Users, PostNew(r, u) PROVE DisplayOrderDeterministic'
  BY <1>a, <1>1 DEF PostNew, OpenStream
<1>2. ASSUME NEW u \in Users, NEW k \in OnPath, NEW s \in Sessions, PostOn(r, u, k, s)
      PROVE  DisplayOrderDeterministic'
  BY <1>a, <1>2 DEF PostOn
<1>3. CASE Authorize(r)
  BY <1>a, <1>3 DEF Authorize, OpenStream
<1>4. CASE Rename(r)
  BY <1>a, <1>4 DEF Rename
<1>5. CASE Archive(r)
  BY <1>a, <1>5 DEF Archive
<1>6. CASE GetHistory(r)
  BY <1>a, <1>6 DEF GetHistory
<1>7. CASE Query(r)
  BY <1>a, <1>7 DEF Query, AfterQuery
<1>8. CASE ReceiveAssistant(r)
  BY <1>a, <1>8 DEF ReceiveAssistant
<1>9. CASE ReceiveResult(r)
  BY <1>a, <1>9 DEF ReceiveResult, AfterResult
<1>10. ASSUME NEW last \in BOOLEAN, ReceiveSession(r, last) PROVE DisplayOrderDeterministic'
  BY <1>a, <1>10 DEF ReceiveSession, FreshSession
<1>11. CASE RecordConversation(r)
  BY <1>a, <1>11 DEF RecordConversation
<1>12. CASE ReserveUser(r)
  BY <1>a, <1>12 DEF ReserveUser, Reserve, Increment, After, Touch
<1>13. CASE ReserveAnswer(r)
  BY <1>a, <1>13 DEF ReserveAnswer, Reserve, Increment, After, Touch
<1>14. CASE InsertUser(r)
  BY <1>a, <1>14 DEF InsertUser, Insert
<1>15. CASE InsertAnswer(r)
  BY <1>a, <1>15 DEF InsertAnswer, Insert
<1>16. CASE AnnounceSession(r)
  BY <1>a, <1>16 DEF AnnounceSession, AfterSession
<1>17. CASE Finish(r)
  BY <1>a, <1>17 DEF Finish
<1>18. CASE Fail(r)
  BY <1>a, <1>18 DEF Fail
<1>19. CASE Disconnect(r)
  BY <1>a, <1>19 DEF Disconnect
<1> QED
  BY <1>1, <1>2, <1>3, <1>4, <1>5, <1>6, <1>7, <1>8, <1>9, <1>10, <1>11, <1>12, <1>13, <1>14, <1>15, <1>16, <1>17, <1>18, <1>19 DEF Handle, Environment

LEMMA StepAnswer ==
  ASSUME IInv, NEW r \in Requests, Handle(r) \/ Environment(r)
  PROVE  AnswerFollowsPrompt'
<1> USE NoUserAssumption, NoSessionAssumption DEF store, request, Goto, Emit,
      Written, IInv, TypeOK, Others, Keeps, PromptsOK, PromptSaved,
      AnswerFollowsPrompt
<1>a. Others(r) /\ Keeps(r) /\ Grows /\ TypeOK
  BY StepOthers, StepKeeps, StepGrows DEF IInv
<1>1. ASSUME NEW u \in Users, PostNew(r, u) PROVE AnswerFollowsPrompt'
  BY <1>a, <1>1 DEF PostNew, OpenStream
<1>2. ASSUME NEW u \in Users, NEW k \in OnPath, NEW s \in Sessions, PostOn(r, u, k, s)
      PROVE  AnswerFollowsPrompt'
  BY <1>a, <1>2 DEF PostOn
<1>3. CASE Authorize(r)
  BY <1>a, <1>3 DEF Authorize, OpenStream
<1>4. CASE Rename(r)
  BY <1>a, <1>4 DEF Rename
<1>5. CASE Archive(r)
  BY <1>a, <1>5 DEF Archive
<1>6. CASE GetHistory(r)
  BY <1>a, <1>6 DEF GetHistory
<1>7. CASE Query(r)
  BY <1>a, <1>7 DEF Query, AfterQuery
<1>8. CASE ReceiveAssistant(r)
  BY <1>a, <1>8 DEF ReceiveAssistant
<1>9. CASE ReceiveResult(r)
  BY <1>a, <1>9 DEF ReceiveResult, AfterResult
<1>10. ASSUME NEW last \in BOOLEAN, ReceiveSession(r, last) PROVE AnswerFollowsPrompt'
  BY <1>a, <1>10 DEF ReceiveSession, FreshSession
<1>11. CASE RecordConversation(r)
  BY <1>a, <1>11 DEF RecordConversation
<1>12. CASE ReserveUser(r)
  BY <1>a, <1>12 DEF ReserveUser, Reserve, Increment, After, Touch
<1>13. CASE ReserveAnswer(r)
  BY <1>a, <1>13 DEF ReserveAnswer, Reserve, Increment, After, Touch
<1>14. CASE InsertUser(r)
  BY <1>a, <1>14 DEF InsertUser, Insert
<1>15. CASE InsertAnswer(r)
  BY <1>a, <1>15 DEF InsertAnswer, Insert
<1>16. CASE AnnounceSession(r)
  BY <1>a, <1>16 DEF AnnounceSession, AfterSession
<1>17. CASE Finish(r)
  BY <1>a, <1>17 DEF Finish
<1>18. CASE Fail(r)
  BY <1>a, <1>18 DEF Fail
<1>19. CASE Disconnect(r)
  BY <1>a, <1>19 DEF Disconnect
<1> QED
  BY <1>1, <1>2, <1>3, <1>4, <1>5, <1>6, <1>7, <1>8, <1>9, <1>10, <1>11, <1>12, <1>13, <1>14, <1>15, <1>16, <1>17, <1>18, <1>19 DEF Handle, Environment

LEMMA StepNumbers ==
  ASSUME IInv, NEW r \in Requests, Handle(r) \/ Environment(r)
  PROVE  EveryNumberAccountedFor'
<1>a. Others(r) /\ Keeps(r) /\ Grows /\ TypeOK
  BY StepOthers, StepKeeps, StepGrows DEF IInv
<1> SUFFICES ASSUME NEW s \in Sessions, NEW n \in 1 .. msg_seq'[s]
             PROVE  \/ \E m \in messages' : m.session_id = s /\ m.seq = n
                    \/ \E q \in Requests :
                         /\ session_id'[q] = s /\ seq'[q] = n
                         /\ pc'[q] \in {"insert_user", "insert_answer", "error", "gone"}
  BY DEF EveryNumberAccountedFor, MessagesOf
\* A number handed out before the step.
<1>1. CASE n <= msg_seq[s]
  <2>1. \/ \E m \in messages : m.session_id = s /\ m.seq = n
        \/ \E q \in Requests :
             /\ session_id[q] = s /\ seq[q] = n
             /\ pc[q] \in {"insert_user", "insert_answer", "error", "gone"}
    BY <1>1, <1>a DEF IInv, EveryNumberAccountedFor, MessagesOf, TypeOK
  <2>2. CASE \E m \in messages : m.session_id = s /\ m.seq = n
    BY <2>2, <1>a DEF Grows
  <2>3. ASSUME NEW q \in Requests, session_id[q] = s, seq[q] = n, q # r,
               pc[q] \in {"insert_user", "insert_answer", "error", "gone"}
        PROVE  session_id'[q] = s /\ seq'[q] = n /\ pc'[q] = pc[q]
    BY <2>3, <1>a DEF Others
  <2>4. ASSUME session_id[r] = s, seq[r] = n, pc[r] \in {"error", "gone"}
        PROVE  FALSE
    BY <2>4 DEF Handle, Environment, Authorize, Rename, Archive, GetHistory, Query, AfterQuery,
       ReceiveResult, AfterResult, RecordConversation, ReserveUser, InsertUser, AnnounceSession, AfterSession,
       ReserveAnswer, InsertAnswer, Finish, PostNew, PostOn, ReceiveSession,
       ReceiveAssistant, Fail, Disconnect, Active, Streaming
  <2>5. ASSUME session_id[r] = s, seq[r] = n, pc[r] \in {"insert_user", "insert_answer"}
        PROVE  \/ \E m \in messages' : m.session_id = s /\ m.seq = n
               \/ /\ session_id'[r] = s /\ seq'[r] = n
                  /\ pc'[r] \in {"insert_user", "insert_answer", "error", "gone"}
    <3>1. InsertUser(r) \/ InsertAnswer(r) \/ Fail(r) \/ Disconnect(r)
      BY <2>5 DEF Handle, Environment, Authorize, Rename, Archive, GetHistory, Query, AfterQuery,
         ReceiveResult, AfterResult, RecordConversation, ReserveUser, AnnounceSession, AfterSession,
         ReserveAnswer, Finish, PostNew, PostOn, ReceiveSession, ReceiveAssistant
    <3>2. CASE InsertUser(r) \/ InsertAnswer(r)
      <4>1. PICK role \in Roles : Insert(r, role)
        BY <3>2 DEF InsertUser, InsertAnswer, Roles
      <4>2. [session_id |-> session_id[r], owner |-> user[r], role |-> role,
             turn |-> r, seq |-> seq[r]] \in messages'
        BY <4>1 DEF Insert
      <4> QED
        BY <4>2, <2>5
    <3>3. CASE Fail(r) \/ Disconnect(r)
      BY <3>3, <2>5, <1>a DEF Fail, Disconnect, Goto, request, TypeOK
    <3> QED
      BY <3>1, <3>2, <3>3
  <2> QED
    BY <2>1, <2>2, <2>3, <2>4, <2>5
\* The number this step hands out.
<1>2. CASE ~(n <= msg_seq[s])
  <2>1. ReserveUser(r) \/ ReserveAnswer(r)
    <3>1. CASE RecordConversation(r)
      BY <3>1, <1>2, <1>a DEF RecordConversation, TypeOK, IInv, NothingBeforeRecord
    <3>2. CASE UNCHANGED msg_seq
      BY <3>2, <1>2, <1>a DEF TypeOK
    <3> QED
      BY <3>1, <3>2 DEF Handle, Environment, Authorize, Rename, Archive, GetHistory,
         Query, AfterQuery, ReceiveResult, AfterResult, InsertUser, AnnounceSession, AfterSession, InsertAnswer, Finish,
         PostNew, PostOn, ReceiveSession, ReceiveAssistant, Fail, Disconnect, store
  <2>2. Reserve(r) /\ pc'[r] \in {"insert_user", "insert_answer", "error"}
        /\ session_id'[r] = session_id[r]
    BY <2>1, <1>a DEF ReserveUser, ReserveAnswer, Written, Goto, TypeOK
  <2>3. s = session_id[r] /\ n = msg_seq[s] + 1 /\ seq'[r] = n
    BY <2>2, <1>2, <1>a DEF Reserve, Increment, After, Touch, TypeOK
  <2> QED
    BY <2>2, <2>3
<1> QED
  BY <1>1, <1>2, <1>a DEF TypeOK

LEMMA StepClosed ==
  ASSUME IInv, NEW r \in Requests, Handle(r) \/ Environment(r)
  PROVE  HistoryIsClosed'
<1> USE NoUserAssumption, NoSessionAssumption DEF store, request, Goto, Emit,
      Written, IInv, TypeOK, Others, Keeps, HistoryIsClosed,
      AnswerFollowsPrompt, MessagesOf
<1>a. Others(r) /\ Keeps(r) /\ Grows /\ TypeOK
  BY StepOthers, StepKeeps, StepGrows DEF IInv
<1>1. ASSUME NEW u \in Users, PostNew(r, u) PROVE HistoryIsClosed'
  BY <1>a, <1>1 DEF PostNew, OpenStream
<1>2. ASSUME NEW u \in Users, NEW k \in OnPath, NEW s \in Sessions, PostOn(r, u, k, s)
      PROVE  HistoryIsClosed'
  BY <1>a, <1>2 DEF PostOn
<1>3. CASE Authorize(r)
  BY <1>a, <1>3 DEF Authorize, OpenStream
<1>4. CASE Rename(r)
  BY <1>a, <1>4 DEF Rename
<1>5. CASE Archive(r)
  BY <1>a, <1>5 DEF Archive
<1>6. CASE GetHistory(r)
  BY <1>a, <1>6 DEF GetHistory
<1>7. CASE Query(r)
  BY <1>a, <1>7 DEF Query, AfterQuery
<1>8. CASE ReceiveAssistant(r)
  BY <1>a, <1>8 DEF ReceiveAssistant
<1>9. CASE ReceiveResult(r)
  BY <1>a, <1>9 DEF ReceiveResult, AfterResult
<1>10. ASSUME NEW last \in BOOLEAN, ReceiveSession(r, last) PROVE HistoryIsClosed'
  BY <1>a, <1>10 DEF ReceiveSession, FreshSession
<1>11. CASE RecordConversation(r)
  BY <1>a, <1>11 DEF RecordConversation
<1>12. CASE ReserveUser(r)
  BY <1>a, <1>12 DEF ReserveUser, Reserve, Increment, After, Touch
<1>13. CASE ReserveAnswer(r)
  BY <1>a, <1>13 DEF ReserveAnswer, Reserve, Increment, After, Touch
<1>14. CASE InsertUser(r)
  BY <1>a, <1>14 DEF InsertUser, Insert
<1>15. CASE InsertAnswer(r)
  BY <1>a, <1>15 DEF InsertAnswer, Insert
<1>16. CASE AnnounceSession(r)
  BY <1>a, <1>16 DEF AnnounceSession, AfterSession
<1>17. CASE Finish(r)
  BY <1>a, <1>17 DEF Finish
<1>18. CASE Fail(r)
  BY <1>a, <1>18 DEF Fail
<1>19. CASE Disconnect(r)
  BY <1>a, <1>19 DEF Disconnect
<1> QED
  BY <1>1, <1>2, <1>3, <1>4, <1>5, <1>6, <1>7, <1>8, <1>9, <1>10, <1>11, <1>12, <1>13, <1>14, <1>15, <1>16, <1>17, <1>18, <1>19 DEF Handle, Environment

LEMMA StepOnce ==
  ASSUME IInv, NEW r \in Requests, Handle(r) \/ Environment(r)
  PROVE  WrittenOnce'
<1> USE NoUserAssumption, NoSessionAssumption DEF store, request, Goto, Emit,
      Written, IInv, TypeOK, Others, Keeps, LocalsOK, WrittenOnce,
      BeforePrompt, BeforeAnswer, MessagesOK, Message
<1>a. Others(r) /\ Keeps(r) /\ Grows /\ TypeOK
  BY StepOthers, StepKeeps, StepGrows DEF IInv
<1>1. ASSUME NEW u \in Users, PostNew(r, u) PROVE WrittenOnce'
  BY <1>a, <1>1 DEF PostNew, OpenStream
<1>2. ASSUME NEW u \in Users, NEW k \in OnPath, NEW s \in Sessions, PostOn(r, u, k, s)
      PROVE  WrittenOnce'
  BY <1>a, <1>2 DEF PostOn
<1>3. CASE Authorize(r)
  BY <1>a, <1>3 DEF Authorize, OpenStream
<1>4. CASE Rename(r)
  BY <1>a, <1>4 DEF Rename
<1>5. CASE Archive(r)
  BY <1>a, <1>5 DEF Archive
<1>6. CASE GetHistory(r)
  BY <1>a, <1>6 DEF GetHistory
<1>7. CASE Query(r)
  BY <1>a, <1>7 DEF Query, AfterQuery
<1>8. CASE ReceiveAssistant(r)
  BY <1>a, <1>8 DEF ReceiveAssistant
<1>9. CASE ReceiveResult(r)
  BY <1>a, <1>9 DEF ReceiveResult, AfterResult
<1>10. ASSUME NEW last \in BOOLEAN, ReceiveSession(r, last) PROVE WrittenOnce'
  BY <1>a, <1>10 DEF ReceiveSession, FreshSession
<1>11. CASE RecordConversation(r)
  BY <1>a, <1>11 DEF RecordConversation
<1>12. CASE ReserveUser(r)
  BY <1>a, <1>12 DEF ReserveUser, Reserve, Increment, After, Touch
<1>13. CASE ReserveAnswer(r)
  BY <1>a, <1>13 DEF ReserveAnswer, Reserve, Increment, After, Touch
<1>14. CASE InsertUser(r)
  BY <1>a, <1>14 DEF InsertUser, Insert
<1>15. CASE InsertAnswer(r)
  BY <1>a, <1>15 DEF InsertAnswer, Insert
<1>16. CASE AnnounceSession(r)
  BY <1>a, <1>16 DEF AnnounceSession, AfterSession
<1>17. CASE Finish(r)
  BY <1>a, <1>17 DEF Finish
<1>18. CASE Fail(r)
  BY <1>a, <1>18 DEF Fail
<1>19. CASE Disconnect(r)
  BY <1>a, <1>19 DEF Disconnect
<1> QED
  BY <1>1, <1>2, <1>3, <1>4, <1>5, <1>6, <1>7, <1>8, <1>9, <1>10, <1>11, <1>12, <1>13, <1>14, <1>15, <1>16, <1>17, <1>18, <1>19 DEF Handle, Environment

LEMMA StepAnswers ==
  ASSUME IInv, NEW r \in Requests, Handle(r) \/ Environment(r)
  PROVE  AnswersOK'
<1> USE NoUserAssumption, NoSessionAssumption DEF store, request, Goto, Emit,
      Written, IInv, TypeOK, Others, Keeps, Grows, LocalsOK, AnswersOK,
      Events, Streaming, Active, OnPath
<1>a. Others(r) /\ Keeps(r) /\ Grows /\ TypeOK
  BY StepOthers, StepKeeps, StepGrows DEF IInv
<1>1. ASSUME NEW u \in Users, PostNew(r, u) PROVE AnswersOK'
  BY <1>a, <1>1 DEF PostNew, OpenStream
<1>2. ASSUME NEW u \in Users, NEW k \in OnPath, NEW s \in Sessions, PostOn(r, u, k, s)
      PROVE  AnswersOK'
  BY <1>a, <1>2 DEF PostOn
<1>3. CASE Authorize(r)
  BY <1>a, <1>3 DEF Authorize, OpenStream
<1>4. CASE Rename(r)
  BY <1>a, <1>4 DEF Rename
<1>5. CASE Archive(r)
  BY <1>a, <1>5 DEF Archive
<1>6. CASE GetHistory(r)
  BY <1>a, <1>6 DEF GetHistory
<1>7. CASE Query(r)
  BY <1>a, <1>7 DEF Query, AfterQuery
<1>8. CASE ReceiveAssistant(r)
  BY <1>a, <1>8 DEF ReceiveAssistant
<1>9. CASE ReceiveResult(r)
  BY <1>a, <1>9 DEF ReceiveResult, AfterResult
<1>10. ASSUME NEW last \in BOOLEAN, ReceiveSession(r, last) PROVE AnswersOK'
  BY <1>a, <1>10 DEF ReceiveSession, FreshSession
<1>11. CASE RecordConversation(r)
  BY <1>a, <1>11 DEF RecordConversation
<1>12. CASE ReserveUser(r)
  BY <1>a, <1>12 DEF ReserveUser, Reserve, Increment, After, Touch
<1>13. CASE ReserveAnswer(r)
  BY <1>a, <1>13 DEF ReserveAnswer, Reserve, Increment, After, Touch
<1>14. CASE InsertUser(r)
  BY <1>a, <1>14 DEF InsertUser, Insert
<1>15. CASE InsertAnswer(r)
  <2> DEFINE new == [session_id |-> session_id[r], owner |-> user[r],
                     role |-> "assistant", turn |-> r, seq |-> seq[r]]
  <2>1. new \in messages' /\ new.turn = r /\ new.role = "assistant" /\ new.session_id = session_id[r]
    BY <1>15 DEF InsertAnswer, Insert
  <2>2. session_id'[r] = session_id[r]
    BY <1>15 DEF InsertAnswer
  <2>3. "done" \notin emitted'[r]
    BY <1>15, <1>a DEF InsertAnswer
  <2>4. \E m \in messages' : m.turn = r /\ m.role = "assistant"
    BY <2>1
  <2> QED
    BY <1>a, <1>15, <2>3, <2>4 DEF InsertAnswer
<1>16. CASE AnnounceSession(r)
  BY <1>a, <1>16 DEF AnnounceSession, AfterSession
<1>17. CASE Finish(r)
  BY <1>a, <1>17 DEF Finish
<1>18. CASE Fail(r)
  BY <1>a, <1>18 DEF Fail
<1>19. CASE Disconnect(r)
  BY <1>a, <1>19 DEF Disconnect
<1> QED
  BY <1>1, <1>2, <1>3, <1>4, <1>5, <1>6, <1>7, <1>8, <1>9, <1>10, <1>11, <1>12, <1>13, <1>14, <1>15, <1>16, <1>17, <1>18, <1>19 DEF Handle, Environment
-----------------------------------------------------------------------------
(* The inductive invariant and what it implies.                            *)

LEMMA InitIInv == Init => IInv
<1> SUFFICES ASSUME Init PROVE IInv
  OBVIOUS
<1>1. TypeOK
  BY InitType
<1>2. /\ LocalsOK /\ OwnershipHeld /\ NothingBeforeRecord /\ RecordOK /\ MessagesOK
      /\ ReservedOK /\ PromptsOK /\ TitlesOK /\ ViewsOK /\ HiddenOK /\ AnnouncedOK
  BY DEF Init, LocalsOK, OwnershipHeld, Attached, NothingBeforeRecord, RecordOK,
     MessagesOK, ReservedOK, Inserting, PromptsOK, PromptSaved, TitlesOK, ViewsOK,
     HiddenOK, AnnouncedOK, Streaming
<1>3. DisplayOrderDeterministic /\ AnswerFollowsPrompt /\ HistoryIsClosed
  BY DEF Init, DisplayOrderDeterministic, AnswerFollowsPrompt, HistoryIsClosed
<1>4. EveryNumberAccountedFor
  BY DEF Init, EveryNumberAccountedFor
<1>5. WrittenOnce /\ AnswersOK
  BY DEF Init, WrittenOnce, AnswersOK
<1> QED
  BY <1>1, <1>2, <1>3, <1>4, <1>5 DEF IInv

LEMMA StepIInv == IInv /\ [Next]_vars => IInv'
<1>1. ASSUME IInv, NEW r \in Requests, Handle(r) \/ Environment(r) PROVE IInv'
  <2>1. TypeOK'
    BY <1>1, StepType DEF IInv
  <2> QED
    BY <1>1, <2>1, StepLocals, StepOwnership, StepNothing, StepRecord, StepMessages,
       StepReserved, StepPrompts, StepTitles, StepViews, StepHidden, StepAnnounced,
       StepOrder, StepAnswer, StepNumbers, StepClosed, StepOnce, StepAnswers
    DEF IInv
<1>2. ASSUME IInv, UNCHANGED vars PROVE IInv'
  <2> USE <1>2 DEF vars, store, request, IInv
  <2>1. TypeOK'
    BY DEF TypeOK
  <2>2. LocalsOK' /\ OwnershipHeld' /\ NothingBeforeRecord' /\ RecordOK'
    BY DEF LocalsOK, OwnershipHeld, Attached, NothingBeforeRecord, RecordOK
  <2>3. MessagesOK' /\ ReservedOK' /\ TitlesOK' /\ ViewsOK' /\ HiddenOK' /\ AnnouncedOK'
    BY DEF MessagesOK, ReservedOK, Inserting, TitlesOK, ViewsOK, HiddenOK, AnnouncedOK
  <2>4. PromptsOK' /\ WrittenOnce' /\ AnswersOK'
    BY DEF PromptsOK, PromptSaved, WrittenOnce, AnswersOK
  <2>5. DisplayOrderDeterministic' /\ AnswerFollowsPrompt' /\ HistoryIsClosed'
    BY DEF DisplayOrderDeterministic, AnswerFollowsPrompt, HistoryIsClosed
  <2>6. EveryNumberAccountedFor'
    BY DEF EveryNumberAccountedFor, MessagesOf
  <2> QED
    BY <2>1, <2>2, <2>3, <2>4, <2>5, <2>6
<1> QED
  BY <1>1, <1>2 DEF Next

\* IInv holds in every reachable state of the backend.
THEOREM Invariance == Spec => []IInv
BY InitIInv, StepIInv, PTL DEF Spec

\* Every variable keeps its type, and a history only returns messages that
\* are in the store.
THEOREM TypeCorrect == Spec => []TypeOK
<1>1. IInv => TypeOK
  BY DEF IInv
<1> QED
  BY <1>1, Invariance, PTL

\* Display order is total: no two messages of a conversation share a number,
\* for any number of overlapping turns.
THEOREM DisplayOrder == Spec => []DisplayOrderDeterministic
<1>1. IInv => DisplayOrderDeterministic
  BY DEF IInv
<1> QED
  BY <1>1, Invariance, PTL

\* A hole in the numbering is always a turn inside append_message, or cut off.
THEOREM NumbersAccounted == Spec => []EveryNumberAccountedFor
<1>1. IInv => EveryNumberAccountedFor
  BY DEF IInv
<1> QED
  BY <1>1, Invariance, PTL

\* Answers stand below their prompts, in the store and in every history.
THEOREM PromptsFirst == Spec => []AnswerFollowsPrompt
<1>1. IInv => AnswerFollowsPrompt
  BY DEF IInv
<1> QED
  BY <1>1, Invariance, PTL

\* No reader is ever shown an answer without its prompt.
THEOREM HistoriesClosed == Spec => []HistoryIsClosed
<1>1. IInv => HistoryIsClosed
  BY DEF IInv
<1> QED
  BY <1>1, Invariance, PTL

\* The ownership check of a request still holds when the request acts.
THEOREM Ownership == Spec => []OnlyOwnersTouch
<1>1. IInv => OnlyOwnersTouch
  BY DEF IInv, OnlyOwnersTouch, MessagesOK, TitlesOK, ViewsOK
<1> QED
  BY <1>1, Invariance, PTL

\* What a session event announces is in the store.
THEOREM Announced == Spec => []AnnouncedIsDurable
<1>1. IInv => AnnouncedIsDurable
  BY DEF IInv, AnnouncedIsDurable, AnnouncedOK, Stored
<1> QED
  BY <1>1, Invariance, PTL

\* What a done event confirms is in the store, once.
THEOREM DoneDurable == Spec => []DoneIsDurable
<1>1. ASSUME IInv, NEW r \in Requests, "done" \in emitted[r],
             session_id[r] # NoSession, NEW role \in Roles
      PROVE  Cardinality(Stored(r, role)) = 1
  <2>1. \E m \in messages : m.turn = r /\ m.role = role
    <3>1. pc[r] = "done" /\ kind[r] \in {"new", "send"}
      BY <1>1 DEF IInv, AnswersOK
    <3>2. CASE role = "user"
      BY <3>1, <3>2, <1>1 DEF IInv, PromptsOK, PromptSaved
    <3>3. CASE role = "assistant"
      BY <3>3, <1>1 DEF IInv, AnswersOK
    <3> QED
      BY <3>2, <3>3 DEF Roles
  <2>2. PICK m \in messages : m.turn = r /\ m.role = role
    BY <2>1
  <2>3. Stored(r, role) = {m}
    BY <2>2, <1>1 DEF IInv, WrittenOnce, Stored
  <2> QED
    BY <2>3, FS_Singleton
<1>2. IInv => DoneIsDurable
  BY <1>1 DEF DoneIsDurable
<1> QED
  BY <1>2, Invariance, PTL

\* A confirmed deletion is never undone by a turn.
THEOREM DeletedHidden == Spec => []DeletedStaysHidden
<1>1. IInv => DeletedStaysHidden
  BY DEF IInv, DeletedStaysHidden, HiddenOK, ListFor
<1> QED
  BY <1>1, Invariance, PTL

-----------------------------------------------------------------------------
(* The store implements Transcript.                                        *)

LEMMA InitTranscript == Init => T!Init
BY DEF Init, T!Init

\* A step that leaves owners, archived flags and messages alone is invisible.
LEMMA InvisibleStep ==
  ASSUME UNCHANGED <<owner, archived, messages>> PROVE UNCHANGED T!tvars
BY DEF T!tvars

\* The upsert opens the conversation.
LEMMA RecordIsOpen ==
  ASSUME IInv, NEW r \in Requests, RecordConversation(r)
  PROVE  T!Next
<1>1. PICK s \in Sessions, u \in Users : s = session_id[r] /\ u = user[r]
  BY DEF RecordConversation, IInv, LocalsOK
<1>2. owner[s] = NoUser /\ ~archived[s]
  BY <1>1 DEF RecordConversation, IInv, RecordOK, NothingBeforeRecord
<1>3. owner' = [owner EXCEPT ![s] = u] /\ messages' = messages
      /\ archived' = [archived EXCEPT ![s] = FALSE]
  BY <1>1, <1>2 DEF RecordConversation
<1>4. {x \in Sessions : archived'[x]} = {x \in Sessions : archived[x]}
  BY <1>2, <1>3 DEF IInv, TypeOK
<1>5. T!Open(s, u)
  BY <1>2, <1>3, <1>4 DEF T!Open
<1> QED
  BY <1>5 DEF T!Next

\* The deletion hides it.
LEMMA ArchiveIsHide ==
  ASSUME IInv, NEW r \in Requests, Archive(r)
  PROVE  T!Next
<1>1. PICK s \in Sessions : s = session_id[r]
  BY DEF Archive, IInv, OwnershipHeld, Attached
<1>2. owner[s] # NoUser
  BY <1>1, NoUserAssumption DEF Archive, IInv, OwnershipHeld, Attached, LocalsOK
<1>3. owner' = owner /\ messages' = messages /\ archived' = [archived EXCEPT ![s] = TRUE]
  BY <1>1 DEF Archive
<1>4. {x \in Sessions : archived'[x]} = {x \in Sessions : archived[x]} \cup {s}
  BY <1>3 DEF IInv, TypeOK
<1>5. T!Hide(s)
  BY <1>2, <1>3, <1>4 DEF T!Hide
<1> QED
  BY <1>5 DEF T!Next

\* The insert adds the entry, at the place reserved for it.
LEMMA InsertIsAdd ==
  ASSUME IInv, NEW r \in Requests, InsertUser(r) \/ InsertAnswer(r)
  PROVE  T!Next
<1> DEFINE place(m) == [session |-> m.session_id, turn |-> m.turn, role |-> m.role,
                        place |-> m.seq]
           entries == {place(m) : m \in messages}
<1>1. /\ pc[r] \in {"insert_user", "insert_answer"}
      /\ owner' = owner /\ archived' = archived
  BY DEF InsertUser, InsertAnswer
<1>2. PICK s \in Sessions, n \in Nat : s = session_id[r] /\ n = seq[r]
  BY <1>1 DEF IInv, OwnershipHeld, Attached, TypeOK
<1>3. owner[s] # NoUser
  BY <1>1, <1>2, NoUserAssumption DEF IInv, OwnershipHeld, Attached, LocalsOK
<1>4. PICK role \in Roles : Insert(r, role) /\ (role = "assistant" => pc[r] = "insert_answer")
  BY DEF InsertUser, InsertAnswer, Roles
<1>5. PICK new : /\ new.session_id = s /\ new.turn = r /\ new.role = role /\ new.seq = n
                 /\ messages' = messages \cup {new}
  <2> DEFINE m == [session_id |-> session_id[r], owner |-> user[r], role |-> role,
                   turn |-> r, seq |-> seq[r]]
  <2>1. messages' = messages \cup {m}
    BY <1>4 DEF Insert
  <2>2. m.session_id = s /\ m.turn = r /\ m.role = role /\ m.seq = n
    BY <1>2
  <2> HIDE DEF m
  <2> QED
    BY <2>1, <2>2
<1>6. PICK e \in T!Entry : e = [session |-> s, turn |-> r, role |-> role, place |-> n]
  BY DEF T!Entry, Roles
<1>7. {place(m) : m \in messages'} = entries \cup {e}
  BY <1>5, <1>6
<1>8. T!Free(e.session, e.place)
  BY <1>1, <1>2, <1>6 DEF IInv, ReservedOK, Inserting, T!Free
<1>9. e.role = "assistant" =>
        \E p \in entries : /\ p.role = "user" /\ p.turn = e.turn
                           /\ p.session = e.session /\ p.place < e.place
  <2> SUFFICES ASSUME role = "assistant"
               PROVE  \E p \in entries : /\ p.role = "user" /\ p.turn = r
                                         /\ p.session = s /\ p.place < n
    BY <1>6
  <2>1. pc[r] = "insert_answer"
    BY <1>4
  <2>2. PICK p \in messages : /\ p.turn = r /\ p.role = "user"
                              /\ p.session_id = s /\ p.seq < n
    BY <1>2, <2>1 DEF IInv, PromptsOK, PromptSaved
  <2>3. place(p) \in entries
    OBVIOUS
  <2> QED
    BY <2>2, <2>3
<1>10. T!Add(e)
  BY <1>1, <1>3, <1>6, <1>7, <1>8, <1>9 DEF T!Add
<1>11. e \in {place(m) : m \in messages'}
  BY <1>7
<1> QED
  BY <1>10, <1>11 DEF T!Next

LEMMA StepTranscript == IInv /\ [Next]_vars => [T!Next]_(T!tvars)
<1>1. ASSUME IInv, NEW r \in Requests, Handle(r) \/ Environment(r)
      PROVE  [T!Next]_(T!tvars)
  <2>1. CASE RecordConversation(r)
    BY <1>1, <2>1, RecordIsOpen
  <2>2. CASE Archive(r)
    BY <1>1, <2>2, ArchiveIsHide
  <2>3. CASE InsertUser(r) \/ InsertAnswer(r)
    BY <1>1, <2>3, InsertIsAdd
  <2>4. CASE UNCHANGED <<owner, archived, messages>>
    BY <2>4, InvisibleStep
  <2> QED
    BY <1>1, <2>1, <2>2, <2>3, <2>4 DEF Handle, Environment, PostNew, PostOn,
       Authorize, Rename, GetHistory, Query, AfterQuery, ReceiveSession, ReceiveAssistant,
       ReceiveResult, AfterResult, ReserveUser, ReserveAnswer, AnnounceSession, AfterSession, Finish, Fail,
       Disconnect, store
<1>2. ASSUME UNCHANGED vars PROVE UNCHANGED T!tvars
  BY <1>2, InvisibleStep DEF vars, store
<1> QED
  BY <1>1, <1>2 DEF Next

\* The backend implements Transcript: turns, failures, disconnections and the
\* two writes of append_message are invisible but for the entries they add.
THEOREM Implementation == Spec => ImplementsTranscript
<1>1. Spec => T!Init /\ [][T!Next]_(T!tvars)
  BY InitTranscript, StepTranscript, Invariance, PTL DEF Spec
<1> QED
  BY <1>1 DEF ImplementsTranscript, T!Spec

-----------------------------------------------------------------------------
(* Serial sessions: what a client that never overlaps the turns of a       *)
(* session gets on top of IInv.                                            *)


\* The turn is under way, or about to be.
Turning(r) == pc[r] \in Streaming \/ (pc[r] = "authorize" /\ kind[r] = "send")

\* A serial session has one turn at a time.
OneTurn ==
  \A q, r \in Requests :
    /\ Turning(q) /\ Turning(r)
    /\ session_id[q] = session_id[r] /\ session_id[r] \in Serial
    => q = r

\* The number a prompt or an answer is about to get is the newest, and a
\* saved prompt is the last message of its session until the answer comes.
PlaceOK(r) ==
  session_id[r] \in Serial =>
    /\ pc[r] = "insert_user" => seq[r] = msg_seq[session_id[r]]
    /\ pc[r] \in {"session", "receive", "reserve_answer", "insert_answer"} =>
         \E p \in messages :
           /\ p.turn = r /\ p.role = "user" /\ p.session_id = session_id[r]
           /\ pc[r] # "insert_answer" => p.seq = msg_seq[session_id[r]]
           /\ pc[r] = "insert_answer" => seq[r] = p.seq + 1
PlacesOK == \A r \in Requests : PlaceOK(r)

\* A turn's instant is the newest of its session's messages, and is stamped
\* on the session before a message is inserted.
ClockOK == \A r \in Requests : now[r] <= clock
NewestTurn ==
  \A r \in Requests : pc[r] \in Streaming /\ session_id[r] \in Serial =>
    \A m \in messages : m.session_id = session_id[r] => now[m.turn] <= now[r]
StampedOK ==
  \A r \in Requests : pc[r] \in Inserting /\ session_id[r] \in Serial =>
    now[r] <= updated_at[session_id[r]]

SerialInv ==
  /\ IInv /\ OneTurn /\ PlacesOK /\ ClockOK /\ NewestTurn /\ StampedOK
  /\ AnswerUnderPrompt /\ LastModifiedIsNewest
-----------------------------------------------------------------------------
(* What the steps of a request do to counters, instants and messages.      *)

\* Only the running turn of a session moves its counter and its time.
Counts(r) ==
  \A s \in Sessions :
    \/ msg_seq'[s] = msg_seq[s] /\ updated_at'[s] = updated_at[s]
    \/ pc[r] \in {"record", "reserve_user", "reserve_answer"} /\ s = session_id[r]

\* An instant is taken once, when the stream is opened, and is the newest.
Times(r) ==
  \/ UNCHANGED <<now, clock>>
  \/ /\ clock' = clock + 1 /\ now' = [now EXCEPT ![r] = clock']
     /\ messages' = messages /\ pc[r] \in {"idle", "authorize"}

\* Messages are only added by the two inserts.
Adds(r) ==
  \/ messages' = messages
  \/ \E role \in Roles :
       /\ messages' = messages \cup
            {[session_id |-> session_id[r], owner |-> user[r], role |-> role,
              turn |-> r, seq |-> seq[r]]}
       /\ pc[r] = IF role = "user" THEN "insert_user" ELSE "insert_answer"

LEMMA StepSerial ==
  ASSUME TypeOK, NEW r \in Requests, Handle(r) \/ Environment(r)
  PROVE  Counts(r) /\ Times(r) /\ Adds(r)
<1>1. Counts(r)
  <2>1. CASE RecordConversation(r)
    BY <2>1 DEF RecordConversation, Counts, TypeOK
  <2>2. CASE ReserveUser(r) \/ ReserveAnswer(r)
    BY <2>2 DEF ReserveUser, ReserveAnswer, Reserve, Increment, After, Touch, Counts, TypeOK
  <2>3. CASE UNCHANGED <<msg_seq, updated_at>>
    BY <2>3 DEF Counts
  <2> QED
    BY <2>1, <2>2, <2>3 DEF Handle, Environment, PostNew, PostOn, Authorize, Rename,
       Archive, GetHistory, Query, ReceiveSession, ReceiveAssistant, ReceiveResult,
       InsertUser, InsertAnswer, AnnounceSession, Finish, Fail, Disconnect, store
<1>2. Times(r)
  <2>1. ASSUME NEW u \in Users, PostNew(r, u) PROVE Times(r)
    BY <2>1 DEF PostNew, OpenStream, Times, store
  <2>2. CASE Authorize(r)
    BY <2>2 DEF Authorize, OpenStream, Times, store
  <2>3. CASE UNCHANGED <<now, clock>>
    BY <2>3 DEF Times
  <2> QED
    BY <2>1, <2>2, <2>3 DEF Handle, Environment, PostOn, Rename, Archive, GetHistory,
       Query, ReceiveSession, ReceiveAssistant, ReceiveResult, RecordConversation,
       ReserveUser, ReserveAnswer, InsertUser, InsertAnswer, AnnounceSession, Finish,
       Fail, Disconnect, request
<1>3. Adds(r)
  <2>1. CASE InsertUser(r)
    BY <2>1 DEF InsertUser, Insert, Adds, Roles
  <2>2. CASE InsertAnswer(r)
    BY <2>2 DEF InsertAnswer, Insert, Adds, Roles
  <2>3. CASE UNCHANGED messages
    BY <2>3 DEF Adds
  <2> QED
    BY <2>1, <2>2, <2>3 DEF Handle, Environment, PostNew, PostOn, Authorize, Rename,
       Archive, GetHistory, Query, ReceiveSession, ReceiveAssistant, ReceiveResult,
       RecordConversation, ReserveUser, ReserveAnswer, AnnounceSession, Finish, Fail,
       Disconnect, store
<1> QED
  BY <1>1, <1>2, <1>3

\* A turn begins when it is posted, when the engine names its session, or goes on.
LEMMA StepTurning ==
  ASSUME IInv, NEW r \in Requests, Handle(r) \/ Environment(r), Turning(r)',
         session_id'[r] \in Serial
  PROVE  \/ Turning(r) /\ session_id'[r] = session_id[r]
         \/ \A q \in Requests \ {r} : session_id[q] = session_id'[r] => ~Turning(q)
<1> USE NoSessionAssumption, SerialAssumption DEF IInv, TypeOK, LocalsOK, Turning
<1>1. ASSUME NEW u \in Users, PostNew(r, u) PROVE FALSE
  BY <1>1 DEF PostNew
<1>2. ASSUME NEW u \in Users, NEW k \in OnPath, NEW s \in Sessions, PostOn(r, u, k, s)
      PROVE  \A q \in Requests \ {r} : session_id[q] = session_id'[r] => ~Turning(q)
  BY <1>2 DEF PostOn, Goto, Active, Streaming
<1>3. ASSUME NEW last \in BOOLEAN, ReceiveSession(r, last)
      PROVE  \A q \in Requests \ {r} : session_id[q] = session_id'[r] => ~Turning(q)
  BY <1>3 DEF ReceiveSession, FreshSession
<1>4. CASE Authorize(r)
  BY <1>4 DEF Authorize, Goto, Streaming
<1>5. CASE Rename(r) \/ Archive(r) \/ GetHistory(r)
  BY <1>5 DEF Rename, Archive, GetHistory, Written, Goto, Streaming
<1>6. CASE Query(r) \/ ReceiveAssistant(r) \/ ReceiveResult(r)
  BY <1>6 DEF Query, ReceiveAssistant, ReceiveResult, Streaming, request
<1>7. CASE RecordConversation(r) \/ ReserveUser(r) \/ InsertUser(r) \/ AnnounceSession(r)
  BY <1>7 DEF RecordConversation, ReserveUser, InsertUser, AnnounceSession, Streaming, request
<1>8. CASE ReserveAnswer(r) \/ InsertAnswer(r) \/ Finish(r)
  BY <1>8 DEF ReserveAnswer, InsertAnswer, Finish, Streaming, request
<1>9. CASE Fail(r) \/ Disconnect(r)
  BY <1>9 DEF Fail, Disconnect, Goto, Streaming
<1> QED
  BY <1>1, <1>2, <1>3, <1>4, <1>5, <1>6, <1>7, <1>8, <1>9 DEF Handle, Environment

LEMMA StepOneTurn ==
  ASSUME IInv, OneTurn, NEW r \in Requests, Handle(r) \/ Environment(r)
  PROVE  OneTurn'
<1>1. Others(r)
  BY StepOthers DEF IInv
<1>2. ASSUME NEW q \in Requests \ {r}, Turning(q)', Turning(r)',
             session_id'[q] = session_id'[r], session_id'[r] \in Serial
      PROVE  FALSE
  <2>1. Turning(q) /\ session_id[q] = session_id'[r]
    BY <1>1, <1>2 DEF Others, Turning
  <2>2. Turning(r) /\ session_id'[r] = session_id[r]
    BY <1>2, <2>1, StepTurning
  <2> QED
    BY <1>2, <2>1, <2>2 DEF OneTurn
<1>3. ASSUME NEW p \in Requests \ {r}, NEW q \in Requests \ {r}, Turning(p)', Turning(q)',
             session_id'[p] = session_id'[q], session_id'[q] \in Serial
      PROVE  p = q
  BY <1>1, <1>3 DEF Others, Turning, OneTurn
<1> QED
  BY <1>2, <1>3 DEF OneTurn

\* While a turn runs in a serial session, no other request moves its counter
\* or its time.
LEMMA OthersLeaveSession ==
  ASSUME IInv, OneTurn, NEW r \in Requests, Handle(r) \/ Environment(r),
         NEW q \in Requests \ {r}, Turning(q), session_id[q] \in Serial
  PROVE  /\ msg_seq'[session_id[q]] = msg_seq[session_id[q]]
         /\ updated_at'[session_id[q]] = updated_at[session_id[q]]
<1>1. Counts(r)
  BY StepSerial DEF IInv
<1>2. ~(pc[r] \in {"record", "reserve_user", "reserve_answer"} /\ session_id[q] = session_id[r])
  BY DEF OneTurn, Turning, Streaming
<1> QED
  BY <1>1, <1>2, SerialAssumption DEF Counts

\* ... or adds a message to it.
LEMMA OthersAddElsewhere ==
  ASSUME IInv, OneTurn, NEW r \in Requests, Handle(r) \/ Environment(r),
         NEW q \in Requests \ {r}, Turning(q), session_id[q] \in Serial
  PROVE  \A m \in messages' : m.session_id = session_id[q] => m \in messages
<1>1. Adds(r)
  BY StepSerial DEF IInv
<1>2. ~(pc[r] \in {"insert_user", "insert_answer"} /\ session_id[q] = session_id[r])
  BY DEF OneTurn, Turning, Streaming
<1> QED
  BY <1>1, <1>2 DEF Adds

LEMMA StepPlaces ==
  ASSUME IInv, OneTurn, PlacesOK, NEW r \in Requests, Handle(r) \/ Environment(r)
  PROVE  PlacesOK'
<1>a. Others(r) /\ Keeps(r) /\ Grows
  BY StepOthers, StepKeeps, StepGrows DEF IInv
<1>b. \A q \in Requests \ {r} : PlaceOK(q)'
  <2> SUFFICES ASSUME NEW q \in Requests \ {r}, session_id'[q] \in Serial,
                      pc'[q] \in {"insert_user", "session", "receive", "reserve_answer",
                                  "insert_answer"}
               PROVE  PlaceOK(q)'
    BY DEF PlaceOK
  <2>1. /\ pc'[q] = pc[q] /\ session_id'[q] = session_id[q] /\ seq'[q] = seq[q]
        /\ messages \subseteq messages'
    BY <1>a DEF Others, Grows
  <2>2. msg_seq'[session_id[q]] = msg_seq[session_id[q]]
    BY <2>1, OthersLeaveSession DEF Turning, Streaming
  <2>3. PlaceOK(q)
    BY DEF PlacesOK
  <2> QED
    BY <2>1, <2>2, <2>3 DEF PlaceOK
<1>c. PlaceOK(r) /\ TypeOK /\ LocalsOK /\ OwnershipHeld
  BY DEF PlacesOK, IInv
<1>d. ASSUME pc'[r] \notin {"insert_user", "session", "receive", "reserve_answer",
                            "insert_answer"}
      PROVE  PlaceOK(r)'
  BY <1>d DEF PlaceOK
<1> SUFFICES PlaceOK(r)'
  BY <1>b DEF PlacesOK
<1> USE DEF TypeOK, Goto, Written, Emit
<1>1. CASE \/ \E u \in Users : PostNew(r, u)
           \/ \E u \in Users, k \in OnPath, s \in Sessions : PostOn(r, u, k, s)
           \/ \E last \in BOOLEAN : ReceiveSession(r, last)
  BY <1>1, <1>c, <1>d DEF PostNew, PostOn, ReceiveSession
<1>2. CASE Authorize(r) \/ Rename(r) \/ Archive(r) \/ GetHistory(r)
  BY <1>2, <1>c, <1>d DEF Authorize, Rename, Archive, GetHistory
<1>3. CASE RecordConversation(r) \/ InsertAnswer(r)
  <2>1. pc'[r] \in {"reserve_user", "finish", "error"}
    BY <1>3, <1>c DEF RecordConversation, InsertAnswer
  <2> QED
    BY <1>d, <2>1
<1>4. CASE Finish(r) \/ Fail(r) \/ Disconnect(r)
  BY <1>4, <1>c, <1>d DEF Finish, Fail, Disconnect
<1>5. CASE Query(r)
  <2>1. CASE kind[r] = "send"
    BY <1>5, <2>1, <1>c, <1>d DEF Query, AfterQuery
  <2>2. CASE kind[r] # "send"
    <3>1. session_id'[r] = NoSession
      BY <1>5, <2>2, <1>c DEF Query, LocalsOK, Streaming, request
    <3> QED
      BY <3>1, NoSessionAssumption, SerialAssumption DEF PlaceOK
  <2> QED
    BY <2>1, <2>2
<1>6. CASE ReceiveAssistant(r)
  BY <1>6, <1>c DEF ReceiveAssistant, PlaceOK, store, request
<1>7. CASE ReceiveResult(r)
  <2>1. /\ pc[r] = "receive" /\ pc'[r] \in {"finish", "reserve_answer"}
        /\ UNCHANGED <<session_id, messages, msg_seq>>
    BY <1>7, <1>c DEF ReceiveResult, AfterResult, store
  <2> QED
    BY <2>1, <1>c DEF PlaceOK
<1>8. CASE ReserveUser(r)
  <2>1. owner[session_id[r]] # NoUser /\ session_id[r] \in Sessions
    BY <1>8, <1>c, NoUserAssumption
       DEF ReserveUser, OwnershipHeld, Attached, LocalsOK, Streaming
  <2>2. /\ seq'[r] = msg_seq'[session_id[r]] /\ session_id' = session_id
        /\ pc'[r] \in {"insert_user", "error"}
    BY <1>8, <1>c, <2>1 DEF ReserveUser, Reserve, After
  <2> QED
    BY <2>2 DEF PlaceOK
<1>9. CASE InsertUser(r)
  <2> DEFINE new == [session_id |-> session_id[r], owner |-> user[r],
                     role |-> "user", turn |-> r, seq |-> seq[r]]
  <2>1. /\ new \in messages' /\ new.turn = r /\ new.role = "user"
        /\ new.session_id = session_id[r] /\ new.seq = seq[r]
    BY <1>9 DEF InsertUser, Insert
  <2>2. /\ UNCHANGED <<session_id, msg_seq>>
        /\ pc[r] = "insert_user" /\ pc'[r] \in {"session", "error"}
    BY <1>9, <1>c DEF InsertUser, request
  <2>3. session_id[r] \in Serial => new.seq = msg_seq[session_id[r]]
    BY <1>c, <2>1, <2>2 DEF PlaceOK
  <2> HIDE DEF new
  <2> QED
    BY <2>1, <2>2, <2>3 DEF PlaceOK
<1>10. CASE AnnounceSession(r)
  <2>1. /\ pc[r] = "session" /\ pc'[r] \in {"receive", "reserve_answer"}
        /\ UNCHANGED <<session_id, messages, msg_seq>>
    BY <1>10, <1>c DEF AnnounceSession, AfterSession, store, request
  <2> QED
    BY <2>1, <1>c DEF PlaceOK
<1>11. CASE ReserveAnswer(r)
  <2>1. owner[session_id[r]] # NoUser /\ session_id[r] \in Sessions
    BY <1>11, <1>c, NoUserAssumption
       DEF ReserveAnswer, OwnershipHeld, Attached, LocalsOK, Streaming
  <2>2. /\ seq'[r] = msg_seq[session_id[r]] + 1 /\ UNCHANGED <<session_id, messages>>
        /\ pc[r] = "reserve_answer" /\ pc'[r] \in {"insert_answer", "error"}
    BY <1>11, <1>c, <2>1 DEF ReserveAnswer, Reserve, After, Increment
  <2> QED
    BY <1>c, <2>2 DEF PlaceOK
<1> QED
  BY <1>1, <1>2, <1>3, <1>4, <1>5, <1>6, <1>7, <1>8, <1>9, <1>10, <1>11
     DEF Handle, Environment

\* A turn's answer goes directly under its prompt.
LEMMA StepUnder ==
  ASSUME IInv, PlacesOK, AnswerUnderPrompt, NEW r \in Requests, Handle(r) \/ Environment(r)
  PROVE  AnswerUnderPrompt'
<1>1. Adds(r) /\ messages \subseteq messages'
  BY StepSerial, StepGrows DEF IInv, Grows
<1>2. ASSUME NEW a \in messages', a \notin messages, a.role = "assistant",
             a.session_id \in Serial
      PROVE  \E p \in messages' : /\ p.role = "user" /\ p.turn = a.turn
                                 /\ p.session_id = a.session_id /\ a.seq = p.seq + 1
  <2>1. /\ a.session_id = session_id[r] /\ a.turn = r /\ a.seq = seq[r]
        /\ pc[r] = "insert_answer"
    BY <1>1, <1>2 DEF Adds
  <2> QED
    BY <1>1, <1>2, <2>1 DEF PlacesOK, PlaceOK
<1>3. ASSUME NEW a \in messages, a.role = "assistant", a.session_id \in Serial
      PROVE  \E p \in messages' : /\ p.role = "user" /\ p.turn = a.turn
                                 /\ p.session_id = a.session_id /\ a.seq = p.seq + 1
  BY <1>1, <1>3 DEF AnswerUnderPrompt
<1> QED
  BY <1>2, <1>3 DEF AnswerUnderPrompt

-----------------------------------------------------------------------------
(* Instants.                                                               *)

\* The turn of a stored message keeps its instant.
LEMMA StepInstants ==
  ASSUME IInv, ClockOK, NEW r \in Requests, Handle(r) \/ Environment(r)
  PROVE  /\ \A m \in messages : now'[m.turn] = now[m.turn]
         /\ \A q \in Requests \ {r} : now'[q] = now[q]
         /\ \A q \in Requests : now[q] <= now'[q] /\ now'[q] <= clock'
<1>1. Times(r) /\ TypeOK
  BY StepSerial DEF IInv
<1>2. CASE UNCHANGED <<now, clock>>
  BY <1>1, <1>2 DEF ClockOK, TypeOK
<1>3. CASE /\ clock' = clock + 1 /\ now' = [now EXCEPT ![r] = clock']
           /\ pc[r] \in {"idle", "authorize"}
  <2>1. \A m \in messages : m.turn # r /\ m.turn \in Requests
    BY <1>1, <1>3 DEF IInv, MessagesOK, WrittenOnce, BeforePrompt, BeforeAnswer, TypeOK,
       Message, Roles
  <2> QED
    BY <1>1, <1>3, <2>1 DEF ClockOK, TypeOK
<1> QED
  BY <1>1, <1>2, <1>3 DEF Times

\* A step of a turn that is, or comes to be, on a session finds only older
\* instants there.
LEMMA OwnInstant ==
  ASSUME IInv, OneTurn, ClockOK, NewestTurn, NEW r \in Requests, Handle(r) \/ Environment(r),
         pc'[r] \in Streaming, session_id'[r] \in Serial
  PROVE  \A m \in messages : m.session_id = session_id'[r] => now[m.turn] <= now'[r]
<1> USE NoSessionAssumption, SerialAssumption
<1>a. TypeOK /\ LocalsOK
  BY DEF IInv
<1>1. ASSUME NEW u \in Users, PostNew(r, u) PROVE FALSE
  BY <1>1, <1>a DEF PostNew, LocalsOK
<1>2. ASSUME NEW u \in Users, NEW k \in OnPath, NEW s \in Sessions, PostOn(r, u, k, s)
      PROVE  FALSE
  BY <1>2, <1>a DEF PostOn, Goto, TypeOK, Streaming
<1>3. ASSUME NEW last \in BOOLEAN, ReceiveSession(r, last)
      PROVE  \A m \in messages : m.session_id # session_id'[r]
  BY <1>3, <1>a DEF ReceiveSession, FreshSession, IInv, MessagesOK, TypeOK, Message
<1>4. CASE Authorize(r)
  <2>1. now'[r] = clock + 1
    BY <1>4, <1>a DEF Authorize, OpenStream, Goto, Streaming, TypeOK
  <2> QED
    BY <2>1, <1>a DEF ClockOK, TypeOK, Message
<1>5. ASSUME pc[r] \in Streaming, session_id'[r] = session_id[r]
      PROVE  \A m \in messages : m.session_id = session_id'[r] => now[m.turn] <= now'[r]
  <2>1. now'[r] = now[r]
    BY <1>5, StepSerial, <1>a DEF Times, Streaming
  <2> QED
    BY <1>5, <2>1 DEF NewestTurn
<1>6. CASE Rename(r) \/ Archive(r) \/ GetHistory(r) \/ Fail(r) \/ Disconnect(r)
  BY <1>6, <1>a DEF Rename, Archive, GetHistory, Fail, Disconnect, Written, Goto,
     Streaming, TypeOK
<1>7. CASE Query(r) \/ ReceiveAssistant(r) \/ ReceiveResult(r) \/ RecordConversation(r)
  BY <1>5, <1>7 DEF Query, ReceiveAssistant, ReceiveResult, RecordConversation, Streaming,
     request
<1>8. CASE \/ ReserveUser(r) \/ InsertUser(r) \/ AnnounceSession(r)
           \/ ReserveAnswer(r) \/ InsertAnswer(r) \/ Finish(r)
  BY <1>5, <1>8 DEF ReserveUser, InsertUser, AnnounceSession, ReserveAnswer, InsertAnswer,
     Finish, Streaming, request
<1> QED
  BY <1>1, <1>2, <1>3, <1>4, <1>6, <1>7, <1>8 DEF Handle, Environment

LEMMA StepNewest ==
  ASSUME IInv, OneTurn, ClockOK, NewestTurn, NEW r \in Requests, Handle(r) \/ Environment(r)
  PROVE  NewestTurn'
<1>1. Adds(r) /\ Others(r) /\ TypeOK
  BY StepSerial, StepOthers DEF IInv
<1>2. ASSUME NEW q \in Requests, pc'[q] \in Streaming, session_id'[q] \in Serial,
             NEW m \in messages', m.session_id = session_id'[q]
      PROVE  now'[m.turn] <= now'[q]
  <2>1. CASE q = r /\ m \in messages
    BY <1>2, <2>1, OwnInstant, StepInstants
  <2>2. CASE q = r /\ m \notin messages
    <3>1. m.turn = r
      BY <1>1, <2>2 DEF Adds
    <3>2. now'[r] \in Nat
      BY StepSerial, <1>1 DEF Times, TypeOK
    <3> QED
      BY <2>2, <3>1, <3>2
  <2>3. CASE q # r
    <3>1. pc[q] \in Streaming /\ session_id[q] = session_id'[q]
      BY <1>1, <1>2, <2>3 DEF Others
    <3>2. m \in messages
      BY <1>2, <2>3, <3>1, OthersAddElsewhere DEF Turning
    <3> QED
      BY <1>2, <2>3, <3>1, <3>2, StepInstants DEF NewestTurn
  <2> QED
    BY <2>1, <2>2, <2>3
<1> QED
  BY <1>2 DEF NewestTurn

LEMMA StepStamped ==
  ASSUME IInv, OneTurn, ClockOK, StampedOK, NEW r \in Requests, Handle(r) \/ Environment(r)
  PROVE  StampedOK'
<1>a. Others(r) /\ TypeOK /\ OwnershipHeld
  BY StepOthers DEF IInv
<1>1. ASSUME NEW q \in Requests \ {r}, pc'[q] \in Inserting, session_id'[q] \in Serial
      PROVE  now'[q] <= updated_at'[session_id'[q]]
  <2>1. /\ pc[q] \in Inserting /\ session_id[q] = session_id'[q] /\ now'[q] = now[q]
    BY <1>a, <1>1, StepInstants DEF Others
  <2>2. updated_at'[session_id[q]] = updated_at[session_id[q]]
    BY <1>1, <2>1, OthersLeaveSession DEF Turning, Streaming, Inserting
  <2> QED
    BY <1>1, <2>1, <2>2 DEF StampedOK
<1>2. ASSUME pc'[r] \in Inserting, session_id'[r] \in Serial
      PROVE  now'[r] <= updated_at'[session_id'[r]]
  <2>1. ReserveUser(r) \/ ReserveAnswer(r)
    BY <1>2, <1>a DEF Handle, Environment, PostNew, PostOn, Authorize, Rename, Archive,
       GetHistory, Query, AfterQuery, ReceiveSession, ReceiveAssistant, ReceiveResult,
       AfterResult, RecordConversation, InsertUser, InsertAnswer, AnnounceSession,
       AfterSession, Finish, Fail, Disconnect, Written, Goto, Inserting, TypeOK
  <2>2. owner[session_id[r]] # NoUser /\ session_id[r] \in Sessions
    BY <2>1, <1>a, NoUserAssumption
       DEF ReserveUser, ReserveAnswer, OwnershipHeld, Attached, IInv, LocalsOK, Streaming
  <2>3. /\ updated_at' = [updated_at EXCEPT ![session_id[r]] = now[r]]
        /\ UNCHANGED <<now, session_id>>
    BY <2>1, <2>2 DEF ReserveUser, ReserveAnswer, Reserve, Touch
  <2> QED
    BY <2>2, <2>3, <1>a DEF TypeOK
<1> QED
  BY <1>1, <1>2 DEF StampedOK

\* A conversation's time only moves forward.
LEMMA StepModified ==
  ASSUME IInv, OneTurn, ClockOK, NewestTurn, StampedOK, LastModifiedIsNewest,
         NEW r \in Requests, Handle(r) \/ Environment(r)
  PROVE  LastModifiedIsNewest'
<1>a. Adds(r) /\ Counts(r) /\ Times(r) /\ TypeOK
  BY StepSerial DEF IInv
<1>1. ASSUME NEW m \in messages, m.session_id \in Serial
      PROVE  now'[m.turn] <= updated_at'[m.session_id]
  <2>1. now'[m.turn] = now[m.turn]
    BY StepInstants
  <2>2. CASE updated_at'[m.session_id] = updated_at[m.session_id]
    BY <1>1, <2>1, <2>2 DEF LastModifiedIsNewest
  <2>3. CASE updated_at'[m.session_id] # updated_at[m.session_id]
    <3>1. /\ pc[r] \in {"record", "reserve_user", "reserve_answer"}
          /\ m.session_id = session_id[r]
      BY <1>a, <1>1, <2>3, SerialAssumption DEF Counts
    <3>2. now[m.turn] <= now[r]
      BY <1>1, <3>1 DEF NewestTurn, Streaming
    <3>3. updated_at'[session_id[r]] = now[r]
      BY <1>a, <1>1, <2>3, <3>1, SerialAssumption
         DEF Handle, Environment, RecordConversation, ReserveUser, ReserveAnswer, Reserve,
             Touch, PostNew, PostOn, Authorize, Rename, Archive, GetHistory, Query,
             ReceiveSession, ReceiveAssistant, ReceiveResult, InsertUser, InsertAnswer,
             AnnounceSession, Finish, Fail, Disconnect, store, TypeOK
    <3> QED
      BY <2>1, <3>1, <3>2, <3>3
  <2> QED
    BY <2>2, <2>3
<1>2. ASSUME NEW m \in messages', m \notin messages, m.session_id \in Serial
      PROVE  now'[m.turn] <= updated_at'[m.session_id]
  <2>1. /\ m.turn = r /\ m.session_id = session_id[r]
        /\ pc[r] \in {"insert_user", "insert_answer"}
    BY <1>a, <1>2 DEF Adds
  <2>2. now'[r] = now[r] /\ updated_at'[session_id[r]] = updated_at[session_id[r]]
    BY <1>a, <1>2, <2>1, SerialAssumption DEF Times, Counts
  <2> QED
    BY <1>2, <2>1, <2>2 DEF StampedOK, Inserting
<1> QED
  BY <1>1, <1>2 DEF LastModifiedIsNewest
-----------------------------------------------------------------------------
(* The theorems.                                                           *)

LEMMA InitSerialInv == Init => SerialInv
<1> SUFFICES ASSUME Init PROVE SerialInv
  OBVIOUS
<1>1. IInv
  BY InitIInv
<1> QED
  BY <1>1, NoSessionAssumption, SerialAssumption
     DEF SerialInv, Init, OneTurn, PlacesOK, PlaceOK, ClockOK, NewestTurn, StampedOK,
         AnswerUnderPrompt, LastModifiedIsNewest, Turning

LEMMA StepSerialInv == SerialInv /\ [Next]_vars => SerialInv'
<1>1. ASSUME SerialInv, NEW r \in Requests, Handle(r) \/ Environment(r)
      PROVE  SerialInv'
  <2>1. IInv'
    BY <1>1, StepIInv DEF SerialInv, Next
  <2>2. OneTurn' /\ PlacesOK' /\ AnswerUnderPrompt'
    BY <1>1, StepOneTurn, StepPlaces, StepUnder DEF SerialInv
  <2>3. ClockOK'
    BY <1>1, StepInstants DEF SerialInv, ClockOK
  <2>4. NewestTurn' /\ StampedOK' /\ LastModifiedIsNewest'
    BY <1>1, StepNewest, StepStamped, StepModified DEF SerialInv
  <2> QED
    BY <2>1, <2>2, <2>3, <2>4 DEF SerialInv
<1>2. ASSUME SerialInv, UNCHANGED vars PROVE SerialInv'
  <2>1. IInv'
    BY <1>2, StepIInv DEF SerialInv
  <2> QED
    BY <1>2, <2>1 DEF vars, store, request, SerialInv, OneTurn, Turning, PlacesOK, PlaceOK,
       ClockOK, NewestTurn, StampedOK, AnswerUnderPrompt, LastModifiedIsNewest
<1> QED
  BY <1>1, <1>2 DEF Next

THEOREM SerialInvariance == Spec => []SerialInv
BY InitSerialInv, StepSerialInv, PTL DEF Spec

\* With a client that keeps one turn per session, every answer stands directly
\* under its prompt, whatever fails or is cut off.
THEOREM AnswersInPlace == Spec => []AnswerUnderPrompt
<1>1. SerialInv => AnswerUnderPrompt
  BY DEF SerialInv
<1> QED
  BY <1>1, SerialInvariance, PTL

\* With such a client the list of conversations is never ordered by an older
\* turn than the newest.
THEOREM ListedInOrder == Spec => []LastModifiedIsNewest
<1>1. SerialInv => LastModifiedIsNewest
  BY DEF SerialInv
<1> QED
  BY <1>1, SerialInvariance, PTL
=============================================================================
