---------------------------- MODULE Conversations ----------------------------
(***************************************************************************)
(* The companion backend (cd_app/backend): the Mongo conversation store    *)
(* (store.py), the handlers that authorise a request (main.py) and the     *)
(* coroutine that runs one chat turn and streams it (agent.py).            *)
(*                                                                         *)
(* One element of Requests is one HTTP request.  Every await of a handler  *)
(* is the end of an action, so requests interleave exactly where the event *)
(* loop can switch.  Texts, titles and prompts are identified by the       *)
(* request that carries them.                                              *)
(***************************************************************************)
EXTENDS Integers, FiniteSets

CONSTANTS
  Users,                  \* authenticated accounts
  Sessions,               \* session ids the Agent SDK can issue
  Requests,               \* one element per HTTP request; bounds the model
  NoUser, NoSession, NoRequest,
  Serial        \* sessions whose client never overlaps turns (ChatClient)

ASSUME NoUserAssumption    == NoUser \notin Users
ASSUME NoSessionAssumption == NoSession \notin Sessions
ASSUME NoRequestAssumption == NoRequest \notin Requests
ASSUME SerialAssumption    == Serial \subseteq Sessions

VARIABLES
  \* conversations collection, one column each (owner NoUser: no document)
  owner, archived, msg_seq, title, updated_at,
  \* messages collection
  messages,
  \* one column per local of a request's coroutine
  pc, kind, user,
  session_id,   \* agent.stream_turn's session_id, or the id in the path
  seq,          \* the number append_message reserved last
  now,          \* the instant stamped on everything the turn writes
  ended,        \* the SDK's stream of messages is over
  emitted,      \* the kinds of SSE events sent so far
  view,         \* what a history request returned
  clock

store   == <<owner, archived, msg_seq, title, updated_at, messages>>
request == <<kind, user, session_id, seq, now, ended, view>>
vars    == <<store, pc, request, emitted, clock>>

-----------------------------------------------------------------------------
(* Values.                                                                 *)

Roles    == {"user", "assistant"}
OnPath   == {"send", "rename", "delete", "history"}
Kinds    == OnPath \cup {"new"}
Events   == {"session", "delta", "done", "error"}

\* A turn is being streamed; the SDK client is open or about to be.
Streaming == {"query", "receive", "record", "reserve_user", "insert_user",
              "session", "reserve_answer", "insert_answer", "finish"}
Active    == Streaming \cup {"authorize", "apply"}
Ended     == {"done", "error", "rejected", "gone"}
Points    == Active \cup Ended \cup {"idle"}

Message == [session_id : Sessions, owner : Users, role : Roles,
            turn : Requests, seq : Nat]

TypeOK ==
  /\ owner \in [Sessions -> Users \cup {NoUser}]
  /\ archived \in [Sessions -> BOOLEAN]
  /\ msg_seq \in [Sessions -> Nat]
  /\ title \in [Sessions -> Requests \cup {NoRequest}]
  /\ updated_at \in [Sessions -> Nat]
  /\ messages \subseteq Message
  /\ pc \in [Requests -> Points]
  /\ kind \in [Requests -> Kinds]
  /\ user \in [Requests -> Users \cup {NoUser}]
  /\ session_id \in [Requests -> Sessions \cup {NoSession}]
  /\ seq \in [Requests -> Nat]
  /\ now \in [Requests -> Nat]
  /\ ended \in [Requests -> BOOLEAN]
  /\ emitted \in [Requests -> SUBSET Events]
  /\ view \in [Requests -> SUBSET messages]
  /\ clock \in Nat

Init ==
  /\ owner = [s \in Sessions |-> NoUser]
  /\ archived = [s \in Sessions |-> FALSE]
  /\ msg_seq = [s \in Sessions |-> 0]
  /\ title = [s \in Sessions |-> NoRequest]
  /\ updated_at = [s \in Sessions |-> 0]
  /\ messages = {}
  /\ pc = [r \in Requests |-> "idle"]
  /\ kind = [r \in Requests |-> "new"]
  /\ user = [r \in Requests |-> NoUser]
  /\ session_id = [r \in Requests |-> NoSession]
  /\ seq = [r \in Requests |-> 0]
  /\ now = [r \in Requests |-> 0]
  /\ ended = [r \in Requests |-> FALSE]
  /\ emitted = [r \in Requests |-> {}]
  /\ view = [r \in Requests |-> {}]
  /\ clock = 0

-----------------------------------------------------------------------------
(* Reads of the store.                                                     *)

\* Mutant: only the latest message.
LatestOf(s) == LET all == {m \in messages : m.session_id = s}
               IN  {m \in all : \A n \in all : n.seq <= m.seq}

MessagesOf(s)   == {m \in messages : m.session_id = s}
Stored(r, role) == {m \in messages : m.turn = r /\ m.role = role}
\* list_for (mutant: without its archived filter).
ListOwned(u) == {s \in Sessions : owner[s] = u}
ListFor(u)   == {s \in Sessions : owner[s] = u /\ ~archived[s]}

\* _stream: the turn's coroutine exists from here on, its timestamp taken.
OpenStream(r) ==
  /\ clock' = clock + 1
  /\ now' = [now EXCEPT ![r] = clock']

Goto(r, next)  == pc' = [pc EXCEPT ![r] = next]
Emit(r, event) == emitted' = [emitted EXCEPT ![r] = @ \cup {event}]

\* A write that reached Mongo: the driver reports it, or raises all the same.
Written(r, next) ==
  \/ Goto(r, next) /\ UNCHANGED emitted
  \/ Goto(r, "error") /\ Emit(r, "error")

-----------------------------------------------------------------------------
(* main.py: the routes.                                                    *)

\* POST /conversations
PostNew(r, u) ==
  /\ pc[r] = "idle"
  /\ user' = [user EXCEPT ![r] = u]
  /\ OpenStream(r)
  /\ Goto(r, "query")
  /\ UNCHANGED <<store, kind, session_id, seq, ended, view, emitted>>

\* Mutant: a client that sends again while its turn is running.
PostOnOverlapping(r, u, k, s) ==
  /\ pc[r] = "idle"
  /\ user' = [user EXCEPT ![r] = u]
  /\ kind' = [kind EXCEPT ![r] = k]
  /\ session_id' = [session_id EXCEPT ![r] = s]
  /\ Goto(r, "authorize")
  /\ UNCHANGED <<store, seq, now, ended, view, emitted, clock>>

\* POST, PATCH, DELETE and GET on /conversations/{session_id}: any signed-in
\* user may name any id.
PostOn(r, u, k, s) ==
  /\ pc[r] = "idle"
  /\ s \in Serial /\ k = "send" =>
       \A q \in Requests : session_id[q] = s => pc[q] \notin Active
  /\ user' = [user EXCEPT ![r] = u]
  /\ kind' = [kind EXCEPT ![r] = k]
  /\ session_id' = [session_id EXCEPT ![r] = s]
  /\ Goto(r, "authorize")
  /\ UNCHANGED <<store, seq, now, ended, view, emitted, clock>>

\* Mutant: any existing conversation passes.
OwnsIfExists(r) == owner[session_id[r]] # NoUser

\* _require_owner's condition on the document it awaited.
Owns(r) == owner[session_id[r]] = user[r]

Authorize(r) ==
  /\ pc[r] = "authorize"
  /\ \/ ~Owns(r) /\ Goto(r, "rejected") /\ UNCHANGED <<now, clock>>
     \/ Owns(r) /\ kind[r] = "send" /\ Goto(r, "query") /\ OpenStream(r)
     \/ Owns(r) /\ kind[r] # "send" /\ Goto(r, "apply") /\ UNCHANGED <<now, clock>>
  /\ UNCHANGED <<store, kind, user, session_id, seq, ended, view, emitted>>

\* rename: an invalid title is refused after the ownership check.
Rename(r) ==
  /\ pc[r] = "apply" /\ kind[r] = "rename"
  /\ \/ /\ Goto(r, "rejected")
        /\ UNCHANGED <<title, emitted>>
     \/ /\ title' = [title EXCEPT ![session_id[r]] = r]
        /\ Written(r, "done")
  /\ UNCHANGED <<owner, archived, msg_seq, updated_at, messages, request, clock>>

\* delete_conversation hides the conversation; nothing is removed.
Archive(r) ==
  /\ pc[r] = "apply" /\ kind[r] = "delete"
  /\ archived' = [archived EXCEPT ![session_id[r]] = TRUE]
  /\ Written(r, "done")
  /\ UNCHANGED <<owner, msg_seq, title, updated_at, messages, request, clock>>

GetHistory(r) ==
  /\ pc[r] = "apply" /\ kind[r] = "history"
  /\ view' = [view EXCEPT ![r] = MessagesOf(session_id[r])]
  /\ Goto(r, "done")
  /\ UNCHANGED <<store, kind, user, session_id, seq, now, ended, emitted, clock>>

-----------------------------------------------------------------------------
(* agent.py: stream_turn.  on_session is the steps record .. insert_user.  *)

\* client.query; a resumed turn saves the prompt before it listens (mutants:
\* it does not, or it announces the session first).
ListenAtOnce(r)   == "receive"
AnnounceAtOnce(r) == IF kind[r] = "send" THEN "session" ELSE "receive"
AfterQuery(r)     == IF kind[r] = "send" THEN "reserve_user" ELSE "receive"

Query(r) ==
  /\ pc[r] = "query" /\ Goto(r, AfterQuery(r))
  /\ UNCHANGED <<store, request, emitted, clock>>

\* The SDK names a new session with an id nobody holds.
FreshSession(s) == \A q \in Requests : session_id[q] # s

\* First message that carries the session id: the init SystemMessage, or
\* the ResultMessage (last) when no SystemMessage did.  A turn that is
\* listening has saved its prompt exactly when it knows its session id.
ReceiveSession(r, last) ==
  /\ pc[r] = "receive" /\ session_id[r] = NoSession
  /\ \E s \in Sessions : FreshSession(s) /\ session_id' = [session_id EXCEPT ![r] = s]
  /\ ended' = [ended EXCEPT ![r] = last]
  /\ Goto(r, "record")
  /\ UNCHANGED <<store, kind, user, seq, now, view, emitted, clock>>

\* AssistantMessage: its text goes to the buffer and to the client.
ReceiveAssistant(r) ==
  /\ pc[r] = "receive"
  /\ Emit(r, "delta")
  /\ UNCHANGED <<store, pc, request, clock>>

\* The SDK's messages are over.  Without a session id nothing is saved
\* (mutant: the turn listens on for one).
ListenOn(r)    == IF session_id[r] = NoSession THEN "receive" ELSE "reserve_answer"
AfterResult(r) == IF session_id[r] = NoSession THEN "finish" ELSE "reserve_answer"

ReceiveResult(r) ==
  /\ pc[r] = "receive"
  /\ ended' = [ended EXCEPT ![r] = TRUE]
  /\ Goto(r, AfterResult(r))
  /\ UNCHANGED <<store, kind, user, session_id, seq, now, view, emitted, clock>>

\* record_conversation: an upsert whose $setOnInsert part is skipped when
\* the document exists.
RecordConversation(r) ==
  LET s == session_id[r] IN
  /\ pc[r] = "record"
  /\ \/ /\ owner[s] = NoUser
        /\ owner' = [owner EXCEPT ![s] = user[r]]
        /\ title' = [title EXCEPT ![s] = r]
        /\ archived' = [archived EXCEPT ![s] = FALSE]
        /\ msg_seq' = [msg_seq EXCEPT ![s] = 0]
     \/ owner[s] # NoUser /\ UNCHANGED <<owner, title, archived, msg_seq>>
  /\ updated_at' = [updated_at EXCEPT ![s] = now[r]]
  /\ Written(r, "reserve_user")
  /\ UNCHANGED <<messages, request, clock>>

\* append_message, first half: the atomic $inc of msg_seq (mutant: counted
\* from the messages stored) and the number it returns (mutant: the document
\* before the update).  Without a document there is nothing to increment and
\* the message gets number 0.
Recount(s)   == Cardinality(MessagesOf(s)) + 1
Increment(s) == msg_seq[s] + 1
Before(s)    == msg_seq[s]
After(s)     == msg_seq'[s]
\* updated_at of the same update (mutant: left alone).
LeaveTime(r) == UNCHANGED updated_at
Touch(r)     == updated_at' = [updated_at EXCEPT ![session_id[r]] = now[r]]

Reserve(r) ==
  LET s == session_id[r] IN
  \/ /\ owner[s] # NoUser
     /\ msg_seq' = [msg_seq EXCEPT ![s] = Increment(s)]
     /\ seq' = [seq EXCEPT ![r] = After(s)]
     /\ Touch(r)
  \/ /\ owner[s] = NoUser
     /\ seq' = [seq EXCEPT ![r] = 0]
     /\ UNCHANGED <<msg_seq, updated_at>>

ReserveUser(r) ==
  /\ pc[r] = "reserve_user" /\ Reserve(r) /\ Written(r, "insert_user")
  /\ UNCHANGED <<owner, archived, title, messages, kind, user, session_id,
                 now, ended, view, clock>>

ReserveAnswer(r) ==
  /\ pc[r] = "reserve_answer" /\ Reserve(r) /\ Written(r, "insert_answer")
  /\ UNCHANGED <<owner, archived, title, messages, kind, user, session_id,
                 now, ended, view, clock>>

\* append_message, second half: insert_one.
Insert(r, role) ==
  messages' = messages \cup {[session_id |-> session_id[r], owner |-> user[r],
                              role |-> role, turn |-> r, seq |-> seq[r]]}

InsertUser(r) ==
  /\ pc[r] = "insert_user" /\ Insert(r, "user") /\ Written(r, "session")
  /\ UNCHANGED <<owner, archived, msg_seq, title, updated_at, request, clock>>

InsertAnswer(r) ==
  /\ pc[r] = "insert_answer" /\ Insert(r, "assistant") /\ Written(r, "finish")
  /\ UNCHANGED <<owner, archived, msg_seq, title, updated_at, request, clock>>

\* The session event, after which the loop resumes unless it was over
\* (mutant: then the answer is skipped).
SkipAnswer(r)   == IF ended[r] THEN "finish" ELSE "receive"
AfterSession(r) == IF ended[r] THEN "reserve_answer" ELSE "receive"

AnnounceSession(r) ==
  /\ pc[r] = "session"
  /\ Emit(r, "session") /\ Goto(r, AfterSession(r))
  /\ UNCHANGED <<store, request, clock>>

Finish(r) ==
  /\ pc[r] = "finish"
  /\ Emit(r, "done") /\ Goto(r, "done")
  /\ UNCHANGED <<store, request, clock>>

\* The engine or the store raises before anything is written: the turn's
\* except clause sends an error event, another route answers 500.
Fail(r) ==
  /\ pc[r] \in Active \ {"session", "finish"}
  /\ Goto(r, "error") /\ Emit(r, "error")
  /\ UNCHANGED <<store, request, clock>>

\* The client goes away or the backend stops: the coroutine is cancelled at
\* its await and leaves what it wrote.  A restart cuts off every turn.
Disconnect(r) ==
  /\ pc[r] \in Streaming
  /\ Goto(r, "gone")
  /\ UNCHANGED <<store, request, emitted, clock>>

-----------------------------------------------------------------------------
\* What the backend does on its own once a request is in.
Handle(r) ==
  \/ Authorize(r) \/ Rename(r) \/ Archive(r) \/ GetHistory(r)
  \/ Query(r) \/ ReceiveResult(r)
  \/ RecordConversation(r) \/ ReserveUser(r) \/ InsertUser(r)
  \/ AnnounceSession(r) \/ ReserveAnswer(r) \/ InsertAnswer(r) \/ Finish(r)

\* What the client, the engine and the network may do.
Environment(r) ==
  \/ \E u \in Users : PostNew(r, u)
  \/ \E u \in Users, k \in OnPath, s \in Sessions : PostOn(r, u, k, s)
  \/ \E last \in BOOLEAN : ReceiveSession(r, last)
  \/ ReceiveAssistant(r)
  \/ Fail(r)
  \/ Disconnect(r)

Next == \E r \in Requests : Handle(r) \/ Environment(r)

Spec == Init /\ [][Next]_vars

\* The event loop runs every ready coroutine, Mongo answers, and the engine
\* ends every turn (max_turns bounds it).
FairSpec == Spec /\ \A r \in Requests : WF_vars(Handle(r))
-----------------------------------------------------------------------------
(* Properties.                                                             *)

\* "Per-conversation monotonic sequence, so display order is deterministic"
\* (store.append_message): get_messages sorts by seq alone, so two messages
\* of one conversation must never share a number, however turns overlap and
\* wherever they are cut off.
DisplayOrderDeterministic ==
  \A m, n \in messages : m.session_id = n.session_id /\ m.seq = n.seq => m = n

\* Every number below a conversation's counter belongs to a stored message
\* or to a turn that is between append_message's two writes or was cut off
\* there: no message is lost by two turns fighting over one number.
EveryNumberAccountedFor ==
  \A s \in Sessions : \A n \in 1 .. msg_seq[s] :
    \/ \E m \in MessagesOf(s) : m.seq = n
    \/ \E r \in Requests : /\ session_id[r] = s /\ seq[r] = n
                          /\ pc[r] \in {"insert_user", "insert_answer", "error", "gone"}

\* An answer is displayed after the prompt it answers, in its conversation,
\* also when other turns of the conversation are interleaved with it.
AnswerFollowsPrompt ==
  \A a \in messages : a.role = "assistant" =>
    \E p \in messages : /\ p.role = "user" /\ p.turn = a.turn
                       /\ p.session_id = a.session_id /\ p.seq < a.seq

\* A session event promises a conversation the client can resume: its
\* document exists, is the client's, and holds the prompt.
AnnouncedIsDurable ==
  \A r \in Requests : "session" \in emitted[r] =>
    /\ owner[session_id[r]] = user[r]
    /\ Stored(r, "user") # {}

\* A done event of a turn with a session promises that prompt and answer
\* are both stored, once.
DoneIsDurable ==
  \A r \in Requests : "done" \in emitted[r] /\ session_id[r] # NoSession =>
    \A role \in Roles : Cardinality(Stored(r, role)) = 1

\* "a user only ever sees their own conversations" (store.py): whatever a
\* request left in a conversation or read from one, its user owns it, with
\* an await between the ownership check and the effect.
OnlyOwnersTouch ==
  /\ \A m \in messages : m.owner = owner[m.session_id] /\ user[m.turn] = m.owner
  /\ \A s \in Sessions : title[s] # NoRequest => user[title[s]] = owner[s]
  /\ \A r \in Requests : \A m \in view[r] : owner[m.session_id] = user[r]

\* A deletion that was confirmed stays: no turn still running or started
\* later brings the conversation back into its owner's list.
DeletedStaysHidden ==
  \A r \in Requests : kind[r] = "delete" /\ pc[r] = "done" =>
    \A u \in Users : session_id[r] \notin ListFor(u)

\* A history never shows an answer without the prompt it answers.
HistoryIsClosed ==
  \A r \in Requests : \A a \in view[r] : a.role = "assistant" =>
    \E p \in view[r] : p.role = "user" /\ p.turn = a.turn

\* The list is sorted by updated_at ("last_modified"): it is never older
\* than a message of a conversation whose turns do not overlap.
LastModifiedIsNewest ==
  \A m \in messages : m.session_id \in Serial => now[m.turn] <= updated_at[m.session_id]

\* When turns of a conversation do not overlap, an answer stands directly
\* under its prompt.
AnswerUnderPrompt ==
  \A a \in messages : a.role = "assistant" /\ a.session_id \in Serial =>
    \E p \in messages : /\ p.role = "user" /\ p.turn = a.turn
                       /\ p.session_id = a.session_id /\ a.seq = p.seq + 1

\* No handler waits for ever: a posted request ends, with or without a
\* session id, with or without text.
RequestsEnd == \A r \in Requests : pc[r] # "idle" ~> pc[r] \in Ended
-----------------------------------------------------------------------------
\* The store implements the transcript it promises.  append_message's two
\* writes become one abstract step, the insert; the number was reserved
\* before it, so an entry may appear above one that is already displayed.
T == INSTANCE Transcript WITH
       Turns   <- Requests,
       hidden  <- {s \in Sessions : archived[s]},
       entries <- {[session |-> m.session_id, turn |-> m.turn, role |-> m.role,
                    place |-> m.seq] : m \in messages}

\* Owners are for good, entries are only added, each in its own place below
\* its prompt, and hidden conversations stay hidden, in every interleaving
\* of turns, deletions, failures and disconnections.
ImplementsTranscript == T!Spec
=============================================================================
