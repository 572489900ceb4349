----------------------------- MODULE ChatClient -----------------------------
(***************************************************************************)
(* The Flutter client's ChatController (cd_app/mobile/lib/state) with the  *)
(* ApiClient beneath it and, abstracted from Conversations, the backend's  *)
(* turns.  A call is one invocation of open or send; both are asynchronous *)
(* and write the one ChatState of the screen at every await they resume    *)
(* from, whatever the user has done in the meantime.                       *)
(***************************************************************************)
EXTENDS Integers, Sequences, SequencesExt

CONSTANTS
  Calls,               \* one element per tap on a conversation or on send
  Sessions, NoSession,
  Habits               \* what user, engine and network may be like, see below

\* Bounds: the calls the user makes, the text chunks and the different tools of
\* an answer.  navigates: the user opens or starts chats while one is loading;
\* loses: responses may be cut off.
ASSUME HabitsAssumption ==
  Habits \subseteq [calls : SUBSET Calls, deltas : Nat, tools : Nat,
                   navigates : BOOLEAN, loses : BOOLEAN]

VARIABLES
  habits,              \* one of Habits; never changes
  \* ChatState
  sessionId, messages, sending, error,
  \* one column per local of a call
  pc, target,          \* target: the session the call was made for
  newSessionId, buffer, chips,
  \* the network: undelivered events of a turn, the history read for an open
  events, response,
  \* the backend: a turn's progress, its session, its text and tools; stored
  \* messages
  turn, home, written, used, transcript

screen  == <<sessionId, messages, sending, error>>
call    == <<pc, target, newSessionId, buffer, chips>>
backend == <<turn, home, written, used, transcript>>
vars    == <<habits, screen, call, events, response, backend>>

-----------------------------------------------------------------------------
\* A text is told by its length in chunks, none of them blank, and the list of
\* tools beside it by its length: both only grow, and a tool event that repeats
\* a name adds nothing.
Prompt(c)       == [call |-> c, role |-> "user", length |-> 1, tools |-> 0]
Answer(c, n, k) == [call |-> c, role |-> "assistant", length |-> n, tools |-> k]
\* A message's role never changes; its text and tools may be overwritten.
Bubble(t, s)    == [role |-> t.role, text |-> t, streaming |-> s]

Init ==
  /\ habits \in Habits
  /\ sessionId = NoSession /\ messages = <<>> /\ sending = FALSE /\ error = FALSE
  /\ pc = [c \in Calls |-> "idle"]
  /\ target = [c \in Calls |-> NoSession]
  /\ newSessionId = [c \in Calls |-> NoSession]
  /\ buffer = [c \in Calls |-> 0] /\ chips = [c \in Calls |-> 0]
  /\ events = [c \in Calls |-> <<>>]
  /\ response = [c \in Calls |-> <<>>]
  /\ turn = [c \in Calls |-> "none"]
  /\ home = [c \in Calls |-> NoSession]
  /\ written = [c \in Calls |-> 0] /\ used = [c \in Calls |-> 0]
  /\ transcript = [s \in Sessions |-> <<>>]

\* The whole state replaced, as by the ChatState constructor.
Show(s, ms, busy, failed) ==
  sessionId' = s /\ messages' = ms /\ sending' = busy /\ error' = failed

End(c) == pc' = [pc EXCEPT ![c] = "ended"]
MayNavigate == sending => habits.navigates

-----------------------------------------------------------------------------
(* ChatController.startNew and open.                                       *)

StartNew ==
  /\ MayNavigate
  /\ Show(NoSession, <<>>, FALSE, FALSE)
  /\ UNCHANGED <<call, events, response, backend>>

\* A conversation of the drawer is tapped.
Open(c, s) ==
  /\ c \in habits.calls /\ MayNavigate /\ pc[c] = "idle" /\ transcript[s] # <<>>
  /\ Show(s, <<>>, TRUE, FALSE)
  /\ pc' = [pc EXCEPT ![c] = "open"]
  /\ target' = [target EXCEPT ![c] = s]
  /\ UNCHANGED <<newSessionId, buffer, chips, events, response, backend>>

\* fromHistoryJson keeps role and text only, no tools, and ApiClient.history
\* drops the messages without text.
Shown(t)   == IF t.length > 0 THEN <<Bubble([t EXCEPT !.tools = 0], FALSE)>> ELSE <<>>
History(s) == FlattenSeq([i \in 1 .. Len(transcript[s]) |-> Shown(transcript[s][i])])

\* The backend reads the transcript, or the request fails.
Respond(c) ==
  /\ pc[c] = "open"
  /\ \/ /\ pc' = [pc EXCEPT ![c] = "loaded"]
        /\ response' = [response EXCEPT ![c] = History(target[c])]
     \/ pc' = [pc EXCEPT ![c] = "refused"] /\ UNCHANGED response
  /\ UNCHANGED <<screen, target, newSessionId, buffer, chips, events, backend>>

Opened(c) ==
  /\ \/ pc[c] = "loaded" /\ Show(target[c], response[c], FALSE, FALSE)
     \/ pc[c] = "refused" /\ Show(target[c], <<>>, FALSE, TRUE)
  /\ End(c)
  /\ response' = [response EXCEPT ![c] = <<>>]
  /\ UNCHANGED <<target, newSessionId, buffer, chips, events, backend>>

-----------------------------------------------------------------------------
(* ChatController.send.                                                    *)

\* Mutant: no guard on sending.
AlwaysReady == TRUE
Ready       == ~sending

\* The prompt is posted with the session id the screen holds.
Send(c) ==
  /\ c \in habits.calls /\ pc[c] = "idle" /\ Ready
  /\ Show(sessionId,
          messages \o <<Bubble(Prompt(c), FALSE), Bubble(Answer(c, 0, 0), TRUE)>>,
          TRUE, FALSE)
  /\ pc' = [pc EXCEPT ![c] = "stream"]
  /\ target' = [target EXCEPT ![c] = sessionId]
  /\ newSessionId' = [newSessionId EXCEPT ![c] = sessionId]
  /\ turn' = [turn EXCEPT ![c] = "posted"]
  /\ home' = [home EXCEPT ![c] = sessionId]
  /\ UNCHANGED <<buffer, chips, events, response, written, used, transcript>>

\* The call resumes with event ev.
Receive(c, ev) ==
  /\ pc[c] = "stream" /\ events[c] # <<>> /\ Head(events[c]) = ev
  /\ events' = [events EXCEPT ![c] = Tail(@)]
  /\ UNCHANGED <<target, response, backend>>

\* _updateLast: the bubble at the end of the screen, whichever it is
\* (mutant: the first one).
FirstBubble == 1
LastBubble  == Len(messages)
UpdateLast(c, n, k, streaming) ==
  messages' = IF messages = <<>> THEN messages
              ELSE [messages EXCEPT ![LastBubble].text = Answer(c, n, k),
                                    ![LastBubble].streaming = streaming]

\* session and done carry the id; home is set by then.
Learn(c) == newSessionId' = [newSessionId EXCEPT ![c] = home[c]]

ReceiveSession(c) ==
  Receive(c, "session") /\ Learn(c) /\ UNCHANGED <<screen, pc, buffer, chips>>

\* buffer.write (mutant: only the newest chunk).
NewestChunk(c) == 1
AllChunks(c)   == buffer[c] + 1

ReceiveDelta(c) ==
  /\ Receive(c, "delta")
  /\ buffer' = [buffer EXCEPT ![c] = AllChunks(c)]
  /\ UpdateLast(c, AllChunks(c), chips[c], TRUE)
  /\ UNCHANGED <<sessionId, sending, error, pc, newSessionId, chips>>

ReceiveTool(c) ==
  /\ Receive(c, "tool")
  /\ chips' = [chips EXCEPT ![c] = @ + 1]
  /\ UpdateLast(c, buffer[c], chips[c] + 1, TRUE)
  /\ UNCHANGED <<sessionId, sending, error, pc, newSessionId, buffer>>

ReceiveDone(c) ==
  /\ Receive(c, "done") /\ Learn(c)
  /\ UpdateLast(c, buffer[c], chips[c], FALSE)
  /\ UNCHANGED <<sessionId, sending, error, pc, buffer, chips>>

\* The engine's error event ends the call.  (mutant: it stays busy)
StayBusy == sending
Idle     == FALSE
ReceiveError(c) ==
  /\ Receive(c, "error") /\ End(c)
  /\ Show(sessionId, messages, Idle, TRUE)
  /\ UNCHANGED <<newSessionId, buffer, chips>>

\* An exception: the request was refused or the connection broke.
ReceiveFailure(c) ==
  /\ Receive(c, "refused") \/ Receive(c, "cut")
  /\ End(c)
  /\ Show(sessionId, messages, FALSE, TRUE)
  /\ UNCHANGED <<newSessionId, buffer, chips>>

\* The stream is over: the screen takes the session id of this call.
ReceiveEnd(c) ==
  /\ Receive(c, "end") /\ End(c)
  /\ Show(newSessionId[c], messages, FALSE, error)
  /\ UNCHANGED <<newSessionId, buffer, chips>>

-----------------------------------------------------------------------------
(* The backend's turn (module Conversations) and the connection.           *)

Connected(c) == pc[c] = "stream" /\ ~Contains(events[c], "cut")

\* Events reach the client in order while it is connected.
Stream(c, evs) ==
  events' = IF Connected(c) THEN [events EXCEPT ![c] = @ \o evs] ELSE events

\* A new turn gets an id of its own, no matter which.
Unused  == {s \in Sessions : \A d \in Calls : home[d] # s}
FreshId == CHOOSE s \in Unused : TRUE

\* The prompt is saved and the session announced.
SavePrompt(c) ==
  /\ turn[c] = "posted" /\ (target[c] = NoSession => Unused # {})
  /\ LET s == IF target[c] = NoSession THEN FreshId ELSE target[c] IN
       /\ home' = [home EXCEPT ![c] = s]
       /\ transcript' = [transcript EXCEPT ![s] = Append(@, Prompt(c))]
  /\ turn' = [turn EXCEPT ![c] = "saved"]
  /\ Stream(c, <<"session">>)
  /\ UNCHANGED <<screen, call, response, written, used>>

WriteDelta(c) ==
  /\ turn[c] = "saved" /\ written[c] < habits.deltas
  /\ written' = [written EXCEPT ![c] = @ + 1]
  /\ Stream(c, <<"delta">>)
  /\ UNCHANGED <<screen, call, response, turn, home, used, transcript>>

\* The engine uses a tool it has not used in this turn.
WriteTool(c) ==
  /\ turn[c] = "saved" /\ used[c] < habits.tools
  /\ used' = [used EXCEPT ![c] = @ + 1]
  /\ Stream(c, <<"tool">>)
  /\ UNCHANGED <<screen, call, response, turn, home, written, transcript>>

SaveAnswer(c) ==
  /\ turn[c] = "saved"
  /\ transcript' = [transcript EXCEPT ![home[c]] = Append(@, Answer(c, written[c], used[c]))]
  /\ turn' = [turn EXCEPT ![c] = "over"]
  /\ Stream(c, <<"done", "end">>)
  /\ UNCHANGED <<screen, call, response, home, written, used>>

\* The route refuses the prompt, or the turn fails.
FailTurn(c) ==
  /\ \/ turn[c] = "posted" /\ Stream(c, <<"refused">>)
     \/ turn[c] \in {"posted", "saved"} /\ Stream(c, <<"error">>)
  /\ turn' = [turn EXCEPT ![c] = "over"]
  /\ UNCHANGED <<screen, call, response, home, written, used, transcript>>

\* The backend notices that its client has gone, at its own pace.
CancelTurn(c) ==
  /\ turn[c] \in {"posted", "saved"} /\ ~Connected(c)
  /\ turn' = [turn EXCEPT ![c] = "over"]
  /\ UNCHANGED <<screen, call, events, response, home, written, used, transcript>>

\* The connection breaks; events in flight may be lost.
Cut(c) ==
  /\ habits.loses /\ Connected(c)
  /\ \E k \in 0 .. Len(events[c]) :
       events' = [events EXCEPT ![c] = SubSeq(@, 1, k) \o <<"cut">>]
  /\ UNCHANGED <<screen, call, response, backend>>

-----------------------------------------------------------------------------
User(c) == Send(c) \/ \E s \in Sessions : Open(c, s)

React(c) ==
  \/ Opened(c) \/ ReceiveSession(c) \/ ReceiveDelta(c) \/ ReceiveTool(c) \/ ReceiveDone(c)
  \/ ReceiveError(c) \/ ReceiveFailure(c) \/ ReceiveEnd(c)

\* What the backend finishes sooner or later.
Serve(c) == Respond(c) \/ SavePrompt(c) \/ SaveAnswer(c) \/ CancelTurn(c)

Next ==
  /\ UNCHANGED habits
  /\ \/ StartNew
     \/ \E c \in Calls : \/ User(c) \/ React(c) \/ Serve(c) \/ WriteDelta(c)
                         \/ WriteTool(c) \/ FailTurn(c) \/ Cut(c)

Spec == Init /\ [][Next]_vars

\* The client's event loop resumes every call whose data has arrived; the
\* backend answers every request (Conversations' RequestsEnd), and a broken
\* connection is noticed: one that stays open and silent is left out, for the
\* client has no timeout.
FairSpec ==
  /\ Spec
  /\ \A c \in Calls : /\ WF_vars(React(c) /\ UNCHANGED habits)
                      /\ WF_vars(Serve(c) /\ UNCHANGED habits)
-----------------------------------------------------------------------------
(* Properties.                                                             *)

\* A user who waits, and connections that last.
Careful == ~habits.navigates /\ ~habits.loses

\* With a careful user the client never has two turns of one conversation
\* running: what Conversations assumes of Serial sessions.  sending is the
\* only lock there is.
TurnsDoNotOverlap ==
  LET running == {c \in Calls : turn[c] \in {"posted", "saved"}} IN
  Careful =>
    \A c, d \in running : c # d => home[c] # home[d] \/ home[c] = NoSession

\* With a careful user every answer on the screen, finished, growing or loaded,
\* stands directly below the prompt it answers.
AnswersUnderPrompts ==
  Careful =>
    \A i \in 1 .. Len(messages) : messages[i].role = "assistant" =>
      /\ i > 1
      /\ messages[i - 1].text = Prompt(messages[i].text.call)

\* With a careful user, what is shown of a turn that ended with done, once no
\* call is out: below its prompt the whole text that was stored, with all the
\* tools if it was streamed to this screen and with none if it was loaded; an
\* answer without text is gone once it is loaded.
FinishedTurnsAreWhole ==
  Careful =>
    \A i \in 1 .. Len(messages) :
      LET c == messages[i].text.call IN
      (/\ messages[i].role = "user" /\ ~sending
       /\ \E s \in Sessions : Contains(transcript[s], Answer(c, written[c], used[c])))
      => \/ /\ i < Len(messages)
            /\ \E k \in {0, used[c]} :
                 messages[i + 1] = Bubble(Answer(c, written[c], k), FALSE)
         \/ /\ written[c] = 0
            /\ \A j \in 1 .. Len(messages) : messages[j].text.call = c => j = i

\* The composer comes back: however calls, navigation, failures and broken
\* connections interleave, the spinner does not stay.
SendingEnds == sending ~> ~sending
=============================================================================
