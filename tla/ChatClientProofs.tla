-------------------------- MODULE ChatClientProofs --------------------------
(***************************************************************************)
(* Proofs about ChatClient for any calls, sessions, habits and bounds:     *)
(* the flag sending is a lock on the turns of a user who waits and whose   *)
(* connections last (IInv), and then the screen agrees with what the       *)
(* backend stored (ScreenInv).                                             *)
(***************************************************************************)
EXTENDS ChatClient, SequenceLemmas

\* A call that has not come back yet.
Busy   == {"open", "loaded", "refused", "stream"}
Points == Busy \cup {"idle", "ended"}
Kinds  == {"session", "delta", "tool", "done", "end", "error", "refused", "cut"}

Types ==
  /\ sending \in BOOLEAN
  /\ pc \in [Calls -> Points]
  /\ turn \in [Calls -> {"none", "posted", "saved", "over"}]
  /\ events \in [Calls -> Seq(Kinds)]

\* The events of an answer that is not over.
Going  == {"session", "delta", "tool"}

\* Nothing has happened to a call that was not made.
Unmade == \A c \in Calls : pc[c] = "idle" => turn[c] = "none" /\ events[c] = <<>>

\* One call at a time, and sending says whether there is one.
OneCall ==
  /\ \A c \in Calls : pc[c] \in Busy => sending
  /\ \A c, d \in Calls : pc[c] \in Busy /\ pc[d] \in Busy => c = d

\* While a turn runs its call listens, and nothing that would end the call is
\* on its way.
Running(c) == turn[c] \in {"posted", "saved"}
StillListening ==
  \A c \in Calls : Running(c) =>
    /\ pc[c] = "stream"
    /\ \A i \in 1 .. Len(events[c]) : events[c][i] \in Going

IInv == Types /\ Unmade /\ OneCall /\ StillListening
-----------------------------------------------------------------------------
\* What is left of the events after the first.
LEMMA TailOfEvents ==
  ASSUME NEW q \in Seq(Kinds), q # <<>>
  PROVE  /\ Tail(q) \in Seq(Kinds) /\ Head(q) = q[1] /\ 1 \in 1 .. Len(q)
         /\ \A i \in 1 .. Len(Tail(q)) : i + 1 \in 1 .. Len(q) /\ Tail(q)[i] = q[i + 1]
BY HeadTailProperties

\* A call resumes with an event: a turn that still runs keeps its call.
LEMMA ReceiveKeeps ==
  ASSUME IInv, NEW c \in Calls, NEW ev \in Kinds, Receive(c, ev)
  PROVE  /\ events' \in [Calls -> Seq(Kinds)]
         /\ \A d \in Calls : Running(d) =>
              \A i \in 1 .. Len(events'[d]) : events'[d][i] \in Going
         /\ Running(c) => ev \in Going
         /\ pc[c] = "stream" /\ turn' = turn
         /\ \A d \in Calls : pc[d] = "idle" => events'[d] = events[d]
<1>1. events[c] \in Seq(Kinds) /\ events[c] # <<>> /\ Head(events[c]) = ev
  BY DEF Receive, IInv, Types
<1>2. /\ Tail(events[c]) \in Seq(Kinds) /\ ev = events[c][1] /\ 1 \in 1 .. Len(events[c])
      /\ \A i \in 1 .. Len(Tail(events[c])) :
           i + 1 \in 1 .. Len(events[c]) /\ Tail(events[c])[i] = events[c][i + 1]
  BY <1>1, TailOfEvents
<1>3. events' = [events EXCEPT ![c] = Tail(events[c])] /\ pc[c] = "stream" /\ turn' = turn
  BY DEF Receive, backend
<1>4. events' \in [Calls -> Seq(Kinds)]
  BY <1>2, <1>3 DEF IInv, Types
<1>5. ASSUME NEW d \in Calls, Running(d), NEW i \in 1 .. Len(events'[d])
      PROVE  events'[d][i] \in Going
  <2>1. CASE d = c
    BY <1>2, <1>3, <1>5, <2>1 DEF IInv, Types, StillListening
  <2>2. CASE d # c
    BY <1>3, <1>5, <2>2 DEF IInv, Types, StillListening
  <2> QED
    BY <2>1, <2>2
<1>6. Running(c) => ev \in Going
  BY <1>2 DEF IInv, StillListening
<1> QED
  BY <1>3, <1>4, <1>5, <1>6 DEF IInv, Types

\* The turn goes on and adds to what is on its way.
LEMMA StreamKeeps ==
  ASSUME IInv, NEW c \in Calls, NEW evs \in Seq(Kinds), Stream(c, evs)
  PROVE  /\ events' \in [Calls -> Seq(Kinds)]
         /\ \A d \in Calls : d # c \/ pc[d] # "stream" => events'[d] = events[d]
         /\ \A i \in 1 .. Len(events'[c]) :
              \/ i \in 1 .. Len(events[c]) /\ events'[c][i] = events[c][i]
              \/ \E j \in 1 .. Len(evs) : events'[c][i] = evs[j]
<1>1. events \in [Calls -> Seq(Kinds)] /\ events[c] \in Seq(Kinds)
  BY DEF IInv, Types
<1>2. CASE ~Connected(c)
  BY <1>1, <1>2 DEF Stream
<1>3. CASE Connected(c)
  <2>1. events' = [events EXCEPT ![c] = events[c] \o evs] /\ pc[c] = "stream"
    BY <1>3 DEF Stream, Connected
  <2>2. /\ events[c] \o evs \in Seq(Kinds)
        /\ Len(events[c] \o evs) = Len(events[c]) + Len(evs)
        /\ \A i \in 1 .. Len(events[c]) + Len(evs) :
             (events[c] \o evs)[i] = IF i <= Len(events[c]) THEN events[c][i]
                                     ELSE evs[i - Len(events[c])]
    BY <1>1, ConcatProperties
  <2>3. Len(events[c]) \in Nat /\ Len(evs) \in Nat
    BY <1>1, LenProperties
  <2>4. ASSUME NEW i \in 1 .. Len(events'[c])
        PROVE  \/ i \in 1 .. Len(events[c]) /\ events'[c][i] = events[c][i]
               \/ \E j \in 1 .. Len(evs) : events'[c][i] = evs[j]
    <3>1. i \in 1 .. Len(events[c]) + Len(evs) /\ events'[c] = events[c] \o evs
      BY <1>1, <2>1, <2>2, <2>4
    <3>2. CASE i <= Len(events[c])
      BY <2>2, <2>3, <3>1, <3>2
    <3>3. CASE i > Len(events[c])
      <4>1. i - Len(events[c]) \in 1 .. Len(evs)
        BY <2>3, <3>1, <3>3
      <4> QED
        BY <2>2, <2>3, <3>1, <3>3, <4>1
    <3> QED
      BY <2>3, <3>1, <3>2, <3>3
  <2> QED
    BY <1>1, <2>1, <2>2, <2>4
<1> QED
  BY <1>2, <1>3
-----------------------------------------------------------------------------
\* No call was made yet.
LEMMA InitIInv == Init => IInv
<1> SUFFICES ASSUME Init PROVE IInv
  OBVIOUS
<1>1. Types
  <2>1. <<>> \in Seq(Kinds)
    BY EmptySeq
  <2> QED
    BY <2>1 DEF Init, Types, Points, Busy
<1>2. Unmade /\ OneCall /\ StillListening
  BY DEF Init, Busy, Unmade, OneCall, StillListening, Running
<1> QED
  BY <1>1, <1>2 DEF IInv

\* A user who waits acts only while no call is out.
LEMMA StepUser ==
  ASSUME Careful, IInv, StartNew \/ \E c \in Calls : User(c)
  PROVE  IInv'
<1> USE DEF Careful, IInv, Types, Unmade, OneCall, StillListening, Running, Points, Busy,
    Show, MayNavigate, Ready
<1>1. CASE StartNew
  BY <1>1 DEF StartNew, call, backend
<1>2. ASSUME NEW c \in Calls, NEW s \in Sessions, Open(c, s) PROVE IInv'
  BY <1>2 DEF Open, backend
<1>3. ASSUME NEW c \in Calls, Send(c) PROVE IInv'
  BY <1>3 DEF Send
<1> QED
  BY <1>1, <1>2, <1>3 DEF User

\* A call that comes back leaves the flag as it should be.
LEMMA StepReact ==
  ASSUME IInv, NEW c \in Calls, React(c) \/ Respond(c)
  PROVE  IInv'
<1> USE DEF Points, Busy, End, Show
<1>1. CASE Respond(c)
  <2>1. /\ pc[c] = "open" /\ UNCHANGED <<sending, turn, events>>
        /\ \/ pc' = [pc EXCEPT ![c] = "loaded"]
           \/ pc' = [pc EXCEPT ![c] = "refused"]
    BY <1>1 DEF Respond, screen, backend
  <2>a. Types'
    BY <2>1 DEF IInv, Types
  <2>b. Unmade'
    BY <2>1 DEF IInv, Types, Unmade
  <2>c. OneCall'
    BY <2>1 DEF IInv, Types, OneCall
  <2>d. StillListening'
    BY <2>1 DEF IInv, Types, StillListening, Running
  <2> QED
    BY <2>a, <2>b, <2>c, <2>d DEF IInv
<1>2. CASE Opened(c)
  <2>1. /\ pc[c] \in {"loaded", "refused"} /\ UNCHANGED <<turn, events>>
        /\ sending' = FALSE /\ pc' = [pc EXCEPT ![c] = "ended"]
    BY <1>2 DEF Opened, backend
  <2>2. \A d \in Calls : ~Running(d)
    BY <2>1 DEF IInv, OneCall, StillListening
  <2>a. Types'
    BY <2>1 DEF IInv, Types
  <2>b. Unmade'
    BY <2>1 DEF IInv, Types, Unmade
  <2>c. OneCall'
    BY <2>1 DEF IInv, Types, OneCall
  <2>d. StillListening'
    BY <2>1, <2>2 DEF IInv, Types, StillListening, Running
  <2> QED
    BY <2>a, <2>b, <2>c, <2>d DEF IInv
<1>3. ASSUME NEW ev \in {"session", "delta", "tool", "done"}, Receive(c, ev),
             UNCHANGED <<sending, pc>>
      PROVE  IInv'
  BY <1>3, ReceiveKeeps
     DEF Kinds, IInv, Types, Unmade, OneCall, StillListening, Running
<1>4. ASSUME NEW ev \in {"error", "refused", "cut", "end"}, Receive(c, ev),
             sending' = FALSE, End(c)
      PROVE  IInv'
  <2>1. ~Running(c) /\ events' \in [Calls -> Seq(Kinds)] /\ pc[c] = "stream" /\ turn' = turn
    BY <1>4, ReceiveKeeps DEF Kinds, Going
  <2>2. \A d \in Calls : pc'[d] \notin Busy
    BY <1>4, <2>1 DEF IInv, Types, OneCall
  <2>3. \A d \in Calls : ~Running(d)
    BY <2>1 DEF IInv, OneCall, StillListening
  <2>4. Unmade'
    BY <1>4, <2>1, ReceiveKeeps DEF Kinds, IInv, Types, Unmade
  <2>5. Types'
    BY <1>4, <2>1 DEF IInv, Types
  <2> QED
    BY <2>1, <2>2, <2>3, <2>4, <2>5 DEF IInv, OneCall, StillListening, Running
<1>5. CASE ReceiveSession(c) \/ ReceiveDelta(c) \/ ReceiveTool(c) \/ ReceiveDone(c)
  BY <1>3, <1>5 DEF ReceiveSession, ReceiveDelta, ReceiveTool, ReceiveDone, screen
<1>6. CASE ReceiveError(c) \/ ReceiveFailure(c) \/ ReceiveEnd(c)
  BY <1>4, <1>6 DEF ReceiveError, ReceiveFailure, ReceiveEnd, Idle
<1> QED
  BY <1>1, <1>2, <1>5, <1>6 DEF React

\* The backend's steps of a turn that runs.
LEMMA StepTurn ==
  ASSUME IInv, NEW c \in Calls,
         \/ SavePrompt(c) \/ WriteDelta(c) \/ WriteTool(c) \/ SaveAnswer(c)
         \/ FailTurn(c) \/ CancelTurn(c)
  PROVE  IInv'
<1>1. Running(c) /\ UNCHANGED <<sending, pc>>
  BY DEF SavePrompt, WriteDelta, WriteTool, SaveAnswer, FailTurn, CancelTurn, Running, screen, call
<1>2. pc[c] = "stream" /\ \A d \in Calls \ {c} : ~Running(d)
  BY <1>1 DEF IInv, OneCall, StillListening, Busy
<1>3. ASSUME NEW evs \in Seq(Kinds), Stream(c, evs), NEW t \in {"saved", "over"},
             turn' = [turn EXCEPT ![c] = t],
             t = "saved" => \A j \in 1 .. Len(evs) : evs[j] \in Going
      PROVE  IInv'
  <2>1. /\ events' \in [Calls -> Seq(Kinds)]
        /\ \A d \in Calls : d # c \/ pc[d] # "stream" => events'[d] = events[d]
        /\ \A i \in 1 .. Len(events'[c]) :
             \/ i \in 1 .. Len(events[c]) /\ events'[c][i] = events[c][i]
             \/ \E j \in 1 .. Len(evs) : events'[c][i] = evs[j]
    BY <1>3, StreamKeeps
  <2>2. Types' /\ OneCall'
    BY <1>1, <1>3, <2>1 DEF IInv, Types, OneCall
  <2>3. Unmade'
    BY <1>1, <1>2, <1>3, <2>1 DEF IInv, Types, Unmade
  <2>4. \A d \in Calls \ {c} : ~Running(d)'
    BY <1>2, <1>3 DEF IInv, Types, Running
  <2>5. Running(c)' => t = "saved"
    BY <1>3 DEF IInv, Types, Running
  <2>6. StillListening'
    <3>1. ASSUME Running(c)', NEW i \in 1 .. Len(events'[c])
          PROVE  events'[c][i] \in Going
      <4>1. CASE i \in 1 .. Len(events[c]) /\ events'[c][i] = events[c][i]
        BY <1>1, <4>1 DEF IInv, StillListening
      <4>2. CASE \E j \in 1 .. Len(evs) : events'[c][i] = evs[j]
        BY <1>3, <2>5, <3>1, <4>2
      <4> QED
        BY <2>1, <3>1, <4>1, <4>2
    <3> QED
      BY <1>1, <1>2, <2>4, <3>1 DEF StillListening
  <2> QED
    BY <2>2, <2>3, <2>6 DEF IInv
<1>4. CASE SavePrompt(c)
  <2>1. /\ <<"session">> \in Seq(Kinds)
        /\ \A j \in 1 .. Len(<<"session">>) : <<"session">>[j] \in Going
    BY DEF Kinds, Going
  <2> QED
    BY <1>3, <1>4, <2>1 DEF SavePrompt
<1>5. CASE WriteDelta(c) \/ WriteTool(c)
  <2>1. PICK ev \in {"delta", "tool"} : Stream(c, <<ev>>) /\ turn[c] = "saved" /\ turn' = turn
    BY <1>5 DEF WriteDelta, WriteTool
  <2>2. /\ <<ev>> \in Seq(Kinds)
        /\ \A j \in 1 .. Len(<<ev>>) : <<ev>>[j] \in Going
    BY DEF Kinds, Going
  <2>3. turn' = [turn EXCEPT ![c] = "saved"]
    BY <2>1 DEF IInv, Types
  <2> QED
    BY <1>3, <2>1, <2>2, <2>3
<1>6. CASE SaveAnswer(c)
  <2>1. <<"done", "end">> \in Seq(Kinds)
    BY DEF Kinds
  <2> QED
    BY <1>3, <1>6, <2>1 DEF SaveAnswer
<1>7. CASE FailTurn(c)
  <2>1. <<"refused">> \in Seq(Kinds) /\ <<"error">> \in Seq(Kinds)
    BY DEF Kinds
  <2> QED
    BY <1>3, <1>7, <2>1 DEF FailTurn
<1>8. CASE CancelTurn(c)
  <2>1. turn' = [turn EXCEPT ![c] = "over"] /\ events' = events
    BY <1>8 DEF CancelTurn
  <2>2. ~Running(c)' /\ \A d \in Calls \ {c} : ~Running(d)'
    BY <1>2, <2>1 DEF IInv, Types, Running
  <2> QED
    BY <1>1, <1>2, <2>1, <2>2 DEF IInv, Types, Unmade, OneCall, StillListening
<1> QED
  BY <1>4, <1>5, <1>6, <1>7, <1>8

\* Every step keeps the invariant.
LEMMA StepIInv == Careful /\ IInv /\ [Next]_vars => IInv'
<1>1. ASSUME Careful, IInv, Next PROVE IInv'
  <2>1. ASSUME NEW c \in Calls, Cut(c) PROVE FALSE
    BY <1>1, <2>1 DEF Careful, Cut
  <2> QED
    BY <1>1, <2>1, StepUser, StepReact, StepTurn DEF Next, Serve
<1>2. ASSUME IInv, UNCHANGED vars PROVE IInv'
  BY <1>2 DEF vars, screen, call, backend, IInv, Types, Unmade, OneCall, StillListening,
     Running
<1> QED
  BY <1>1, <1>2

\* Nobody changes habits.
LEMMA CarefulStays == [Next]_vars => (Careful' <=> Careful)
BY DEF Next, vars, Careful

\* Two running turns would have two calls that stream.
LEMMA IInvSuffices == (Careful => IInv) => TurnsDoNotOverlap
BY DEF IInv, OneCall, StillListening, Running, Busy, TurnsDoNotOverlap

\* While the user waits for each call and no connection breaks, no two turns
\* run at a time, in one conversation or in two, for any number of calls.
THEOREM OneTurnAtATime == Spec => []TurnsDoNotOverlap
<1>1. (Careful => IInv) /\ [Next]_vars => (Careful => IInv)'
  BY StepIInv, CarefulStays
<1>2. Init => (Careful => IInv)
  BY InitIInv
<1> QED
  BY <1>1, <1>2, IInvSuffices, PTL DEF Spec
-----------------------------------------------------------------------------
(* What the screen shows.  The definitions take the state as parameters, so  *)
(* that what they say of one state can be carried over to the next.          *)

Ids     == Sessions \cup {NoSession}
Texts   == [call : Calls, role : {"user", "assistant"}, length : Nat, tools : Nat]
Bubbles == [role : {"user", "assistant"}, text : Texts, streaming : BOOLEAN]

\* How much of an answer there is: its text and its tools, in the call and in
\* the turn.
Amounts      == Nat \X Nat
Nothing      == <<0, 0>>
Got          == [c \in Calls |-> <<buffer[c], chips[c]>>]
Made         == [c \in Calls |-> <<written[c], used[c]>>]
Partial(c, n) == Answer(c, n[1], n[2])

ScreenTypes ==
  /\ sessionId \in Ids
  /\ messages \in Seq(Bubbles)
  /\ response \in [Calls -> Seq(Bubbles)]
  /\ transcript \in [Sessions -> Seq(Texts)]
  /\ target \in [Calls -> Ids] /\ newSessionId \in [Calls -> Ids] /\ home \in [Calls -> Ids]
  /\ buffer \in [Calls -> Nat] /\ chips \in [Calls -> Nat]
  /\ written \in [Calls -> Nat] /\ used \in [Calls -> Nat]

\* Some conversation of T holds an answer of the turn c.
Answered(T, c) ==
  \E s \in Sessions : \E i \in 1 .. Len(T[s]) : T[s][i].role = "assistant" /\ T[s][i].call = c

\* The stored conversations: an answer stands below its prompt and is whole,
\* every prompt is there once, the prompt of a running turn is the last.
InPlace(T, tn, w) ==
  \A s \in Sessions : \A i \in 1 .. Len(T[s]) :
    LET t == T[s][i] IN
    /\ tn[t.call] \in {"saved", "over"}
    /\ t.role = "user" => t = Prompt(t.call)
    /\ t.role = "assistant" =>
         /\ i > 1 /\ T[s][i - 1] = Prompt(t.call)
         /\ <<t.length, t.tools>> = w[t.call] /\ tn[t.call] = "over"
Once(T) ==
  \A s, r \in Sessions : \A i \in 1 .. Len(T[s]), j \in 1 .. Len(T[r]) :
    T[s][i].role = "user" /\ T[s][i] = T[r][j] => s = r /\ i = j
PromptLast(T, tn, h) ==
  \A c \in Calls : tn[c] = "saved" =>
    h[c] \in Sessions /\ Len(T[h[c]]) > 0 /\ T[h[c]][Len(T[h[c]])] = Prompt(c)
Stored(T, tn, h, w) == InPlace(T, tn, w) /\ Once(T) /\ PromptLast(T, tn, h)

\* A list of bubbles: answers under their prompts, those of finished turns
\* whole or, if there is no text, perhaps gone, and nothing of a turn that was
\* not made.
Under(ms) ==
  \A i \in 1 .. Len(ms) : ms[i].role = "assistant" =>
    i > 1 /\ ms[i - 1].text = Prompt(ms[i].text.call)
Below(ms, i, c, n) ==
  i < Len(ms) /\ \E k \in {0, n[2]} : ms[i + 1] = Bubble(Answer(c, n[1], k), FALSE)
Gone(ms, i, c, n) ==
  n[1] = 0 /\ \A j \in 1 .. Len(ms) : ms[j].text.call = c => j = i
Whole(ms, p, w, T) ==
  \A i \in 1 .. Len(ms) :
    LET c == ms[i].text.call IN
    ms[i].role = "user" /\ p[c] # "stream" /\ Answered(T, c) =>
      Below(ms, i, c, w[c]) \/ Gone(ms, i, c, w[c])
Known(ms, tn) == \A i \in 1 .. Len(ms) : tn[ms[i].text.call] # "none"
Shows(ms, p, tn, w, T) == Under(ms) /\ Whole(ms, p, w, T) /\ Known(ms, tn)

\* A conversation on its way to the screen.
Loaded ==
  \A c \in Calls : pc[c] = "loaded" => Shows(response[c], pc, turn, Made, transcript)
Opening ==
  \A c \in Calls : pc[c] \in {"open", "loaded", "refused"} =>
    turn[c] = "none" /\ target[c] \in Sessions

\* The bubbles of the streaming call are the last two.
Growing(ms, c, n) ==
  /\ Len(ms) >= 2
  /\ ms[Len(ms) - 1] = Bubble(Prompt(c), FALSE)
  /\ ms[Len(ms)].role = "assistant" /\ ms[Len(ms)].text = Partial(c, n)
  /\ \A i \in 1 .. Len(ms) - 2 : ms[i].text.call # c
Streaming ==
  \A c \in Calls : pc[c] = "stream" => turn[c] # "none" /\ Growing(messages, c, Got[c])

\* What is on its way to it, and how much of the answer there is after each
\* event.
Pending(q, m) == \A i \in 1 .. m : q[i] \in Going
After(ev, n)  == CASE ev = "delta" -> <<n[1] + 1, n[2]>>
                   [] ev = "tool"  -> <<n[1], n[2] + 1>>
                   [] OTHER        -> n
Grows(f, q, m, got, all) ==
  f[0] = got /\ f[m] = all /\ \A i \in 1 .. m : f[i] = After(q[i], f[i - 1])
Coming(q, m, got, all) ==
  Pending(q, m) /\ \E f \in [0 .. m -> Amounts] : Grows(f, q, m, got, all)
Ending(q, ms, got, all) ==
  \/ q = <<"end">> /\ got = all /\ ms[Len(ms)].streaming = FALSE
  \/ /\ Len(q) >= 2 /\ q[Len(q)] = "end" /\ q[Len(q) - 1] = "done"
     /\ Coming(q, Len(q) - 2, got, all)
Flow ==
  \A c \in Calls :
    /\ pc[c] = "idle" \/ turn[c] = "posted" =>
         Got[c] = Nothing /\ Made[c] = Nothing /\ events[c] = <<>>
    /\ pc[c] = "stream" /\ turn[c] = "saved" =>
         Coming(events[c], Len(events[c]), Got[c], Made[c])
    /\ pc[c] = "stream" /\ Answered(transcript, c) =>
         Ending(events[c], messages, Got[c], Made[c])

ScreenInv ==
  /\ IInv /\ ScreenTypes
  /\ Stored(transcript, turn, home, Made)
  /\ Shows(messages, pc, turn, Made, transcript)
  /\ Loaded /\ Opening /\ Streaming /\ Flow
-----------------------------------------------------------------------------
\* The fields of a bubble on the screen.
LEMMA BubbleFields ==
  ASSUME NEW ms \in Seq(Bubbles), NEW i \in 1 .. Len(ms)
  PROVE  /\ ms[i] \in Bubbles /\ ms[i].text \in Texts /\ ms[i].text.call \in Calls
         /\ ms[i].role \in {"user", "assistant"}
<1>1. ms[i] \in Bubbles
  BY ElementOfSeq
<1> QED
  BY <1>1 DEF Bubbles, Texts

\* Amounts are pairs.
LEMMA AmountTypes ==
  ASSUME ScreenTypes
  PROVE  Got \in [Calls -> Amounts] /\ Made \in [Calls -> Amounts]
BY DEF ScreenTypes, Got, Made, Amounts

\* What Whole says stays true when no turn has newly ended and no answer has
\* newly come, but for the turn that still streams.
LEMMA WholeStays ==
  ASSUME NEW ms \in Seq(Bubbles), NEW p, NEW q, NEW w, NEW v, NEW T, NEW U,
         Whole(ms, p, w, T),
         \A d \in Calls : q[d] # "stream" =>
           p[d] # "stream" /\ v[d] = w[d] /\ (Answered(U, d) => Answered(T, d))
  PROVE  Whole(ms, q, v, U)
<1>1. ASSUME NEW i \in 1 .. Len(ms) PROVE ms[i].text.call \in Calls
  BY BubbleFields
<1> HIDE DEF Answered
<1> QED
  BY <1>1 DEF Whole

\* No turn is forgotten.
LEMMA KnownStays ==
  ASSUME NEW ms \in Seq(Bubbles), NEW t, NEW u, Known(ms, t),
         \A d \in Calls : t[d] # "none" => u[d] # "none"
  PROVE  Known(ms, u)
BY BubbleFields DEF Known

\* The history of a stored conversation.
LEMMA HistoryShows ==
  ASSUME ScreenInv, NEW s \in Sessions, NEW p
  PROVE  /\ History(s) \in Seq(Bubbles)
         /\ Shows(History(s), p, turn, Made, transcript)
<1> DEFINE t  == transcript[s]
           bs == [i \in 1 .. Len(t) |-> Shown(t[i])]
           h  == History(s)
<1>1. t \in Seq(Texts) /\ Len(t) \in Nat /\ \A i \in 1 .. Len(t) : t[i] \in Texts
  <2>1. t \in Seq(Texts)
    BY DEF ScreenInv, ScreenTypes
  <2> QED
    BY <2>1, LenProperties, ElementOfSeq
<1> DEFINE plain(x) == [x EXCEPT !.tools = 0]
<1>2. ASSUME NEW x \in Texts
      PROVE  /\ Bubble(plain(x), FALSE) \in Bubbles /\ Shown(x) \in Seq(Bubbles)
             /\ Bubble(plain(x), FALSE).role = x.role /\ Bubble(plain(x), FALSE).text = plain(x)
             /\ plain(x).call = x.call /\ plain(x).length = x.length
             /\ x.length > 0 => Len(Shown(x)) = 1 /\ Shown(x)[1] = Bubble(plain(x), FALSE)
             /\ ~(x.length > 0) => Len(Shown(x)) = 0
             /\ \A c \in Calls : x = Prompt(c) => plain(x) = Prompt(c)
  <2> DEFINE y == plain(x)
             b == Bubble(y, FALSE)
  <2>1. y \in Texts /\ y.role = x.role /\ y.call = x.call /\ y.length = x.length
    BY DEF Texts
  <2>2. \A c \in Calls : x = Prompt(c) => y = Prompt(c)
    BY DEF Prompt
  <2>3. b = Bubble(plain(x), FALSE) /\ Shown(x) = IF x.length > 0 THEN <<b>> ELSE <<>>
    BY DEF Shown
  <2>4. y = plain(x)
    OBVIOUS
  <2> HIDE DEF y
  <2>5. b \in Bubbles /\ b.role = y.role /\ b.text = y
    BY <2>1 DEF Bubble, Bubbles, Texts
  <2> HIDE DEF b
  <2>6. <<b>> \in Seq(Bubbles) /\ Len(<<b>>) = 1 /\ <<b>>[1] = b
    BY <2>5
  <2>7. <<>> \in Seq(Bubbles) /\ Len(<<>>) = 0
    BY EmptySeq
  <2> HIDE DEF plain
  <2> QED
    BY <2>1, <2>2, <2>3, <2>4, <2>5, <2>6, <2>7
<1> HIDE DEF plain
<1>3. bs \in Seq(Seq(Bubbles)) /\ Len(bs) = Len(t) /\ h = FlattenSeq(bs)
  <2>1. \A i \in 1 .. Len(t) : Shown(t[i]) \in Seq(Bubbles)
    BY <1>1, <1>2
  <2>2. bs \in Seq(Seq(Bubbles))
    BY <1>1, <2>1, IsASeq
  <2>3. Len(bs) = Len(t)
    BY <1>1
  <2> QED
    BY <2>2, <2>3 DEF History
<1>4. h \in Seq(Bubbles) /\ \E st : Starts(st, bs)
  BY <1>3, FlattenStarts
<1>5. PICK st : Starts(st, bs)
  BY <1>4
<1> DEFINE Within ==
             /\ \A i \in 1 .. Len(bs) : \A j \in 1 .. Len(bs[i]) :
                  st[i] + j \in 1 .. Len(h) /\ h[st[i] + j] = bs[i][j]
             /\ \A k \in 1 .. Len(h) : \E i \in 1 .. Len(bs) : \E j \in 1 .. Len(bs[i]) : k = st[i] + j
<1>13. Within
  <2> HIDE DEF bs, h
  <2> QED
    BY <1>3, <1>5 DEF Starts
<1>6. /\ st \in [1 .. Len(t) + 1 -> Nat] /\ Len(h) \in Nat
      /\ \A i \in 1 .. Len(t) : st[i + 1] = st[i] + Len(bs[i])
  BY <1>3, <1>4, <1>5, LenProperties DEF Starts
<1>7. ASSUME NEW i \in 1 .. Len(t), t[i].length > 0
      PROVE  st[i] + 1 \in 1 .. Len(h) /\ h[st[i] + 1] = Bubble(plain(t[i]), FALSE)
             /\ st[i + 1] = st[i] + 1
  <2>1. bs[i] = Shown(t[i]) /\ Len(bs[i]) = 1 /\ bs[i][1] = Bubble(plain(t[i]), FALSE)
    BY <1>1, <1>2, <1>7
  <2> HIDE DEF bs, h
  <2>2. 1 \in 1 .. Len(bs[i]) /\ i \in 1 .. Len(bs)
    BY <1>3, <2>1
  <2>3. st[i] + 1 \in 1 .. Len(h) /\ h[st[i] + 1] = bs[i][1]
    BY <1>13, <2>1, <2>2
  <2> QED
    BY <1>6, <2>1, <2>3
<1>8. ASSUME NEW k \in 1 .. Len(h)
      PROVE  \E i \in 1 .. Len(t) : t[i].length > 0 /\ k = st[i] + 1
  <2>1. PICK i \in 1 .. Len(bs) : \E j \in 1 .. Len(bs[i]) : k = st[i] + j
    <3> HIDE DEF bs, h
    <3> QED
      BY <1>13
  <2>2. PICK j \in 1 .. Len(bs[i]) : k = st[i] + j
    BY <2>1
  <2>3. i \in 1 .. Len(t) /\ bs[i] = Shown(t[i])
    BY <1>3
  <2>4. Len(bs[i]) # 0
    BY <2>2
  <2>5. t[i].length > 0 /\ Len(bs[i]) = 1
    BY <1>1, <1>2, <2>3, <2>4
  <2> HIDE DEF bs
  <2>6. j = 1
    BY <2>5
  <2> QED
    BY <2>2, <2>3, <2>5, <2>6
<1> HIDE DEF bs, h
<1>9. Stored(transcript, turn, home, Made)
  BY DEF ScreenInv
<1>20. ASSUME NEW k \in 1 .. Len(h)
       PROVE  \E i \in 1 .. Len(t) :
                /\ t[i].length > 0 /\ k = st[i] + 1 /\ t[i] \in Texts
                /\ h[k].role = t[i].role /\ h[k].text = plain(t[i]) /\ h[k].text.call = t[i].call
  <2>1. PICK i \in 1 .. Len(t) : t[i].length > 0 /\ k = st[i] + 1
    BY <1>8
  <2>2. h[k] = Bubble(plain(t[i]), FALSE)
    BY <1>7, <2>1
  <2>3. /\ t[i] \in Texts /\ Bubble(plain(t[i]), FALSE).role = t[i].role
        /\ Bubble(plain(t[i]), FALSE).text = plain(t[i])
        /\ Bubble(plain(t[i]), FALSE).text.call = t[i].call
    BY <1>1, <1>2
  <2> QED
    BY <2>1, <2>2, <2>3
<1>10. ASSUME NEW k \in 1 .. Len(h), h[k].role = "assistant"
       PROVE  k > 1 /\ h[k - 1].text = Prompt(h[k].text.call)
  <2>1. PICK i \in 1 .. Len(t) :
          /\ t[i].length > 0 /\ k = st[i] + 1 /\ t[i] \in Texts
          /\ h[k].role = t[i].role /\ h[k].text.call = t[i].call
    BY <1>20
  <2>3. i > 1 /\ t[i - 1] = Prompt(t[i].call)
    BY <1>9, <1>10, <2>1 DEF Stored, InPlace
  <2>4. i - 1 \in 1 .. Len(t) /\ (i - 1) + 1 = i /\ t[i - 1].length > 0 /\ t[i - 1] \in Texts
    BY <1>1, <2>3 DEF Prompt
  <2>5. st[i - 1] + 1 \in 1 .. Len(h) /\ h[st[i - 1] + 1] = Bubble(plain(t[i - 1]), FALSE)
        /\ st[i] = st[i - 1] + 1
    BY <1>7, <2>4
  <2>6. k - 1 = st[i - 1] + 1 /\ k > 1
    BY <1>6, <2>1, <2>4, <2>5
  <2>7. h[k - 1].text = plain(t[i - 1])
    BY <1>2, <2>4, <2>5, <2>6
  <2>8. t[i].call \in Calls
    BY <2>1 DEF Texts
  <2> QED
    BY <1>2, <2>1, <2>3, <2>4, <2>6, <2>7, <2>8
<1>11. ASSUME NEW k \in 1 .. Len(h), NEW c, c = h[k].text.call, h[k].role = "user",
              Answered(transcript, c)
       PROVE  Below(h, k, c, Made[c]) \/ Gone(h, k, c, Made[c])
  <2>1. PICK i \in 1 .. Len(t) :
          /\ t[i].length > 0 /\ k = st[i] + 1 /\ t[i] \in Texts
          /\ h[k].role = t[i].role /\ h[k].text.call = t[i].call
    BY <1>20
  <2>2. t[i].role = "user" /\ t[i].call = c /\ c \in Calls
    BY <1>11, <2>1 DEF Texts
  <2>3. PICK r \in Sessions : \E j \in 1 .. Len(transcript[r]) :
          transcript[r][j].role = "assistant" /\ transcript[r][j].call = c
    BY <1>11 DEF Answered
  <2>4. PICK j \in 1 .. Len(transcript[r]) :
          transcript[r][j].role = "assistant" /\ transcript[r][j].call = c
    BY <2>3
  <2>5. /\ j > 1 /\ transcript[r][j - 1] = Prompt(c)
        /\ <<transcript[r][j].length, transcript[r][j].tools>> = Made[c]
        /\ t[i] = Prompt(c)
    BY <1>9, <1>11, <2>2, <2>4 DEF Stored, InPlace
  <2>6. j - 1 \in 1 .. Len(transcript[r]) /\ j = (j - 1) + 1
    <3>1. Len(transcript[r]) \in Nat
      BY LenProperties DEF ScreenInv, ScreenTypes
    <3> QED
      BY <2>5, <3>1
  <2>7. r = s /\ i = j - 1
    <3>1. transcript[s][i] = transcript[r][j - 1] /\ transcript[s][i].role = "user"
      BY <2>2, <2>5
    <3> QED
      BY <1>9, <2>6, <3>1 DEF Stored, Once
  <2>8. i + 1 \in 1 .. Len(t) /\ t[i + 1].role = "assistant" /\ t[i + 1].call = c
        /\ t[i + 1].length = Made[c][1] /\ t[i + 1] \in Texts
    BY <1>1, <2>4, <2>5, <2>6, <2>7
  <2>9. CASE t[i + 1].length > 0
    <3>1. plain(t[i + 1]) = Answer(c, Made[c][1], 0)
      BY <2>8 DEF Texts, Answer, plain
    <3>2. /\ st[i + 1] + 1 \in 1 .. Len(h) /\ h[st[i + 1] + 1] = Bubble(plain(t[i + 1]), FALSE)
          /\ st[i + 1] = st[i] + 1
      BY <1>7, <2>1, <2>8, <2>9
    <3>3. k + 1 = st[i + 1] + 1
      BY <1>6, <2>1, <3>2
    <3>4. k < Len(h)
      BY <1>6, <3>2, <3>3
    <3> QED
      BY <3>1, <3>2, <3>3, <3>4 DEF Below
  <2>10. CASE ~(t[i + 1].length > 0)
    <3>1. Made[c][1] = 0
      BY <2>8, <2>10 DEF Texts
    <3>2. ASSUME NEW m \in 1 .. Len(h), h[m].text.call = c PROVE m = k
      <4>1. PICK o \in 1 .. Len(t) :
              /\ t[o].length > 0 /\ m = st[o] + 1 /\ t[o] \in Texts
              /\ h[m].role = t[o].role /\ h[m].text.call = t[o].call
        BY <1>20
      <4>2. t[o].role = "user"
        <5>1. CASE t[o].role = "assistant"
          <6>1. <<t[o].length, t[o].tools>> = Made[c]
            BY <1>9, <3>2, <4>1, <5>1 DEF Stored, InPlace
          <6>2. t[o].length = 0
            BY <3>1, <6>1
          <6> QED
            BY <4>1, <6>2
        <5> QED
          BY <4>1, <5>1 DEF Texts
      <4>3. t[o] = Prompt(c)
        BY <1>9, <3>2, <4>1, <4>2 DEF Stored, InPlace
      <4>4. o = i
        BY <1>9, <2>2, <2>5, <4>2, <4>3 DEF Stored, Once
      <4> QED
        BY <2>1, <4>1, <4>4
    <3> QED
      BY <3>1, <3>2 DEF Gone
  <2> QED
    BY <2>9, <2>10
<1>12. ASSUME NEW k \in 1 .. Len(h) PROVE turn[h[k].text.call] # "none"
  <2>1. PICK i \in 1 .. Len(t) : h[k].text.call = t[i].call
    BY <1>20
  <2> QED
    BY <1>9, <2>1 DEF Stored, InPlace
<1> QED
  BY <1>4, <1>10, <1>11, <1>12 DEF h, Shows, Under, Whole, Known
-----------------------------------------------------------------------------
\* An empty list of bubbles shows what it should.
LEMMA EmptyScreen ==
  ASSUME NEW p, NEW tn, NEW w, NEW T
  PROVE  Shows(<<>>, p, tn, w, T) /\ <<>> \in Seq(Bubbles)
BY EmptySeq DEF Shows, Under, Whole, Known

\* A list of bubbles stays right while neither a turn ends nor an answer comes
\* that it would have to show.
LEMMA ShowsStays ==
  ASSUME NEW ms \in Seq(Bubbles), NEW p, NEW q, NEW t, NEW u, NEW w, NEW v, NEW T, NEW U,
         Shows(ms, p, t, w, T),
         \A d \in Calls : q[d] # "stream" =>
           p[d] # "stream" /\ v[d] = w[d] /\ (Answered(U, d) => Answered(T, d)),
         \A d \in Calls : t[d] # "none" => u[d] # "none"
  PROVE  Shows(ms, q, u, v, U)
BY WholeStays, KnownStays DEF Shows

\* Nothing is shown and nothing stored at the start.
LEMMA InitScreenInv == Init => ScreenInv
<1> SUFFICES ASSUME Init PROVE ScreenInv
  OBVIOUS
<1>1. IInv
  BY InitIInv
<1>2. <<>> \in Seq(Bubbles) /\ <<>> \in Seq(Texts) /\ Len(<<>>) = 0
  BY EmptySeq
<1>3. ScreenTypes
  BY <1>2 DEF Init, ScreenTypes, Ids
<1>4. Stored(transcript, turn, home, Made)
  BY <1>2 DEF Init, Stored, InPlace, Once, PromptLast
<1>5. Shows(messages, pc, turn, Made, transcript)
  BY EmptyScreen DEF Init
<1>6. Loaded /\ Opening /\ Streaming
  BY DEF Init, Loaded, Opening, Streaming
<1>7. Flow
  BY DEF Init, Flow, Got, Made, Nothing
<1> QED
  BY <1>1, <1>3, <1>4, <1>5, <1>6, <1>7 DEF ScreenInv

\* What one and two places before the last of m + 2 are: the arithmetic of a posted
\* prompt and its placeholder.
LEMMA TwoBack ==
    \A m \in Nat : (m + 2) - 1 = m + 1 /\ (m + 2) - 2 = m /\ m + 2 >= 2
  OBVIOUS

\* Two bubbles more.
LEMMA PostedScreen ==
  ASSUME NEW ms \in Seq(Bubbles), NEW c \in Calls,
         NEW p, NEW t, NEW w, NEW T, Shows(ms, p, t, w, T), p[c] = "stream", t[c] # "none",
         \A i \in 1 .. Len(ms) : ms[i].text.call # c
  PROVE  LET new == ms \o <<Bubble(Prompt(c), FALSE), Bubble(Answer(c, 0, 0), TRUE)>>
         IN  new \in Seq(Bubbles) /\ Growing(new, c, Nothing) /\ Shows(new, p, t, w, T)
<1> DEFINE two == <<Bubble(Prompt(c), FALSE), Bubble(Answer(c, 0, 0), TRUE)>>
           new == ms \o two
           n   == Len(ms)
<1>1. two \in Seq(Bubbles) /\ Len(two) = 2
      /\ two[1] = Bubble(Prompt(c), FALSE) /\ two[2] = Bubble(Answer(c, 0, 0), TRUE)
  BY DEF Bubble, Bubbles, Texts, Prompt, Answer
<1>2. n \in Nat
  BY LenProperties
<1> HIDE DEF two
<1>3. /\ new \in Seq(Bubbles) /\ Len(new) = n + 2
      /\ \A i \in 1 .. n + 2 : new[i] = IF i <= n THEN ms[i] ELSE two[i - n]
  <2>1. /\ new \in Seq(Bubbles) /\ Len(new) = n + Len(two)
        /\ \A i \in 1 .. n + Len(two) : new[i] = IF i <= n THEN ms[i] ELSE two[i - n]
    BY <1>1, ConcatProperties
  <2> HIDE DEF new, n
  <2> QED
    BY <1>1, <2>1
<1>4. /\ \A i \in 1 .. n : new[i] = ms[i]
      /\ new[n + 1] = Bubble(Prompt(c), FALSE) /\ new[n + 2] = Bubble(Answer(c, 0, 0), TRUE)
  <2> HIDE DEF new, n
  <2>1. \A i \in 1 .. n : i \in 1 .. n + 2 /\ i <= n
    BY <1>2
  <2>2. /\ n + 1 \in 1 .. n + 2 /\ n + 2 \in 1 .. n + 2 /\ ~ (n + 1 <= n) /\ ~ (n + 2 <= n)
        /\ (n + 1) - n = 1 /\ (n + 2) - n = 2
    BY <1>2
  <2> QED
    BY <1>1, <1>3, <2>1, <2>2
<1>5. /\ new[n + 1].role = "user" /\ new[n + 1].text = Prompt(c) /\ new[n + 1].text.call = c
      /\ new[n + 2].role = "assistant" /\ new[n + 2].text = Answer(c, 0, 0)
      /\ new[n + 2].text.call = c
  BY <1>4 DEF Bubble, Prompt, Answer
<1> HIDE DEF new
<1>6. Growing(new, c, Nothing)
  <2>1. \A i \in 1 .. n : new[i].text.call # c
    BY <1>4
  <2> HIDE DEF n
  <2>2. (n + 2) - 1 = n + 1 /\ (n + 2) - 2 = n /\ n + 2 >= 2
    BY <1>2, TwoBack
  <2> QED
    BY <1>2, <1>3, <1>4, <1>5, <2>1, <2>2 DEF Growing, Partial, Nothing
<1>7. Under(new)
  <2>1. SUFFICES ASSUME NEW i \in 1 .. n + 2, new[i].role = "assistant"
                 PROVE  i > 1 /\ new[i - 1].text = Prompt(new[i].text.call)
    BY <1>2, <1>3 DEF Under
  <2>2. CASE i \in 1 .. n
    <3>1. i > 1 /\ ms[i - 1].text = Prompt(ms[i].text.call)
      BY <1>4, <2>1, <2>2 DEF Shows, Under
    <3>2. i - 1 \in 1 .. n
      BY <1>2, <2>2, <3>1
    <3> QED
      BY <1>4, <2>2, <3>1, <3>2
  <2>3. CASE i = n + 1
    BY <1>5, <2>1, <2>3
  <2>4. CASE i = n + 2
    <3>1. i - 1 = n + 1 /\ i > 1
      BY <1>2, <2>4
    <3> QED
      BY <1>5, <2>4, <3>1
  <2> QED
    BY <1>2, <2>2, <2>3, <2>4
<1>8. Whole(new, p, w, T)
  <2>1. SUFFICES ASSUME NEW i \in 1 .. n + 2, NEW d, d = new[i].text.call,
                        new[i].role = "user", p[d] # "stream", Answered(T, d)
                 PROVE  Below(new, i, d, w[d]) \/ Gone(new, i, d, w[d])
    BY <1>3 DEF Whole
  <2>2. d # c /\ i \in 1 .. n
    BY <1>2, <1>5, <2>1
  <2>3. Below(ms, i, d, w[d]) \/ Gone(ms, i, d, w[d])
    BY <1>4, <2>1, <2>2 DEF Shows, Whole
  <2>4. CASE Below(ms, i, d, w[d])
    <3>1. i < n /\ \E k \in {0, w[d][2]} : ms[i + 1] = Bubble(Answer(d, w[d][1], k), FALSE)
      BY <2>4 DEF Below
    <3>2. i + 1 \in 1 .. n /\ i < n + 2
      BY <1>2, <2>2, <3>1
    <3> QED
      BY <1>3, <1>4, <3>1, <3>2 DEF Below
  <2>5. CASE Gone(ms, i, d, w[d])
    <3>1. ASSUME NEW j \in 1 .. n + 2, new[j].text.call = d PROVE j = i
      <4>1. j \in 1 .. n
        BY <1>2, <1>5, <2>2, <3>1
      <4> QED
        BY <1>4, <2>5, <3>1, <4>1 DEF Gone
    <3> QED
      BY <1>3, <2>5, <3>1 DEF Gone
  <2> QED
    BY <2>3, <2>4, <2>5
<1>9. Known(new, t)
  <2>1. SUFFICES ASSUME NEW i \in 1 .. n + 2 PROVE t[new[i].text.call] # "none"
    BY <1>3 DEF Known
  <2>2. CASE i \in 1 .. n
    BY <1>4, <2>2 DEF Shows, Known
  <2>3. CASE i = n + 1 \/ i = n + 2
    BY <1>5, <2>3
  <2> QED
    BY <1>2, <2>2, <2>3
<1> QED
  BY <1>3, <1>6, <1>7, <1>8, <1>9 DEF Shows, new, two
-----------------------------------------------------------------------------
\* The user acts, which needs an idle composer.
LEMMA ScreenUser ==
  ASSUME Careful, ScreenInv, IInv', StartNew \/ \E c \in Calls : User(c)
  PROVE  ScreenInv'
<1>1. /\ Types /\ Unmade /\ OneCall /\ ScreenTypes /\ Stored(transcript, turn, home, Made)
      /\ Shows(messages, pc, turn, Made, transcript)
      /\ Loaded /\ Opening /\ Streaming /\ Flow
  BY DEF ScreenInv, IInv
<1>2. ~sending
  BY <1>1 DEF Careful, StartNew, User, Open, Send, MayNavigate, Ready, Types
<1>3. \A d \in Calls : pc[d] \in {"idle", "ended"}
  BY <1>1, <1>2 DEF Types, OneCall, Points, Busy
<1>4. CASE StartNew
  <2>1. /\ sessionId' = NoSession /\ messages' = <<>>
        /\ UNCHANGED <<pc, target, newSessionId, buffer, chips, Got, events, response,
                       turn, home, written, used, Made, transcript>>
    BY <1>4 DEF StartNew, Show, call, backend, Got, Made
  <2>2. ScreenTypes'
    BY <1>1, <2>1, EmptyScreen DEF ScreenTypes, Ids
  <2>3. Shows(messages', pc', turn', Made', transcript')
    BY <2>1, EmptyScreen
  <2>4. Stored(transcript', turn', home', Made')
    BY <1>1, <2>1
  <2>5. Loaded' /\ Opening' /\ Streaming' /\ Flow'
    BY <1>1, <1>3, <2>1 DEF Loaded, Opening, Streaming, Flow
  <2> QED
    BY <2>2, <2>3, <2>4, <2>5 DEF ScreenInv
<1>5. ASSUME NEW c \in Calls, NEW s \in Sessions, Open(c, s) PROVE ScreenInv'
  <2>1. /\ sessionId' = s /\ messages' = <<>> /\ pc[c] = "idle"
        /\ pc' = [pc EXCEPT ![c] = "open"] /\ target' = [target EXCEPT ![c] = s]
        /\ UNCHANGED <<newSessionId, buffer, chips, Got, events, response,
                       turn, home, written, used, Made, transcript>>
    BY <1>5 DEF Open, Show, backend, Got, Made
  <2>2. ScreenTypes'
    BY <1>1, <2>1, EmptyScreen DEF ScreenTypes, Ids
  <2>3. Shows(messages', pc', turn', Made', transcript')
    BY <2>1, EmptyScreen
  <2>4. Stored(transcript', turn', home', Made')
    BY <1>1, <2>1
  <2>5. /\ \A d \in Calls : pc'[d] \in {"idle", "ended", "open"}
        /\ \A d \in Calls : pc'[d] = "open" => d = c
        /\ turn[c] = "none" /\ target'[c] = s
        /\ \A d \in Calls : pc'[d] = "idle" => pc[d] = "idle"
    BY <1>1, <1>3, <2>1 DEF Types, Unmade, ScreenTypes
  <2>6. Loaded' /\ Opening' /\ Streaming'
    BY <2>1, <2>5 DEF Loaded, Opening, Streaming
  <2>7. Flow'
    BY <1>1, <2>1, <2>5 DEF Flow
  <2> QED
    BY <2>2, <2>3, <2>4, <2>6, <2>7 DEF ScreenInv
<1>6. ASSUME NEW c \in Calls, Send(c) PROVE ScreenInv'
  <2> DEFINE new == messages \o <<Bubble(Prompt(c), FALSE), Bubble(Answer(c, 0, 0), TRUE)>>
  <2>1. /\ sessionId' = sessionId /\ messages' = new /\ pc[c] = "idle"
        /\ pc' = [pc EXCEPT ![c] = "stream"] /\ target' = [target EXCEPT ![c] = sessionId]
        /\ newSessionId' = [newSessionId EXCEPT ![c] = sessionId]
        /\ turn' = [turn EXCEPT ![c] = "posted"] /\ home' = [home EXCEPT ![c] = sessionId]
        /\ UNCHANGED <<buffer, chips, Got, events, response, written, used, Made, transcript>>
    BY <1>6 DEF Send, Show, Got, Made
  <2> HIDE DEF new
  <2>2. /\ turn[c] = "none" /\ events[c] = <<>> /\ Got[c] = Nothing /\ Made[c] = Nothing
        /\ turn'[c] = "posted" /\ pc'[c] = "stream"
        /\ \A d \in Calls \ {c} : turn'[d] = turn[d] /\ pc'[d] = pc[d] /\ home'[d] = home[d]
    BY <1>1, <2>1 DEF Unmade, Flow, Types, ScreenTypes
  <2>3. messages \in Seq(Bubbles) /\ \A i \in 1 .. Len(messages) : messages[i].text.call # c
    BY <1>1, <2>2 DEF ScreenTypes, Shows, Known
  <2>4. Shows(messages, pc', turn', Made', transcript')
    <3>1. \A d \in Calls : pc'[d] # "stream" =>
            /\ pc[d] # "stream" /\ Made'[d] = Made[d]
            /\ (Answered(transcript', d) => Answered(transcript, d))
      BY <2>1, <2>2
    <3>2. \A d \in Calls : turn[d] # "none" => turn'[d] # "none"
      BY <2>2
    <3> QED
      BY <1>1, <2>3, <3>1, <3>2, ShowsStays
  <2>5. /\ new \in Seq(Bubbles) /\ Growing(new, c, Nothing)
        /\ Shows(new, pc', turn', Made', transcript')
    BY <2>2, <2>3, <2>4, PostedScreen DEF new
  <2>6. ScreenTypes'
    BY <1>1, <2>1, <2>5 DEF ScreenTypes
  <2>7. Stored(transcript', turn', home', Made')
    <3>1. InPlace(transcript', turn', Made')
      <4>1. ASSUME NEW s \in Sessions, NEW i \in 1 .. Len(transcript[s])
            PROVE  transcript[s][i].call \in Calls /\ transcript[s][i].call # c
        <5>1. transcript[s] \in Seq(Texts)
          BY <1>1 DEF ScreenTypes
        <5>2. transcript[s][i] \in Texts
          BY <5>1, ElementOfSeq
        <5> QED
          BY <1>1, <2>2, <5>2 DEF Stored, InPlace, Texts
      <4>2. InPlace(transcript, turn, Made) /\ UNCHANGED <<transcript, Made>>
        BY <1>1, <2>1 DEF Stored
      <4>3. \A d \in Calls \ {c} : turn'[d] = turn[d]
        BY <2>2
      <4> QED
        BY <4>1, <4>2, <4>3 DEF InPlace
    <3>2. PromptLast(transcript', turn', home')
      BY <1>1, <2>1, <2>2 DEF Stored, PromptLast
    <3> QED
      BY <1>1, <2>1, <3>1, <3>2 DEF Stored
  <2>8. Loaded' /\ Opening'
    BY <1>3, <2>1, <2>2 DEF Loaded, Opening
  <2>9. Streaming'
    BY <1>3, <2>1, <2>2, <2>5 DEF Streaming
  <2>10. Flow'
    <3>1. ~ Answered(transcript', c)
      BY <1>1, <2>1, <2>2 DEF Answered, Stored, InPlace
    <3> HIDE DEF Answered
    <3> QED
      BY <1>1, <1>3, <2>1, <2>2, <3>1 DEF Flow
  <2> QED
    BY <2>1, <2>5, <2>6, <2>7, <2>8, <2>9, <2>10 DEF ScreenInv
<1> QED
  BY <1>4, <1>5, <1>6 DEF User

\* A conversation is read, and shown.
LEMMA ScreenOpen ==
  ASSUME ScreenInv, IInv', NEW c \in Calls, Respond(c) \/ Opened(c)
  PROVE  ScreenInv'
<1>1. /\ Types /\ Unmade /\ OneCall /\ ScreenTypes /\ Stored(transcript, turn, home, Made)
      /\ Shows(messages, pc, turn, Made, transcript)
      /\ Loaded /\ Opening /\ Streaming /\ Flow
  BY DEF ScreenInv, IInv
<1>2. /\ pc[c] \in {"open", "loaded", "refused"}
      /\ UNCHANGED <<target, newSessionId, buffer, chips, Got, events,
                     turn, home, written, used, Made, transcript>>
      /\ \E x \in {"loaded", "refused", "ended"} : pc' = [pc EXCEPT ![c] = x]
  BY DEF Respond, Opened, End, backend, Got, Made
<1>3. /\ \A d \in Calls \ {c} : pc[d] \in {"idle", "ended"} /\ pc'[d] = pc[d]
      /\ pc'[c] \in {"loaded", "refused", "ended"}
      /\ \A d \in Calls : pc[d] # "stream" /\ pc'[d] # "stream"
      /\ \A d \in Calls : pc'[d] = "idle" => pc[d] = "idle"
  BY <1>1, <1>2 DEF Types, OneCall, Points, Busy
<1>4. Stored(transcript', turn', home', Made') /\ Streaming' /\ Flow'
  BY <1>1, <1>2, <1>3 DEF Streaming, Flow
<1>5. ASSUME NEW ms \in Seq(Bubbles), Shows(ms, pc, turn, Made, transcript)
      PROVE  Shows(ms, pc', turn', Made', transcript')
  <2>1. \A d \in Calls : pc'[d] # "stream" =>
          /\ pc[d] # "stream" /\ Made'[d] = Made[d]
          /\ (Answered(transcript', d) => Answered(transcript, d))
    BY <1>2, <1>3
  <2>2. \A d \in Calls : turn[d] # "none" => turn'[d] # "none"
    BY <1>2
  <2> QED
    BY <1>5, <2>1, <2>2, ShowsStays
<1>6. turn[c] = "none" /\ target[c] \in Sessions
  BY <1>1, <1>2 DEF Opening
<1>7. Opening'
  BY <1>2, <1>3, <1>6 DEF Opening
<1>8. CASE Respond(c)
  <2>1. UNCHANGED <<sessionId, messages>>
    BY <1>8 DEF Respond, screen
  <2>2. \/ pc'[c] = "loaded" /\ response' = [response EXCEPT ![c] = History(target[c])]
        \/ pc'[c] = "refused" /\ response' = response
    BY <1>1, <1>8 DEF Respond, Types
  <2>3. /\ History(target[c]) \in Seq(Bubbles)
        /\ Shows(History(target[c]), pc, turn, Made, transcript)
    BY <1>6, HistoryShows
  <2>4. ScreenTypes'
    BY <1>1, <1>2, <2>1, <2>2, <2>3 DEF ScreenTypes
  <2>5. Loaded'
    <3>1. pc'[c] = "loaded" => Shows(response'[c], pc', turn', Made', transcript')
      BY <1>1, <1>5, <2>2, <2>3 DEF ScreenTypes
    <3> QED
      BY <1>3, <3>1 DEF Loaded
  <2>6. Shows(messages', pc', turn', Made', transcript')
    BY <1>1, <1>5, <2>1 DEF ScreenTypes
  <2> QED
    BY <1>4, <1>7, <2>4, <2>5, <2>6 DEF ScreenInv
<1>9. CASE Opened(c)
  <2>1. /\ sessionId' = target[c] /\ pc'[c] = "ended"
        /\ \/ pc[c] = "loaded" /\ messages' = response[c]
           \/ messages' = <<>>
        /\ response' = [response EXCEPT ![c] = <<>>]
    BY <1>1, <1>9 DEF Opened, Show, End, Types
  <2>2. messages' \in Seq(Bubbles) /\ Shows(messages', pc', turn', Made', transcript')
    <3>1. CASE pc[c] = "loaded" /\ messages' = response[c]
      BY <1>1, <1>5, <3>1 DEF ScreenTypes, Loaded
    <3>2. CASE messages' = <<>>
      BY <3>2, EmptyScreen
    <3> QED
      BY <2>1, <3>1, <3>2
  <2>3. ScreenTypes'
    BY <1>1, <1>2, <1>6, <2>1, <2>2, EmptyScreen DEF ScreenTypes, Ids
  <2>4. Loaded'
    BY <1>3, <2>1 DEF Loaded
  <2> QED
    BY <1>4, <1>7, <2>2, <2>3, <2>4 DEF ScreenInv
<1> QED
  BY <1>8, <1>9
-----------------------------------------------------------------------------
\* What is known of the call that streams.
Stream1(c) ==
  /\ pc[c] = "stream" /\ turn[c] # "none" /\ Growing(messages, c, Got[c])
  /\ \A d \in Calls \ {c} : pc[d] \in {"idle", "ended"}

\* The other calls are made no more while one streams.
LEMMA TheStream ==
  ASSUME ScreenInv, NEW c \in Calls, pc[c] = "stream" PROVE Stream1(c)
BY DEF ScreenInv, IInv, Types, OneCall, Points, Busy, Streaming, Stream1

\* An event is taken from the front.
LEMMA ComingNext ==
  ASSUME NEW q \in Seq(Kinds), q # <<>>, NEW m \in Nat, m <= Len(q),
         NEW got, NEW all, Coming(q, m, got, all), m > 0
  PROVE  q[1] \in Going /\ Coming(Tail(q), m - 1, After(q[1], got), all)
<1>1. Len(q) \in Nat /\ Len(Tail(q)) = Len(q) - 1
      /\ \A i \in 1 .. Len(Tail(q)) : i + 1 \in 1 .. Len(q) /\ Tail(q)[i] = q[i + 1]
  BY TailOfEvents, HeadTailProperties, LenProperties
<1>2. \A i \in 1 .. m : q[i] \in Going
  BY DEF Coming, Pending
<1>3. PICK f \in [0 .. m -> Amounts] : Grows(f, q, m, got, all)
  BY DEF Coming
<1> DEFINE g == [i \in 0 .. m - 1 |-> f[i + 1]]
<1>4. ASSUME NEW i \in 1 .. m - 1
      PROVE  /\ i \in 1 .. Len(Tail(q)) /\ i + 1 \in 1 .. m /\ Tail(q)[i] = q[i + 1]
             /\ i \in 0 .. m - 1 /\ i - 1 \in 0 .. m - 1 /\ (i - 1) + 1 = i /\ (i + 1) - 1 = i
  <2>1. i \in 1 .. Len(Tail(q)) /\ i + 1 \in 1 .. m
    BY <1>1
  <2> QED
    BY <1>1, <2>1
<1>5. Pending(Tail(q), m - 1)
  BY <1>2, <1>4 DEF Pending
<1>6. \A i \in 0 .. m - 1 : i + 1 \in 0 .. m
  OBVIOUS
<1>7. g \in [0 .. m - 1 -> Amounts]
  BY <1>6
<1>8. g[0] = f[1] /\ g[m - 1] = f[m]
  <2>1. 0 \in 0 .. m - 1 /\ m - 1 \in 0 .. m - 1 /\ 0 + 1 = 1 /\ (m - 1) + 1 = m
    OBVIOUS
  <2> QED
    BY <2>1
<1>9. f[1] = After(q[1], got)
  <2>1. 1 \in 1 .. m /\ 1 - 1 = 0
    OBVIOUS
  <2> QED
    BY <1>3, <2>1 DEF Grows
<1>10. ASSUME NEW i \in 1 .. m - 1 PROVE g[i] = After(Tail(q)[i], g[i - 1])
  <2>1. g[i] = f[i + 1] /\ g[i - 1] = f[i]
    BY <1>4
  <2>2. f[i + 1] = After(q[i + 1], f[i])
    BY <1>3, <1>4 DEF Grows
  <2> QED
    BY <1>4, <2>1, <2>2
<1> HIDE DEF g
<1>11. Grows(g, Tail(q), m - 1, After(q[1], got), all)
  BY <1>3, <1>8, <1>9, <1>10 DEF Grows
<1>12. q[1] \in Going
  <2>1. 1 \in 1 .. m
    OBVIOUS
  <2> QED
    BY <1>2, <2>1
<1> QED
  BY <1>5, <1>7, <1>11, <1>12 DEF Coming

\* The next event of an answer that is stored, and what is known after it.
LEMMA EndingNext ==
  ASSUME NEW q \in Seq(Kinds), q # <<>>, NEW ms, NEW got, NEW all, Ending(q, ms, got, all)
  PROVE  /\ q[1] \in Going \cup {"done", "end"}
         /\ q[1] \in Going => \A ns : Ending(Tail(q), ns, After(q[1], got), all)
         /\ q[1] = "done" => Tail(q) = <<"end">> /\ got = all
         /\ q[1] = "end" => got = all /\ ms[Len(ms)].streaming = FALSE
<1>1. /\ Len(q) \in Nat /\ Len(Tail(q)) = Len(q) - 1 /\ Tail(q) \in Seq(Kinds)
      /\ \A i \in 1 .. Len(Tail(q)) : i + 1 \in 1 .. Len(q) /\ Tail(q)[i] = q[i + 1]
  BY TailOfEvents, HeadTailProperties, LenProperties
<1>2. CASE q = <<"end">> /\ got = all /\ ms[Len(ms)].streaming = FALSE
  BY <1>2 DEF Going
<1>3. CASE /\ Len(q) >= 2 /\ q[Len(q)] = "end" /\ q[Len(q) - 1] = "done"
           /\ Coming(q, Len(q) - 2, got, all)
  <2>1. CASE Len(q) = 2
    <3>1. q[1] = "done" /\ got = all
      BY <1>3, <2>1 DEF Coming, Grows
    <3>2. Len(Tail(q)) = 1 /\ Tail(q)[1] = "end"
      <4>1. Len(Tail(q)) = 1
        BY <1>1, <2>1
      <4>2. 1 \in 1 .. Len(Tail(q))
        <5> DEFINE n == Len(Tail(q))
        <5>1. n = 1
          BY <4>1
        <5> HIDE DEF n
        <5>2. 1 \in 1 .. n
          BY ONLY <5>1
        <5> QED
          BY ONLY <5>2 DEF n
      <4>3. Tail(q)[1] = q[1 + 1]
        BY <1>1, <4>2
      <4>4. q[2] = "end"
        BY <1>3, <2>1
      <4> QED
        BY <4>1, <4>3, <4>4
    <3>3. Tail(q) = <<"end">>
      <4> DEFINE one == <<"end">>
      <4>1. one \in Seq(Kinds) /\ Len(one) = 1 /\ one[1] = "end"
        BY DEF Kinds
      <4> HIDE DEF one
      <4>2. \A i \in 1 .. 1 : i = 1
        OBVIOUS
      <4>3. \A i \in 1 .. 1 : Tail(q)[i] = one[i]
        BY <3>2, <4>1, <4>2
      <4>4. Tail(q) = one
        BY <1>1, <3>2, <4>1, <4>3, SeqEqual
      <4> QED
        BY <4>4 DEF one
    <3> QED
      BY <3>1, <3>3 DEF Going
  <2>2. CASE Len(q) # 2
    <3> DEFINE m == Len(q) - 2
               t == Tail(q)
    <3>1. m \in Nat /\ m > 0 /\ m <= Len(q)
      BY <1>1, <1>3, <2>2
    <3>2. q[1] \in Going /\ Coming(t, m - 1, After(q[1], got), all)
      BY <1>3, <3>1, ComingNext
    <3>3. Len(t) >= 2 /\ m - 1 = Len(t) - 2 /\ t[Len(t)] = "end" /\ t[Len(t) - 1] = "done"
      BY <1>1, <1>3, <2>2
    <3> QED
      BY <3>2, <3>3 DEF Ending, Going
  <2> QED
    BY <2>1, <2>2
<1> QED
  BY <1>2, <1>3 DEF Ending

\* The last bubble gets a new text.
Updated(ms, c, n, b) ==
  [ms EXCEPT ![Len(ms)].text = Partial(c, n), ![Len(ms)].streaming = b]

\* It is still the growing bubble, and the bubbles above it are as they were.
LEMMA UpdatedScreen ==
  ASSUME NEW ms \in Seq(Bubbles), NEW c \in Calls, NEW m, NEW n \in Amounts, NEW b \in BOOLEAN,
         Growing(ms, c, m), NEW p, NEW t, NEW w, NEW T, Shows(ms, p, t, w, T), p[c] = "stream",
         NEW new, new = Updated(ms, c, n, b)
  PROVE  /\ new \in Seq(Bubbles) /\ Growing(new, c, n) /\ Shows(new, p, t, w, T)
         /\ Len(new) = Len(ms) /\ new[Len(new)].streaming = b
<1> DEFINE k == Len(ms)
<1>1. k \in Nat /\ k >= 2 /\ k \in 1 .. k /\ k - 1 \in 1 .. k
      /\ ms \in [1 .. k -> Bubbles]
  <2>1. Len(ms) \in Nat /\ ms \in [1 .. Len(ms) -> Bubbles]
    BY LenProperties
  <2> QED
    BY <2>1 DEF Growing
<1>2. ms[k].role = "assistant" /\ ms[k] \in Bubbles
      /\ Partial(c, n) \in Texts /\ Partial(c, n).call = c
  BY <1>1 DEF Growing, Partial, Answer, Texts, Amounts
<1> DEFINE last == [ms[k] EXCEPT !.text = Partial(c, n), !.streaming = b]
<1>3. /\ last \in Bubbles /\ last.role = "assistant" /\ last.text = Partial(c, n)
      /\ last.streaming = b
  BY <1>2 DEF Bubbles
<1>4. new = [ms EXCEPT ![k] = last]
  BY DEF Updated
<1> HIDE DEF last, k
<1>5. /\ new \in Seq(Bubbles) /\ Len(new) = k /\ new[k] = last
      /\ \A i \in 1 .. k : i # k => new[i] = ms[i]
  <2> DEFINE set == [ms EXCEPT ![k] = last]
  <2>1. k \in 1 .. Len(ms) /\ Len(ms) = k
    BY <1>1 DEF k
  <2>2. /\ set \in Seq(Bubbles) /\ Len(set) = Len(ms)
        /\ \A j \in 1 .. Len(ms) : set[j] = IF j = k THEN last ELSE ms[j]
    BY <1>3, <2>1, ExceptSeq
  <2>3. new = set
    BY <1>4
  <2> HIDE DEF set
  <2> QED
    BY <1>1, <2>1, <2>2, <2>3
<1>6. \A i \in 1 .. k - 2 : i \in 1 .. k /\ i # k
  BY <1>1
<1>7. Growing(new, c, n)
  <2>1. k - 1 # k
    BY <1>1
  <2> QED
    BY <1>1, <1>3, <1>5, <1>6, <2>1 DEF Growing, k
<1>8. ms[k - 1].text = Prompt(c) /\ ms[k].text.call = c /\ new[k].text.call = c
  BY <1>2, <1>3, <1>5 DEF Growing, Bubble, Partial, Answer, k
<1>9. Under(new)
  <2>1. SUFFICES ASSUME NEW i \in 1 .. k, new[i].role = "assistant"
                 PROVE  i > 1 /\ new[i - 1].text = Prompt(new[i].text.call)
    BY <1>5 DEF Under
  <2>2. ms[i].role = "assistant"
    BY <1>2, <1>5, <2>1
  <2>3. i > 1 /\ ms[i - 1].text = Prompt(ms[i].text.call)
    BY <2>2 DEF Shows, Under, k
  <2>4. i - 1 \in 1 .. k /\ i - 1 # k
    BY <1>1, <2>3
  <2> QED
    BY <1>5, <1>8, <2>3, <2>4
<1>10. Whole(new, p, w, T)
  <2>1. SUFFICES ASSUME NEW i \in 1 .. k, NEW d, d = new[i].text.call,
                        new[i].role = "user", p[d] # "stream", Answered(T, d)
                 PROVE  Below(new, i, d, w[d]) \/ Gone(new, i, d, w[d])
    BY <1>5 DEF Whole
  <2>2. i # k /\ new[i] = ms[i] /\ d # c
    BY <1>3, <1>5, <2>1
  <2>3. Below(ms, i, d, w[d]) \/ Gone(ms, i, d, w[d])
    BY <2>1, <2>2 DEF Shows, Whole, k
  <2>4. CASE Below(ms, i, d, w[d])
    <3>1. i < k /\ \E o \in {0, w[d][2]} : ms[i + 1] = Bubble(Answer(d, w[d][1], o), FALSE)
      BY <2>4 DEF Below, k
    <3>2. i # k - 1
      BY <1>1, <1>8, <2>1, <2>2 DEF Prompt
    <3>3. i + 1 \in 1 .. k /\ i + 1 # k
      BY <1>1, <3>1, <3>2
    <3> QED
      BY <1>5, <3>1, <3>3 DEF Below
  <2>5. CASE Gone(ms, i, d, w[d])
    <3>1. ASSUME NEW j \in 1 .. k, new[j].text.call = d PROVE j = i
      <4>1. j # k /\ ms[j].text.call = d
        BY <1>5, <1>8, <2>2, <3>1
      <4> QED
        BY <2>5, <4>1 DEF Gone, k
    <3> QED
      BY <1>5, <2>5, <3>1 DEF Gone
  <2> QED
    BY <2>3, <2>4, <2>5
<1>11. Known(new, t)
  <2>1. \A i \in 1 .. k : new[i].text.call = ms[i].text.call
    BY <1>5, <1>8
  <2> QED
    BY <1>5, <2>1 DEF Shows, Known, k
<1> QED
  BY <1>3, <1>5, <1>7, <1>9, <1>10, <1>11 DEF Shows, k

\* The streaming call ends: where its answer is stored, the bubble is whole.
LEMMA EndedScreen ==
  ASSUME ScreenInv, NEW c \in Calls, pc[c] = "stream",
         Answered(transcript, c) => Got[c] = Made[c]
                                    /\ messages[Len(messages)].streaming = FALSE
  PROVE  Shows(messages, [pc EXCEPT ![c] = "ended"], turn, Made, transcript)
<1> DEFINE q == [pc EXCEPT ![c] = "ended"]
           k == Len(messages)
<1>1. /\ messages \in Seq(Bubbles) /\ Shows(messages, pc, turn, Made, transcript)
      /\ Growing(messages, c, Got[c]) /\ pc \in [Calls -> Points]
  BY DEF ScreenInv, ScreenTypes, IInv, Types, Streaming
<1>2. k \in Nat /\ k >= 2 /\ k \in 1 .. k
  <2>1. Len(messages) \in Nat
    BY <1>1, LenProperties
  <2> QED
    BY <1>1, <2>1 DEF Growing
<1>3. messages[k] \in Bubbles /\ messages[k].role = "assistant"
      /\ messages[k].text = Partial(c, Got[c])
  BY <1>1, <1>2, ElementOfSeq DEF Growing
<1>4. SUFFICES ASSUME NEW i \in 1 .. k, NEW d, d = messages[i].text.call,
                      messages[i].role = "user", q[d] # "stream",
                      Answered(transcript, d)
               PROVE  Below(messages, i, d, Made[d]) \/ Gone(messages, i, d, Made[d])
  BY <1>1 DEF Shows, Whole
<1>5. CASE d = c
  <2>1. i = k - 1
    <3>1. i # k /\ ~ (i \in 1 .. k - 2)
      BY <1>1, <1>3, <1>4, <1>5 DEF Growing
    <3> HIDE DEF k
    <3> QED
      BY <1>2, <3>1
  <2>2. messages[k].streaming = FALSE /\ Got[c] = Made[c]
    BY <1>4, <1>5
  <2>3. messages[k] = Bubble(Answer(c, Made[c][1], Made[c][2]), FALSE)
    BY <1>3, <2>2 DEF Bubbles, Bubble, Partial, Answer
  <2>4. i + 1 = k /\ i < k
    <3> HIDE DEF k
    <3> QED
      BY <1>2, <2>1
  <2> QED
    BY <1>5, <2>3, <2>4 DEF Below
<1>6. CASE d # c
  <2>1. d \in Calls
    BY <1>1, <1>4, BubbleFields
  <2>2. pc[d] # "stream"
    BY <1>1, <1>4, <1>6, <2>1
  <2> QED
    BY <1>1, <1>4, <2>2 DEF Shows, Whole
<1> QED
  BY <1>5, <1>6

\* The call goes on listening, with the rest of the events.
LEMMA ScreenGoesOn ==
  ASSUME ScreenInv, IInv', NEW c \in Calls, NEW ev, Receive(c, ev),
         NEW n, Got' = [Got EXCEPT ![c] = n],
         buffer' \in [Calls -> Nat], chips' \in [Calls -> Nat],
         UNCHANGED <<pc, sessionId>>, newSessionId' \in [Calls -> Ids],
         messages' \in Seq(Bubbles), Growing(messages', c, n),
         Shows(messages', pc, turn, Made, transcript),
         turn[c] = "saved" => Coming(Tail(events[c]), Len(Tail(events[c])), n, Made[c]),
         Answered(transcript, c) => Ending(Tail(events[c]), messages', n, Made[c])
  PROVE  ScreenInv'
<1>1. /\ Types /\ ScreenTypes /\ Stored(transcript, turn, home, Made)
      /\ Loaded /\ Opening /\ Streaming /\ Flow
  BY DEF ScreenInv, IInv
<1>2. /\ pc[c] = "stream" /\ events[c] # <<>>
      /\ events' = [events EXCEPT ![c] = Tail(events[c])]
      /\ UNCHANGED <<target, response, turn, home, written, used, Made, transcript>>
  BY DEF Receive, backend, Made
<1>3. Stream1(c)
  BY <1>2, TheStream
<1>4. ScreenTypes'
  BY <1>1, <1>2 DEF ScreenTypes
<1>5. Stored(transcript', turn', home', Made')
  BY <1>1, <1>2
<1>6. Shows(messages', pc', turn', Made', transcript')
  BY <1>2
<1>7. Loaded' /\ Opening'
  BY <1>1, <1>2, <1>3 DEF Loaded, Opening, Stream1
<1>8. Streaming'
  BY <1>1, <1>2, <1>3, AmountTypes DEF Streaming, Stream1
<1>9. Flow'
  <2>1. \A d \in Calls \ {c} : events'[d] = events[d] /\ Got'[d] = Got[d]
    BY <1>1, <1>2, AmountTypes DEF Types
  <2>2. events'[c] = Tail(events[c]) /\ Got'[c] = n /\ turn[c] # "posted"
    BY <1>1, <1>2, AmountTypes DEF Types, Flow
  <2> HIDE DEF Answered, Coming, Ending
  <2> QED
    BY <1>1, <1>2, <1>3, <2>1, <2>2 DEF Flow, Stream1
<1> QED
  BY <1>4, <1>5, <1>6, <1>7, <1>8, <1>9 DEF ScreenInv

\* The call stops listening.
LEMMA ScreenStops ==
  ASSUME ScreenInv, IInv', NEW c \in Calls, NEW ev, Receive(c, ev), End(c),
         UNCHANGED <<messages, buffer, chips, newSessionId>>, sessionId' \in Ids,
         Answered(transcript, c) => Got[c] = Made[c]
                                    /\ messages[Len(messages)].streaming = FALSE
  PROVE  ScreenInv'
<1>1. /\ Types /\ ScreenTypes /\ Stored(transcript, turn, home, Made)
      /\ Loaded /\ Opening /\ Streaming /\ Flow
  BY DEF ScreenInv, IInv
<1>2. /\ pc[c] = "stream" /\ pc' = [pc EXCEPT ![c] = "ended"]
      /\ events' = [events EXCEPT ![c] = Tail(events[c])]
      /\ UNCHANGED <<target, response, turn, home, written, used, Made, Got, transcript>>
  BY DEF Receive, End, backend, Made, Got
<1>3. Stream1(c) /\ pc'[c] = "ended" /\ \A d \in Calls \ {c} : pc'[d] = pc[d]
  BY <1>1, <1>2, TheStream DEF Types
<1>4. turn[c] \notin {"posted", "saved"}
  BY <1>2, <1>3 DEF IInv, StillListening, Running
<1>5. ScreenTypes'
  BY <1>1, <1>2 DEF ScreenTypes
<1>6. Stored(transcript', turn', home', Made')
  BY <1>1, <1>2
<1>7. Shows(messages', pc', turn', Made', transcript')
  BY <1>2, EndedScreen
<1>8. Loaded' /\ Opening' /\ Streaming'
  BY <1>1, <1>2, <1>3 DEF Loaded, Opening, Streaming, Stream1
<1>9. Flow'
  <2>1. \A d \in Calls \ {c} : events'[d] = events[d]
    BY <1>1, <1>2 DEF Types
  <2> HIDE DEF Answered, Coming, Ending
  <2> QED
    BY <1>1, <1>2, <1>3, <1>4, <2>1 DEF Flow, Stream1
<1> QED
  BY <1>5, <1>6, <1>7, <1>8, <1>9 DEF ScreenInv

\* An event of the answer reaches the call.
LEMMA ScreenReceive ==
  ASSUME ScreenInv, IInv', NEW c \in Calls,
         \/ ReceiveSession(c) \/ ReceiveDelta(c) \/ ReceiveTool(c) \/ ReceiveDone(c)
         \/ ReceiveError(c) \/ ReceiveFailure(c) \/ ReceiveEnd(c)
  PROVE  ScreenInv'
<1> DEFINE q == events[c]
           n == Got[c]
           k == Len(messages)
<1>1. /\ Types /\ ScreenTypes /\ Shows(messages, pc, turn, Made, transcript) /\ Flow
  BY DEF ScreenInv, IInv
<1>2. pc[c] = "stream" /\ q # <<>> /\ q \in Seq(Kinds) /\ n \in Amounts /\ Made[c] \in Amounts
  BY <1>1, AmountTypes DEF Types, Receive, ReceiveSession, ReceiveDelta, ReceiveTool, ReceiveDone,
     ReceiveError, ReceiveFailure, ReceiveEnd
<1>3. /\ Stream1(c) /\ messages \in Seq(Bubbles)
      /\ home[c] \in Ids /\ newSessionId \in [Calls -> Ids] /\ sessionId \in Ids
      /\ buffer[c] \in Nat /\ chips[c] \in Nat /\ n = <<buffer[c], chips[c]>>
  BY <1>1, <1>2, TheStream DEF ScreenTypes, Got
<1>4. Head(q) = q[1]
  BY <1>2, TailOfEvents
<1>5. Len(q) \in Nat /\ Len(q) > 0 /\ Len(Tail(q)) = Len(q) - 1
  <2>1. Len(q) \in Nat /\ Len(q) # 0
    BY <1>2, LenProperties, EmptySeq
  <2>2. Len(Tail(q)) = Len(q) - 1
    BY <1>2, HeadTailProperties
  <2> QED
    BY <2>1, <2>2
<1>6. turn[c] = "saved" =>
        q[1] \in Going /\ Coming(Tail(q), Len(Tail(q)), After(q[1], n), Made[c])
  <2>1. SUFFICES ASSUME Coming(q, Len(q), n, Made[c])
        PROVE q[1] \in Going /\ Coming(Tail(q), Len(Tail(q)), After(q[1], n), Made[c])
    BY <1>1, <1>2 DEF Flow
  <2> HIDE DEF q, n
  <2>2. Len(q) <= Len(q)
    BY <1>5
  <2> QED
    BY <1>2, <1>5, <2>1, <2>2, ComingNext
<1>7. Answered(transcript, c) =>
        /\ q[1] \in Going \cup {"done", "end"}
        /\ q[1] \in Going => \A ns : Ending(Tail(q), ns, After(q[1], n), Made[c])
        /\ q[1] = "done" => Tail(q) = <<"end">> /\ n = Made[c]
        /\ q[1] = "end" => n = Made[c] /\ messages[k].streaming = FALSE
  <2>1. Answered(transcript, c) => Ending(q, messages, n, Made[c])
    BY <1>1, <1>2 DEF Flow
  <2> HIDE DEF q, n, Answered
  <2> QED
    BY <1>2, <2>1, EndingNext
<1> DEFINE shown(m, b) == Updated(messages, c, m, b)
<1>8. ASSUME NEW m \in Amounts, NEW b \in BOOLEAN
      PROVE  /\ shown(m, b) \in Seq(Bubbles) /\ Growing(shown(m, b), c, m)
             /\ Shows(shown(m, b), pc, turn, Made, transcript)
             /\ shown(m, b)[Len(shown(m, b))].streaming = b
  <2>1. Growing(messages, c, n) /\ pc[c] = "stream"
    BY <1>3 DEF Stream1
  <2> HIDE DEF n
  <2> QED
    BY <1>1, <1>3, <2>1, UpdatedScreen
<1>9. ASSUME NEW m, NEW o, NEW b, UpdateLast(c, m, o, b) PROVE messages' = shown(<<m, o>>, b)
  <2>1. messages # <<>>
    <3>1. Len(messages) >= 2
      BY <1>3 DEF Stream1, Growing
    <3>2. Len(<<>>) = 0
      BY EmptySeq
    <3> QED
      BY <3>1, <3>2
  <2> QED
    BY <1>9, <2>1 DEF UpdateLast, LastBubble, Updated, Partial
<1>10. Learn(c) => newSessionId' \in [Calls -> Ids]
  BY <1>3 DEF Learn
<1>11. CASE ReceiveSession(c)
  <2>1. /\ Receive(c, "session") /\ q[1] = "session" /\ newSessionId' \in [Calls -> Ids]
        /\ UNCHANGED <<sessionId, messages, pc, buffer, chips>>
    BY <1>3, <1>4, <1>10, <1>11 DEF ReceiveSession, Receive, screen
  <2>2. Got' = [Got EXCEPT ![c] = n] /\ After(q[1], n) = n
    BY <2>1 DEF Got, After
  <2>3. buffer' \in [Calls -> Nat] /\ chips' \in [Calls -> Nat] /\ q[1] \in Going
    BY <1>1, <2>1 DEF ScreenTypes, Going
  <2>4. Growing(messages', c, n) /\ messages' \in Seq(Bubbles) /\ UNCHANGED <<pc, sessionId>>
    BY <1>3, <2>1 DEF Stream1
  <2>5. Shows(messages', pc, turn, Made, transcript)
    BY <1>1, <2>1
  <2> HIDE DEF Answered, Ending, Coming, n
  <2>6. /\ turn[c] = "saved" => Coming(Tail(q), Len(Tail(q)), n, Made[c])
        /\ Answered(transcript, c) => Ending(Tail(q), messages', n, Made[c])
    BY <1>6, <1>7, <2>2, <2>3
  <2> QED
    BY <2>1, <2>2, <2>3, <2>4, <2>5, <2>6, ScreenGoesOn
<1>12. CASE ReceiveDelta(c) \/ ReceiveTool(c)
  <2> DEFINE more == After(q[1], n)
  <2>1. PICK ev \in {"delta", "tool"} : Receive(c, ev) /\ q[1] = ev
    BY <1>4, <1>12 DEF ReceiveDelta, ReceiveTool, Receive
  <2>2. /\ UNCHANGED <<sessionId, pc, newSessionId>>
        /\ buffer' = [buffer EXCEPT ![c] = more[1]] /\ chips' = [chips EXCEPT ![c] = more[2]]
        /\ more \in Amounts /\ UpdateLast(c, more[1], more[2], TRUE)
    <3>1. CASE ReceiveDelta(c)
      <4>1. more = <<buffer[c] + 1, chips[c]>>
        BY <1>3, <1>4, <3>1 DEF ReceiveDelta, Receive, After
      <4>2. more[1] = buffer[c] + 1 /\ more[2] = chips[c]
        BY <4>1
      <4>3. buffer[c] \in Nat /\ chips[c] \in Nat /\ chips' = [chips EXCEPT ![c] = chips[c]]
        BY <1>1, <3>1 DEF ReceiveDelta, ScreenTypes
      <4>4. more \in Amounts
        BY <4>1, <4>3 DEF Amounts
      <4> HIDE DEF more
      <4> QED
        BY <1>3, <3>1, <4>2, <4>3, <4>4 DEF ReceiveDelta, AllChunks
    <3>2. CASE ReceiveTool(c)
      <4>1. more = <<buffer[c], chips[c] + 1>>
        BY <1>3, <1>4, <3>2 DEF ReceiveTool, Receive, After
      <4>2. more[1] = buffer[c] /\ more[2] = chips[c] + 1
        BY <4>1
      <4>3. buffer[c] \in Nat /\ chips[c] \in Nat /\ buffer' = [buffer EXCEPT ![c] = buffer[c]]
        BY <1>1, <3>2 DEF ReceiveTool, ScreenTypes
      <4>4. more \in Amounts
        BY <4>1, <4>3 DEF Amounts
      <4> HIDE DEF more
      <4> QED
        BY <1>3, <3>2, <4>2, <4>3, <4>4 DEF ReceiveTool
    <3> QED
      BY <1>12, <3>1, <3>2
  <2>3. q[1] \in Going
    BY <2>1 DEF Going
  <2>4. messages' = shown(<<more[1], more[2]>>, TRUE) /\ more = <<more[1], more[2]>>
    <3> HIDE DEF more, shown
    <3>1. messages' = shown(<<more[1], more[2]>>, TRUE)
      BY <1>9, <2>2
    <3>2. more = <<more[1], more[2]>>
      BY <2>2 DEF Amounts
    <3> QED
      BY <3>1, <3>2
  <2>5. Got' = [Got EXCEPT ![c] = more]
    BY <1>1, <2>2, <2>4 DEF Got, ScreenTypes
  <2>6. buffer' \in [Calls -> Nat] /\ chips' \in [Calls -> Nat]
    BY <1>1, <2>2 DEF ScreenTypes, Amounts
  <2> HIDE DEF Answered, Ending, Coming, n, more
  <2>7. /\ messages' \in Seq(Bubbles) /\ Growing(messages', c, more)
        /\ Shows(messages', pc, turn, Made, transcript)
    BY <1>8, <2>2, <2>4
  <2>8. /\ turn[c] = "saved" => Coming(Tail(q), Len(Tail(q)), more, Made[c])
        /\ Answered(transcript, c) => Ending(Tail(q), messages', more, Made[c])
    BY <1>6, <1>7, <2>3 DEF more
  <2> QED
    BY <1>3, <2>1, <2>2, <2>5, <2>6, <2>7, <2>8, ScreenGoesOn
<1>13. CASE ReceiveDone(c)
  <2>1. /\ Receive(c, "done") /\ q[1] = "done" /\ newSessionId' \in [Calls -> Ids]
        /\ UNCHANGED <<sessionId, pc, buffer, chips>> /\ messages' = shown(n, FALSE)
    BY <1>3, <1>4, <1>9, <1>10, <1>13 DEF ReceiveDone, Receive
  <2>2. /\ messages' \in Seq(Bubbles) /\ Growing(messages', c, n)
        /\ Shows(messages', pc, turn, Made, transcript)
        /\ messages'[Len(messages')].streaming = FALSE
    BY <1>2, <1>8, <2>1
  <2>3. Answered(transcript, c) => Ending(Tail(q), messages', n, Made[c])
    BY <1>7, <2>1, <2>2 DEF Ending
  <2>4. turn[c] # "saved"
    BY <1>6, <2>1 DEF Going
  <2>5. Got' = [Got EXCEPT ![c] = n] /\ buffer' \in [Calls -> Nat] /\ chips' \in [Calls -> Nat]
    BY <1>1, <2>1 DEF Got, ScreenTypes
  <2> HIDE DEF Answered, Ending, Coming, n
  <2> QED
    BY <1>2, <2>1, <2>2, <2>3, <2>4, <2>5, ScreenGoesOn
<1>14. CASE ReceiveError(c) \/ ReceiveFailure(c)
  <2>1. PICK ev \in {"error", "refused", "cut"} : Receive(c, ev) /\ q[1] = ev
    BY <1>4, <1>14 DEF ReceiveError, ReceiveFailure, Receive
  <2>2. End(c) /\ UNCHANGED <<sessionId, messages, buffer, chips, newSessionId>>
    BY <1>14 DEF ReceiveError, ReceiveFailure, Show
  <2>3. ~ Answered(transcript, c)
    BY <1>7, <2>1 DEF Going
  <2> HIDE DEF Answered
  <2> QED
    BY <1>3, <2>1, <2>2, <2>3, ScreenStops
<1>15. CASE ReceiveEnd(c)
  <2>1. /\ Receive(c, "end") /\ q[1] = "end" /\ End(c) /\ sessionId' \in Ids
        /\ UNCHANGED <<messages, buffer, chips, newSessionId>>
    BY <1>3, <1>4, <1>15 DEF ReceiveEnd, Receive, Show
  <2> HIDE DEF Answered
  <2> QED
    BY <1>7, <2>1, ScreenStops
<1> QED
  BY <1>11, <1>12, <1>13, <1>14, <1>15

\* A stored conversation gets one more text.
LEMMA TextAdded ==
  ASSUME NEW T \in [Sessions -> Seq(Texts)], NEW s \in Sessions, NEW x \in Texts,
         NEW U, U = [T EXCEPT ![s] = Append(T[s], x)]
  PROVE  /\ U \in [Sessions -> Seq(Texts)]
         /\ Len(T[s]) \in Nat /\ Len(U[s]) = Len(T[s]) + 1 /\ U[s][Len(U[s])] = x
         /\ \A r \in Sessions : \A i \in 1 .. Len(T[r]) :
              i \in 1 .. Len(U[r]) /\ U[r][i] = T[r][i]
         /\ \A r \in Sessions : \A i \in 1 .. Len(U[r]) :
              \/ i \in 1 .. Len(T[r]) /\ U[r][i] = T[r][i]
              \/ r = s /\ i = Len(T[s]) + 1 /\ U[r][i] = x
<1> DEFINE new == Append(T[s], x)
           n == Len(T[s])
<1>1. T[s] \in Seq(Texts) /\ U[s] = new /\ \A r \in Sessions : r # s => U[r] = T[r]
  OBVIOUS
<1>2. /\ n \in Nat /\ new \in Seq(Texts) /\ Len(new) = n + 1 /\ new[n + 1] = x
      /\ \A i \in 1 .. n : new[i] = T[s][i]
  BY <1>1, AppendProperties, LenProperties
<1> HIDE DEF new, n
<1>3. \A i \in 1 .. n : i \in 1 .. n + 1
  BY <1>2
<1>4. \A i \in 1 .. n + 1 : i \in 1 .. n \/ i = n + 1
  BY <1>2
<1>5. U \in [Sessions -> Seq(Texts)]
  BY <1>2 DEF new
<1>6. ASSUME NEW r \in Sessions, NEW i \in 1 .. Len(T[r])
      PROVE  i \in 1 .. Len(U[r]) /\ U[r][i] = T[r][i]
  <2>1. CASE r = s
    BY <1>1, <1>2, <1>3, <2>1 DEF n
  <2> QED
    BY <1>1, <2>1
<1>7. ASSUME NEW r \in Sessions, NEW i \in 1 .. Len(U[r])
      PROVE  \/ i \in 1 .. Len(T[r]) /\ U[r][i] = T[r][i]
             \/ r = s /\ i = n + 1 /\ U[r][i] = x
  <2>1. CASE r = s
    BY <1>1, <1>2, <1>4, <2>1 DEF n
  <2> QED
    BY <1>1, <2>1
<1> QED
  BY <1>1, <1>2, <1>5, <1>6, <1>7 DEF n

\* The turn of the call that streams takes a step, and its call with it.
LEMMA ScreenServed ==
  ASSUME ScreenInv, IInv', NEW c \in Calls, pc[c] = "stream",
         UNCHANGED <<screen, call, response>>, turn'[c] \in {"saved", "over"},
         \A d \in Calls \ {c} : /\ UNCHANGED <<turn[d], Made[d], events[d]>>
                                /\ Answered(transcript', d) => Answered(transcript, d),
         ScreenTypes', Stored(transcript', turn', home', Made'),
         turn'[c] = "saved" => Coming(events'[c], Len(events'[c]), Got[c], Made'[c]),
         Answered(transcript', c) => Ending(events'[c], messages, Got[c], Made'[c])
  PROVE  ScreenInv'
<1>1. /\ Shows(messages, pc, turn, Made, transcript) /\ messages \in Seq(Bubbles)
      /\ Streaming /\ Flow /\ Stream1(c)
  BY TheStream DEF ScreenInv, ScreenTypes
<1>2. UNCHANGED <<messages, pc, target, Got, response>>
  BY DEF screen, call, Got
<1>3. Shows(messages', pc', turn', Made', transcript')
  <2>1. \A d \in Calls : pc'[d] # "stream" =>
          /\ pc[d] # "stream" /\ Made'[d] = Made[d]
          /\ (Answered(transcript', d) => Answered(transcript, d))
    BY <1>2
  <2>2. \A d \in Calls : turn[d] # "none" => turn'[d] # "none"
    OBVIOUS
  <2> QED
    BY <1>1, <1>2, <2>1, <2>2, ShowsStays
<1>4. Loaded' /\ Opening'
  BY <1>1, <1>2 DEF Stream1, Loaded, Opening
<1>5. Streaming'
  BY <1>1, <1>2 DEF Stream1, Streaming
<1>6. Flow'
  <2> HIDE DEF Answered, Coming, Ending
  <2> QED
    BY <1>1, <1>2 DEF Stream1, Flow
<1> QED
  BY <1>3, <1>4, <1>5, <1>6 DEF ScreenInv

\* One more event is on its way.
LEMMA ComingMore ==
  ASSUME NEW q \in Seq(Kinds), NEW got, NEW all \in Amounts, Coming(q, Len(q), got, all),
         NEW ev \in {"delta", "tool"}
  PROVE  LET new == q \o <<ev>> IN Coming(new, Len(new), got, After(ev, all))
<1> DEFINE one == <<ev>>
           new == q \o one
           n == Len(q)
<1>1. one \in Seq(Kinds) /\ Len(one) = 1 /\ one[1] = ev
  BY DEF Kinds
<1> HIDE DEF one
<1>2. /\ n \in Nat /\ Len(new) = n + Len(one)
      /\ \A i \in 1 .. n + Len(one) : new[i] = IF i <= n THEN q[i] ELSE one[i - n]
  BY <1>1, ConcatProperties, LenProperties
<1>3. PICK f \in [0 .. n -> Amounts] : Pending(q, n) /\ Grows(f, q, n, got, all)
  BY DEF Coming
<1> HIDE DEF new, n
<1>4. Len(new) = n + 1 /\ new[n + 1] = ev /\ \A i \in 1 .. n : new[i] = q[i]
  BY <1>1, <1>2
<1> DEFINE g == [i \in 0 .. n + 1 |-> IF i <= n THEN f[i] ELSE After(ev, all)]
<1>5. After(ev, all) \in Amounts
  BY DEF After, Amounts
<1>6. g \in [0 .. n + 1 -> Amounts]
  <2>1. \A i \in 0 .. n + 1 : i <= n => i \in 0 .. n
    BY <1>2
  <2> QED
    BY <1>5, <2>1
<1>7. /\ g[0] = f[0] /\ g[n + 1] = After(ev, all) /\ g[n] = f[n]
  <2>1. 0 \in 0 .. n + 1 /\ n + 1 \in 0 .. n + 1 /\ n \in 0 .. n + 1 /\ 0 <= n /\ ~(n + 1 <= n)
    BY <1>2
  <2> QED
    BY <2>1
<1>8. ASSUME NEW i \in 1 .. n PROVE g[i] = f[i] /\ g[i - 1] = f[i - 1]
  <2>1. i \in 0 .. n + 1 /\ i - 1 \in 0 .. n + 1 /\ i <= n /\ i - 1 <= n
    BY <1>2
  <2> QED
    BY <2>1
<1> HIDE DEF g
<1>9. ASSUME NEW i \in 1 .. n + 1 PROVE g[i] = After(new[i], g[i - 1]) /\ new[i] \in Going
  <2>1. CASE i \in 1 .. n
    BY <1>3, <1>4, <1>8, <2>1 DEF Grows, Pending
  <2>2. CASE i = n + 1
    <3>1. i - 1 = n
      BY <1>2, <2>2
    <3> QED
      BY <1>3, <1>4, <1>7, <2>2, <3>1 DEF Grows, Going
  <2> QED
    BY <1>2, <2>1, <2>2
<1>10. Pending(new, n + 1) /\ Grows(g, new, n + 1, got, After(ev, all))
  BY <1>3, <1>7, <1>9 DEF Pending, Grows
<1> QED
  BY <1>4, <1>6, <1>10 DEF Coming, new, one

\* The end is on its way.
LEMMA EndingComes ==
  ASSUME NEW q \in Seq(Kinds), NEW got, NEW all, NEW ms, Coming(q, Len(q), got, all)
  PROVE  Ending(q \o <<"done", "end">>, ms, got, all)
<1> DEFINE two == <<"done", "end">>
           new == q \o two
           n == Len(q)
<1>1. two \in Seq(Kinds) /\ Len(two) = 2 /\ two[1] = "done" /\ two[2] = "end"
  BY DEF Kinds
<1> HIDE DEF two
<1>2. /\ n \in Nat /\ Len(new) = n + Len(two)
      /\ \A i \in 1 .. n + Len(two) : new[i] = IF i <= n THEN q[i] ELSE two[i - n]
  BY <1>1, ConcatProperties, LenProperties
<1>3. PICK f \in [0 .. n -> Amounts] : Pending(q, n) /\ Grows(f, q, n, got, all)
  BY DEF Coming
<1> HIDE DEF new, n
<1>4. /\ Len(new) = n + 2 /\ new[n + 1] = "done" /\ new[n + 2] = "end"
      /\ \A i \in 1 .. n : new[i] = q[i]
  BY <1>1, <1>2
<1>5. (n + 2) - 2 = n /\ (n + 2) - 1 = n + 1 /\ n + 2 >= 2
  BY <1>2
<1>6. Pending(new, n) /\ Grows(f, new, n, got, all)
  BY <1>3, <1>4 DEF Pending, Grows
<1>7. Coming(new, n, got, all)
  BY <1>6 DEF Coming
<1> QED
  BY <1>4, <1>5, <1>7 DEF Ending, new, two

\* The turn that streams takes a step.
LEMMA ScreenTurn ==
  ASSUME ScreenInv, IInv', NEW c \in Calls,
         \/ SavePrompt(c) \/ WriteDelta(c) \/ WriteTool(c) \/ SaveAnswer(c)
         \/ FailTurn(c) \/ CancelTurn(c)
  PROVE  ScreenInv'
<1> DEFINE T == transcript
           U == transcript'
           w == Made[c]
<1>1. /\ Types /\ OneCall /\ StillListening /\ ScreenTypes
      /\ InPlace(T, turn, Made) /\ Once(T) /\ PromptLast(T, turn, home) /\ Flow
  BY DEF ScreenInv, IInv, Stored
<1>2. Running(c) /\ UNCHANGED <<screen, call, response>>
  BY DEF SavePrompt, WriteDelta, WriteTool, SaveAnswer, FailTurn, CancelTurn, Running
<1>3. pc[c] = "stream" /\ \A d \in Calls : turn[d] = "saved" => d = c
  BY <1>1, <1>2 DEF OneCall, StillListening, Running, Busy
<1>4. Connected(c)
  BY <1>1, <1>2, <1>3 DEF StillListening, Connected, Contains, Going
<1>5. UNCHANGED <<messages, sessionId, target, newSessionId, buffer, chips, Got>>
  BY <1>2 DEF screen, call, Got
<1>6. /\ events[c] \in Seq(Kinds) /\ w \in Amounts /\ Got[c] \in Amounts
      /\ T \in [Sessions -> Seq(Texts)]
  BY <1>1, AmountTypes DEF Types, ScreenTypes
<1>7. /\ turn[c] = "posted" => Got[c] = Nothing /\ w = Nothing /\ events[c] = <<>>
      /\ turn[c] = "saved" => Coming(events[c], Len(events[c]), Got[c], w)
  BY <1>1, <1>3 DEF Flow
<1>8. ~ Answered(T, c)
  BY <1>1, <1>2 DEF Answered, InPlace, Running
<1>9. ASSUME NEW s \in Sessions, NEW i \in 1 .. Len(T[s])
      PROVE  T[s][i] \in Texts /\ T[s][i].call \in Calls
  <2>1. T[s] \in Seq(Texts)
    BY <1>6
  <2>2. T[s][i] \in Texts
    BY <2>1, ElementOfSeq
  <2> QED
    BY <2>2 DEF Texts
<1>10. ASSUME NEW evs, Stream(c, evs)
       PROVE  events'[c] = events[c] \o evs /\ \A d \in Calls \ {c} : UNCHANGED events[d]
  BY <1>1, <1>4, <1>10 DEF Stream, Types
<1> HIDE DEF U
<1>11. CASE SavePrompt(c)
  <2>1. PICK s \in Sessions :
          home' = [home EXCEPT ![c] = s] /\ U = [T EXCEPT ![s] = Append(T[s], Prompt(c))]
    <3>1. Unused # {} => FreshId \in Sessions
      BY DEF FreshId, Unused
    <3>2. target[c] = NoSession \/ target[c] \in Sessions
      BY <1>1 DEF ScreenTypes, Ids
    <3> QED
      BY <1>11, <3>1, <3>2 DEF SavePrompt, U
  <2>2. /\ turn[c] = "posted" /\ turn' = [turn EXCEPT ![c] = "saved"]
        /\ UNCHANGED <<written, used, Made>> /\ Stream(c, <<"session">>)
    BY <1>11 DEF SavePrompt, Made
  <2>3. turn'[c] = "saved" /\ \A d \in Calls \ {c} : turn'[d] = turn[d]
    BY <1>1, <2>2 DEF Types
  <2>4. Prompt(c) \in Texts
    BY DEF Prompt, Texts
  <2>5. /\ U \in [Sessions -> Seq(Texts)] /\ Len(T[s]) \in Nat
        /\ Len(U[s]) = Len(T[s]) + 1 /\ U[s][Len(U[s])] = Prompt(c)
        /\ \A r \in Sessions : \A i \in 1 .. Len(T[r]) : i \in 1 .. Len(U[r]) /\ U[r][i] = T[r][i]
        /\ \A r \in Sessions : \A i \in 1 .. Len(U[r]) :
             \/ i \in 1 .. Len(T[r]) /\ U[r][i] = T[r][i]
             \/ r = s /\ i = Len(T[s]) + 1 /\ U[r][i] = Prompt(c)
    BY <1>6, <2>1, <2>4, TextAdded
  <2>6. InPlace(U, turn', Made')
    <3>1. SUFFICES ASSUME NEW r \in Sessions, NEW i \in 1 .. Len(U[r]), NEW t, t = U[r][i]
          PROVE  /\ turn'[t.call] \in {"saved", "over"}
                 /\ t.role = "user" => t = Prompt(t.call)
                 /\ t.role = "assistant" =>
                      /\ i > 1 /\ U[r][i - 1] = Prompt(t.call)
                      /\ <<t.length, t.tools>> = Made'[t.call] /\ turn'[t.call] = "over"
      BY DEF InPlace
    <3>2. CASE i \in 1 .. Len(T[r]) /\ U[r][i] = T[r][i]
      <4>1. /\ t.call \in Calls /\ turn[t.call] \in {"saved", "over"}
            /\ t.role = "user" => t = Prompt(t.call)
            /\ t.role = "assistant" =>
                 /\ i > 1 /\ T[r][i - 1] = Prompt(t.call)
                 /\ <<t.length, t.tools>> = Made[t.call] /\ turn[t.call] = "over"
        BY <1>1, <1>9, <3>1, <3>2 DEF InPlace
      <4>2. t.call # c
        BY <2>2, <4>1
      <4>3. i > 1 => i - 1 \in 1 .. Len(T[r])
        <5>1. Len(T[r]) \in Nat
          BY <1>6, LenProperties
        <5> QED
          BY <3>2, <5>1
      <4> QED
        BY <2>2, <2>3, <2>5, <4>1, <4>2, <4>3
    <3>3. CASE U[r][i] = Prompt(c)
      BY <2>3, <3>1, <3>3 DEF Prompt
    <3> QED
      BY <2>5, <3>2, <3>3
  <2>7. \A r \in Sessions : \A i \in 1 .. Len(T[r]) : T[r][i] # Prompt(c)
    <3>1. Prompt(c).call = c
      BY DEF Prompt
    <3> QED
      BY <1>1, <2>2, <3>1 DEF InPlace
  <2>8. Once(U)
    <3>1. SUFFICES ASSUME NEW r \in Sessions, NEW o \in Sessions,
                          NEW i \in 1 .. Len(U[r]), NEW j \in 1 .. Len(U[o]),
                          U[r][i].role = "user", U[r][i] = U[o][j]
                   PROVE  r = o /\ i = j
      BY DEF Once
    <3>2. \/ i \in 1 .. Len(T[r]) /\ U[r][i] = T[r][i]
          \/ r = s /\ i = Len(T[s]) + 1 /\ U[r][i] = Prompt(c)
      BY <2>5
    <3>3. \/ j \in 1 .. Len(T[o]) /\ U[o][j] = T[o][j]
          \/ o = s /\ j = Len(T[s]) + 1 /\ U[o][j] = Prompt(c)
      BY <2>5
    <3> HIDE DEF T
    <3> QED
      BY <1>1, <2>7, <3>1, <3>2, <3>3 DEF Once
  <2>9. PromptLast(U, turn', home')
    <3>1. home'[c] = s
      BY <1>1, <2>1 DEF ScreenTypes
    <3>2. Len(U[s]) > 0
      BY <2>5
    <3>3. \A d \in Calls : turn'[d] = "saved" => d = c
      BY <1>3, <2>3
    <3> QED
      BY <2>5, <3>1, <3>2, <3>3 DEF PromptLast
  <2>10. \A d \in Calls : Answered(U, d) => Answered(T, d)
    <3>1. Prompt(c).role = "user"
      BY DEF Prompt
    <3> QED
      BY <2>5, <3>1 DEF Answered
  <2>11. ScreenTypes'
    BY <1>1, <1>2, <1>5, <2>1, <2>2, <2>5 DEF ScreenTypes, Ids, U
  <2>12. Coming(events'[c], Len(events'[c]), Got[c], Made'[c])
    <3> DEFINE one == <<"session">>
    <3>1. one \in Seq(Kinds) /\ Len(one) = 1 /\ one[1] = "session"
      BY DEF Kinds
    <3>2. events'[c] = <<>> \o one
      BY <1>7, <1>10, <2>2
    <3> HIDE DEF one
    <3>3. <<>> \o one = one
      BY <3>1, ConcatEmptySeq
    <3>4. Coming(one, 1, Nothing, Nothing)
      <4> DEFINE f == [i \in 0 .. 1 |-> Nothing]
      <4>1. \A i \in 1 .. 1 : i = 1 /\ i - 1 = 0
        OBVIOUS
      <4>2. f \in [0 .. 1 -> Amounts] /\ f[0] = Nothing /\ f[1] = Nothing
        BY DEF Amounts, Nothing
      <4> HIDE DEF f
      <4>3. After("session", Nothing) = Nothing
        BY DEF After
      <4>4. Grows(f, one, 1, Nothing, Nothing)
        BY <3>1, <4>1, <4>2, <4>3 DEF Grows
      <4>5. Pending(one, 1)
        BY <3>1, <4>1 DEF Pending, Going
      <4> QED
        BY <4>2, <4>4, <4>5 DEF Coming
    <3> QED
      BY <1>7, <2>2, <3>1, <3>2, <3>3, <3>4
  <2> HIDE DEF T
  <2>13. \A d \in Calls \ {c} : UNCHANGED <<turn[d], Made[d], events[d]>>
    BY <1>10, <2>2, <2>3
  <2> QED
    BY <1>2, <1>3, <1>8, <2>3, <2>6, <2>8, <2>9, <2>10, <2>11, <2>12, <2>13, ScreenServed
       DEF Stored, T, U
<1>12. ASSUME UNCHANGED <<home, transcript>>, turn[c] = "posted" \/ turn[c] = "saved",
              NEW x \in {"saved", "over"}, turn' = [turn EXCEPT ![c] = x],
              x = "saved" => turn[c] = "saved",
              NEW v \in Amounts, Made' = [Made EXCEPT ![c] = v],
              written' \in [Calls -> Nat], used' \in [Calls -> Nat]
       PROVE  /\ ScreenTypes' /\ Stored(transcript', turn', home', Made')
              /\ turn'[c] = x /\ Made'[c] = v /\ ~ Answered(U, c)
              /\ \A d \in Calls \ {c} : UNCHANGED <<turn[d], Made[d]>>
                                        /\ (Answered(U, d) => Answered(T, d))
  <2>1. turn'[c] = x /\ \A d \in Calls \ {c} : turn'[d] = turn[d]
    BY <1>1, <1>12 DEF Types
  <2>2. Made'[c] = v /\ \A d \in Calls \ {c} : Made'[d] = Made[d]
    BY <1>1, <1>12, AmountTypes
  <2>3. ScreenTypes'
    BY <1>1, <1>2, <1>5, <1>12 DEF ScreenTypes
  <2>4. U = T
    BY <1>12 DEF U
  <2>5. InPlace(T, turn', Made')
    <3>1. SUFFICES ASSUME NEW r \in Sessions, NEW i \in 1 .. Len(T[r]), NEW t, t = T[r][i]
          PROVE  /\ turn'[t.call] \in {"saved", "over"}
                 /\ t.role = "user" => t = Prompt(t.call)
                 /\ t.role = "assistant" =>
                      /\ i > 1 /\ T[r][i - 1] = Prompt(t.call)
                      /\ <<t.length, t.tools>> = Made'[t.call] /\ turn'[t.call] = "over"
      BY DEF InPlace
    <3>2. /\ t.call \in Calls /\ turn[t.call] \in {"saved", "over"}
          /\ t.role = "user" => t = Prompt(t.call)
          /\ t.role = "assistant" =>
               /\ i > 1 /\ T[r][i - 1] = Prompt(t.call)
               /\ <<t.length, t.tools>> = Made[t.call] /\ turn[t.call] = "over"
      BY <1>1, <1>9, <3>1 DEF InPlace
    <3>3. CASE t.call = c
      BY <1>12, <2>1, <3>2, <3>3
    <3>4. CASE t.call # c
      BY <2>1, <2>2, <3>2, <3>4
    <3> QED
      BY <3>3, <3>4
  <2>6. PromptLast(T, turn', home')
    BY <1>1, <1>12, <2>1 DEF PromptLast
  <2> HIDE DEF T, Answered
  <2> QED
    BY <1>1, <1>8, <1>12, <2>1, <2>2, <2>3, <2>4, <2>5, <2>6 DEF Stored, T
<1>13. CASE WriteDelta(c) \/ WriteTool(c)
  <2>1. PICK ev \in {"delta", "tool"} :
          /\ Stream(c, <<ev>>) /\ turn[c] = "saved" /\ UNCHANGED <<turn, home, transcript>>
          /\ written' = [written EXCEPT ![c] = After(ev, w)[1]]
          /\ used' = [used EXCEPT ![c] = After(ev, w)[2]]
    <3>1. w = <<written[c], used[c]>>
      BY DEF Made
    <3>2. CASE WriteDelta(c)
      <4>1. After("delta", w) = <<written[c] + 1, used[c]>>
        BY <3>1 DEF After
      <4>2. used' = [used EXCEPT ![c] = used[c]]
        BY <1>1, <3>2 DEF WriteDelta, ScreenTypes
      <4>3. After("delta", w)[1] = written[c] + 1 /\ After("delta", w)[2] = used[c]
        BY <4>1
      <4>4. /\ Stream(c, <<"delta">>) /\ turn[c] = "saved" /\ UNCHANGED <<turn, home, transcript>>
            /\ written' = [written EXCEPT ![c] = After("delta", w)[1]]
            /\ used' = [used EXCEPT ![c] = After("delta", w)[2]]
        BY <3>2, <4>2, <4>3 DEF WriteDelta
      <4> QED
        BY <4>4
    <3>3. CASE WriteTool(c)
      <4>1. After("tool", w) = <<written[c], used[c] + 1>>
        BY <3>1 DEF After
      <4>2. written' = [written EXCEPT ![c] = written[c]]
        BY <1>1, <3>3 DEF WriteTool, ScreenTypes
      <4>3. After("tool", w)[1] = written[c] /\ After("tool", w)[2] = used[c] + 1
        BY <4>1
      <4>4. /\ Stream(c, <<"tool">>) /\ turn[c] = "saved" /\ UNCHANGED <<turn, home, transcript>>
            /\ written' = [written EXCEPT ![c] = After("tool", w)[1]]
            /\ used' = [used EXCEPT ![c] = After("tool", w)[2]]
        BY <3>3, <4>2, <4>3 DEF WriteTool
      <4> QED
        BY <4>4
    <3> QED
      BY <1>13, <3>2, <3>3
  <2> DEFINE more == After(ev, w)
  <2>2. turn' = [turn EXCEPT ![c] = "saved"]
    BY <1>1, <2>1 DEF Types
  <2>3. more \in Amounts /\ more = <<more[1], more[2]>>
    BY <1>6 DEF After, Amounts
  <2>4. written' \in [Calls -> Nat] /\ used' \in [Calls -> Nat] /\ Made' = [Made EXCEPT ![c] = more]
    <3>1. more[1] \in Nat /\ more[2] \in Nat
      BY <2>3 DEF Amounts
    <3>2. /\ written' = [written EXCEPT ![c] = more[1]] /\ used' = [used EXCEPT ![c] = more[2]]
      BY <2>1
    <3> HIDE DEF more
    <3> QED
      BY <1>1, <2>3, <3>1, <3>2 DEF ScreenTypes, Made
  <2>5. Coming(events'[c], Len(events'[c]), Got[c], more)
    <3>1. events'[c] = events[c] \o <<ev>>
      BY <1>10, <2>1
    <3> HIDE DEF w
    <3> QED
      BY <1>6, <1>7, <2>1, <3>1, ComingMore
  <2> HIDE DEF w, T, Answered, Coming, more
  <2>6. /\ ScreenTypes' /\ Stored(transcript', turn', home', Made')
        /\ turn'[c] = "saved" /\ Made'[c] = more /\ ~ Answered(U, c)
        /\ \A d \in Calls \ {c} : UNCHANGED <<turn[d], Made[d]>>
                                  /\ (Answered(U, d) => Answered(T, d))
    BY <1>12, <2>1, <2>2, <2>3, <2>4
  <2>7. \A d \in Calls \ {c} : UNCHANGED events[d]
    BY <1>10, <2>1
  <2> QED
    BY <1>2, <1>3, <2>5, <2>6, <2>7, ScreenServed DEF T, U
<1>14. CASE FailTurn(c) \/ CancelTurn(c)
  <2>1. /\ turn[c] = "posted" \/ turn[c] = "saved"
        /\ UNCHANGED <<written, used, Made, home, transcript>>
        /\ Stream(c, <<"refused">>) \/ Stream(c, <<"error">>) \/ events' = events
    BY <1>4, <1>14 DEF FailTurn, CancelTurn, Made
  <2>2. turn' = [turn EXCEPT ![c] = "over"]
    BY <1>14 DEF FailTurn, CancelTurn
  <2>3. /\ Made' = [Made EXCEPT ![c] = w]
        /\ written' \in [Calls -> Nat] /\ used' \in [Calls -> Nat]
    BY <1>1, <2>1, AmountTypes DEF ScreenTypes
  <2> HIDE DEF w, T, Answered
  <2>4. /\ ScreenTypes' /\ Stored(transcript', turn', home', Made')
        /\ turn'[c] = "over" /\ Made'[c] = w /\ ~ Answered(U, c)
        /\ \A d \in Calls \ {c} : UNCHANGED <<turn[d], Made[d]>>
                                  /\ (Answered(U, d) => Answered(T, d))
    BY <1>6, <1>12, <2>1, <2>2, <2>3
  <2>5. \A d \in Calls \ {c} : UNCHANGED events[d]
    BY <1>10, <2>1
  <2> QED
    BY <1>2, <1>3, <2>4, <2>5, ScreenServed DEF T, U
<1>15. CASE SaveAnswer(c)
  <2> DEFINE s == home[c]
             x == Answer(c, written[c], used[c])
  <2>1. /\ turn[c] = "saved" /\ turn' = [turn EXCEPT ![c] = "over"]
        /\ U = [T EXCEPT ![s] = Append(T[s], x)]
        /\ UNCHANGED <<written, used, Made, home>> /\ Stream(c, <<"done", "end">>)
    BY <1>15 DEF SaveAnswer, U, Made
  <2>2. s \in Sessions /\ Len(T[s]) > 0 /\ T[s][Len(T[s])] = Prompt(c)
    BY <1>1, <2>1 DEF PromptLast
  <2>3. turn'[c] = "over" /\ \A d \in Calls \ {c} : turn'[d] = turn[d]
    BY <1>1, <2>1 DEF Types
  <2>4. x \in Texts /\ x.role = "assistant" /\ x.call = c /\ <<x.length, x.tools>> = w
    BY <1>1 DEF Answer, Texts, ScreenTypes, Made
  <2> HIDE DEF x, s
  <2>5. /\ U \in [Sessions -> Seq(Texts)] /\ Len(T[s]) \in Nat
        /\ \A r \in Sessions : \A i \in 1 .. Len(T[r]) : i \in 1 .. Len(U[r]) /\ U[r][i] = T[r][i]
        /\ \A r \in Sessions : \A i \in 1 .. Len(U[r]) :
             \/ i \in 1 .. Len(T[r]) /\ U[r][i] = T[r][i]
             \/ r = s /\ i = Len(T[s]) + 1 /\ U[r][i] = x
    BY <1>6, <2>1, <2>2, <2>4, TextAdded
  <2>6. InPlace(U, turn', Made')
    <3>1. SUFFICES ASSUME NEW r \in Sessions, NEW i \in 1 .. Len(U[r]), NEW t, t = U[r][i]
          PROVE  /\ turn'[t.call] \in {"saved", "over"}
                 /\ t.role = "user" => t = Prompt(t.call)
                 /\ t.role = "assistant" =>
                      /\ i > 1 /\ U[r][i - 1] = Prompt(t.call)
                      /\ <<t.length, t.tools>> = Made'[t.call] /\ turn'[t.call] = "over"
      BY DEF InPlace
    <3>2. CASE i \in 1 .. Len(T[r]) /\ U[r][i] = T[r][i]
      <4>1. /\ t.call \in Calls /\ turn[t.call] \in {"saved", "over"}
            /\ t.role = "user" => t = Prompt(t.call)
            /\ t.role = "assistant" =>
                 /\ i > 1 /\ T[r][i - 1] = Prompt(t.call)
                 /\ <<t.length, t.tools>> = Made[t.call] /\ turn[t.call] = "over"
        BY <1>1, <1>9, <3>1, <3>2 DEF InPlace
      <4>2. i > 1 => i - 1 \in 1 .. Len(T[r])
        <5>1. Len(T[r]) \in Nat
          BY <1>6, LenProperties
        <5> QED
          BY <3>2, <5>1
      <4>3. turn'[t.call] \in {"saved", "over"} /\ (turn[t.call] = "over" => turn'[t.call] = "over")
        BY <2>3, <4>1
      <4> QED
        BY <2>1, <2>5, <4>1, <4>2, <4>3
    <3>3. CASE r = s /\ i = Len(T[s]) + 1 /\ U[r][i] = x
      <4>1. i > 1 /\ i - 1 = Len(T[s]) /\ Len(T[s]) \in 1 .. Len(T[s])
        BY <2>2, <2>5, <3>3
      <4>2. U[r][i - 1] = Prompt(c)
        BY <2>2, <2>5, <3>3, <4>1
      <4> QED
        BY <2>1, <2>3, <2>4, <3>1, <3>3, <4>1, <4>2
    <3> QED
      BY <2>5, <3>2, <3>3
  <2>7. Once(U)
    <3>1. SUFFICES ASSUME NEW r \in Sessions, NEW o \in Sessions,
                          NEW i \in 1 .. Len(U[r]), NEW j \in 1 .. Len(U[o]),
                          U[r][i].role = "user", U[r][i] = U[o][j]
                   PROVE  r = o /\ i = j
      BY DEF Once
    <3>2. i \in 1 .. Len(T[r]) /\ U[r][i] = T[r][i]
      BY <2>4, <2>5, <3>1
    <3>3. j \in 1 .. Len(T[o]) /\ U[o][j] = T[o][j]
      BY <2>4, <2>5, <3>1
    <3>4. T[r][i].role = "user" /\ T[r][i] = T[o][j]
      BY <3>1, <3>2, <3>3
    <3>5. Once(T)
      BY <1>1
    <3> HIDE DEF T
    <3> QED
      BY <3>2, <3>3, <3>4, <3>5 DEF Once
  <2>8. PromptLast(U, turn', home')
    BY <1>3, <2>3 DEF PromptLast
  <2>9. \A d \in Calls \ {c} : Answered(U, d) => Answered(T, d)
    BY <2>4, <2>5 DEF Answered
  <2>10. ScreenTypes'
    BY <1>1, <1>2, <1>5, <2>1, <2>5 DEF ScreenTypes, U
  <2>11. Ending(events'[c], messages, Got[c], Made'[c])
    <3>1. events'[c] = events[c] \o <<"done", "end">>
      BY <1>10, <2>1
    <3> QED
      BY <1>6, <1>7, <2>1, <3>1, EndingComes
  <2> HIDE DEF T, Answered
  <2>12. \A d \in Calls \ {c} : UNCHANGED <<turn[d], Made[d], events[d]>>
    BY <1>10, <2>1, <2>3
  <2> QED
    BY <1>2, <1>3, <2>3, <2>6, <2>7, <2>8, <2>9, <2>10, <2>11, <2>12, ScreenServed
       DEF Stored, T, U
<1> QED
  BY <1>11, <1>13, <1>14, <1>15
-----------------------------------------------------------------------------
\* Every step keeps the invariant.
LEMMA StepScreenInv == Careful /\ ScreenInv /\ [Next]_vars => ScreenInv'
<1> SUFFICES ASSUME Careful, ScreenInv, [Next]_vars PROVE ScreenInv'
  OBVIOUS
<1>1. IInv'
  BY StepIInv DEF ScreenInv
<1>2. CASE Next
  <2>1. ASSUME NEW c \in Calls, Cut(c) PROVE FALSE
    BY <2>1 DEF Careful, Cut
  <2>2. ASSUME NEW c \in Calls, React(c) \/ Serve(c) \/ WriteDelta(c) \/ WriteTool(c) \/ FailTurn(c)
        PROVE  ScreenInv'
    BY <1>1, <2>2, ScreenOpen, ScreenReceive, ScreenTurn DEF React, Serve
  <2> QED
    BY <1>1, <1>2, <2>1, <2>2, ScreenUser DEF Next
<1>3. CASE UNCHANGED vars
  <2>1. UNCHANGED <<sessionId, messages, pc, target, newSessionId, buffer, chips, Got, events,
                    response, turn, home, written, used, Made, transcript>>
    BY <1>3 DEF vars, screen, call, backend, Got, Made
  <2>2. ScreenTypes' /\ Stored(transcript', turn', home', Made')
        /\ Shows(messages', pc', turn', Made', transcript')
    BY <2>1 DEF ScreenInv, ScreenTypes
  <2>3. Loaded' /\ Opening' /\ Streaming' /\ Flow'
    BY <2>1 DEF ScreenInv, Loaded, Opening, Streaming, Flow
  <2> QED
    BY <1>1, <2>2, <2>3 DEF ScreenInv
<1> QED
  BY <1>2, <1>3

\* What the invariant says of the screen contains the two properties.
LEMMA ScreenInvSuffices ==
  ASSUME Careful => ScreenInv PROVE AnswersUnderPrompts /\ FinishedTurnsAreWhole
<1>1. AnswersUnderPrompts
  BY DEF ScreenInv, Shows, Under, AnswersUnderPrompts
<1>2. FinishedTurnsAreWhole
  <2>1. SUFFICES ASSUME Careful, NEW i \in 1 .. Len(messages), NEW c, c = messages[i].text.call,
                        messages[i].role = "user", ~sending, NEW s \in Sessions,
                        Contains(transcript[s], Answer(c, written[c], used[c]))
                 PROVE  Below(messages, i, c, <<written[c], used[c]>>)
                          \/ Gone(messages, i, c, <<written[c], used[c]>>)
    BY DEF FinishedTurnsAreWhole, Below, Gone
  <2>2. ScreenInv /\ messages \in Seq(Bubbles)
    BY <2>1 DEF ScreenInv, ScreenTypes
  <2>3. c \in Calls
    BY <2>1, <2>2, BubbleFields
  <2>4. pc[c] # "stream"
    BY <2>1, <2>2, <2>3 DEF ScreenInv, IInv, OneCall, Busy
  <2>5. Answered(transcript, c)
    <3>1. Answer(c, written[c], used[c]).role = "assistant"
          /\ Answer(c, written[c], used[c]).call = c
      BY DEF Answer
    <3> QED
      BY <2>1, <3>1 DEF Contains, Answered
  <2>6. Whole(messages, pc, Made, transcript) /\ Made[c] = <<written[c], used[c]>>
    BY <2>2, <2>3 DEF ScreenInv, Shows, Made
  <2> HIDE DEF Answered
  <2> QED
    BY <2>1, <2>4, <2>5, <2>6 DEF Whole
<1> QED
  BY <1>1, <1>2

\* While the user waits and connections last, every answer on the screen stands
\* directly below the prompt it answers, for any number of calls and chunks.
THEOREM EveryAnswerBelowItsPrompt == Spec => []AnswersUnderPrompts
<1>1. (Careful => ScreenInv) /\ [Next]_vars => (Careful => ScreenInv)'
  BY StepScreenInv, CarefulStays
<1>2. Init => (Careful => ScreenInv)
  BY InitScreenInv
<1>3. (Careful => ScreenInv) => AnswersUnderPrompts
  BY ScreenInvSuffices
<1> QED
  BY <1>1, <1>2, <1>3, PTL DEF Spec

\* Then, too, a turn that ended with done is shown with all its text below its
\* prompt, and with all its tools or, once it was reloaded, none; only a
\* reloaded answer without text is not shown at all.
THEOREM EveryFinishedTurnWhole == Spec => []FinishedTurnsAreWhole
<1>1. (Careful => ScreenInv) /\ [Next]_vars => (Careful => ScreenInv)'
  BY StepScreenInv, CarefulStays
<1>2. Init => (Careful => ScreenInv)
  BY InitScreenInv
<1>3. (Careful => ScreenInv) => FinishedTurnsAreWhole
  BY ScreenInvSuffices
<1> QED
  BY <1>1, <1>2, <1>3, PTL DEF Spec
=============================================================================
