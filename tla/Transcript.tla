------------------------------ MODULE Transcript ------------------------------
(***************************************************************************)
(* What the conversation store promises its users, without the Mongo       *)
(* documents, the turns and the two writes of append_message behind it:    *)
(* every conversation has one owner for good, entries are only ever added, *)
(* each in a place of its own, an answer below the prompt it answers, and  *)
(* a hidden conversation stays hidden.                                     *)
(***************************************************************************)
EXTENDS Integers

CONSTANTS Users, Sessions, Turns, NoUser

VARIABLES
  owner,    \* the user a conversation belongs to, NoUser before it exists
  hidden,   \* conversations their owner deleted
  entries   \* [session, turn, role, place] of every message

tvars == <<owner, hidden, entries>>

Entry == [session : Sessions, turn : Turns, role : {"user", "assistant"},
          place : Nat]

Init ==
  /\ owner = [s \in Sessions |-> NoUser]
  /\ hidden = {}
  /\ entries = {}

Open(s, u) ==
  /\ owner[s] = NoUser
  /\ owner' = [owner EXCEPT ![s] = u]
  /\ UNCHANGED <<hidden, entries>>

\* A place is free when no entry of the conversation has it.
Free(s, n) == \A e \in entries : e.session = s => e.place # n

Add(e) ==
  /\ owner[e.session] # NoUser
  /\ Free(e.session, e.place)
  /\ e.role = "assistant" =>
       \E p \in entries : /\ p.role = "user" /\ p.turn = e.turn
                          /\ p.session = e.session /\ p.place < e.place
  /\ entries' = entries \cup {e}
  /\ UNCHANGED <<owner, hidden>>

Hide(s) ==
  /\ owner[s] # NoUser
  /\ hidden' = hidden \cup {s}
  /\ UNCHANGED <<owner, entries>>

Next ==
  \/ \E s \in Sessions, u \in Users : Open(s, u)
  \/ \E e \in entries' : e \in Entry /\ Add(e)
  \/ \E s \in Sessions : Hide(s)

Spec == Init /\ [][Next]_tvars
=============================================================================
