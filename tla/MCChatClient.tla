---------------------------- MODULE MCChatClient ----------------------------
(* Model-checking instance of ChatClient: the users and networks.          *)
EXTENDS ChatClient

CONSTANT FewCalls

\* A user who waits makes all the calls, one who does not a few of them.
MCHabits ==
  {[calls |-> Calls, deltas |-> 2, tools |-> 1, navigates |-> FALSE, loses |-> FALSE],
   [calls |-> FewCalls, deltas |-> 1, tools |-> 1, navigates |-> TRUE, loses |-> TRUE]}
=============================================================================
