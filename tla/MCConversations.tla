--------------------------- MODULE MCConversations ---------------------------
(* Model-checking instance of Conversations: sets of model values. *)
EXTENDS Conversations, TLC

\* Requests, users and sessions are interchangeable.
Symmetry == Permutations(Requests) \cup Permutations(Users) \cup Permutations(Sessions)
=============================================================================
