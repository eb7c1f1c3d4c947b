---------------------------- MODULE MCChatServer ----------------------------
(* Instances of ChatServer for TLC. *)
EXTENDS ChatServer, TLC

\* One read of every kind, and reads that hold two messages.
AllReads ==
  {<<"msg">>, <<"msg", "quit">>, <<"blank", "msg">>, <<"other", "unparsable">>}

NoReads == {}

Symmetry == Permutations(Clients) \cup Permutations(Nicks)
=============================================================================
