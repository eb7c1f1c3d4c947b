---------------------------- MODULE MCChatWindow -----------------------------
(* Instances of ChatWindow for TLC. *)
EXTENDS ChatWindow

\* Two nicknames in one chain of two, one of them with a multi-byte character.
MCUsers == {<<1>>, <<2, -3>>}

\* The entries of users take one row, and the others two in a narrow terminal.
MCContent ==
  [type : {"msg", "left"}, user : MCUsers, length : {1}]
    \cup [type : {"other"}, length : {3}]
=============================================================================
