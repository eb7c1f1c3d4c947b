---------------------------- MODULE MCMessageText ----------------------------
(* Instances of MessageText for TLC. *)
EXTENDS MessageText

MCChar == MessageTypes \cup {"a", "n", "[", "]", Space}

MCNick == <<"n">>

\* Lines of up to five characters, with a type, another type or none in front.
MCTexts ==
  {front \o text :
     front \in {<<>>, <<"/msg">>, <<"/nick">>, <<"/quit">>, <<"/log">>},
     text  \in UNION {[1 .. n -> {"a", Space, "[", "]"}] : n \in 0 .. 5}}
=============================================================================
