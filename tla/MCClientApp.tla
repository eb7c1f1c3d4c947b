----------------------------- MODULE MCClientApp -----------------------------
(* Instances of ClientApp for TLC. *)
EXTENDS ClientApp

\* Reads of one and of two messages, with and without a /quit of the server.
MixedBatches == {<<"log">>, <<"log", "quit">>}
=============================================================================
