--------------------------- MODULE MCMessageBuffer ---------------------------
(* Instances of MessageBuffer for TLC. *)
EXTENDS MessageBuffer

\* Messages of three and five bytes, one of an unknown type and one of each type
\* that the loops tell apart, and records of up to three of them, which may be as
\* long as the buffer or longer.
MCMessages == {<<"/", "t", "0">>, <<"/", "m", "/", "x", "0">>, <<"/", "q", "0">>,
               <<"/", "x", "0">>}

MCRecords ==
  {FlattenSeq(r) : r \in (UNION {[1 .. n -> MCMessages] : n \in 1 .. 2})
                           \cup [1 .. 3 -> {<<"/", "t", "0">>, <<"/", "m", "/", "x", "0">>}]}
=============================================================================
