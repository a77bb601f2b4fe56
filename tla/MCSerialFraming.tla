--------------------------- MODULE MCSerialFraming ---------------------------
(* Small instances of SerialFraming for TLC. *)
EXTENDS SerialFraming

\* Messages of the shortest length, of one more and of the longest that fits;
\* their contents are lengths too, so that a receiver that is out of step reads
\* short, long and oversized ones.
MCMessages == {<<3, 0, 1>>, <<4, 0, 5, 0>>, <<5, 0, 2, 1, 3>>}
=============================================================================
