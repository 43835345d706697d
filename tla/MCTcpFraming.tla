---------------------------- MODULE MCTcpFraming ----------------------------
(***************************************************************************)
(* Small instances of TcpFraming for TLC.  The sizes keep the proportions  *)
(* of the code's: frame 5139, segment 2047, splicing buffer 8192, buffer   *)
(* of leftovers 16384, and the last is a multiple of Byte.                 *)
(***************************************************************************)
EXTENDS TcpFraming

\* No data cell holds the check value; some may hold that of a header.
NoChecks == {0, 43571}

\* Behind last_loop_buffer lie zeroes, or what looks like the card's frames.
FramesOutside ==
  {[i \in 1..LAST_BUFFER_SZIE |-> 0],
   [i \in 1..LAST_BUFFER_SZIE |-> Place(i)]}

\* No data cell looks like a header or a check value.
Quiet == {0}
=============================================================================
