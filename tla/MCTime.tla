------------------------------- MODULE MCTime -------------------------------
(* Time for TLC, with words of 4 and 8 bits. *)
EXTENDS Time
=============================================================================
