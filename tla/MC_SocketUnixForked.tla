------------------------- MODULE MC_SocketUnixForked -------------------------
(* Model-checking instance of SocketUnixForked: two program starts, so    *)
(* that a second run meets what the first left; three chat lines, one    *)
(* more than two lines' worth of five queue messages each fit in the      *)
(* default mq_maxmsg of 10.                                                *)
EXTENDS SocketUnixForked
=============================================================================
