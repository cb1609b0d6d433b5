---------------------------- MODULE MC_SocketUnix ---------------------------
(* Model-checking instance of SocketUnix: three endpoints.  Endpoint 3   *)
(* has 1 and 2 as configured remotes, endpoint 1 has 2, endpoint 2 none, *)
(* so some paths are known both ways and some one way only.              *)
EXTENDS SocketUnix, TLC

MCConfig == (1 :> {2}) @@ (2 :> {}) @@ (3 :> {1, 2})

\* Two chat lines are enough for a broadcast to meet a closed path and for
\* a path to be learnt from data before its quit_msg.
MCMaxLines == 2
=============================================================================
