---------------------------- MODULE MC_SocketUdp ----------------------------
(* Model-checking instance of SocketUdp: one remote endpoint, 127.0.0.1   *)
(* on the X2 port of main.cpp's predefined configuration.  It is either  *)
(* configured (connect from config.remotes) or only heard from.           *)
EXTENDS SocketUdp

MCText == "127.0.0.1"
MCTexts == {MCText}
MCPtonFamily == MCText :> "AF_INET"
MCTextLen == MCText :> 9
MCCanonical == MCText :> MCText

\* The remote as the configuration names it, and the address its
\* datagrams come from.
MCLiteral == IP!Literal(MCText, 36422)
MCConfig == {MCLiteral}
MCNoConfig == {}
MCSenders == {IP!ToStorage(MCLiteral)}

\* Bound on the tasks the scheduler holds that no peer handle points to.
MaxDetached == 3

DetachedBound == BagCardinality(detached) <= MaxDetached
=============================================================================
