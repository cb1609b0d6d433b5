---------------------------- MODULE MC_SocketTcp ----------------------------
(* Model-checking instance of SocketTcp: two configured remotes and one  *)
(* client, so an outbound and an inbound peer are handled concurrently.   *)
EXTENDS SocketTcp

CONSTANTS a1, a2, c1

MCConfigRemotes == {a1, a2}
MCClients == {c1}
=============================================================================
