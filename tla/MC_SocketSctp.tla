---------------------------- MODULE MC_SocketSctp ----------------------------
(* Model-checking instance of SocketSctp: one configured remote and one   *)
(* client with two association ids, so both can be alive at once, an id  *)
(* freed by one is reused by the other, and its ended association's      *)
(* messages can still be queued when the id comes back.  The locals     *)
(* bind may be given are built from main.cpp's: localhost, the commented- *)
(* out NAT address and ::1 on the S1 port, and the two eNB X2 ports.    *)
EXTENDS SocketSctp, SctpAddrs

CONSTANTS r1, c1, a1, a2

MCConfigRemotes == {r1}
MCClients == {c1}
MCAssocs == {a1, a2}

MCTexts == {"127.0.0.1", "10.0.2.15", "::1", "::ffff:127.0.0.1", "::ffff:10.0.2.15"}
MCPtonFamily == [t \in MCTexts |-> IF t \in {"127.0.0.1", "10.0.2.15"}
                                      THEN "AF_INET" ELSE "AF_INET6"]
MCTextLen == ("127.0.0.1" :> 9) @@ ("10.0.2.15" :> 9) @@ ("::1" :> 3)
                @@ ("::ffff:127.0.0.1" :> 16) @@ ("::ffff:10.0.2.15" :> 16)
MCCanonical == [t \in MCTexts |-> t]
MCMappedText == ("127.0.0.1" :> "::ffff:127.0.0.1") @@ ("10.0.2.15" :> "::ffff:10.0.2.15")
\* main.cpp's MME list; IPv4, IPv6, IPv4 on one port (strides 16, 28, 16);
\* IPv6 first; and the two eNB ports together, which checkPorts refuses.
MCLocalLists ==
    { <<Literal("127.0.0.1", 36412)>>,
      <<Literal("127.0.0.1", 36412), Literal("::1", 36412), Literal("10.0.2.15", 36412)>>,
      <<Literal("::1", 36412), Literal("127.0.0.1", 36412)>>,
      <<Literal("127.0.0.1", 36422), Literal("127.0.0.1", 36423)>> }

\* The Socket constructor binds the socket; then the handler loop runs and
\* the bound addresses stay as they are.
MCInit == Init /\ Bind

MCNext ==
    \/ Select /\ UNCHANGED addrVars
    \/ Join /\ UNCHANGED addrVars
    \/ \E fd \in DOMAIN hpc : Handler(fd) /\ UNCHANGED addrVars
    \/ \E r \in DOMAIN reests : Reestablish(r) /\ UNCHANGED addrVars
    \/ \E a \in DOMAIN kassoc : (KEstablish(a) \/ KFail(a) \/ KData(a)
                                 \/ KShutdown(a) \/ KLost(a)) /\ UNCHANGED addrVars
    \/ \E c \in Clients : KAccept(c) /\ UNCHANGED addrVars

MCSpec == MCInit /\ [][MCNext]_<<vars, addrVars>> /\ Fairness

=============================================================================
