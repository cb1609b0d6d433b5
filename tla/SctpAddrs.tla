------------------------------ MODULE SctpAddrs ------------------------------
(***************************************************************************)
(* The address lists of SocketSctp::bind (src/src/SocketSctp.cpp): the     *)
(* one-port check, toSockaddrs (src/src/IPSocket.cpp) packing the locals  *)
(* into the array sctp_bindx takes, and getAddrs                           *)
(* (src/src/SctpGetAddrs.cpp) walking the array sctp_getladdrs returns,   *)
(* as pure operators over IPSocket values.                                 *)
(*                                                                         *)
(* A packed array is a sequence of bytes.  The model keeps, per byte, the  *)
(* native address of the element it belongs to and whether it is the     *)
(* element's first byte: a sockaddr read at any other byte is garbage.    *)
(* sockaddr_in takes 16 bytes, sockaddr_in6 28, sockaddr_storage 128.     *)
(***************************************************************************)
EXTENDS IPSocket, Sequences, FiniteSets

LOCAL INSTANCE SequencesExt

CONSTANTS
    MappedText, \* the text inet_ntop prints for ::ffff:<IPv4 text>
    LocalLists  \* lists of local IPSockets a configuration may give bind

VARIABLES
    locals, \* the list SocketSctp::bind was given
    bound,  \* the addresses sctp_bindx read from toSockaddrs(locals)
    laddrs  \* what getBoundAddresses reported after it

addrVars == <<locals, bound, laddrs>>

ASSUME MappedText \in [{t \in Texts : PtonFamily[t] = "AF_INET"} -> Texts]

\* The family field of bytes that do not start a sockaddr.
NoAddr == [family |-> "none", port |-> 0, bin |-> "none"]

\* chooseSocketFamily: AF_INET6 if any local address is IPv6.
ChooseSocketFamily(ls) ==
    IF \E i \in DOMAIN ls : IsIPv6(ls[i]) THEN "AF_INET6" ELSE "AF_INET"

\* checkPorts: bind throws unless all local addresses share one port.
CheckPorts(ls) == Cardinality({ls[i].port : i \in DOMAIN ls}) <= 1

\* n's bytes, len of them, as they lie in a packed array.
Bytes(n, len) == [k \in 1 .. len |-> [first |-> k = 1, of |-> n]]

\* Mutant: toSockaddrs copies the whole sockaddr_storage of each address.
ToSockaddrsWholeStorage(ls) ==
    FlattenSeq([i \in DOMAIN ls |-> Bytes(ToStorage(ls[i]), 128)])

\* toSockaddrs: each address's sockaddr_storage, sizeofSockaddr() bytes of
\* it, appended in order.
ToSockaddrs(ls) ==
    FlattenSeq([i \in DOMAIN ls |-> Bytes(ToStorage(ls[i]), SizeofSockaddr(ls[i]))])

\* The sockaddr at byte off of buf.
SockaddrAt(buf, off) ==
    IF off <= Len(buf) /\ buf[off].first THEN buf[off].of ELSE NoAddr

\* getAddrs' loop: count times, read the sockaddr at the current byte,
\* then move forward by the size of what was read (sizeofSockaddr of the
\* decoded element; garbage is not AF_INET6, so 16).  sctp_bindx and the
\* kernel's getladdrs walk the same way, by each element's family.
RECURSIVE Walk(_, _, _)
Walk(buf, off, count) ==
    IF count = 0 THEN <<>>
    ELSE LET n == SockaddrAt(buf, off)
         IN  <<n>> \o Walk(buf, off + SizeofSockaddr(n), count - 1)

\* The kernel's copy of a bound address to the user of an AF_INET6 socket
\* (v4mapped, the default, which configureIPv4AddressMapping sets): an
\* IPv4 address comes back as ::ffff:a.b.c.d.
MapV4(n, family) ==
    IF family = "AF_INET6" /\ n.family = "AF_INET"
       THEN [family |-> "AF_INET6", port |-> n.port, bin |-> MappedText[n.bin]]
       ELSE n

\* sctp_getladdrs: the bound addresses, packed as the socket's family
\* presents them.
Getladdrs(addrs, family) ==
    LET ns == [i \in DOMAIN addrs |-> MapV4(addrs[i], family)]
    IN  FlattenSeq([i \in DOMAIN ns |-> Bytes(ns[i], SizeofSockaddr(ns[i]))])

\* getAddrs: IPSocket(sockaddr) of every element of the walk.
GetAddrs(buf, count) ==
    LET ns == Walk(buf, 1, count)
    IN  [i \in DOMAIN ns |-> IF ns[i] = NoAddr THEN NoAddr ELSE FromStorage(ns[i])]

\* SocketSctp::bind, run by the Socket constructor before the socket is
\* used: checkPorts throws on more than one port; sctp_bindx walks the
\* packed array by each element's family, and fails with EINVAL (checkBind
\* throws) on an element it cannot read; then getBoundAddresses.
Bind ==
    /\ locals \in {ls \in LocalLists : CheckPorts(ls)}
    /\ bound = Walk(ToSockaddrs(locals), 1, Len(locals))
    /\ laddrs = IF \E i \in DOMAIN bound : bound[i] = NoAddr THEN <<>>
                ELSE GetAddrs(Getladdrs(bound, ChooseSocketFamily(locals)), Len(bound))

-----------------------------------------------------------------------------

\* SocketSctp::bind: the socket is bound to exactly the configured locals,
\* in order, and getBoundAddresses, walking the array sctp_getladdrs
\* returns with the stride of each element it decoded, reports each of
\* them as that address converts alone (an IPv4 one mapped when
\* chooseSocketFamily made the socket IPv6).
BoundAddressesReported ==
    /\ bound = [i \in DOMAIN locals |-> ToStorage(locals[i])]
    /\ laddrs = [i \in DOMAIN locals |->
                   FromStorage(MapV4(ToStorage(locals[i]), ChooseSocketFamily(locals)))]

=============================================================================
