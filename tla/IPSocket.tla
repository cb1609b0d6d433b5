------------------------------ MODULE IPSocket ------------------------------
(***************************************************************************)
(* The address value IPSocket (src/src/IPSocket.cpp) and its conversions   *)
(* to and from the native socket address, as pure operators.               *)
(*                                                                         *)
(* An IPSocket is [addr, port, family].  addr is a std::string; the model  *)
(* keeps what comparisons and c_str() see of it: the printable text and   *)
(* the number of NUL characters after it.  A native address (what          *)
(* sockaddr_storage holds for sendto and what recvfrom fills in) is       *)
(* [family, port in network byte order, bin], bin being the binary        *)
(* address, named by the text inet_ntop prints for it.                     *)
(*                                                                         *)
(* inet_pton and inet_ntop are libc's: which texts inet_pton accepts for  *)
(* which family, and what inet_ntop prints back, are constants.            *)
(***************************************************************************)
EXTENDS Naturals

CONSTANTS
    Texts,      \* address texts the configuration and the kernel produce
    PtonFamily, \* the family inet_pton accepts a text for, or "none"
    TextLen,    \* strlen of each text
    Canonical   \* inet_ntop(inet_pton(text)): the text printed back

ASSUME /\ PtonFamily \in [Texts -> {"AF_INET", "AF_INET6", "none"}]
       /\ TextLen \in [Texts -> Nat]
       /\ Canonical \in [Texts -> Texts]

Families == {"AF_INET", "AF_INET6", "AF_UNIX"}

\* <netinet/in.h>: the buffer sizes inet_ntop is given.
INET_ADDRSTRLEN == 16
INET6_ADDRSTRLEN == 46

\* A std::string holding text t followed by n NUL characters.
Str(t, n) == [text |-> t, nul |-> n]

\* c_str() as inet_pton reads it: up to the first NUL.
CStr(s) == s.text

\* htons / ntohs on a little-endian host: the two bytes of a u16 swap.
ByteSwap16(p) == (p % 256) * 256 + p \div 256

-----------------------------------------------------------------------------

\* detectFamily: AF_INET if inet_pton accepts the text as IPv4, else
\* AF_INET6 if it does as IPv6, else AF_UNIX.
DetectFamily(t) ==
    IF PtonFamily[t] = "AF_INET" THEN "AF_INET"
    ELSE IF PtonFamily[t] = "AF_INET6" THEN "AF_INET6"
    ELSE "AF_UNIX"

\* IPSocket(IP addr, Port port): the literal from the configuration.
Literal(t, p) == [addr |-> Str(t, 0), port |-> p, family |-> DetectFamily(t)]

IsIPv6(s) == s.family = "AF_INET6"

SizeofSockaddr(s) == IF IsIPv6(s) THEN 28 ELSE 16

\* operator sockaddr_storage (RETURN_SOCKADDR_IN): family, htons(port),
\* inet_pton(family, addr.c_str()); the texts here are all accepted for
\* their family, so checkInetpton does not throw.
ToStorage(s) ==
    [family |-> s.family, port |-> ByteSwap16(s.port), bin |-> Canonical[CStr(s.addr)]]

\* IPSocket(const sockaddr_storage&): family, ntohs(port), then
\* addr.resize(INET(6)_ADDRSTRLEN) and inet_ntop into addr.data().  The
\* string keeps its resized length: the text and the NULs after it.
FromStorage(st) ==
    LET len == IF st.family = "AF_INET6" THEN INET6_ADDRSTRLEN ELSE INET_ADDRSTRLEN
    IN  [addr |-> Str(st.bin, len - TextLen[st.bin]), port |-> ByteSwap16(st.port),
         family |-> st.family]

\* Two IPSockets reach the same remote when they convert to the same
\* native address: sendto goes to it.
SameRemote(s1, s2) == ToStorage(s1) = ToStorage(s2)

=============================================================================
