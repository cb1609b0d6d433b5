----------------------------- MODULE Descriptors -----------------------------
(***************************************************************************)
(* FileDescriptor objects and the FDSet that watches them, composed the   *)
(* way the transports use them.  selectFds (SocketTcp.cpp 41-49,           *)
(* SocketSctp.cpp 88-96, Socket.cpp 99-104) resets the set, sets the      *)
(* number of the socket's own descriptor and of each peer's, and selects. *)
(* The numbers it sets are those of live owning FileDescriptor objects,   *)
(* and it runs under peers_mtx, under which peers (and their descriptors) *)
(* are also created and destroyed: no object is born, moved or destroyed  *)
(* between the reset and the select.                                       *)
(***************************************************************************)
CONSTANTS
    Objects,    \* FileDescriptor objects
    Numbers,    \* descriptor numbers the kernel can hand out (< FD_SETSIZE)
    Invalid,    \* invalid_fd (-1)
    NoClose,    \* no ::close call yet
    InTreeUse   \* only the FileDescriptor calls the transports make

VARIABLES
    obj, kopen, lastClose,                      \* FileDescriptor
    fds, fd_max, selected, phase, watched, ready  \* FDSet and its caller

fdvars == <<obj, kopen, lastClose>>
selvars == <<fds, fd_max, selected, phase, watched, ready>>
vars == <<fdvars, selvars>>

FD == INSTANCE FileDescriptor
Sel == INSTANCE FDSet WITH Descriptors <- Numbers

\* The numbers selectFds can set: the descriptors live owners hold.
Held == {obj[o].fd : o \in {x \in Objects : FD!Live(x) /\ FD!Owning(x)}}

Init == FD!Init /\ Sel!Init

Next ==
    \/ phase = "idle" /\ FD!Next /\ UNCHANGED selvars
    \/ Sel!Reset /\ UNCHANGED fdvars
    \/ \E k \in Held : Sel!Set(k) /\ UNCHANGED fdvars
    \/ Sel!Select /\ UNCHANGED fdvars

Spec == Init /\ [][Next]_vars

-----------------------------------------------------------------------------
(* Properties: those of the two components, checked on the composition.  *)

TypeOK == FD!TypeOK /\ Sel!TypeOK

\* Spec section 9: every open descriptor has exactly one live owner that
\* will close it (FileDescriptor's moves, close and destructor).
OwnershipExact == FD!OwnershipExact

\* receive()'s contract: select returns the watched descriptors with data,
\* ascending, once each (FDSet's fd_max and scan), whatever numbers the
\* kernel handed to the objects and in whatever order they were set.
SelectReturnsWatchedReady == Sel!SelectReturnsWatchedReady

=============================================================================
