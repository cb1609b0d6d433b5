------------------------------- MODULE FDSet -------------------------------
(***************************************************************************)
(* FDSet (src/src/FDSet.cpp), the select() wrapper every selectFds uses:  *)
(* reset(), set(fd) for the socket's own descriptor and each peer's, then *)
(* select(100ms), which returns the ready descriptors in ascending order. *)
(*                                                                         *)
(* select(nfds, ...) examines descriptors 0 .. nfds-1 only and overwrites *)
(* the set with the ready ones; FDSet passes fd_max as nfds and then scans *)
(* 0 .. fd_max-1 for set bits.  The kernel's readiness is an input chosen  *)
(* at each select among the descriptors it examines.  Callers always      *)
(* reset before setting (Socket.cpp 99-104, SocketTcp.cpp 41-49,           *)
(* SocketSctp.cpp 88-96); the model drives FDSet in that order.            *)
(***************************************************************************)
EXTENDS Naturals, Sequences, FiniteSets, SequencesExt

CONSTANTS
    Descriptors   \* descriptor numbers the sockets hold (all < FD_SETSIZE)

ASSUME Descriptors \subseteq Nat

VARIABLES
    fds,       \* the fd_set bits
    fd_max,    \* FDSet::fd_max, passed to select as nfds
    selected,  \* FDSet::selected_fds, the last result
    phase,     \* the caller: "idle" or "setting" (after reset)
    watched,   \* ghost: the descriptors set since the last reset
    ready      \* ghost: the watched descriptors with data at the last select

vars == <<fds, fd_max, selected, phase, watched, ready>>

TypeOK ==
    /\ fds \subseteq Descriptors
    /\ fd_max \in Nat
    /\ selected \in Seq(Descriptors)
    /\ phase \in {"idle", "setting"}
    /\ watched \subseteq Descriptors
    /\ ready \subseteq Descriptors

\* The constructor reserves FD_SETSIZE entries and resets.
Init ==
    /\ fds = {}
    /\ fd_max = 1
    /\ selected = <<>>
    /\ phase = "idle"
    /\ watched = {}
    /\ ready = {}

\* FD_ZERO and fd_max = 1.
Reset ==
    /\ phase = "idle"
    /\ fds' = {}
    /\ fd_max' = 1
    /\ phase' = "setting"
    /\ watched' = {}
    /\ UNCHANGED <<selected, ready>>

\* Mutant: fd_max only follows descriptors above it, so it is the highest
\* descriptor and not one past it.
NextFdMaxNoPlusOne(fd) == IF fd > fd_max THEN fd ELSE fd_max

NextFdMax(fd) == IF fd >= fd_max THEN fd + 1 ELSE fd_max

\* FD_SET(fd) and the fd_max update.
Set(fd) ==
    /\ phase = "setting"
    /\ fds' = fds \cup {fd}
    /\ fd_max' = NextFdMax(fd)
    /\ watched' = watched \cup {fd}
    /\ UNCHANGED <<selected, phase, ready>>

\* Mutant: the scan pushes every descriptor below n, FD_ISSET dropped.
ScanAll(set, n) == [i \in 1 .. n |-> i - 1]

\* The descriptors in 0 .. n-1 whose bit is set, ascending: repeat(fd_max)
\* if (FD_ISSET(i, &fds)) selected_fds.push_back(i).
Scan(set, n) == SelectSeq([i \in 1 .. n |-> i - 1], LAMBDA fd : fd \in set)

\* select: clear the result, call ::select(fd_max, &fds, ...), which leaves
\* only the ready descriptors below nfds in fds and returns their count
\* (0 on timeout), then scan when the count is not 0.
Select ==
    /\ phase = "setting"
    /\ \E data \in SUBSET watched :
          LET r == {fd \in fds \cap data : fd < fd_max}
          IN  /\ fds' = r
              /\ ready' = data
              /\ selected' = IF r # {} THEN Scan(r, fd_max) ELSE <<>>
    /\ phase' = "idle"
    /\ UNCHANGED <<fd_max, watched>>

Next ==
    \/ Reset
    \/ \E fd \in Descriptors : Set(fd)
    \/ Select

Spec == Init /\ [][Next]_vars

-----------------------------------------------------------------------------
(* Properties.                                                             *)

\* The contract receive() relies on: after select, every descriptor a
\* selectFds watched that had data is returned, once each and in ascending
\* order, and nothing else, whichever descriptor numbers were set and in
\* whatever order.  Checked against the sorted set as the reference; it
\* depends on fd_max being one past the highest descriptor set.
SelectReturnsWatchedReady ==
    phase = "idle" => selected = SetToSortSeq(ready, <)

=============================================================================
