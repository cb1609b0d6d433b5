--------------------------- MODULE FileDescriptor ---------------------------
(***************************************************************************)
(* The owning descriptor wrapper (src/src/FileDescriptor.cpp): a number   *)
(* and should_close.  The destructor and close() call ::close once when   *)
(* should_close holds and the number is valid, then clear should_close;   *)
(* moves copy the number and clear the source's should_close; the move    *)
(* constructor's own should_close is its default, TRUE; move assignment    *)
(* first closes its current descriptor.                                    *)
(*                                                                         *)
(* A few objects go through construction, moves and destruction against *)
(* the kernel's table of open descriptors, which hands out the lowest    *)
(* free number; no caller uses close() directly.  InTreeUse = TRUE       *)
(* restricts the calls to the ones the transports make: construction     *)
(* from socket/accept4/peeloff, moving an owning object into a Peer or   *)
(* pair, and assigning into a Socket::fd that is still invalid           *)
(* (Socket.cpp 27, SocketUnixForked.cpp 185-187).  FALSE allows every     *)
(* call sequence the class's interface accepts.                           *)
(***************************************************************************)
EXTENDS Naturals, FiniteSets, FiniteSetsExt

CONSTANTS
    Objects,    \* FileDescriptor objects
    Numbers,    \* descriptor numbers the kernel can hand out
    Invalid,    \* invalid_fd (-1)
    NoClose,    \* no ::close call yet
    InTreeUse   \* only the call patterns of the transports

ASSUME InTreeUse \in BOOLEAN

Fd == Numbers \cup {Invalid}
Obj == [st : {"unborn", "live", "dead"}, fd : Fd, sc : BOOLEAN]

VARIABLES
    obj,       \* each object's lifetime state, fd and should_close
    kopen,     \* descriptors open in the kernel
    lastClose  \* ghost: the argument of the last ::close call

vars == <<obj, kopen, lastClose>>

TypeOK ==
    /\ obj \in [Objects -> Obj]
    /\ kopen \subseteq Numbers
    /\ lastClose \in Numbers \cup {NoClose}

Init ==
    /\ obj = [o \in Objects |-> [st |-> "unborn", fd |-> Invalid, sc |-> TRUE]]
    /\ kopen = {}
    /\ lastClose = NoClose

Live(o) == obj[o].st = "live"
Owning(o) == obj[o].sc /\ obj[o].fd # Invalid

\* Mutant: close() calls ::close whenever should_close holds, invalid_fd
\* included.
CloseNoValidCheck(o) ==
    IF obj[o].sc
    THEN /\ kopen' = kopen \ {obj[o].fd}
         /\ lastClose' = obj[o].fd
    ELSE UNCHANGED <<kopen, lastClose>>

\* close(): if (should_close and not(fd == invalid_fd)) ::close(fd) and
\* should_close = false; the number stays.  The obj' part is the caller's.
CloseEffect(o) ==
    IF Owning(o)
    THEN /\ kopen' = kopen \ {obj[o].fd}
         /\ lastClose' = obj[o].fd
    ELSE UNCHANGED <<kopen, lastClose>>

\* FileDescriptor{checkedSocket(socket(...))}: the lowest free number.
Construct(o) ==
    /\ obj[o].st = "unborn"
    /\ Numbers \ kopen # {}
    /\ LET k == Min(Numbers \ kopen)
       IN  /\ kopen' = kopen \cup {k}
           /\ obj' = [obj EXCEPT ![o] = [st |-> "live", fd |-> k, sc |-> TRUE]]
    /\ UNCHANGED lastClose

\* FileDescriptor{} (Socket::fd before creation, SocketUnixForked's pipes).
ConstructInvalid(o) ==
    /\ obj[o].st = "unborn"
    /\ obj' = [obj EXCEPT ![o] = [st |-> "live", fd |-> Invalid, sc |-> TRUE]]
    /\ UNCHANGED <<kopen, lastClose>>

\* Mutant: the move constructor leaves the source's should_close set.
MoveConstructKeepSource(o, src) ==
    /\ obj[o].st = "unborn"
    /\ Live(src)
    /\ InTreeUse => Owning(src)
    /\ obj' = [obj EXCEPT ![o] = [st |-> "live", fd |-> obj[src].fd, sc |-> TRUE]]
    /\ UNCHANGED <<kopen, lastClose>>

\* FileDescriptor(FileDescriptor&& other): fd(move(other.fd)),
\* other.should_close = false.
MoveConstruct(o, src) ==
    /\ obj[o].st = "unborn"
    /\ Live(src)
    /\ InTreeUse => Owning(src)
    /\ obj' = [obj EXCEPT ![o] = [st |-> "live", fd |-> obj[src].fd, sc |-> TRUE],
                          ![src].sc = FALSE]
    /\ UNCHANGED <<kopen, lastClose>>

\* operator=(FileDescriptor&& other): if (this != &other) { close();
\* fd = move(other.fd); other.should_close = false; }
MoveAssign(o, src) ==
    /\ Live(o) /\ Live(src)
    /\ InTreeUse => (obj[o].fd = Invalid /\ Owning(src) /\ o # src)
    /\ IF o # src
       THEN /\ CloseEffect(o)
            /\ obj' = [obj EXCEPT ![o] = [@ EXCEPT !.fd = obj[src].fd,
                                                   !.sc = @ /\ ~Owning(o)],
                                  ![src].sc = FALSE]
       ELSE UNCHANGED <<obj, kopen, lastClose>>

\* ~FileDescriptor: close().
Destroy(o) ==
    /\ Live(o)
    /\ CloseEffect(o)
    /\ obj' = [obj EXCEPT ![o] = [@ EXCEPT !.st = "dead", !.sc = FALSE]]

Next ==
    \E o \in Objects :
        \/ Construct(o) \/ ConstructInvalid(o) \/ Destroy(o)
        \/ \E src \in Objects : MoveConstruct(o, src) \/ MoveAssign(o, src)

Spec == Init /\ [][Next]_vars

-----------------------------------------------------------------------------
(* Properties.                                                             *)

\* Spec section 9 (shared-resource policy): descriptors are never
\* duplicated and ownership moves.  Every descriptor open in the kernel is
\* closed by exactly one live object (no leak, no second close), and no
\* live object will close a number that is not open (the kernel may hand
\* that number to someone else).  Checks the should_close bookkeeping of
\* the moves, close and the destructor over whole object lifetimes.
OwnershipExact ==
    /\ \A k \in kopen : Cardinality({o \in Objects : Live(o) /\ Owning(o) /\ obj[o].fd = k}) = 1
    /\ \A o \in Objects : Live(o) /\ Owning(o) => obj[o].fd \in kopen

=============================================================================
