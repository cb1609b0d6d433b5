----------------------------- MODULE SocketUnix -----------------------------
(***************************************************************************)
(* The Unix-domain datagram transport SocketUnix (src/src/SocketUnix.cpp), *)
(* several endpoints (processes) talking to each other.                    *)
(*                                                                         *)
(* Each endpoint autobinds an abstract path and keeps the set of peer     *)
(* paths it knows: the configured remotes (connect), plus every sender of *)
(* a datagram other than quit_msg; a quit_msg from a path erases it.  Its  *)
(* network task loops over receive() (one datagram per cycle, one         *)
(* descriptor) and chatOrQuit(): a chat line is sent to every known path,  *)
(* in std::set order; quit (or the task's lifetime) ends the loop and the *)
(* destructor sends quit_msg to every known path before the descriptor    *)
(* closes.                                                                 *)
(*                                                                         *)
(* sendto a path whose socket has closed fails (ECONNREFUSED).            *)
(* SocketErrorChecks.hpp is not part of the repository; its check*        *)
(* helpers are taken to throw std::runtime_error on failure, as SocketTcp *)
(* relies on for checkedReceive (SocketTcp.cpp 56-64).  A throw in send()  *)
(* unwinds networkTask, whose destructor of the socket broadcasts         *)
(* quit_msg; a throw there, inside a destructor, is std::terminate.       *)
(*                                                                         *)
(* Paths are the naturals 1..N in their std::set order.  The receive      *)
(* queue of an AF_UNIX datagram socket is FIFO and holds                   *)
(* net.unix.max_dgram_qlen (512) datagrams, far above what MaxLines lets  *)
(* the model queue, so sendto to a live endpoint always succeeds.         *)
(***************************************************************************)
EXTENDS Naturals, Sequences, FiniteSets, FiniteSetsExt

CONSTANTS
    N,         \* number of endpoints; endpoint e is bound to path e
    Config,    \* config.remotes of each endpoint
    MaxLines   \* chat lines typed over all endpoints

Endpoints == 1 .. N

ASSUME /\ Config \in [Endpoints -> SUBSET Endpoints]
       /\ \A e \in Endpoints : e \notin Config[e]

Kinds == {"data", "quit"}

\* The source address recvfrom reports for endpoint e: an abstract
\* sockaddr_un, sun_path a NUL byte followed by the autobound name.
SenderAddress(e) == <<0, e>>

Datagram == [from : {SenderAddress(e) : e \in Endpoints}, kind : Kinds]

VARIABLES
    peers,   \* SocketUnix::peers of each endpoint
    inbox,   \* datagrams queued on each endpoint's socket
    pc,      \* "loop", "send" (chat broadcast), "close" (destructor), "gone"
    todo,    \* paths the running broadcast has not reached yet
    lines,   \* chat lines typed so far
    ended,   \* ghost: why the endpoint's task left its loop ("", "quit", "error")
    heard    \* ghost: the senders whose quit_msg each endpoint has handled

vars == <<peers, inbox, pc, todo, lines, ended, heard>>

TypeOK ==
    /\ peers \in [Endpoints -> SUBSET Endpoints]
    /\ \A e \in Endpoints : e \notin peers[e]
    /\ inbox \in [Endpoints -> Seq(Datagram)]
    /\ pc \in [Endpoints -> {"loop", "send", "close", "gone"}]
    /\ todo \in [Endpoints -> SUBSET Endpoints]
    /\ lines \in 0 .. MaxLines
    /\ ended \in [Endpoints -> {"", "quit", "error"}]
    /\ heard \in [Endpoints -> SUBSET Endpoints]

Open(e) == pc[e] # "gone"

\* SocketUnix::connect: handleCommUp(remote.addr) for every configured remote.
Init ==
    /\ peers = Config
    /\ inbox = [e \in Endpoints |-> <<>>]
    /\ pc = [e \in Endpoints |-> "loop"]
    /\ todo = [e \in Endpoints |-> {}]
    /\ lines = 0
    /\ ended = [e \in Endpoints |-> ""]
    /\ heard = [e \in Endpoints |-> {}]

-----------------------------------------------------------------------------
(* handleMessage: recvfrom one datagram, then quit_msg erases the sender   *)
(* (handleGracefulShutdown) and an unknown sender is inserted             *)
(* (handleCommUp).                                                         *)

\* Mutant: the path is read from sun_path itself, whose first byte is the
\* marker, not from the name after it.
PathFromStart(addr) == addr[1]

\* const Path path = sun_path + 1: the name after the leading byte.
Path(addr) == addr[2]

\* Mutant: the unknown-sender check runs before the quit_msg check.
HandleMessageInsertFirst(known, d) ==
    IF Path(d.from) \notin known THEN known \cup {Path(d.from)}
    ELSE IF d.kind = "quit" THEN known \ {Path(d.from)}
    ELSE known

HandleMessage(known, d) ==
    IF d.kind = "quit" THEN known \ {Path(d.from)}
    ELSE known \cup {Path(d.from)}

Receive(e) ==
    /\ pc[e] = "loop"
    /\ inbox[e] # <<>>
    /\ peers' = [peers EXCEPT ![e] = HandleMessage(@, Head(inbox[e]))]
    /\ inbox' = [inbox EXCEPT ![e] = Tail(@)]
    /\ heard' = IF Head(inbox[e]).kind = "quit"
                THEN [heard EXCEPT ![e] = @ \cup {Path(Head(inbox[e]).from)}]
                ELSE heard
    /\ UNCHANGED <<pc, todo, lines, ended>>

-----------------------------------------------------------------------------
(* chatOrQuit and the destructor.                                          *)

\* A chat line other than quit: send(msg) to every path in peers.
Chat(e) ==
    /\ pc[e] = "loop"
    /\ lines < MaxLines
    /\ lines' = lines + 1
    /\ pc' = [pc EXCEPT ![e] = "send"]
    /\ todo' = [todo EXCEPT ![e] = peers[e]]
    /\ UNCHANGED <<peers, inbox, ended, heard>>

\* quit_msg typed, or the task's lifetime is over: the loop ends and
\* ~SocketUnix sends quit_msg to every path in peers.
Quit(e) ==
    /\ pc[e] = "loop"
    /\ pc' = [pc EXCEPT ![e] = "close"]
    /\ todo' = [todo EXCEPT ![e] = peers[e]]
    /\ ended' = [ended EXCEPT ![e] = "quit"]
    /\ UNCHANGED <<peers, inbox, lines, heard>>

\* The closed descriptor discards what is queued on it.
Close(e) ==
    /\ pc' = [pc EXCEPT ![e] = "gone"]
    /\ inbox' = [inbox EXCEPT ![e] = <<>>]

\* send(msg, path): sendto the lowest path not reached yet.  A closed path
\* makes checkSend throw: from send() the exception unwinds into the
\* destructor's quit broadcast; from the destructor it terminates.
SendTo(e) ==
    /\ pc[e] \in {"send", "close"}
    /\ todo[e] # {}
    /\ LET p == Min(todo[e])
           d == [from |-> SenderAddress(e), kind |-> IF pc[e] = "send" THEN "data" ELSE "quit"]
       IN  IF Open(p)
           THEN /\ inbox' = [inbox EXCEPT ![p] = Append(@, d)]
                /\ todo' = [todo EXCEPT ![e] = @ \ {p}]
                /\ UNCHANGED <<pc, ended>>
           ELSE /\ ended' = [ended EXCEPT ![e] = IF @ = "" THEN "error" ELSE @]
                /\ IF pc[e] = "send"
                   THEN /\ pc' = [pc EXCEPT ![e] = "close"]
                        /\ todo' = [todo EXCEPT ![e] = peers[e]]
                        /\ UNCHANGED inbox
                   ELSE /\ Close(e)
                        /\ todo' = [todo EXCEPT ![e] = {}]
    /\ UNCHANGED <<peers, lines, heard>>

\* The broadcast reached every path: back to the loop, or the destructor
\* ends and the descriptor closes.
SendDone(e) ==
    /\ pc[e] \in {"send", "close"}
    /\ todo[e] = {}
    /\ IF pc[e] = "send"
       THEN pc' = [pc EXCEPT ![e] = "loop"] /\ UNCHANGED inbox
       ELSE Close(e)
    /\ UNCHANGED <<peers, todo, lines, ended, heard>>

Next ==
    \E e \in Endpoints :
        \/ Receive(e) \/ Chat(e) \/ Quit(e)
        \/ SendTo(e) \/ SendDone(e)

\* The network loop and the sends run on; the user gets no fairness.
Fairness ==
    \A e \in Endpoints : WF_vars(Receive(e)) /\ WF_vars(SendTo(e)) /\ WF_vars(SendDone(e))

Spec == Init /\ [][Next]_vars /\ Fairness

-----------------------------------------------------------------------------
(* Properties.                                                             *)

\* A path that said goodbye stays forgotten: once an endpoint has handled
\* the quit_msg of e, e is never in its peers again, although
\* handleMessage inserts every unknown sender.  Holds because the
\* destructor's quit_msg is the last datagram e sends and the receive queue
\* is FIFO; checks the order of the two branches of handleMessage and the
\* unwinding from a failed send into the destructor's broadcast.
NoResurrection ==
    \A x, e \in Endpoints : e \in heard[x] => e \notin peers[x]

\* Spec section 10: the endpoint does not terminate on a single peer's
\* failure; only the user's quit or the task's lifetime ends its loop.
\* SocketUnix keeps a path until a quit_msg from it arrives, so send() or
\* the destructor reaches a path whose socket closed, and checkSend's
\* exception ends the task.
EndsOnlyByQuit ==
    \A e \in Endpoints : ended[e] # "error"

=============================================================================
