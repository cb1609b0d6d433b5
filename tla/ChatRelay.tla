------------------------------ MODULE ChatRelay -----------------------------
(***************************************************************************)
(* The console relay between the io task and the network tasks            *)
(* (src/src/Chat.cpp, IoTask.cpp, NetworkTask.cpp, main.cpp).             *)
(*                                                                         *)
(* chat(new) swaps a single static message under a mutex and returns the  *)
(* old one.  ioTask reads a line with getline and chat(line)s it until it *)
(* has read quit_msg.  Every network task loops: receive, then chatOrQuit: *)
(* msg = chat() takes the slot and leaves it empty; a non-empty line other *)
(* than quit_msg is sent on the task's socket; quit_msg is put back with  *)
(* chat(msg) so the other tasks see it too, and ends the loop.  A task    *)
(* with a lifetime also leaves its loop when the lifetime is over.  main  *)
(* joins all tasks.                                                        *)
(*                                                                         *)
(* At the end of stdin getline fails and leaves ioTask's msg as it was     *)
(* (the last line, when it had no newline) or empties it (when it had     *)
(* one, or nothing was read); the loop goes on chat()ing that msg forever. *)
(*                                                                         *)
(* The fairness is that of builds whose receive() returns within its      *)
(* select timeout: SocketUdp, SocketSctp, SocketUnix.  With SocketTcp and  *)
(* SocketDccp receive() blocks for good at the first loss or shutdown     *)
(* (remove() locking peers_mtx again), which SocketTcp models.             *)
(*                                                                         *)
(* Lines are numbered in the order typed; Empty is the empty line (and    *)
(* the empty slot), QuitMsg the line quit_msg.                             *)
(***************************************************************************)
EXTENDS Naturals, FiniteSets

CONSTANTS
    Tasks,     \* the network tasks main starts
    Mortal,    \* those with a lifetime (NetworkTaskParams::lifetime > 0)
    Empty,     \* ChatMessage{}
    QuitMsg,   \* quit_msg
    MaxTyped   \* lines the user types

ASSUME Mortal \subseteq Tasks

Lines == 1 .. MaxTyped
Messages == Lines \cup {Empty, QuitMsg}

VARIABLES
    slot,    \* the static msg in chat()
    io,      \* ioTask: "read", "eof" (stdin ended) or "done"
    iomsg,   \* ioTask's msg: the last line getline stored
    typed,   \* lines read so far
    tpc,     \* network task: "take" (at chatOrQuit), "act" (holding msg), "done"
    msg,     \* the msg chatOrQuit took, per task
    sent     \* ghost: <<line, task>> for every socket.send(msg)

vars == <<slot, io, iomsg, typed, tpc, msg, sent>>

TypeOK ==
    /\ slot \in Messages
    /\ io \in {"read", "eof", "done"}
    /\ iomsg \in Messages
    /\ typed \in 0 .. MaxTyped
    /\ tpc \in [Tasks -> {"take", "act", "done"}]
    /\ msg \in [Tasks -> Messages]
    /\ sent \subseteq Lines \X Tasks

Init ==
    /\ slot = Empty
    /\ io = "read"
    /\ iomsg = Empty
    /\ typed = 0
    /\ tpc = [t \in Tasks |-> "take"]
    /\ msg = [t \in Tasks |-> Empty]
    /\ sent = {}

\* chatFromStdin: getline, then chat(line), whose result is dropped.  The
\* line is the next one, an empty line, or quit_msg, which ends ioTask.
Type ==
    /\ io = "read"
    /\ typed < MaxTyped
    /\ typed' = typed + 1
    /\ \E line \in {typed + 1, Empty, QuitMsg} :
          /\ slot' = line
          /\ iomsg' = line
          /\ io' = IF line = QuitMsg THEN "done" ELSE "read"
    /\ UNCHANGED <<tpc, msg, sent>>

\* chatFromStdin at the end of stdin: getline fails and chat(msg) puts
\* ioTask's msg in the slot.  After a last line without a newline eofbit
\* is already set, the sentry fails and msg keeps that line; otherwise
\* getline erases msg first.
EndOfInput ==
    /\ io = "read"
    /\ io' = "eof"
    /\ \E newline \in BOOLEAN :
          iomsg' = IF newline THEN Empty ELSE iomsg
    /\ slot' = iomsg'
    /\ UNCHANGED <<typed, tpc, msg, sent>>

\* Every later chatFromStdin: getline fails again, chat(msg) re-puts it.
Reput ==
    /\ io = "eof"
    /\ slot' = iomsg
    /\ UNCHANGED <<io, iomsg, typed, tpc, msg, sent>>

\* Mutant: chat() reads the message without emptying the slot.
ChatReadOnly(t) ==
    /\ tpc[t] = "take"
    /\ msg' = [msg EXCEPT ![t] = slot]
    /\ tpc' = [tpc EXCEPT ![t] = "act"]
    /\ UNCHANGED <<slot, io, iomsg, typed, sent>>

\* msg = chat(): exchange(msg, ChatMessage{}) under the mutex.
ChatTake(t) ==
    /\ tpc[t] = "take"
    /\ msg' = [msg EXCEPT ![t] = slot]
    /\ slot' = Empty
    /\ tpc' = [tpc EXCEPT ![t] = "act"]
    /\ UNCHANGED <<io, iomsg, typed, sent>>

\* Mutant: quit_msg ends this task's loop without being put back.
ChatOrQuitNoPutBack(t) ==
    /\ tpc[t] = "act"
    /\ tpc' = [tpc EXCEPT ![t] = IF msg[t] = QuitMsg THEN "done" ELSE "take"]
    /\ sent' = IF msg[t] \in Lines THEN sent \cup {<<msg[t], t>>} ELSE sent
    /\ UNCHANGED <<slot, io, iomsg, typed, msg>>

\* Mutant: the not msg.empty() test is dropped, every msg but quit_msg is
\* sent.
ChatOrQuitSendEmpty(t) ==
    /\ tpc[t] = "act"
    /\ tpc' = [tpc EXCEPT ![t] = IF msg[t] = QuitMsg THEN "done" ELSE "take"]
    /\ slot' = IF msg[t] = QuitMsg THEN QuitMsg ELSE slot
    /\ sent' = IF msg[t] # QuitMsg THEN sent \cup {<<msg[t], t>>} ELSE sent
    /\ UNCHANGED <<io, iomsg, typed, msg>>

\* The rest of chatOrQuit and the loop condition: a line is sent, quit_msg
\* is put back with chat(msg) (the message it displaces is dropped) and
\* send_msg == quit_msg ends the loop; an empty msg does nothing.
ChatOrQuit(t) ==
    /\ tpc[t] = "act"
    /\ tpc' = [tpc EXCEPT ![t] = IF msg[t] = QuitMsg THEN "done" ELSE "take"]
    /\ slot' = IF msg[t] = QuitMsg THEN QuitMsg ELSE slot
    /\ sent' = IF msg[t] \in Lines THEN sent \cup {<<msg[t], t>>} ELSE sent
    /\ UNCHANGED <<io, iomsg, typed, msg>>

\* The loop condition now() < time_to_die fails.
Expire(t) ==
    /\ t \in Mortal
    /\ tpc[t] = "take"
    /\ tpc' = [tpc EXCEPT ![t] = "done"]
    /\ UNCHANGED <<slot, io, iomsg, typed, msg, sent>>

Next ==
    \/ Type \/ EndOfInput \/ Reput
    \/ \E t \in Tasks : ChatTake(t) \/ ChatOrQuit(t) \/ Expire(t)

\* Every network task keeps looping: receive() returns within the 100ms
\* select timeout in the SocketUdp, SocketSctp and SocketUnix builds (their
\* handlers take peers_mtx at most once, the Unix reads are non-blocking).
\* The user and the lifetimes get no fairness.
Fairness == \A t \in Tasks : WF_vars(ChatTake(t)) /\ WF_vars(ChatOrQuit(t))

Spec == Init /\ [][Next]_vars /\ Fairness

-----------------------------------------------------------------------------
(* Properties.                                                             *)

\* A typed line goes out on at most one network task's socket: the swap in
\* chat() hands each line to one taker, however the tasks interleave.  The
\* exception is the line stdin ended on without a newline, which ioTask
\* re-puts forever and every task sends again and again.
LineSentOnce ==
    \A l \in Lines :
        ~(io = "eof" /\ iomsg = l) =>
            Cardinality({t \in Tasks : <<l, t>> \in sent}) <= 1

\* In the UDP, SCTP and Unix builds, once quit_msg is typed every network
\* task ends, and with ioTask done main's join returns: the task that takes quit_msg puts it back for the
\* next one, and tasks whose lifetime ended take nothing.
QuitEndsAllTasks ==
    (io = "done") ~> (\A t \in Tasks : tpc[t] = "done")

=============================================================================
