--------------------------- MODULE AssocLifecycle ---------------------------
(***************************************************************************)
(* What the multi-association transport promises about its associations  *)
(* (spec section 4.4), abstracted from descriptors, queues and threads.   *)
(*                                                                         *)
(* Per association: Connecting -> Established -> {GracefulShutdown,       *)
(* CommLost, EstablishmentFailed} -> Removed.  The endpoint's peer map     *)
(* holds an entry only for an association that is established, keeps it *)
(* until the association has ended, and then removes it.                 *)
(* EstablishmentFailed comes only from Connecting, before any entry.      *)
(* Every association lost or failed puts its remote in owed until a       *)
(* reestablishment runs for it.  Ended ids without an entry are forgotten *)
(* and may be reused.                                                     *)
(***************************************************************************)
EXTENDS FiniteSets, Functions

CONSTANTS
    ConfigRemotes,  \* remotes the endpoint connects to at start
    Clients,        \* remotes that open associations to it
    Assocs          \* association ids

Remotes == ConfigRemotes \cup Clients

VARIABLES
    assoc,  \* the associations the kernel knows : id -> [remote, st]
    entry,  \* the ids the peer map has an entry for
    owed    \* remotes whose association ended in loss or failure, not retried

avars == <<assoc, entry, owed>>

Free == Assocs \ DOMAIN assoc
Ended(a) == a \in DOMAIN assoc /\ assoc[a].st = "gone"
Alive(r) == \E a \in DOMAIN assoc : assoc[a].remote = r /\ assoc[a].st # "gone"

\* assoc with a new association a to r in state st.
With(a, r, st) == [x \in DOMAIN assoc \cup {a} |->
                      IF x = a THEN [remote |-> r, st |-> st] ELSE assoc[x]]

Init ==
    /\ \E f \in [ConfigRemotes -> Assocs] :
          /\ IsInjective(f)
          /\ assoc = [a \in Range(f) |->
                        [remote |-> CHOOSE r \in ConfigRemotes : f[r] = a, st |-> "connecting"]]
    /\ entry = {}
    /\ owed = {}

\* A reestablishment for r runs: it starts an association unless r has one.
Reconnect(r) ==
    /\ IF Alive(r) THEN UNCHANGED assoc
                   ELSE \E a \in Free : assoc' = With(a, r, "connecting")
    /\ owed' = owed \ {r}
    /\ UNCHANGED entry

Establish(a) ==
    /\ a \in DOMAIN assoc /\ assoc[a].st = "connecting"
    /\ assoc' = [assoc EXCEPT ![a].st = "up"]
    /\ UNCHANGED <<entry, owed>>

Accept(c) ==
    /\ ~Alive(c)
    /\ \E a \in Free : assoc' = With(a, c, "up")
    /\ UNCHANGED <<entry, owed>>

\* Connecting -> EstablishmentFailed, or Established -> CommLost /
\* GracefulShutdown.  Only a loss or a failure is owed a retry.
End(a) ==
    /\ a \in DOMAIN assoc
    /\ \/ assoc[a].st = "connecting" /\ owed' = owed \cup {assoc[a].remote}
       \/ assoc[a].st = "up" /\ owed' = owed \cup {assoc[a].remote}
       \/ assoc[a].st = "up" /\ UNCHANGED owed
    /\ assoc' = [assoc EXCEPT ![a].st = "gone"]
    /\ UNCHANGED entry

AddEntry(a) ==
    /\ a \in DOMAIN assoc /\ assoc[a].st = "up"
    /\ a \notin entry
    /\ entry' = entry \cup {a}
    /\ UNCHANGED <<assoc, owed>>

RemoveEntry(a) ==
    /\ Ended(a) /\ a \in entry
    /\ entry' = entry \ {a}
    /\ UNCHANGED <<assoc, owed>>

\* Ended ids without an entry are released, any number at once.
Forget ==
    \E S \in SUBSET {a \in DOMAIN assoc : Ended(a) /\ a \notin entry} :
        /\ S # {}
        /\ assoc' = Restrict(assoc, DOMAIN assoc \ S)
        /\ UNCHANGED <<entry, owed>>

Next ==
    \/ \E r \in Remotes : Reconnect(r)
    \/ \E c \in Clients : Accept(c)
    \/ \E a \in Assocs : Establish(a) \/ End(a) \/ AddEntry(a) \/ RemoveEntry(a)
    \/ Forget

\* Safety alone: every step is one of the above.
Safe == Init /\ [][Next]_avars

\* The promises over time: an ended association's entry is removed, and
\* a remote owed a retry gets one.
Spec ==
    /\ Safe
    /\ \A a \in Assocs : WF_avars(RemoveEntry(a))
    /\ \A r \in Remotes : WF_avars(r \in owed /\ Reconnect(r))

=============================================================================
