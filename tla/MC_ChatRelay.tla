---------------------------- MODULE MC_ChatRelay ----------------------------
(* Model-checking instance of ChatRelay: the predefined configuration of *)
(* main.cpp, MME and eNB1 running forever and eNB2 with a 13s lifetime.   *)
EXTENDS ChatRelay

CONSTANTS mme, enb1, enb2

MCTasks == {mme, enb1, enb2}
MCMortal == {enb2}

\* Three lines: two can be typed before either is taken, and quit_msg can
\* follow them.
MCMaxTyped == 3
=============================================================================
