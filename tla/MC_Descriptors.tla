---------------------------- MODULE MC_Descriptors ----------------------------
(* Model-checking instance of Descriptors: four objects and descriptor    *)
(* numbers 3..6 (0-2 are the standard streams).  Enough for a socket, a   *)
(* descriptor moved into a peer, a number reused after close, and a      *)
(* selectFds over up to four descriptors set in any order.               *)
EXTENDS Descriptors, Naturals, TLC

CONSTANTS o1, o2, o3, o4

MCObjects == {o1, o2, o3, o4}
MCNumbers == 3 .. 6
MCSymmetry == Permutations(MCObjects)
=============================================================================
