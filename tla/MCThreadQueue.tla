--------------------------- MODULE MCThreadQueue ---------------------------
(***************************************************************************)
(* Small instances of ThreadQueue.  With one slot, three conversations are *)
(* enough for one to hold it, one to wait behind a thread whose messages   *)
(* all go stale, and one to enqueue meanwhile.  With two slots it takes    *)
(* four for the end of one race to start two messages: its own thread's    *)
(* next one, and that of a thread which an earlier end left in the line.   *)
(***************************************************************************)
EXTENDS ThreadQueue

CONSTANTS t1, t2, t3, t4

MCThreads == {t1, t2, t3, t4}
MCFewThreads == {t1, t2, t3}

(* No property of the safety runs tells one conversation from another. *)
MCSymmetry == Permutations(MCThreads)
=============================================================================
