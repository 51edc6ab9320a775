------------------------------ MODULE WorkBatch ------------------------------
(***************************************************************************)
(* What hss_thread.h promises the Merkle tree code: every request issued   *)
(* is carried out by some thread, none before it is issued, and            *)
(* hss_thread_done returns after all of them have reported their results.  *)
(* A second result for the same request would change nothing here.         *)
(***************************************************************************)
EXTENDS Naturals

CONSTANT NumItems   \* requests the caller issues

VARIABLES
    issued,    \* how many requests have been issued
    results,   \* requests whose result is in the caller's data
    returned   \* hss_thread_done has returned

Init == issued = 0 /\ results = {} /\ returned = FALSE

Issue ==
    /\ issued < NumItems
    /\ issued' = issued + 1
    /\ UNCHANGED <<results, returned>>

Complete(i) ==
    /\ i \notin results
    /\ results' = results \cup {i}
    /\ UNCHANGED <<issued, returned>>

Return ==
    /\ issued = NumItems
    /\ results = 1 .. NumItems
    /\ ~returned
    /\ returned' = TRUE
    /\ UNCHANGED <<issued, results>>

Next == Issue \/ (\E i \in 1 .. issued : Complete(i)) \/ Return

vars == <<issued, results, returned>>

Spec == Init /\ [][Next]_vars /\ WF_vars(Next)
=============================================================================
