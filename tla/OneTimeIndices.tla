--------------------------- MODULE OneTimeIndices ---------------------------
(***************************************************************************)
(* What the LMS signing code promises about a private key (SP800-208,      *)
(* Sec. 9.1): a signature may or may not come out, but no one-time         *)
(* signature index of a key ever signs twice.                              *)
(***************************************************************************)
EXTENDS Naturals

CONSTANTS
    Files,     \* private keys, one file each
    MaxCount   \* index of the last signature of a key

VARIABLE issued   \* issued[f][i]: signatures handed out with index i of key f

Init == issued = [f \in Files |-> [i \in 0 .. MaxCount |-> 0]]

Issue(f, i) ==
    /\ issued[f][i] = 0
    /\ issued' = [issued EXCEPT ![f][i] = 1]

Next == \E f \in Files, i \in 0 .. MaxCount : Issue(f, i)

Spec == Init /\ [][Next]_issued
=============================================================================
