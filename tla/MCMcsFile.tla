----------------------------- MODULE MCMcsFile -----------------------------
(* Small instances of McsFile: words and addresses of 6 bits.              *)
EXTENDS McsFile
LOCAL INSTANCE Bitwise

MCBitAnd(x, y) == x & y
=============================================================================
