----------------------------- MODULE MCBinFile -----------------------------
(* Small instances of BinFile: words of 5 bits, addresses of 6.            *)
EXTENDS BinFile
LOCAL INSTANCE Bitwise

MCBitAnd(x, y) == x & y
=============================================================================
