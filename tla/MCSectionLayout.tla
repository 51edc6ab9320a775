-------------------------- MODULE MCSectionLayout --------------------------
(* Small instances of SectionLayout: words of 5 bits, addresses of 6.      *)
EXTENDS SectionLayout
LOCAL INSTANCE Bitwise

MCBitAnd(x, y) == x & y
=============================================================================
