--------------------------- MODULE HssSignatures ---------------------------
(***************************************************************************)
(* What a working key promises (hss.h): the signature of count c is made by*)
(* the leaves that the digits of c number, one per level, where the leaf of*)
(* an upper level signs the tree of the next level that belongs to it and  *)
(* to no other leaf.  Then a leaf of an upper tree signs the same tree in  *)
(* every signature and after every restart.                                *)
(***************************************************************************)
EXTENDS Integers, Sequences

VARIABLES
    leaves,     \* of a tree of each level, from the top
    count,      \* of the next signature
    signature   \* the last one: a link per level

vars == <<leaves, count, signature>>

Levels == Len(leaves)

\* Number of counts that share the digits before the one of level i.
Spans[i \in 1 .. (Levels + 1)] == IF i > Levels THEN 1 ELSE leaves[i] * Spans[i + 1]

Span(i) == Spans[i]

Digit(c, i) == (c % Span(i)) \div Span(i + 1)

Digits(c, i) == [k \in 1 .. i |-> Digit(c, k)]

SignatureOf(c) ==
    [i \in 1 .. Levels |->
        [by |-> Digits(c, i - 1), leaf |-> Digit(c, i),
         signs |-> IF i = Levels THEN <<"message">> ELSE Digits(c, i)]]

Init ==
    /\ leaves \in Seq(Nat \ {0}) /\ leaves # <<>>
    /\ count \in 0 .. (Span(1) - 1)
    /\ signature = <<>>

Sign ==
    /\ count < Span(1)
    /\ signature' = SignatureOf(count)
    /\ count' = count + 1
    /\ UNCHANGED leaves

Spec == Init /\ [][Sign]_vars
=============================================================================
