----------------------------- MODULE MCHssTrees -----------------------------
(***************************************************************************)
(* Instances of HssTrees: the smallest trees of the source, of height 5, as*)
(* an LMS key and as an HSS key of two levels with every subtree size of   *)
(* the bottom tree, and lower trees in three levels.                       *)
(***************************************************************************)
EXTENDS HssTrees

Key(heights, sizes) == [height |-> heights, size |-> sizes]

MCKeys ==
    {Key(<<5>>, <<s>>) : s \in {2, 4}} \cup
    {Key(<<5, 5>>, <<2, s>>) : s \in 2 .. 5} \cup
    {Key(<<3, 4>>, <<2, s>>) : s \in {2, 4}} \cup
    {Key(<<3, 3, 3>>, <<2, 2, s>>) : s \in 2 .. 3}

\* Every count of these keys.
MCStarts == 0 .. 1023

\* They are keys that the refinement is proved for.
ASSUME MCKeysInStep == LoadsInStep(MCKeys)

\* A top tree higher than the bottom one, loaded around the count where its
\* index is the last index of a bottom tree.
HighTop == {Key(<<10, 5>>, <<2, 2>>)}
HighTopStarts == 960 .. 1055

-----------------------------------------------------------------------------
(* The parameter sets of the source.  Subtrees of 2 levels are taken above *)
(* the bottom tree.                                                        *)

TreeHeights == {5, 10, 15, 20, 25}

\* hss_alloc.c refuses a size that generates fewer updates than are required.
\* None of those it accepts generates just as many: one is always to spare.
ASSUME UpdatesToSpare ==
    \A above, height \in TreeHeights : \A size \in 2 .. height :
        UpdatesGenerated(height, size) >= UpdatesRequired(above, 2) =>
            UpdatesGenerated(height, size) > UpdatesRequired(above, 2)
=============================================================================
