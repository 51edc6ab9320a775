------------------------------ MODULE HssTrees ------------------------------
(***************************************************************************)
(* The working key of an HSS key: a chain of Merkle trees, each signing the*)
(* root of the one below, cut into subtrees.  Of a subtree there are up to *)
(* three: ACTIVE holds the nodes of the current authentication path,       *)
(* BUILDING those of the subtree to its right, and NEXT those of the first *)
(* one of the tree that follows.  The last two are built leaf by leaf while*)
(* signatures are made, by jobs of the thread pool, and take the place of  *)
(* ACTIVE when it is used up; upper trees get their turns from below.      *)
(*                                                                         *)
(* Level 1 is the top (level 0 of the source), subtree 1 of a tree its top.*)
(* A tree is named by the leaves that lead to it: <<>> is the top one and  *)
(* Append(t, q) the one whose root is signed by leaf q of t.               *)
(***************************************************************************)
EXTENDS Integers, Sequences, FiniteSetsExt

CONSTANTS
    Keys,       \* parameter sets: height and subtree size of the trees of each level
    Starts      \* bound: counts in the key file when it is loaded

MaxMerkleHeight == 25

\* The powers of two that sizes of trees are.
Power ==
    LET power[n \in 0 .. MaxMerkleHeight] == IF n = 0 THEN 1 ELSE 2 * power[n - 1]
    IN  [n \in 0 .. MaxMerkleHeight |-> power[n]]

\* The updates that a tree gives its parent during its life, and those that a
\* tree needs from one signature to the next.
UpdatesGenerated(height, size) ==
    IF height <= size THEN Power[height]
    ELSE Power[((height + size - 1) \div size - 1) * size]

UpdatesRequired(height, size) == (height + size - 1) \div size + 1

\* hss_alloc only takes subtree sizes that give enough updates.  It takes equal
\* numbers too, but one update may be lost to the order of the jobs (see Issue);
\* the sizes that there are leave one to spare.
ASSUME KeysAssumption ==
    \A k \in Keys :
        /\ k.height \in Seq(1 .. MaxMerkleHeight) /\ k.height # <<>>
        /\ k.size \in Seq(Nat \ {0}) /\ Len(k.size) = Len(k.height)
        /\ \A i \in 2 .. Len(k.height) :
              UpdatesGenerated(k.height[i], k.size[i]) >
                  UpdatesRequired(k.height[i - 1], k.size[i - 1])

VARIABLES
    key,        \* the parameter set
    tree,       \* struct merkle_level: current_index, I, I_next, update_count
    subtree,    \* its subtrees by number and role
    signed,     \* signed_pk: which leaf of which tree signs which tree
    signature,  \* the last signature: leaf and tree of each level
    jobs,       \* work issued to the pool and not carried out
    at          \* where hss_generate_signature is

vars == <<key, tree, subtree, signed, signature, jobs, at>>

UPDATE_NEXT == 0
UPDATE_PARENT == 1
UPDATE_BUILDING == 2
UPDATE_DONE == 255

MaxSubindex == 2147483647

Levels == Len(key.height)
Bottom == Levels
Leaves(i) == Power[key.height[i]]
MaxIndex(i) == Leaves(i) - 1
SubLevels(i) == (key.height[i] + key.size[i] - 1) \div key.size[i]
LevelsBelow(i, j) == (SubLevels(i) - j) * key.size[i]

\* Leaves of the tree below subtree j, and below one of its bottom nodes.
Span(i, j) == IF j = 1 THEN Leaves(i) ELSE Power[LevelsBelow(i, j) + key.size[i]]
NodeSpan(i, j) == Power[LevelsBelow(i, j)]

\* Signatures made by a tree of level i and the trees below it in their lives.
Capacities[i \in 1 .. (Levels + 1)] ==
    IF i > Levels THEN 1 ELSE Leaves(i) * Capacities[i + 1]

Capacity(i) == Capacities[i]

-----------------------------------------------------------------------------
(* Subtrees.  made is what their nodes have been computed from: the tree,  *)
(* the first leaf and the number of leaves.                                *)

Nothing == [tree |-> <<>>, from |-> 0, count |-> 0]
Mixed == [tree |-> <<-2>>, from |-> 0, count |-> 1]

\* seed_next and I_next of the top tree are never set.
Unset == <<-1>>

MadeOf(t, from, count) == [tree |-> t, from |-> from, count |-> count]

Subtree(left, index, made) == [left_leaf |-> left, current_index |-> index, made |-> made]

WithLeaf(made, t, leaf) ==
    IF made.count = 0 THEN MadeOf(t, leaf, 1)
    ELSE IF made.tree = t /\ made.from + made.count = leaf
         THEN MadeOf(t, made.from, made.count + 1)
    ELSE Mixed

\* subtree_add_next_node
AddNode(s, i, j, t) ==
    IF s.current_index = Span(i, j) THEN s
    ELSE Subtree(s.left_leaf, s.current_index + 1,
                 WithLeaf(s.made, t, s.left_leaf + s.current_index))

\* Mutant: an upper NEXT subtree starts without the root of the one below.
BegunWithoutRoot(s, i, j) ==
    IF s.NEXT.current_index = 0 /\ j < SubLevels(i)
    THEN Subtree(s.NEXT.left_leaf, NodeSpan(i, j), s.NEXT.made) ELSE s.NEXT

\* The first bottom node of an upper NEXT subtree is the root of the one below.
Begun(s, i, j) ==
    IF s.NEXT.current_index = 0 /\ j < SubLevels(i)
    THEN Subtree(s.NEXT.left_leaf, NodeSpan(i, j), subtree[i][j + 1].NEXT.made)
    ELSE s.NEXT

NextDone(s, i, j) ==
    IF s.current_index = Span(i, j) THEN [s EXCEPT !.current_index = MaxSubindex] ELSE s

\* hss_step_next_tree: the lowest NEXT subtree that is not finished.
StepNext(i) ==
    LET open == {j \in 1 .. SubLevels(i) : subtree[i][j].NEXT.current_index < MaxSubindex}
        j    == Max(open)
    IN  IF open = {} THEN subtree[i]
        ELSE [subtree[i] EXCEPT ![j].NEXT =
                NextDone(AddNode(Begun(subtree[i][j], i, j), i, j, tree[i].I_next), i, j)]

StepBuilding(i, j) ==
    [subtree[i] EXCEPT ![j].BUILDING = AddNode(@, i, j, tree[i].I)]

-----------------------------------------------------------------------------
(* Loading: hss_generate_working_key for any count in the key file.        *)

\* The leaf of each level in count c.
Digit(c, i) == (c \div Capacity(i + 1)) % Leaves(i)

Path(c, i) == [k \in 1 .. (i - 1) |-> Digit(c, k)]

\* Mutant: it is the one that the same leaf has signed.
FollowerOfSameLeaf(p, index, last) ==
    IF index = last THEN Append(p.I_next, 0) ELSE Append(p.I, index)

\* The tree that follows, signed by the next leaf of parent p, or by the first
\* leaf of the one that follows the parent if index is the last.
Follower(p, index, last) ==
    IF index = last THEN Append(p.I_next, 0) ELSE Append(p.I, index + 1)

LoadedTrees(c) ==
    LET names[i \in 1 .. Levels] ==
            [I |-> Path(c, i),
             I_next |-> IF i = 1 THEN Unset
                        ELSE Follower(names[i - 1], Digit(c, i - 1), MaxIndex(i))]
    IN  [i \in 1 .. Levels |->
            [current_index |-> Digit(c, i) + (IF i = Bottom THEN 0 ELSE 1),
             I |-> names[i].I, I_next |-> names[i].I_next, update_count |-> UPDATE_DONE]]

Roundup(x, unit) == ((x + unit - 1) \div unit) * unit

\* Upper trees are loaded with update_count DONE, one update short: their count is
\* one higher, which makes up for it.
Counted(c, i) == Digit(c, i) + (IF i = Bottom THEN 0 ELSE 1)

LeftLeaf(c, i, j) == Digit(c, i) - (Digit(c, i) % Span(i, j))

\* At the right edge left_leaf stays as it is in memory.
LoadedBuilding(c, i, j, t, garbage) ==
    LET left  == LeftLeaf(c, i, j)
        count == Roundup(Counted(c, i) - left, NodeSpan(i, j))
    IN  IF Digit(c, i) + Span(i, j) <= MaxIndex(i)
        THEN Subtree(left + Span(i, j), count, MadeOf(t, left + Span(i, j), count))
        ELSE Subtree(garbage, 0, Nothing)

LoadedNext(c, i, j, t) ==
    LET count == Roundup(Counted(c, i), NodeSpan(i, j))
    IN  IF count = 0 \/ (j < SubLevels(i) /\ count <= NodeSpan(i, j)) THEN Subtree(0, 0, Nothing)
        ELSE IF count < Span(i, j) THEN Subtree(0, count, MadeOf(t, 0, count))
        ELSE Subtree(0, MaxSubindex, MadeOf(t, 0, Span(i, j)))

\* Unused roles (BUILDING of a top subtree, NEXT of the top tree) are Nothing.
LoadedSubtrees(c, garbage) ==
    LET names == LoadedTrees(c)
    IN  [i \in 1 .. Levels |-> [j \in 1 .. SubLevels(i) |->
            [ACTIVE   |-> Subtree(LeftLeaf(c, i, j), 0,
                                  MadeOf(names[i].I, LeftLeaf(c, i, j), Span(i, j))),
             BUILDING |-> IF j = 1 THEN Subtree(0, 0, Nothing)
                          ELSE LoadedBuilding(c, i, j, names[i].I, garbage),
             NEXT     |-> IF i = 1 THEN Subtree(0, 0, Nothing)
                          ELSE LoadedNext(c, i, j, names[i].I_next)]]]

\* hss_create_signed_public_key: leaf q of tree p signs tree t.
Link(p, q, t) == [by |-> p, leaf |-> q, signs |-> t]

LoadedSigned(c) ==
    [i \in 2 .. Levels |-> Link(Path(c, i - 1), Digit(c, i - 1), Path(c, i))]

Load(c) ==
    /\ tree = LoadedTrees(c)
    /\ \E garbage \in {0, 1073741824} : subtree = LoadedSubtrees(c, garbage)
    /\ signed = LoadedSigned(c)

Init ==
    /\ key \in Keys
    /\ \E c \in Starts \cap (0 .. (Capacity(1) - 1)) : Load(c)
    /\ signature = <<>> /\ jobs = {} /\ at = "idle"

-----------------------------------------------------------------------------
(* hss_generate_signature issues the work and waits for it.                *)

\* The count of the key: upper trees have already advanced.
Count ==
    LET sum[i \in 0 .. Levels] ==
            IF i = 0 THEN 0 ELSE sum[i - 1] * Leaves(i) + tree[i].current_index - 1
    IN  sum[Bottom] + 1

StartSignature ==
    /\ at = "idle"
    /\ jobs' = {<<"sign">>} \cup (IF Levels > 1 THEN {<<"next">>} ELSE {})
    /\ at' = "issuing"
    /\ UNCHANGED <<key, tree, subtree, signed, signature>>

\* Signatures left in the bottom tree.  Whether the one in progress counts
\* depends on whether its job has been carried out.
UpdatesBeforeEnd == MaxIndex(Bottom) - tree[Bottom].current_index + 1

\* BUILDING subtrees of the bottom tree that will be used.
Steps == {j \in 2 .. SubLevels(Bottom) : UpdatesBeforeEnd >= Span(Bottom, j)}

\* Mutant: a bottom tree of one subtree never lets its parent update.
SkippedASubtree == Steps # 2 .. SubLevels(Bottom)

SkippedALevel == SubLevels(Bottom) = 1 \/ Steps # 2 .. SubLevels(Bottom)

Issue ==
    /\ at = "issuing"
    /\ jobs' = jobs \cup {<<"building", j>> : j \in Steps} \cup
                 (IF SkippedALevel /\ Levels > 1
                       /\ tree[Bottom - 1].update_count # UPDATE_DONE
                  THEN {<<"parent">>} ELSE {})
    /\ at' = "waiting"
    /\ UNCHANGED <<key, tree, subtree, signed, signature>>

-----------------------------------------------------------------------------
(* The jobs.  Each has its own subtree, so one job is one step; they come  *)
(* in any order, as WorkBatch allows.                                      *)

Took(job) == job \in jobs /\ jobs' = jobs \ {job}

\* do_gen_sig
Sign ==
    /\ Took(<<"sign">>)
    /\ signature' = [i \in 1 .. Levels |->
                        IF i < Levels THEN signed[i + 1]
                        ELSE Link(tree[i].I, tree[i].current_index, <<"message">>)]
    /\ tree' = [tree EXCEPT ![Bottom].current_index = @ + 1]
    /\ UNCHANGED <<key, subtree, signed, at>>

\* do_step_next
StepBottomNext ==
    /\ Took(<<"next">>)
    /\ subtree' = [subtree EXCEPT ![Bottom] = StepNext(Bottom)]
    /\ UNCHANGED <<key, tree, signed, signature, at>>

\* do_step_building
StepBottomBuilding == \E j \in 2 .. SubLevels(Bottom) :
    /\ Took(<<"building", j>>)
    /\ subtree' = [subtree EXCEPT ![Bottom] = StepBuilding(Bottom, j)]
    /\ UNCHANGED <<key, tree, signed, signature, at>>

\* The level that gets the update: each one whose turn it is to pass it on does.
Updated ==
    Max({i \in 1 .. (Bottom - 1) :
            /\ i = 1 \/ tree[i].update_count # UPDATE_PARENT
            /\ \A k \in (i + 1) .. (Bottom - 1) : tree[k].update_count = UPDATE_PARENT})

\* The BUILDING subtree whose turn it is, if there is one.
Turn(i) == tree[i].update_count - UPDATE_BUILDING + 2

UpdateCountAfter(i) ==
    CASE tree[i].update_count = UPDATE_DONE   -> UPDATE_DONE
      [] tree[i].update_count = UPDATE_NEXT   -> UPDATE_PARENT
      [] tree[i].update_count = UPDATE_PARENT -> UPDATE_BUILDING
      [] OTHER -> IF Turn(i) > SubLevels(i) THEN UPDATE_DONE ELSE tree[i].update_count + 1

\* What the update does to the subtrees of level i; there is nothing next to the
\* top tree, and a subtree beyond the right edge is not built.
SubtreesAfter(i) ==
    CASE tree[i].update_count = UPDATE_NEXT /\ i > 1 -> StepNext(i)
      [] tree[i].update_count \in UPDATE_BUILDING .. (UPDATE_DONE - 1)
            /\ Turn(i) <= SubLevels(i)
            /\ subtree[i][Turn(i)].BUILDING.left_leaf < Leaves(i) -> StepBuilding(i, Turn(i))
      [] OTHER -> subtree[i]

\* do_update_parent
UpdateParent ==
    /\ Took(<<"parent">>)
    /\ tree' = [i \in 1 .. Levels |->
                  IF i \in Updated .. (Bottom - 1)
                  THEN [tree[i] EXCEPT !.update_count = UpdateCountAfter(i)] ELSE tree[i]]
    /\ subtree' = [subtree EXCEPT ![Updated] = SubtreesAfter(Updated)]
    /\ UNCHANGED <<key, signed, signature, at>>

-----------------------------------------------------------------------------
(* When the jobs are done: subtrees that are used up are exchanged.        *)

UsedUp(i) == Count % Capacity(i) = 0

\* The first of the trees that end with this signature; the top tree has no
\* successor, but those below it are exchanged even after the last signature.
FirstSwitched == Min({i \in 2 .. Levels : UsedUp(i)} \cup {Levels + 1})

\* The subtrees that end within a tree that goes on: the last leaf of a subtree
\* is that of all the subtrees below it.
Ends(i, j) ==
    /\ j > 1 /\ ~UsedUp(i)
    /\ Count % (Capacity(i + 1) * Span(i, j)) = 0

Advanced(i, j) ==
    LET s == subtree[i][j]
    IN  IF ~Ends(i, j) THEN s
        ELSE [s EXCEPT !.ACTIVE = s.BUILDING,
                       !.BUILDING = Subtree(s.ACTIVE.left_leaf + 2 * Span(i, j), 0, Nothing)]

Switched(i, j) ==
    LET s == subtree[i][j]
    IN  [ACTIVE   |-> [s.NEXT EXCEPT !.left_leaf = 0],
         NEXT     |-> Subtree(0, 0, Nothing),
         BUILDING |-> IF j = 1 THEN s.BUILDING ELSE Subtree(Span(i, j), 0, Nothing)]

\* The trees from level f on have successors; the tree above signs the first.
SwitchedTrees(f) ==
    LET index(i)    == IF i = f THEN tree[f - 1].current_index ELSE 0
        names[i \in (f - 1) .. Levels] ==
            IF i = f - 1 THEN [I |-> tree[i].I, I_next |-> tree[i].I_next]
            ELSE [I |-> tree[i].I_next,
                  I_next |-> Follower(names[i - 1], index(i), MaxIndex(i - 1))]
    IN  [i \in 1 .. Levels |->
            IF i < f - 1 THEN tree[i]
            ELSE [I |-> names[i].I, I_next |-> names[i].I_next,
                  current_index |-> (IF i < f THEN tree[i].current_index ELSE 0) +
                                    (IF i < Bottom THEN 1 ELSE 0),
                  update_count |-> IF i < Bottom THEN UPDATE_NEXT ELSE tree[i].update_count]]

SwitchedSigned(f) ==
    [i \in 2 .. Levels |->
        IF i < f THEN signed[i]
        ELSE Link(tree'[i - 1].I, tree'[i - 1].current_index - 1, tree'[i].I)]

Finish ==
    LET f == FirstSwitched
    IN  /\ at = "waiting" /\ jobs = {}
        /\ subtree' = [i \in 1 .. Levels |-> [j \in 1 .. SubLevels(i) |->
                          IF i >= f THEN Switched(i, j) ELSE Advanced(i, j)]]
        /\ tree' = IF f > Levels THEN tree ELSE SwitchedTrees(f)
        /\ signed' = IF f > Levels THEN signed ELSE SwitchedSigned(f)
        /\ at' = IF UsedUp(1) THEN "expired" ELSE "idle"
        /\ UNCHANGED <<key, signature, jobs>>

\* hss_error_private_key_expired from now on.
Expired == at = "expired" /\ UNCHANGED vars

Next ==
    \/ StartSignature \/ Issue \/ Finish \/ Expired
    \/ Sign \/ StepBottomNext \/ StepBottomBuilding \/ UpdateParent

Spec == Init /\ [][Next]_vars

-----------------------------------------------------------------------------
\* The leaf of tree i that is signing.
Leaf(i) ==
    tree[i].current_index -
        (IF i = Bottom /\ (at = "idle" \/ <<"sign">> \in jobs) THEN 0 ELSE 1)

\* hss_internal.h: the ACTIVE subtrees are those of the authentication path and
\* always fully populated, by nodes of the tree itself, whatever had to be built
\* in the meantime and in whatever order it was.
ActiveComplete ==
    at # "expired" =>
        \A i \in 1 .. Levels : \A j \in 1 .. SubLevels(i) :
            LET left == Leaf(i) - (Leaf(i) % Span(i, j))
            IN  /\ subtree[i][j].ACTIVE.left_leaf = left
                /\ subtree[i][j].ACTIVE.made = MadeOf(tree[i].I, left, Span(i, j))

\* hss_internal.h: an upper tree gets enough updates between two signatures.  When
\* it is about to sign again nothing is left to update.
UpdatesSuffice ==
    at = "waiting" /\ jobs = {} =>
        \A i \in (FirstSwitched - 1) .. (Bottom - 1) :
            tree[i].update_count >= UPDATE_BUILDING + SubLevels(i) - 1

\* What a leaf of an upper tree signs is what it signs if the key is loaded anew
\* at this point (lm_ots_sign.c: "upper levels of the HSS tree sometimes sign the
\* same message with the same index (between multiple reboots)").
SignedAsLoaded == at = "idle" => signed = LoadedSigned(Count)

\* Every signature consists of the links that its count determines, whenever the
\* key was loaded and in whatever order the jobs were carried out.
Abstract == INSTANCE HssSignatures WITH
    leaves <- [i \in 1 .. Levels |-> Leaves(i)], count <- Count

ImplementsHssSignatures == Abstract!Spec

\* Loading derives the same following trees as signing: it compares the index of the
\* parent with the last index of the child.  The top tree has no successor, so that it
\* only must not be higher; the trees below it must be equally high.
LoadsInStep(keys) ==
    \A k \in keys : \A i \in 2 .. Len(k.height) :
        IF i = 2 THEN k.height[1] <= k.height[2] ELSE k.height[i - 1] = k.height[i]
=============================================================================
