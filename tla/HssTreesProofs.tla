-------------------------- MODULE HssTreesProofs --------------------------
(***************************************************************************)
(* Proofs about the working key of HssTrees, for every parameter set that  *)
(* hss_alloc accepts, every count that it may be loaded with and every     *)
(* order of the jobs.                                                      *)
(*                                                                         *)
(* The invariant says of each level which nodes its subtrees hold: ACTIVE  *)
(* those of the leaf that signs, BUILDING at least as many of the subtree  *)
(* to the right as the leaf has passed of its own, and the NEXT subtrees,  *)
(* finished from the lowest one upwards, as many leaves of the tree that   *)
(* follows as the leaf has passed of this one.  For upper trees, that get  *)
(* their turns from below, it bounds the update count by the leaf of the   *)
(* tree below.  The counts of the last signatures are written in a number  *)
(* system with one digit per level; a tree is used up when its digit and   *)
(* all those after it are at their greatest.  The names of the trees form  *)
(* an invariant of their own, from which the refinement follows.           *)
(***************************************************************************)
EXTENDS HssTrees, NaturalsInduction, WellFoundedInduction, TLAPS

-----------------------------------------------------------------------------
(* Induction and arithmetic.                                               *)

\* Induction over the numbers up to n, for a set of them.
LEMMA UpToN ==
    ASSUME NEW n \in Nat, NEW G, 0 \in G, \A i \in 1 .. n : i - 1 \in G => i \in G
    PROVE  \A i \in 0 .. n : i \in G
<1> DEFINE S == {i \in 0 .. n : i \notin G}
           R == {ss \in Nat \X Nat : ss[1] < ss[2]}
<1>1. IsWellFoundedOn(OpToRel(<, Nat), Nat)
  BY NatLessThanWellFounded
<1>2. OpToRel(<, Nat) = R
  BY DEF OpToRel
<1>3. IsWellFoundedOn(R, Nat)
  BY <1>1, <1>2
<1>4. SUFFICES ASSUME S # {} PROVE FALSE
  OBVIOUS
<1>5. S \in SUBSET Nat
  OBVIOUS
<1> HIDE DEF R
<1>6. PICK k \in S : \A m \in S : ~(<<m, k>> \in R)
  <2> HIDE DEF S
  <2> QED BY <1>3, <1>4, <1>5, WFMin
<1>7. \A m \in S : ~(m < k)
  BY <1>5, <1>6 DEF R
<1>8. k \in 1 .. n /\ k \notin G
  BY <1>6
<1>9. k - 1 \in G
  BY <1>7, <1>8
<1> QED
  BY <1>8, <1>9

\* A factor distributes over a sum, on either side.
LEMMA Distribute ==
    ASSUME NEW a \in Int, NEW b \in Int, NEW c \in Int
    PROVE  (a + b) * c = a * c + b * c /\ c * (a + b) = c * a + c * b
OBVIOUS

\* Products of natural numbers are natural numbers.
LEMMA ProductNat ==
    ASSUME NEW a \in Nat, NEW b \in Nat
    PROVE  a * b \in Nat
OBVIOUS

\* Products grow with their factor.
LEMMA Grows ==
    ASSUME NEW a \in Nat, NEW b \in Nat, NEW c \in Nat, a <= b
    PROVE  a * c <= b * c
<1>1. PICK d \in Nat : b = a + d
  <2>1. b - a \in Nat /\ b = a + (b - a)
    OBVIOUS
  <2> QED BY <2>1
<1>2. b * c = a * c + d * c
  BY <1>1, Distribute
<1>3. a * c \in Nat /\ d * c \in Nat
  BY ProductNat
<1> QED
  BY <1>2, <1>3

\* Quotient and remainder of what is written as a multiple and a rest.
LEMMA RestOf ==
    ASSUME NEW m \in Nat \ {0}, NEW k \in Nat, NEW r \in 0 .. (m - 1)
    PROVE  (k * m + r) % m = r /\ (k * m + r) \div m = k
<1> DEFINE x == k * m + r
           q == x \div m
           s == x % m
<1>1. k * m \in Nat
  BY ProductNat
<1>2. x \in Nat
  BY <1>1
<1> HIDE DEF x
<1>3. q \in Int /\ s \in 0 .. (m - 1) /\ x = m * q + s
  BY <1>2
<1>4. PICK e \in Int : e = k - q
  BY <1>3
<1> HIDE DEF q, s
<1>5. k = q + e
  BY <1>3, <1>4
<1>6. k * m = m * q + m * e
  BY <1>3, <1>5, Distribute
<1>7. m * e = s - r
  <2>1. m * q \in Int /\ m * e \in Int
    BY <1>3
  <2>2. m * q + m * e + r = m * q + s
    BY <1>3, <1>6 DEF x
  <2> QED BY <1>3, <2>1, <2>2
<1>8. CASE e >= 1
  <2>1. m * e >= m
    BY <1>8
  <2> QED BY <1>3, <1>7, <2>1
<1>9. CASE e <= -1
  <2>1. m * e <= -m
    BY <1>9
  <2> QED BY <1>3, <1>7, <2>1
<1>10. CASE e = 0
  <2>1. s = r /\ q = k
    BY <1>3, <1>5, <1>7, <1>10
  <2> QED BY <2>1 DEF s, q, x
<1> QED
  BY <1>8, <1>9, <1>10

-----------------------------------------------------------------------------
(* Powers of two.                                                          *)

\* f gives the first powers, up to the one with exponent n.
ArePowers(f, n) == f = [k \in 0 .. n |-> IF k = 0 THEN 1 ELSE 2 * f[k - 1]]

\* Powers are defined by their recursion.
LEMMA PowerStep ==
    \A n \in 0 .. MaxMerkleHeight : Power[n] = IF n = 0 THEN 1 ELSE 2 * Power[n - 1]
<1> DEFINE N == MaxMerkleHeight
           G == {n \in 0 .. N : \E f : ArePowers(f, n)}
<1>0. N \in Nat
  BY DEF MaxMerkleHeight
<1>1. 0 \in G
  <2>1. ArePowers([k \in 0 .. 0 |-> 1], 0)
    BY DEF ArePowers
  <2> QED BY <1>0, <2>1
<1>2. ASSUME NEW n \in 1 .. N, n - 1 \in G PROVE n \in G
  <2>1. PICK f : ArePowers(f, n - 1)
    BY <1>2
  <2> DEFINE g == [k \in 0 .. n |-> IF k = n THEN 2 * f[n - 1] ELSE f[k]]
  <2>2. ASSUME NEW k \in 0 .. n PROVE g[k] = IF k = 0 THEN 1 ELSE 2 * g[k - 1]
    <3>1. CASE k = n
      BY <1>0, <3>1
    <3>2. CASE k # n
      <4>1. k \in 0 .. (n - 1) /\ k - 1 # n
        BY <1>0, <3>2
      <4>2. f[k] = IF k = 0 THEN 1 ELSE 2 * f[k - 1]
        BY <2>1, <4>1 DEF ArePowers
      <4> QED BY <1>0, <3>2, <4>1, <4>2
    <3> QED BY <3>1, <3>2
  <2>3. g = [k \in 0 .. n |-> IF k = 0 THEN 1 ELSE 2 * g[k - 1]]
    BY <2>2
  <2>4. ArePowers(g, n)
    BY <2>3 DEF ArePowers
  <2> QED BY <2>4
<1>3. \E f : ArePowers(f, N)
  <2> HIDE DEF G, N
  <2>1. \A n \in 0 .. N : n \in G
    BY <1>0, <1>1, <1>2, UpToN
  <2>2. N \in G
    BY <1>0, <2>1
  <2> QED BY <2>2 DEF G
<1> DEFINE power == CHOOSE f : ArePowers(f, N)
<1>4. ArePowers(power, N)
  BY <1>3
<1>5. Power = [n \in 0 .. N |-> power[n]]
  BY DEF Power, ArePowers
<1> HIDE DEF power
<1>6. power = [n \in 0 .. N |-> IF n = 0 THEN 1 ELSE 2 * power[n - 1]]
  BY <1>4 DEF ArePowers
<1>7. ASSUME NEW n \in 0 .. N PROVE Power[n] = IF n = 0 THEN 1 ELSE 2 * Power[n - 1]
  <2>1. Power[n] = power[n] /\ (n # 0 => Power[n - 1] = power[n - 1])
    BY <1>0, <1>5
  <2>2. power[n] = IF n = 0 THEN 1 ELSE 2 * power[n - 1]
    BY <1>6
  <2> QED BY <2>1, <2>2
<1> QED
  BY <1>7

\* Powers are positive.
LEMMA PowerNat ==
    \A n \in 0 .. MaxMerkleHeight : Power[n] \in Nat \ {0}
<1> DEFINE N == MaxMerkleHeight
           G == {n \in 0 .. N : Power[n] \in Nat \ {0}}
<1>0. N \in Nat
  BY DEF MaxMerkleHeight
<1>1. 0 \in G
  BY <1>0, PowerStep
<1>2. ASSUME NEW n \in 1 .. N, n - 1 \in G PROVE n \in G
  <2>1. Power[n] = 2 * Power[n - 1]
    BY <1>0, PowerStep
  <2> QED BY <1>2, <2>1
<1> HIDE DEF G, N
<1>3. \A n \in 0 .. N : n \in G
  BY <1>0, <1>1, <1>2, UpToN
<1> QED
  BY <1>3 DEF G, N

\* A power of a sum is the product of the powers.
LEMMA PowerSum ==
    ASSUME NEW a \in Nat, NEW b \in Nat, a + b <= MaxMerkleHeight
    PROVE  Power[a + b] = Power[b] * Power[a]
<1> DEFINE G == {n \in 0 .. b : Power[a + n] = Power[n] * Power[a]}
<1>0. MaxMerkleHeight \in Nat
  BY DEF MaxMerkleHeight
<1>1. 0 \in G
  <2>1. Power[0] = 1 /\ Power[a] \in Nat
    BY <1>0, PowerStep, PowerNat
  <2> QED BY <2>1
<1>2. ASSUME NEW n \in 1 .. b, n - 1 \in G PROVE n \in G
  <2>1. a + n \in 0 .. MaxMerkleHeight /\ n \in 0 .. MaxMerkleHeight
        /\ a \in 0 .. MaxMerkleHeight /\ n - 1 \in 0 .. MaxMerkleHeight
    BY <1>0
  <2>2. Power[a + n] = 2 * Power[a + (n - 1)]
    <3>1. Power[a + n] = 2 * Power[(a + n) - 1]
      BY <1>0, <2>1, PowerStep
    <3>2. (a + n) - 1 = a + (n - 1)
      OBVIOUS
    <3> QED BY <3>1, <3>2
  <2>3. Power[n] = 2 * Power[n - 1]
    BY <1>0, <2>1, PowerStep
  <2>4. Power[a + (n - 1)] = Power[n - 1] * Power[a]
    BY <1>2
  <2>5. PICK x \in Nat, y \in Nat : x = Power[a] /\ y = Power[n - 1]
    BY <2>1, PowerNat
  <2>6. 2 * (y * x) = (2 * y) * x
    <3>1. (y + y) * x = y * x + y * x
      BY Distribute
    <3>2. y * x \in Nat /\ y + y = 2 * y
      BY ProductNat
    <3> QED BY <3>1, <3>2
  <2> QED BY <2>2, <2>3, <2>4, <2>5, <2>6
<1> HIDE DEF G
<1>3. \A n \in 0 .. b : n \in G
  BY <1>1, <1>2, UpToN
<1> QED
  BY <1>3 DEF G

\* Powers grow with the exponent.
LEMMA PowerLess ==
    ASSUME NEW a \in Nat, NEW b \in Nat, a < b, b <= MaxMerkleHeight
    PROVE  Power[a] < Power[b]
<1> DEFINE G == {n \in 0 .. (b - (a + 1)) : Power[a] < Power[(a + 1) + n]}
<1>0. MaxMerkleHeight \in Nat /\ b - (a + 1) \in Nat
  BY DEF MaxMerkleHeight
<1>1. 0 \in G
  <2>1. Power[a + 1] = 2 * Power[a] /\ Power[a] \in Nat \ {0}
    <3>1. a + 1 \in 0 .. MaxMerkleHeight /\ a \in 0 .. MaxMerkleHeight /\ (a + 1) - 1 = a
      BY <1>0
    <3> QED BY <3>1, PowerStep, PowerNat
  <2> QED BY <1>0, <2>1
<1>2. ASSUME NEW n \in 1 .. (b - (a + 1)), n - 1 \in G PROVE n \in G
  <2>1. (a + 1) + n \in 0 .. MaxMerkleHeight /\ (a + 1) + (n - 1) \in 0 .. MaxMerkleHeight
        /\ ((a + 1) + n) - 1 = (a + 1) + (n - 1) /\ a \in 0 .. MaxMerkleHeight
    BY <1>0
  <2>2. Power[(a + 1) + n] = 2 * Power[(a + 1) + (n - 1)]
    BY <2>1, PowerStep
  <2>3. Power[(a + 1) + (n - 1)] \in Nat /\ Power[a] \in Nat
    BY <2>1, PowerNat
  <2> QED BY <1>2, <2>2, <2>3
<1> HIDE DEF G
<1>3. \A n \in 0 .. (b - (a + 1)) : n \in G
  BY <1>0, <1>1, <1>2, UpToN
<1>4. Power[a] < Power[(a + 1) + (b - (a + 1))]
  BY <1>0, <1>3 DEF G
<1>5. (a + 1) + (b - (a + 1)) = b
  OBVIOUS
<1> QED
  BY <1>4, <1>5

\* The highest tree has fewer leaves than the number that marks a subtree as done.
LEMMA PowerBound ==
    \A n \in 0 .. MaxMerkleHeight : Power[n] < MaxSubindex
<1>1. Power[0] = 1 /\ \A n \in 1 .. 25 : Power[n] = 2 * Power[n - 1]
  BY PowerStep DEF MaxMerkleHeight
<1>2. Power[1] = 2 /\ Power[2] = 4 /\ Power[3] = 8 /\ Power[4] = 16 /\ Power[5] = 32
  BY <1>1
<1>3. Power[6] = 64 /\ Power[7] = 128 /\ Power[8] = 256 /\ Power[9] = 512 /\ Power[10] = 1024
  BY <1>1, <1>2
<1>4. Power[11] = 2048 /\ Power[12] = 4096 /\ Power[13] = 8192 /\ Power[14] = 16384
      /\ Power[15] = 32768
  BY <1>1, <1>3
<1>5. Power[16] = 65536 /\ Power[17] = 131072 /\ Power[18] = 262144 /\ Power[19] = 524288
      /\ Power[20] = 1048576
  BY <1>1, <1>4
<1>6. Power[21] = 2097152 /\ Power[22] = 4194304 /\ Power[23] = 8388608
      /\ Power[24] = 16777216 /\ Power[25] = 33554432
  BY <1>1, <1>5
<1>7. ASSUME NEW n \in 0 .. MaxMerkleHeight PROVE Power[n] < MaxSubindex
  <2>1. n = 25 \/ (n < 25 /\ n \in Nat)
    BY DEF MaxMerkleHeight
  <2>2. n < 25 => Power[n] < Power[25]
    BY <2>1, PowerLess DEF MaxMerkleHeight
  <2>3. Power[n] \in Nat
    BY PowerNat
  <2> QED BY <1>6, <2>1, <2>2, <2>3 DEF MaxSubindex
<1> QED
  BY <1>7

-----------------------------------------------------------------------------
(* The sizes of trees and subtrees.                                        *)

\* d divides n.
Divides(d, n) == \E k \in Nat : n = k * d

\* The numbers of a key.
LEMMA KeyFields ==
    ASSUME key \in Keys
    PROVE  /\ Levels \in Nat \ {0}
           /\ \A i \in 1 .. Levels :
                 key.height[i] \in 1 .. MaxMerkleHeight /\ key.size[i] \in Nat \ {0}
<1>1. /\ key.height \in Seq(1 .. MaxMerkleHeight) /\ key.height # <<>>
      /\ key.size \in Seq(Nat \ {0}) /\ Len(key.size) = Len(key.height)
  BY KeysAssumption
<1> DEFINE h == key.height
           z == key.size
<1> HIDE DEF h, z
<1>2. h \in Seq(1 .. MaxMerkleHeight) /\ h # <<>> /\ z \in Seq(Nat \ {0}) /\ Len(z) = Len(h)
  BY <1>1 DEF h, z
<1>3. Len(h) \in Nat \ {0}
  BY <1>2
<1>4. ASSUME NEW i \in 1 .. Len(h) PROVE h[i] \in 1 .. MaxMerkleHeight /\ z[i] \in Nat \ {0}
  <2>1. h[i] \in 1 .. MaxMerkleHeight
    BY <1>2, <1>3 DEF MaxMerkleHeight
  <2>2. z[i] \in Nat \ {0}
    <3>1. i \in 1 .. Len(z)
      BY <1>2
    <3> QED BY <1>2, <3>1
  <2> QED BY <2>1, <2>2
<1> QED
  BY <1>3, <1>4 DEF h, z, Levels

\* Quotients that are rounded up.
LEMMA CeilingOf ==
    ASSUME NEW h \in Nat \ {0}, NEW z \in Nat \ {0}
    PROVE  LET s == (h + z - 1) \div z
           IN  /\ s \in 1 .. h /\ (s - 1) * z < h /\ s * z >= h
               /\ (h <= z => s = 1) /\ (h > z => s >= 2)
<1> DEFINE s == (h + z - 1) \div z
<1>1. h + z - 1 \in Nat
  OBVIOUS
<1>2. s \in Int /\ (h + z - 1) % z \in 0 .. (z - 1) /\ h + z - 1 = z * s + ((h + z - 1) % z)
  BY <1>1
<1> HIDE DEF s
<1>3. z * s <= h + z - 1 /\ z * s >= h
  <2>1. z * s \in Int
    BY <1>2
  <2> QED BY <1>2, <2>1
<1>4. s >= 1
  <2>1. CASE s <= 0
    <3>1. -s \in Nat /\ -s + s = 0
      BY <1>2, <2>1
    <3>2. z * (-s + s) = z * (-s) + z * s
      BY <1>2, <3>1, Distribute
    <3>3. z * (-s) \in Nat /\ z * 0 = 0 /\ z * s \in Int
      BY <1>2, <3>1, ProductNat
    <3> QED BY <1>3, <3>1, <3>2, <3>3
  <2> QED BY <1>2, <2>1
<1>5. (s - 1) * z = z * s - z /\ s * z = z * s
  <2>1. (s + (-1)) * z = s * z + (-1) * z
    BY <1>2, Distribute
  <2>2. s * z = z * s /\ s * z \in Int
    BY <1>2
  <2> QED BY <1>2, <2>1, <2>2
<1>6. (s - 1) * z < h
  BY <1>2, <1>3, <1>5
<1>7. s <= h
  <2>1. (s - 1) * z >= s - 1
    <3>1. s - 1 \in Nat /\ 1 <= z
      BY <1>2, <1>4
    <3>2. 1 * (s - 1) <= z * (s - 1)
      BY <3>1, Grows
    <3>3. z * (s - 1) = (s - 1) * z
      BY <3>1
    <3> QED BY <3>1, <3>2, <3>3
  <2> QED BY <1>2, <1>6, <2>1
<1>8. h <= z => s = 1
  <2>1. CASE h <= z /\ s >= 2
    <3>1. s - 1 \in Nat /\ 1 <= s - 1
      BY <1>2, <2>1
    <3>2. 1 * z <= (s - 1) * z
      BY <3>1, Grows
    <3>3. PICK y \in Nat : y = (s - 1) * z
      BY <3>1, ProductNat
    <3>4. z <= y /\ y < h
      BY <1>6, <3>2, <3>3
    <3> QED BY <2>1, <3>3, <3>4
  <2>2. s = 1 \/ s >= 2
    BY <1>2, <1>4
  <2> QED BY <2>1, <2>2
<1>9. h > z => s >= 2
  <2>1. CASE h > z /\ s = 1
    BY <1>3, <2>1
  <2> QED BY <1>2, <1>4, <2>1
<1> QED
  BY <1>2, <1>4, <1>5, <1>6, <1>7, <1>8, <1>9, <1>3 DEF s

\* A subtree covers the nodes of the one below it; the lowest ends in leaves.
LevelsFit(i, j) ==
    /\ LevelsBelow(i, j) \in 0 .. (key.height[i] - 1)
    /\ j = SubLevels(i) => LevelsBelow(i, j) = 0
    /\ j >= 2 => /\ LevelsBelow(i, j) + key.size[i] = LevelsBelow(i, j - 1)
                 /\ LevelsBelow(i, j - 1) \in 0 .. (key.height[i] - 1)

\* Subtrees divide the levels of a tree; the last one stands on its leaves.
LEMMA LevelsOfSubtrees ==
    ASSUME key \in Keys, NEW i \in 1 .. Levels
    PROVE  SubLevels(i) \in 1 .. key.height[i] /\ \A j \in 1 .. SubLevels(i) : LevelsFit(i, j)
<1> DEFINE h == key.height[i]
           z == key.size[i]
           s == SubLevels(i)
<1>1. h \in Nat \ {0} /\ z \in Nat \ {0}
  BY KeyFields DEF MaxMerkleHeight
<1>2. s \in 1 .. h /\ (s - 1) * z < h
  <2> HIDE DEF h, z
  <2>1. s = (h + z - 1) \div z
    BY DEF SubLevels, h, z
  <2> QED BY <1>1, <2>1, CeilingOf
<1>3. ASSUME NEW j \in 1 .. s PROVE (s - j) * z \in 0 .. (h - 1)
  <2>1. s - j \in Nat /\ s - 1 \in Nat /\ s - j <= s - 1
    BY <1>1, <1>2
  <2>2. (s - j) * z <= (s - 1) * z
    BY <1>1, <2>1, Grows
  <2>3. (s - j) * z \in Nat /\ (s - 1) * z \in Nat
    BY <1>1, <2>1, ProductNat
  <2> QED BY <1>1, <1>2, <2>2, <2>3
<1>4. ASSUME NEW j \in 1 .. s PROVE LevelsFit(i, j)
  <2>1. \A k \in 1 .. s : LevelsBelow(i, k) = (s - k) * z
    BY DEF LevelsBelow
  <2>2. LevelsBelow(i, j) \in 0 .. (h - 1)
    BY <1>3, <2>1
  <2>3. j = s => LevelsBelow(i, j) = 0
    <3>1. 0 * z = 0
      BY <1>1
    <3>2. j = s => s - j = 0
      BY <1>2
    <3> QED BY <2>1, <3>1, <3>2
  <2>4. ASSUME j >= 2
        PROVE  LevelsBelow(i, j) + z = LevelsBelow(i, j - 1)
               /\ LevelsBelow(i, j - 1) \in 0 .. (h - 1)
    <3>1. j - 1 \in 1 .. s /\ s - (j - 1) = (s - j) + 1 /\ s - j \in Int
      BY <1>2, <2>4
    <3>2. ((s - j) + 1) * z = (s - j) * z + 1 * z
      <4> HIDE DEF s, z
      <4> QED BY <1>1, <3>1, Distribute
    <3>3. LevelsBelow(i, j - 1) = ((s - j) + 1) * z
      BY <2>1, <3>1
    <3>4. LevelsBelow(i, j - 1) \in 0 .. (h - 1)
      BY <1>3, <2>1, <3>1
    <3> QED BY <1>1, <2>1, <3>2, <3>3, <3>4
  <2> QED BY <2>2, <2>3, <2>4 DEF LevelsFit
<1> QED
  BY <1>2, <1>4

\* Leaves and spans are positive, and each span divides the one above it.
SpansFit(i, j) ==
    /\ Span(i, j) \in Nat \ {0} /\ NodeSpan(i, j) \in Nat \ {0}
    /\ NodeSpan(i, j) < Span(i, j) /\ Span(i, j) <= Leaves(i)
    /\ Divides(NodeSpan(i, j), Span(i, j)) /\ Divides(Span(i, j), Leaves(i))
    /\ j = 1 => Span(i, j) = Leaves(i)
    /\ j >= 2 => Span(i, j) = NodeSpan(i, j - 1) /\ Span(i, j) < Leaves(i)
    /\ j = SubLevels(i) => NodeSpan(i, j) = 1

\* What the sizes of a tree and of its subtrees have to do with each other.
TreeFits(i) ==
    /\ Leaves(i) \in Nat /\ Leaves(i) >= 2 /\ Leaves(i) < MaxSubindex
    /\ MaxIndex(i) = Leaves(i) - 1
    /\ SubLevels(i) \in 1 .. MaxMerkleHeight
    /\ \A j \in 1 .. SubLevels(i) : SpansFit(i, j)

\* The spans of a subtree and of the one below it fit into each other and into the tree.
LEMMA SpansOfSubtrees ==
    ASSUME key \in Keys, NEW i \in 1 .. Levels, NEW j \in 1 .. SubLevels(i)
    PROVE  SpansFit(i, j)
<1> DEFINE h == key.height[i]
           z == key.size[i]
           b == LevelsBelow(i, j)
           up == IF j = 1 THEN h ELSE b + z
<1>1. h \in 1 .. 25 /\ z \in Nat \ {0}
  BY KeyFields DEF MaxMerkleHeight
<1>2. LevelsFit(i, j) /\ SubLevels(i) \in Nat
  BY LevelsOfSubtrees
<1>3. b \in 0 .. (h - 1) /\ (j # 1 => j >= 2)
  BY <1>2 DEF LevelsFit
<1>4. up \in 1 .. h /\ b < up /\ (j # 1 => up < h)
  <2>1. CASE j = 1
    BY <1>1, <1>3, <2>1
  <2>2. CASE j # 1
    <3>1. b + z \in 0 .. (h - 1)
      BY <1>2, <1>3, <2>2 DEF LevelsFit
    <3> QED BY <1>1, <1>3, <2>2, <3>1
  <2> QED BY <2>1, <2>2
<1>5. Span(i, j) = Power[up] /\ NodeSpan(i, j) = Power[b] /\ Leaves(i) = Power[h]
  BY DEF Span, NodeSpan, Leaves
<1> HIDE DEF up, b, h, z
<1>6. Power[up] \in Nat \ {0} /\ Power[b] \in Nat \ {0} /\ Power[h] \in Nat \ {0}
  BY <1>1, <1>3, <1>4, PowerNat DEF MaxMerkleHeight
<1>7. Power[b] < Power[up]
  BY <1>1, <1>3, <1>4, PowerLess DEF MaxMerkleHeight
<1>8. Divides(Power[b], Power[up])
  <2>1. b \in Nat /\ up - b \in Nat /\ b + (up - b) = up /\ up <= 25
    BY <1>1, <1>3, <1>4
  <2>2. Power[up] = Power[up - b] * Power[b]
    BY <2>1, PowerSum DEF MaxMerkleHeight
  <2>3. Power[up - b] \in Nat
    BY <1>1, <1>3, <1>4, PowerNat DEF MaxMerkleHeight
  <2> QED BY <2>2, <2>3 DEF Divides
<1>9. Divides(Power[up], Power[h])
  <2>1. up \in Nat /\ h - up \in Nat /\ up + (h - up) = h /\ h <= 25
    BY <1>1, <1>3, <1>4
  <2>2. Power[h] = Power[h - up] * Power[up]
    BY <2>1, PowerSum DEF MaxMerkleHeight
  <2>3. Power[h - up] \in Nat
    BY <1>1, <1>4, PowerNat DEF MaxMerkleHeight
  <2> QED BY <2>2, <2>3 DEF Divides
<1>10. Power[up] <= Power[h] /\ (j # 1 => Power[up] < Power[h])
  <2>1. up = h \/ up < h
    BY <1>1, <1>4
  <2>2. ASSUME up < h PROVE Power[up] < Power[h]
    <3>1. up \in Nat /\ h \in Nat /\ h <= MaxMerkleHeight
      BY <1>1, <1>4 DEF MaxMerkleHeight
    <3> QED BY <2>2, <3>1, PowerLess
  <2> QED BY <1>4, <1>6, <2>1, <2>2
<1>11. j >= 2 => Span(i, j) = NodeSpan(i, j - 1)
  <2>1. j >= 2 => up = LevelsBelow(i, j - 1)
    BY <1>2 DEF LevelsFit, up, b, z
  <2> QED BY <1>5, <2>1 DEF NodeSpan
<1>12. j = SubLevels(i) => Power[b] = 1
  BY <1>2, PowerStep DEF LevelsFit, b, MaxMerkleHeight
<1>13. j = 1 => up = h
  BY DEF up
<1> QED
  BY <1>3, <1>5, <1>6, <1>7, <1>8, <1>9, <1>10, <1>11, <1>12, <1>13 DEF SpansFit

\* Every level of a key has a tree whose subtrees fit.
LEMMA TreesFit ==
    ASSUME key \in Keys
    PROVE  Levels \in Nat \ {0} /\ \A i \in 1 .. Levels : TreeFits(i)
<1>1. Levels \in Nat \ {0}
  BY KeyFields
<1>2. ASSUME NEW i \in 1 .. Levels PROVE TreeFits(i)
  <2>1. key.height[i] \in 1 .. 25
    BY KeyFields DEF MaxMerkleHeight
  <2>2. Leaves(i) = Power[key.height[i]]
    BY DEF Leaves
  <2>3. Leaves(i) \in Nat
    BY <2>1, <2>2, PowerNat DEF MaxMerkleHeight
  <2>4. Leaves(i) < MaxSubindex
    BY <2>1, <2>2, PowerBound DEF MaxMerkleHeight
  <2>5. Leaves(i) >= 2
    <3>1. Power[key.height[i]] = 2 * Power[key.height[i] - 1]
      BY <2>1, PowerStep DEF MaxMerkleHeight
    <3>2. Power[key.height[i] - 1] \in Nat \ {0}
      BY <2>1, PowerNat DEF MaxMerkleHeight
    <3> QED BY <2>2, <3>1, <3>2
  <2>6. SubLevels(i) \in 1 .. MaxMerkleHeight
    BY <2>1, LevelsOfSubtrees DEF MaxMerkleHeight
  <2> QED BY <2>3, <2>4, <2>5, <2>6, SpansOfSubtrees DEF TreeFits, MaxIndex
<1> QED
  BY <1>1, <1>2

\* The updates that the tree of level i gives its parent.
Generated(i) == IF SubLevels(i) = 1 THEN Leaves(i) ELSE Span(i, 2)

\* They are more than the parent needs: one for each BUILDING subtree, one for its
\* NEXT tree and one to pass on.
LEMMA UpdatesGiven ==
    ASSUME key \in Keys, NEW i \in 2 .. Levels
    PROVE  Generated(i) > SubLevels(i - 1) + 1 /\ Generated(i) \in 1 .. Leaves(i)
<1> DEFINE h == key.height[i]
           z == key.size[i]
<1>0. i \in 1 .. Levels /\ i - 1 \in 1 .. Levels /\ Levels \in Nat
  BY TreesFit
<1>1. h \in Nat \ {0} /\ z \in Nat \ {0}
  BY <1>0, KeyFields DEF MaxMerkleHeight
<1>2. UpdatesGenerated(h, z) > UpdatesRequired(key.height[i - 1], key.size[i - 1])
  BY KeysAssumption DEF Levels
<1>3. UpdatesRequired(key.height[i - 1], key.size[i - 1]) = SubLevels(i - 1) + 1
  BY DEF UpdatesRequired, SubLevels
<1>4. SubLevels(i) = (h + z - 1) \div z
  BY DEF SubLevels
<1>5. (h <= z => SubLevels(i) = 1) /\ (h > z => SubLevels(i) >= 2) /\ SubLevels(i) \in Nat
  <2> HIDE DEF h, z
  <2> QED BY <1>1, <1>4, CeilingOf
<1>6. UpdatesGenerated(h, z) = Generated(i)
  <2>1. CASE h <= z
    BY <1>5, <2>1 DEF UpdatesGenerated, Generated, Leaves
  <2>2. CASE ~(h <= z)
    <3>1. SubLevels(i) >= 2
      BY <1>1, <1>5, <2>2
    <3>2. LevelsFit(i, 2)
      BY <1>0, <1>5, <3>1, LevelsOfSubtrees
    <3>3. LevelsBelow(i, 2) + z = LevelsBelow(i, 1)
      BY <3>2 DEF LevelsFit
    <3>4. LevelsBelow(i, 1) = (SubLevels(i) - 1) * z
      BY DEF LevelsBelow
    <3>5. UpdatesGenerated(h, z) = Power[(SubLevels(i) - 1) * z]
      BY <1>4, <2>2 DEF UpdatesGenerated
    <3>6. Span(i, 2) = Power[LevelsBelow(i, 2) + z]
      BY DEF Span
    <3> QED BY <1>5, <3>1, <3>3, <3>4, <3>5, <3>6 DEF Generated
  <2> QED BY <2>1, <2>2
<1>7. Generated(i) \in 1 .. Leaves(i)
  <2>1. TreeFits(i)
    BY <1>0, TreesFit
  <2>2. CASE SubLevels(i) = 1
    BY <2>1, <2>2 DEF Generated, TreeFits
  <2>3. CASE SubLevels(i) # 1
    <3>1. 2 \in 1 .. SubLevels(i)
      BY <2>1, <2>3 DEF TreeFits
    <3>2. SpansFit(i, 2)
      BY <2>1, <3>1 DEF TreeFits
    <3>3. Generated(i) = Span(i, 2)
      BY <2>3 DEF Generated
    <3> QED BY <2>1, <3>2, <3>3 DEF SpansFit, TreeFits
  <2> QED BY <2>2, <2>3
<1> QED
  BY <1>2, <1>3, <1>6, <1>7

-----------------------------------------------------------------------------
(* Counts as numbers with a digit for each level.                          *)

\* Induction from the bottom level up.
LEMMA FromBelow ==
    ASSUME NEW n \in Nat, NEW G, n + 1 \in G, \A i \in 1 .. n : i + 1 \in G => i \in G
    PROVE  \A i \in 1 .. (n + 1) : i \in G
<1> DEFINE H == {k \in 0 .. n : n + 1 - k \in G}
<1>1. 0 \in H
  OBVIOUS
<1>2. ASSUME NEW k \in 1 .. n, k - 1 \in H PROVE k \in H
  <2>1. n + 1 - k \in 1 .. n /\ (n + 1 - k) + 1 = n + 1 - (k - 1)
    OBVIOUS
  <2> QED BY <1>2, <2>1
<1> HIDE DEF H
<1>3. \A k \in 0 .. n : k \in H
  BY <1>1, <1>2, UpToN
<1>4. ASSUME NEW i \in 1 .. (n + 1) PROVE i \in G
  <2>1. n + 1 - i \in 0 .. n /\ n + 1 - (n + 1 - i) = i
    OBVIOUS
  <2>2. n + 1 - i \in H
    BY <1>3, <2>1
  <2> QED BY <2>1, <2>2 DEF H
<1> QED
  BY <1>4

\* f gives the products of the numbers of leaves from level m down.
AreCapacities(f, m) ==
    f = [i \in m .. (Levels + 1) |-> IF i > Levels THEN 1 ELSE Leaves(i) * f[i + 1]]

\* Capacities are defined by their recursion.
LEMMA CapacityStep ==
    ASSUME key \in Keys
    PROVE  \A i \in 1 .. (Levels + 1) :
              Capacity(i) = IF i > Levels THEN 1 ELSE Leaves(i) * Capacity(i + 1)
<1> DEFINE n == Levels
           G == {m \in 1 .. (n + 1) : \E f : AreCapacities(f, m)}
<1>0. n \in Nat
  BY TreesFit
<1>1. n + 1 \in G
  <2>1. AreCapacities([i \in (n + 1) .. (n + 1) |-> 1], n + 1)
    BY <1>0 DEF AreCapacities
  <2> QED BY <1>0, <2>1
<1>2. ASSUME NEW m \in 1 .. n, m + 1 \in G PROVE m \in G
  <2>1. PICK f : AreCapacities(f, m + 1)
    BY <1>2
  <2> DEFINE g == [i \in m .. (n + 1) |-> IF i = m THEN Leaves(m) * f[m + 1] ELSE f[i]]
  <2>2. ASSUME NEW i \in m .. (n + 1)
        PROVE  g[i] = IF i > n THEN 1 ELSE Leaves(i) * g[i + 1]
    <3>1. CASE i = m
      <4>1. m + 1 \in m .. (n + 1) /\ m + 1 # m
        BY <1>0
      <4>2. g[m + 1] = f[m + 1] /\ g[m] = Leaves(m) * f[m + 1] /\ ~(m > n)
        BY <1>0, <4>1
      <4> QED BY <3>1, <4>2
    <3>2. CASE i # m
      <4>1. i \in (m + 1) .. (n + 1) /\ i + 1 # m
        BY <1>0, <3>2
      <4>2. f[i] = IF i > n THEN 1 ELSE Leaves(i) * f[i + 1]
        BY <2>1, <4>1 DEF AreCapacities
      <4>3. ~(i > n) => i + 1 \in m .. (n + 1)
        BY <1>0
      <4>4. ~(i > n) => g[i + 1] = f[i + 1]
        BY <4>1, <4>3
      <4> QED BY <3>2, <4>2, <4>4
    <3> QED BY <3>1, <3>2
  <2>3. g = [i \in m .. (n + 1) |-> IF i > n THEN 1 ELSE Leaves(i) * g[i + 1]]
    BY <2>2
  <2>4. AreCapacities(g, m)
    BY <2>3 DEF AreCapacities
  <2> QED BY <1>0, <2>4
<1>3. \E f : AreCapacities(f, 1)
  <2> HIDE DEF G, n
  <2>1. \A m \in 1 .. (n + 1) : m \in G
    BY <1>0, <1>1, <1>2, FromBelow
  <2>2. 1 \in G
    BY <1>0, <2>1
  <2> QED BY <2>2 DEF G
<1>4. AreCapacities(Capacities, 1)
  BY <1>3 DEF AreCapacities, Capacities
<1>5. Capacities = [i \in 1 .. (n + 1) |-> IF i > n THEN 1 ELSE Leaves(i) * Capacities[i + 1]]
  BY <1>4 DEF AreCapacities
<1>6. \A i \in 1 .. (n + 1) : Capacities[i] = IF i > n THEN 1 ELSE Leaves(i) * Capacities[i + 1]
  BY <1>5
<1> QED
  BY <1>6 DEF Capacity

\* Capacities are positive.
LEMMA CapacityNat ==
    ASSUME key \in Keys
    PROVE  \A i \in 1 .. (Levels + 1) : Capacity(i) \in Nat \ {0}
<1> DEFINE G == {i \in 1 .. (Levels + 1) : Capacity(i) \in Nat \ {0}}
<1>0. Levels \in Nat /\ \A i \in 1 .. Levels : Leaves(i) \in Nat \ {0}
  BY TreesFit DEF TreeFits
<1>1. Levels + 1 \in G
  BY <1>0, CapacityStep
<1>2. ASSUME NEW i \in 1 .. Levels, i + 1 \in G PROVE i \in G
  <2>1. Capacity(i) = Leaves(i) * Capacity(i + 1)
    BY <1>0, CapacityStep
  <2>2. PICK a \in Nat \ {0}, c \in Nat \ {0} : a = Leaves(i) /\ c = Capacity(i + 1)
    BY <1>0, <1>2
  <2>3. a * c \in Nat \ {0}
    <3>1. 1 * c <= a * c
      BY Grows
    <3> QED BY <3>1, ProductNat
  <2> QED BY <1>0, <2>1, <2>2, <2>3
<1> HIDE DEF G
<1>3. \A i \in 1 .. (Levels + 1) : i \in G
  BY <1>0, <1>1, <1>2, FromBelow
<1> QED
  BY <1>3 DEF G

\* The values of the first 0 to Levels digits.
Values(d) ==
    LET v[i \in 0 .. Levels] == IF i = 0 THEN 0 ELSE v[i - 1] * Leaves(i) + d[i] IN v

\* The number that the digits d write, one for each level.
Value(d) == Values(d)[Levels]

AreValues(f, n, d) == f = [i \in 0 .. n |-> IF i = 0 THEN 0 ELSE f[i - 1] * Leaves(i) + d[i]]

\* Values are defined by their recursion.
LEMMA ValuesStep ==
    ASSUME key \in Keys, NEW d
    PROVE  \A i \in 0 .. Levels :
              Values(d)[i] = IF i = 0 THEN 0 ELSE Values(d)[i - 1] * Leaves(i) + d[i]
<1> DEFINE N == Levels
           G == {n \in 0 .. N : \E f : AreValues(f, n, d)}
<1>0. N \in Nat
  BY TreesFit
<1>1. 0 \in G
  <2>1. AreValues([k \in 0 .. 0 |-> 0], 0, d)
    BY DEF AreValues
  <2> QED BY <1>0, <2>1
<1>2. ASSUME NEW n \in 1 .. N, n - 1 \in G PROVE n \in G
  <2>1. PICK f : AreValues(f, n - 1, d)
    BY <1>2
  <2> DEFINE g == [k \in 0 .. n |-> IF k = n THEN f[n - 1] * Leaves(n) + d[n] ELSE f[k]]
  <2>2. ASSUME NEW k \in 0 .. n
        PROVE  g[k] = IF k = 0 THEN 0 ELSE g[k - 1] * Leaves(k) + d[k]
    <3>1. CASE k = n
      <4>1. n - 1 \in 0 .. n /\ n - 1 # n /\ n # 0
        BY <1>0
      <4>2. g[n - 1] = f[n - 1] /\ g[n] = f[n - 1] * Leaves(n) + d[n]
        BY <4>1
      <4> QED BY <3>1, <4>1, <4>2
    <3>2. CASE k # n
      <4>1. k \in 0 .. (n - 1) /\ k - 1 # n /\ (k # 0 => k - 1 \in 0 .. n)
        BY <1>0, <3>2
      <4>2. f[k] = IF k = 0 THEN 0 ELSE f[k - 1] * Leaves(k) + d[k]
        BY <2>1, <4>1 DEF AreValues
      <4>3. k # 0 => g[k - 1] = f[k - 1]
        BY <4>1
      <4> QED BY <3>2, <4>2, <4>3
    <3> QED BY <3>1, <3>2
  <2>3. g = [k \in 0 .. n |-> IF k = 0 THEN 0 ELSE g[k - 1] * Leaves(k) + d[k]]
    BY <2>2
  <2>4. AreValues(g, n, d)
    BY <2>3 DEF AreValues
  <2> QED BY <2>4
<1>3. \E f : AreValues(f, N, d)
  <2> HIDE DEF G, N
  <2>1. \A n \in 0 .. N : n \in G
    BY <1>0, <1>1, <1>2, UpToN
  <2>2. N \in G
    BY <1>0, <2>1
  <2> QED BY <2>2 DEF G
<1>4. AreValues(Values(d), N, d)
  BY <1>3 DEF AreValues, Values
<1>5. Values(d) = [i \in 0 .. N |->
                      IF i = 0 THEN 0 ELSE Values(d)[i - 1] * Leaves(i) + d[i]]
  BY <1>4 DEF AreValues
<1> QED
  BY <1>5

-----------------------------------------------------------------------------
(* Remainders.                                                             *)

\* A factor may be moved out of a product of three.
LEMMA Regroup ==
    ASSUME NEW a \in Int, NEW b \in Int, NEW c \in Int
    PROVE  (a * b) * c = a * (b * c) /\ a * b = b * a
OBVIOUS

\* Division with remainder.
LEMMA Quotient ==
    ASSUME NEW x \in Nat, NEW m \in Nat \ {0}
    PROVE  /\ x % m \in 0 .. (m - 1) /\ x \div m \in Nat
           /\ x = (x \div m) * m + (x % m)
<1>1. x \div m \in Int /\ x % m \in 0 .. (m - 1) /\ x = m * (x \div m) + (x % m)
  OBVIOUS
<1>2. PICK q \in Int, r \in 0 .. (m - 1) : q = x \div m /\ r = x % m
  BY <1>1
<1>3. x = m * q + r
  BY <1>1, <1>2
<1>4. q >= 0
  <2>1. SUFFICES ASSUME q <= -1 PROVE FALSE
    BY <1>2
  <2>2. PICK p \in Nat : q = -1 - p
    <3>1. -1 - q \in Nat /\ q = -1 - (-1 - q)
      BY <1>2, <2>1
    <3> QED BY <3>1
  <2>3. m * p \in Nat
    BY ProductNat
  <2>4. m * ((-1) + (-p)) = m * (-1) + m * (-p)
    BY Distribute
  <2>5. m * (p + (-p)) = m * p + m * (-p) /\ m * 0 = 0 /\ p + (-p) = 0
    BY <2>2, Distribute
  <2>6. m * (-p) = -(m * p)
    <3>1. m * (-p) \in Int
      BY <2>2
    <3> QED BY <2>3, <2>5, <3>1
  <2>7. q = (-1) + (-p) /\ m * (-1) = -m
    BY <2>2
  <2> QED BY <1>3, <2>3, <2>4, <2>6, <2>7
<1>5. m * q = q * m
  BY <1>2, Regroup
<1> QED
  BY <1>2, <1>3, <1>4, <1>5

\* The remainder of a sum of a multiple and a number is that of the number.
LEMMA RemainderOfSum ==
    ASSUME NEW m \in Nat \ {0}, NEW k \in Nat, NEW x \in Nat
    PROVE  (k * m + x) % m = x % m
<1>1. PICK q \in Nat, r \in 0 .. (m - 1) : q = x \div m /\ r = x % m /\ x = q * m + r
  BY Quotient
<1>2. (k + q) * m = k * m + q * m
  BY Distribute
<1>3. k * m + x = (k + q) * m + r
  <2>1. k * m \in Nat /\ q * m \in Nat
    BY ProductNat
  <2> QED BY <1>1, <1>2, <2>1
<1>4. ((k + q) * m + r) % m = r
  <2>1. k + q \in Nat
    OBVIOUS
  <2> QED BY <2>1, RestOf
<1> QED
  BY <1>1, <1>3, <1>4

\* Multiples leave no remainder.
LEMMA MultipleOf ==
    ASSUME NEW x \in Nat, NEW m \in Nat \ {0}
    PROVE  x % m = 0 <=> Divides(m, x)
<1>1. ASSUME x % m = 0 PROVE Divides(m, x)
  <2>1. x = (x \div m) * m + (x % m) /\ x \div m \in Nat
    BY Quotient
  <2>2. PICK q \in Nat : q = x \div m
    BY <2>1
  <2>3. x = q * m
    <3>1. q * m \in Nat
      BY ProductNat
    <3> QED BY <1>1, <2>1, <2>2, <3>1
  <2> QED BY <2>3 DEF Divides
<1>2. ASSUME Divides(m, x) PROVE x % m = 0
  <2>1. PICK k \in Nat : x = k * m
    BY <1>2 DEF Divides
  <2>2. x = k * m + 0
    BY <2>1
  <2>3. 0 \in 0 .. (m - 1)
    OBVIOUS
  <2>4. (k * m + 0) % m = 0
    BY <2>3, RestOf
  <2> QED BY <2>2, <2>4
<1> QED
  BY <1>1, <1>2

\* The next number leaves a remainder one higher, or none.
LEMMA NextRemainder ==
    ASSUME NEW x \in Nat, NEW m \in Nat \ {0}
    PROVE  /\ x % m = m - 1 => (x + 1) % m = 0
           /\ x % m # m - 1 => (x + 1) % m = (x % m) + 1
           /\ x % m \in 0 .. (m - 1)
<1>1. PICK q \in Nat, r \in 0 .. (m - 1) : q = x \div m /\ r = x % m /\ x = q * m + r
  BY Quotient
<1>2. q * m \in Nat
  BY ProductNat
<1>3. CASE r = m - 1
  <2>1. (q + 1) * m = q * m + 1 * m
    BY Distribute
  <2>2. x + 1 = (q + 1) * m
    BY <1>1, <1>2, <1>3, <2>1
  <2>3. Divides(m, x + 1) /\ x + 1 \in Nat
    <3>1. PICK p \in Nat : p = q + 1
      OBVIOUS
    <3>2. x + 1 = p * m
      BY <2>2, <3>1
    <3>3. Divides(m, x + 1)
      BY <3>2, Zenon DEF Divides
    <3> QED BY <3>3
  <2>4. (x + 1) % m = 0
    BY <2>3, MultipleOf
  <2> QED BY <1>1, <1>3, <2>4
<1>4. CASE r # m - 1
  <2>1. r + 1 \in 0 .. (m - 1) /\ x + 1 = q * m + (r + 1)
    BY <1>1, <1>2, <1>4
  <2>2. (q * m + (r + 1)) % m = r + 1
    BY <2>1, RestOf
  <2> QED BY <1>1, <1>4, <2>1, <2>2
<1> QED
  BY <1>3, <1>4

\* Numbers from one multiple to the next start at the same one.
LEMMA StartOf ==
    ASSUME NEW x \in Nat, NEW m \in Nat \ {0}
    PROVE  /\ x - (x % m) \in Nat /\ Divides(m, x - (x % m))
           /\ x - (x % m) <= x /\ x < (x - (x % m)) + m
           /\ (x + 1) % m # 0 => (x + 1) - ((x + 1) % m) = x - (x % m)
           /\ (x + 1) % m = 0 => (x + 1) - ((x + 1) % m) = (x - (x % m)) + m
<1>1. PICK q \in Nat, r \in 0 .. (m - 1) : q = x \div m /\ r = x % m /\ x = q * m + r
  BY Quotient
<1>2. q * m \in Nat
  BY ProductNat
<1>3. x - r = q * m
  BY <1>1, <1>2
<1>4. x - (x % m) \in Nat /\ Divides(m, x - (x % m))
  BY <1>1, <1>2, <1>3 DEF Divides
<1>5. x - (x % m) <= x /\ x < (x - (x % m)) + m
  BY <1>1
<1>6. r = m - 1 => (x + 1) % m = 0
  BY <1>1, NextRemainder
<1>7. r # m - 1 => (x + 1) % m = r + 1
  BY <1>1, NextRemainder
<1> QED
  BY <1>1, <1>4, <1>5, <1>6, <1>7

\* A multiple below a multiple is below it by m at least.
LEMMA MultipleBelow ==
    ASSUME NEW m \in Nat \ {0}, NEW x \in Nat, NEW y \in Nat,
           Divides(m, x), Divides(m, y), x < y
    PROVE  x + m <= y
<1>1. PICK k \in Nat, l \in Nat : x = k * m /\ y = l * m
  BY DEF Divides
<1>2. k < l
  <2>1. CASE l <= k
    <3>1. l * m <= k * m
      BY <2>1, Grows
    <3>2. k * m \in Nat /\ l * m \in Nat
      BY ProductNat
    <3> QED BY <1>1, <3>1, <3>2
  <2> QED BY <2>1
<1>3. (k + 1) * m <= l * m
  <2>1. k + 1 <= l /\ k + 1 \in Nat
    BY <1>2
  <2> QED BY <2>1, Grows
<1>4. (k + 1) * m = k * m + 1 * m
  BY Distribute
<1>5. k * m \in Nat /\ l * m \in Nat
  BY ProductNat
<1> QED
  BY <1>1, <1>3, <1>4, <1>5

\* Divisors of divisors.
LEMMA DividesOn ==
    ASSUME NEW a \in Nat, NEW b \in Nat, NEW c \in Nat, Divides(a, b), Divides(b, c)
    PROVE  Divides(a, c)
<1>1. PICK k \in Nat, l \in Nat : b = k * a /\ c = l * b
  BY DEF Divides
<1>2. (l * k) * a = l * (k * a) /\ l * k \in Nat
  BY Regroup, ProductNat
<1> QED
  BY <1>1, <1>2 DEF Divides

-----------------------------------------------------------------------------
(* Digits and the trees that a count uses up.                              *)

\* Digits of a count: each numbers a leaf of its level.
AreDigits(d) == \A k \in 1 .. Levels : d[k] \in 0 .. (Leaves(k) - 1)

\* The digits from level i on are the last leaves.
Full(d, i) == \A k \in i .. Levels : d[k] = Leaves(k) - 1

\* What the digits from level i on contribute.
Low(d, i) == Value(d) - Values(d)[i - 1] * Capacity(i)

\* Leaves and capacities as numbers.
LEMMA Numbers ==
    ASSUME key \in Keys
    PROVE  /\ Levels \in Nat \ {0}
           /\ \A i \in 1 .. Levels : Leaves(i) \in Nat /\ Leaves(i) >= 2
           /\ \A i \in 1 .. (Levels + 1) : Capacity(i) \in Nat \ {0}
           /\ \A i \in 1 .. Levels : Capacity(i) = Leaves(i) * Capacity(i + 1)
           /\ Capacity(Levels + 1) = 1
<1>1. Levels \in Nat \ {0} /\ \A i \in 1 .. Levels : Leaves(i) \in Nat /\ Leaves(i) >= 2
  BY TreesFit DEF TreeFits
<1>2. \A i \in 1 .. (Levels + 1) :
         Capacity(i) = IF i > Levels THEN 1 ELSE Leaves(i) * Capacity(i + 1)
  BY CapacityStep
<1>3. ASSUME NEW i \in 1 .. Levels PROVE Capacity(i) = Leaves(i) * Capacity(i + 1)
  BY <1>1, <1>2
<1>4. Capacity(Levels + 1) = 1
  BY <1>1, <1>2
<1> QED
  BY <1>1, <1>3, <1>4, CapacityNat

\* Values of natural numbers are natural numbers.
LEMMA ValuesNat ==
    ASSUME key \in Keys, NEW d, \A k \in 1 .. Levels : d[k] \in Nat
    PROVE  \A i \in 0 .. Levels : Values(d)[i] \in Nat
<1> DEFINE G == {i \in 0 .. Levels : Values(d)[i] \in Nat}
<1>0. Levels \in Nat
  BY Numbers
<1>1. 0 \in G
  BY <1>0, ValuesStep
<1>2. ASSUME NEW i \in 1 .. Levels, i - 1 \in G PROVE i \in G
  <2>1. Values(d)[i] = Values(d)[i - 1] * Leaves(i) + d[i]
    BY <1>0, ValuesStep
  <2>2. PICK a \in Nat, b \in Nat, c \in Nat :
           a = Values(d)[i - 1] /\ b = Leaves(i) /\ c = d[i]
    BY <1>2, Numbers
  <2>3. a * b \in Nat
    BY ProductNat
  <2> QED BY <2>1, <2>2, <2>3
<1> HIDE DEF G
<1>3. \A i \in 0 .. Levels : i \in G
  BY <1>0, <1>1, <1>2, UpToN
<1> QED
  BY <1>3 DEF G

\* The contribution of a digit and those below it.
LEMMA LowStep ==
    ASSUME key \in Keys, NEW d, \A k \in 1 .. Levels : d[k] \in Nat
    PROVE  /\ \A i \in 1 .. Levels : Low(d, i) = d[i] * Capacity(i + 1) + Low(d, i + 1)
           /\ Low(d, Levels + 1) = 0
           /\ \A i \in 1 .. (Levels + 1) :
                 Low(d, i) \in Int /\ Value(d) = Values(d)[i - 1] * Capacity(i) + Low(d, i)
<1>0. Levels \in Nat \ {0}
  BY Numbers
<1>1. ASSUME NEW i \in 1 .. (Levels + 1)
      PROVE  Low(d, i) \in Int /\ Value(d) = Values(d)[i - 1] * Capacity(i) + Low(d, i)
  <2>1. i - 1 \in 0 .. Levels /\ Levels \in 0 .. Levels
    BY <1>0
  <2>2. PICK a \in Nat, c \in Nat, v \in Nat :
           a = Values(d)[i - 1] /\ c = Capacity(i) /\ v = Value(d)
    BY <2>1, ValuesNat, Numbers DEF Value
  <2>3. a * c \in Nat
    BY ProductNat
  <2> QED BY <2>2, <2>3 DEF Low
<1>2. ASSUME NEW i \in 1 .. Levels
      PROVE  Low(d, i) = d[i] * Capacity(i + 1) + Low(d, i + 1)
  <2>1. i \in 0 .. Levels /\ i - 1 \in 0 .. Levels /\ i + 1 \in 1 .. (Levels + 1)
        /\ i \in 1 .. (Levels + 1) /\ (i + 1) - 1 = i /\ i # 0
    BY <1>0
  <2>2. PICK a \in Nat, b \in Nat, c \in Nat, e \in Nat, v \in Nat :
           a = Values(d)[i - 1] /\ b = Leaves(i) /\ c = Capacity(i + 1) /\ e = d[i] /\ v = Values(d)[i]
    BY <2>1, ValuesNat, Numbers
  <2>3. v = a * b + e
    BY <2>1, <2>2, ValuesStep
  <2>4. Capacity(i) = b * c
    BY <2>2, Numbers
  <2>5. v * c = (a * b) * c + e * c
    <3>1. a * b \in Nat
      BY ProductNat
    <3> QED BY <2>3, <3>1, Distribute
  <2>6. (a * b) * c = a * (b * c)
    BY Regroup
  <2>7. Value(d) = a * (b * c) + Low(d, i) /\ Value(d) = v * c + Low(d, i + 1)
    BY <1>1, <2>1, <2>2, <2>4
  <2>8. Low(d, i) \in Int /\ Low(d, i + 1) \in Int /\ a * (b * c) \in Nat /\ e * c \in Nat
    BY <1>1, <2>1, ProductNat
  <2> DEFINE ec == e * c
             abc == a * (b * c)
             vc == v * c
  <2>9. vc = abc + ec /\ Value(d) = abc + Low(d, i) /\ Value(d) = vc + Low(d, i + 1)
        /\ abc \in Nat /\ ec \in Nat
    BY <2>5, <2>6, <2>7, <2>8
  <2>10. Low(d, i) = ec + Low(d, i + 1)
    <3> HIDE DEF ec, abc, vc
    <3>1. PICK w \in Int, y \in Int : w = Low(d, i) /\ y = Low(d, i + 1)
      BY <2>8
    <3> QED BY <2>9, <3>1
  <2> QED BY <2>2, <2>10
<1>3. Low(d, Levels + 1) = 0
  <2>1. (Levels + 1) - 1 = Levels /\ Capacity(Levels + 1) = 1 /\ Levels \in 0 .. Levels
    BY <1>0, Numbers
  <2>2. Value(d) \in Nat /\ Values(d)[Levels] = Value(d)
    BY <2>1, ValuesNat DEF Value
  <2> QED BY <2>1, <2>2 DEF Low
<1> QED
  BY <1>1, <1>2, <1>3

\* It is less than the capacity, and by one only if all digits are the last leaves.
LEMMA LowRange ==
    ASSUME key \in Keys, NEW d, AreDigits(d)
    PROVE  \A i \in 1 .. (Levels + 1) :
              /\ Low(d, i) \in 0 .. (Capacity(i) - 1)
              /\ Low(d, i) = Capacity(i) - 1 <=> Full(d, i)
<1>0. Levels \in Nat \ {0} /\ \A k \in 1 .. Levels : d[k] \in Nat
  BY Numbers DEF AreDigits
<1> DEFINE G == {i \in 1 .. (Levels + 1) :
                    /\ Low(d, i) \in 0 .. (Capacity(i) - 1)
                    /\ Low(d, i) = Capacity(i) - 1 <=> Full(d, i)}
<1>1. Levels + 1 \in G
  <2>1. Low(d, Levels + 1) = 0 /\ Capacity(Levels + 1) = 1
    BY <1>0, LowStep, Numbers
  <2>2. Full(d, Levels + 1)
    BY <1>0 DEF Full
  <2> QED BY <1>0, <2>1, <2>2
<1>2. ASSUME NEW i \in 1 .. Levels, i + 1 \in G PROVE i \in G
  <2>1. PICK b \in Nat \ {0}, c \in Nat \ {0}, e \in Nat, l \in Nat :
           /\ e < b /\ l < c /\ b = Leaves(i) /\ c = Capacity(i + 1) /\ e = d[i] /\ l = Low(d, i + 1)
    <3>1. i + 1 \in 1 .. (Levels + 1)
      BY <1>0
    <3>2. Leaves(i) \in Nat \ {0} /\ Capacity(i + 1) \in Nat \ {0}
      BY <3>1, Numbers
    <3> QED BY <1>2, <3>2 DEF AreDigits
  <2>2. Low(d, i) = e * c + l /\ Capacity(i) = b * c
    BY <1>0, <2>1, LowStep, Numbers
  <2>3. Full(d, i) <=> e = b - 1 /\ Full(d, i + 1)
    <3>1. i .. Levels = {i} \cup ((i + 1) .. Levels)
      BY <1>0
    <3> QED BY <2>1, <3>1 DEF Full
  <2>4. l = c - 1 <=> Full(d, i + 1)
    BY <1>2, <2>1
  <2>5. PICK p \in Nat : p = b - 1
    OBVIOUS
  <2>6. b * c = p * c + c
    <3>1. (p + 1) * c = p * c + 1 * c
      BY Distribute
    <3> QED BY <2>5, <3>1
  <2>7. e * c <= p * c /\ p * c \in Nat /\ e * c \in Nat
    <3>1. e <= p
      BY <2>1, <2>5
    <3> QED BY <3>1, Grows, ProductNat
  <2>8. e # p => e * c + c <= p * c
    <3>1. ASSUME e # p PROVE (e + 1) * c <= p * c
      <4>1. e + 1 <= p /\ e + 1 \in Nat
        BY <2>1, <2>5, <3>1
      <4> QED BY <4>1, Grows
    <3>2. (e + 1) * c = e * c + 1 * c
      BY Distribute
    <3> QED BY <2>7, <3>1, <3>2
  <2> DEFINE ec == e * c
             pc == p * c
             bc == b * c
  <2>12. ec \in Nat /\ pc \in Nat /\ bc = pc + c /\ ec <= pc /\ (e # p => ec + c <= pc)
         /\ (e = p => ec = pc)
    BY <2>6, <2>7, <2>8
  <2>13. ec + l \in 0 .. (bc - 1)
    <3> HIDE DEF ec, pc, bc
    <3> QED BY <2>1, <2>12
  <2>14. ec + l = bc - 1 <=> e = p /\ l = c - 1
    <3> HIDE DEF ec, pc, bc
    <3> QED BY <2>1, <2>12
  <2>9. e * c + l \in 0 .. (b * c - 1)
    BY <2>13
  <2>10. e * c + l = b * c - 1 <=> e = p /\ l = c - 1
    BY <2>14
  <2>11. i \in 1 .. (Levels + 1)
    BY <1>0
  <2> QED BY <2>2, <2>3, <2>4, <2>5, <2>9, <2>10, <2>11
<1> HIDE DEF G
<1>3. \A i \in 1 .. (Levels + 1) : i \in G
  BY <1>0, <1>1, <1>2, FromBelow
<1> QED
  BY <1>3 DEF G

\* Digits are found again in the value.
LEMMA DigitOfValue ==
    ASSUME key \in Keys, NEW d, AreDigits(d), NEW i \in 1 .. Levels
    PROVE  (Value(d) % Capacity(i)) \div Capacity(i + 1) = d[i]
<1>0. /\ Levels \in Nat \ {0} /\ \A k \in 1 .. Levels : d[k] \in Nat
      /\ i \in 1 .. (Levels + 1) /\ i + 1 \in 1 .. (Levels + 1) /\ i - 1 \in 0 .. Levels
  BY Numbers DEF AreDigits
<1>1. PICK a \in Nat, m \in Nat \ {0}, r \in Nat :
         r \in 0 .. (m - 1) /\ a = Values(d)[i - 1] /\ m = Capacity(i) /\ r = Low(d, i)
  <2>1. Values(d)[i - 1] \in Nat /\ Capacity(i) \in Nat \ {0} /\ Low(d, i) \in 0 .. (Capacity(i) - 1)
    BY <1>0, ValuesNat, Numbers, LowRange
  <2> QED BY <2>1
<1>2. PICK c \in Nat \ {0}, l \in Nat, e \in Nat :
         l \in 0 .. (c - 1) /\ c = Capacity(i + 1) /\ l = Low(d, i + 1) /\ e = d[i]
  BY <1>0, Numbers, LowRange
<1>3. Value(d) = a * m + r /\ r = e * c + l
  BY <1>0, <1>1, <1>2, LowStep
<1>4. (a * m + r) % m = r
  BY <1>1, RestOf
<1>5. (e * c + l) \div c = e
  BY <1>2, RestOf
<1> QED
  BY <1>1, <1>2, <1>3, <1>4, <1>5

\* A count is a multiple of the capacity of a level if it is the last one of the tree
\* of that level.
LEMMA UsedUpByDigits ==
    ASSUME key \in Keys, NEW d, AreDigits(d), NEW i \in 1 .. (Levels + 1)
    PROVE  (Value(d) + 1) % Capacity(i) = 0 <=> Full(d, i)
<1>0. /\ Levels \in Nat \ {0} /\ \A k \in 1 .. Levels : d[k] \in Nat /\ i - 1 \in 0 .. Levels
  BY Numbers DEF AreDigits
<1>1. PICK a \in Nat, m \in Nat \ {0}, r \in Nat :
         r \in 0 .. (m - 1) /\ a = Values(d)[i - 1] /\ m = Capacity(i) /\ r = Low(d, i)
  <2>1. Values(d)[i - 1] \in Nat /\ Capacity(i) \in Nat \ {0} /\ Low(d, i) \in 0 .. (Capacity(i) - 1)
    BY <1>0, ValuesNat, Numbers, LowRange
  <2> QED BY <2>1
<1>2. Value(d) = a * m + r /\ a * m \in Nat
  BY <1>0, <1>1, LowStep, ProductNat
<1>3. (a * m + r) % m = r /\ a * m + r \in Nat
  <2>1. (a * m + r) % m = r
    BY <1>1, RestOf
  <2> QED BY <1>2, <2>1
<1>4. (r = m - 1) <=> ((a * m + r) + 1) % m = 0
  <2>1. PICK x \in Nat : x = a * m + r
    BY <1>3
  <2>2. x % m = r
    BY <1>3, <2>1
  <2>3. (x % m = m - 1 => (x + 1) % m = 0) /\ (x % m # m - 1 => (x + 1) % m = (x % m) + 1)
    BY NextRemainder
  <2> QED BY <2>1, <2>2, <2>3
<1>5. r = m - 1 <=> Full(d, i)
  BY <1>1, LowRange
<1> QED
  BY <1>1, <1>2, <1>4, <1>5

\* It is the last one of a part of that tree if, besides, the trees below are used up
\* and the leaf is the last one of the part.
LEMMA EndsByDigits ==
    ASSUME key \in Keys, NEW d, AreDigits(d), NEW i \in 1 .. Levels,
           NEW s \in Nat \ {0}, Divides(s, Leaves(i))
    PROVE  (Value(d) + 1) % (Capacity(i + 1) * s) = 0 <=> Full(d, i + 1) /\ (d[i] + 1) % s = 0
<1>0. /\ Levels \in Nat \ {0} /\ \A k \in 1 .. Levels : d[k] \in Nat
      /\ i + 1 \in 1 .. (Levels + 1) /\ (i + 1) - 1 = i /\ i \in 0 .. Levels /\ i - 1 \in 0 .. Levels
  BY Numbers DEF AreDigits
<1>1. PICK c \in Nat \ {0}, v \in Nat, l \in Nat, x \in Nat :
         l \in 0 .. (c - 1) /\ c = Capacity(i + 1) /\ v = Values(d)[i] /\ l = Low(d, i + 1) /\ x = Value(d) + 1
  <2>1. Values(d)[i] \in Nat /\ Value(d) \in Nat
    BY <1>0, ValuesNat DEF Value
  <2> QED BY <1>0, <2>1, Numbers, LowRange
<1>2. x = v * c + l + 1 /\ v * c \in Nat
  BY <1>0, <1>1, LowStep, ProductNat
<1>3. x % c = 0 <=> Full(d, i + 1)
  BY <1>0, <1>1, UsedUpByDigits
<1>4. l = c - 1 <=> Full(d, i + 1)
  BY <1>0, <1>1, LowRange
<1>5. c * s \in Nat \ {0}
  <2>1. 1 * s <= c * s
    BY Grows
  <2> QED BY <2>1, ProductNat
<1>6. ASSUME x % (c * s) = 0 PROVE Full(d, i + 1) /\ (v + 1) % s = 0
  <2>1. PICK k \in Nat : x = k * (c * s)
    BY <1>5, <1>6, MultipleOf DEF Divides
  <2>2. k * (c * s) = (k * s) * c /\ k * s \in Nat
    <3>1. c * s = s * c /\ (k * s) * c = k * (s * c)
      BY Regroup
    <3> QED BY <3>1, ProductNat
  <2>3. Divides(c, x)
    BY <2>1, <2>2 DEF Divides
  <2>4. l = c - 1
    BY <1>3, <1>4, <2>3, MultipleOf
  <2>5. x = (v + 1) * c
    <3>1. (v + 1) * c = v * c + 1 * c
      BY Distribute
    <3> QED BY <1>2, <2>4, <3>1
  <2>6. v + 1 = k * s
    <3>1. PICK a \in Nat, b \in Nat : a = v + 1 /\ b = k * s
      BY <2>2
    <3>2. a * c = b * c
      BY <2>1, <2>2, <2>5, <3>1
    <3>3. (a * c) \div c = a /\ (b * c) \div c = b
      <4>1. 0 \in 0 .. (c - 1)
        OBVIOUS
      <4>2. (a * c + 0) \div c = a /\ (b * c + 0) \div c = b
        BY <4>1, RestOf
      <4>3. a * c + 0 = a * c /\ b * c + 0 = b * c
        BY ProductNat
      <4> QED BY <4>2, <4>3
    <3> QED BY <3>1, <3>2, <3>3
  <2>7. Divides(s, v + 1)
    BY <2>6, Zenon DEF Divides
  <2>8. (v + 1) % s = 0
    <3>1. v + 1 \in Nat
      OBVIOUS
    <3> QED BY <2>7, <3>1, MultipleOf
  <2> QED BY <1>4, <2>4, <2>8
<1>7. ASSUME Full(d, i + 1), (v + 1) % s = 0 PROVE x % (c * s) = 0
  <2>1. PICK k \in Nat : v + 1 = k * s
    <3>1. v + 1 \in Nat
      OBVIOUS
    <3> QED BY <1>7, <3>1, MultipleOf DEF Divides
  <2>2. (v + 1) * c = v * c + 1 * c
    BY Distribute
  <2>3. x = (k * s) * c
    BY <1>2, <1>4, <1>7, <2>1, <2>2
  <2>4. (k * s) * c = k * (c * s)
    <3>1. (k * s) * c = k * (s * c) /\ s * c = c * s
      BY Regroup
    <3> QED BY <3>1
  <2>5. Divides(c * s, x)
    BY <2>3, <2>4 DEF Divides
  <2> QED BY <1>5, <2>5, MultipleOf
<1>8. (v + 1) % s = (d[i] + 1) % s
  <2>1. PICK a \in Nat, e \in Nat, k \in Nat :
           a = Values(d)[i - 1] /\ e = d[i] /\ Leaves(i) = k * s
    BY <1>0, ValuesNat DEF Divides
  <2>2. v = a * (k * s) + e
    <3>1. i # 0
      OBVIOUS
    <3> QED BY <1>0, <1>1, <2>1, <3>1, ValuesStep
  <2>3. a * (k * s) = (a * k) * s /\ a * k \in Nat
    BY Regroup, ProductNat
  <2>4. PICK b \in Nat : b = a * k
    BY <2>3
  <2>5. v + 1 = b * s + (e + 1)
    <3>1. b * s \in Nat
      BY ProductNat
    <3> QED BY <2>2, <2>3, <2>4, <3>1
  <2>6. (b * s + (e + 1)) % s = (e + 1) % s
    <3>1. e + 1 \in Nat
      OBVIOUS
    <3> QED BY <3>1, RemainderOfSum
  <2> QED BY <2>1, <2>5, <2>6
<1> QED
  BY <1>1, <1>6, <1>7, <1>8

-----------------------------------------------------------------------------
(* Counting.                                                               *)

\* Values of integers are integers, and they agree as far as the digits do.
LEMMA ValuesAgree ==
    ASSUME key \in Keys, NEW d, NEW e, NEW n \in 0 .. Levels,
           \A k \in 1 .. n : d[k] \in Int /\ d[k] = e[k]
    PROVE  \A i \in 0 .. n : Values(d)[i] \in Int /\ Values(d)[i] = Values(e)[i]
<1> DEFINE G == {i \in 0 .. n : Values(d)[i] \in Int /\ Values(d)[i] = Values(e)[i]}
<1>0. Levels \in Nat
  BY Numbers
<1>1. 0 \in G
  BY <1>0, ValuesStep
<1>2. ASSUME NEW i \in 1 .. n, i - 1 \in G PROVE i \in G
  <2>1. i \in 0 .. Levels /\ i # 0 /\ i \in 1 .. Levels
    BY <1>0
  <2>2. /\ Values(d)[i] = Values(d)[i - 1] * Leaves(i) + d[i]
        /\ Values(e)[i] = Values(e)[i - 1] * Leaves(i) + e[i]
    BY <2>1, ValuesStep
  <2>3. PICK a \in Int, b \in Int, c \in Int :
           a = Values(d)[i - 1] /\ b = Leaves(i) /\ c = d[i]
    BY <1>2, <2>1, Numbers
  <2>4. Values(d)[i] = a * b + c /\ Values(e)[i] = a * b + c
    BY <1>2, <2>2, <2>3
  <2> QED BY <2>4
<1> HIDE DEF G
<1>3. \A i \in 0 .. n : i \in G
  BY <1>0, <1>1, <1>2, UpToN
<1> QED
  BY <1>3 DEF G

\* Digits that are 0 contribute nothing.
LEMMA LowOfZeros ==
    ASSUME key \in Keys, NEW d, \A k \in 1 .. Levels : d[k] \in Nat, NEW p \in 1 .. Levels,
           \A k \in (p + 1) .. Levels : d[k] = 0
    PROVE  Low(d, p + 1) = 0
<1> DEFINE G == {i \in 1 .. (Levels + 1) : i > p => Low(d, i) = 0}
<1>0. Levels \in Nat
  BY Numbers
<1>1. Levels + 1 \in G
  BY <1>0, LowStep
<1>2. ASSUME NEW i \in 1 .. Levels, i + 1 \in G PROVE i \in G
  <2>1. CASE i > p
    <3>1. Low(d, i) = d[i] * Capacity(i + 1) + Low(d, i + 1)
      BY LowStep
    <3>2. d[i] = 0 /\ Low(d, i + 1) = 0 /\ Capacity(i + 1) \in Nat
      <4>1. i \in (p + 1) .. Levels /\ i + 1 \in 1 .. (Levels + 1) /\ i + 1 > p
        BY <1>0, <2>1
      <4> QED BY <1>2, <4>1, Numbers
    <3>3. 0 * Capacity(i + 1) = 0
      BY <3>2
    <3> QED BY <1>0, <3>1, <3>2, <3>3
  <2>2. CASE ~(i > p)
    BY <1>0, <2>2
  <2> QED BY <2>1, <2>2
<1> HIDE DEF G
<1>3. \A i \in 1 .. (Levels + 1) : i \in G
  BY <1>0, <1>1, <1>2, FromBelow
<1> QED
  BY <1>0, <1>3 DEF G

\* Counting on: a digit goes up by one and those below it, all the last, start anew.
LEMMA NextValue ==
    ASSUME key \in Keys, NEW d, NEW e, NEW p \in 1 .. Levels,
           AreDigits(d), Full(d, p + 1),
           \A k \in 1 .. (p - 1) : e[k] = d[k],
           e[p] = d[p] + 1,
           \A k \in (p + 1) .. Levels : e[k] = 0
    PROVE  Value(e) = Value(d) + 1
<1>0. /\ Levels \in Nat \ {0} /\ p \in 1 .. (Levels + 1) /\ p + 1 \in 1 .. (Levels + 1)
      /\ p - 1 \in 0 .. Levels
      /\ \A k \in 1 .. Levels : d[k] \in Nat
  BY Numbers DEF AreDigits
<1>1. \A k \in 1 .. Levels : e[k] \in Nat
  <2>1. ASSUME NEW k \in 1 .. Levels PROVE e[k] \in Nat
    <3>1. k \in 1 .. (p - 1) \/ k = p \/ k \in (p + 1) .. Levels
      BY <1>0
    <3> QED BY <1>0, <3>1
  <2> QED BY <2>1
<1>2. Values(d)[p - 1] = Values(e)[p - 1]
  <2>1. \A k \in 1 .. (p - 1) : d[k] \in Int /\ d[k] = e[k]
    BY <1>0
  <2>2. p - 1 \in 0 .. (p - 1)
    BY <1>0
  <2> QED BY <1>0, <2>1, <2>2, ValuesAgree
<1>3. Low(e, p + 1) = 0
  BY <1>1, LowOfZeros
<1>4. Low(d, p + 1) = Capacity(p + 1) - 1
  BY <1>0, LowRange
<1>5. /\ Value(d) = Values(d)[p - 1] * Capacity(p) + Low(d, p)
      /\ Value(e) = Values(e)[p - 1] * Capacity(p) + Low(e, p)
      /\ Low(d, p) = d[p] * Capacity(p + 1) + Low(d, p + 1)
      /\ Low(e, p) = e[p] * Capacity(p + 1) + Low(e, p + 1)
      /\ Low(d, p) \in Int
  BY <1>0, <1>1, LowStep
<1>6. PICK a \in Nat, m \in Nat, c \in Nat, x \in Nat :
         a = Values(d)[p - 1] /\ m = Capacity(p) /\ c = Capacity(p + 1) /\ x = d[p]
  BY <1>0, ValuesNat, Numbers
<1>7. (x + 1) * c = x * c + 1 * c
  BY Distribute
<1> DEFINE am == a * m
           xc == x * c
<1>8. am \in Nat /\ xc \in Nat
  BY ProductNat
<1>9. Value(d) = am + (xc + (c - 1)) /\ Value(e) = am + (xc + c + 0)
  BY <1>2, <1>3, <1>4, <1>5, <1>6, <1>7
<1> HIDE DEF am, xc
<1> QED
  BY <1>8, <1>9

\* s sums up the indices q as hss_generate_signature does: each is one ahead.
IsSum(s, q) ==
    s = [i \in 0 .. Levels |-> IF i = 0 THEN 0 ELSE s[i - 1] * Leaves(i) + q[i] - 1]

\* What is summed up is the value of the digits that are one less; there is such a sum.
LEMMA SumOfDigits ==
    ASSUME key \in Keys, NEW q, NEW d, \A i \in 1 .. Levels : q[i] \in Nat /\ d[i] = q[i] - 1
    PROVE  /\ \A i \in 0 .. Levels : Values(d)[i] \in Int
           /\ \E s : IsSum(s, q)
           /\ \A s : IsSum(s, q) => s[Levels] = Values(d)[Levels]
<1>0. Levels \in Nat \ {0}
  BY Numbers
<1>1. \A i \in 1 .. Levels : d[i] \in Int /\ d[i] = q[i] - 1 /\ q[i] \in Int
  OBVIOUS
<1>2. \A i \in 0 .. Levels : Values(d)[i] \in Int
  <2>1. Levels \in 0 .. Levels
    BY <1>0
  <2> QED BY <1>1, <2>1, ValuesAgree
<1>3. ASSUME NEW i \in 1 .. Levels
      PROVE  Values(d)[i] = Values(d)[i - 1] * Leaves(i) + q[i] - 1
  <2>1. i - 1 \in 0 .. Levels /\ i \in 0 .. Levels /\ i # 0
    BY <1>0
  <2>2. Values(d)[i] = Values(d)[i - 1] * Leaves(i) + d[i]
    BY <2>1, ValuesStep
  <2>3. PICK a \in Int, b \in Int, c \in Int :
           a = Values(d)[i - 1] /\ b = Leaves(i) /\ c = q[i]
    BY <1>1, <1>2, <2>1, Numbers
  <2>4. a * b + (c - 1) = a * b + c - 1
    <3>1. a * b \in Int
      OBVIOUS
    <3> QED BY <3>1
  <2> QED BY <1>1, <2>2, <2>3, <2>4
<1>4. IsSum([i \in 0 .. Levels |-> Values(d)[i]], q)
  <2> DEFINE w == [i \in 0 .. Levels |-> Values(d)[i]]
  <2>1. ASSUME NEW i \in 0 .. Levels
        PROVE  w[i] = IF i = 0 THEN 0 ELSE w[i - 1] * Leaves(i) + q[i] - 1
    <3>1. CASE i = 0
      BY <1>0, <3>1, ValuesStep
    <3>2. CASE i # 0
      <4>1. i - 1 \in 0 .. Levels /\ i \in 1 .. Levels
        BY <1>0, <3>2
      <4> QED BY <1>3, <3>2, <4>1
    <3> QED BY <3>1, <3>2
  <2> QED BY <2>1 DEF IsSum
<1>5. ASSUME NEW s, IsSum(s, q) PROVE s[Levels] = Values(d)[Levels]
  <2> DEFINE G == {i \in 0 .. Levels : s[i] = Values(d)[i]}
  <2>1. \A i \in 0 .. Levels : s[i] = IF i = 0 THEN 0 ELSE s[i - 1] * Leaves(i) + q[i] - 1
    BY <1>5 DEF IsSum
  <2>2. 0 \in G
    BY <1>0, <2>1, ValuesStep
  <2>3. ASSUME NEW i \in 1 .. Levels, i - 1 \in G PROVE i \in G
    <3>1. i \in 0 .. Levels /\ i # 0
      BY <1>0
    <3>2. s[i] = s[i - 1] * Leaves(i) + q[i] - 1
      BY <2>1, <3>1
    <3>3. s[i - 1] = Values(d)[i - 1]
      BY <2>3
    <3> QED BY <1>3, <3>1, <3>2, <3>3
  <2> HIDE DEF G
  <2>4. \A i \in 0 .. Levels : i \in G
    BY <1>0, <2>2, <2>3, UpToN
  <2> QED BY <1>0, <2>4 DEF G
<1> QED
  BY <1>2, <1>4, <1>5

\* The count is one more, the index of the bottom level not being ahead.
LEMMA ValueOfIndices ==
    ASSUME key \in Keys, NEW q, NEW e,
           \A i \in 1 .. Levels :
               q[i] \in Nat /\ e[i] = q[i] - (IF i = Bottom THEN 0 ELSE 1)
    PROVE  /\ \E s : IsSum(s, q)
           /\ \A s : IsSum(s, q) => s[Levels] + 1 = Value(e)
<1> DEFINE d == [i \in 1 .. Levels |-> q[i] - 1]
<1>0. Levels \in Nat \ {0}
  BY Numbers
<1>1. \A i \in 1 .. Levels : d[i] \in Int /\ d[i] = q[i] - 1
  OBVIOUS
<1> HIDE DEF d
<1>2. /\ \A i \in 0 .. Levels : Values(d)[i] \in Int
      /\ \E s : IsSum(s, q)
      /\ \A s : IsSum(s, q) => s[Levels] = Values(d)[Levels]
  BY <1>1, SumOfDigits
<1>3. Values(e)[Levels] = Values(d)[Levels] + 1
  <2>1. Levels - 1 \in 0 .. (Levels - 1) /\ Levels - 1 \in 0 .. Levels /\ Levels # 0
        /\ Levels \in 0 .. Levels /\ Levels \in 1 .. Levels
    BY <1>0
  <2>2. ASSUME NEW k \in 1 .. (Levels - 1) PROVE d[k] \in Int /\ d[k] = e[k]
    <3>1. k \in 1 .. Levels /\ k # Bottom
      BY <1>0 DEF Bottom
    <3> QED BY <1>1, <3>1
  <2>3. Values(d)[Levels - 1] = Values(e)[Levels - 1]
    BY <2>1, <2>2, ValuesAgree
  <2>4. /\ Values(d)[Levels] = Values(d)[Levels - 1] * Leaves(Levels) + d[Levels]
        /\ Values(e)[Levels] = Values(e)[Levels - 1] * Leaves(Levels) + e[Levels]
    BY <2>1, ValuesStep
  <2>5. e[Levels] = d[Levels] + 1 /\ d[Levels] \in Int
    BY <1>1, <2>1 DEF Bottom
  <2>6. PICK p \in Int : p = Values(d)[Levels - 1] * Leaves(Levels)
    BY <1>2, <2>1, Numbers
  <2> QED BY <2>3, <2>4, <2>5, <2>6
<1> QED
  BY <1>2, <1>3 DEF Value

\* Count is the value of the indices.
Indices == [i \in 1 .. Levels |-> tree[i].current_index - (IF i = Bottom THEN 0 ELSE 1)]

\* The count of the key is the number that its indices write.
LEMMA CountValue ==
    ASSUME key \in Keys, \A i \in 1 .. Levels : tree[i].current_index \in Nat
    PROVE  Count = Value(Indices)
<1> DEFINE q == [i \in 1 .. Levels |-> tree[i].current_index]
           F(f) == f = [i \in 0 .. Levels |->
                           IF i = 0 THEN 0
                           ELSE f[i - 1] * Leaves(i) + tree[i].current_index - 1]
           sum == CHOOSE f : F(f)
<1>0. Levels \in Nat \ {0}
  BY Numbers
<1>1. \A f : F(f) <=> IsSum(f, q)
  <2>1. ASSUME NEW f
        PROVE  [i \in 0 .. Levels |->
                   IF i = 0 THEN 0 ELSE f[i - 1] * Leaves(i) + tree[i].current_index - 1] =
               [i \in 0 .. Levels |->
                   IF i = 0 THEN 0 ELSE f[i - 1] * Leaves(i) + q[i] - 1]
    BY <1>0
  <2> QED BY <2>1 DEF IsSum
<1>2. \A i \in 1 .. Levels :
         q[i] \in Nat /\ Indices[i] = q[i] - (IF i = Bottom THEN 0 ELSE 1)
  BY DEF Indices
<1> HIDE DEF q
<1>3. /\ \E s : IsSum(s, q)
      /\ \A s : IsSum(s, q) => s[Levels] + 1 = Value(Indices)
  BY <1>2, ValueOfIndices
<1>4. F(sum)
  <2> HIDE DEF F
  <2> QED BY <1>1, <1>3
<1>5. Count = sum[Bottom] + 1
  BY DEF Count
<1> HIDE DEF sum, F
<1> QED
  BY <1>1, <1>3, <1>4, <1>5 DEF Bottom

\* The count of the next state is the value of its indices.
LEMMA NextCountValue ==
    ASSUME key \in Keys, key' = key, NEW e,
           \A i \in 1 .. Levels :
               /\ tree'[i].current_index \in Nat
               /\ e[i] = tree'[i].current_index - (IF i = Bottom THEN 0 ELSE 1)
    PROVE  Count' = Value(e)
<1> DEFINE q == [i \in 1 .. Levels |-> tree'[i].current_index]
           F(f) == f = [i \in 0 .. Levels' |->
                           IF i = 0 THEN 0
                           ELSE f[i - 1] * Leaves(i)' + tree'[i].current_index - 1]
           sum == CHOOSE f : F(f)
<1>0. Levels \in Nat \ {0} /\ Levels' = Levels /\ \A i : Leaves(i)' = Leaves(i)
  BY Numbers DEF Levels, Leaves
<1>1. \A f : F(f) <=> IsSum(f, q)
  <2>1. ASSUME NEW f
        PROVE  [i \in 0 .. Levels' |->
                   IF i = 0 THEN 0 ELSE f[i - 1] * Leaves(i)' + tree'[i].current_index - 1] =
               [i \in 0 .. Levels |->
                   IF i = 0 THEN 0 ELSE f[i - 1] * Leaves(i) + q[i] - 1]
    BY <1>0
  <2> QED BY <2>1 DEF IsSum
<1>2. \A i \in 1 .. Levels : q[i] \in Nat /\ e[i] = q[i] - (IF i = Bottom THEN 0 ELSE 1)
  OBVIOUS
<1> HIDE DEF q
<1>3. /\ \E s : IsSum(s, q)
      /\ \A s : IsSum(s, q) => s[Levels] + 1 = Value(e)
  BY <1>2, ValueOfIndices
<1>4. F(sum)
  <2> HIDE DEF F
  <2> QED BY <1>1, <1>3
<1>5. Count' = sum[Bottom'] + 1
  BY DEF Count
<1>6. Bottom' = Levels
  BY <1>0 DEF Bottom
<1> HIDE DEF sum, F
<1> QED
  BY <1>1, <1>3, <1>4, <1>5, <1>6

-----------------------------------------------------------------------------
(* Least and greatest elements.                                            *)

\* The least element of a set of numbers.
LEMMA LeastOf ==
    ASSUME NEW S, S \subseteq Nat, S # {}
    PROVE  Min(S) \in S /\ \A y \in S : Min(S) <= y
<1> DEFINE R == {ss \in Nat \X Nat : ss[1] < ss[2]}
<1>1. IsWellFoundedOn(OpToRel(<, Nat), Nat)
  BY NatLessThanWellFounded
<1>2. OpToRel(<, Nat) = R
  BY DEF OpToRel
<1>3. IsWellFoundedOn(R, Nat)
  BY <1>1, <1>2
<1> HIDE DEF R
<1>4. PICK k \in S : \A m \in S : ~(<<m, k>> \in R)
  BY <1>3, WFMin
<1>5. \A m \in S : ~(m < k)
  BY <1>4 DEF R
<1>6. \A m \in S : k <= m
  BY <1>5
<1> QED
  BY <1>6 DEF Min

\* The greatest element of a bounded set of numbers.
LEMMA GreatestOf ==
    ASSUME NEW n \in Nat, NEW S, S \subseteq 0 .. n, S # {}
    PROVE  Max(S) \in S /\ \A y \in S : y <= Max(S)
<1> DEFINE T == {n - y : y \in S}
<1>1. T \subseteq Nat /\ T # {}
  <2>1. \A y \in S : n - y \in Nat
    OBVIOUS
  <2>2. PICK y \in S : TRUE
    OBVIOUS
  <2>3. n - y \in T
    OBVIOUS
  <2> QED BY <2>1, <2>3
<1>2. PICK k \in T : \A m \in T : k <= m
  BY <1>1, LeastOf
<1>3. PICK x \in S : k = n - x
  BY <1>2
<1>4. \A y \in S : y <= x
  <2>1. ASSUME NEW y \in S PROVE y <= x
    <3>1. n - x <= n - y
      BY <1>2, <1>3
    <3> QED BY <3>1
  <2> QED BY <2>1
<1>5. \A y \in S : x >= y
  BY <1>4
<1>6. Max(S) \in S /\ \A y \in S : Max(S) >= y
  BY <1>5 DEF Max
<1>7. \A y \in S : y <= Max(S)
  BY <1>6
<1> QED
  BY <1>6, <1>7

-----------------------------------------------------------------------------
(* Where a count ends the trees.                                           *)

\* f is the first level below the top one from which on the digits are the last ones.
FirstFull(f, d) ==
    /\ f \in 2 .. (Levels + 1)
    /\ \A i \in 2 .. (Levels + 1) : i >= f => Full(d, i)
    /\ \A i \in 2 .. Levels : i < f => ~Full(d, i)

\* The first level to be exchanged is the one from which all leaves are the last.
LEMMA SwitchedAt ==
    ASSUME key \in Keys, NEW d, AreDigits(d), Count = Value(d) + 1
    PROVE  /\ FirstFull(FirstSwitched, d)
           /\ \A i \in 1 .. Levels : UsedUp(i) <=> Full(d, i)
<1>0. Levels \in Nat \ {0}
  BY Numbers
<1>1. ASSUME NEW i \in 1 .. Levels PROVE UsedUp(i) <=> Full(d, i)
  <2>1. i \in 1 .. (Levels + 1)
    BY <1>0
  <2> QED BY <2>1, UsedUpByDigits DEF UsedUp
<1> DEFINE S == {i \in 2 .. Levels : UsedUp(i)} \cup {Levels + 1}
           f == FirstSwitched
<1>2. f \in S /\ \A y \in S : f <= y
  <2>1. S \subseteq Nat /\ S # {}
    BY <1>0
  <2>2. f = Min(S)
    BY DEF FirstSwitched
  <2> HIDE DEF S, f
  <2> QED BY <2>1, <2>2, LeastOf
<1>3. f \in 2 .. (Levels + 1)
  BY <1>0, <1>2
<1>4. Full(d, f)
  <2>1. CASE f = Levels + 1
    BY <1>0, <2>1 DEF Full
  <2>2. CASE f # Levels + 1
    BY <1>0, <1>1, <1>2, <2>2
  <2> QED BY <2>1, <2>2
<1>5. ASSUME NEW i \in 2 .. (Levels + 1), i >= f PROVE Full(d, i)
  <2>1. i .. Levels \subseteq f .. Levels
    BY <1>3, <1>5
  <2> QED BY <1>4, <2>1 DEF Full
<1>6. ASSUME NEW i \in 2 .. Levels, i < f PROVE ~Full(d, i)
  <2>1. i \notin S
    BY <1>2, <1>3, <1>6
  <2> QED BY <1>0, <1>1, <2>1
<1> HIDE DEF f
<1> QED
  BY <1>1, <1>3, <1>5, <1>6 DEF FirstFull, f

-----------------------------------------------------------------------------
(* The inductive invariant.                                                *)

\* The types of the state.
Piece == [left_leaf : Nat, current_index : Nat,
          made : [tree : Seq(Int), from : Nat, count : Nat]]

Roles == [ACTIVE : Piece, BUILDING : Piece, NEXT : Piece]

Trees == [current_index : Nat, I : Seq(Int), I_next : Seq(Int), update_count : Nat]

\* Every level has its tree and its subtrees.
TypesOK ==
    /\ key \in Keys
    /\ tree \in [1 .. Levels -> Trees]
    /\ subtree = [i \in 1 .. Levels |-> subtree[i]]
    /\ \A i \in 1 .. Levels : subtree[i] \in [1 .. SubLevels(i) -> Roles]
    /\ at \in {"idle", "issuing", "waiting", "expired"}

\* What the thread pool can hold in each state of a signature.
JobsOK ==
    /\ at \in {"idle", "expired"} => jobs = {}
    /\ at = "issuing" => jobs \subseteq {<<"sign">>, <<"next">>}
    /\ jobs \subseteq {<<"sign">>, <<"next">>, <<"parent">>} \cup
                      {<<"building", j>> : j \in 2 .. SubLevels(Bottom)}
    /\ <<"next">> \in jobs \/ <<"parent">> \in jobs => Levels > 1

\* An upper tree counts its updates up to the last of its BUILDING subtrees.
CountOK(i) == tree[i].update_count \in (0 .. (SubLevels(i) + 1)) \cup {UPDATE_DONE}

\* A tree that is not expired has a leaf to sign with.
LeafOK(i) == Leaf(i) \in 0 .. MaxIndex(i)

\* Where the subtree with that leaf starts.
Start(i, j) == Leaf(i) - (Leaf(i) % Span(i, j))

\* The ACTIVE subtree is complete (the property itself, for one subtree).
ActiveOK(i, j) ==
    /\ subtree[i][j].ACTIVE.left_leaf = Start(i, j)
    /\ subtree[i][j].ACTIVE.made = MadeOf(tree[i].I, Start(i, j), Span(i, j))

\* The first n leaves from the given one have gone into a subtree of tree t.
Contains(s, t, from, n) ==
    /\ s.left_leaf = from /\ s.current_index = n
    /\ n = 0 => s.made.count = 0
    /\ n # 0 => s.made = MadeOf(t, from, n)

\* 1 if the signature in progress has already built a leaf of the BUILDING subtree.
Built(i, j) ==
    IF IF i = Bottom THEN at = "waiting" /\ <<"building", j>> \notin jobs
       ELSE tree[i].update_count > j
    THEN 1 ELSE 0

\* A BUILDING subtree within the tree is as far as the leaf within the ACTIVE one.
BuildingOK(i, j) ==
    j > 1 /\ Start(i, j) + Span(i, j) < Leaves(i) =>
        \E n \in 0 .. Span(i, j) :
            /\ n >= (Leaf(i) % Span(i, j)) + Built(i, j)
            /\ Contains(subtree[i][j].BUILDING, tree[i].I, Start(i, j) + Span(i, j), n)

\* Leaves that the tree that follows needs by now.
Due(i) ==
    Leaf(i) + (IF IF i = Bottom THEN at # "idle" /\ <<"next">> \notin jobs
                  ELSE tree[i].update_count > UPDATE_NEXT
               THEN 1 ELSE 0)

\* The NEXT subtrees below o are done, those above it untouched; with the leaves that
\* o contains, or that it gets from the one below, there are as many as are due.
OpenAt(ss, i, t, due, o) ==
    /\ \A j \in 1 .. SubLevels(i) : ss[j].NEXT.left_leaf = 0
    /\ \A j \in 1 .. SubLevels(i) :
          j > o => ss[j].NEXT.current_index = MaxSubindex
                   /\ ss[j].NEXT.made = MadeOf(t, 0, Span(i, j))
    /\ \A j \in 1 .. SubLevels(i) : j < o => Contains(ss[j].NEXT, t, 0, 0)
    /\ o > 0 => \E n \in 0 .. (Span(i, o) - 1) :
                   /\ Contains(ss[o].NEXT, t, 0, n)
                   /\ due <= IF n = 0 /\ o < SubLevels(i) THEN NodeSpan(i, o) ELSE n

\* As many leaves of the next tree as are due are in its NEXT subtrees.
NextBuilt(ss, i, t, due) == \E o \in 0 .. SubLevels(i) : OpenAt(ss, i, t, due, o)

NextOK(i) == i > 1 => NextBuilt(subtree[i], i, tree[i].I_next, Due(i))

\* 1 if the signature in progress has passed its update on, if there is one.
Passed == IF at = "waiting" /\ <<"parent">> \notin jobs THEN 1 ELSE 0

\* A tree that is not done has got an update from each leaf below that gives one.
UpdatesOK(i) ==
    \/ tree[i].update_count = UPDATE_DONE
    \/ /\ i + 1 = Bottom
       /\ tree[i].update_count + (Leaves(Bottom) - Generated(Bottom)) + 1
             >= Leaf(Bottom) + Passed
    \/ /\ i + 1 < Bottom
       /\ tree[i].update_count >=
             Leaf(i + 1) + (IF tree[i + 1].update_count > UPDATE_PARENT THEN 1 ELSE 0)

\* One level of the working key; the whole is right until the key expires.
LevelOK(i) ==
    /\ LeafOK(i) /\ NextOK(i)
    /\ \A j \in 1 .. SubLevels(i) : ActiveOK(i, j) /\ BuildingOK(i, j)
    /\ i < Bottom => CountOK(i) /\ UpdatesOK(i)

IInv == TypesOK /\ JobsOK /\ (at # "expired" => \A i \in 1 .. Levels : LevelOK(i))

-----------------------------------------------------------------------------
(* What stays as it is.                                                    *)

\* The key never changes, and no number that depends on it alone.
LEMMA KeyStays ==
    ASSUME key' = key
    PROVE  /\ Levels' = Levels /\ Bottom' = Bottom
           /\ \A i : /\ Leaves(i)' = Leaves(i) /\ MaxIndex(i)' = MaxIndex(i)
                     /\ SubLevels(i)' = SubLevels(i) /\ Generated(i)' = Generated(i)
           /\ \A i, j : Span(i, j)' = Span(i, j) /\ NodeSpan(i, j)' = NodeSpan(i, j)
<1>1. Levels' = Levels /\ Bottom' = Bottom
  BY DEF Levels, Bottom
<1>2. ASSUME NEW i PROVE Leaves(i)' = Leaves(i) /\ SubLevels(i)' = SubLevels(i)
  BY DEF Leaves, SubLevels
<1>3. ASSUME NEW i, NEW j PROVE LevelsBelow(i, j)' = LevelsBelow(i, j)
  BY <1>2 DEF LevelsBelow
<1>4. ASSUME NEW i, NEW j PROVE Span(i, j)' = Span(i, j) /\ NodeSpan(i, j)' = NodeSpan(i, j)
  BY <1>2, <1>3 DEF Span, NodeSpan
<1>5. ASSUME NEW i PROVE MaxIndex(i)' = MaxIndex(i) /\ Generated(i)' = Generated(i)
  BY <1>2, <1>4 DEF MaxIndex, Generated
<1> QED
  BY <1>1, <1>2, <1>4, <1>5

\* The jobs are told apart by their names.
LEMMA JobNames ==
    /\ <<"sign">> # <<"next">> /\ <<"sign">> # <<"parent">> /\ <<"next">> # <<"parent">>
    /\ \A j : <<"building", j>> \notin {<<"sign">>, <<"next">>, <<"parent">>}
    /\ \A j, k : <<"building", j>> = <<"building", k>> => j = k
OBVIOUS

\* An ACTIVE subtree stays right if it and its leaf stay.
LEMMA ActiveStays ==
    ASSUME NEW i, NEW j, key' = key, Leaf(i)' = Leaf(i), tree'[i].I = tree[i].I,
           subtree'[i][j].ACTIVE = subtree[i][j].ACTIVE, ActiveOK(i, j)
    PROVE  ActiveOK(i, j)'
<1>1. Span(i, j)' = Span(i, j)
  BY KeyStays
<1>2. Start(i, j)' = Start(i, j)
  BY <1>1 DEF Start
<1> QED
  BY <1>1, <1>2 DEF ActiveOK, MadeOf

\* A BUILDING subtree stays right if it, its leaf and its progress stay.
LEMMA BuildingStays ==
    ASSUME key \in Keys, NEW i \in 1 .. Levels, NEW j \in 1 .. SubLevels(i),
           key' = key, LeafOK(i), Leaf(i)' = Leaf(i), tree'[i].I = tree[i].I,
           subtree'[i][j].BUILDING = subtree[i][j].BUILDING,
           j > 1 => Built(i, j)' = Built(i, j),
           BuildingOK(i, j)
    PROVE  BuildingOK(i, j)'
<1>1. Span(i, j)' = Span(i, j) /\ Leaves(i)' = Leaves(i)
  BY KeyStays
<1>2. Start(i, j)' = Start(i, j)
  BY <1>1 DEF Start
<1> QED
  BY <1>1, <1>2 DEF BuildingOK, Contains, MadeOf

\* The NEXT subtrees stay right if they and what is due of them stay.
LEMMA NextStays ==
    ASSUME NEW i, key' = key, tree'[i].I_next = tree[i].I_next, subtree'[i] = subtree[i],
           Due(i)' = Due(i), NextOK(i)
    PROVE  NextOK(i)'
<1>1. /\ SubLevels(i)' = SubLevels(i)
      /\ \A j : Span(i, j)' = Span(i, j) /\ NodeSpan(i, j)' = NodeSpan(i, j)
  BY KeyStays
<1>2. SUFFICES ASSUME i > 1 PROVE NextBuilt(subtree[i], i, tree[i].I_next, Due(i))'
  BY DEF NextOK
<1>3. PICK o \in 0 .. SubLevels(i) : OpenAt(subtree[i], i, tree[i].I_next, Due(i), o)
  BY <1>2 DEF NextOK, NextBuilt
<1>4. OpenAt(subtree[i], i, tree[i].I_next, Due(i), o)'
  BY <1>1, <1>3 DEF OpenAt, Contains, MadeOf
<1> QED
  BY <1>1, <1>4 DEF NextBuilt

\* The updates of a level stay right if nothing that they depend on changes.
LEMMA UpdatesStay ==
    ASSUME NEW i \in Nat, key' = key, tree'[i].update_count = tree[i].update_count,
           i + 1 = Bottom => Leaf(Bottom)' = Leaf(Bottom) /\ Passed' = Passed,
           i + 1 < Bottom =>
               /\ Leaf(i + 1)' = Leaf(i + 1)
               /\ tree'[i + 1].update_count = tree[i + 1].update_count,
           UpdatesOK(i)
    PROVE  UpdatesOK(i)'
<1>1. Bottom' = Bottom /\ Leaves(Bottom)' = Leaves(Bottom)
      /\ Generated(Bottom)' = Generated(Bottom)
  BY KeyStays
<1> QED
  BY <1>1 DEF UpdatesOK, UPDATE_DONE, UPDATE_PARENT

\* Numbers of a level.
LEMMA LevelNumbers ==
    ASSUME key \in Keys, NEW i \in 1 .. Levels
    PROVE  /\ Levels \in Nat \ {0} /\ Bottom = Levels /\ i \in Nat \ {0}
           /\ Leaves(i) \in Nat /\ Leaves(i) >= 2 /\ Leaves(i) < MaxSubindex
           /\ MaxIndex(i) = Leaves(i) - 1 /\ SubLevels(i) \in 1 .. 25
           /\ \A j \in 1 .. SubLevels(i) : SpansFit(i, j)
BY TreesFit DEF TreeFits, MaxMerkleHeight, Bottom

-----------------------------------------------------------------------------
(* A loaded key.                                                           *)

\* Roundup gives the least multiple that is not smaller.
LEMMA RoundupOf ==
    ASSUME NEW x \in Nat, NEW u \in Nat \ {0}
    PROVE  /\ Roundup(x, u) \in Nat /\ x <= Roundup(x, u) /\ Roundup(x, u) < x + u
           /\ Divides(u, Roundup(x, u))
           /\ \A m \in Nat : Divides(u, m) /\ x <= m => Roundup(x, u) <= m
<1> DEFINE y == x + u - 1
<1>1. y \in Nat
  OBVIOUS
<1>2. PICK q \in Nat, r \in Nat :
         q = y \div u /\ r = y % u /\ r \in 0 .. (u - 1) /\ y = q * u + r
  <2> HIDE DEF y
  <2>1. y % u \in 0 .. (u - 1) /\ y \div u \in Nat /\ y = (y \div u) * u + (y % u)
    BY <1>1, Quotient
  <2> QED BY <2>1
<1>3. PICK z \in Nat : z = q * u
  BY ProductNat
<1>4. Roundup(x, u) = z
  BY <1>2, <1>3 DEF Roundup
<1>5. x <= z /\ z < x + u
  BY <1>2, <1>3
<1>6. Divides(u, z)
  BY <1>3 DEF Divides
<1>7. ASSUME NEW m \in Nat, Divides(u, m), x <= m PROVE z <= m
  <2>1. CASE m < z
    <3>1. m + u <= z
      BY <1>6, <1>7, <2>1, MultipleBelow
    <3> QED BY <1>5, <1>7, <3>1
  <2> QED BY <2>1
<1> QED
  BY <1>4, <1>5, <1>6, <1>7

\* A node of a subtree covers the subtrees below.
LEMMA SpanBelow ==
    ASSUME key \in Keys, NEW i \in 1 .. Levels,
           NEW j \in 1 .. SubLevels(i), NEW o \in 1 .. SubLevels(i), j < o
    PROVE  Span(i, o) <= NodeSpan(i, j)
<1> DEFINE z == key.size[i]
           s == SubLevels(i)
<1>1. z \in Nat \ {0} /\ s \in Nat /\ key.height[i] \in 1 .. 25
  BY KeyFields, LevelNumbers DEF MaxMerkleHeight
<1>2. o \in Nat /\ o >= 2 /\ o - 1 \in 1 .. s
  BY <1>1
<1>3. LevelsFit(i, o) /\ LevelsFit(i, j)
  BY LevelsOfSubtrees
<1>4. Span(i, o) = Power[LevelsBelow(i, o - 1)]
  BY <1>2, <1>3 DEF Span, LevelsFit
<1>5. LevelsBelow(i, o - 1) <= LevelsBelow(i, j)
  <2>1. s - (o - 1) \in Nat /\ s - j \in Nat /\ s - (o - 1) <= s - j
    BY <1>1, <1>2
  <2>2. (s - (o - 1)) * z <= (s - j) * z
    <3> HIDE DEF s, z
    <3> QED BY <1>1, <2>1, Grows
  <2> QED BY <2>2 DEF LevelsBelow
<1>6. PICK a \in 0 .. 25, b \in 0 .. 25 : a = LevelsBelow(i, o - 1) /\ b = LevelsBelow(i, j)
  <2>1. LevelsBelow(i, o - 1) \in 0 .. 25 /\ LevelsBelow(i, j) \in 0 .. 25
    BY <1>1, <1>2, <1>3 DEF LevelsFit
  <2> QED BY <2>1
<1>7. Power[a] <= Power[b]
  <2>1. CASE a = b
    BY <2>1, PowerNat DEF MaxMerkleHeight
  <2>2. CASE a < b
    <3>1. Power[a] < Power[b] /\ Power[a] \in Nat /\ Power[b] \in Nat
      BY <2>2, PowerLess, PowerNat DEF MaxMerkleHeight
    <3> QED BY <3>1
  <2> QED BY <1>5, <1>6, <2>1, <2>2
<1> QED
  BY <1>4, <1>6, <1>7 DEF NodeSpan

\* The digits of a count are leaves.
LEMMA DigitsOfCount ==
    ASSUME key \in Keys, NEW c \in Nat, NEW i \in 1 .. Levels
    PROVE  Digit(c, i) \in 0 .. MaxIndex(i)
<1>1. i + 1 \in 1 .. (Levels + 1)
  BY Numbers
<1>2. PICK m \in Nat \ {0}, n \in Nat \ {0} : m = Capacity(i + 1) /\ n = Leaves(i)
  BY <1>1, Numbers
<1>3. c \div m \in Nat
  BY Quotient
<1>4. PICK x \in Nat : x = c \div m
  BY <1>3
<1>5. x % n \in 0 .. (n - 1)
  BY Quotient
<1> QED
  BY <1>2, <1>4, <1>5 DEF Digit, MaxIndex

\* The names of the trees of levels 1 to n, loaded for count c.
AreNames(f, n, c) ==
    f = [i \in 1 .. n |->
            [I |-> Path(c, i),
             I_next |-> IF i = 1 THEN Unset
                        ELSE Follower(f[i - 1], Digit(c, i - 1), MaxIndex(i))]]

\* The names of loaded trees follow from those above.
LEMMA LoadedNames ==
    ASSUME key \in Keys, NEW c
    PROVE  LET t == LoadedTrees(c)
           IN  \A i \in 1 .. Levels :
                  /\ t[i].I = Path(c, i)
                  /\ t[i].I_next = IF i = 1 THEN Unset
                                   ELSE Follower(t[i - 1], Digit(c, i - 1), MaxIndex(i))
                  /\ t[i] = [current_index |-> Digit(c, i) + (IF i = Bottom THEN 0 ELSE 1),
                             I |-> t[i].I, I_next |-> t[i].I_next,
                             update_count |-> UPDATE_DONE]
<1> DEFINE N == Levels
           G == {n \in 0 .. N : \E f : AreNames(f, n, c)}
           t == LoadedTrees(c)
<1>0. N \in Nat
  BY TreesFit
<1>1. 0 \in G
  <2> DEFINE f == [i \in 1 .. 0 |-> 0]
  <2>1. AreNames(f, 0, c)
    BY DEF AreNames
  <2> QED BY <1>0, <2>1
<1>2. ASSUME NEW n \in 1 .. N, n - 1 \in G PROVE n \in G
  <2>1. PICK f : AreNames(f, n - 1, c)
    BY <1>2
  <2> DEFINE R(k, p) == [I |-> Path(c, k),
                         I_next |-> IF k = 1 THEN Unset
                                    ELSE Follower(p, Digit(c, k - 1), MaxIndex(k))]
             g == [k \in 1 .. n |-> IF k = n THEN R(n, f[n - 1]) ELSE f[k]]
  <2>2. ASSUME NEW k \in 1 .. n PROVE g[k] = R(k, g[k - 1])
    <3>1. CASE k = 1
      <4>1. CASE n = 1
        BY <3>1, <4>1
      <4>2. CASE n # 1
        <5>1. 1 \in 1 .. (n - 1)
          BY <1>0, <4>2
        <5>2. f[1] = R(1, f[1 - 1])
          BY <2>1, <5>1 DEF AreNames
        <5> QED BY <3>1, <4>2, <5>2
      <4> QED BY <4>1, <4>2
    <3>2. CASE k # 1 /\ k = n
      <4>1. k - 1 \in 1 .. n /\ k - 1 # n
        BY <1>0, <3>2
      <4> QED BY <3>2, <4>1
    <3>3. CASE k # 1 /\ k # n
      <4>1. k \in 1 .. (n - 1) /\ k - 1 # n /\ k - 1 \in 1 .. n
        BY <1>0, <3>3
      <4>2. f[k] = R(k, f[k - 1])
        BY <2>1, <4>1 DEF AreNames
      <4>3. g[k - 1] = f[k - 1] /\ g[k] = f[k]
        BY <3>3, <4>1
      <4> QED BY <4>2, <4>3
    <3> QED BY <3>1, <3>2, <3>3
  <2>3. g = [k \in 1 .. n |-> R(k, g[k - 1])]
    BY <2>2
  <2>4. AreNames(g, n, c)
    BY <2>3 DEF AreNames
  <2> QED BY <2>4
<1>3. \E f : AreNames(f, N, c)
  <2> HIDE DEF G, N
  <2>1. \A n \in 0 .. N : n \in G
    BY <1>0, <1>1, <1>2, UpToN
  <2>2. N \in G
    BY <1>0, <2>1
  <2> QED BY <2>2 DEF G
<1> DEFINE names == CHOOSE f : AreNames(f, N, c)
<1>4. AreNames(names, N, c)
  BY <1>3
<1>5. t = [i \in 1 .. N |->
              [current_index |-> Digit(c, i) + (IF i = Bottom THEN 0 ELSE 1),
               I |-> names[i].I, I_next |-> names[i].I_next, update_count |-> UPDATE_DONE]]
  BY DEF LoadedTrees, AreNames
<1> HIDE DEF names, t
<1>6. \A i \in 1 .. N :
         /\ names[i].I = Path(c, i)
         /\ names[i].I_next = IF i = 1 THEN Unset
                              ELSE Follower(names[i - 1], Digit(c, i - 1), MaxIndex(i))
  <2> SUFFICES ASSUME NEW i \in 1 .. N
               PROVE  /\ names[i].I = Path(c, i)
                      /\ names[i].I_next =
                            IF i = 1 THEN Unset
                            ELSE Follower(names[i - 1], Digit(c, i - 1), MaxIndex(i))
    BY Zenon
  <2> DEFINE next == IF i = 1 THEN Unset
                     ELSE Follower(names[i - 1], Digit(c, i - 1), MaxIndex(i))
  <2>1. names[i] = [I |-> Path(c, i), I_next |-> next]
    <3> HIDE DEF N
    <3> QED BY <1>4, Zenon DEF AreNames, N
  <2>2. names[i].I = Path(c, i) /\ names[i].I_next = next
    <3> HIDE DEF next
    <3> QED BY <2>1
  <2> QED BY <2>2
<1>7. \A i \in 1 .. N : t[i].I = names[i].I /\ t[i].I_next = names[i].I_next
  BY <1>5
<1>8. ASSUME NEW i \in 1 .. N, i # 1
      PROVE  Follower(names[i - 1], Digit(c, i - 1), MaxIndex(i)) =
             Follower(t[i - 1], Digit(c, i - 1), MaxIndex(i))
  <2>1. i - 1 \in 1 .. N
    BY <1>0, <1>8
  <2> QED BY <1>7, <2>1 DEF Follower
<1>9. \A i \in 1 .. N : t[i].I = Path(c, i)
         /\ t[i].I_next = IF i = 1 THEN Unset
                          ELSE Follower(t[i - 1], Digit(c, i - 1), MaxIndex(i))
  BY <1>6, <1>7, <1>8
<1>10. \A i \in 1 .. N :
          t[i] = [current_index |-> Digit(c, i) + (IF i = Bottom THEN 0 ELSE 1),
                  I |-> t[i].I, I_next |-> t[i].I_next, update_count |-> UPDATE_DONE]
  BY <1>5
<1> QED
  BY <1>9, <1>10 DEF t

\* A BUILDING subtree is loaded with the nodes up to that of the leaf that signs, or of
\* the one before it in the bottom tree.
LEMMA BuildingLoaded ==
    ASSUME key \in Keys, NEW c \in Nat, NEW i \in 1 .. Levels, NEW j \in 1 .. SubLevels(i),
           NEW t, NEW garbage, LeftLeaf(c, i, j) + Span(i, j) < Leaves(i)
    PROVE  \E n \in 0 .. Span(i, j) :
              /\ n >= (Digit(c, i) % Span(i, j)) + (IF i = Bottom THEN 0 ELSE 1)
              /\ Contains(LoadedBuilding(c, i, j, t, garbage), t,
                          LeftLeaf(c, i, j) + Span(i, j), n)
<1>1. PICK x \in Nat, m \in Nat \ {0}, s \in Nat \ {0}, l \in Nat, e \in 0 .. 1 :
         /\ x = Digit(c, i) /\ m = NodeSpan(i, j) /\ s = Span(i, j) /\ l = Leaves(i)
         /\ x < l /\ MaxIndex(i) = l - 1 /\ e = (IF i = Bottom THEN 0 ELSE 1)
         /\ Divides(m, s) /\ Divides(s, l)
  <2>1. Digit(c, i) \in Nat /\ Digit(c, i) < Leaves(i)
    BY DigitsOfCount, LevelNumbers
  <2>2. SpansFit(i, j) /\ Leaves(i) \in Nat /\ MaxIndex(i) = Leaves(i) - 1
    BY LevelNumbers
  <2>3. (IF i = Bottom THEN 0 ELSE 1) \in 0 .. 1
    OBVIOUS
  <2> QED BY <2>1, <2>2, <2>3 DEF SpansFit
<1>2. PICK r \in Nat, left \in Nat :
         /\ r = x % s /\ r \in 0 .. (s - 1) /\ left = x - r /\ Divides(s, left)
         /\ left <= x /\ x < left + s
  <2>1. x % s \in 0 .. (s - 1)
    BY Quotient
  <2>2. x - (x % s) \in Nat /\ Divides(s, x - (x % s))
    BY StartOf
  <2> QED BY <2>1, <2>2
<1>3. left = LeftLeaf(c, i, j) /\ Counted(c, i) - left = r + e
  BY <1>1, <1>2 DEF LeftLeaf, Counted
<1>4. left + s < l
  BY <1>1, <1>3
<1>5. (left + s) + s <= l
  <2>1. Divides(s, left + s)
    <3>1. PICK k \in Nat : left = k * s
      BY <1>2 DEF Divides
    <3>2. (k + 1) * s = k * s + 1 * s
      BY Distribute
    <3>3. PICK p \in Nat : p = k + 1
      OBVIOUS
    <3>4. left + s = p * s
      BY <3>1, <3>2, <3>3
    <3> QED BY <3>4, Zenon DEF Divides
  <2>2. left + s \in Nat
    OBVIOUS
  <2> QED BY <1>1, <1>4, <2>1, <2>2, MultipleBelow
<1>6. PICK n \in Nat : n = Roundup(r + e, m) /\ r + e <= n /\ n <= s
  <2>1. r + e \in Nat /\ r + e <= s
    BY <1>2
  <2> QED BY <1>1, <2>1, RoundupOf
<1>7. Digit(c, i) + Span(i, j) <= MaxIndex(i)
  BY <1>1, <1>2, <1>5
<1>8. LoadedBuilding(c, i, j, t, garbage) = Subtree(left + s, n, MadeOf(t, left + s, n))
  BY <1>1, <1>3, <1>6, <1>7 DEF LoadedBuilding
<1>9. Contains(LoadedBuilding(c, i, j, t, garbage), t, left + s, n)
  BY <1>8 DEF Contains, Subtree, MadeOf
<1> QED
  BY <1>1, <1>2, <1>3, <1>6, <1>9

\* The NEXT subtrees are loaded with the nodes of as many leaves.
LEMMA NextLoaded ==
    ASSUME key \in Keys, NEW c \in Nat, NEW i \in 1 .. Levels, NEW t, NEW ss,
           \A j \in 1 .. SubLevels(i) : ss[j].NEXT = LoadedNext(c, i, j, t)
    PROVE  NextBuilt(ss, i, t, Counted(c, i))
<1> DEFINE S == SubLevels(i)
           m == Counted(c, i)
           r(j) == Roundup(m, NodeSpan(i, j))
<1>1. S \in 1 .. 25 /\ \A j \in 1 .. S : SpansFit(i, j)
  BY LevelNumbers
<1>2. m \in Nat
  BY DigitsOfCount, LevelNumbers DEF Counted
<1> HIDE DEF m, S
<1>3. ASSUME NEW j \in 1 .. S
      PROVE  /\ r(j) \in Nat /\ m <= r(j) /\ r(j) < m + NodeSpan(i, j)
             /\ \A n \in Nat : Divides(NodeSpan(i, j), n) /\ m <= n => r(j) <= n
             /\ Span(i, j) \in Nat \ {0} /\ NodeSpan(i, j) \in Nat \ {0}
  BY <1>1, <1>2, RoundupOf DEF SpansFit
<1>4. \A j \in 1 .. S : ss[j].NEXT = LoadedNext(c, i, j, t)
  BY DEF S
<1> DEFINE Untouched(j) == r(j) = 0 \/ (j < S /\ r(j) <= NodeSpan(i, j))
           Done(j) == ~Untouched(j) /\ r(j) >= Span(i, j)
<1>5. ASSUME NEW j \in 1 .. S
      PROVE  /\ ss[j].NEXT.left_leaf = 0
             /\ Untouched(j) => Contains(ss[j].NEXT, t, 0, 0)
             /\ Done(j) => ss[j].NEXT.current_index = MaxSubindex
                           /\ ss[j].NEXT.made = MadeOf(t, 0, Span(i, j))
             /\ ~Untouched(j) /\ ~Done(j) => Contains(ss[j].NEXT, t, 0, r(j))
  <2>1. LoadedNext(c, i, j, t) =
           IF Untouched(j) THEN Subtree(0, 0, Nothing)
           ELSE IF r(j) < Span(i, j) THEN Subtree(0, r(j), MadeOf(t, 0, r(j)))
           ELSE Subtree(0, MaxSubindex, MadeOf(t, 0, Span(i, j)))
    BY DEF LoadedNext, S, m
  <2>2. ss[j].NEXT = LoadedNext(c, i, j, t) /\ r(j) \in Nat /\ Span(i, j) \in Nat
    BY <1>3, <1>4
  <2>3. CASE Untouched(j)
    <3>1. ss[j].NEXT = Subtree(0, 0, Nothing)
      BY <2>1, <2>2, <2>3
    <3> HIDE DEF r
    <3> QED BY <2>3, <3>1 DEF Subtree, Nothing, Contains
  <2>4. CASE ~Untouched(j) /\ r(j) < Span(i, j)
    <3>1. ss[j].NEXT = Subtree(0, r(j), MadeOf(t, 0, r(j)))
      BY <2>1, <2>2, <2>4
    <3>2. r(j) # 0 /\ ~(r(j) >= Span(i, j))
      BY <2>2, <2>4
    <3> HIDE DEF r
    <3> QED BY <2>4, <3>1, <3>2 DEF Subtree, MadeOf, Contains
  <2>5. CASE ~Untouched(j) /\ ~(r(j) < Span(i, j))
    <3>1. ss[j].NEXT = Subtree(0, MaxSubindex, MadeOf(t, 0, Span(i, j)))
      BY <2>1, <2>2, <2>5
    <3>2. r(j) >= Span(i, j)
      BY <2>2, <2>5
    <3> HIDE DEF r
    <3> QED BY <2>5, <3>1, <3>2 DEF Subtree
  <2> QED BY <2>3, <2>4, <2>5
<1> DEFINE Open == {j \in 1 .. S : ~Done(j)}
<1> HIDE DEF r
<1>6. PICK o \in 0 .. S :
         /\ \A j \in 1 .. S : j > o => Done(j)
         /\ o > 0 => ~Done(o)
  <2>1. CASE Open = {}
    BY <1>1, <2>1
  <2>2. CASE Open # {}
    <3>1. Open \subseteq 0 .. S /\ S \in Nat
      BY <1>1
    <3>2. PICK o \in Open : \A j \in Open : j <= o
      <4> HIDE DEF Open
      <4> QED BY <2>2, <3>1, GreatestOf
    <3>3. o \in 1 .. S /\ ~Done(o)
      BY <3>2
    <3>4. ASSUME NEW j \in 1 .. S, j > o PROVE Done(j)
      <4>1. ~(j <= o)
        BY <1>1, <3>3, <3>4
      <4> QED BY <3>2, <4>1
    <3> QED BY <1>1, <3>3, <3>4
  <2> QED BY <2>1, <2>2
<1>7. ASSUME NEW j \in 1 .. S, j < o PROVE Untouched(j)
  <2>1. o \in 1 .. S /\ j < S
    BY <1>1, <1>7
  <2>2. Span(i, o) <= NodeSpan(i, j)
    BY <1>7, <2>1, SpanBelow DEF S
  <2>3. PICK a \in Nat, b \in Nat, n \in Nat : a = r(o) /\ b = Span(i, o) /\ n = NodeSpan(i, j)
    BY <1>3, <2>1
  <2>4. a <= b \/ m = 0
    <3>1. a = 0 \/ (o < S /\ a <= NodeSpan(i, o)) \/ a < b
      BY <1>1, <1>6, <2>1, <2>3
    <3>2. NodeSpan(i, o) < b /\ NodeSpan(i, o) \in Nat
      BY <1>1, <1>3, <2>1, <2>3 DEF SpansFit
    <3> QED BY <2>3, <3>1, <3>2
  <2>5. m <= n
    BY <1>2, <1>3, <2>1, <2>2, <2>3, <2>4
  <2>6. Divides(n, n)
    <3>1. n = 1 * n
      OBVIOUS
    <3> QED BY <3>1 DEF Divides
  <2>7. r(j) <= n
    BY <1>3, <2>3, <2>5, <2>6
  <2> QED BY <2>1, <2>3, <2>7
<1>8. ASSUME o > 0
      PROVE  \E n \in 0 .. (Span(i, o) - 1) :
                /\ Contains(ss[o].NEXT, t, 0, n)
                /\ m <= IF n = 0 /\ o < S THEN NodeSpan(i, o) ELSE n
  <2>1. o \in 1 .. S /\ ~Done(o)
    BY <1>1, <1>6, <1>8
  <2>2. PICK a \in Nat, b \in Nat \ {0}, n \in Nat \ {0} :
           a = r(o) /\ b = Span(i, o) /\ n = NodeSpan(i, o)
    BY <1>3, <2>1
  <2>3. m <= a
    BY <1>3, <2>1, <2>2
  <2>4. CASE Untouched(o)
    <3>1. Contains(ss[o].NEXT, t, 0, 0)
      BY <1>5, <2>1, <2>4
    <3>2. m <= IF o < S THEN n ELSE 0
      BY <1>1, <1>2, <2>1, <2>2, <2>3, <2>4
    <3> QED BY <2>2, <3>1, <3>2
  <2>5. CASE ~Untouched(o)
    <3>1. Contains(ss[o].NEXT, t, 0, a)
      BY <1>5, <2>1, <2>2, <2>5
    <3>2. a < b /\ a # 0
      BY <2>1, <2>2, <2>5
    <3> QED BY <2>2, <2>3, <3>1, <3>2
  <2> QED BY <2>4, <2>5
<1>9. OpenAt(ss, i, t, m, o)
  <2>1. \A j \in 1 .. S : ss[j].NEXT.left_leaf = 0
    BY <1>5
  <2>2. \A j \in 1 .. S :
          j > o => ss[j].NEXT.current_index = MaxSubindex
                   /\ ss[j].NEXT.made = MadeOf(t, 0, Span(i, j))
    BY <1>5, <1>6
  <2>3. \A j \in 1 .. S : j < o => Contains(ss[j].NEXT, t, 0, 0)
    BY <1>5, <1>7
  <2> QED BY <1>8, <2>1, <2>2, <2>3 DEF OpenAt, S
<1> QED
  BY <1>9 DEF NextBuilt, S, m

\* Pieces are put together from a number, a number and what they are made of.
LEMMA PieceTypes ==
    /\ \A l, n, f, k \in Nat : \A t \in Seq(Int) : Subtree(l, n, MadeOf(t, f, k)) \in Piece
    /\ \A l, n \in Nat : Subtree(l, n, Nothing) \in Piece
    /\ Nothing \in [tree : Seq(Int), from : Nat, count : Nat]
    /\ Mixed \in [tree : Seq(Int), from : Nat, count : Nat]
    /\ MaxSubindex \in Nat
<1>1. <<>> \in Seq(Int) /\ <<-2>> \in Seq(Int)
  OBVIOUS
<1> QED
  BY <1>1 DEF Subtree, MadeOf, Piece, Nothing, Mixed, MaxSubindex

\* The trees of a loaded key have their types.
LEMMA LoadedTypes ==
    ASSUME key \in Keys, NEW c \in Nat, NEW i \in 1 .. Levels
    PROVE  LoadedTrees(c)[i] \in Trees
<1> DEFINE t == LoadedTrees(c)
           G == {k \in 0 .. Levels : k > 0 => t[k].I_next \in Seq(Int)}
<1>0. Levels \in Nat
  BY Numbers
<1>1. \A k \in 1 .. Levels : Digit(c, k) \in Nat
  BY DigitsOfCount, LevelNumbers
<1>2. ASSUME NEW k \in 1 .. Levels PROVE Path(c, k) \in Seq(Int)
  <2>1. k - 1 \in Nat /\ \A n \in 1 .. (k - 1) : Digit(c, n) \in Int
    BY <1>0, <1>1
  <2> QED BY <2>1 DEF Path
<1>3. \A k \in 1 .. Levels :
         t[k].I_next = IF k = 1 THEN Unset
                       ELSE Follower(t[k - 1], Digit(c, k - 1), MaxIndex(k))
  BY LoadedNames, Zenon
<1>13. \A k \in 1 .. Levels : t[k].I = Path(c, k)
  BY LoadedNames, Zenon
<1>14. t[i] = [current_index |-> Digit(c, i) + (IF i = Bottom THEN 0 ELSE 1),
               I |-> t[i].I, I_next |-> t[i].I_next, update_count |-> UPDATE_DONE]
  BY LoadedNames, Zenon
<1> HIDE DEF t
<1>4. 0 \in G
  BY <1>0
<1>5. ASSUME NEW k \in 1 .. Levels, k - 1 \in G PROVE k \in G
  <2>1. CASE k = 1
    <3>1. Unset \in Seq(Int)
      BY DEF Unset
    <3>2. t[k].I_next = Unset
      BY <1>3, <2>1
    <3> QED BY <1>0, <3>1, <3>2
  <2>2. CASE k # 1
    <3>1. k - 1 \in 1 .. Levels /\ k - 1 > 0
      BY <1>0, <2>2
    <3>2. t[k - 1].I_next \in Seq(Int) /\ t[k - 1].I \in Seq(Int) /\ Digit(c, k - 1) + 1 \in Int
      <4>1. t[k - 1].I_next \in Seq(Int)
        BY <1>5, <3>1
      <4>2. t[k - 1].I \in Seq(Int)
        BY <1>2, <1>13, <3>1
      <4>3. Digit(c, k - 1) + 1 \in Int
        BY <1>1, <3>1
      <4> QED BY <4>1, <4>2, <4>3
    <3>3. Append(t[k - 1].I_next, 0) \in Seq(Int)
          /\ Append(t[k - 1].I, Digit(c, k - 1) + 1) \in Seq(Int)
      BY <3>2
    <3>4. Follower(t[k - 1], Digit(c, k - 1), MaxIndex(k)) \in Seq(Int)
      BY <3>3 DEF Follower
    <3>5. t[k].I_next = Follower(t[k - 1], Digit(c, k - 1), MaxIndex(k))
      BY <1>3, <2>2
    <3> QED BY <1>0, <3>4, <3>5
  <2> QED BY <2>1, <2>2
<1> HIDE DEF G
<1>6. \A k \in 0 .. Levels : k \in G
  BY <1>0, <1>4, <1>5, UpToN
<1>7. t[i].I_next \in Seq(Int)
  BY <1>0, <1>6 DEF G
<1>8. t[i].I \in Seq(Int)
  BY <1>2, <1>13
<1>9. Digit(c, i) + (IF i = Bottom THEN 0 ELSE 1) \in Nat /\ UPDATE_DONE \in Nat
  BY <1>1 DEF UPDATE_DONE
<1>10. t[i] = [current_index |-> Digit(c, i) + (IF i = Bottom THEN 0 ELSE 1),
               I |-> t[i].I, I_next |-> t[i].I_next, update_count |-> UPDATE_DONE]
  BY <1>14
<1>11. [current_index |-> Digit(c, i) + (IF i = Bottom THEN 0 ELSE 1),
        I |-> t[i].I, I_next |-> t[i].I_next, update_count |-> UPDATE_DONE]
          \in Trees
  BY <1>7, <1>8, <1>9 DEF Trees
<1>12. t[i] \in Trees
  BY <1>10, <1>11
<1> QED
  BY <1>12 DEF t

\* The subtrees of a loaded key have their types.
LEMMA LoadedRoles ==
    ASSUME key \in Keys, NEW c \in Nat, NEW i \in 1 .. Levels, NEW j \in 1 .. SubLevels(i),
           NEW garbage \in Nat
    PROVE  LoadedSubtrees(c, garbage)[i][j] \in Roles
<1> DEFINE names == LoadedTrees(c)
           m == NodeSpan(i, j)
           s == Span(i, j)
           x == Counted(c, i)
           l == LeftLeaf(c, i, j)
           R == [ACTIVE   |-> Subtree(l, 0, MadeOf(names[i].I, l, s)),
                 BUILDING |-> IF j = 1 THEN Subtree(0, 0, Nothing)
                              ELSE LoadedBuilding(c, i, j, names[i].I, garbage),
                 NEXT     |-> IF i = 1 THEN Subtree(0, 0, Nothing)
                              ELSE LoadedNext(c, i, j, names[i].I_next)]
<1>1. LoadedSubtrees(c, garbage)[i][j] = R
  BY DEF LoadedSubtrees
<1>2. names[i].I \in Seq(Int) /\ names[i].I_next \in Seq(Int)
  BY LoadedTypes DEF Trees
<1>3. m \in Nat \ {0} /\ s \in Nat \ {0}
  BY LevelNumbers DEF SpansFit
<1>4. Digit(c, i) \in Nat
  BY DigitsOfCount, LevelNumbers
<1>5. l \in Nat /\ l <= Digit(c, i)
  <2>1. PICK y \in Nat, z \in Nat \ {0} : y = Digit(c, i) /\ z = s
    BY <1>3, <1>4
  <2>2. y - (y % z) \in Nat /\ y - (y % z) <= y
    BY StartOf
  <2> QED BY <2>1, <2>2 DEF LeftLeaf
<1>6. x \in Nat /\ x - l \in Nat
  BY <1>4, <1>5 DEF Counted
<1>7. Roundup(x, m) \in Nat /\ Roundup(x - l, m) \in Nat
  <2> HIDE DEF m, x, l
  <2> QED BY <1>3, <1>6, RoundupOf
<1>8. LoadedBuilding(c, i, j, names[i].I, garbage) \in Piece
  <2>1. LoadedBuilding(c, i, j, names[i].I, garbage) =
           IF Digit(c, i) + s <= MaxIndex(i)
           THEN Subtree(l + s, Roundup(x - l, m), MadeOf(names[i].I, l + s, Roundup(x - l, m)))
           ELSE Subtree(garbage, 0, Nothing)
    BY DEF LoadedBuilding
  <2>2. l + s \in Nat
    BY <1>3, <1>5
  <2>3. Subtree(garbage, 0, Nothing) \in Piece
    BY PieceTypes
  <2>4. Subtree(l + s, Roundup(x - l, m), MadeOf(names[i].I, l + s, Roundup(x - l, m))) \in Piece
    <3> DEFINE n == Roundup(x - l, m)
               e == l + s
    <3> HIDE DEF names, n, e
    <3>1. n \in Nat /\ e \in Nat
      BY <1>7, <2>2 DEF n, e
    <3>2. Subtree(e, n, MadeOf(names[i].I, e, n)) \in Piece
      BY <1>2, <3>1, PieceTypes
    <3> QED BY <3>2 DEF n, e
  <2> QED BY <2>1, <2>3, <2>4, Zenon
<1>9. LoadedNext(c, i, j, names[i].I_next) \in Piece
  <2>1. LoadedNext(c, i, j, names[i].I_next) =
           IF Roundup(x, m) = 0 \/ (j < SubLevels(i) /\ Roundup(x, m) <= m)
           THEN Subtree(0, 0, Nothing)
           ELSE IF Roundup(x, m) < s
                THEN Subtree(0, Roundup(x, m), MadeOf(names[i].I_next, 0, Roundup(x, m)))
           ELSE Subtree(0, MaxSubindex, MadeOf(names[i].I_next, 0, s))
    BY DEF LoadedNext
  <2>2. Subtree(0, 0, Nothing) \in Piece
    BY PieceTypes
  <2> DEFINE n == Roundup(x, m)
             t == names[i].I_next
  <2>3. n \in Nat /\ t \in Seq(Int)
    BY <1>2, <1>7
  <2> HIDE DEF n, t, s
  <2>4. Subtree(0, n, MadeOf(t, 0, n)) \in Piece
    BY <2>3, PieceTypes
  <2>5. Subtree(0, MaxSubindex, MadeOf(t, 0, s)) \in Piece
    BY <1>3, <2>3, PieceTypes
  <2> QED BY <2>1, <2>2, <2>4, <2>5, Zenon DEF n, t
<1>10. Subtree(l, 0, MadeOf(names[i].I, l, s)) \in Piece /\ Subtree(0, 0, Nothing) \in Piece
  <2> HIDE DEF names, s, l
  <2> QED BY <1>2, <1>3, <1>5, PieceTypes
<1> HIDE DEF names, l, s
<1>11. R \in Roles
  BY <1>8, <1>9, <1>10 DEF Roles
<1> QED
  BY <1>1, <1>11

\* A loaded key satisfies the invariant.
LEMMA InitOK ==
    ASSUME Init
    PROVE  IInv
<1>1. key \in Keys /\ jobs = {} /\ at = "idle"
  BY DEF Init
<1>2. PICK c \in Nat : Load(c)
  <2>1. Levels \in Nat /\ 1 \in 1 .. (Levels + 1)
    BY <1>1, Numbers
  <2>2. 0 .. (Capacity(1) - 1) \subseteq Nat
    BY <1>1, <2>1, Numbers
  <2> QED BY <2>2 DEF Init
<1>3. PICK garbage \in Nat :
         /\ tree = LoadedTrees(c)
         /\ subtree = LoadedSubtrees(c, garbage)
  BY <1>2 DEF Load
<1>4. Levels \in Nat \ {0} /\ Bottom = Levels
  BY <1>1, Numbers DEF Bottom
<1>5. \A i \in 1 .. Levels :
         /\ tree[i].current_index = Digit(c, i) + (IF i = Bottom THEN 0 ELSE 1)
         /\ tree[i].update_count = UPDATE_DONE
  BY <1>3 DEF LoadedTrees
<1>6. TypesOK
  <2>1. \A i \in 1 .. Levels :
           tree[i] \in Trees
    BY <1>1, <1>3, LoadedTypes
  <2>2. tree = [i \in 1 .. Levels |-> tree[i]]
    BY <1>3 DEF LoadedTrees
  <2>3. subtree = [i \in 1 .. Levels |-> subtree[i]]
    BY <1>3 DEF LoadedSubtrees
  <2>4. ASSUME NEW i \in 1 .. Levels PROVE subtree[i] \in [1 .. SubLevels(i) -> Roles]
    <3>1. subtree[i] = [j \in 1 .. SubLevels(i) |-> subtree[i][j]]
      BY <1>3 DEF LoadedSubtrees
    <3>2. \A j \in 1 .. SubLevels(i) : subtree[i][j] \in Roles
      BY <1>1, <1>3, LoadedRoles
    <3> QED BY <3>1, <3>2
  <2> QED BY <1>1, <2>1, <2>2, <2>3, <2>4 DEF TypesOK
<1>7. JobsOK
  BY <1>1 DEF JobsOK
<1>8. ASSUME NEW i \in 1 .. Levels PROVE LevelOK(i)
  <2>1. Leaf(i) = Digit(c, i)
    <3>1. tree[i].current_index = Digit(c, i) + (IF i = Bottom THEN 0 ELSE 1)
      BY <1>5
    <3>2. Digit(c, i) \in Nat
      <4>1. MaxIndex(i) = Leaves(i) - 1 /\ Leaves(i) \in Nat
        BY <1>1, LevelNumbers
      <4>2. Digit(c, i) \in 0 .. MaxIndex(i)
        BY <1>1, DigitsOfCount
      <4> QED BY <4>1, <4>2
    <3> QED BY <1>1, <3>1, <3>2 DEF Leaf
  <2>2. LeafOK(i)
    BY <1>1, <2>1, DigitsOfCount DEF LeafOK
  <2>3. tree[i].update_count = UPDATE_DONE
    BY <1>5
  <2>4. \A j \in 1 .. SubLevels(i) : Start(i, j) = LeftLeaf(c, i, j)
    BY <2>1 DEF Start, LeftLeaf
  <2>5. ASSUME NEW j \in 1 .. SubLevels(i) PROVE ActiveOK(i, j)
    <3>1. subtree[i][j].ACTIVE =
             Subtree(LeftLeaf(c, i, j), 0, MadeOf(tree[i].I, LeftLeaf(c, i, j), Span(i, j)))
      BY <1>3 DEF LoadedSubtrees
    <3> QED BY <2>4, <3>1 DEF ActiveOK, Subtree
  <2>6. ASSUME NEW j \in 1 .. SubLevels(i) PROVE BuildingOK(i, j)
    <3>1. SUFFICES ASSUME j > 1, Start(i, j) + Span(i, j) < Leaves(i)
                   PROVE  \E n \in 0 .. Span(i, j) :
                             /\ n >= (Leaf(i) % Span(i, j)) + Built(i, j)
                             /\ Contains(subtree[i][j].BUILDING, tree[i].I,
                                         Start(i, j) + Span(i, j), n)
      BY DEF BuildingOK
    <3>2. subtree[i][j].BUILDING = LoadedBuilding(c, i, j, tree[i].I, garbage)
      BY <1>3, <3>1 DEF LoadedSubtrees
    <3>3. Built(i, j) = IF i = Bottom THEN 0 ELSE 1
      <4>1. SubLevels(i) \in 1 .. 25
        BY <1>1, LevelNumbers
      <4>2. UPDATE_DONE > j
        BY <4>1 DEF UPDATE_DONE
      <4> QED BY <1>1, <2>3, <4>2 DEF Built
    <3>4. LeftLeaf(c, i, j) + Span(i, j) < Leaves(i)
      BY <2>4, <3>1
    <3> QED BY <1>1, <2>1, <2>4, <3>2, <3>3, <3>4, BuildingLoaded
  <2>7. NextOK(i)
    <3>1. SUFFICES ASSUME i > 1 PROVE NextBuilt(subtree[i], i, tree[i].I_next, Due(i))
      BY DEF NextOK
    <3>2. \A j \in 1 .. SubLevels(i) :
             subtree[i][j].NEXT = LoadedNext(c, i, j, tree[i].I_next)
      BY <1>3, <3>1 DEF LoadedSubtrees
    <3>3. Due(i) = Counted(c, i)
      BY <1>1, <2>1, <2>3 DEF Due, Counted, UPDATE_DONE, UPDATE_NEXT
    <3> QED BY <1>1, <3>2, <3>3, NextLoaded
  <2>8. CountOK(i) /\ UpdatesOK(i)
    BY <2>3 DEF CountOK, UpdatesOK
  <2> QED BY <2>2, <2>5, <2>6, <2>7, <2>8 DEF LevelOK
<1> QED
  BY <1>6, <1>7, <1>8 DEF IInv

-----------------------------------------------------------------------------
(* Steps that change little.                                               *)

\* Types are kept by a step that keeps those of what it changes.
LEMMA TypesStay ==
    ASSUME TypesOK, key' = key, tree' \in [1 .. Levels -> Trees],
           subtree' = [i \in 1 .. Levels |-> subtree'[i]],
           \A i \in 1 .. Levels : subtree'[i] \in [1 .. SubLevels(i) -> Roles],
           at' \in {"idle", "issuing", "waiting", "expired"}
    PROVE  TypesOK'
<1>1. Levels' = Levels /\ \A i : SubLevels(i)' = SubLevels(i)
  BY KeyStays
<1> QED
  BY <1>1 DEF TypesOK, Trees, Roles, Piece

\* A level to which nothing happens.
LEMMA LevelStays ==
    ASSUME key \in Keys, NEW i \in 1 .. Levels, key' = key, LevelOK(i), Leaf(i)' = Leaf(i),
           tree'[i].I = tree[i].I, tree'[i].I_next = tree[i].I_next,
           tree'[i].update_count = tree[i].update_count, subtree'[i] = subtree[i],
           \A j \in 1 .. SubLevels(i) : Built(i, j)' = Built(i, j),
           i > 1 => Due(i)' = Due(i),
           i + 1 = Bottom => Leaf(Bottom)' = Leaf(Bottom) /\ Passed' = Passed,
           i + 1 < Bottom =>
               /\ Leaf(i + 1)' = Leaf(i + 1)
               /\ tree'[i + 1].update_count = tree[i + 1].update_count
    PROVE  LevelOK(i)'
<1>1. Bottom' = Bottom /\ SubLevels(i)' = SubLevels(i) /\ MaxIndex(i)' = MaxIndex(i)
  BY KeyStays
<1>2. LeafOK(i)'
  BY <1>1 DEF LevelOK, LeafOK
<1>3. NextOK(i)'
  <2>1. CASE i > 1
    BY <2>1, NextStays DEF LevelOK
  <2>2. CASE ~(i > 1)
    BY <2>2 DEF NextOK
  <2> QED BY <2>1, <2>2
<1>4. ASSUME NEW j \in 1 .. SubLevels(i) PROVE ActiveOK(i, j)' /\ BuildingOK(i, j)'
  <2>1. ActiveOK(i, j) /\ BuildingOK(i, j) /\ LeafOK(i)
    BY DEF LevelOK
  <2> QED BY <2>1, ActiveStays, BuildingStays
<1>5. i < Bottom => CountOK(i)'
  BY <1>1 DEF LevelOK, CountOK, UPDATE_DONE
<1>6. i < Bottom => UpdatesOK(i)'
  <2>1. i \in Nat
    BY LevelNumbers
  <2> QED BY <2>1, UpdatesStay DEF LevelOK
<1> QED
  BY <1>1, <1>2, <1>3, <1>4, <1>5, <1>6 DEF LevelOK

\* A signature begins.
LEMMA StartSignatureOK ==
    ASSUME IInv, StartSignature
    PROVE  IInv'
<1>1. /\ at = "idle" /\ at' = "issuing" /\ jobs = {}
      /\ key' = key /\ tree' = tree /\ subtree' = subtree
      /\ jobs' = {<<"sign">>} \cup (IF Levels > 1 THEN {<<"next">>} ELSE {})
  BY DEF StartSignature, IInv, JobsOK
<1>2. key \in Keys /\ TypesOK
  BY DEF IInv, TypesOK
<1>3. Levels' = Levels /\ Bottom' = Bottom /\ SubLevels(Bottom)' = SubLevels(Bottom)
  BY <1>1, KeyStays
<1>4. TypesOK'
  BY <1>1, <1>2, TypesStay DEF TypesOK
<1>5. JobsOK'
  <2>1. <<"parent">> \notin jobs'
    BY <1>1, JobNames
  <2> QED BY <1>1, <1>3, <2>1 DEF JobsOK
<1>6. ASSUME NEW i \in 1 .. Levels PROVE LevelOK(i)'
  <2>1. LevelOK(i)
    BY <1>1 DEF IInv
  <2>2. \A k : Leaf(k)' = Leaf(k)
    BY <1>1, <1>3 DEF Leaf
  <2>3. \A j : Built(i, j)' = Built(i, j)
    BY <1>1, <1>3 DEF Built
  <2>4. i > 1 => Due(i)' = Due(i)
    <3>1. i > 1 => Levels > 1
      BY <1>2, LevelNumbers
    <3> QED BY <1>1, <1>3, <2>2, <3>1 DEF Due, UPDATE_NEXT
  <2>5. Passed' = Passed
    BY <1>1 DEF Passed
  <2>6. Leaf(Bottom)' = Leaf(Bottom)
    BY <1>3, <2>2
  <2>7. /\ tree'[i].I = tree[i].I /\ tree'[i].I_next = tree[i].I_next
        /\ tree'[i].update_count = tree[i].update_count /\ subtree'[i] = subtree[i]
        /\ tree'[i + 1].update_count = tree[i + 1].update_count
    BY <1>1
  <2> QED BY <1>1, <1>2, <2>1, <2>2, <2>3, <2>4, <2>5, <2>6, <2>7, LevelStays
<1> QED
  BY <1>1, <1>3, <1>4, <1>5, <1>6 DEF IInv

\* A signature has expired.
LEMMA StutterOK ==
    ASSUME IInv, UNCHANGED vars
    PROVE  IInv'
<1>1. key' = key /\ tree' = tree /\ subtree' = subtree /\ jobs' = jobs /\ at' = at
  BY DEF vars
<1>2. key \in Keys /\ TypesOK
  BY DEF IInv, TypesOK
<1>3. Levels' = Levels /\ Bottom' = Bottom /\ SubLevels(Bottom)' = SubLevels(Bottom)
  BY <1>1, KeyStays
<1>4. TypesOK'
  BY <1>1, <1>2, TypesStay DEF TypesOK
<1>5. JobsOK'
  BY <1>1, <1>3 DEF IInv, JobsOK
<1>6. ASSUME NEW i \in 1 .. Levels, at # "expired" PROVE LevelOK(i)'
  <2>1. LevelOK(i)
    BY <1>6 DEF IInv
  <2>2. \A k : Leaf(k)' = Leaf(k)
    BY <1>1, <1>3 DEF Leaf
  <2>3. \A j : Built(i, j)' = Built(i, j)
    BY <1>1, <1>3 DEF Built
  <2>4. Due(i)' = Due(i)
    BY <1>1, <1>3, <2>2 DEF Due, UPDATE_NEXT
  <2>5. Passed' = Passed
    BY <1>1 DEF Passed
  <2>6. Leaf(Bottom)' = Leaf(Bottom)
    BY <1>3, <2>2
  <2>7. /\ tree'[i].I = tree[i].I /\ tree'[i].I_next = tree[i].I_next
        /\ tree'[i].update_count = tree[i].update_count /\ subtree'[i] = subtree[i]
        /\ tree'[i + 1].update_count = tree[i + 1].update_count
    BY <1>1
  <2> QED BY <1>1, <1>2, <2>1, <2>2, <2>3, <2>4, <2>5, <2>6, <2>7, LevelStays
<1> QED
  BY <1>1, <1>3, <1>4, <1>5, <1>6 DEF IInv

\* do_gen_sig moves on to the next leaf, and the one that signs stays the same.
LEMMA SignOK ==
    ASSUME IInv, Sign
    PROVE  IInv'
<1>1. /\ <<"sign">> \in jobs /\ jobs' = jobs \ {<<"sign">>}
      /\ tree' = [tree EXCEPT ![Bottom].current_index = @ + 1]
      /\ key' = key /\ subtree' = subtree /\ at' = at
  BY DEF Sign, Took
<1>2. key \in Keys /\ TypesOK /\ at \in {"issuing", "waiting"} /\ JobsOK
  BY <1>1 DEF IInv, TypesOK, JobsOK
<1>3. Levels' = Levels /\ Bottom' = Bottom /\ SubLevels(Bottom)' = SubLevels(Bottom)
      /\ Bottom = Levels /\ Levels \in Nat \ {0}
  BY <1>1, <1>2, KeyStays, Numbers DEF Bottom
<1>4. /\ tree \in [1 .. Levels -> Trees] /\ tree' \in [1 .. Levels -> Trees]
      /\ tree'[Bottom].current_index = tree[Bottom].current_index + 1
      /\ \A i \in 1 .. Levels : /\ i # Bottom => tree'[i] = tree[i]
                                /\ tree'[i].I = tree[i].I /\ tree'[i].I_next = tree[i].I_next
                                /\ tree'[i].update_count = tree[i].update_count
  <2>1. tree \in [1 .. Levels -> Trees] /\ Bottom \in 1 .. Levels
    BY <1>2, <1>3 DEF TypesOK
  <2>2. tree[Bottom] \in Trees
    BY <2>1
  <2> DEFINE b == [tree[Bottom] EXCEPT !.current_index = tree[Bottom].current_index + 1]
  <2>3. tree' = [tree EXCEPT ![Bottom] = b]
    BY <1>1
  <2>4. /\ b \in Trees /\ b.current_index = tree[Bottom].current_index + 1
        /\ b.I = tree[Bottom].I /\ b.I_next = tree[Bottom].I_next
        /\ b.update_count = tree[Bottom].update_count
    <3>1. PICK r : r = tree[Bottom] /\ r \in Trees
      BY <2>2
    <3>2. b = [r EXCEPT !.current_index = r.current_index + 1]
      BY <3>1
    <3> HIDE DEF b
    <3> QED BY <3>1, <3>2 DEF Trees
  <2> HIDE DEF b
  <2>5. tree' \in [1 .. Levels -> Trees] /\ tree'[Bottom] = b
        /\ \A i \in 1 .. Levels : i # Bottom => tree'[i] = tree[i]
    BY <2>1, <2>3, <2>4
  <2> QED BY <2>1, <2>4, <2>5
<1>5. TypesOK'
  BY <1>1, <1>2, <1>4, TypesStay DEF TypesOK
<1>6. JobsOK'
  BY <1>1, <1>2, <1>3 DEF JobsOK
<1>7. \A i \in 1 .. Levels : Leaf(i)' = Leaf(i)
  <2>1. tree[Bottom].current_index \in Nat
    BY <1>3, <1>4 DEF Trees
  <2>2. Leaf(Bottom)' = Leaf(Bottom)
    BY <1>1, <1>2, <1>3, <1>4, <2>1 DEF Leaf
  <2>3. ASSUME NEW i \in 1 .. Levels, i # Bottom PROVE Leaf(i)' = Leaf(i)
    BY <1>3, <1>4, <2>3 DEF Leaf
  <2>4. Leaf(Levels)' = Leaf(Levels)
    BY <1>3, <2>2
  <2> QED BY <1>3, <2>3, <2>4
<1>8. \A job : job # <<"sign">> => (job \in jobs' <=> job \in jobs)
  BY <1>1
<1>9. ASSUME NEW i \in 1 .. Levels PROVE LevelOK(i)'
  <2>1. LevelOK(i)
    BY <1>2 DEF IInv
  <2>2. \A j : Built(i, j)' = Built(i, j)
    BY <1>1, <1>3, <1>4, <1>8, JobNames DEF Built
  <2>3. Due(i)' = Due(i)
    BY <1>1, <1>3, <1>4, <1>7, <1>8, JobNames DEF Due, UPDATE_NEXT
  <2>4. Passed' = Passed
    BY <1>1, <1>8, JobNames DEF Passed
  <2>5. i + 1 = Bottom => Leaf(Bottom)' = Leaf(Bottom)
    BY <1>3, <1>7
  <2>7. subtree'[i] = subtree[i]
    BY <1>1
  <2>6. i + 1 < Bottom =>
           /\ Leaf(i + 1)' = Leaf(i + 1)
           /\ tree'[i + 1].update_count = tree[i + 1].update_count
    <3>1. i + 1 < Bottom => i + 1 \in 1 .. Levels
      BY <1>3
    <3> QED BY <1>4, <1>7, <3>1
  <2> QED BY <1>1, <1>2, <1>4, <1>7, <2>1, <2>2, <2>3, <2>4, <2>5, <2>6, <2>7, LevelStays
<1> QED
  BY <1>2, <1>3, <1>5, <1>6, <1>9 DEF IInv

-----------------------------------------------------------------------------
(* Issuing the work.                                                       *)

\* Where the part of a tree that the signing leaf is in begins.
LEMMA StartsIn ==
    ASSUME key \in Keys, NEW i \in 1 .. Levels, NEW j \in 1 .. SubLevels(i), LeafOK(i)
    PROVE  /\ Leaf(i) \in Nat /\ Leaf(i) < Leaves(i)
           /\ Start(i, j) \in Nat /\ Start(i, j) <= Leaf(i) /\ Leaf(i) < Start(i, j) + Span(i, j)
           /\ Leaf(i) % Span(i, j) \in 0 .. (Span(i, j) - 1)
           /\ Start(i, j) + Span(i, j) < Leaves(i) =>
                 (Start(i, j) + Span(i, j)) + Span(i, j) <= Leaves(i)
<1>1. PICK x \in Nat, l \in Nat, s \in Nat \ {0} :
         /\ x = Leaf(i) /\ l = Leaves(i) /\ s = Span(i, j) /\ x < l /\ Divides(s, l)
  <2>1. Leaf(i) \in 0 .. (Leaves(i) - 1) /\ Leaves(i) \in Nat /\ SpansFit(i, j)
    BY LevelNumbers DEF LeafOK
  <2> QED BY <2>1 DEF SpansFit
<1>2. PICK r \in Nat, y \in Nat :
         r = x % s /\ r \in 0 .. (s - 1) /\ y = x - r /\ Divides(s, y) /\ y <= x /\ x < y + s
  <2>1. x % s \in 0 .. (s - 1)
    BY Quotient
  <2>2. x - (x % s) \in Nat /\ Divides(s, x - (x % s))
    BY StartOf
  <2> QED BY <2>1, <2>2
<1>3. Divides(s, y + s)
  <2>1. PICK k \in Nat : y = k * s
    BY <1>2 DEF Divides
  <2>2. (k + 1) * s = k * s + 1 * s
    BY Distribute
  <2>3. PICK p \in Nat : p = k + 1
    OBVIOUS
  <2>4. y + s = p * s
    BY <2>1, <2>2, <2>3
  <2> QED BY <2>4, Zenon DEF Divides
<1>4. y + s < l => (y + s) + s <= l
  <2>1. y + s \in Nat
    OBVIOUS
  <2> QED BY <1>1, <1>3, <2>1, MultipleBelow
<1>5. Start(i, j) = y
  BY <1>1, <1>2 DEF Start
<1> QED
  BY <1>1, <1>2, <1>4, <1>5

\* The index of the bottom tree is that of the leaf that signs or the next one.
LEMMA BottomIndex ==
    ASSUME TypesOK, LeafOK(Bottom)
    PROVE  /\ tree[Bottom].current_index \in Nat /\ Leaf(Bottom) \in Nat
           /\ tree[Bottom].current_index \in Leaf(Bottom) .. (Leaf(Bottom) + 1)
           /\ UpdatesBeforeEnd = Leaves(Bottom) - tree[Bottom].current_index
           /\ at = "waiting" /\ jobs = {} => tree[Bottom].current_index = Leaf(Bottom) + 1
<1>1. key \in Keys /\ Bottom = Levels /\ Levels \in Nat \ {0} /\ Bottom \in 1 .. Levels
  BY Numbers DEF TypesOK, Bottom
<1>2. tree[Bottom] \in Trees
  BY <1>1 DEF TypesOK
<1>3. PICK q \in Nat : q = tree[Bottom].current_index
  BY <1>2 DEF Trees
<1>4. MaxIndex(Bottom) = Leaves(Bottom) - 1 /\ Leaves(Bottom) \in Nat
  BY <1>1, LevelNumbers
<1>5. Leaf(Bottom) \in {q, q - 1} /\ (at = "waiting" /\ jobs = {} => Leaf(Bottom) = q - 1)
  BY <1>3 DEF Leaf
<1>6. Leaf(Bottom) \in Nat
  BY <1>4 DEF LeafOK
<1> QED
  BY <1>3, <1>4, <1>5, <1>6 DEF UpdatesBeforeEnd

\* The leaves that the BUILDING subtrees need are issued, and an update of the parent
\* by each signature of the last leaves.
LEMMA IssueOK ==
    ASSUME IInv, Issue
    PROVE  IInv'
<1>1. /\ at = "issuing" /\ at' = "waiting"
      /\ key' = key /\ tree' = tree /\ subtree' = subtree
      /\ jobs' = jobs \cup {<<"building", j>> : j \in Steps} \cup
                   (IF SkippedALevel /\ Levels > 1
                         /\ tree[Bottom - 1].update_count # UPDATE_DONE
                    THEN {<<"parent">>} ELSE {})
  BY DEF Issue
<1>2. key \in Keys /\ TypesOK /\ JobsOK
  BY DEF IInv, TypesOK
<1>3. /\ Levels' = Levels /\ Bottom' = Bottom /\ SubLevels(Bottom)' = SubLevels(Bottom)
      /\ Bottom = Levels /\ Levels \in Nat \ {0} /\ Bottom \in 1 .. Levels
  BY <1>1, <1>2, KeyStays, Numbers DEF Bottom
<1>4. TypesOK'
  BY <1>1, <1>2, TypesStay DEF TypesOK
<1>5. jobs \subseteq {<<"sign">>, <<"next">>} /\ (<<"next">> \in jobs => Levels > 1)
  BY <1>1, <1>2 DEF JobsOK
<1>6. Steps \subseteq 2 .. SubLevels(Bottom)
  BY DEF Steps
<1>7. /\ <<"sign">> \in jobs' <=> <<"sign">> \in jobs
      /\ <<"next">> \in jobs' <=> <<"next">> \in jobs
      /\ \A j : <<"building", j>> \in jobs' <=> j \in Steps
      /\ <<"parent">> \in jobs' <=> SkippedALevel /\ Levels > 1
                                    /\ tree[Bottom - 1].update_count # UPDATE_DONE
  BY <1>1, <1>5, JobNames
<1>8. JobsOK'
  <2>1. jobs' \subseteq {<<"sign">>, <<"next">>, <<"parent">>} \cup
                        {<<"building", j>> : j \in 2 .. SubLevels(Bottom)}
    BY <1>1, <1>5, <1>6
  <2>2. <<"next">> \in jobs' \/ <<"parent">> \in jobs' => Levels > 1
    BY <1>5, <1>7
  <2> QED BY <1>1, <1>3, <2>1, <2>2 DEF JobsOK
<1>9. \A k : Leaf(k)' = Leaf(k)
  BY <1>1, <1>3, <1>7 DEF Leaf
<1>10. Leaf(Bottom)' = Leaf(Bottom)
  BY <1>3, <1>9
<1>11. LeafOK(Bottom)
  BY <1>1, <1>3 DEF IInv, LevelOK
<1>12. PICK q \in Nat, x \in Nat, l \in Nat :
          /\ q = tree[Bottom].current_index /\ x = Leaf(Bottom) /\ l = Leaves(Bottom)
          /\ q \in x .. (x + 1) /\ UpdatesBeforeEnd = l - q
  <2>1. Leaves(Bottom) \in Nat
    BY <1>2, <1>3, LevelNumbers
  <2> QED BY <1>2, <1>11, <2>1, BottomIndex
<1>13. ASSUME NEW j \in 2 .. SubLevels(Bottom), Start(Bottom, j) + Span(Bottom, j) < l
       PROVE  j \in Steps
  <2>1. j \in 1 .. SubLevels(Bottom)
    OBVIOUS
  <2>2. PICK y \in Nat, s \in Nat : y = Start(Bottom, j) /\ s = Span(Bottom, j)
          /\ x < y + s /\ (y + s) + s <= l
    <3>1. Span(Bottom, j) \in Nat
      BY <1>2, <1>3, <2>1, LevelNumbers DEF SpansFit
    <3> QED BY <1>2, <1>3, <1>11, <1>12, <1>13, <2>1, <3>1, StartsIn
  <2>3. l - q >= s
    BY <1>12, <2>2
  <2> QED BY <1>12, <2>2, <2>3 DEF Steps
<1>14. Levels > 1 => UpdatesOK(Bottom - 1)'
  <2>1. SUFFICES ASSUME Levels > 1 PROVE UpdatesOK(Bottom - 1)'
    OBVIOUS
  <2>2. Bottom - 1 \in 1 .. Levels /\ (Bottom - 1) + 1 = Bottom /\ Bottom - 1 < Bottom
        /\ ~((Bottom - 1) + 1 < Bottom)
    BY <1>3, <2>1
  <2>3. UpdatesOK(Bottom - 1)
    BY <1>1, <2>2 DEF IInv, LevelOK
  <2>4. PICK u \in Nat, g \in Nat :
           u = tree[Bottom - 1].update_count /\ g = Generated(Bottom) /\ g <= l
    <3>1. tree[Bottom - 1] \in Trees
      BY <1>2, <2>2 DEF TypesOK
    <3>2. Bottom \in 2 .. Levels
      BY <1>3, <2>1
    <3>3. Generated(Bottom) \in 1 .. Leaves(Bottom)
      BY <1>2, <3>2, UpdatesGiven
    <3> QED BY <1>12, <3>1, <3>3 DEF Trees
  <2>5. Generated(Bottom)' = g /\ Leaves(Bottom)' = l /\ (Bottom - 1)' = Bottom - 1
        /\ tree'[Bottom - 1].update_count = u
    BY <1>1, <1>12, <2>4, KeyStays
  <2>6. u = UPDATE_DONE \/ u + (l - g) + 1 >= x + Passed'
    <3>1. CASE <<"parent">> \in jobs'
      <4>1. Passed = 0 /\ Passed' = 0
        BY <1>1, <3>1 DEF Passed
      <4> QED BY <1>12, <2>2, <2>3, <2>4, <4>1 DEF UpdatesOK
    <3>2. CASE <<"parent">> \notin jobs' /\ u # UPDATE_DONE
      <4>1. SubLevels(Bottom) # 1 /\ Steps = 2 .. SubLevels(Bottom)
        BY <1>7, <2>1, <2>4, <3>2 DEF SkippedALevel
      <4>2. SubLevels(Bottom) \in 1 .. 25
        BY <1>2, <1>3, LevelNumbers
      <4>3. 2 \in Steps
        BY <4>1, <4>2
      <4>4. l - q >= g
        BY <1>12, <2>4, <4>1, <4>3 DEF Steps, Generated
      <4>5. Passed' \in {0, 1}
        BY DEF Passed
      <4> QED BY <1>12, <2>4, <4>4, <4>5
    <3> QED BY <3>1, <3>2
  <2> QED BY <1>3, <1>10, <1>12, <2>2, <2>5, <2>6 DEF UpdatesOK, UPDATE_DONE
<1>15. ASSUME NEW i \in 1 .. Levels PROVE LevelOK(i)'
  <2>1. LevelOK(i)
    BY <1>1 DEF IInv
  <2>2. \A k \in 1 .. Levels : Due(k)' = Due(k)
    BY <1>1, <1>3, <1>7, <1>9 DEF Due, UPDATE_NEXT
  <2>3. /\ tree'[i].I = tree[i].I /\ tree'[i].I_next = tree[i].I_next
        /\ tree'[i].update_count = tree[i].update_count /\ subtree'[i] = subtree[i]
        /\ tree'[i + 1].update_count = tree[i + 1].update_count
    BY <1>1
  <2>4. /\ SubLevels(i)' = SubLevels(i) /\ MaxIndex(i)' = MaxIndex(i)
    BY <1>1, KeyStays
  <2>5. LeafOK(i)' /\ NextOK(i)'
    <3>1. LeafOK(i)'
      BY <1>9, <2>1, <2>4 DEF LevelOK, LeafOK
    <3> QED BY <1>1, <2>1, <2>2, <2>3, <3>1, NextStays DEF LevelOK
  <2>6. ASSUME NEW j \in 1 .. SubLevels(i) PROVE ActiveOK(i, j)' /\ BuildingOK(i, j)'
    <3>1. ActiveOK(i, j) /\ BuildingOK(i, j) /\ LeafOK(i)
      BY <2>1 DEF LevelOK
    <3>2. ActiveOK(i, j)'
      BY <1>1, <1>9, <2>3, <3>1, ActiveStays
    <3>3. CASE Built(i, j)' = Built(i, j)
      BY <1>1, <1>2, <1>9, <2>3, <3>1, <3>2, <3>3, BuildingStays
    <3>4. CASE Built(i, j)' # Built(i, j)
      <4>1. i = Bottom /\ j \notin Steps
        BY <1>1, <1>3, <1>7, <2>3, <3>4 DEF Built
      <4>2. ~(j > 1 /\ Start(i, j) + Span(i, j) < Leaves(i))
        <5>1. SUFFICES ASSUME j > 1 PROVE ~(Start(i, j) + Span(i, j) < Leaves(i))
          OBVIOUS
        <5>2. j \in 2 .. SubLevels(i)
          BY <5>1
        <5> QED BY <1>12, <1>13, <4>1, <5>2
      <4>3. Start(i, j)' = Start(i, j) /\ Span(i, j)' = Span(i, j) /\ Leaves(i)' = Leaves(i)
        BY <1>1, <1>9, KeyStays DEF Start
      <4> QED BY <3>2, <4>2, <4>3 DEF BuildingOK
    <3> QED BY <3>3, <3>4
  <2>7. i < Bottom => CountOK(i)' /\ UpdatesOK(i)'
    <3>1. SUFFICES ASSUME i < Bottom PROVE CountOK(i)' /\ UpdatesOK(i)'
      OBVIOUS
    <3>2. CountOK(i)'
      BY <2>1, <2>3, <2>4, <3>1 DEF LevelOK, CountOK, UPDATE_DONE
    <3>3. CASE i = Bottom - 1
      <4>1. Levels > 1 /\ i' = (Bottom - 1)'
        BY <1>3, <3>1, <3>3
      <4> QED BY <1>3, <1>14, <3>2, <3>3, <4>1 DEF UpdatesOK
    <3>4. CASE i # Bottom - 1
      <4>1. i + 1 # Bottom /\ i \in Nat
        BY <1>3, <3>4
      <4> QED BY <1>1, <1>9, <2>1, <2>3, <3>1, <3>2, <4>1, UpdatesStay DEF LevelOK
    <3> QED BY <3>3, <3>4
  <2> QED BY <1>3, <2>4, <2>5, <2>6, <2>7 DEF LevelOK
<1> QED
  BY <1>1, <1>3, <1>4, <1>8, <1>15 DEF IInv

-----------------------------------------------------------------------------
(* Steps of the subtrees.                                                  *)

\* A node more.
LEMMA AddNodeOf ==
    ASSUME NEW s, NEW i, NEW j, NEW t, NEW from \in Nat, NEW n \in Nat,
           Contains(s, t, from, n), n # Span(i, j)
    PROVE  AddNode(s, i, j, t) = Subtree(from, n + 1, MadeOf(t, from, n + 1))
<1>1. s.left_leaf = from /\ s.current_index = n
  BY DEF Contains
<1>2. WithLeaf(s.made, t, from + n) = MadeOf(t, from, n + 1)
  <2>1. CASE n = 0
    <3>1. s.made.count = 0 /\ from + n = from /\ n + 1 = 1
      BY <2>1 DEF Contains
    <3> QED BY <3>1 DEF WithLeaf
  <2>2. CASE n # 0
    <3>1. s.made = MadeOf(t, from, n)
      BY <2>2 DEF Contains
    <3>2. s.made.tree = t /\ s.made.from = from /\ s.made.count = n
      BY <3>1 DEF MadeOf
    <3> QED BY <2>2, <3>2 DEF WithLeaf
  <2> QED BY <2>1, <2>2
<1> QED
  BY <1>1, <1>2 DEF AddNode

\* A step of a subtree keeps its type.
LEMMA AddNodeType ==
    ASSUME NEW s \in Piece, NEW i, NEW j, NEW t \in Seq(Int)
    PROVE  AddNode(s, i, j, t) \in Piece
<1>1. PICK l \in Nat, n \in Nat, m \in [tree : Seq(Int), from : Nat, count : Nat] :
         l = s.left_leaf /\ n = s.current_index /\ m = s.made
  BY DEF Piece
<1>2. WithLeaf(m, t, l + n) \in [tree : Seq(Int), from : Nat, count : Nat]
  <2>1. MadeOf(t, l + n, 1) \in [tree : Seq(Int), from : Nat, count : Nat]
    BY DEF MadeOf
  <2>2. MadeOf(t, m.from, m.count + 1) \in [tree : Seq(Int), from : Nat, count : Nat]
    <3>1. m.from \in Nat /\ m.count + 1 \in Nat
      BY <1>1
    <3> QED BY <3>1 DEF MadeOf
  <2> QED BY <2>1, <2>2, PieceTypes DEF WithLeaf
<1>3. Subtree(l, n + 1, WithLeaf(m, t, l + n)) \in Piece
  BY <1>2 DEF Subtree, Piece
<1> QED
  BY <1>1, <1>3 DEF AddNode

\* hss_step_next_tree builds one leaf more of the tree that follows.
LEMMA StepNextOf ==
    ASSUME TypesOK, NEW i \in 1 .. Levels, NEW due \in Nat,
           NextBuilt(subtree[i], i, tree[i].I_next, due)
    PROVE  /\ StepNext(i) \in [1 .. SubLevels(i) -> Roles]
           /\ \A j \in 1 .. SubLevels(i) :
                 /\ StepNext(i)[j].ACTIVE = subtree[i][j].ACTIVE
                 /\ StepNext(i)[j].BUILDING = subtree[i][j].BUILDING
           /\ NextBuilt(StepNext(i), i, tree[i].I_next, due + 1)
<1> DEFINE S == SubLevels(i)
           t == tree[i].I_next
           ss == subtree[i]
           open == {j \in 1 .. S : ss[j].NEXT.current_index < MaxSubindex}
<1>1. /\ key \in Keys /\ ss \in [1 .. S -> Roles] /\ t \in Seq(Int)
      /\ S \in 1 .. 25 /\ \A j \in 1 .. S : SpansFit(i, j)
      /\ Leaves(i) \in Nat /\ Leaves(i) < MaxSubindex
  <2>1. tree[i] \in Trees /\ key \in Keys
    BY DEF TypesOK
  <2>2. t \in Seq(Int)
    BY <2>1 DEF Trees
  <2> QED BY <2>1, <2>2, LevelNumbers DEF TypesOK
<1>2. PICK o \in 0 .. S : OpenAt(ss, i, t, due, o)
  BY DEF NextBuilt
<1> HIDE DEF ss, t, S
<1>3. /\ \A j \in 1 .. S : ss[j].NEXT.left_leaf = 0
      /\ \A j \in 1 .. S : j > o => ss[j].NEXT.current_index = MaxSubindex
                                    /\ ss[j].NEXT.made = MadeOf(t, 0, Span(i, j))
      /\ \A j \in 1 .. S : j < o => Contains(ss[j].NEXT, t, 0, 0)
      /\ o > 0 => \E n \in 0 .. (Span(i, o) - 1) :
                   /\ Contains(ss[o].NEXT, t, 0, n)
                   /\ due <= IF n = 0 /\ o < S THEN NodeSpan(i, o) ELSE n
  BY <1>2 DEF OpenAt, S
<1>4. CASE o = 0
  <2>1. open = {}
    BY <1>1, <1>3, <1>4 DEF MaxSubindex
  <2>2. StepNext(i) = ss
    BY <2>1 DEF StepNext, ss, S
  <2>3. OpenAt(ss, i, t, due + 1, o)
    BY <1>3, <1>4 DEF OpenAt, S
  <2>4. NextBuilt(ss, i, t, due + 1)
    BY <2>3 DEF NextBuilt, S
  <2> QED BY <1>1, <2>2, <2>4 DEF ss, t, S
<1>5. CASE o > 0
  <2>1. o \in 1 .. S /\ o \in Nat
    BY <1>1, <1>5
  <2>2. PICK s \in Nat \ {0}, m \in Nat \ {0}, n \in Nat :
           /\ s = Span(i, o) /\ m = NodeSpan(i, o) /\ m < s /\ s < MaxSubindex /\ n < s
           /\ Contains(ss[o].NEXT, t, 0, n)
           /\ due <= IF n = 0 /\ o < S THEN m ELSE n
    <3>1. SpansFit(i, o)
      BY <1>1, <2>1
    <3>2. Span(i, o) \in Nat \ {0} /\ NodeSpan(i, o) \in Nat \ {0}
          /\ NodeSpan(i, o) < Span(i, o) /\ Span(i, o) < MaxSubindex
      BY <1>1, <3>1 DEF SpansFit, MaxSubindex
    <3>3. PICK n \in 0 .. (Span(i, o) - 1) :
             /\ Contains(ss[o].NEXT, t, 0, n)
             /\ due <= IF n = 0 /\ o < S THEN NodeSpan(i, o) ELSE n
      BY <1>3, <1>5
    <3> QED BY <3>2, <3>3
  <2>3. Max(open) = o /\ open # {}
    <3>1. o \in open
      BY <2>1, <2>2 DEF Contains, MaxSubindex
    <3>2. \A j \in open : j <= o
      <4>1. ASSUME NEW j \in 1 .. S, j > o PROVE j \notin open
        BY <1>3, <4>1 DEF MaxSubindex
      <4> QED BY <1>1, <2>1, <4>1
    <3>3. S \in Nat /\ open \subseteq 0 .. S /\ open # {}
      <4>1. S \in Nat /\ 1 .. S \subseteq 0 .. S
        BY <1>1
      <4>2. open \subseteq 1 .. S
        OBVIOUS
      <4> HIDE DEF open
      <4> QED BY <3>1, <4>1, <4>2
    <3>4. Max(open) \in open /\ \A y \in open : y <= Max(open)
      <4> HIDE DEF open
      <4> QED BY <3>3, GreatestOf
    <3>5. Max(open) <= o /\ o <= Max(open) /\ Max(open) \in Nat
      BY <1>1, <3>1, <3>2, <3>4
    <3> QED BY <2>1, <3>1, <3>5
  <2> DEFINE b == Begun(ss[o], i, o)
             a == NextDone(AddNode(b, i, o, t), i, o)
  <2>4. StepNext(i) = [ss EXCEPT ![o].NEXT = a]
    BY <2>3 DEF StepNext, ss, t, S
  <2>5. PICK k \in Nat : /\ k = (IF n = 0 /\ o < S THEN m ELSE n) /\ k < s /\ due <= k
                         /\ Contains(b, t, 0, k)
    <3>1. CASE n = 0 /\ o < S
      <4>1. o + 1 \in 1 .. S /\ o + 1 > o
        BY <1>1, <2>1, <3>1
      <4>2. SpansFit(i, o + 1) /\ (o + 1) - 1 = o /\ o + 1 >= 2
        BY <1>1, <2>1, <4>1
      <4>3. Span(i, o + 1) = m
        BY <2>2, <4>2 DEF SpansFit
      <4>4. ss[o + 1].NEXT.made = MadeOf(t, 0, m)
        BY <1>3, <4>1, <4>3
      <4>5. ss[o].NEXT.current_index = 0 /\ ss[o].NEXT.left_leaf = 0
        BY <2>2, <3>1 DEF Contains
      <4>6. b = Subtree(0, m, MadeOf(t, 0, m))
        BY <2>2, <3>1, <4>4, <4>5 DEF Begun, ss, S
      <4>7. Contains(b, t, 0, m)
        BY <2>2, <4>6 DEF Contains, Subtree
      <4> QED BY <2>2, <3>1, <4>7
    <3>2. CASE ~(n = 0 /\ o < S)
      <4>1. ss[o].NEXT.current_index = n
        BY <2>2 DEF Contains
      <4>2. b = ss[o].NEXT
        BY <3>2, <4>1 DEF Begun, S
      <4> QED BY <2>2, <3>2, <4>2
    <3> QED BY <3>1, <3>2
  <2>6. AddNode(b, i, o, t) = Subtree(0, k + 1, MadeOf(t, 0, k + 1))
    <3>1. k # Span(i, o) /\ 0 \in Nat
      BY <2>2, <2>5
    <3> HIDE DEF b
    <3> QED BY <2>5, <3>1, AddNodeOf
  <2>7. a = IF k + 1 = s THEN Subtree(0, MaxSubindex, MadeOf(t, 0, s))
            ELSE Subtree(0, k + 1, MadeOf(t, 0, k + 1))
    BY <2>2, <2>6 DEF NextDone, Subtree
  <2>8. a \in Piece
    <3>1. k + 1 \in Nat /\ 0 \in Nat
      OBVIOUS
    <3>2. Subtree(0, MaxSubindex, MadeOf(t, 0, s)) \in Piece
          /\ Subtree(0, k + 1, MadeOf(t, 0, k + 1)) \in Piece
      BY <1>1, <3>1, PieceTypes
    <3> QED BY <2>7, <3>2
  <2> HIDE DEF a, b
  <2>9. ss[o] \in Roles
    BY <1>1, <2>1
  <2>10. PICK r : /\ r \in Roles /\ r.NEXT = a /\ r.ACTIVE = ss[o].ACTIVE
                  /\ r.BUILDING = ss[o].BUILDING /\ StepNext(i) = [ss EXCEPT ![o] = r]
    <3> DEFINE p == ss[o]
               q == [p EXCEPT !.NEXT = a]
    <3>1. StepNext(i) = [ss EXCEPT ![o] = q]
      BY <2>4
    <3>2. p \in Roles
      BY <2>9
    <3> HIDE DEF p
    <3>3. q \in Roles /\ q.NEXT = a /\ q.ACTIVE = p.ACTIVE /\ q.BUILDING = p.BUILDING
      BY <2>8, <3>2 DEF Roles
    <3> HIDE DEF q
    <3> QED BY <3>1, <3>3 DEF p
  <2> DEFINE tt == StepNext(i)
  <2>11. /\ tt \in [1 .. S -> Roles] /\ tt[o] = r
         /\ \A j \in 1 .. S : j # o => tt[j] = ss[j]
    BY <1>1, <2>1, <2>10
  <2>12. \A j \in 1 .. S : tt[j].ACTIVE = ss[j].ACTIVE /\ tt[j].BUILDING = ss[j].BUILDING
    BY <2>10, <2>11
  <2> HIDE DEF tt
  <2>13. CASE k + 1 = s
    <3>1. r.NEXT.left_leaf = 0 /\ r.NEXT.current_index = MaxSubindex
          /\ r.NEXT.made = MadeOf(t, 0, Span(i, o))
      BY <2>2, <2>7, <2>10, <2>13 DEF Subtree
    <3>2. PICK p \in 0 .. S : p = o - 1 /\ p < S /\ p < o
      BY <1>1, <2>1
    <3>3. \A j \in 1 .. S : tt[j].NEXT.left_leaf = 0
      BY <1>3, <2>11, <3>1
    <3>4. \A j \in 1 .. S : j > p => tt[j].NEXT.current_index = MaxSubindex
                                     /\ tt[j].NEXT.made = MadeOf(t, 0, Span(i, j))
      <4>1. ASSUME NEW j \in 1 .. S, j > p
            PROVE  tt[j].NEXT.current_index = MaxSubindex
                   /\ tt[j].NEXT.made = MadeOf(t, 0, Span(i, j))
        <5>1. j = o \/ j > o
          BY <2>1, <3>2, <4>1
        <5> QED BY <1>3, <2>1, <2>11, <3>1, <5>1
      <4> QED BY <4>1
    <3>5. \A j \in 1 .. S : j < p + 1 => Contains(tt[j].NEXT, t, 0, 0)
      <4>1. ASSUME NEW j \in 1 .. S, j < p + 1 PROVE Contains(tt[j].NEXT, t, 0, 0)
        <5>1. j < o /\ j # o
          BY <2>1, <3>2, <4>1
        <5> QED BY <1>3, <2>11, <5>1
      <4> QED BY <4>1
    <3>6. ASSUME p > 0
          PROVE  \E x \in 0 .. (Span(i, p) - 1) :
                    /\ Contains(tt[p].NEXT, t, 0, x)
                    /\ due + 1 <= IF x = 0 /\ p < S THEN NodeSpan(i, p) ELSE x
      <4>1. p \in 1 .. S /\ p < p + 1 /\ o >= 2
        BY <2>1, <3>2, <3>6
      <4>2. SpansFit(i, p) /\ SpansFit(i, o)
        BY <1>1, <2>1, <4>1
      <4>3. NodeSpan(i, p) = s
        BY <2>2, <3>2, <4>1, <4>2 DEF SpansFit
      <4>4. 0 \in 0 .. (Span(i, p) - 1)
        BY <4>2 DEF SpansFit
      <4>5. Contains(tt[p].NEXT, t, 0, 0)
        BY <3>5, <4>1
      <4>6. due + 1 <= s
        BY <2>5, <2>13
      <4> QED BY <3>2, <4>3, <4>4, <4>5, <4>6
    <3>7. \A j \in 1 .. S : j < p => Contains(tt[j].NEXT, t, 0, 0)
      <4>1. \A j \in 1 .. S : j < p => j < p + 1
        BY <3>2
      <4> QED BY <3>5, <4>1
    <3>8. OpenAt(tt, i, t, due + 1, p)
      BY <3>3, <3>4, <3>6, <3>7 DEF OpenAt, S
    <3>9. NextBuilt(tt, i, t, due + 1)
      BY <3>8 DEF NextBuilt, S
    <3> QED BY <2>11, <2>12, <3>9 DEF tt, S, ss, t
  <2>14. CASE k + 1 # s
    <3>1. r.NEXT.left_leaf = 0 /\ r.NEXT.current_index = k + 1
          /\ r.NEXT.made = MadeOf(t, 0, k + 1)
      BY <2>2, <2>7, <2>10, <2>14 DEF Subtree
    <3>2. k + 1 \in 0 .. (s - 1) /\ due + 1 <= k + 1 /\ k + 1 # 0
      BY <2>5, <2>14
    <3>3. \A j \in 1 .. S : tt[j].NEXT.left_leaf = 0
      BY <1>3, <2>11, <3>1
    <3>4. \A j \in 1 .. S : j > o => tt[j].NEXT.current_index = MaxSubindex
                                     /\ tt[j].NEXT.made = MadeOf(t, 0, Span(i, j))
      BY <1>3, <2>1, <2>11
    <3>5. \A j \in 1 .. S : j < o => Contains(tt[j].NEXT, t, 0, 0)
      BY <1>3, <2>1, <2>11
    <3>6. Contains(tt[o].NEXT, t, 0, k + 1)
      BY <2>11, <3>1, <3>2 DEF Contains
    <3>7. \E x \in 0 .. (Span(i, o) - 1) :
             /\ Contains(tt[o].NEXT, t, 0, x)
             /\ due + 1 <= IF x = 0 /\ o < S THEN NodeSpan(i, o) ELSE x
      BY <2>2, <3>2, <3>6
    <3>8. OpenAt(tt, i, t, due + 1, o)
      BY <3>3, <3>4, <3>5, <3>7 DEF OpenAt, S
    <3>9. NextBuilt(tt, i, t, due + 1)
      BY <3>8 DEF NextBuilt, S
    <3> QED BY <2>11, <2>12, <3>9 DEF tt, S, ss, t
  <2> QED BY <2>13, <2>14
<1> QED
  BY <1>1, <1>4, <1>5

\* The NEXT subtrees are right after a step if they are built as far as is due.
LEMMA NextBecomes ==
    ASSUME NEW i, key' = key, NextBuilt(subtree'[i], i, tree'[i].I_next, Due(i)')
    PROVE  NextOK(i)'
<1>1. /\ SubLevels(i)' = SubLevels(i)
      /\ \A j : Span(i, j)' = Span(i, j) /\ NodeSpan(i, j)' = NodeSpan(i, j)
  BY KeyStays
<1>2. PICK o \in 0 .. SubLevels(i) : OpenAt(subtree'[i], i, tree'[i].I_next, Due(i)', o)
  BY DEF NextBuilt
<1>3. OpenAt(subtree[i], i, tree[i].I_next, Due(i), o)'
  BY <1>1, <1>2 DEF OpenAt, Contains, MadeOf
<1> QED
  BY <1>1, <1>3 DEF NextOK, NextBuilt

\* A BUILDING subtree gets one leaf more, unless it is complete.
LEMMA BuildingSteps ==
    ASSUME key \in Keys, NEW i \in 1 .. Levels, NEW j \in 1 .. SubLevels(i), key' = key,
           LeafOK(i), Leaf(i)' = Leaf(i), tree'[i].I = tree[i].I, BuildingOK(i, j),
           subtree'[i][j].BUILDING = AddNode(subtree[i][j].BUILDING, i, j, tree[i].I)
    PROVE  BuildingOK(i, j)'
<1> DEFINE s == Span(i, j)
           y == Start(i, j)
           r == Leaf(i) % Span(i, j)
           b == subtree[i][j].BUILDING
           t == tree[i].I
<1>1. Span(i, j)' = s /\ Leaves(i)' = Leaves(i) /\ Start(i, j)' = y
  BY KeyStays DEF Start
<1>2. s \in Nat \ {0} /\ y \in Nat /\ r \in 0 .. (s - 1)
  BY StartsIn, LevelNumbers DEF SpansFit
<1>3. SUFFICES ASSUME j > 1, y + s < Leaves(i)
               PROVE  \E n \in 0 .. s :
                         /\ n >= r + Built(i, j)'
                         /\ Contains(subtree'[i][j].BUILDING, t, y + s, n)
  BY <1>1 DEF BuildingOK, Contains, MadeOf
<1>4. PICK n \in 0 .. s : n >= r + Built(i, j) /\ Contains(b, t, y + s, n)
  BY <1>3 DEF BuildingOK
<1>5. Built(i, j) \in 0 .. 1 /\ Built(i, j)' \in 0 .. 1
  BY DEF Built
<1>6. subtree'[i][j].BUILDING = AddNode(b, i, j, t)
  OBVIOUS
<1>7. CASE n = s
  <2>1. b.current_index = Span(i, j)
    BY <1>4, <1>7 DEF Contains
  <2>2. subtree'[i][j].BUILDING = b
    BY <1>6, <2>1 DEF AddNode
  <2>3. n >= r + Built(i, j)'
    BY <1>2, <1>5, <1>7
  <2> QED BY <1>4, <2>2, <2>3
<1>8. CASE n # s
  <2>1. n + 1 \in 0 .. s /\ n \in Nat /\ y + s \in Nat /\ n + 1 >= r + Built(i, j)'
    BY <1>2, <1>4, <1>5, <1>8
  <2>2. AddNode(b, i, j, t) = Subtree(y + s, n + 1, MadeOf(t, y + s, n + 1))
    <3> DEFINE e == y + s
    <3>1. e \in Nat /\ Contains(b, t, e, n) /\ n \in Nat /\ n # Span(i, j)
      BY <1>4, <1>8, <2>1
    <3> HIDE DEF e, b, t
    <3>2. AddNode(b, i, j, t) = Subtree(e, n + 1, MadeOf(t, e, n + 1))
      BY <3>1, AddNodeOf
    <3> QED BY <3>2 DEF e
  <2>3. Contains(AddNode(b, i, j, t), t, y + s, n + 1)
    <3> HIDE DEF b, t, s, y
    <3> QED BY <1>2, <2>1, <2>2 DEF Contains, Subtree
  <2> QED BY <1>6, <2>1, <2>3
<1> QED
  BY <1>7, <1>8

\* Steps of one subtree.
LEMMA StepBuildingOf ==
    ASSUME TypesOK, NEW i \in 1 .. Levels, NEW j \in 1 .. SubLevels(i)
    PROVE  /\ StepBuilding(i, j) \in [1 .. SubLevels(i) -> Roles]
           /\ StepBuilding(i, j)[j].BUILDING = AddNode(subtree[i][j].BUILDING, i, j, tree[i].I)
           /\ \A k \in 1 .. SubLevels(i) :
                 /\ StepBuilding(i, j)[k].ACTIVE = subtree[i][k].ACTIVE
                 /\ StepBuilding(i, j)[k].NEXT = subtree[i][k].NEXT
                 /\ k # j => StepBuilding(i, j)[k].BUILDING = subtree[i][k].BUILDING
<1> DEFINE ss == subtree[i]
           S == SubLevels(i)
           p == ss[j]
           a == AddNode(p.BUILDING, i, j, tree[i].I)
           q == [p EXCEPT !.BUILDING = a]
<1>1. ss \in [1 .. S -> Roles] /\ p \in Roles /\ tree[i] \in Trees
  BY DEF TypesOK
<1>2. p.BUILDING \in Piece /\ tree[i].I \in Seq(Int)
  BY <1>1 DEF Roles, Trees
<1>3. a \in Piece
  BY <1>2, AddNodeType
<1>4. StepBuilding(i, j) = [ss EXCEPT ![j] = q]
  BY DEF StepBuilding
<1> HIDE DEF p, a
<1>5. q \in Roles /\ q.BUILDING = a /\ q.ACTIVE = p.ACTIVE /\ q.NEXT = p.NEXT
  BY <1>1, <1>3 DEF Roles
<1> HIDE DEF q, ss, S
<1> DEFINE tt == StepBuilding(i, j)
<1>6. tt \in [1 .. S -> Roles] /\ tt[j] = q /\ \A k \in 1 .. S : k # j => tt[k] = ss[k]
  BY <1>1, <1>4, <1>5 DEF S
<1> HIDE DEF tt
<1>7. \A k \in 1 .. S : /\ tt[k].ACTIVE = ss[k].ACTIVE /\ tt[k].NEXT = ss[k].NEXT
                        /\ k # j => tt[k].BUILDING = ss[k].BUILDING
  BY <1>5, <1>6 DEF p
<1> QED
  BY <1>5, <1>6, <1>7 DEF tt, ss, S, p, a

\* The types after a step of the subtrees of one level.
LEMMA SubtreeSteps ==
    ASSUME TypesOK, key' = key, tree' \in [1 .. Levels -> Trees], at' = at,
           NEW i \in 1 .. Levels, NEW ss \in [1 .. SubLevels(i) -> Roles],
           subtree' = [subtree EXCEPT ![i] = ss]
    PROVE  /\ TypesOK' /\ subtree'[i] = ss
           /\ \A k \in 1 .. Levels : k # i => subtree'[k] = subtree[k]
<1>1. subtree = [k \in 1 .. Levels |-> subtree[k]]
  BY DEF TypesOK
<1>2. subtree'[i] = ss /\ \A k \in 1 .. Levels : k # i => subtree'[k] = subtree[k]
  BY <1>1
<1>3. subtree' = [k \in 1 .. Levels |-> subtree'[k]]
  BY <1>1
<1>4. \A k \in 1 .. Levels : subtree'[k] \in [1 .. SubLevels(k) -> Roles]
  BY <1>2 DEF TypesOK
<1> QED
  BY <1>2, <1>3, <1>4, TypesStay DEF TypesOK

\* do_step_next
LEMMA StepBottomNextOK ==
    ASSUME IInv, StepBottomNext
    PROVE  IInv'
<1>1. /\ <<"next">> \in jobs /\ jobs' = jobs \ {<<"next">>}
      /\ subtree' = [subtree EXCEPT ![Bottom] = StepNext(Bottom)]
      /\ key' = key /\ tree' = tree /\ at' = at
  BY DEF StepBottomNext, Took
<1>2. key \in Keys /\ TypesOK /\ at \in {"issuing", "waiting"} /\ JobsOK /\ Levels > 1
  BY <1>1 DEF IInv, TypesOK, JobsOK
<1>3. /\ Levels' = Levels /\ Bottom' = Bottom /\ SubLevels(Bottom)' = SubLevels(Bottom)
      /\ Bottom = Levels /\ Levels \in Nat \ {0} /\ Bottom \in 1 .. Levels /\ Bottom > 1
  BY <1>1, <1>2, KeyStays, Numbers DEF Bottom
<1>4. \A job : job # <<"next">> => (job \in jobs' <=> job \in jobs)
  BY <1>1
<1>5. JobsOK'
  BY <1>1, <1>2, <1>3 DEF JobsOK
<1>6. LevelOK(Bottom)
  BY <1>2, <1>3 DEF IInv
<1>7. Leaf(Bottom) \in Nat
  <2>1. MaxIndex(Bottom) = Leaves(Bottom) - 1 /\ Leaves(Bottom) \in Nat
    BY <1>2, <1>3, LevelNumbers
  <2> QED BY <1>6, <2>1 DEF LevelOK, LeafOK
<1>8. Due(Bottom) = Leaf(Bottom)
  BY <1>1, <1>7 DEF Due
<1>9. /\ StepNext(Bottom) \in [1 .. SubLevels(Bottom) -> Roles]
      /\ \A j \in 1 .. SubLevels(Bottom) :
            /\ StepNext(Bottom)[j].ACTIVE = subtree[Bottom][j].ACTIVE
            /\ StepNext(Bottom)[j].BUILDING = subtree[Bottom][j].BUILDING
      /\ NextBuilt(StepNext(Bottom), Bottom, tree[Bottom].I_next, Leaf(Bottom) + 1)
  <2>1. NextBuilt(subtree[Bottom], Bottom, tree[Bottom].I_next, Leaf(Bottom))
    BY <1>3, <1>6, <1>8 DEF LevelOK, NextOK
  <2> QED BY <1>2, <1>3, <1>7, <2>1, StepNextOf
<1>10. /\ TypesOK' /\ subtree'[Bottom] = StepNext(Bottom)
       /\ \A k \in 1 .. Levels : k # Bottom => subtree'[k] = subtree[k]
  <2>1. tree' \in [1 .. Levels -> Trees]
    BY <1>1, <1>2 DEF TypesOK
  <2> QED BY <1>1, <1>2, <1>3, <1>9, <2>1, SubtreeSteps
<1>11. \A k : Leaf(k)' = Leaf(k)
  BY <1>1, <1>3, <1>4, JobNames DEF Leaf
<1>12. Leaf(Bottom)' = Leaf(Bottom) /\ Passed' = Passed
  BY <1>1, <1>3, <1>4, <1>11, JobNames DEF Passed
<1>13. \A k, j : Built(k, j)' = Built(k, j)
  BY <1>1, <1>3, <1>4, JobNames DEF Built
<1>14. ASSUME NEW i \in 1 .. Levels PROVE LevelOK(i)'
  <2>1. LevelOK(i)
    BY <1>2 DEF IInv
  <2>2. /\ tree'[i].I = tree[i].I /\ tree'[i].I_next = tree[i].I_next
        /\ tree'[i].update_count = tree[i].update_count
        /\ tree'[i + 1].update_count = tree[i + 1].update_count
    BY <1>1
  <2>3. CASE i # Bottom
    <3>1. Due(i)' = Due(i)
      BY <1>3, <1>11, <2>2, <2>3 DEF Due, UPDATE_NEXT
    <3> QED BY <1>1, <1>2, <1>10, <1>11, <1>12, <1>13, <2>1, <2>2, <2>3, <3>1, LevelStays
  <2>4. CASE i = Bottom
    <3>1. Due(i)' = Leaf(i) + 1
      <4>1. <<"next">> \notin jobs' /\ at' # "idle"
        BY <1>1, <1>2
      <4> QED BY <1>3, <1>11, <2>4, <4>1 DEF Due
    <3>2. NextOK(i)'
      <4>1. NextBuilt(subtree'[i], i, tree'[i].I_next, Due(i)')
        BY <1>9, <1>10, <2>2, <2>4, <3>1
      <4> QED BY <1>1, <4>1, NextBecomes
    <3>3. SubLevels(i)' = SubLevels(i) /\ MaxIndex(i)' = MaxIndex(i)
      BY <1>1, KeyStays
    <3>4. LeafOK(i) /\ LeafOK(i)'
      BY <1>11, <2>1, <3>3 DEF LevelOK, LeafOK
    <3>5. ASSUME NEW j \in 1 .. SubLevels(i) PROVE ActiveOK(i, j)' /\ BuildingOK(i, j)'
      <4>1. ActiveOK(i, j) /\ BuildingOK(i, j)
        BY <2>1 DEF LevelOK
      <4>2. /\ subtree'[i][j].ACTIVE = subtree[i][j].ACTIVE
            /\ subtree'[i][j].BUILDING = subtree[i][j].BUILDING
        BY <1>9, <1>10, <2>4
      <4> QED BY <1>1, <1>2, <1>11, <1>13, <2>2, <3>4, <4>1, <4>2, ActiveStays, BuildingStays
    <3>6. ~(i < Bottom')
      BY <1>3, <2>4
    <3> QED BY <3>2, <3>3, <3>4, <3>5, <3>6 DEF LevelOK
  <2> QED BY <2>3, <2>4
<1> QED
  BY <1>3, <1>5, <1>10, <1>14 DEF IInv

\* do_step_building
LEMMA StepBottomBuildingOK ==
    ASSUME IInv, StepBottomBuilding
    PROVE  IInv'
<1>1. PICK b \in 2 .. SubLevels(Bottom) :
         /\ <<"building", b>> \in jobs /\ jobs' = jobs \ {<<"building", b>>}
         /\ subtree' = [subtree EXCEPT ![Bottom] = StepBuilding(Bottom, b)]
         /\ key' = key /\ tree' = tree /\ at' = at
  BY DEF StepBottomBuilding, Took
<1>2. key \in Keys /\ TypesOK /\ at \in {"issuing", "waiting"} /\ JobsOK
  BY <1>1 DEF IInv, TypesOK, JobsOK
<1>3. /\ Levels' = Levels /\ Bottom' = Bottom /\ SubLevels(Bottom)' = SubLevels(Bottom)
      /\ Bottom = Levels /\ Levels \in Nat \ {0} /\ Bottom \in 1 .. Levels
      /\ b \in 1 .. SubLevels(Bottom)
  BY <1>1, <1>2, KeyStays, Numbers DEF Bottom
<1>4. \A job : job # <<"building", b>> => (job \in jobs' <=> job \in jobs)
  BY <1>1
<1>5. JobsOK'
  BY <1>1, <1>2, <1>3 DEF JobsOK
<1>6. <<"sign">> # <<"building", b>> /\ <<"next">> # <<"building", b>>
      /\ <<"parent">> # <<"building", b>>
  BY JobNames
<1>7. /\ StepBuilding(Bottom, b) \in [1 .. SubLevels(Bottom) -> Roles]
      /\ StepBuilding(Bottom, b)[b].BUILDING =
            AddNode(subtree[Bottom][b].BUILDING, Bottom, b, tree[Bottom].I)
      /\ \A k \in 1 .. SubLevels(Bottom) :
            /\ StepBuilding(Bottom, b)[k].ACTIVE = subtree[Bottom][k].ACTIVE
            /\ StepBuilding(Bottom, b)[k].NEXT = subtree[Bottom][k].NEXT
            /\ k # b => StepBuilding(Bottom, b)[k].BUILDING = subtree[Bottom][k].BUILDING
  BY <1>2, <1>3, StepBuildingOf
<1>8. /\ TypesOK' /\ subtree'[Bottom] = StepBuilding(Bottom, b)
      /\ \A k \in 1 .. Levels : k # Bottom => subtree'[k] = subtree[k]
  <2>1. tree' \in [1 .. Levels -> Trees]
    BY <1>1, <1>2 DEF TypesOK
  <2> QED BY <1>1, <1>2, <1>3, <1>7, <2>1, SubtreeSteps
<1>9. \A k : Leaf(k)' = Leaf(k)
  BY <1>1, <1>3, <1>4, <1>6 DEF Leaf
<1>10. Leaf(Bottom)' = Leaf(Bottom) /\ Passed' = Passed
  BY <1>1, <1>3, <1>4, <1>6, <1>9 DEF Passed
<1>11. \A k, j : k # Bottom \/ j # b => Built(k, j)' = Built(k, j)
  BY <1>1, <1>3, <1>4, JobNames DEF Built
<1>12. \A k : Due(k)' = Due(k)
  BY <1>1, <1>3, <1>4, <1>6, <1>9 DEF Due, UPDATE_NEXT
<1>13. ASSUME NEW i \in 1 .. Levels PROVE LevelOK(i)'
  <2>1. LevelOK(i)
    BY <1>2 DEF IInv
  <2>2. /\ tree'[i].I = tree[i].I /\ tree'[i].I_next = tree[i].I_next
        /\ tree'[i].update_count = tree[i].update_count
        /\ tree'[i + 1].update_count = tree[i + 1].update_count
    BY <1>1
  <2>3. CASE i # Bottom
    BY <1>1, <1>2, <1>8, <1>9, <1>10, <1>11, <1>12, <2>1, <2>2, <2>3, LevelStays
  <2>4. CASE i = Bottom
    <3>1. SubLevels(i)' = SubLevels(i) /\ MaxIndex(i)' = MaxIndex(i)
          /\ \A j : Span(i, j)' = Span(i, j) /\ NodeSpan(i, j)' = NodeSpan(i, j)
      BY <1>1, KeyStays
    <3>2. LeafOK(i) /\ LeafOK(i)'
      BY <1>9, <2>1, <3>1 DEF LevelOK, LeafOK
    <3>3. \A j \in 1 .. SubLevels(i) : subtree'[i][j].NEXT = subtree[i][j].NEXT
      BY <1>7, <1>8, <2>4
    <3>4. NextOK(i)'
      <4>1. SUFFICES ASSUME i > 1
                     PROVE  NextBuilt(subtree'[i], i, tree'[i].I_next, Due(i)')
        <5>1. CASE i > 1
          BY <1>1, <4>1, <5>1, NextBecomes
        <5>2. CASE ~(i > 1)
          BY <5>2 DEF NextOK
        <5> QED BY <5>1, <5>2
      <4>2. PICK o \in 0 .. SubLevels(i) : OpenAt(subtree[i], i, tree[i].I_next, Due(i), o)
        BY <2>1, <4>1 DEF LevelOK, NextOK, NextBuilt
      <4>3. o > 0 => o \in 1 .. SubLevels(i)
        BY <1>2, LevelNumbers
      <4>4. OpenAt(subtree'[i], i, tree'[i].I_next, Due(i)', o)
        BY <1>12, <2>2, <3>3, <4>2, <4>3 DEF OpenAt
      <4> QED BY <4>4 DEF NextBuilt
    <3>5. ASSUME NEW j \in 1 .. SubLevels(i) PROVE ActiveOK(i, j)' /\ BuildingOK(i, j)'
      <4>1. ActiveOK(i, j) /\ BuildingOK(i, j)
        BY <2>1 DEF LevelOK
      <4>2. ActiveOK(i, j)'
        BY <1>1, <1>7, <1>8, <1>9, <2>2, <2>4, <4>1, ActiveStays
      <4>3. CASE j = b
        <5>1. subtree'[i][j].BUILDING = AddNode(subtree[i][j].BUILDING, i, j, tree[i].I)
          BY <1>7, <1>8, <2>4, <4>3
        <5> QED BY <1>1, <1>2, <1>9, <2>2, <3>2, <4>1, <4>2, <5>1, BuildingSteps
      <4>4. CASE j # b
        <5>1. subtree'[i][j].BUILDING = subtree[i][j].BUILDING
          BY <1>7, <1>8, <2>4, <4>4
        <5>2. Built(i, j)' = Built(i, j)
          BY <1>11, <4>4
        <5> QED BY <1>1, <1>2, <1>9, <2>2, <3>2, <4>1, <4>2, <5>1, <5>2, BuildingStays
      <4> QED BY <4>3, <4>4
    <3>6. ~(i < Bottom')
      BY <1>3, <2>4
    <3> QED BY <3>1, <3>2, <3>4, <3>5, <3>6 DEF LevelOK
  <2> QED BY <2>3, <2>4
<1> QED
  BY <1>3, <1>5, <1>8, <1>13 DEF IInv

-----------------------------------------------------------------------------
(* Updates of the upper trees.                                             *)

\* The update stops at the first tree from below that does not pass it on.
LEMMA UpdatedLevel ==
    ASSUME key \in Keys, Levels > 1
    PROVE  /\ Updated \in 1 .. (Bottom - 1)
           /\ Updated = 1 \/ tree[Updated].update_count # UPDATE_PARENT
           /\ \A k \in (Updated + 1) .. (Bottom - 1) : tree[k].update_count = UPDATE_PARENT
<1> DEFINE U == {i \in 1 .. (Bottom - 1) :
                    /\ i = 1 \/ tree[i].update_count # UPDATE_PARENT
                    /\ \A k \in (i + 1) .. (Bottom - 1) : tree[k].update_count = UPDATE_PARENT}
           T == {i \in 1 .. (Bottom - 1) : i = 1 \/ tree[i].update_count # UPDATE_PARENT}
           n == Bottom - 1
<1>1. n \in Nat /\ 1 \in 1 .. n
  BY Numbers DEF Bottom
<1>2. T \subseteq 0 .. n /\ T # {}
  <2>1. T \subseteq 1 .. n /\ 1 .. n \subseteq 0 .. n
    BY <1>1
  <2>2. 1 \in T
    BY <1>1
  <2> QED BY <2>1, <2>2
<1>3. PICK m \in T : \A y \in T : y <= m
  <2> HIDE DEF T, n
  <2> QED BY <1>1, <1>2, GreatestOf
<1>4. m \in U
  <2>1. ASSUME NEW k \in (m + 1) .. n PROVE tree[k].update_count = UPDATE_PARENT
    <3>1. k \in 1 .. n /\ ~(k <= m)
      BY <1>1, <1>3
    <3>2. k \notin T
      BY <1>3, <3>1
    <3> QED BY <3>1, <3>2
  <2> QED BY <1>3, <2>1
<1>5. U \subseteq 0 .. n
  <2>1. U \subseteq 1 .. n /\ 1 .. n \subseteq 0 .. n
    BY <1>1
  <2> QED BY <2>1
<1>6. Max(U) \in U
  <2> HIDE DEF U, n
  <2> QED BY <1>1, <1>4, <1>5, GreatestOf
<1>7. Updated = Max(U)
  BY DEF Updated
<1> QED
  BY <1>6, <1>7

\* An update counts, up to the last one.
LEMMA CountAfter ==
    ASSUME TypesOK, NEW i \in 1 .. Levels, CountOK(i)
    PROVE  LET u == tree[i].update_count
               v == UpdateCountAfter(i)
           IN  /\ u \in Nat /\ v \in (0 .. (SubLevels(i) + 1)) \cup {UPDATE_DONE}
               /\ u = UPDATE_DONE => v = UPDATE_DONE
               /\ u = UPDATE_NEXT => v = UPDATE_PARENT
               /\ u = UPDATE_PARENT => v = UPDATE_BUILDING
               /\ u # UPDATE_DONE => v = UPDATE_DONE \/ v = u + 1
               /\ v = UPDATE_DONE => u > SubLevels(i)
<1> DEFINE u == tree[i].update_count
           v == UpdateCountAfter(i)
           S == SubLevels(i)
<1>1. S \in 1 .. 25
  BY LevelNumbers DEF TypesOK
<1>2. u \in (0 .. (S + 1)) \cup {255}
  BY DEF CountOK, UPDATE_DONE
<1>3. Turn(i) = u
  BY <1>2 DEF Turn, UPDATE_BUILDING
<1> HIDE DEF u, S
<1>4. v = CASE u = 255 -> 255 [] u = 0 -> 1 [] u = 1 -> 2
            [] OTHER -> IF u > S THEN 255 ELSE u + 1
  BY <1>3 DEF UpdateCountAfter, UPDATE_DONE, UPDATE_NEXT, UPDATE_PARENT, UPDATE_BUILDING, u, S
<1> HIDE DEF v
<1>5. CASE u = 255
  BY <1>1, <1>4, <1>5 DEF UPDATE_DONE, UPDATE_NEXT, UPDATE_PARENT, UPDATE_BUILDING, u, v, S
<1>6. CASE u \in {0, 1}
  <2>1. v = u + 1 /\ v \in 0 .. (S + 1)
    BY <1>1, <1>4, <1>6
  <2> QED BY <1>1, <1>6, <2>1
          DEF UPDATE_DONE, UPDATE_NEXT, UPDATE_PARENT, UPDATE_BUILDING, u, v, S
<1>7. CASE u \in 2 .. (S + 1)
  <2>1. v = IF u > S THEN 255 ELSE u + 1
    BY <1>1, <1>4, <1>7
  <2> QED BY <1>1, <1>7, <2>1
          DEF UPDATE_DONE, UPDATE_NEXT, UPDATE_PARENT, UPDATE_BUILDING, u, v, S
<1> QED
  BY <1>1, <1>2, <1>5, <1>6, <1>7

\* do_update_parent
LEMMA UpdateParentOK ==
    ASSUME IInv, UpdateParent
    PROVE  IInv'
<1> DEFINE N == Bottom - 1
<1>0. PICK u : u = Updated
  OBVIOUS
<1>1. /\ <<"parent">> \in jobs /\ jobs' = jobs \ {<<"parent">>}
      /\ subtree' = [subtree EXCEPT ![u] = SubtreesAfter(u)]
      /\ tree' = [i \in 1 .. Levels |->
                    IF i \in u .. N THEN [tree[i] EXCEPT !.update_count = UpdateCountAfter(i)]
                    ELSE tree[i]]
      /\ key' = key /\ at' = at
  BY <1>0 DEF UpdateParent, Took
<1>2. key \in Keys /\ TypesOK /\ at = "waiting" /\ JobsOK /\ Levels > 1
  <2>1. JobsOK /\ TypesOK /\ Levels > 1
    BY <1>1 DEF IInv, JobsOK
  <2>2. at # "issuing"
    <3>1. <<"parent">> \notin {<<"sign">>, <<"next">>}
      BY JobNames
    <3> QED BY <1>1, <2>1, <3>1 DEF JobsOK
  <2> QED BY <1>1, <2>1, <2>2 DEF TypesOK, JobsOK
<1>3. /\ Levels' = Levels /\ Bottom' = Bottom /\ SubLevels(Bottom)' = SubLevels(Bottom)
      /\ Bottom = Levels /\ Levels \in Nat \ {0} /\ Bottom \in 1 .. Levels
      /\ N \in 1 .. Levels /\ N \in Nat /\ Bottom \notin u .. N
  BY <1>1, <1>2, KeyStays, Numbers DEF Bottom
<1>4. /\ u \in 1 .. N /\ u \in 1 .. Levels
      /\ u = 1 \/ tree[u].update_count # UPDATE_PARENT
      /\ \A k \in (u + 1) .. N : tree[k].update_count = UPDATE_PARENT
  <2>1. u \in 1 .. N /\ 1 .. N \subseteq 1 .. Levels
    BY <1>0, <1>2, <1>3, UpdatedLevel
  <2> QED BY <1>0, <1>2, <2>1, UpdatedLevel
<1>5. \A job : job # <<"parent">> => (job \in jobs' <=> job \in jobs)
  BY <1>1
<1>6. JobsOK'
  BY <1>1, <1>2, <1>3 DEF JobsOK
<1>7. ASSUME NEW i \in 1 .. Levels
      PROVE  /\ tree'[i] \in Trees
             /\ tree'[i].current_index = tree[i].current_index
             /\ tree'[i].I = tree[i].I /\ tree'[i].I_next = tree[i].I_next
             /\ tree'[i].update_count =
                   IF i \in u .. N THEN UpdateCountAfter(i) ELSE tree[i].update_count
  <2>1. tree[i] \in Trees
    BY <1>2 DEF TypesOK
  <2>2. CASE i \notin u .. N
    <3>1. tree'[i] = tree[i]
      BY <1>1, <2>2
    <3> QED BY <2>1, <2>2, <3>1
  <2>3. CASE i \in u .. N
    <3> DEFINE c == UpdateCountAfter(i)
               r == tree[i]
    <3>1. c \in Nat
      <4>1. i < Bottom
        BY <1>3, <2>3
      <4>2. CountOK(i)
        BY <1>2, <4>1 DEF IInv, LevelOK
      <4> QED BY <1>2, <4>2, CountAfter, LevelNumbers DEF UPDATE_DONE
    <3>2. tree'[i] = [r EXCEPT !.update_count = c]
      BY <1>1, <2>3
    <3>3. r \in Trees /\ r.current_index = tree[i].current_index
          /\ r.I = tree[i].I /\ r.I_next = tree[i].I_next
      BY <2>1
    <3> HIDE DEF c, r
    <3>4. /\ tree'[i] \in Trees /\ tree'[i].current_index = r.current_index
          /\ tree'[i].I = r.I /\ tree'[i].I_next = r.I_next /\ tree'[i].update_count = c
      BY <3>1, <3>2, <3>3 DEF Trees
    <3> QED BY <2>3, <3>3, <3>4 DEF c
  <2> QED BY <2>2, <2>3
<1>8. tree' \in [1 .. Levels -> Trees]
  <2>1. tree' = [i \in 1 .. Levels |-> tree'[i]]
    BY <1>1
  <2> QED BY <1>7, <2>1
<1>9. \A k \in 1 .. Levels : Leaf(k)' = Leaf(k)
  BY <1>1, <1>3, <1>5, <1>7, JobNames DEF Leaf
<1>10. Leaf(Bottom)' = Leaf(Bottom)
  BY <1>3, <1>9
<1>11. \A i \in 1 .. Levels : i # Bottom => LevelOK(i) /\ i < Bottom /\ i \in 1 .. N /\ CountOK(i)
  BY <1>2, <1>3 DEF IInv, LevelOK
\* What the update does to the subtrees of its level.
<1>12. /\ u # Bottom /\ LevelOK(u) /\ u < Bottom /\ CountOK(u)
       /\ tree'[u].update_count = UpdateCountAfter(u)
  <2>1. u \in u .. N /\ u # Bottom
    BY <1>3, <1>4
  <2> QED BY <1>4, <1>7, <1>11, <2>1
<1>13. PICK c \in Nat, v \in Nat, S \in Nat \ {0} :
          /\ c = tree[u].update_count /\ v = tree'[u].update_count /\ S = SubLevels(u)
          /\ S \in 1 .. 25
          /\ c \in (0 .. (S + 1)) \cup {255} /\ v \in (0 .. (S + 1)) \cup {255}
          /\ (c = 255 => v = 255) /\ (c = 0 => v = 1) /\ (c = 1 => v = 2)
          /\ (c # 255 => v = 255 \/ v = c + 1)
          /\ (v = 255 => c > S)
  <2>1. SubLevels(u) \in 1 .. 25
    BY <1>2, <1>4, LevelNumbers
  <2>2. tree[u].update_count \in Nat /\ tree'[u].update_count \in Nat
    BY <1>2, <1>4, <1>7 DEF TypesOK, Trees
  <2> QED BY <1>2, <1>4, <1>12, <2>1, <2>2, CountAfter
          DEF CountOK, UPDATE_DONE, UPDATE_NEXT, UPDATE_PARENT, UPDATE_BUILDING
<1>14. /\ u > 1 => Due(u) = Leaf(u) + (IF c > 0 THEN 1 ELSE 0)
       /\ u > 1 => Due(u)' = Leaf(u) + (IF v > 0 THEN 1 ELSE 0)
       /\ \A j : Built(u, j) = IF c > j THEN 1 ELSE 0
       /\ \A j : Built(u, j)' = IF v > j THEN 1 ELSE 0
  BY <1>3, <1>4, <1>9, <1>12, <1>13 DEF Due, Built, UPDATE_NEXT
<1>15. Leaf(u) \in Nat /\ LeafOK(u)
  <2>1. LeafOK(u) /\ MaxIndex(u) = Leaves(u) - 1 /\ Leaves(u) \in Nat
    BY <1>2, <1>4, <1>12, LevelNumbers DEF LevelOK
  <2> QED BY <2>1 DEF LeafOK
<1>16. Turn(u) = c
  BY <1>13 DEF Turn, UPDATE_BUILDING
<1>17. subtree[u] \in [1 .. S -> Roles]
  BY <1>2, <1>4, <1>13 DEF TypesOK
\* The three things that an update can do.
<1>18. \/ /\ c = 0 /\ u > 1 /\ SubtreesAfter(u) = StepNext(u)
       \/ /\ c \in 2 .. S /\ subtree[u][c].BUILDING.left_leaf < Leaves(u)
          /\ SubtreesAfter(u) = StepBuilding(u, c)
       \/ /\ SubtreesAfter(u) = subtree[u]
          /\ u > 1 => c # 0
          /\ c \in 2 .. S => ~(subtree[u][c].BUILDING.left_leaf < Leaves(u))
  <2> DEFINE A == c = 0 /\ u > 1
             B == /\ c \in 2 .. 254 /\ c <= S
                  /\ subtree[u][c].BUILDING.left_leaf < Leaves(u)
  <2>1. SubtreesAfter(u) = CASE A -> StepNext(u) [] B -> StepBuilding(u, c)
                             [] OTHER -> subtree[u]
    BY <1>13, <1>16 DEF SubtreesAfter, UPDATE_NEXT, UPDATE_BUILDING, UPDATE_DONE
  <2>2. ~(A /\ B)
    OBVIOUS
  <2>3. c \in 2 .. S <=> c \in 2 .. 254 /\ c <= S
    BY <1>13
  <2>4. CASE A
    <3>1. SubtreesAfter(u) = StepNext(u)
      <4> HIDE DEF A, B
      <4> QED BY <2>1, <2>2, <2>4
    <3> QED BY <2>4, <3>1
  <2>5. CASE B
    <3>1. SubtreesAfter(u) = StepBuilding(u, c)
      <4> HIDE DEF A, B
      <4> QED BY <2>1, <2>2, <2>5
    <3> QED BY <2>3, <2>5, <3>1
  <2>6. CASE ~A /\ ~B
    <3>1. SubtreesAfter(u) = subtree[u]
      <4> HIDE DEF A, B
      <4> QED BY <2>1, <2>6
    <3> QED BY <2>3, <2>6, <3>1
  <2> QED BY <2>4, <2>5, <2>6
<1>19. SubtreesAfter(u) \in [1 .. SubLevels(u) -> Roles]
       /\ \A j \in 1 .. S : SubtreesAfter(u)[j].ACTIVE = subtree[u][j].ACTIVE
  <2>1. CASE c = 0 /\ u > 1 /\ SubtreesAfter(u) = StepNext(u)
    <3>1. NextBuilt(subtree[u], u, tree[u].I_next, Leaf(u))
      <4>1. Due(u) = Leaf(u)
        BY <1>14, <1>15, <2>1
      <4> QED BY <1>12, <2>1, <4>1 DEF LevelOK, NextOK
    <3> QED BY <1>2, <1>4, <1>13, <1>15, <2>1, <3>1, StepNextOf
  <2>2. CASE c \in 2 .. S /\ SubtreesAfter(u) = StepBuilding(u, c)
    <3>1. c \in 1 .. SubLevels(u)
      BY <1>13, <2>2
    <3> QED BY <1>2, <1>4, <1>13, <2>2, <3>1, StepBuildingOf
  <2>3. CASE SubtreesAfter(u) = subtree[u]
    BY <1>13, <1>17, <2>3
  <2> QED BY <1>18, <2>1, <2>2, <2>3
<1>20. /\ TypesOK' /\ subtree'[u] = SubtreesAfter(u)
       /\ \A k \in 1 .. Levels : k # u => subtree'[k] = subtree[k]
  BY <1>1, <1>2, <1>4, <1>8, <1>19, SubtreeSteps
\* The NEXT tree of that level.
<1>21. NextOK(u)'
  <2>1. SUFFICES ASSUME u > 1
                 PROVE  NextBuilt(subtree'[u], u, tree'[u].I_next, Due(u)')
    <3>1. CASE u > 1
      BY <1>1, <2>1, <3>1, NextBecomes
    <3>2. CASE ~(u > 1)
      BY <3>2 DEF NextOK
    <3> QED BY <3>1, <3>2
  <2>2. NextBuilt(subtree[u], u, tree[u].I_next, Due(u))
    BY <1>12, <2>1 DEF LevelOK, NextOK
  <2>3. tree'[u].I_next = tree[u].I_next
    BY <1>4, <1>7
  <2>4. CASE c = 0
    <3>1. SubtreesAfter(u) = StepNext(u)
      BY <1>13, <1>18, <2>1, <2>4
    <3>2. Due(u) = Leaf(u) /\ Due(u)' = Leaf(u) + 1
      BY <1>13, <1>14, <1>15, <2>1, <2>4
    <3>3. NextBuilt(StepNext(u), u, tree[u].I_next, Leaf(u) + 1)
      BY <1>2, <1>4, <1>15, <2>2, <3>2, StepNextOf
    <3> QED BY <1>20, <2>3, <3>1, <3>2, <3>3
  <2>5. CASE c # 0
    <3>1. Due(u)' = Due(u)
      BY <1>13, <1>14, <2>1, <2>5
    <3>2. ASSUME NEW j \in 1 .. SubLevels(u) PROVE subtree'[u][j].NEXT = subtree[u][j].NEXT
      <4>1. CASE SubtreesAfter(u) = subtree[u]
        BY <1>20, <4>1
      <4>2. CASE c \in 2 .. S /\ SubtreesAfter(u) = StepBuilding(u, c)
        <5>1. c \in 1 .. SubLevels(u)
          BY <1>13, <4>2
        <5> QED BY <1>2, <1>4, <1>20, <4>2, <5>1, StepBuildingOf
      <4> QED BY <1>18, <2>5, <4>1, <4>2
    <3>3. PICK o \in 0 .. SubLevels(u) : OpenAt(subtree[u], u, tree[u].I_next, Due(u), o)
      BY <2>2 DEF NextBuilt
    <3>4. o > 0 => o \in 1 .. SubLevels(u)
      BY <1>13
    <3>5. OpenAt(subtree'[u], u, tree'[u].I_next, Due(u)', o)
      BY <2>3, <3>1, <3>2, <3>3, <3>4 DEF OpenAt
    <3> QED BY <3>5 DEF NextBuilt
  <2> QED BY <2>4, <2>5
\* Its ACTIVE and BUILDING subtrees.
<1>22. ASSUME NEW j \in 1 .. SubLevels(u) PROVE ActiveOK(u, j)' /\ BuildingOK(u, j)'
  <2>1. ActiveOK(u, j) /\ BuildingOK(u, j) /\ Leaf(u)' = Leaf(u) /\ tree'[u].I = tree[u].I
    BY <1>4, <1>7, <1>9, <1>12 DEF LevelOK
  <2>2. ActiveOK(u, j)'
    <3>1. subtree'[u][j].ACTIVE = subtree[u][j].ACTIVE
      BY <1>13, <1>19, <1>20
    <3> QED BY <1>1, <2>1, <3>1, ActiveStays
  <2>3. j \in Nat /\ j <= S /\ j \in 1 .. S
    BY <1>13
  <2>4. ASSUME c # j \/ ~(j > 1), subtree'[u][j].BUILDING = subtree[u][j].BUILDING
        PROVE  BuildingOK(u, j)'
    <3>1. j > 1 => Built(u, j)' = Built(u, j)
      <4>1. SUFFICES ASSUME j > 1, c # j PROVE v > j <=> c > j
        BY <1>14, <2>4
      <4> QED BY <1>13, <2>3, <4>1
    <3> QED BY <1>1, <1>2, <1>4, <1>15, <2>1, <2>4, <3>1, BuildingStays
  <2>5. CASE c = 0 /\ u > 1 /\ SubtreesAfter(u) = StepNext(u)
    <3>1. NextBuilt(subtree[u], u, tree[u].I_next, Leaf(u))
      <4>1. Due(u) = Leaf(u)
        BY <1>14, <1>15, <2>5
      <4> QED BY <1>12, <2>5, <4>1 DEF LevelOK, NextOK
    <3>2. subtree'[u][j].BUILDING = subtree[u][j].BUILDING
      BY <1>2, <1>4, <1>15, <1>20, <2>5, <3>1, StepNextOf
    <3>3. c # j
      BY <1>13, <2>5
    <3> QED BY <2>2, <2>4, <3>2, <3>3
  <2>6. CASE c \in 2 .. S /\ SubtreesAfter(u) = StepBuilding(u, c)
    <3>1. c \in 1 .. SubLevels(u)
      BY <1>13, <2>6
    <3>2. CASE j = c
      <4>1. subtree'[u][j].BUILDING = AddNode(subtree[u][j].BUILDING, u, j, tree[u].I)
        BY <1>2, <1>4, <1>20, <2>6, <3>1, <3>2, StepBuildingOf
      <4> QED BY <1>1, <1>2, <1>4, <1>15, <2>1, <2>2, <4>1, BuildingSteps
    <3>3. CASE j # c
      <4>1. subtree'[u][j].BUILDING = subtree[u][j].BUILDING
        BY <1>2, <1>4, <1>20, <2>6, <3>1, <3>3, StepBuildingOf
      <4> QED BY <2>2, <2>4, <3>3, <4>1
    <3> QED BY <3>2, <3>3
  <2>7. CASE /\ SubtreesAfter(u) = subtree[u]
             /\ c \in 2 .. S => ~(subtree[u][c].BUILDING.left_leaf < Leaves(u))
    <3>1. CASE j = c /\ j > 1
      <4>1. ~(subtree[u][j].BUILDING.left_leaf < Leaves(u))
        BY <1>13, <2>3, <2>7, <3>1
      <4>2. ~(j > 1 /\ Start(u, j) + Span(u, j) < Leaves(u))
        BY <2>1, <3>1, <4>1 DEF BuildingOK, Contains
      <4>3. Start(u, j)' = Start(u, j) /\ Span(u, j)' = Span(u, j) /\ Leaves(u)' = Leaves(u)
        BY <1>1, <2>1, KeyStays DEF Start
      <4> QED BY <2>2, <4>2, <4>3 DEF BuildingOK
    <3>2. CASE ~(j = c /\ j > 1)
      <4>1. subtree'[u][j].BUILDING = subtree[u][j].BUILDING
        BY <1>20, <2>7
      <4> QED BY <2>2, <2>4, <3>2, <4>1
    <3> QED BY <3>1, <3>2
  <2> QED BY <1>18, <2>5, <2>6, <2>7
\* How the updates are counted.
<1>23. ASSUME NEW i \in 1 .. Levels
       PROVE  /\ i \in u .. N =>
                    /\ tree[i].update_count = 255 => tree'[i].update_count = 255
                    /\ \/ tree'[i].update_count = 255
                       \/ tree'[i].update_count = tree[i].update_count + 1
              /\ i \in (u + 1) .. N => tree[i].update_count = 1 /\ tree'[i].update_count = 2
              /\ i \notin u .. N => tree'[i].update_count = tree[i].update_count
              /\ tree[i].update_count \in Nat /\ tree'[i].update_count \in Nat
  <2>1. tree[i].update_count \in Nat /\ tree'[i].update_count \in Nat
    BY <1>2, <1>7 DEF TypesOK, Trees
  <2>2. CASE i \in u .. N
    <3>1. CountOK(i) /\ tree'[i].update_count = UpdateCountAfter(i)
      BY <1>3, <1>7, <1>11, <2>2
    <3>2. /\ tree[i].update_count = 255 => UpdateCountAfter(i) = 255
          /\ tree[i].update_count # 255 =>
                UpdateCountAfter(i) = 255 \/ UpdateCountAfter(i) = tree[i].update_count + 1
          /\ tree[i].update_count = 1 => UpdateCountAfter(i) = 2
      BY <1>2, <3>1, CountAfter DEF UPDATE_DONE, UPDATE_PARENT, UPDATE_BUILDING
    <3>3. i \in (u + 1) .. N => tree[i].update_count = 1
      BY <1>4 DEF UPDATE_PARENT
    <3> QED BY <2>1, <2>2, <3>1, <3>2, <3>3
  <2>3. CASE i \notin u .. N
    <3>1. i \notin (u + 1) .. N
      BY <1>3, <1>4, <2>3
    <3> QED BY <1>7, <2>1, <2>3, <3>1
  <2> QED BY <2>2, <2>3
<1>24. at' = "waiting" /\ <<"parent">> \notin jobs' /\ Passed = 0 /\ Passed' = 1
  BY <1>1, <1>2 DEF Passed
\* The levels that the update passes or does not reach.
<1>25. ASSUME NEW i \in 1 .. Levels, i # u
       PROVE  /\ NextOK(i)'
              /\ \A j \in 1 .. SubLevels(i) : ActiveOK(i, j)' /\ BuildingOK(i, j)'
  <2>1. LevelOK(i) /\ LeafOK(i) /\ NextOK(i)
    BY <1>2 DEF IInv, LevelOK
  <2>2. subtree'[i] = subtree[i] /\ Leaf(i)' = Leaf(i)
        /\ tree'[i].I = tree[i].I /\ tree'[i].I_next = tree[i].I_next
    BY <1>7, <1>9, <1>20, <1>25
  <2>3. \/ tree[i].update_count = 1 /\ tree'[i].update_count = 2
        \/ tree'[i].update_count = tree[i].update_count
    <3>1. i \in u .. N => i \in (u + 1) .. N
      BY <1>3, <1>4, <1>25
    <3> QED BY <1>23, <3>1
  <2>4. Due(i)' = Due(i)
    BY <1>1, <1>3, <1>5, <2>2, <2>3, JobNames DEF Due, UPDATE_NEXT
  <2>5. ASSUME NEW j \in 1 .. SubLevels(i), j > 1 PROVE Built(i, j)' = Built(i, j)
    <3>1. j \in Nat
      BY <1>2, LevelNumbers
    <3> QED BY <1>1, <1>3, <1>5, <2>3, <2>5, <3>1, JobNames DEF Built
  <2>6. NextOK(i)'
    BY <1>1, <2>1, <2>2, <2>4, NextStays
  <2>7. ASSUME NEW j \in 1 .. SubLevels(i) PROVE ActiveOK(i, j)' /\ BuildingOK(i, j)'
    <3>1. ActiveOK(i, j) /\ BuildingOK(i, j)
      BY <2>1 DEF LevelOK
    <3> QED BY <1>1, <1>2, <2>1, <2>2, <2>5, <3>1, ActiveStays, BuildingStays
  <2> QED BY <2>6, <2>7
\* No level has lost an update.
<1>26. ASSUME NEW i \in 1 .. N PROVE UpdatesOK(i)'
  <2>1. i \in 1 .. Levels /\ i \in Nat /\ i # Bottom /\ i < Bottom
    BY <1>3
  <2>2. UpdatesOK(i)
    BY <1>2, <2>1 DEF IInv, LevelOK
  <2>3. PICK a \in Nat, b \in Nat :
          /\ a = tree[i].update_count /\ b = tree'[i].update_count
          /\ i \in u .. N => (a = 255 => b = 255) /\ (b = 255 \/ b = a + 1)
          /\ i \notin u .. N => b = a
    BY <1>23, <2>1
  <2>4. CASE i + 1 = Bottom
    <3>1. i \in u .. N
      BY <1>3, <1>4, <2>4
    <3>2. Bottom \in 2 .. Levels
      BY <1>3, <2>1
    <3>3. PICK x \in Int, l \in Int, g \in Int :
             x = Leaf(Bottom) /\ l = Leaves(Bottom) /\ g = Generated(Bottom)
      <4>1. LeafOK(Bottom) /\ Leaves(Bottom) \in Nat /\ MaxIndex(Bottom) = Leaves(Bottom) - 1
        BY <1>2, <1>3, LevelNumbers DEF IInv, LevelOK
      <4>2. Generated(Bottom) \in 1 .. Leaves(Bottom)
        BY <1>2, <3>2, UpdatesGiven
      <4> QED BY <4>1, <4>2 DEF LeafOK
    <3>4. a = 255 \/ a + (l - g) + 1 >= x
      BY <1>24, <2>2, <2>3, <2>4, <3>3 DEF UpdatesOK, UPDATE_DONE
    <3>5. b = 255 \/ b + (l - g) + 1 >= x + 1
      BY <2>3, <3>1, <3>3, <3>4
    <3>6. Leaves(Bottom)' = l /\ Generated(Bottom)' = g /\ Leaf(Bottom)' = x /\ Bottom' = Bottom
      BY <1>1, <1>3, <1>10, <3>3, KeyStays
    <3> QED BY <1>24, <2>3, <2>4, <3>5, <3>6 DEF UpdatesOK, UPDATE_DONE
  <2>5. CASE i + 1 < Bottom
    <3>1. i + 1 \in 1 .. Levels /\ i + 1 # Bottom /\ i + 1 \in 1 .. N
      BY <1>3, <2>5
    <3>2. PICK x \in Nat, k \in Nat, m \in Nat :
             /\ x = Leaf(i + 1) /\ Leaf(i + 1)' = x
             /\ k = tree[i + 1].update_count /\ m = tree'[i + 1].update_count
      <4>1. LeafOK(i + 1) /\ Leaves(i + 1) \in Nat /\ MaxIndex(i + 1) = Leaves(i + 1) - 1
        BY <1>2, <3>1, LevelNumbers DEF IInv, LevelOK
      <4> QED BY <1>9, <1>23, <3>1, <4>1 DEF LeafOK
    <3>3. a = 255 \/ a >= x + (IF k > 1 THEN 1 ELSE 0)
      BY <1>3, <2>2, <2>3, <2>5, <3>2 DEF UpdatesOK, UPDATE_DONE, UPDATE_PARENT
    <3>4. b = 255 \/ b >= x + (IF m > 1 THEN 1 ELSE 0)
      <4>1. CASE i + 1 \in (u + 1) .. N
        <5>1. i \in u .. N /\ k = 1 /\ m = 2
          BY <1>3, <1>4, <1>23, <3>1, <3>2, <4>1
        <5> QED BY <2>3, <3>2, <3>3, <5>1
      <4>2. CASE i + 1 = u
        <5>1. u > 1 /\ c = k /\ v = m /\ i \notin u .. N
          BY <1>3, <1>13, <2>1, <3>2, <4>2
        <5>2. k # 1
          BY <1>4, <1>13, <5>1 DEF UPDATE_PARENT
        <5>3. m > 1 => k > 1
          BY <1>13, <5>1, <5>2
        <5> QED BY <2>3, <3>2, <3>3, <5>1, <5>3
      <4>3. CASE i + 1 \notin u .. N
        <5>1. i \notin u .. N /\ k = m
          BY <1>3, <1>4, <1>23, <3>1, <3>2, <4>3
        <5> QED BY <2>3, <3>2, <3>3, <5>1
      <4> QED BY <1>3, <1>4, <3>1, <4>1, <4>2, <4>3
    <3>5. Bottom' = Bottom /\ i + 1 # Bottom
      BY <1>3, <2>5
    <3> QED BY <2>3, <2>5, <3>2, <3>4, <3>5 DEF UpdatesOK, UPDATE_DONE, UPDATE_PARENT
  <2> QED BY <1>3, <2>1, <2>4, <2>5
<1>27. ASSUME NEW i \in 1 .. N PROVE CountOK(i)'
  <2>1. i \in 1 .. Levels /\ CountOK(i)
    BY <1>3, <1>11
  <2>2. SubLevels(i)' = SubLevels(i) /\ SubLevels(i) \in 1 .. 25
    BY <1>1, <1>2, <2>1, KeyStays, LevelNumbers
  <2>3. CASE i = u
    <3>1. tree'[i].update_count \in (0 .. (SubLevels(i) + 1)) \cup {255}
      BY <1>13, <2>3
    <3> QED BY <2>2, <3>1 DEF CountOK, UPDATE_DONE
  <2>4. CASE i # u
    <3>1. i \in u .. N => i \in (u + 1) .. N
      BY <1>3, <1>4, <2>4
    <3>2. tree'[i].update_count = 2 \/ tree'[i].update_count = tree[i].update_count
      BY <1>23, <2>1, <3>1
    <3>3. tree'[i].update_count \in (0 .. (SubLevels(i) + 1)) \cup {255}
      BY <2>1, <2>2, <3>2 DEF CountOK, UPDATE_DONE
    <3> QED BY <2>2, <3>3 DEF CountOK, UPDATE_DONE
  <2> QED BY <2>3, <2>4
<1>28. ASSUME NEW i \in 1 .. Levels PROVE LevelOK(i)'
  <2>1. LeafOK(i)'
    <3>1. LeafOK(i) /\ MaxIndex(i)' = MaxIndex(i)
      BY <1>1, <1>2, KeyStays DEF IInv, LevelOK
    <3> QED BY <1>9, <3>1 DEF LeafOK
  <2>2. NextOK(i)' /\ \A j \in 1 .. SubLevels(i) : ActiveOK(i, j)' /\ BuildingOK(i, j)'
    BY <1>21, <1>22, <1>25
  <2>3. SubLevels(i)' = SubLevels(i)
    BY <1>1, KeyStays
  <2>4. i < Bottom' => CountOK(i)' /\ UpdatesOK(i)'
    <3>1. i < Bottom' => i \in 1 .. N
      BY <1>3
    <3> QED BY <1>26, <1>27, <3>1
  <2> QED BY <2>1, <2>2, <2>3, <2>4 DEF LevelOK
<1> QED
  BY <1>3, <1>6, <1>20, <1>28 DEF IInv

-----------------------------------------------------------------------------
(* The end of a signature.                                                 *)

\* The leaves that have signed are the digits of the count before this signature.
Digits == [i \in 1 .. Levels |-> Leaf(i)]

\* When the jobs are done, the key counts one signature more than its leaves say; trees
\* are used up if they and those below are at their last leaves.
LEMMA CountAtEnd ==
    ASSUME IInv, at = "waiting", jobs = {}
    PROVE  /\ AreDigits(Digits) /\ Count = Value(Digits) + 1
           /\ FirstFull(FirstSwitched, Digits)
           /\ \A i \in 1 .. Levels : UsedUp(i) <=> Full(Digits, i)
           /\ \A i \in 1 .. Levels : tree[i].current_index = Leaf(i) + 1
<1> DEFINE d == Digits
           e == Indices
<1>1. key \in Keys /\ TypesOK /\ Levels \in Nat \ {0} /\ Bottom = Levels /\ Bottom \in 1 .. Levels
  BY Numbers DEF IInv, TypesOK, Bottom
<1>2. \A i \in 1 .. Levels : LeafOK(i) /\ Leaf(i) \in 0 .. (Leaves(i) - 1) /\ Leaves(i) \in Nat
  BY <1>1, LevelNumbers DEF IInv, LevelOK, LeafOK
<1>3. AreDigits(d)
  BY <1>2 DEF AreDigits, Digits
<1>4. \A i \in 1 .. Levels : tree[i].current_index \in Nat
  BY <1>1 DEF TypesOK, Trees
<1>5. \A i \in 1 .. Levels : tree[i].current_index = Leaf(i) + 1
  <2>1. tree[Bottom].current_index = Leaf(Bottom) + 1
    BY <1>1, <1>2, BottomIndex
  <2>2. ASSUME NEW i \in 1 .. Levels, i # Bottom PROVE tree[i].current_index = Leaf(i) + 1
    BY <1>4, <2>2 DEF Leaf
  <2> QED BY <1>1, <2>1, <2>2
<1>6. Count = Value(e)
  BY <1>1, <1>4, CountValue
<1>7. Value(e) = Value(d) + 1
  <2>0. ASSUME NEW k \in 1 .. Levels
        PROVE  e[k] = tree[k].current_index - (IF k = Levels THEN 0 ELSE 1) /\ d[k] = Leaf(k)
    BY <1>1 DEF Indices, Digits
  <2>1. ASSUME NEW k \in 1 .. (Levels - 1) PROVE e[k] = d[k]
    <3>1. k \in 1 .. Levels /\ k # Levels
      BY <1>1
    <3>2. Leaf(k) \in Int /\ tree[k].current_index = Leaf(k) + 1
      BY <1>2, <1>5, <3>1
    <3> QED BY <2>0, <3>1, <3>2
  <2>2. e[Levels] = d[Levels] + 1
    <3>1. Levels \in 1 .. Levels
      BY <1>1
    <3>2. Leaf(Levels) \in Int /\ tree[Levels].current_index = Leaf(Levels) + 1
      BY <1>2, <1>5, <3>1
    <3> QED BY <2>0, <3>1, <3>2
  <2>3. Full(d, Levels + 1) /\ \A k \in (Levels + 1) .. Levels : e[k] = 0
    BY <1>1 DEF Full
  <2>4. Levels \in 1 .. Levels
    BY <1>1
  <2> HIDE DEF d, e
  <2> QED BY <1>1, <1>3, <2>1, <2>2, <2>3, <2>4, NextValue
<1>8. Count = Value(d) + 1
  BY <1>6, <1>7
<1> QED
  BY <1>1, <1>3, <1>5, <1>8, SwitchedAt

\* By then each tree above one that ends has got all its updates.
LEMMA UpdatesAtEnd ==
    ASSUME IInv, at = "waiting", jobs = {}
    PROVE  \A i \in (FirstSwitched - 1) .. (Bottom - 1) :
              tree[i].update_count >= SubLevels(i) + 1
<1>1. key \in Keys /\ TypesOK /\ Levels \in Nat \ {0} /\ Bottom = Levels
  BY Numbers DEF IInv, TypesOK, Bottom
<1>2. PICK f \in 2 .. (Levels + 1) : f = FirstSwitched /\ FirstFull(f, Digits)
  BY CountAtEnd DEF FirstFull
<1>3. \A i \in f .. Levels : Leaf(i) = Leaves(i) - 1
  <2>1. Full(Digits, f)
    BY <1>2 DEF FirstFull
  <2>2. f .. Levels \subseteq 1 .. Levels
    BY <1>1
  <2> QED BY <2>1, <2>2 DEF Full, Digits
<1> DEFINE G == {i \in 1 .. Levels : i \in (f - 1) .. (Levels - 1) =>
                                         tree[i].update_count >= SubLevels(i) + 1}
<1>4. Levels \in G
  BY <1>1, <1>2
<1>5. ASSUME NEW i \in 1 .. (Levels - 1), i + 1 \in G PROVE i \in G
  <2>1. i \in Nat /\ i \in 1 .. Levels /\ i + 1 \in 2 .. Levels /\ i + 1 \in 1 .. Levels
        /\ i < Bottom
    BY <1>1
  <2>2. SUFFICES ASSUME i \in (f - 1) .. (Levels - 1)
                 PROVE  tree[i].update_count >= SubLevels(i) + 1
    BY <2>1
  <2>3. PICK l \in Nat, g \in Nat, s \in Nat, c \in Nat :
          /\ l = Leaves(i + 1) /\ g = Generated(i + 1) /\ s = SubLevels(i)
          /\ c = tree[i].update_count
          /\ g > s + 1 /\ g <= l /\ s \in 1 .. 25
    <3>1. Generated(i + 1) > SubLevels((i + 1) - 1) + 1 /\ Generated(i + 1) \in 1 .. Leaves(i + 1)
      BY <1>1, <2>1, UpdatesGiven
    <3>2. (i + 1) - 1 = i
      BY <2>1
    <3>3. Leaves(i + 1) \in Nat /\ SubLevels(i) \in 1 .. 25
      BY <1>1, <2>1, LevelNumbers
    <3>4. tree[i].update_count \in Nat
      BY <1>1, <2>1 DEF TypesOK, Trees
    <3>5. SubLevels((i + 1) - 1) = SubLevels(i)
      BY <3>2
    <3>6. Generated(i + 1) \in Nat /\ Generated(i + 1) <= Leaves(i + 1)
          /\ Generated(i + 1) > SubLevels(i) + 1
      BY <3>1, <3>3, <3>5
    <3>7. Leaves(i + 1) \in Nat /\ SubLevels(i) \in Nat
      BY <3>3
    <3> DEFINE l == Leaves(i + 1)
               g == Generated(i + 1)
               s == SubLevels(i)
               c == tree[i].update_count
    <3>8. l \in Nat /\ g \in Nat /\ s \in Nat /\ c \in Nat /\ g > s + 1 /\ g <= l /\ s \in 1 .. 25
      BY <3>3, <3>4, <3>6, <3>7
    <3> HIDE DEF l, g, s, c
    <3> QED BY <3>8 DEF l, g, s, c
  <2>4. Leaf(i + 1) = l - 1
    <3>1. i + 1 \in f .. Levels
      BY <1>1, <1>2, <2>1, <2>2
    <3> QED BY <1>3, <2>3, <3>1
  <2>5. UpdatesOK(i)
    BY <1>1, <2>1 DEF IInv, LevelOK
  <2>6. CASE c = 255
    BY <2>3, <2>6
  <2>7. CASE c # 255 /\ i + 1 = Bottom
    <3>1. Passed = 1
      BY DEF Passed
    <3>2. c + (l - g) + 1 >= (l - 1) + 1
      BY <2>3, <2>4, <2>5, <2>7, <3>1 DEF UpdatesOK, UPDATE_DONE
    <3> QED BY <2>3, <3>2
  <2>8. CASE c # 255 /\ i + 1 # Bottom
    <3>1. i + 1 \in (f - 1) .. (Levels - 1) /\ i + 1 < Bottom
      BY <1>1, <1>2, <2>1, <2>2, <2>8
    <3>2. tree[i + 1].update_count >= SubLevels(i + 1) + 1
      BY <1>5, <3>1
    <3>3. tree[i + 1].update_count > UPDATE_PARENT
      <4>1. SubLevels(i + 1) \in 1 .. 25 /\ tree[i + 1].update_count \in Nat
        BY <1>1, <2>1, LevelNumbers DEF TypesOK, Trees
      <4> QED BY <3>2, <4>1 DEF UPDATE_PARENT
    <3>4. c >= (l - 1) + 1
      BY <1>1, <2>3, <2>4, <2>5, <2>8, <3>1, <3>3 DEF UpdatesOK, UPDATE_DONE
    <3> QED BY <2>3, <3>4
  <2> QED BY <2>6, <2>7, <2>8
<1>6. \A i \in 1 .. Levels : i \in G
  <2>1. PICK n \in Nat : n = Levels - 1 /\ n + 1 = Levels
    BY <1>1
  <2> HIDE DEF G
  <2>2. \A i \in 1 .. (n + 1) : i \in G
    BY <1>4, <1>5, <2>1, FromBelow
  <2> QED BY <2>1, <2>2
<1>7. \A i \in (f - 1) .. (Bottom - 1) : i \in 1 .. Levels
  BY <1>1, <1>2
<1> QED
  BY <1>1, <1>2, <1>6, <1>7

-----------------------------------------------------------------------------
(* The trees after an exchange.                                            *)

\* The leaf, or the last one of its level, that tree i has signed when those from level
\* f on are exchanged.
IndexAt(f, i) == IF i = f THEN tree[f - 1].current_index ELSE 0

\* The names of the trees of levels f - 1 to n after the exchange.
AreSwitched(g, n, f) ==
    g = [i \in (f - 1) .. n |->
            IF i = f - 1 THEN [I |-> tree[i].I, I_next |-> tree[i].I_next]
            ELSE [I |-> tree[i].I_next,
                  I_next |-> Follower(g[i - 1], IndexAt(f, i), MaxIndex(i - 1))]]

\* The names of the trees after the exchange follow from those above.
LEMMA SwitchedNames ==
    ASSUME key \in Keys, NEW f \in 2 .. Levels
    PROVE  LET t == SwitchedTrees(f)
           IN  /\ t = [i \in 1 .. Levels |-> t[i]]
               /\ \A i \in 1 .. Levels : i < f - 1 => t[i] = tree[i]
               /\ t[f - 1].I = tree[f - 1].I /\ t[f - 1].I_next = tree[f - 1].I_next
               /\ \A i \in f .. Levels :
                     /\ t[i].I = tree[i].I_next
                     /\ t[i].I_next = Follower(t[i - 1], IndexAt(f, i), MaxIndex(i - 1))
               /\ \A i \in (f - 1) .. Levels :
                     t[i] = [I |-> t[i].I, I_next |-> t[i].I_next,
                             current_index |-> (IF i < f THEN tree[i].current_index ELSE 0) +
                                               (IF i < Bottom THEN 1 ELSE 0),
                             update_count |-> IF i < Bottom THEN UPDATE_NEXT
                                              ELSE tree[i].update_count]
<1> DEFINE N == Levels
           G == {n \in 0 .. N : n >= f - 1 => \E g : AreSwitched(g, n, f)}
           t == SwitchedTrees(f)
           R(k, p) == IF k = f - 1 THEN [I |-> tree[k].I, I_next |-> tree[k].I_next]
                      ELSE [I |-> tree[k].I_next,
                            I_next |-> Follower(p, IndexAt(f, k), MaxIndex(k - 1))]
<1>0. N \in Nat /\ f \in Nat /\ f - 1 \in 1 .. N /\ f \in 1 .. N
  BY TreesFit
<1>1. 0 \in G
  BY <1>0
<1>2. ASSUME NEW n \in 1 .. N, n - 1 \in G PROVE n \in G
  <2>0. SUFFICES ASSUME n >= f - 1 PROVE \E g : AreSwitched(g, n, f)
    BY <1>0
  <2>1. PICK h : n - 1 >= f - 1 => AreSwitched(h, n - 1, f)
    BY <1>2
  <2> DEFINE g == [k \in (f - 1) .. n |-> IF k = n THEN R(n, h[n - 1]) ELSE h[k]]
  <2>2. ASSUME NEW k \in (f - 1) .. n PROVE g[k] = R(k, g[k - 1])
    <3>1. CASE k = f - 1 /\ k = n
      BY <3>1
    <3>2. CASE k = n /\ k # f - 1
      <4>1. k - 1 \in (f - 1) .. n /\ k - 1 # n
        BY <1>0, <3>2
      <4> QED BY <3>2, <4>1
    <3>3. CASE k # n
      <4>1. k \in (f - 1) .. (n - 1) /\ n - 1 >= f - 1
        BY <1>0, <3>3
      <4>2. h[k] = R(k, h[k - 1])
        BY <2>1, <4>1 DEF AreSwitched
      <4>3. g[k] = h[k]
        BY <3>3
      <4>4. CASE k = f - 1
        BY <4>2, <4>3, <4>4
      <4>5. CASE k # f - 1
        <5>1. k - 1 \in (f - 1) .. n /\ k - 1 # n
          BY <1>0, <4>1, <4>5
        <5>2. g[k - 1] = h[k - 1]
          BY <5>1
        <5> QED BY <4>2, <4>3, <5>2
      <4> QED BY <4>4, <4>5
    <3> QED BY <3>1, <3>2, <3>3
  <2>3. g = [k \in (f - 1) .. n |-> R(k, g[k - 1])]
    BY <2>2
  <2>4. AreSwitched(g, n, f)
    BY <2>3 DEF AreSwitched
  <2> QED BY <2>4
<1>3. \E g : AreSwitched(g, N, f)
  <2> HIDE DEF G, N
  <2>1. \A n \in 0 .. N : n \in G
    BY <1>0, <1>1, <1>2, UpToN
  <2>2. N \in G /\ N >= f - 1
    BY <1>0, <2>1
  <2> QED BY <2>2 DEF G
<1> DEFINE names == CHOOSE g : AreSwitched(g, N, f)
           T(i) == IF i < f - 1 THEN tree[i]
                   ELSE [I |-> names[i].I, I_next |-> names[i].I_next,
                         current_index |-> (IF i < f THEN tree[i].current_index ELSE 0) +
                                           (IF i < Bottom THEN 1 ELSE 0),
                         update_count |-> IF i < Bottom THEN UPDATE_NEXT
                                          ELSE tree[i].update_count]
<1>4. AreSwitched(names, N, f)
  BY <1>3
<1>5. t = [i \in 1 .. N |-> T(i)]
  BY DEF SwitchedTrees, AreSwitched, IndexAt
<1>6. \A i \in (f - 1) .. N : names[i] = R(i, names[i - 1])
  <2> HIDE DEF N, names
  <2> QED BY <1>4, Zenon DEF AreSwitched
<1> HIDE DEF names, t
<1>7. \A i \in 1 .. N : t[i] = T(i)
  <2> HIDE DEF T, N
  <2> QED BY <1>5
<1>8. t = [i \in 1 .. Levels |-> t[i]]
  <2> HIDE DEF T
  <2> QED BY <1>5
<1>9. ASSUME NEW i \in (f - 1) .. N
      PROVE  /\ t[i].I = names[i].I /\ t[i].I_next = names[i].I_next
             /\ t[i] = [I |-> t[i].I, I_next |-> t[i].I_next,
                        current_index |-> (IF i < f THEN tree[i].current_index ELSE 0) +
                                          (IF i < Bottom THEN 1 ELSE 0),
                        update_count |-> IF i < Bottom THEN UPDATE_NEXT
                                         ELSE tree[i].update_count]
  <2> DEFINE a == (IF i < f THEN tree[i].current_index ELSE 0) + (IF i < Bottom THEN 1 ELSE 0)
             b == IF i < Bottom THEN UPDATE_NEXT ELSE tree[i].update_count
  <2>1. i \in 1 .. N /\ ~(i < f - 1)
    BY <1>0
  <2>2. t[i] = [I |-> names[i].I, I_next |-> names[i].I_next,
                current_index |-> a, update_count |-> b]
    BY <1>7, <2>1
  <2> HIDE DEF a, b
  <2>3. t[i].I = names[i].I /\ t[i].I_next = names[i].I_next
    BY <2>2
  <2> QED BY <2>2, <2>3 DEF a, b
<1>10. \A i \in 1 .. N : i < f - 1 => t[i] = tree[i]
  BY <1>7
<1>11. t[f - 1].I = tree[f - 1].I /\ t[f - 1].I_next = tree[f - 1].I_next
  <2>1. f - 1 \in (f - 1) .. N
    BY <1>0
  <2>2. names[f - 1] = [I |-> tree[f - 1].I, I_next |-> tree[f - 1].I_next]
    BY <1>6, <2>1
  <2>3. names[f - 1].I = tree[f - 1].I /\ names[f - 1].I_next = tree[f - 1].I_next
    BY <2>2
  <2>4. t[f - 1].I = names[f - 1].I /\ t[f - 1].I_next = names[f - 1].I_next
    BY <1>9, <2>1
  <2> QED BY <2>3, <2>4
<1>12. ASSUME NEW i \in f .. N
       PROVE  /\ t[i].I = tree[i].I_next
              /\ t[i].I_next = Follower(t[i - 1], IndexAt(f, i), MaxIndex(i - 1))
  <2>1. i \in (f - 1) .. N /\ i - 1 \in (f - 1) .. N /\ i # f - 1
    BY <1>0
  <2>2. names[i] = [I |-> tree[i].I_next,
                    I_next |-> Follower(names[i - 1], IndexAt(f, i), MaxIndex(i - 1))]
    BY <1>6, <2>1
  <2>3. t[i - 1].I = names[i - 1].I /\ t[i - 1].I_next = names[i - 1].I_next
    BY <1>9, <2>1
  <2>4. Follower(names[i - 1], IndexAt(f, i), MaxIndex(i - 1)) =
        Follower(t[i - 1], IndexAt(f, i), MaxIndex(i - 1))
    BY <2>3 DEF Follower
  <2> DEFINE w == Follower(t[i - 1], IndexAt(f, i), MaxIndex(i - 1))
  <2>5. names[i] = [I |-> tree[i].I_next, I_next |-> w]
    BY <2>2, <2>4
  <2> HIDE DEF w
  <2>6. names[i].I = tree[i].I_next /\ names[i].I_next = w
    BY <2>5
  <2> QED BY <1>9, <2>1, <2>6 DEF w
<1> QED
  BY <1>8, <1>9, <1>10, <1>11, <1>12 DEF t

\* They are trees.
LEMMA SwitchedTypes ==
    ASSUME TypesOK, NEW f \in 2 .. Levels
    PROVE  SwitchedTrees(f) \in [1 .. Levels -> Trees]
<1> DEFINE t == SwitchedTrees(f)
           G == {k \in 0 .. Levels : k > 0 => t[k].I \in Seq(Int) /\ t[k].I_next \in Seq(Int)}
<1>0. key \in Keys /\ Levels \in Nat /\ f \in Nat /\ f - 1 \in 1 .. Levels
  BY Numbers DEF TypesOK
<1>1. /\ t = [i \in 1 .. Levels |-> t[i]]
      /\ \A i \in 1 .. Levels : i < f - 1 => t[i] = tree[i]
      /\ t[f - 1].I = tree[f - 1].I /\ t[f - 1].I_next = tree[f - 1].I_next
      /\ \A i \in f .. Levels :
            /\ t[i].I = tree[i].I_next
            /\ t[i].I_next = Follower(t[i - 1], IndexAt(f, i), MaxIndex(i - 1))
      /\ \A i \in (f - 1) .. Levels :
            t[i] = [I |-> t[i].I, I_next |-> t[i].I_next,
                    current_index |-> (IF i < f THEN tree[i].current_index ELSE 0) +
                                      (IF i < Bottom THEN 1 ELSE 0),
                    update_count |-> IF i < Bottom THEN UPDATE_NEXT ELSE tree[i].update_count]
  BY <1>0, SwitchedNames
<1> HIDE DEF t
<1>2. \A i \in 1 .. Levels : /\ tree[i] \in Trees /\ tree[i].current_index \in Nat
                             /\ tree[i].I \in Seq(Int) /\ tree[i].I_next \in Seq(Int)
                             /\ tree[i].update_count \in Nat
  BY DEF TypesOK, Trees
<1>3. 0 \in G
  BY <1>0
<1>4. ASSUME NEW k \in 1 .. Levels, k - 1 \in G PROVE k \in G
  <2>0. k \in 0 .. Levels /\ k > 0
    BY <1>0
  <2>1. CASE k < f - 1
    BY <1>1, <1>2, <2>0, <2>1
  <2>2. CASE k = f - 1
    BY <1>1, <1>2, <2>0, <2>2
  <2>3. CASE k >= f
    <3>1. k - 1 > 0 /\ k \in f .. Levels
      BY <1>0, <2>3
    <3>2. t[k - 1].I \in Seq(Int) /\ t[k - 1].I_next \in Seq(Int)
      BY <1>4, <3>1
    <3>3. IndexAt(f, k) + 1 \in Int
      BY <1>0, <1>2 DEF IndexAt
    <3>4. Append(t[k - 1].I_next, 0) \in Seq(Int)
          /\ Append(t[k - 1].I, IndexAt(f, k) + 1) \in Seq(Int)
      BY <3>2, <3>3
    <3>5. Follower(t[k - 1], IndexAt(f, k), MaxIndex(k - 1)) \in Seq(Int)
      BY <3>4 DEF Follower
    <3> QED BY <1>1, <1>2, <2>0, <3>1, <3>5
  <2> QED BY <1>0, <2>1, <2>2, <2>3
<1>5. \A k \in 0 .. Levels : k \in G
  <2> HIDE DEF G
  <2> QED BY <1>0, <1>3, <1>4, UpToN
<1>6. ASSUME NEW i \in 1 .. Levels PROVE t[i] \in Trees
  <2>1. CASE i < f - 1
    BY <1>1, <1>2, <2>1
  <2>2. CASE ~(i < f - 1)
    <3> DEFINE a == (IF i < f THEN tree[i].current_index ELSE 0) + (IF i < Bottom THEN 1 ELSE 0)
               b == IF i < Bottom THEN UPDATE_NEXT ELSE tree[i].update_count
    <3>1. a \in Nat /\ b \in Nat
      BY <1>2 DEF UPDATE_NEXT
    <3>2. t[i].I \in Seq(Int) /\ t[i].I_next \in Seq(Int)
      BY <1>0, <1>5
    <3>3. i \in (f - 1) .. Levels
      BY <1>0, <2>2
    <3>4. t[i] = [I |-> t[i].I, I_next |-> t[i].I_next, current_index |-> a, update_count |-> b]
      BY <1>1, <3>3
    <3> HIDE DEF a, b
    <3>5. [I |-> t[i].I, I_next |-> t[i].I_next, current_index |-> a, update_count |-> b] \in Trees
      BY <3>1, <3>2 DEF Trees
    <3> QED BY <3>4, <3>5
  <2> QED BY <2>1, <2>2
<1>7. t \in [1 .. Levels -> Trees]
  BY <1>1, <1>6
<1> QED
  BY <1>7 DEF t

-----------------------------------------------------------------------------
(* The exchange of subtrees.                                               *)

\* A subtree that ends gives way to the one to its right.
LEMMA AdvancedOf ==
    ASSUME TypesOK, NEW i \in 1 .. Levels, NEW j \in 1 .. SubLevels(i)
    PROVE  /\ Advanced(i, j) \in Roles /\ Advanced(i, j).NEXT = subtree[i][j].NEXT
           /\ ~Ends(i, j) => Advanced(i, j) = subtree[i][j]
           /\ Ends(i, j) =>
                 /\ Advanced(i, j).ACTIVE = subtree[i][j].BUILDING
                 /\ Advanced(i, j).BUILDING =
                       Subtree(subtree[i][j].ACTIVE.left_leaf + 2 * Span(i, j), 0, Nothing)
<1> DEFINE b == Subtree(subtree[i][j].ACTIVE.left_leaf + 2 * Span(i, j), 0, Nothing)
<1>1. PICK s \in Roles : s = subtree[i][j]
  BY DEF TypesOK
<1>2. b \in Piece
  <2>1. s.ACTIVE.left_leaf \in Nat /\ Span(i, j) \in Nat
    BY LevelNumbers DEF TypesOK, SpansFit, Roles, Piece
  <2>2. subtree[i][j].ACTIVE.left_leaf + 2 * Span(i, j) \in Nat
    BY <1>1, <2>1
  <2> QED BY <2>2, PieceTypes
<1>3. Advanced(i, j) = IF ~Ends(i, j) THEN s ELSE [s EXCEPT !.ACTIVE = s.BUILDING, !.BUILDING = b]
  BY <1>1 DEF Advanced
<1> HIDE DEF b
<1> DEFINE r == [s EXCEPT !.ACTIVE = s.BUILDING, !.BUILDING = b]
<1>4. r \in Roles /\ r.NEXT = s.NEXT /\ r.ACTIVE = s.BUILDING /\ r.BUILDING = b
  BY <1>2 DEF Roles
<1> HIDE DEF r
<1> QED
  BY <1>1, <1>3, <1>4 DEF r, b

\* A tree that ends gives way to the one that was built next to it.
LEMMA SwitchedOf ==
    ASSUME TypesOK, NEW i \in 1 .. Levels, NEW j \in 1 .. SubLevels(i)
    PROVE  /\ Switched(i, j) \in Roles
           /\ Switched(i, j).NEXT = Subtree(0, 0, Nothing)
           /\ Switched(i, j).ACTIVE.left_leaf = 0
           /\ Switched(i, j).ACTIVE.made = subtree[i][j].NEXT.made
           /\ j > 1 => Switched(i, j).BUILDING = Subtree(Span(i, j), 0, Nothing)
<1>1. PICK s \in Roles : s = subtree[i][j]
  BY DEF TypesOK
<1>2. PICK n \in Piece : n = s.NEXT
  BY DEF Roles
<1> DEFINE a == [n EXCEPT !.left_leaf = 0]
           b == IF j = 1 THEN s.BUILDING ELSE Subtree(Span(i, j), 0, Nothing)
           z == Subtree(0, 0, Nothing)
<1>3. a \in Piece /\ a.left_leaf = 0 /\ a.made = n.made
  BY DEF Piece
<1>4. b \in Piece /\ z \in Piece
  <2>1. Span(i, j) \in Nat
    BY LevelNumbers DEF TypesOK, SpansFit
  <2>2. Subtree(Span(i, j), 0, Nothing) \in Piece /\ z \in Piece
    BY <2>1, PieceTypes
  <2>3. s.BUILDING \in Piece
    BY DEF Roles
  <2> QED BY <2>2, <2>3
<1>5. Switched(i, j) = [ACTIVE |-> a, NEXT |-> z, BUILDING |-> b]
  BY <1>1, <1>2 DEF Switched
<1>6. j > 1 => b = Subtree(Span(i, j), 0, Nothing)
  BY LevelNumbers DEF TypesOK
<1> HIDE DEF a, b, z
<1>7. Switched(i, j) \in Roles
  BY <1>3, <1>4, <1>5 DEF Roles
<1>8. Switched(i, j).ACTIVE = a /\ Switched(i, j).NEXT = z /\ Switched(i, j).BUILDING = b
  BY <1>5
<1> QED
  BY <1>1, <1>2, <1>3, <1>6, <1>7, <1>8 DEF z

\* A tree that goes on: subtrees that end were complete on their right, the others have
\* got their leaf.
LEMMA LevelAdvances ==
    ASSUME TypesOK, NEW i \in 1 .. Levels, key' = key, LevelOK(i),
           Leaf(i) + 1 < Leaves(i), Leaf(i)' = Leaf(i) + 1,
           tree'[i].I = tree[i].I, tree'[i].I_next = tree[i].I_next,
           \A j \in 1 .. SubLevels(i) : subtree'[i][j] = Advanced(i, j),
           \A j \in 1 .. SubLevels(i) :
               Ends(i, j) <=> j > 1 /\ (Leaf(i) + 1) % Span(i, j) = 0,
           \A j \in 1 .. SubLevels(i) : Built(i, j) = 1 /\ Built(i, j)' = 0,
           Due(i)' = Due(i)
    PROVE  /\ LeafOK(i)' /\ NextOK(i)'
           /\ \A j \in 1 .. SubLevels(i) : ActiveOK(i, j)' /\ BuildingOK(i, j)'
<1>1. /\ SubLevels(i)' = SubLevels(i) /\ MaxIndex(i)' = MaxIndex(i) /\ Leaves(i)' = Leaves(i)
      /\ \A j : Span(i, j)' = Span(i, j)
  BY KeyStays
<1>2. key \in Keys /\ LeafOK(i) /\ NextOK(i)
      /\ Leaf(i) \in Nat /\ Leaves(i) \in Nat /\ MaxIndex(i) = Leaves(i) - 1
  BY LevelNumbers DEF TypesOK, LevelOK, LeafOK
<1>3. LeafOK(i)'
  BY <1>1, <1>2 DEF LeafOK
<1>4. NextOK(i)'
  <2>1. SUFFICES ASSUME i > 1
                 PROVE  NextBuilt(subtree'[i], i, tree'[i].I_next, Due(i)')
    <3>1. CASE i > 1
      BY <2>1, <3>1, NextBecomes
    <3>2. CASE ~(i > 1)
      BY <3>2 DEF NextOK
    <3> QED BY <3>1, <3>2
  <2>2. PICK o \in 0 .. SubLevels(i) : OpenAt(subtree[i], i, tree[i].I_next, Due(i), o)
    BY <1>2, <2>1 DEF NextOK, NextBuilt
  <2>3. \A j \in 1 .. SubLevels(i) : subtree'[i][j].NEXT = subtree[i][j].NEXT
    BY AdvancedOf
  <2>4. o > 0 => o \in 1 .. SubLevels(i)
    BY <1>2, LevelNumbers
  <2>5. OpenAt(subtree'[i], i, tree'[i].I_next, Due(i)', o)
    BY <2>2, <2>3, <2>4 DEF OpenAt
  <2> QED BY <2>5 DEF NextBuilt
<1>5. ASSUME NEW j \in 1 .. SubLevels(i) PROVE ActiveOK(i, j)' /\ BuildingOK(i, j)'
  <2>1. ActiveOK(i, j) /\ BuildingOK(i, j) /\ j \in Nat
    BY <1>2, LevelNumbers DEF LevelOK
  <2>2. PICK x \in Nat, l \in Nat, s \in Nat \ {0}, y \in Nat, r \in Nat :
          /\ x = Leaf(i) /\ l = Leaves(i) /\ s = Span(i, j) /\ y = Start(i, j) /\ r = x % s
          /\ r \in 0 .. (s - 1) /\ y = x - r /\ x < y + s
    <3>1. Span(i, j) \in Nat \ {0}
      BY <1>2, LevelNumbers DEF SpansFit
    <3>2. /\ Start(i, j) \in Nat /\ Leaf(i) < Start(i, j) + Span(i, j)
          /\ Leaf(i) % Span(i, j) \in 0 .. (Span(i, j) - 1)
      BY <1>2, StartsIn
    <3>3. Start(i, j) = Leaf(i) - (Leaf(i) % Span(i, j))
      BY DEF Start
    <3>4. Leaf(i) % Span(i, j) \in Nat
      BY <3>1, <3>2
    <3> QED BY <1>2, <3>1, <3>2, <3>3, <3>4
  <2>3. Start(i, j)' = (x + 1) - ((x + 1) % s) /\ Leaf(i)' = x + 1
    BY <1>1, <2>2 DEF Start
  <2>4. x + 1 < l
    BY <2>2
  <2>5. /\ (x + 1) % s # 0 => (x + 1) - ((x + 1) % s) = y
        /\ (x + 1) % s = 0 => (x + 1) - ((x + 1) % s) = y + s
        /\ r = s - 1 => (x + 1) % s = 0
        /\ r # s - 1 => (x + 1) % s = r + 1
    <3>1. /\ (x + 1) % s # 0 => (x + 1) - ((x + 1) % s) = x - (x % s)
          /\ (x + 1) % s = 0 => (x + 1) - ((x + 1) % s) = (x - (x % s)) + s
      BY <2>2, StartOf
    <3>2. /\ x % s = s - 1 => (x + 1) % s = 0
          /\ x % s # s - 1 => (x + 1) % s = (x % s) + 1
      BY <2>2, NextRemainder
    <3> QED BY <2>2, <3>1, <3>2
  <2>6. j = 1 => (x + 1) % s # 0
    <3>1. SUFFICES ASSUME j = 1 PROVE (x + 1) % s # 0
      OBVIOUS
    <3>2. s = l
      BY <1>2, <2>2, <3>1, LevelNumbers DEF SpansFit
    <3>3. y = 0 /\ r = x
      <4>1. (0 * s + x) % s = x
        <5>1. x \in 0 .. (s - 1) /\ s \in Nat \ {0} /\ 0 \in Nat
          BY <2>2, <2>4, <3>2
        <5> QED BY <5>1, RestOf
      <4>2. 0 * s + x = x
        BY <2>2
      <4> QED BY <2>2, <4>1, <4>2
    <3>4. r # s - 1
      BY <2>2, <2>4, <3>2, <3>3
    <3> QED BY <2>2, <2>5, <3>4
  <2>7. CASE Ends(i, j)
    <3>1. j > 1 /\ (x + 1) % s = 0
      BY <2>2, <2>7
    <3>2. /\ subtree'[i][j].ACTIVE = subtree[i][j].BUILDING
          /\ subtree'[i][j].BUILDING = Subtree(subtree[i][j].ACTIVE.left_leaf + 2 * s, 0, Nothing)
      BY <2>2, <2>7, AdvancedOf
    <3>3. r = s - 1
      BY <2>2, <2>5, <3>1
    <3>4. y + s < l /\ y + s = x + 1 /\ y + s \in Nat
      BY <2>2, <2>4, <3>3
    <3>5. Contains(subtree[i][j].BUILDING, tree[i].I, y + s, s)
      <4>1. Start(i, j) + Span(i, j) < Leaves(i)
        BY <2>2, <3>4
      <4>2. PICK n \in 0 .. s : n >= r + 1 /\ Contains(subtree[i][j].BUILDING, tree[i].I, y + s, n)
        BY <2>1, <2>2, <3>1, <4>1 DEF BuildingOK
      <4>3. n = s
        BY <2>2, <3>3, <4>2
      <4> QED BY <4>2, <4>3
    <3>6. Start(i, j)' = y + s
      BY <2>3, <2>5, <3>1
    <3>7. ActiveOK(i, j)'
      <4>1. /\ subtree'[i][j].ACTIVE.left_leaf = y + s
            /\ subtree'[i][j].ACTIVE.made = MadeOf(tree'[i].I, y + s, s)
        BY <2>2, <3>2, <3>5 DEF Contains
      <4>2. Span(i, j)' = s
        BY <1>1, <2>2
      <4> QED BY <3>6, <4>1, <4>2 DEF ActiveOK, MadeOf
    <3>8. BuildingOK(i, j)'
      <4>1. subtree[i][j].ACTIVE.left_leaf = y
        BY <2>1, <2>2 DEF ActiveOK
      <4>2. PICK e \in Nat : e = (y + s) + s /\ e = y + 2 * s
        BY <2>2
      <4>3. subtree'[i][j].BUILDING = Subtree(e, 0, Nothing)
        BY <3>2, <4>1, <4>2
      <4>4. Contains(subtree'[i][j].BUILDING, tree'[i].I, e, 0)
        BY <4>3 DEF Contains, Subtree, Nothing
      <4>5. Span(i, j)' = s /\ Leaf(i)' % s = 0 /\ Built(i, j)' = 0
        BY <1>1, <2>2, <2>3, <3>1
      <4>6. \E n \in 0 .. s :
               /\ n >= (Leaf(i)' % s) + Built(i, j)'
               /\ Contains(subtree'[i][j].BUILDING, tree'[i].I, e, n)
        BY <2>2, <4>4, <4>5
      <4> QED BY <3>6, <4>2, <4>5, <4>6 DEF BuildingOK, Contains, MadeOf
    <3> QED BY <3>7, <3>8
  <2>8. CASE ~Ends(i, j)
    <3>1. (x + 1) % s # 0 /\ r # s - 1
      <4>1. (x + 1) % s # 0
        BY <2>1, <2>2, <2>6, <2>8
      <4> QED BY <2>5, <4>1
    <3>2. subtree'[i][j] = subtree[i][j]
      BY <2>8, AdvancedOf
    <3>3. Start(i, j)' = y /\ Leaf(i)' % s = r + 1 /\ Span(i, j)' = s
      BY <1>1, <2>2, <2>3, <2>5, <3>1
    <3>4. ActiveOK(i, j)'
      BY <2>1, <2>2, <3>2, <3>3 DEF ActiveOK, MadeOf
    <3>5. BuildingOK(i, j)'
      <4>1. SUFFICES ASSUME j > 1, y + s < l
                     PROVE  \E n \in 0 .. s :
                               /\ n >= (Leaf(i)' % s) + Built(i, j)'
                               /\ Contains(subtree'[i][j].BUILDING, tree'[i].I, y + s, n)
        BY <1>1, <2>2, <3>3 DEF BuildingOK, Contains, MadeOf
      <4>2. PICK n \in 0 .. s : n >= r + 1 /\ Contains(subtree[i][j].BUILDING, tree[i].I, y + s, n)
        BY <2>1, <2>2, <4>1 DEF BuildingOK
      <4>3. n >= (Leaf(i)' % s) + Built(i, j)'
        BY <2>2, <3>3, <4>2
      <4> QED BY <3>2, <4>2, <4>3
    <3> QED BY <3>4, <3>5
  <2> QED BY <2>7, <2>8
<1> QED
  BY <1>3, <1>4, <1>5

\* A tree that ends: the one next to it is complete, and starts at its first leaf.
LEMMA LevelSwitches ==
    ASSUME TypesOK, NEW i \in 2 .. Levels, key' = key, LevelOK(i),
           Due(i) = Leaves(i), Leaf(i)' = 0, Due(i)' = 0, tree'[i].I = tree[i].I_next,
           \A j \in 1 .. SubLevels(i) : subtree'[i][j] = Switched(i, j),
           \A j \in 1 .. SubLevels(i) : Built(i, j)' = 0
    PROVE  /\ LeafOK(i)' /\ NextOK(i)'
           /\ \A j \in 1 .. SubLevels(i) : ActiveOK(i, j)' /\ BuildingOK(i, j)'
<1>0. i \in 1 .. Levels /\ i > 1
  OBVIOUS
<1>1. /\ SubLevels(i)' = SubLevels(i) /\ MaxIndex(i)' = MaxIndex(i) /\ Leaves(i)' = Leaves(i)
      /\ \A j : Span(i, j)' = Span(i, j)
  BY KeyStays
<1>2. key \in Keys /\ NextOK(i) /\ SubLevels(i) \in 1 .. 25
      /\ Leaves(i) \in Nat /\ Leaves(i) >= 2 /\ MaxIndex(i) = Leaves(i) - 1
  BY <1>0, LevelNumbers DEF TypesOK, LevelOK
<1>3. LeafOK(i)'
  BY <1>1, <1>2 DEF LeafOK
<1>4. ASSUME NEW j \in 1 .. SubLevels(i)
      PROVE  /\ Switched(i, j).NEXT = Subtree(0, 0, Nothing)
             /\ Switched(i, j).ACTIVE.left_leaf = 0
             /\ Switched(i, j).ACTIVE.made = subtree[i][j].NEXT.made
             /\ j > 1 => Switched(i, j).BUILDING = Subtree(Span(i, j), 0, Nothing)
  BY <1>0, SwitchedOf
<1>5. PICK o \in 0 .. SubLevels(i) : OpenAt(subtree[i], i, tree[i].I_next, Leaves(i), o)
  BY <1>0, <1>2 DEF NextOK, NextBuilt
<1>6. o = 0
  <2>1. SUFFICES ASSUME o > 0 PROVE FALSE
    BY <1>2
  <2>2. o \in 1 .. SubLevels(i)
    BY <1>2, <2>1
  <2>3. PICK s \in Nat, m \in Nat, l \in Nat :
           s = Span(i, o) /\ m = NodeSpan(i, o) /\ l = Leaves(i) /\ m < s /\ s <= l
    BY <1>0, <1>2, <2>2, LevelNumbers DEF SpansFit
  <2>4. PICK n \in 0 .. (s - 1) : l <= IF n = 0 /\ o < SubLevels(i) THEN m ELSE n
    BY <1>5, <2>1, <2>3 DEF OpenAt
  <2> QED BY <2>3, <2>4
<1>7. \A j \in 1 .. SubLevels(i) : subtree[i][j].NEXT.made = MadeOf(tree[i].I_next, 0, Span(i, j))
  BY <1>2, <1>5, <1>6 DEF OpenAt
<1>8. NextOK(i)'
  <2> DEFINE S == SubLevels(i)
             t == tree'[i].I_next
  <2>1. \A j \in 1 .. S : subtree'[i][j].NEXT = Subtree(0, 0, Nothing)
    BY <1>4
  <2>2. \A j \in 1 .. S : Contains(subtree'[i][j].NEXT, t, 0, 0)
    BY <2>1 DEF Contains, Subtree, Nothing
  <2>3. S \in 1 .. S /\ S \in Nat
    BY <1>2
  <2>4. Span(i, S) \in Nat \ {0}
    BY <1>0, <1>2, <2>3, LevelNumbers DEF SpansFit
  <2>5. OpenAt(subtree'[i], i, t, 0, S)
    <3>1. \A j \in 1 .. S : ~(j > S)
      BY <2>3
    <3>2. \A j \in 1 .. S : subtree'[i][j].NEXT.left_leaf = 0
      BY <2>2 DEF Contains
    <3>3. Contains(subtree'[i][S].NEXT, t, 0, 0) /\ 0 \in 0 .. (Span(i, S) - 1) /\ ~(S < S)
      BY <2>2, <2>3, <2>4
    <3>4. \E n \in 0 .. (Span(i, S) - 1) :
             /\ Contains(subtree'[i][S].NEXT, t, 0, n)
             /\ 0 <= IF n = 0 /\ S < SubLevels(i) THEN NodeSpan(i, S) ELSE n
      BY <3>3
    <3> QED BY <2>2, <3>1, <3>2, <3>4 DEF OpenAt
  <2>6. NextBuilt(subtree'[i], i, t, Due(i)')
    BY <2>3, <2>5 DEF NextBuilt
  <2> QED BY <2>6, NextBecomes
<1>9. ASSUME NEW j \in 1 .. SubLevels(i) PROVE ActiveOK(i, j)' /\ BuildingOK(i, j)'
  <2>1. PICK s \in Nat \ {0} : s = Span(i, j) /\ Span(i, j)' = s
    BY <1>0, <1>1, <1>2, LevelNumbers DEF SpansFit
  <2>2. 0 % s = 0
    <3>1. (0 * s + 0) % s = 0
      BY RestOf
    <3> QED BY <3>1
  <2>3. Start(i, j)' = 0
    BY <2>1, <2>2 DEF Start
  <2>4. ActiveOK(i, j)'
    <3>1. /\ subtree'[i][j].ACTIVE.left_leaf = 0
          /\ subtree'[i][j].ACTIVE.made = MadeOf(tree'[i].I, 0, s)
      BY <1>4, <1>7, <2>1
    <3> QED BY <2>1, <2>3, <3>1 DEF ActiveOK, MadeOf
  <2>5. BuildingOK(i, j)'
    <3>1. CASE j > 1
      <4>1. subtree'[i][j].BUILDING = Subtree(s, 0, Nothing)
        BY <1>4, <2>1, <3>1
      <4>2. Contains(subtree'[i][j].BUILDING, tree'[i].I, 0 + s, 0)
        BY <4>1 DEF Contains, Subtree, Nothing
      <4>3. \E n \in 0 .. s :
               /\ n >= (Leaf(i)' % s) + Built(i, j)'
               /\ Contains(subtree'[i][j].BUILDING, tree'[i].I, 0 + s, n)
        BY <2>1, <2>2, <4>2
      <4> QED BY <2>1, <2>3, <4>3 DEF BuildingOK, Contains, MadeOf
    <3>2. CASE ~(j > 1)
      BY <3>2 DEF BuildingOK
    <3> QED BY <3>1, <3>2
  <2> QED BY <2>4, <2>5
<1> QED
  BY <1>3, <1>8, <1>9

\* The types after the exchange.
LEMMA FinishTypes ==
    ASSUME IInv, Finish
    PROVE  /\ TypesOK' /\ JobsOK'
           /\ key' = key /\ jobs' = {} /\ at' = IF UsedUp(1) THEN "expired" ELSE "idle"
           /\ tree' = IF FirstSwitched > Levels THEN tree ELSE SwitchedTrees(FirstSwitched)
           /\ \A i \in 1 .. Levels : \A j \in 1 .. SubLevels(i) :
                 subtree'[i][j] = IF i >= FirstSwitched THEN Switched(i, j) ELSE Advanced(i, j)
<1>1. /\ at = "waiting" /\ jobs = {} /\ jobs' = jobs /\ key' = key
      /\ subtree' = [i \in 1 .. Levels |-> [j \in 1 .. SubLevels(i) |->
                        IF i >= FirstSwitched THEN Switched(i, j) ELSE Advanced(i, j)]]
      /\ tree' = IF FirstSwitched > Levels THEN tree ELSE SwitchedTrees(FirstSwitched)
      /\ at' = IF UsedUp(1) THEN "expired" ELSE "idle"
  BY DEF Finish
<1>2. TypesOK /\ key \in Keys /\ Levels \in Nat \ {0}
  BY Numbers DEF IInv, TypesOK
<1>3. FirstSwitched \in 2 .. (Levels + 1)
  BY <1>1, CountAtEnd DEF FirstFull
<1>4. tree' \in [1 .. Levels -> Trees]
  <2>1. CASE FirstSwitched > Levels
    BY <1>1, <1>2, <2>1 DEF TypesOK
  <2>2. CASE ~(FirstSwitched > Levels)
    <3>1. FirstSwitched \in 2 .. Levels
      BY <1>2, <1>3, <2>2
    <3>2. SwitchedTrees(FirstSwitched) \in [1 .. Levels -> Trees]
      BY <1>2, <3>1, SwitchedTypes
    <3> QED BY <1>1, <2>2, <3>2
  <2> QED BY <2>1, <2>2
<1> DEFINE P(i, j) == IF i >= FirstSwitched THEN Switched(i, j) ELSE Advanced(i, j)
<1>5. ASSUME NEW i \in 1 .. Levels, NEW j \in 1 .. SubLevels(i) PROVE P(i, j) \in Roles
  BY <1>2, AdvancedOf, SwitchedOf
<1>6. subtree' = [i \in 1 .. Levels |-> [j \in 1 .. SubLevels(i) |-> P(i, j)]]
  BY <1>1
<1> HIDE DEF P
<1>7. \A i \in 1 .. Levels : subtree'[i] = [j \in 1 .. SubLevels(i) |-> P(i, j)]
  BY <1>6
<1>8. \A i \in 1 .. Levels : subtree'[i] \in [1 .. SubLevels(i) -> Roles]
  BY <1>5, <1>7
<1>9. \A i \in 1 .. Levels : \A j \in 1 .. SubLevels(i) : subtree'[i][j] = P(i, j)
  BY <1>7
<1>10. subtree' = [i \in 1 .. Levels |-> subtree'[i]]
  BY <1>6
<1>11. at' \in {"idle", "issuing", "waiting", "expired"}
  BY <1>1
<1>12. TypesOK'
  BY <1>1, <1>2, <1>4, <1>8, <1>10, <1>11, TypesStay
<1>13. JobsOK'
  BY <1>1 DEF JobsOK
<1> QED
  BY <1>1, <1>9, <1>12, <1>13 DEF P

\* p is the lowest level whose tree goes on: those from f on are at their last leaves.
LastLeaves(f, p) ==
    /\ f = FirstSwitched /\ FirstFull(f, Digits) /\ p = f - 1 /\ f = p + 1
    /\ \A i \in f .. Levels : Leaf(i) + 1 = Leaves(i)
    /\ ~Full(Digits, p) /\ Full(Digits, p + 1) /\ Leaf(p) + 1 < Leaves(p)

\* Where the trees are after the exchange.
Exchanged(f, p) ==
    /\ \A i \in 1 .. (p - 1) : tree'[i] = tree[i]
    /\ tree'[p].I = tree[p].I /\ tree'[p].I_next = tree[p].I_next
    /\ \A i \in f .. Levels : tree'[i].I = tree[i].I_next
    /\ \A i \in p .. Levels : i < Bottom => tree'[i].update_count = 0
    /\ Leaf(p)' = Leaf(p) + 1
    /\ \A i \in f .. Levels : Leaf(i)' = 0

\* When the jobs are done the trees that end are exchanged.
LEMMA FinishLevels ==
    ASSUME IInv, Finish, ~UsedUp(1)
    PROVE  \E f \in 2 .. (Levels + 1), p \in 1 .. Levels : LastLeaves(f, p) /\ Exchanged(f, p)
<1> DEFINE d == Digits
<1>1. /\ TypesOK' /\ JobsOK'
      /\ key' = key /\ jobs' = {} /\ at' = IF UsedUp(1) THEN "expired" ELSE "idle"
      /\ tree' = IF FirstSwitched > Levels THEN tree ELSE SwitchedTrees(FirstSwitched)
      /\ \A i \in 1 .. Levels : \A j \in 1 .. SubLevels(i) :
            subtree'[i][j] = IF i >= FirstSwitched THEN Switched(i, j) ELSE Advanced(i, j)
  BY FinishTypes
<1>2. /\ key \in Keys /\ TypesOK /\ at = "waiting" /\ jobs = {}
      /\ Levels \in Nat \ {0} /\ Bottom = Levels /\ Bottom \in 1 .. Levels
      /\ \A i \in 1 .. Levels : LevelOK(i)
  BY Numbers DEF IInv, TypesOK, Bottom, Finish
<1>3. at' = "idle" /\ ~UsedUp(1)
  BY <1>1
<1>4. PICK f \in 2 .. (Levels + 1), p \in 1 .. Levels :
         f = FirstSwitched /\ FirstFull(f, d) /\ p = f - 1 /\ f = p + 1
  <2>1. FirstFull(FirstSwitched, d)
    BY <1>2, CountAtEnd
  <2>2. PICK f \in 2 .. (Levels + 1) : f = FirstSwitched
    BY <2>1 DEF FirstFull
  <2>3. f - 1 \in 1 .. Levels /\ f = (f - 1) + 1
    BY <1>2
  <2> QED BY <2>1, <2>2, <2>3
<1>5. /\ AreDigits(d) /\ Count = Value(d) + 1
      /\ \A i \in 1 .. Levels : /\ UsedUp(i) <=> Full(d, i)
                                /\ tree[i].current_index = Leaf(i) + 1
                                /\ d[i] = Leaf(i) /\ Leaf(i) \in Nat
                                /\ Leaves(i) \in Nat /\ Leaf(i) < Leaves(i)
  <2>1. /\ AreDigits(d) /\ Count = Value(d) + 1
        /\ \A i \in 1 .. Levels : UsedUp(i) <=> Full(d, i)
        /\ \A i \in 1 .. Levels : tree[i].current_index = Leaf(i) + 1
    BY <1>2, CountAtEnd
  <2>2. \A i \in 1 .. Levels : d[i] = Leaf(i)
    BY DEF Digits
  <2>3. \A i \in 1 .. Levels : Leaf(i) \in Nat /\ Leaves(i) \in Nat /\ Leaf(i) < Leaves(i)
    BY <1>2, LevelNumbers DEF LevelOK, LeafOK
  <2> QED BY <2>1, <2>2, <2>3
<1> HIDE DEF d
<1>6. \A i \in f .. Levels : Leaf(i) + 1 = Leaves(i)
  <2>1. Full(d, f)
    BY <1>4 DEF FirstFull
  <2>2. f .. Levels \subseteq 1 .. Levels
    BY <1>2, <1>4
  <2> QED BY <1>5, <2>1, <2>2 DEF Full
<1>7. ~Full(d, p) /\ Full(d, p + 1)
  <2>1. CASE p = 1
    BY <1>3, <1>4, <1>5, <2>1 DEF FirstFull
  <2>2. CASE p # 1
    <3>1. p \in 2 .. Levels /\ p < f
      BY <1>2, <1>4, <2>2
    <3> QED BY <1>4, <3>1 DEF FirstFull
  <2> QED BY <2>1, <2>2
<1>8. Leaf(p) + 1 < Leaves(p)
  <2>1. PICK k \in p .. Levels : d[k] # Leaves(k) - 1
    BY <1>7 DEF Full
  <2>2. k \notin (p + 1) .. Levels
    BY <1>7, <2>1 DEF Full
  <2>3. k = p
    BY <1>2, <2>2
  <2> QED BY <1>5, <2>1, <2>3
<1>9. Levels' = Levels /\ Bottom' = Bottom
       /\ \A i : SubLevels(i)' = SubLevels(i) /\ MaxIndex(i)' = MaxIndex(i)
  BY <1>1, KeyStays
<1>10. /\ \A i \in 1 .. (p - 1) : tree'[i] = tree[i]
       /\ tree'[p].I = tree[p].I /\ tree'[p].I_next = tree[p].I_next
       /\ \A i \in f .. Levels : tree'[i].I = tree[i].I_next
       /\ \A i \in p .. Levels : i < Bottom => tree'[i].update_count = 0
       /\ Leaf(p)' = Leaf(p) + 1
       /\ \A i \in f .. Levels : Leaf(i)' = 0
  <2>1. CASE f > Levels
    <3>1. p = Bottom /\ tree' = tree
      BY <1>1, <1>2, <1>4, <2>1
    <3>2. /\ \A i \in f .. Levels : FALSE
          /\ \A i \in p .. Levels : ~(i < Bottom)
      BY <1>2, <1>4, <2>1
    <3>3. Leaf(p)' = Leaf(p) + 1
      BY <1>3, <1>5, <1>9, <3>1 DEF Leaf
    <3> QED BY <3>1, <3>2, <3>3
  <2>2. CASE ~(f > Levels)
    <3>1. f \in 2 .. Levels /\ p < Bottom /\ p \in p .. Levels /\ p < f
      BY <1>2, <1>4, <2>2
    <3>2. tree' = SwitchedTrees(f)
      BY <1>1, <1>4, <2>2
    <3>3. /\ \A i \in 1 .. Levels : i < f - 1 => tree'[i] = tree[i]
          /\ tree'[f - 1].I = tree[f - 1].I /\ tree'[f - 1].I_next = tree[f - 1].I_next
          /\ \A i \in f .. Levels : tree'[i].I = tree[i].I_next
      BY <1>2, <3>1, <3>2, SwitchedNames
    <3>4. ASSUME NEW i \in p .. Levels
          PROVE  /\ i < Bottom => tree'[i].update_count = 0
                 /\ tree'[i].current_index = (IF i < f THEN tree[i].current_index ELSE 0) +
                                             (IF i < Bottom THEN 1 ELSE 0)
      <4> DEFINE a == (IF i < f THEN tree[i].current_index ELSE 0) +
                      (IF i < Bottom THEN 1 ELSE 0)
                 b == IF i < Bottom THEN UPDATE_NEXT ELSE tree[i].update_count
      <4>1. i \in (f - 1) .. Levels
        BY <1>4
      <4>2. tree'[i] = [I |-> tree'[i].I, I_next |-> tree'[i].I_next,
                        current_index |-> a, update_count |-> b]
        BY <1>2, <3>1, <3>2, <4>1, SwitchedNames
      <4> HIDE DEF a, b
      <4>3. tree'[i].current_index = a /\ tree'[i].update_count = b
        BY <4>2
      <4> QED BY <4>3 DEF a, b, UPDATE_NEXT
    <3>5. Leaf(p)' = Leaf(p) + 1
      <4>1. tree'[p].current_index = (Leaf(p) + 1) + 1
        BY <1>5, <3>1, <3>4
      <4>2. Leaf(p)' = tree'[p].current_index - 1
        BY <1>9, <3>1 DEF Leaf
      <4> QED BY <1>5, <4>1, <4>2
    <3>6. ASSUME NEW i \in f .. Levels PROVE Leaf(i)' = 0
      <4>1. i \in p .. Levels /\ ~(i < f) /\ (i < Bottom <=> i # Bottom)
        BY <1>2, <1>4
      <4>2. tree'[i].current_index = IF i < Bottom THEN 1 ELSE 0
        BY <3>4, <4>1
      <4> QED BY <1>3, <1>9, <4>1, <4>2 DEF Leaf
    <3>7. \A i \in 1 .. (p - 1) : tree'[i] = tree[i]
      BY <1>2, <1>4, <3>3
    <3> QED BY <1>4, <3>3, <3>4, <3>5, <3>6, <3>7
  <2> QED BY <2>1, <2>2
<1> QED
  BY <1>4, <1>6, <1>7, <1>8, <1>10 DEF LastLeaves, Exchanged, d

\* When the jobs are done, trees that end are exchanged, the tree above them goes on, and
\* those above that one keep what they have.
LEMMA FinishOK ==
    ASSUME IInv, Finish
    PROVE  IInv'
<1> DEFINE d == Digits
<1>1. /\ TypesOK' /\ JobsOK'
      /\ key' = key /\ jobs' = {} /\ at' = IF UsedUp(1) THEN "expired" ELSE "idle"
      /\ tree' = IF FirstSwitched > Levels THEN tree ELSE SwitchedTrees(FirstSwitched)
      /\ \A i \in 1 .. Levels : \A j \in 1 .. SubLevels(i) :
            subtree'[i][j] = IF i >= FirstSwitched THEN Switched(i, j) ELSE Advanced(i, j)
  BY FinishTypes
<1>2. /\ key \in Keys /\ TypesOK /\ at = "waiting" /\ jobs = {}
      /\ Levels \in Nat \ {0} /\ Bottom = Levels /\ Bottom \in 1 .. Levels
      /\ \A i \in 1 .. Levels : LevelOK(i)
  BY Numbers DEF IInv, TypesOK, Bottom, Finish
<1>3. SUFFICES ASSUME at' = "idle", ~UsedUp(1)
               PROVE  \A i \in 1 .. Levels : LevelOK(i)'
  <2>1. Levels' = Levels
    BY <1>1, KeyStays
  <2>2. at' # "expired" => at' = "idle" /\ ~UsedUp(1)
    BY <1>1
  <2> QED BY <1>1, <1>3, <2>1, <2>2 DEF IInv
<1>4. PICK f \in 2 .. (Levels + 1), p \in 1 .. Levels : LastLeaves(f, p) /\ Exchanged(f, p)
  BY <1>3, FinishLevels
<1>24. f = FirstSwitched /\ FirstFull(f, d) /\ p = f - 1 /\ f = p + 1
  BY <1>4 DEF LastLeaves
<1>5. /\ AreDigits(d) /\ Count = Value(d) + 1
      /\ \A i \in 1 .. Levels : /\ UsedUp(i) <=> Full(d, i)
                                /\ tree[i].current_index = Leaf(i) + 1
                                /\ d[i] = Leaf(i) /\ Leaf(i) \in Nat
                                /\ Leaves(i) \in Nat /\ Leaf(i) < Leaves(i)
  <2>1. /\ AreDigits(d) /\ Count = Value(d) + 1
        /\ \A i \in 1 .. Levels : UsedUp(i) <=> Full(d, i)
        /\ \A i \in 1 .. Levels : tree[i].current_index = Leaf(i) + 1
    BY <1>2, CountAtEnd
  <2>2. \A i \in 1 .. Levels : d[i] = Leaf(i)
    BY DEF Digits
  <2>3. \A i \in 1 .. Levels : Leaf(i) \in Nat /\ Leaves(i) \in Nat /\ Leaf(i) < Leaves(i)
    BY <1>2, LevelNumbers DEF LevelOK, LeafOK
  <2> QED BY <2>1, <2>2, <2>3
<1> HIDE DEF d
\* Where the leaves are.
<1>6. \A i \in f .. Levels : Leaf(i) + 1 = Leaves(i)
  BY <1>4 DEF LastLeaves
<1>7. ~Full(d, p) /\ Full(d, p + 1)
  BY <1>4 DEF LastLeaves, d
<1>8. Leaf(p) + 1 < Leaves(p)
  BY <1>4 DEF LastLeaves
<1>9. ASSUME NEW i \in p .. Levels, i < Bottom
      PROVE  tree[i].update_count \in Nat /\ SubLevels(i) \in 1 .. 25
             /\ tree[i].update_count >= SubLevels(i) + 1
  <2>1. i \in (FirstSwitched - 1) .. (Bottom - 1) /\ i \in 1 .. Levels
    BY <1>2, <1>24, <1>9
  <2>2. tree[i].update_count >= SubLevels(i) + 1
    BY <1>2, <2>1, UpdatesAtEnd
  <2>3. tree[i].update_count \in Nat /\ SubLevels(i) \in 1 .. 25
    BY <1>2, <2>1, LevelNumbers DEF TypesOK, Trees
  <2> QED BY <2>2, <2>3
\* What the work of the signature has come to.
<1>10. ASSUME NEW i \in p .. Levels
       PROVE  /\ \A j \in 1 .. SubLevels(i) : Built(i, j) = 1
              /\ Due(i) = Leaf(i) + 1
  <2>1. CASE i = Bottom
    BY <1>2, <2>1 DEF Built, Due
  <2>2. CASE i # Bottom
    <3>1. i < Bottom
      BY <1>2, <2>2
    <3>2. \A j \in 1 .. SubLevels(i) : tree[i].update_count > j
      BY <1>9, <3>1
    <3>3. tree[i].update_count > UPDATE_NEXT
      BY <1>9, <3>1 DEF UPDATE_NEXT
    <3> QED BY <2>2, <3>2, <3>3 DEF Built, Due
  <2> QED BY <2>1, <2>2
\* The trees afterwards.
<1>11. Levels' = Levels /\ Bottom' = Bottom
       /\ \A i : SubLevels(i)' = SubLevels(i) /\ MaxIndex(i)' = MaxIndex(i)
  BY <1>1, KeyStays
<1>12. /\ \A i \in 1 .. (p - 1) : tree'[i] = tree[i]
       /\ tree'[p].I = tree[p].I /\ tree'[p].I_next = tree[p].I_next
       /\ \A i \in f .. Levels : tree'[i].I = tree[i].I_next
       /\ \A i \in p .. Levels : i < Bottom => tree'[i].update_count = 0
       /\ Leaf(p)' = Leaf(p) + 1
       /\ \A i \in f .. Levels : Leaf(i)' = 0
  BY <1>4 DEF Exchanged
<1>13. ASSUME NEW i \in p .. Levels
       PROVE  /\ \A j \in 1 .. SubLevels(i) : Built(i, j)' = 0
              /\ Leaf(i)' \in Nat /\ Due(i)' = Leaf(i)'
  <2>1. Leaf(i)' \in Nat
    <3>1. i = p \/ i \in f .. Levels
      BY <1>2, <1>24
    <3> QED BY <1>5, <1>12, <3>1
  <2>2. CASE i = Bottom
    BY <1>3, <1>11, <2>1, <2>2 DEF Built, Due
  <2>3. CASE i # Bottom
    <3>1. i < Bottom
      BY <1>2, <2>3
    <3>2. tree'[i].update_count = 0
      BY <1>12, <3>1
    <3>3. \A j \in 1 .. SubLevels(i) : ~(0 > j)
      BY <1>9, <3>1
    <3> QED BY <1>11, <2>1, <2>3, <3>2, <3>3 DEF Built, Due, UPDATE_NEXT
  <2> QED BY <2>1, <2>2, <2>3
<1>14. Passed = 1 /\ Passed' = 0
  BY <1>2, <1>3 DEF Passed
\* Which subtrees end.
<1>15. ASSUME NEW j \in 1 .. SubLevels(p)
       PROVE  Ends(p, j) <=> j > 1 /\ (Leaf(p) + 1) % Span(p, j) = 0
  <2>1. Span(p, j) \in Nat \ {0} /\ Divides(Span(p, j), Leaves(p))
    BY <1>2, LevelNumbers DEF SpansFit
  <2>2. (Value(d) + 1) % (Capacity(p + 1) * Span(p, j)) = 0 <=>
           Full(d, p + 1) /\ (d[p] + 1) % Span(p, j) = 0
    BY <1>2, <1>5, <2>1, EndsByDigits
  <2> QED BY <1>5, <1>7, <2>2 DEF Ends
<1>16. ASSUME NEW i \in 1 .. (p - 1), NEW j \in 1 .. SubLevels(i) PROVE ~Ends(i, j)
  <2>1. i \in 1 .. Levels /\ i + 1 \in 2 .. Levels /\ i + 1 < f
    BY <1>2, <1>24
  <2>2. ~Full(d, i + 1)
    BY <1>24, <2>1 DEF FirstFull
  <2>3. Span(i, j) \in Nat \ {0} /\ Divides(Span(i, j), Leaves(i))
    BY <1>2, <2>1, LevelNumbers DEF SpansFit
  <2>4. (Value(d) + 1) % (Capacity(i + 1) * Span(i, j)) = 0 <=>
           Full(d, i + 1) /\ (d[i] + 1) % Span(i, j) = 0
    BY <1>2, <1>5, <2>1, <2>3, EndsByDigits
  <2> QED BY <1>5, <2>2, <2>4 DEF Ends
\* The levels above the one that goes on.
<1>17. ASSUME NEW i \in 1 .. (p - 1)
       PROVE  /\ LeafOK(i)' /\ NextOK(i)' /\ i < Bottom
              /\ \A j \in 1 .. SubLevels(i) : ActiveOK(i, j)' /\ BuildingOK(i, j)'
              /\ Leaf(i)' = Leaf(i) /\ tree'[i].update_count = tree[i].update_count
  <2>1. i \in 1 .. Levels /\ i < Bottom /\ i # Bottom /\ i < f /\ ~(i >= f)
    BY <1>2, <1>24
  <2>2. tree'[i] = tree[i]
    BY <1>12
  <2>3. Leaf(i)' = Leaf(i)
    BY <1>11, <2>1, <2>2 DEF Leaf
  <2>4. subtree'[i] = subtree[i]
    <3>1. \A j \in 1 .. SubLevels(i) : subtree'[i][j] = subtree[i][j]
      BY <1>1, <1>2, <1>24, <1>16, <2>1, AdvancedOf
    <3>2. subtree[i] = [j \in 1 .. SubLevels(i) |-> subtree[i][j]]
      BY <1>2, <2>1 DEF TypesOK
    <3>3. subtree'[i] = [j \in 1 .. SubLevels(i) |-> subtree'[i][j]]
      <4>1. subtree'[i] \in [1 .. SubLevels(i) -> Roles]
        BY <1>1, <1>11, <2>1 DEF TypesOK, Roles, Piece
      <4> QED BY <4>1
    <3> QED BY <3>1, <3>2, <3>3
  <2>5. \A j : Built(i, j)' = Built(i, j)
    BY <1>11, <2>1, <2>2 DEF Built
  <2>6. Due(i)' = Due(i)
    BY <1>11, <2>1, <2>2, <2>3 DEF Due, UPDATE_NEXT
  <2>7. LeafOK(i) /\ NextOK(i) /\ \A j \in 1 .. SubLevels(i) : ActiveOK(i, j) /\ BuildingOK(i, j)
    BY <1>2, <2>1 DEF LevelOK
  <2>8. LeafOK(i)'
    BY <1>11, <2>3, <2>7 DEF LeafOK
  <2>9. NextOK(i)'
    BY <1>1, <2>2, <2>4, <2>6, <2>7, NextStays
  <2>10. ASSUME NEW j \in 1 .. SubLevels(i) PROVE ActiveOK(i, j)' /\ BuildingOK(i, j)'
    BY <1>1, <1>2, <2>1, <2>2, <2>3, <2>4, <2>5, <2>7, ActiveStays, BuildingStays
  <2> QED BY <2>1, <2>2, <2>3, <2>8, <2>9, <2>10
\* That level.
<1>18. /\ LeafOK(p)' /\ NextOK(p)'
       /\ \A j \in 1 .. SubLevels(p) : ActiveOK(p, j)' /\ BuildingOK(p, j)'
  <2>1. p \in p .. Levels /\ ~(p >= f)
    BY <1>2, <1>24
  <2>2. \A j \in 1 .. SubLevels(p) : subtree'[p][j] = Advanced(p, j)
    BY <1>1, <1>24, <2>1
  <2>3. Due(p)' = Due(p)
    BY <1>10, <1>12, <1>13, <2>1
  <2>4. \A j \in 1 .. SubLevels(p) : Built(p, j) = 1 /\ Built(p, j)' = 0
    BY <1>10, <1>13, <2>1
  <2> QED BY <1>1, <1>2, <1>8, <1>12, <1>15, <2>2, <2>3, <2>4, LevelAdvances
\* The levels below it.
<1>19. ASSUME NEW i \in f .. Levels
       PROVE  /\ LeafOK(i)' /\ NextOK(i)'
              /\ \A j \in 1 .. SubLevels(i) : ActiveOK(i, j)' /\ BuildingOK(i, j)'
  <2>1. i \in 2 .. Levels /\ i \in 1 .. Levels /\ i \in p .. Levels /\ i >= f
    BY <1>2, <1>24
  <2>2. \A j \in 1 .. SubLevels(i) : subtree'[i][j] = Switched(i, j)
    BY <1>1, <1>24, <2>1
  <2>3. Due(i) = Leaves(i) /\ Leaf(i)' = 0 /\ Due(i)' = 0
    BY <1>6, <1>10, <1>12, <1>13, <2>1
  <2>4. \A j \in 1 .. SubLevels(i) : Built(i, j)' = 0
    BY <1>13, <2>1
  <2> QED BY <1>1, <1>2, <1>12, <2>1, <2>2, <2>3, <2>4, LevelSwitches
\* The updates start anew.
<1>20. ASSUME NEW i \in 1 .. Levels, i < Bottom PROVE CountOK(i)'
  <2>1. SubLevels(i)' = SubLevels(i) /\ SubLevels(i) \in 1 .. 25
    BY <1>2, <1>11, LevelNumbers
  <2>2. CASE i < p
    <3>1. tree'[i].update_count = tree[i].update_count /\ CountOK(i)
      BY <1>2, <1>17, <1>20, <2>2 DEF LevelOK
    <3> QED BY <2>1, <3>1 DEF CountOK, UPDATE_DONE
  <2>3. CASE i >= p
    <3>1. tree'[i].update_count = 0
      BY <1>12, <1>20, <2>3
    <3>2. 0 \in 0 .. (SubLevels(i) + 1)
      BY <2>1
    <3> QED BY <2>1, <3>1, <3>2 DEF CountOK
  <2> QED BY <2>2, <2>3
<1>21. Bottom > 1 => Leaves(Bottom)' = Leaves(Bottom) /\ Generated(Bottom)' = Generated(Bottom)
         /\ Generated(Bottom) \in Nat /\ Leaves(Bottom) \in Nat /\ Generated(Bottom) <= Leaves(Bottom)
  <2>1. SUFFICES ASSUME Bottom > 1
                 PROVE  Leaves(Bottom)' = Leaves(Bottom) /\ Generated(Bottom)' = Generated(Bottom)
         /\ Generated(Bottom) \in Nat /\ Leaves(Bottom) \in Nat /\ Generated(Bottom) <= Leaves(Bottom)
    OBVIOUS
  <2>2. Bottom \in 2 .. Levels
    BY <1>2, <2>1
  <2>3. Generated(Bottom) \in 1 .. Leaves(Bottom) /\ Leaves(Bottom) \in Nat
    BY <1>2, <2>2, UpdatesGiven, LevelNumbers
  <2>4. \A i : Leaves(i)' = Leaves(i) /\ Generated(i)' = Generated(i)
    BY <1>1, KeyStays
  <2>5. Leaves(Bottom)' = Leaves(Bottom) /\ Generated(Bottom)' = Generated(Bottom)
    BY <1>11, <2>4
  <2> QED BY <2>3, <2>5
<1>22. ASSUME NEW i \in 1 .. Levels, i < Bottom PROVE UpdatesOK(i)'
  <2>0. i \in Nat /\ i + 1 \in 1 .. Levels
    BY <1>2, <1>22
  <2>1. CASE i >= p /\ i + 1 = Bottom
    <3>1. Leaf(i + 1)' = 0 /\ tree'[i].update_count = 0
      BY <1>2, <1>24, <1>12, <1>22, <2>0, <2>1
    <3>2. Leaf(Bottom)' = 0
      BY <1>11, <2>1, <3>1
    <3>3. 0 + (Leaves(Bottom) - Generated(Bottom)) + 1 >= 0 + 0
      BY <1>21, <2>0, <2>1
    <3> QED BY <1>11, <1>14, <1>21, <2>0, <2>1, <3>1, <3>2, <3>3 DEF UpdatesOK
  <2>2. CASE i >= p /\ i + 1 < Bottom
    <3>1. /\ Leaf(i + 1)' = 0 /\ tree'[i].update_count = 0 /\ tree'[i + 1].update_count = 0
      BY <1>2, <1>24, <1>12, <1>22, <2>0, <2>2
    <3> QED BY <1>11, <2>0, <2>2, <3>1 DEF UpdatesOK, UPDATE_PARENT
  <2>3. CASE i < p
    <3>1. UpdatesOK(i) /\ tree'[i].update_count = tree[i].update_count
      BY <1>2, <1>17, <1>22, <2>3 DEF LevelOK
    <3>2. CASE i + 1 = Bottom
      <4>1. p = Bottom
        BY <1>2, <2>0, <2>3, <3>2
      <4>2. Leaf(Bottom)' = Leaf(Bottom) + 1 /\ Leaf(Bottom) \in Nat
        <5>1. Leaf(p)' = Leaf(p) + 1 /\ Leaf(p) \in Nat
          BY <1>5, <1>12
        <5>2. Leaf(Bottom)' = Leaf(p)'
          BY <1>11, <4>1
        <5> QED BY <4>1, <5>1, <5>2
      <4>3. Leaf(Bottom)' + Passed' = Leaf(Bottom) + Passed
        BY <1>14, <4>2
      <4>4. /\ Leaves(Bottom)' = Leaves(Bottom) /\ Generated(Bottom)' = Generated(Bottom)
        BY <1>21, <2>0, <3>2
      <4> QED BY <1>11, <2>0, <3>1, <3>2, <4>3, <4>4 DEF UpdatesOK, UPDATE_DONE
    <3>3. CASE i + 1 < Bottom /\ i + 1 < p
      <4>1. Leaf(i + 1)' = Leaf(i + 1)
            /\ tree'[i + 1].update_count = tree[i + 1].update_count
        BY <1>17, <2>0, <3>3
      <4> QED BY <1>11, <2>0, <3>1, <3>3, <4>1 DEF UpdatesOK, UPDATE_DONE, UPDATE_PARENT
    <3>4. CASE i + 1 < Bottom /\ i + 1 = p
      <4>1. tree[i + 1].update_count > UPDATE_PARENT /\ tree'[i + 1].update_count = 0
        <5>1. p \in p .. Levels /\ p < Bottom
          BY <1>2, <3>4
        <5>2. tree[p].update_count > 1 /\ tree'[p].update_count = 0
          BY <1>9, <1>12, <5>1
        <5> QED BY <3>4, <5>2 DEF UPDATE_PARENT
      <4>2. Leaf(i + 1)' = Leaf(i + 1) + 1 /\ Leaf(i + 1) \in Nat
        BY <1>5, <1>12, <3>4
      <4>3. tree[i].update_count = UPDATE_DONE \/ tree[i].update_count >= Leaf(i + 1) + 1
        BY <2>0, <3>1, <3>4, <4>1 DEF UpdatesOK
      <4>4. \/ tree'[i].update_count = UPDATE_DONE
            \/ tree'[i].update_count >= Leaf(i + 1)' +
                  (IF tree'[i + 1].update_count > UPDATE_PARENT THEN 1 ELSE 0)
        BY <3>1, <4>1, <4>2, <4>3 DEF UPDATE_PARENT
      <4> QED BY <1>11, <2>0, <3>4, <4>4 DEF UpdatesOK, UPDATE_DONE, UPDATE_PARENT
    <3> QED BY <1>2, <2>0, <2>3, <3>2, <3>3, <3>4
  <2> QED BY <1>2, <1>22, <2>0, <2>1, <2>2, <2>3
<1>23. ASSUME NEW i \in 1 .. Levels PROVE LevelOK(i)'
  <2>1. i \in 1 .. (p - 1) \/ i = p \/ i \in f .. Levels
    BY <1>2, <1>24
  <2>2. /\ LeafOK(i)' /\ NextOK(i)'
        /\ \A j \in 1 .. SubLevels(i) : ActiveOK(i, j)' /\ BuildingOK(i, j)'
    BY <1>17, <1>18, <1>19, <2>1
  <2>3. i < Bottom' => CountOK(i)' /\ UpdatesOK(i)'
    BY <1>11, <1>20, <1>22
  <2> QED BY <1>11, <2>2, <2>3 DEF LevelOK
<1> QED
  BY <1>23

-----------------------------------------------------------------------------
(* The properties.                                                         *)

\* Every step of the program keeps the inductive invariant.
LEMMA NextKeepsIInv ==
    ASSUME IInv, [Next]_vars
    PROVE  IInv'
<1>1. CASE StartSignature
  BY <1>1, StartSignatureOK
<1>2. CASE Issue
  BY <1>2, IssueOK
<1>3. CASE Finish
  BY <1>3, FinishOK
<1>4. CASE Expired
  BY <1>4, StutterOK DEF Expired
<1>5. CASE Sign
  BY <1>5, SignOK
<1>6. CASE StepBottomNext
  BY <1>6, StepBottomNextOK
<1>7. CASE StepBottomBuilding
  BY <1>7, StepBottomBuildingOK
<1>8. CASE UpdateParent
  BY <1>8, UpdateParentOK
<1>9. CASE UNCHANGED vars
  BY <1>9, StutterOK
<1> QED
  BY <1>1, <1>2, <1>3, <1>4, <1>5, <1>6, <1>7, <1>8, <1>9 DEF Next

\* The inductive invariant: what each subtree contains and how far each update is.
THEOREM InductiveInvariant == Spec => []IInv
<1>1. Init => IInv
  BY InitOK
<1>2. IInv /\ [Next]_vars => IInv'
  BY NextKeepsIInv
<1> QED
  BY <1>1, <1>2, PTL DEF Spec

\* hss_internal.h: the ACTIVE subtrees are always fully populated with the nodes of the
\* authentication path, in whatever order the jobs are carried out.
THEOREM ActiveAlwaysComplete == Spec => []ActiveComplete
<1>1. IInv => ActiveComplete
  BY DEF IInv, LevelOK, ActiveOK, Start, ActiveComplete
<1> QED
  BY <1>1, InductiveInvariant, PTL

\* hss_internal.h: an upper tree that is about to sign again has got all the updates that
\* it needs, even if the order of the jobs has cost it one.
THEOREM UpdatesAlwaysSuffice == Spec => []UpdatesSuffice
<1>1. IInv => UpdatesSuffice
  <2>1. SUFFICES ASSUME IInv, at = "waiting", jobs = {},
                        NEW i \in (FirstSwitched - 1) .. (Bottom - 1)
                 PROVE  tree[i].update_count >= UPDATE_BUILDING + SubLevels(i) - 1
    BY DEF UpdatesSuffice
  <2>2. key \in Keys /\ Bottom = Levels /\ Levels \in Nat \ {0}
        /\ FirstSwitched \in 2 .. (Levels + 1)
    BY <2>1, Numbers, CountAtEnd DEF IInv, TypesOK, Bottom, FirstFull
  <2>3. i \in 1 .. Levels
    BY <2>2
  <2>4. SubLevels(i) \in 1 .. 25
    BY <2>2, <2>3, LevelNumbers
  <2>5. tree[i].update_count >= SubLevels(i) + 1
    BY <2>1, UpdatesAtEnd
  <2>6. UPDATE_BUILDING + SubLevels(i) - 1 = SubLevels(i) + 1
    BY <2>4 DEF UPDATE_BUILDING
  <2> QED BY <2>5, <2>6
<1> QED
  BY <1>1, InductiveInvariant, PTL

-----------------------------------------------------------------------------
(* The names of the trees.                                                 *)

\* Each tree is named by the leaves that lead to it.
PathOK(i) == tree[i].I = [k \in 1 .. (i - 1) |-> Leaf(k)]

\* The tree that follows is the first one of the next leaf; only the one after the last
\* leaf of the top tree has no name.
FollowerOK(i) ==
    i > 1 /\ (i = 2 => Leaf(1) # MaxIndex(1)) =>
        tree[i].I_next = Follower(tree[i - 1], Leaf(i - 1), MaxIndex(i - 1))

\* Each link signs the tree below by the leaf that is signing.
SignedOK == signed = [i \in 2 .. Levels |-> Link(tree[i - 1].I, Leaf(i - 1), tree[i].I)]

\* All names, until the key expires.
NamesOK == at # "expired" => SignedOK /\ \A i \in 1 .. Levels : PathOK(i) /\ FollowerOK(i)

\* Steps that leave the upper trees at their leaves keep all names.
LEMMA NamesStay ==
    ASSUME key \in Keys, key' = key, signed' = signed, at # "expired", NamesOK,
           \A i \in 1 .. Levels :
               /\ tree'[i].I = tree[i].I /\ tree'[i].I_next = tree[i].I_next
               /\ i # Bottom => tree'[i].current_index = tree[i].current_index
    PROVE  NamesOK'
<1>1. Levels' = Levels /\ Bottom' = Bottom /\ \A i : MaxIndex(i)' = MaxIndex(i)
  BY KeyStays
<1>2. Levels \in Nat \ {0} /\ Bottom = Levels
  BY Numbers DEF Bottom
<1>3. \A i \in 1 .. (Levels - 1) : Leaf(i)' = Leaf(i)
  <2>1. ASSUME NEW i \in 1 .. (Levels - 1) PROVE Leaf(i)' = Leaf(i)
    <3>1. i \in 1 .. Levels /\ i # Bottom
      BY <1>2
    <3> QED BY <1>1, <3>1 DEF Leaf
  <2> QED BY <2>1
<1>4. SignedOK /\ \A i \in 1 .. Levels : PathOK(i) /\ FollowerOK(i)
  BY DEF NamesOK
<1>5. SignedOK'
  <2>1. ASSUME NEW i \in 2 .. Levels
        PROVE  Link(tree'[i - 1].I, Leaf(i - 1)', tree'[i].I) =
               Link(tree[i - 1].I, Leaf(i - 1), tree[i].I)
    <3>1. i - 1 \in 1 .. (Levels - 1) /\ i - 1 \in 1 .. Levels /\ i \in 1 .. Levels
      BY <1>2
    <3> QED BY <1>3, <3>1 DEF Link
  <2>2. signed' = [i \in 2 .. Levels |-> Link(tree[i - 1].I, Leaf(i - 1), tree[i].I)]
    BY <1>4 DEF SignedOK
  <2>3. signed' = [i \in 2 .. Levels |-> Link(tree'[i - 1].I, Leaf(i - 1)', tree'[i].I)]
    BY <2>1, <2>2
  <2> QED BY <1>1, <2>3 DEF SignedOK, Link
<1>6. ASSUME NEW i \in 1 .. Levels PROVE PathOK(i)' /\ FollowerOK(i)'
  <2>1. PathOK(i)'
    <3>1. \A k \in 1 .. (i - 1) : Leaf(k)' = Leaf(k)
      BY <1>2, <1>3
    <3> QED BY <1>4, <3>1 DEF PathOK
  <2>2. FollowerOK(i)'
    <3>1. CASE i > 1
      <4>1. i - 1 \in 1 .. (Levels - 1) /\ i - 1 \in 1 .. Levels
        BY <1>2, <3>1
      <4>2. i = 2 => Leaf(1)' = Leaf(1)
        BY <1>2, <1>3
      <4>3. Leaf(i - 1)' = Leaf(i - 1)
        BY <1>3, <4>1
      <4>4. Follower(tree'[i - 1], Leaf(i - 1)', MaxIndex(i - 1)') =
            Follower(tree[i - 1], Leaf(i - 1), MaxIndex(i - 1))
        BY <1>1, <4>1, <4>3 DEF Follower
      <4> QED BY <1>1, <1>4, <3>1, <4>2, <4>4 DEF FollowerOK, Follower
    <3>2. CASE ~(i > 1)
      BY <3>2 DEF FollowerOK
    <3> QED BY <3>1, <3>2
  <2> QED BY <2>1, <2>2
<1> QED
  BY <1>1, <1>5, <1>6 DEF NamesOK

\* Trees that load in step are loaded with their names.
LEMMA NamesLoaded ==
    ASSUME LoadsInStep(Keys), Init
    PROVE  NamesOK
<1>1. key \in Keys /\ at = "idle" /\ Levels \in Nat \ {0} /\ Bottom = Levels
  BY Numbers DEF Init, Bottom
<1>2. PICK c \in Nat : tree = LoadedTrees(c) /\ signed = LoadedSigned(c)
  <2>1. Levels \in Nat /\ 1 \in 1 .. (Levels + 1)
    BY <1>1
  <2>2. 0 .. (Capacity(1) - 1) \subseteq Nat
    BY <1>1, <2>1, Numbers
  <2> QED BY <2>2 DEF Init, Load
<1>3. \A i \in 1 .. Levels : Digit(c, i) \in 0 .. MaxIndex(i) /\ MaxIndex(i) = Leaves(i) - 1
                             /\ Leaves(i) \in Nat
  BY <1>1, DigitsOfCount, LevelNumbers
<1>4. \A i \in 1 .. Levels :
         /\ tree[i].I = Path(c, i)
         /\ tree[i].I_next = IF i = 1 THEN Unset
                             ELSE Follower(tree[i - 1], Digit(c, i - 1), MaxIndex(i))
  BY <1>1, <1>2, LoadedNames, Zenon
<1>5. ASSUME NEW i \in 1 .. Levels PROVE Leaf(i) = Digit(c, i)
  <2>1. tree[i].current_index = Digit(c, i) + (IF i = Bottom THEN 0 ELSE 1)
    BY <1>2 DEF LoadedTrees
  <2>2. Digit(c, i) \in Nat
    BY <1>3
  <2> QED BY <1>1, <2>1, <2>2 DEF Leaf
<1>6. ASSUME NEW i \in 1 .. Levels PROVE PathOK(i) /\ FollowerOK(i)
  <2>1. \A k \in 1 .. (i - 1) : Leaf(k) = Digit(c, k)
    BY <1>1, <1>5
  <2>2. PathOK(i)
    BY <1>4, <2>1 DEF PathOK, Path
  <2>3. ASSUME i > 1, i = 2 => Leaf(1) # MaxIndex(1)
        PROVE  tree[i].I_next = Follower(tree[i - 1], Leaf(i - 1), MaxIndex(i - 1))
    <3>1. i - 1 \in 1 .. Levels /\ i \in 2 .. Len(key.height) /\ i # 1
      BY <1>1, <2>3 DEF Levels
    <3>2. tree[i].I_next = Follower(tree[i - 1], Leaf(i - 1), MaxIndex(i))
      BY <1>4, <1>5, <3>1
    <3>3. Leaf(i - 1) = MaxIndex(i) <=> Leaf(i - 1) = MaxIndex(i - 1)
      <4>1. CASE i = 2
        <5>1. key.height[1] <= key.height[2]
          BY <1>1, <3>1, <4>1 DEF LoadsInStep
        <5>2. 1 \in 1 .. Levels /\ 2 \in 1 .. Levels
          BY <1>1, <3>1, <4>1
        <5>3. Leaves(1) <= Leaves(2)
          <6>0. key.height[1] \in 1 .. 25 /\ key.height[2] \in 1 .. 25
            BY <1>1, <5>2, KeyFields DEF MaxMerkleHeight
          <6>1. PICK a \in Nat, b \in Nat :
                   /\ a = key.height[1] /\ b = key.height[2] /\ a <= b
                   /\ b <= MaxMerkleHeight /\ a \in 0 .. MaxMerkleHeight
                   /\ b \in 0 .. MaxMerkleHeight
            BY <5>1, <6>0 DEF MaxMerkleHeight
          <6>2. Power[a] \in Nat /\ Power[b] \in Nat
            BY <6>1, PowerNat
          <6>3. a < b => Power[a] < Power[b]
            BY <6>1, PowerLess
          <6>4. Power[a] <= Power[b]
            BY <6>1, <6>2, <6>3
          <6> QED BY <6>1, <6>4 DEF Leaves
        <5>4. Leaf(1) \in 0 .. MaxIndex(1) /\ MaxIndex(1) = Leaves(1) - 1
              /\ MaxIndex(2) = Leaves(2) - 1 /\ Leaves(1) \in Nat /\ Leaves(2) \in Nat
          BY <1>3, <1>5, <5>2
        <5>5. Leaf(1) # MaxIndex(1)
          BY <2>3, <4>1
        <5>6. Leaf(1) # MaxIndex(2)
          BY <5>3, <5>4, <5>5
        <5>7. i - 1 = 1
          BY <4>1
        <5> QED BY <4>1, <5>5, <5>6, <5>7
      <4>2. CASE i # 2
        <5>1. key.height[i - 1] = key.height[i]
          BY <1>1, <3>1, <4>2 DEF LoadsInStep
        <5>2. MaxIndex(i - 1) = MaxIndex(i)
          BY <5>1 DEF MaxIndex, Leaves
        <5> QED BY <5>2
      <4> QED BY <4>1, <4>2
    <3> QED BY <3>2, <3>3 DEF Follower
  <2>4. FollowerOK(i)
    BY <2>3 DEF FollowerOK
  <2> QED BY <2>2, <2>4
<1>7. SignedOK
  <2>1. ASSUME NEW i \in 2 .. Levels
        PROVE  Link(Path(c, i - 1), Digit(c, i - 1), Path(c, i)) =
               Link(tree[i - 1].I, Leaf(i - 1), tree[i].I)
    <3>1. i - 1 \in 1 .. Levels /\ i \in 1 .. Levels
      BY <1>1
    <3> QED BY <1>4, <1>5, <3>1
  <2>2. signed = [i \in 2 .. Levels |-> Link(Path(c, i - 1), Digit(c, i - 1), Path(c, i))]
    BY <1>2 DEF LoadedSigned
  <2> QED BY <2>1, <2>2 DEF SignedOK
<1> QED
  BY <1>6, <1>7 DEF NamesOK

-----------------------------------------------------------------------------
\* The leaves that lead to a tree, and the one that signs the tree below.
LEMMA AppendPath ==
    ASSUME NEW n \in Nat, NEW d, \A k \in 1 .. (n + 1) : d[k] \in Int
    PROVE  Append([k \in 1 .. n |-> d[k]], d[n + 1]) = [k \in 1 .. (n + 1) |-> d[k]]
<1> DEFINE s == [k \in 1 .. n |-> d[k]]
<1>1. s \in Seq(Int) /\ Len(s) = n /\ \A k \in 1 .. n : s[k] = d[k]
  OBVIOUS
<1> HIDE DEF s
<1>2. Append(s, d[n + 1]) = [k \in 1 .. (n + 1) |-> d[k]]
  <2>1. Append(s, d[n + 1]) = [k \in 1 .. (n + 1) |-> IF k = n + 1 THEN d[n + 1] ELSE s[k]]
    BY <1>1
  <2>2. \A k \in 1 .. (n + 1) : (IF k = n + 1 THEN d[n + 1] ELSE s[k]) = d[k]
    BY <1>1
  <2> QED BY <2>1, <2>2
<1> QED
  BY <1>2 DEF s

\* The leaves that sign next are those below which the exchanged trees stand.
LEMMA PathsExchanged ==
    ASSUME IInv, NamesOK, Finish, NEW f \in 2 .. Levels, NEW p \in 1 .. Levels,
           at # "expired", LastLeaves(f, p), Exchanged(f, p)
    PROVE  /\ \A k \in 1 .. Levels : Leaf(k)' \in Nat
           /\ \A k \in 1 .. (p - 1) : Leaf(k)' = Leaf(k)
           /\ \A i \in 1 .. Levels : PathOK(i)'
<1>1. key \in Keys /\ key' = key /\ Levels \in Nat \ {0} /\ Bottom = Levels
  BY FinishTypes, Numbers DEF IInv, TypesOK, Bottom
<1>2. Levels' = Levels /\ Bottom' = Bottom
  BY <1>1, KeyStays
<1>3. \A i \in 1 .. Levels : PathOK(i) /\ FollowerOK(i) /\ Leaf(i) \in Nat
                             /\ MaxIndex(i) = Leaves(i) - 1 /\ Leaves(i) \in Nat
  <2>1. \A i \in 1 .. Levels : PathOK(i) /\ FollowerOK(i) /\ LeafOK(i)
    BY DEF NamesOK, IInv, LevelOK
  <2> QED BY <1>1, <2>1, LevelNumbers DEF LeafOK
<1>4. f = p + 1 /\ Leaf(p) + 1 < Leaves(p) /\ \A i \in f .. Levels : Leaf(i) + 1 = Leaves(i)
  BY DEF LastLeaves
<1>5. ASSUME NEW k \in 1 .. (p - 1) PROVE Leaf(k)' = Leaf(k)
  <2>1. k \in 1 .. Levels /\ k # Bottom /\ k # Bottom'
    BY <1>1, <1>2, <1>4
  <2>2. tree'[k] = tree[k]
    BY DEF Exchanged
  <2> QED BY <2>1, <2>2 DEF Leaf
<1>6. Leaf(p)' = Leaf(p) + 1 /\ \A k \in f .. Levels : Leaf(k)' = 0
  BY DEF Exchanged
<1>7. ASSUME NEW k \in 1 .. Levels PROVE Leaf(k)' \in Nat
  <2>1. k \in 1 .. (p - 1) \/ k = p \/ k \in f .. Levels
    BY <1>1, <1>4
  <2> QED BY <1>3, <1>5, <1>6, <2>1
<1>8. PICK d : d = [k \in 1 .. Levels |-> Leaf(k)']
  OBVIOUS
<1>9. \A k \in 1 .. Levels : d[k] = Leaf(k)' /\ d[k] \in Int
  BY <1>7, <1>8
<1>10. ASSUME NEW i \in 1 .. p PROVE tree'[i].I = [k \in 1 .. (i - 1) |-> d[k]]
  <2>1. tree'[i].I = tree[i].I
    BY <1>1 DEF Exchanged
  <2>2. tree[i].I = [k \in 1 .. (i - 1) |-> Leaf(k)]
    BY <1>1, <1>3 DEF PathOK
  <2>3. \A k \in 1 .. (i - 1) : k \in 1 .. (p - 1) /\ k \in 1 .. Levels
    BY <1>1
  <2>4. \A k \in 1 .. (i - 1) : Leaf(k) = d[k]
    BY <1>5, <1>9, <2>3
  <2> QED BY <2>1, <2>2, <2>4
<1>11. ASSUME NEW i \in f .. Levels, tree'[i - 1].I = [k \in 1 .. (i - 2) |-> d[k]]
       PROVE  tree'[i].I = [k \in 1 .. (i - 1) |-> d[k]]
  <2>1. /\ i \in 1 .. Levels /\ i - 1 \in 1 .. Levels /\ i > 1 /\ i - 1 \in Nat /\ i - 2 \in Nat
        /\ (i - 2) + 1 = i - 1
    BY <1>1, <1>4
  <2>2. tree'[i].I = tree[i].I_next
    BY DEF Exchanged
  <2>3. tree'[i].I = Append(tree'[i - 1].I, Leaf(i - 1)')
    <3>1. CASE i = f
      <4>1. i - 1 = p
        BY <1>4, <3>1
      <4>2. Leaf(p) # MaxIndex(p)
        BY <1>3, <1>4
      <4>3. i = 2 => Leaf(1) # MaxIndex(1)
        BY <4>1, <4>2
      <4>4. tree[i].I_next = Follower(tree[i - 1], Leaf(i - 1), MaxIndex(i - 1))
        BY <1>3, <2>1, <4>3 DEF FollowerOK
      <4>5. tree[i].I_next = Append(tree[p].I, Leaf(p) + 1)
        BY <4>1, <4>2, <4>4 DEF Follower
      <4>6. tree'[p].I = tree[p].I
        BY DEF Exchanged
      <4> QED BY <1>6, <2>2, <4>1, <4>5, <4>6
    <3>2. CASE i # f
      <4>1. i - 1 \in f .. Levels /\ i # 2
        BY <1>1, <1>4, <2>1, <3>2
      <4>2. tree[i].I_next = Follower(tree[i - 1], Leaf(i - 1), MaxIndex(i - 1))
        BY <1>3, <2>1, <4>1 DEF FollowerOK
      <4>3. Leaf(i - 1) = MaxIndex(i - 1)
        BY <1>3, <1>4, <2>1, <4>1
      <4>4. tree[i].I_next = Append(tree[i - 1].I_next, 0)
        BY <4>2, <4>3 DEF Follower
      <4>5. tree'[i - 1].I = tree[i - 1].I_next
        BY <4>1 DEF Exchanged
      <4> QED BY <1>6, <2>2, <4>1, <4>4, <4>5
    <3> QED BY <3>1, <3>2
  <2>4. Leaf(i - 1)' = d[i - 1]
    BY <1>9, <2>1
  <2>5. PICK n \in Nat : n = i - 2 /\ n + 1 = i - 1
    BY <2>1
  <2>6. \A k \in 1 .. (n + 1) : d[k] \in Int
    <3>1. \A k \in 1 .. (n + 1) : k \in 1 .. Levels
      BY <1>1, <2>1, <2>5
    <3> QED BY <1>9, <3>1
  <2>7. Append([k \in 1 .. n |-> d[k]], d[n + 1]) = [k \in 1 .. (n + 1) |-> d[k]]
    BY <2>6, AppendPath
  <2>8. tree'[i - 1].I = [k \in 1 .. n |-> d[k]]
    BY <1>11, <2>5
  <2> QED BY <2>3, <2>4, <2>5, <2>7, <2>8
<1>12. \A i \in 1 .. Levels : tree'[i].I = [k \in 1 .. (i - 1) |-> d[k]]
  <2> DEFINE G == {i \in 0 .. Levels : i >= 1 => tree'[i].I = [k \in 1 .. (i - 1) |-> d[k]]}
  <2>1. 0 \in G
    BY <1>1
  <2>2. ASSUME NEW i \in 1 .. Levels, i - 1 \in G PROVE i \in G
    <3>1. i \in 1 .. p \/ (i \in f .. Levels /\ i - 1 >= 1 /\ (i - 1) - 1 = i - 2)
      BY <1>1, <1>4
    <3>2. CASE i \in 1 .. p
      BY <1>1, <1>10, <3>2
    <3>3. CASE i \in f .. Levels /\ i - 1 >= 1 /\ (i - 1) - 1 = i - 2
      <4>1. tree'[i - 1].I = [k \in 1 .. ((i - 1) - 1) |-> d[k]]
        BY <2>2, <3>3
      <4>2. tree'[i].I = [k \in 1 .. (i - 1) |-> d[k]]
        BY <1>11, <3>3, <4>1
      <4> QED BY <1>1, <4>2
    <3> QED BY <3>1, <3>2, <3>3
  <2> HIDE DEF G
  <2>3. \A i \in 0 .. Levels : i \in G
    BY <1>1, <2>1, <2>2, UpToN
  <2> QED BY <1>1, <2>3 DEF G
<1>13. ASSUME NEW i \in 1 .. Levels PROVE PathOK(i)'
  <2>1. \A k \in 1 .. (i - 1) : Leaf(k)' = d[k]
    BY <1>1, <1>9
  <2>2. tree'[i].I = [k \in 1 .. (i - 1) |-> Leaf(k)']
    BY <1>12, <2>1
  <2> QED BY <2>2 DEF PathOK
<1> QED
  BY <1>5, <1>7, <1>13

\* Names are kept when trees are exchanged.
LEMMA NamesFinish ==
    ASSUME IInv, NamesOK, Finish
    PROVE  NamesOK'
<1>1. key \in Keys /\ key' = key /\ Levels \in Nat \ {0} /\ Bottom = Levels
  BY FinishTypes, Numbers DEF IInv, TypesOK, Bottom
<1>2. /\ Levels' = Levels /\ Bottom' = Bottom
      /\ \A i : MaxIndex(i)' = MaxIndex(i)
  BY <1>1, KeyStays
<1>3. at = "waiting" /\ at # "expired"
  BY DEF Finish
<1>4. CASE UsedUp(1)
  <2>1. at' = "expired"
    BY <1>4, FinishTypes
  <2> QED BY <2>1 DEF NamesOK
<1>5. CASE ~UsedUp(1)
  <2>1. PICK f \in 2 .. (Levels + 1), p \in 1 .. Levels : LastLeaves(f, p) /\ Exchanged(f, p)
    BY <1>5, FinishLevels
  <2>2. f = FirstSwitched /\ f = p + 1
    BY <2>1 DEF LastLeaves
  <2>3. CASE f > Levels
    <3>1. tree' = tree /\ signed' = signed
      BY <2>2, <2>3 DEF Finish
    <3> QED BY <1>1, <1>3, <3>1, NamesStay
  <2>4. CASE ~(f > Levels)
    <3>1. f \in 2 .. Levels /\ tree' = SwitchedTrees(f) /\ signed' = SwitchedSigned(f)
      BY <1>1, <2>2, <2>4 DEF Finish
    <3>2. /\ \A k \in 1 .. Levels : Leaf(k)' \in Nat
          /\ \A k \in 1 .. (p - 1) : Leaf(k)' = Leaf(k)
          /\ \A i \in 1 .. Levels : PathOK(i)'
      BY <1>3, <2>1, <3>1, PathsExchanged
    <3>3. /\ Leaf(p)' = Leaf(p) + 1 /\ \A k \in f .. Levels : Leaf(k)' = 0
          /\ \A i \in 1 .. (p - 1) : tree'[i] = tree[i]
          /\ tree'[p].I = tree[p].I /\ tree'[p].I_next = tree[p].I_next
      BY <2>1 DEF Exchanged
    <3>4. \A i \in 1 .. Levels : FollowerOK(i) /\ (i < Bottom => Leaf(i) = tree[i].current_index - 1)
      <4>1. \A i \in 1 .. Levels : FollowerOK(i)
        BY <1>3 DEF NamesOK
      <4> QED BY <4>1 DEF Leaf
    <3>5. \A i \in 1 .. Levels : i < Bottom => Leaf(i)' = tree'[i].current_index - 1
      <4>1. \A i \in 1 .. Levels : i < Bottom => i # Bottom'
        BY <1>1, <1>2
      <4> QED BY <4>1 DEF Leaf
    <3>6. /\ tree'[f - 1].I = tree[f - 1].I /\ tree'[f - 1].I_next = tree[f - 1].I_next
          /\ \A i \in f .. Levels :
                tree'[i].I_next = Follower(tree'[i - 1], IndexAt(f, i), MaxIndex(i - 1))
      BY <1>1, <3>1, SwitchedNames
    <3>7. ASSUME NEW i \in 1 .. Levels PROVE FollowerOK(i)'
      <4>1. CASE i = 1
        BY <4>1 DEF FollowerOK
      <4>2. CASE i > 1 /\ i < f
        <5>1. i - 1 \in 1 .. (p - 1) /\ i - 1 \in 1 .. Levels
          BY <1>1, <2>2, <4>2
        <5>2. tree'[i - 1] = tree[i - 1] /\ Leaf(i - 1)' = Leaf(i - 1)
          BY <3>2, <3>3, <5>1
        <5>3. i \in 1 .. (p - 1) \/ i = p
          BY <1>1, <2>2, <4>2
        <5>4. tree'[i].I_next = tree[i].I_next
          BY <3>3, <5>3
        <5>5. i = 2 => Leaf(1)' = Leaf(1)
          BY <5>2
        <5>6. (i = 2 => Leaf(1) # MaxIndex(1)) =>
                 tree[i].I_next = Follower(tree[i - 1], Leaf(i - 1), MaxIndex(i - 1))
          BY <3>4, <4>2 DEF FollowerOK
        <5>7. (i = 2 => Leaf(1)' # MaxIndex(1)) =>
                 tree'[i].I_next = Follower(tree'[i - 1], Leaf(i - 1)', MaxIndex(i - 1))
          BY <5>2, <5>4, <5>5, <5>6
        <5> QED BY <1>2, <5>7 DEF FollowerOK, Follower
      <4>3. CASE i >= f
        <5>1. i \in f .. Levels /\ i - 1 \in 1 .. Levels
          BY <1>1, <3>1, <4>3
        <5>2. IndexAt(f, i) = Leaf(i - 1)'
          <6>1. CASE i = f
            <7>1. i - 1 = p /\ p < Bottom /\ f - 1 = p
              BY <1>1, <2>2, <3>1, <6>1
            <7>2. Leaf(p)' = tree[p].current_index
              <8>1. tree[p].current_index \in Nat
                BY <1>1 DEF IInv, TypesOK, Trees
              <8> QED BY <3>3, <3>4, <7>1, <8>1
            <7> QED BY <6>1, <7>1, <7>2 DEF IndexAt
          <6>2. CASE i # f
            <7>1. i - 1 \in f .. Levels
              BY <1>1, <5>1, <6>2
            <7> QED BY <3>3, <6>2, <7>1 DEF IndexAt
          <6> QED BY <6>1, <6>2
        <5>3. tree'[i].I_next = Follower(tree'[i - 1], Leaf(i - 1)', MaxIndex(i - 1))
          BY <3>6, <5>1, <5>2
        <5> QED BY <1>2, <5>3 DEF FollowerOK, Follower
      <4> QED BY <1>1, <3>1, <4>1, <4>2, <4>3
    <3>8. SignedOK'
      <4>1. signed = [i \in 2 .. Levels |-> Link(tree[i - 1].I, Leaf(i - 1), tree[i].I)]
        BY <1>3 DEF NamesOK, SignedOK
      <4>2. signed' = [i \in 2 .. Levels |->
                         IF i < f THEN signed[i]
                         ELSE Link(tree'[i - 1].I, tree'[i - 1].current_index - 1, tree'[i].I)]
        BY <3>1 DEF SwitchedSigned
      <4>3. ASSUME NEW i \in 2 .. Levels
            PROVE  (IF i < f THEN signed[i]
                    ELSE Link(tree'[i - 1].I, tree'[i - 1].current_index - 1, tree'[i].I)) =
                   Link(tree'[i - 1].I, Leaf(i - 1)', tree'[i].I)
        <5>1. i - 1 \in 1 .. Levels /\ i - 1 < Bottom
          BY <1>1
        <5>2. CASE i < f
          <6>1. i - 1 \in 1 .. (p - 1) /\ (i \in 1 .. (p - 1) \/ i = p)
            BY <1>1, <2>2, <5>2
          <6>2. tree'[i - 1] = tree[i - 1] /\ Leaf(i - 1)' = Leaf(i - 1) /\ tree'[i].I = tree[i].I
            BY <3>2, <3>3, <6>1
          <6>3. signed[i] = Link(tree[i - 1].I, Leaf(i - 1), tree[i].I)
            BY <4>1
          <6> QED BY <5>2, <6>2, <6>3
        <5>3. CASE ~(i < f)
          BY <3>5, <5>1, <5>3
        <5> QED BY <5>2, <5>3
      <4>4. signed' = [i \in 2 .. Levels |-> Link(tree'[i - 1].I, Leaf(i - 1)', tree'[i].I)]
        BY <4>2, <4>3
      <4> QED BY <1>2, <4>4 DEF SignedOK, Link
    <3> QED BY <1>2, <3>2, <3>7, <3>8 DEF NamesOK
  <2> QED BY <1>1, <2>3, <2>4
<1> QED
  BY <1>4, <1>5

\* Until a signature is finished no tree changes its name, and only the bottom tree
\* advances, when it signs.
LEMMA TreesKept ==
    ASSUME IInv, [Next]_vars, ~Finish
    PROVE  /\ key' = key /\ signed' = signed /\ (Sign \/ signature' = signature)
           /\ \A i \in 1 .. Levels :
                 /\ tree[i].current_index \in Nat /\ tree'[i].current_index \in Nat
                 /\ tree'[i].I = tree[i].I /\ tree'[i].I_next = tree[i].I_next
                 /\ i # Bottom \/ ~Sign => tree'[i].current_index = tree[i].current_index
                 /\ i = Bottom /\ Sign => tree'[i].current_index = tree[i].current_index + 1
<1>1. key \in Keys /\ TypesOK /\ Levels \in Nat \ {0} /\ Bottom = Levels
  BY Numbers DEF IInv, TypesOK, Bottom
<1>2. \A i \in 1 .. Levels : tree[i] \in Trees /\ tree[i].current_index \in Nat
  BY <1>1 DEF TypesOK, Trees
<1>3. CASE Sign
  <2>1. key' = key /\ signed' = signed /\ tree' = [tree EXCEPT ![Bottom].current_index = @ + 1]
    BY <1>3 DEF Sign
  <2>2. ASSUME NEW i \in 1 .. Levels
        PROVE  /\ tree'[i].I = tree[i].I /\ tree'[i].I_next = tree[i].I_next
               /\ i # Bottom => tree'[i].current_index = tree[i].current_index
               /\ i = Bottom => tree'[i].current_index = tree[i].current_index + 1
    <3> DEFINE b == [tree[Bottom] EXCEPT !.current_index = tree[Bottom].current_index + 1]
    <3>1. tree \in [1 .. Levels -> Trees] /\ Bottom \in 1 .. Levels
      BY <1>1 DEF TypesOK
    <3>2. tree' = [tree EXCEPT ![Bottom] = b]
      BY <2>1
    <3>3. /\ b.current_index = tree[Bottom].current_index + 1
          /\ b.I = tree[Bottom].I /\ b.I_next = tree[Bottom].I_next
      <4>1. PICK r : r = tree[Bottom] /\ r \in Trees
        BY <3>1
      <4>2. b = [r EXCEPT !.current_index = r.current_index + 1]
        BY <4>1
      <4> HIDE DEF b
      <4> QED BY <4>1, <4>2 DEF Trees
    <3> HIDE DEF b
    <3>4. tree'[i] = IF i = Bottom THEN b ELSE tree[i]
      BY <3>1, <3>2
    <3> QED BY <3>3, <3>4
  <2>3. \A i \in 1 .. Levels : tree'[i].current_index \in Nat
    BY <1>2, <2>2
  <2> QED BY <1>2, <1>3, <2>1, <2>2, <2>3
<1>4. CASE UpdateParent
  <2>1. /\ key' = key /\ signed' = signed /\ signature' = signature /\ jobs' = jobs \ {<<"parent">>}
        /\ tree' = [i \in 1 .. Levels |->
                      IF i \in Updated .. (Bottom - 1)
                      THEN [tree[i] EXCEPT !.update_count = UpdateCountAfter(i)] ELSE tree[i]]
    BY <1>4 DEF UpdateParent, Took
  <2>2. ASSUME NEW i \in 1 .. Levels
        PROVE  /\ tree'[i].I = tree[i].I /\ tree'[i].I_next = tree[i].I_next
               /\ tree'[i].current_index = tree[i].current_index
    <3> DEFINE c == UpdateCountAfter(i)
               r == tree[i]
    <3>1. r \in Trees
      BY <1>2
    <3>2. tree'[i] = r \/ tree'[i] = [r EXCEPT !.update_count = c]
      BY <2>1
    <3> HIDE DEF c, r
    <3>3. tree'[i].I = r.I /\ tree'[i].I_next = r.I_next /\ tree'[i].current_index = r.current_index
      BY <3>1, <3>2 DEF Trees
    <3> QED BY <3>3 DEF r
  <2>3. ~Sign
    <3>1. <<"parent">> \in jobs /\ <<"sign">> # <<"parent">>
      BY <1>4, JobNames DEF UpdateParent, Took
    <3>2. <<"parent">> \notin jobs'
      BY <2>1
    <3> QED BY <3>1, <3>2 DEF Sign, Took
  <2> QED BY <1>2, <2>1, <2>2, <2>3
<1>5. CASE ~Sign /\ ~UpdateParent
  <2>1. key' = key /\ signed' = signed /\ signature' = signature /\ tree' = tree
    BY <1>5 DEF Next, StartSignature, Issue, Expired, StepBottomNext, StepBottomBuilding, vars
  <2> QED BY <1>2, <1>5, <2>1
<1> QED
  BY <1>3, <1>4, <1>5

\* Every step of the program keeps the names.
LEMMA NextKeepsNames ==
    ASSUME IInv, NamesOK, [Next]_vars
    PROVE  NamesOK'
<1>1. CASE Finish
  BY <1>1, NamesFinish
<1>2. CASE ~Finish /\ at = "expired"
  <2>1. jobs = {}
    BY <1>2 DEF IInv, JobsOK
  <2>2. at' = "expired"
    BY <1>2, <2>1 DEF Next, StartSignature, Issue, Expired, Sign, StepBottomNext,
                      StepBottomBuilding, UpdateParent, Took, vars
  <2> QED BY <2>2 DEF NamesOK
<1>3. CASE ~Finish /\ at # "expired"
  <2>1. key \in Keys
    BY DEF IInv, TypesOK
  <2>2. /\ key' = key /\ signed' = signed
        /\ \A i \in 1 .. Levels :
              /\ tree'[i].I = tree[i].I /\ tree'[i].I_next = tree[i].I_next
              /\ i # Bottom => tree'[i].current_index = tree[i].current_index
    BY <1>3, TreesKept
  <2> QED BY <1>3, <2>1, <2>2, NamesStay
<1> QED
  BY <1>1, <1>2, <1>3

-----------------------------------------------------------------------------
(* Implementation of HssSignatures.                                        *)

\* The numbers of the abstract specification are those of the working key.
LEMMA AbstractNumbers ==
    ASSUME key \in Keys
    PROVE  /\ Abstract!Levels = Levels
           /\ \A i \in 1 .. (Levels + 1) : Abstract!Span(i) = Capacity(i)
           /\ \A c : \A i \in 1 .. Levels :
                 Abstract!Digit(c, i) = (c % Capacity(i)) \div Capacity(i + 1)
<1>1. Levels \in Nat \ {0}
  BY Numbers
<1> DEFINE s == [i \in 1 .. Levels |-> Leaves(i)]
<1>2. Len(s) = Levels /\ \A i \in 1 .. Levels : s[i] = Leaves(i)
  BY <1>1
<1>3. Abstract!Levels = Levels
  BY <1>2 DEF Abstract!Levels
<1>4. Abstract!Spans = CHOOSE f : f = [i \in 1 .. (Levels + 1) |->
                                         IF i > Levels THEN 1 ELSE s[i] * f[i + 1]]
  BY <1>3 DEF Abstract!Spans
<1> HIDE DEF s
<1>5. ASSUME NEW f
      PROVE  f = [i \in 1 .. (Levels + 1) |-> IF i > Levels THEN 1 ELSE s[i] * f[i + 1]]
             <=> AreCapacities(f, 1)
  <2>1. \A i \in 1 .. (Levels + 1) : (IF i > Levels THEN 1 ELSE s[i] * f[i + 1]) =
                                     (IF i > Levels THEN 1 ELSE Leaves(i) * f[i + 1])
    BY <1>1, <1>2
  <2> QED BY <2>1 DEF AreCapacities
<1>6. Abstract!Spans = CHOOSE f : AreCapacities(f, 1)
  BY <1>4, <1>5
<1>7. Capacities = CHOOSE f : AreCapacities(f, 1)
  BY DEF Capacities, AreCapacities
<1>8. \A i : Abstract!Span(i) = Capacity(i)
  BY <1>6, <1>7 DEF Abstract!Span, Capacity
<1> QED
  BY <1>3, <1>8 DEF Abstract!Digit

\* The abstract digits of the value of digits are these digits.
LEMMA AbstractDigits ==
    ASSUME key \in Keys, NEW d, AreDigits(d)
    PROVE  \A i \in 1 .. Levels :
              /\ Abstract!Digit(Value(d), i) = d[i]
              /\ Abstract!Digits(Value(d), i) = [k \in 1 .. i |-> d[k]]
              /\ Abstract!Digits(Value(d), i - 1) = [k \in 1 .. (i - 1) |-> d[k]]
<1>1. Levels \in Nat \ {0}
  BY Numbers
<1>2. \A i \in 1 .. Levels : Abstract!Digit(Value(d), i) = d[i]
  BY AbstractNumbers, DigitOfValue
<1>3. ASSUME NEW n \in 0 .. Levels
      PROVE  Abstract!Digits(Value(d), n) = [k \in 1 .. n |-> d[k]]
  <2>1. \A k \in 1 .. n : Abstract!Digit(Value(d), k) = d[k]
    BY <1>1, <1>2
  <2> QED BY <2>1 DEF Abstract!Digits
<1> QED
  BY <1>1, <1>2, <1>3

\* The number of leaves of each level never changes.
LEMMA LeavesStay ==
    ASSUME key' = key
    PROVE  [i \in 1 .. Levels |-> Leaves(i)]' = [i \in 1 .. Levels |-> Leaves(i)]
BY KeyStays

\* The count before a signature is that of the leaves that are about to make it.
LEMMA CountOfLeaves ==
    ASSUME IInv, at # "expired", at = "idle" \/ <<"sign">> \in jobs
    PROVE  /\ AreDigits(Digits) /\ Count = Value(Digits)
           /\ \A i \in 1 .. Levels :
                 Digits[i] = Leaf(i)
                 /\ tree[i].current_index = Leaf(i) + (IF i = Bottom THEN 0 ELSE 1)
<1>1. key \in Keys /\ TypesOK /\ Levels \in Nat \ {0} /\ Bottom = Levels
  BY Numbers DEF IInv, TypesOK, Bottom
<1>3. \A i \in 1 .. Levels : LeafOK(i) /\ Leaf(i) \in 0 .. (Leaves(i) - 1) /\ Leaves(i) \in Nat
  BY <1>1, LevelNumbers DEF IInv, LevelOK, LeafOK
<1>4. \A i \in 1 .. Levels : tree[i].current_index \in Nat
  BY <1>1 DEF TypesOK, Trees
<1>5. \A i \in 1 .. Levels :
         /\ tree[i].current_index = Leaf(i) + (IF i = Bottom THEN 0 ELSE 1)
         /\ Leaf(i) = tree[i].current_index - (IF i = Bottom THEN 0 ELSE 1)
  BY <1>4 DEF Leaf
<1>6. Digits = Indices
  BY <1>5 DEF Digits, Indices
<1> QED
  BY <1>1, <1>3, <1>4, <1>5, <1>6, CountValue DEF AreDigits, Digits

\* Digits number the signatures of the key.
LEMMA ValueRange ==
    ASSUME key \in Keys, NEW d, AreDigits(d)
    PROVE  Value(d) \in 0 .. (Capacity(1) - 1)
<1>1. Levels \in Nat \ {0} /\ 1 \in 1 .. (Levels + 1) /\ 0 \in 0 .. Levels
  BY Numbers
<1>2. Low(d, 1) \in 0 .. (Capacity(1) - 1)
  BY <1>1, LowRange
<1>3. Values(d)[0] = 0
  BY <1>1, ValuesStep
<1>4. \A k \in 1 .. Levels : d[k] \in Nat
  BY Numbers DEF AreDigits
<1>5. Value(d) = Values(d)[1 - 1] * Capacity(1) + Low(d, 1)
  BY <1>1, <1>4, LowStep
<1>6. Capacity(1) \in Nat /\ 1 - 1 = 0
  BY <1>1, Numbers
<1>7. 0 * Capacity(1) = 0
  BY <1>6
<1> QED
  BY <1>2, <1>3, <1>5, <1>6, <1>7

\* A key is loaded in an initial state of the abstract specification.
LEMMA InitImplements ==
    ASSUME Init
    PROVE  Abstract!Init
<1>1. IInv /\ at = "idle" /\ signature = <<>>
  BY InitOK DEF Init
<1>2. key \in Keys /\ Levels \in Nat \ {0} /\ \A i \in 1 .. Levels : Leaves(i) \in Nat \ {0}
  <2>1. key \in Keys
    BY <1>1 DEF IInv, TypesOK
  <2> QED BY <2>1, Numbers
<1>3. /\ [i \in 1 .. Levels |-> Leaves(i)] \in Seq(Nat \ {0})
      /\ [i \in 1 .. Levels |-> Leaves(i)] # <<>>
  <2>1. PICK s : s = [i \in 1 .. Levels |-> Leaves(i)]
    OBVIOUS
  <2>2. s \in [1 .. Levels -> Nat \ {0}]
    BY <1>2, <2>1
  <2>3. s \in Seq(Nat \ {0}) /\ Len(s) = Levels
    BY <1>2, <2>2
  <2>4. s # <<>>
    BY <1>2, <2>3
  <2> QED BY <2>1, <2>3, <2>4
<1>4. Count \in 0 .. (Capacity(1) - 1)
  BY <1>1, <1>2, CountOfLeaves, ValueRange
<1>5. Abstract!Span(1) = Capacity(1)
  BY <1>2, AbstractNumbers
<1> QED
  BY <1>1, <1>3, <1>4, <1>5 DEF Abstract!Init

\* Only signing changes the count: exchanging trees carries, which signing has counted.
LEMMA CountKept ==
    ASSUME IInv, [Next]_vars, ~Sign
    PROVE  Count' = Count
<1>1. key \in Keys /\ TypesOK /\ Levels \in Nat \ {0} /\ Bottom = Levels
  BY Numbers DEF IInv, TypesOK, Bottom
<1>2. \A i \in 1 .. Levels : tree[i].current_index \in Nat
  BY <1>1 DEF TypesOK, Trees
<1>3. ASSUME key' = key, \A i \in 1 .. Levels : tree'[i].current_index = tree[i].current_index
      PROVE  Count' = Count
  <2>1. PICK e : e = Indices
    OBVIOUS
  <2>2. Count = Value(e)
    BY <1>1, <1>2, <2>1, CountValue
  <2>3. \A i \in 1 .. Levels :
           /\ tree'[i].current_index \in Nat
           /\ e[i] = tree'[i].current_index - (IF i = Bottom THEN 0 ELSE 1)
    BY <1>2, <1>3, <2>1 DEF Indices
  <2>4. Count' = Value(e)
    BY <1>1, <1>3, <2>3, NextCountValue
  <2> QED BY <2>2, <2>4
<1>4. CASE ~Finish
  BY <1>3, <1>4, TreesKept
<1>5. CASE Finish
  <2>0. PICK d : d = Digits
    OBVIOUS
  <2>1. PICK f \in 2 .. (Levels + 1) : f = FirstSwitched /\ FirstFull(f, d)
    <3>1. at = "waiting" /\ jobs = {}
      BY <1>5 DEF Finish
    <3> QED BY <2>0, <3>1, CountAtEnd DEF FirstFull
  <2>2. /\ AreDigits(d) /\ Count = Value(d) + 1
        /\ \A i \in 1 .. Levels : tree[i].current_index = Leaf(i) + 1 /\ d[i] = Leaf(i)
                                  /\ d[i] \in Nat
    <3>1. at = "waiting" /\ jobs = {}
      BY <1>5 DEF Finish
    <3>2. AreDigits(d) /\ Count = Value(d) + 1
          /\ \A i \in 1 .. Levels : tree[i].current_index = Leaf(i) + 1
      BY <2>0, <3>1, CountAtEnd
    <3>3. \A i \in 1 .. Levels : d[i] = Leaf(i)
      BY <2>0 DEF Digits
    <3>4. \A i \in 1 .. Levels : d[i] \in Nat
      BY <1>1, <3>2, Numbers DEF AreDigits
    <3> QED BY <3>2, <3>3, <3>4
  <2>3. key' = key /\ tree' = IF f > Levels THEN tree ELSE SwitchedTrees(f)
    BY <1>5, <2>1, FinishTypes
  <2>4. CASE f > Levels
    BY <1>3, <2>3, <2>4
  <2>5. CASE ~(f > Levels)
    <3>1. f \in 2 .. Levels /\ f - 1 \in 1 .. Levels /\ tree' = SwitchedTrees(f)
      BY <1>1, <2>3, <2>5
    <3>2. PICK p \in 1 .. Levels : p = f - 1 /\ f = p + 1 /\ p < Bottom
      BY <1>1, <3>1
    <3>3. \A i \in 1 .. Levels :
             tree'[i].current_index =
                IF i < p THEN tree[i].current_index
                ELSE (IF i < f THEN tree[i].current_index ELSE 0) + (IF i < Bottom THEN 1 ELSE 0)
      <4>1. PICK t : t = SwitchedTrees(f)
        OBVIOUS
      <4>2. /\ \A i \in 1 .. Levels : i < f - 1 => t[i] = tree[i]
            /\ \A i \in (f - 1) .. Levels :
                  t[i] = [I |-> t[i].I, I_next |-> t[i].I_next,
                          current_index |-> (IF i < f THEN tree[i].current_index ELSE 0) +
                                            (IF i < Bottom THEN 1 ELSE 0),
                          update_count |-> IF i < Bottom THEN UPDATE_NEXT
                                           ELSE tree[i].update_count]
        BY <1>1, <3>1, <4>1, SwitchedNames
      <4>3. \A i \in (f - 1) .. Levels :
               t[i].current_index = (IF i < f THEN tree[i].current_index ELSE 0) +
                                    (IF i < Bottom THEN 1 ELSE 0)
        <5>1. ASSUME NEW i \in (f - 1) .. Levels
              PROVE  t[i].current_index = (IF i < f THEN tree[i].current_index ELSE 0) +
                                          (IF i < Bottom THEN 1 ELSE 0)
          <6>1. PICK n, u, x, y :
                   /\ n = (IF i < f THEN tree[i].current_index ELSE 0) +
                          (IF i < Bottom THEN 1 ELSE 0)
                   /\ u = (IF i < Bottom THEN UPDATE_NEXT ELSE tree[i].update_count)
                   /\ x = t[i].I /\ y = t[i].I_next
            OBVIOUS
          <6>2. t[i] = [I |-> x, I_next |-> y, current_index |-> n, update_count |-> u]
            BY <4>2, <6>1
          <6> QED BY <6>1, <6>2
        <5> QED BY <5>1
      <4>4. \A i \in 1 .. Levels : ~(i < p) => i \in (f - 1) .. Levels
        BY <1>1, <3>1, <3>2
      <4> QED BY <3>1, <3>2, <4>1, <4>2, <4>3, <4>4
    <3>4. PICK e : e = [i \in 1 .. Levels |->
                          IF i < p THEN d[i] ELSE IF i = p THEN d[p] + 1 ELSE 0]
      OBVIOUS
    <3>5. /\ \A i \in 1 .. (p - 1) : e[i] = d[i]
          /\ e[p] = d[p] + 1
          /\ \A i \in (p + 1) .. Levels : e[i] = 0
      BY <1>1, <3>2, <3>4
    <3>6. ASSUME NEW i \in 1 .. Levels
          PROVE  /\ tree'[i].current_index \in Nat
                 /\ e[i] = tree'[i].current_index - (IF i = Bottom THEN 0 ELSE 1)
      <4>1. CASE i < p
        <5>1. tree'[i].current_index = d[i] + 1 /\ i # Bottom /\ d[i] \in Nat
          BY <2>2, <3>2, <3>3, <4>1
        <5> QED BY <3>4, <4>1, <5>1
      <4>2. CASE i = p
        <5>1. tree'[i].current_index = (d[i] + 1) + 1 /\ i # Bottom /\ d[i] \in Nat
          BY <1>1, <2>2, <3>2, <3>3, <4>2
        <5> QED BY <3>5, <4>2, <5>1
      <4>3. CASE i > p
        <5>1. tree'[i].current_index = IF i < Bottom THEN 1 ELSE 0
          BY <3>2, <3>3, <4>3
        <5>2. i < Bottom \/ i = Bottom
          BY <1>1
        <5> QED BY <1>1, <3>4, <4>3, <5>1, <5>2
      <4> QED BY <1>1, <4>1, <4>2, <4>3
    <3>7. Full(d, p + 1)
      BY <1>1, <2>1, <3>2 DEF FirstFull
    <3>8. Value(e) = Value(d) + 1
      BY <1>1, <2>2, <3>5, <3>7, NextValue
    <3>9. Count' = Value(e)
      BY <1>1, <2>3, <3>6, NextCountValue
    <3> QED BY <2>2, <3>8, <3>9
  <2> QED BY <2>4, <2>5
<1> QED
  BY <1>4, <1>5

\* The job that signs takes the links of the count and counts them.
LEMMA SignImplements ==
    ASSUME IInv, NamesOK, Sign
    PROVE  Abstract!Sign
<1>1. key \in Keys /\ key' = key /\ TypesOK /\ Levels \in Nat \ {0} /\ Bottom = Levels
  BY Numbers DEF IInv, TypesOK, Bottom, Sign
<1>2. <<"sign">> \in jobs /\ at # "expired" /\ ~Finish
  <2>1. <<"sign">> \in jobs
    BY DEF Sign, Took
  <2> QED BY <2>1 DEF IInv, JobsOK, Finish
<1>3. PICK d : d = Digits
  OBVIOUS
<1>4. /\ AreDigits(d) /\ Count = Value(d)
      /\ \A i \in 1 .. Levels :
            d[i] = Leaf(i) /\ d[i] \in Nat
            /\ tree[i].current_index = d[i] + (IF i = Bottom THEN 0 ELSE 1)
  <2>1. /\ AreDigits(d) /\ Count = Value(d)
        /\ \A i \in 1 .. Levels :
              d[i] = Leaf(i) /\ tree[i].current_index = Leaf(i) + (IF i = Bottom THEN 0 ELSE 1)
    BY <1>2, <1>3, CountOfLeaves
  <2>2. \A i \in 1 .. Levels : d[i] \in Nat
    BY <1>1, <2>1, Numbers DEF AreDigits
  <2> QED BY <2>1, <2>2
<1>5. Count < Abstract!Span(1)
  <2>1. Abstract!Span(1) = Capacity(1) /\ Capacity(1) \in Nat
    BY <1>1, AbstractNumbers, Numbers
  <2> QED BY <1>1, <1>4, <2>1, ValueRange
<1>6. Count' = Count + 1
  <2>1. PICK e : e = [i \in 1 .. Levels |-> IF i = Levels THEN d[i] + 1 ELSE d[i]]
    OBVIOUS
  <2>2. \A i \in 1 .. Levels :
           /\ i # Bottom => tree'[i].current_index = tree[i].current_index
           /\ i = Bottom => tree'[i].current_index = tree[i].current_index + 1
    <3>1. [Next]_vars
      BY DEF Next
    <3> QED BY <1>2, <3>1, TreesKept
  <2>3. \A i \in 1 .. Levels :
           /\ tree'[i].current_index \in Nat
           /\ e[i] = tree'[i].current_index - (IF i = Bottom THEN 0 ELSE 1)
    BY <1>1, <1>4, <2>1, <2>2
  <2>4. Count' = Value(e)
    BY <1>1, <2>3, NextCountValue
  <2>5. /\ Full(d, Levels + 1) /\ Levels \in 1 .. Levels
        /\ \A i \in 1 .. (Levels - 1) : e[i] = d[i]
        /\ e[Levels] = d[Levels] + 1
        /\ \A i \in (Levels + 1) .. Levels : e[i] = 0
    BY <1>1, <2>1 DEF Full
  <2>6. Value(e) = Value(d) + 1
    BY <1>1, <1>4, <2>5, NextValue
  <2> QED BY <1>4, <2>4, <2>6
<1>7. signature' = Abstract!SignatureOf(Count)
  <2>1. signature' = [i \in 1 .. Levels |->
                        IF i < Levels THEN signed[i + 1]
                        ELSE Link(tree[i].I, tree[i].current_index, <<"message">>)]
    BY DEF Sign
  <2>2. SignedOK /\ \A i \in 1 .. Levels : PathOK(i)
    BY <1>2 DEF NamesOK
  <2>3. \A i \in 1 .. Levels : tree[i].I = [k \in 1 .. (i - 1) |-> d[k]]
    <3>1. ASSUME NEW i \in 1 .. Levels PROVE tree[i].I = [k \in 1 .. (i - 1) |-> d[k]]
      <4>1. \A k \in 1 .. (i - 1) : d[k] = Leaf(k)
        BY <1>1, <1>4
      <4> QED BY <2>2, <4>1 DEF PathOK
    <3> QED BY <3>1
  <2>4. ASSUME NEW i \in 1 .. Levels
        PROVE  (IF i < Levels THEN signed[i + 1]
                ELSE Link(tree[i].I, tree[i].current_index, <<"message">>)) =
               [by |-> Abstract!Digits(Count, i - 1), leaf |-> Abstract!Digit(Count, i),
                signs |-> IF i = Levels THEN <<"message">> ELSE Abstract!Digits(Count, i)]
    <3>1. /\ Abstract!Digits(Count, i - 1) = tree[i].I /\ Abstract!Digit(Count, i) = d[i]
          /\ Abstract!Digits(Count, i) = [k \in 1 .. i |-> d[k]]
      BY <1>1, <1>4, <2>3, AbstractDigits
    <3>2. CASE i < Levels
      <4>1. i + 1 \in 2 .. Levels /\ i + 1 \in 1 .. Levels /\ (i + 1) - 1 = i /\ i # Levels
        BY <1>1, <3>2
      <4>2. signed[i + 1] = Link(tree[(i + 1) - 1].I, Leaf((i + 1) - 1), tree[i + 1].I)
        BY <2>2, <4>1 DEF SignedOK
      <4>3. signed[i + 1] = Link(tree[i].I, d[i], tree[i + 1].I)
        BY <1>4, <4>1, <4>2
      <4>4. tree[i + 1].I = [k \in 1 .. i |-> d[k]]
        BY <2>3, <4>1
      <4> QED BY <3>1, <3>2, <4>1, <4>3, <4>4 DEF Link
    <3>3. CASE i = Levels
      <4>1. tree[i].current_index = d[i]
        BY <1>1, <1>4, <3>3
      <4> QED BY <1>1, <3>1, <3>3, <4>1 DEF Link
    <3> QED BY <1>1, <3>2, <3>3
  <2>5. Abstract!Levels = Levels
    BY <1>1, AbstractNumbers
  <2>6. signature' = [i \in 1 .. Levels |->
           [by |-> Abstract!Digits(Count, i - 1), leaf |-> Abstract!Digit(Count, i),
            signs |-> IF i = Levels THEN <<"message">> ELSE Abstract!Digits(Count, i)]]
    BY <2>1, <2>4
  <2> QED BY <2>5, <2>6 DEF Abstract!SignatureOf
<1> QED
  BY <1>1, <1>5, <1>6, <1>7, LeavesStay DEF Abstract!Sign

\* Every step makes the signature of the count or none.
LEMMA StepImplements ==
    ASSUME IInv, NamesOK, [Next]_vars
    PROVE  [Abstract!Sign]_(Abstract!vars)
<1>1. CASE Sign
  BY <1>1, SignImplements
<1>2. CASE ~Sign
  <2>1. Count' = Count
    BY <1>2, CountKept
  <2>2. key' = key /\ signature' = signature
    <3>1. CASE Finish
      BY <3>1 DEF Finish
    <3>2. CASE ~Finish
      BY <1>2, <3>2, TreesKept
    <3> QED BY <3>1, <3>2
  <2> QED BY <2>1, <2>2, LeavesStay DEF Abstract!vars
<1> QED
  BY <1>1, <1>2

\* Keys that load in step make the signatures of HssSignatures for all parameter sets:
\* whenever the key was loaded and in whatever order the jobs were carried out, each
\* signature consists of the links that its count determines.
THEOREM SignedByCount ==
    ASSUME LoadsInStep(Keys)
    PROVE  Spec => ImplementsHssSignatures
<1>1. Init => IInv /\ NamesOK /\ Abstract!Init
  BY InitOK, NamesLoaded, InitImplements
<1>2. IInv /\ NamesOK /\ [Next]_vars => (IInv /\ NamesOK)'
  BY NextKeepsIInv, NextKeepsNames
<1>3. IInv /\ NamesOK /\ [Next]_vars => [Abstract!Sign]_(Abstract!vars)
  BY StepImplements
<1> QED
  BY <1>1, <1>2, <1>3, PTL DEF Spec, ImplementsHssSignatures, Abstract!Spec
=============================================================================
