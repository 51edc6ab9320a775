--------------------------- MODULE SsitConfigProofs ---------------------------
(***************************************************************************)
(* Proofs about SsitConfig, for any number of slaves, any partitions, any  *)
(* sync points and any size of a chunk, whether the sync points match or   *)
(* not:                                                                    *)
(*   BarrierHolds    no slave is fed past a sync point before every slave  *)
(*                   has reached it and the master's part is out;          *)
(*   MasterFollows   no part of the master comes before every slave has    *)
(*                   reached the sync point it ends at;                    *)
(*   AllSent         with matching sync points nothing is left out.        *)
(***************************************************************************)
EXTENDS SsitConfig, FiniteSetTheorems, WellFoundedInduction, TLAPS

Chunk == [slr : 1 .. (NumSlaves + 1), from : Nat, size : Nat]

Shape ==
    /\ pdi \in [Slaves -> Files]
    /\ master \in 0 .. (MaxSyncs + 1)
    /\ turn \in 0 .. (NumSlaves + 1)
    /\ index \in [Slaves -> Nat]
    /\ inPart \in [Slaves -> Nat]
    /\ topSent \in [Slaves -> SUBSET Nat]
    /\ offset \in [Slaves -> Nat]
    /\ syncs \in [Slaves -> Nat]
    /\ eof \in [Slaves -> BOOLEAN]
    /\ masterSent \in Nat
    /\ common \in Nat
    /\ current \in Nat
    /\ last \in Nat
    /\ out \in Seq(Chunk)
    /\ status \in {"running", "done"}

\* The cursor of a slave: inside its partition, at its end only in the last one,
\* and at the place of the PDI that the offset gives.
CursorAt(s) ==
    /\ index[s] \in 1 .. Len(pdi[s].parts)
    /\ offset[s] = BytesOfFirst(pdi[s].parts)[index[s] - 1] + inPart[s]
    /\ inPart[s] <= Part(s).size
    /\ HasTop(s) => inPart[s] = 0
    /\ inPart[s] = Part(s).size => index[s] = Len(pdi[s].parts)

\* sync_points counts the sync points behind which the slave has been fed, and
\* a slave at its end has been fed completely.
CursorCounts(s) ==
    /\ syncs[s] = SyncsBefore(s, offset[s])
    /\ eof[s] => offset[s] = SizeOf(s)

\* No slave that has not ended is behind the current sync point, and neither the
\* common one nor the master is ahead of it.
InStep ==
    /\ common <= current
    /\ last <= current
    /\ current <= AllEnded
    /\ \A s \in Slaves : eof[s] \/ syncs[s] >= current
    /\ master # 0 => last = masterSent
    /\ masterSent <= master

\* The chunks of a slave in the output end where the next one starts.
SentIs(s) ==
    /\ \A i \in DOMAIN out : out[i].slr = s => out[i].from + out[i].size <= offset[s]
    /\ \/ offset[s] = 0
       \/ \E i \in DOMAIN out : out[i].slr = s /\ out[i].from + out[i].size = offset[s]

\* A slave ends when the master is at its last part, and the round in which the
\* last slave ends sends that part.
EndInStep ==
    SameSyncPoints /\ master # 0 =>
        /\ \A s \in Slaves : eof[s] => masterSent >= master - 1
        /\ turn = 0 /\ current = AllEnded => masterSent = master

EndsRightly == status = "done" => turn = 0 /\ (current = AllEnded \/ ~BytesLeft)

Inv ==
    /\ Shape
    /\ \A s \in Slaves : CursorAt(s) /\ CursorCounts(s) /\ SentIs(s)
    /\ InStep
    /\ MasterBefore(Len(out) + 1) = masterSent
    /\ EndInStep
    /\ EndsRightly
    /\ BarrierKept
    /\ MasterInStep

-----------------------------------------------------------------------------
(* Numbers, sums and sets.                                                   *)

\* Every nonempty set of natural numbers has a least member.
LEMMA LeastNat ==
    ASSUME NEW S \in SUBSET Nat, S # {}
    PROVE  \E n \in S : \A m \in S : n <= m
<1>1. IsWellFoundedOn(OpToRel(<, Nat), Nat)
  BY NatLessThanWellFounded
<1> DEFINE R == {ss \in Nat \X Nat : ss[1] < ss[2]}
<1>2. OpToRel(<, Nat) = R
  BY DEF OpToRel
<1>3. IsWellFoundedOn(R, Nat)
  BY <1>1, <1>2
<1> HIDE DEF R
<1>4. PICK n \in S : \A m \in S : ~(<<m, n>> \in R)
  BY <1>3, WFMin
<1>5. \A m \in S : ~(m < n)
  BY <1>4 DEF R
<1> QED
  BY <1>5

LEMMA MinIs ==
    ASSUME NEW S \in SUBSET Nat, S # {}
    PROVE  Min(S) \in S /\ \A y \in S : Min(S) <= y
  BY LeastNat DEF Min

LEMMA MaxIs ==
    ASSUME NEW S \in SUBSET Nat, NEW x \in S, \A y \in S : y <= x
    PROVE  Max(S) = x
<1>1. \A y \in S : (\A z \in S : y >= z) => y = x
  OBVIOUS
<1> QED
  BY <1>1 DEF Max

LEMMA ElementIn ==
    ASSUME NEW T, NEW list \in Seq(T), NEW n \in 1 .. Len(list)
    PROVE  list[n] \in T
  OBVIOUS

PartitionList == Seq([size : Nat, top : Nat])

\* f gives the sums of the sizes of the first 0 to n partitions.
AreSums(f, n, list) ==
    f = [p \in 0 .. n |-> IF p = 0 THEN 0 ELSE f[p - 1] + list[p].size]

LEMMA SumsExist ==
    ASSUME NEW list \in PartitionList
    PROVE  \E f : AreSums(f, Len(list), list)
<1> DEFINE Bad == {n \in 0 .. Len(list) : ~ \E f : AreSums(f, n, list)}
<1>1. Len(list) \in Nat
  BY DEF PartitionList
<1>2. SUFFICES ASSUME Bad # {} PROVE FALSE
  <2>1. Len(list) \in 0 .. Len(list)
    BY <1>1
  <2> QED BY <2>1
<1>3. PICK n \in Bad : \A m \in Bad : n <= m
  <2>1. Bad \in SUBSET Nat
    BY <1>1
  <2> HIDE DEF Bad
  <2> QED BY <1>2, <2>1, LeastNat
<1>4. n \in 0 .. Len(list) /\ ~ \E f : AreSums(f, n, list)
  BY <1>3
<1>5. CASE n = 0
  <2>1. AreSums([p \in 0 .. 0 |-> 0], 0, list)
    BY DEF AreSums
  <2> QED BY <2>1, <1>4, <1>5
<1>6. CASE n # 0
  <2>1. n - 1 \in 0 .. Len(list) /\ n - 1 \notin Bad
    BY <1>1, <1>3, <1>4, <1>6
  <2>2. PICK f : AreSums(f, n - 1, list)
    BY <2>1
  <2> DEFINE g == [p \in 0 .. n |-> IF p = n THEN f[n - 1] + list[n].size ELSE f[p]]
  <2>3. ASSUME NEW p \in 0 .. n
        PROVE  g[p] = IF p = 0 THEN 0 ELSE g[p - 1] + list[p].size
    <3>1. CASE p = n
      BY <3>1, <1>4, <1>6
    <3>2. CASE p # n
      <4>1. p \in 0 .. (n - 1) /\ p - 1 # n
        BY <3>2, <1>4
      <4>2. f[p] = IF p = 0 THEN 0 ELSE f[p - 1] + list[p].size
        BY <4>1, <2>2 DEF AreSums
      <4> QED BY <4>1, <4>2, <3>2, <1>4
    <3> QED BY <3>1, <3>2
  <2>4. g = [p \in 0 .. n |-> IF p = 0 THEN 0 ELSE g[p - 1] + list[p].size]
    BY <2>3
  <2>5. AreSums(g, n, list)
    BY <2>4 DEF AreSums
  <2> QED BY <2>5, <1>4
<1> QED
  BY <1>5, <1>6

LEMMA SumsStep ==
    ASSUME NEW list \in PartitionList, NEW p \in 0 .. Len(list)
    PROVE  BytesOfFirst(list)[p] =
             IF p = 0 THEN 0 ELSE BytesOfFirst(list)[p - 1] + list[p].size
<1>1. AreSums(BytesOfFirst(list), Len(list), list)
  BY SumsExist DEF AreSums, BytesOfFirst
<1> QED
  BY <1>1 DEF AreSums

LEMMA SumsNat ==
    ASSUME NEW list \in PartitionList, NEW p \in 0 .. Len(list)
    PROVE  BytesOfFirst(list)[p] \in Nat
<1> DEFINE Bad == {n \in 0 .. Len(list) : BytesOfFirst(list)[n] \notin Nat}
<1>1. Len(list) \in Nat
  BY DEF PartitionList
<1>2. SUFFICES ASSUME Bad # {} PROVE FALSE
  OBVIOUS
<1>3. PICK n \in Bad : \A m \in Bad : n <= m
  <2>1. Bad \in SUBSET Nat
    BY <1>1
  <2> HIDE DEF Bad
  <2> QED BY <1>2, <2>1, LeastNat
<1>4. n \in 0 .. Len(list) /\ BytesOfFirst(list)[n] \notin Nat
  BY <1>3
<1>5. n # 0
  BY <1>4, SumsStep
<1>6. n - 1 \in 0 .. Len(list) /\ BytesOfFirst(list)[n - 1] \in Nat
  <2>1. n - 1 \in 0 .. Len(list) /\ n - 1 \notin Bad
    BY <1>1, <1>3, <1>4, <1>5
  <2> QED BY <2>1
<1>7. list[n].size \in Nat
  <2>1. n \in 1 .. Len(list)
    BY <1>1, <1>4, <1>5
  <2>2. list[n] \in [size : Nat, top : Nat]
    BY <2>1, ElementIn DEF PartitionList
  <2> QED BY <2>2
<1>8. BytesOfFirst(list)[n] = BytesOfFirst(list)[n - 1] + list[n].size
  BY <1>4, <1>5, SumsStep
<1> QED
  BY <1>4, <1>6, <1>7, <1>8

\* No prefix of a list is longer than the list.
LEMMA SumsGrow ==
    ASSUME NEW list \in PartitionList, NEW p \in 0 .. Len(list)
    PROVE  BytesOfFirst(list)[p] <= Bytes(list)
<1> DEFINE B == BytesOfFirst(list)
           Bad == {k \in 0 .. Len(list) : ~(B[Len(list) - k] <= B[Len(list)])}
<1>1. Len(list) \in Nat
  BY DEF PartitionList
<1>2. \A q \in 0 .. Len(list) : B[q] \in Nat
  BY SumsNat
<1>3. Bad = {}
  <2>1. SUFFICES ASSUME Bad # {} PROVE FALSE
    OBVIOUS
  <2>2. PICK k \in Bad : \A m \in Bad : k <= m
    <3>1. Bad \in SUBSET Nat
      BY <1>1
    <3> HIDE DEF Bad
    <3> QED BY <2>1, <3>1, LeastNat
  <2>3. k \in 0 .. Len(list) /\ ~(B[Len(list) - k] <= B[Len(list)])
    BY <2>2
  <2> HIDE DEF B
  <2>4. k # 0
    <3>1. B[Len(list)] \in Nat /\ Len(list) - 0 = Len(list)
      BY <1>1, <1>2
    <3> QED BY <2>3, <3>1
  <2>5. k - 1 \in 0 .. Len(list) /\ k - 1 \notin Bad
    BY <1>1, <2>2, <2>3, <2>4
  <2>6. B[Len(list) - (k - 1)] <= B[Len(list)]
    BY <2>5
  <2>7. PICK i \in 1 .. Len(list) : i = Len(list) - (k - 1) /\ i - 1 = Len(list) - k
    <3>1. Len(list) - (k - 1) \in 1 .. Len(list)
          /\ (Len(list) - (k - 1)) - 1 = Len(list) - k
      BY <1>1, <2>3, <2>4
    <3> QED BY <3>1
  <2>8. B[i] = B[i - 1] + list[i].size
    <3>1. i \in 0 .. Len(list) /\ i # 0
      BY <1>1, <2>7
    <3> QED BY <3>1, SumsStep DEF B
  <2>9. list[i].size \in Nat
    <3>1. list[i] \in [size : Nat, top : Nat]
      BY ElementIn DEF PartitionList
    <3> QED BY <3>1
  <2>10. B[i - 1] \in Nat /\ B[i] \in Nat /\ B[Len(list)] \in Nat
    BY <1>1, <1>2, <2>7
  <2> QED BY <2>3, <2>6, <2>7, <2>8, <2>9, <2>10
<1>4. Len(list) - p \in 0 .. Len(list) /\ Len(list) - (Len(list) - p) = p
  BY <1>1
<1>5. B[p] <= B[Len(list)]
  BY <1>3, <1>4
<1> QED
  BY <1>5 DEF Bytes

LEMMA CountsAdd ==
    ASSUME NEW S, IsFiniteSet(S), NEW a \in Int, NEW n \in Nat, S \subseteq Int
    PROVE  Cardinality({b \in S : b < a + n}) =
             Cardinality({b \in S : b < a}) + Cardinality({b \in S : b >= a /\ b < a + n})
<1> DEFINE L == {b \in S : b < a}
           M == {b \in S : b >= a /\ b < a + n}
<1>1. IsFiniteSet(L) /\ IsFiniteSet(M)
  BY FS_Subset
<1>2. L \cap M = {}
  <2>1. \A b \in S : ~(b < a /\ b >= a)
    OBVIOUS
  <2> QED BY <2>1
<1>3. L \cup M = {b \in S : b < a + n}
  <2>1. \A b \in S : b < a + n <=> b < a \/ (b >= a /\ b < a + n)
    OBVIOUS
  <2> QED BY <2>1
<1>4. Cardinality(L \cap M) = 0
  BY <1>2, FS_EmptySet
<1>5. Cardinality(L \cup M) = Cardinality(L) + Cardinality(M) - Cardinality(L \cap M)
  BY <1>1, FS_Union
<1>6. Cardinality(L) \in Nat /\ Cardinality(M) \in Nat
  BY <1>1, FS_CardinalityType
<1> HIDE DEF L, M
<1>7. Cardinality(L \cup M) = Cardinality(L) + Cardinality(M)
  BY <1>4, <1>5, <1>6
<1> QED
  BY <1>3, <1>7 DEF L, M

-----------------------------------------------------------------------------
(* The files of the slaves and what is counted in them.                      *)

LEMMA SlaveFile ==
    ASSUME Shape, NEW s \in Slaves
    PROVE  /\ pdi[s].parts \in PartitionList
           /\ Len(pdi[s].parts) \in Nat \ {0}
           /\ \A p \in 1 .. Len(pdi[s].parts) :
                 /\ pdi[s].parts[p].size \in Nat
                 /\ pdi[s].parts[p].top \in Nat
                 /\ pdi[s].parts[p].top < pdi[s].parts[p].size
           /\ SizeOf(s) \in Nat
           /\ pdi[s].syncs \subseteq 0 .. (SizeOf(s) - 1)
           /\ IsFiniteSet(pdi[s].syncs)
           /\ Cardinality(pdi[s].syncs) \in 0 .. MaxSyncs
<1>1. pdi[s] \in Files
  BY DEF Shape
<1>2. PICK list \in Partitions : pdi[s] \in
         [parts : {list}, syncs : {a \in SUBSET (0 .. (Bytes(list) - 1)) : Cardinality(a) <= MaxSyncs}]
  BY <1>1 DEF Files
<1>3. pdi[s].parts = list
  BY <1>2
<1>4. pdi[s].syncs \subseteq 0 .. (Bytes(list) - 1) /\ Cardinality(pdi[s].syncs) <= MaxSyncs
  BY <1>2
<1>5. /\ list \in PartitionList
      /\ list # <<>>
      /\ \A p \in DOMAIN list : list[p].top < list[p].size
  BY SsitAssumption DEF PartitionList
<1>6. Len(list) \in Nat \ {0} /\ DOMAIN list = 1 .. Len(list)
  BY <1>5 DEF PartitionList
<1>7. \A p \in 1 .. Len(list) : list[p] \in [size : Nat, top : Nat]
  BY <1>5, ElementIn DEF PartitionList
<1>8. SizeOf(s) = Bytes(list) /\ Bytes(list) \in Nat
  <2>1. Len(list) \in 0 .. Len(list)
    BY <1>6
  <2> QED BY <1>3, <1>5, <2>1, SumsNat DEF SizeOf, Bytes
<1>9. IsFiniteSet(pdi[s].syncs)
  <2>1. IsFiniteSet(0 .. (Bytes(list) - 1))
    BY <1>8, FS_Interval
  <2> QED BY <2>1, <1>4, FS_Subset
<1>10. Cardinality(pdi[s].syncs) \in Nat
  BY <1>9, FS_CardinalityType
<1>11. Cardinality(pdi[s].syncs) \in 0 .. MaxSyncs
  BY <1>4, <1>10, SsitAssumption
<1> QED
  BY <1>3, <1>4, <1>5, <1>6, <1>7, <1>8, <1>9, <1>11

\* Counting the sync points of a chunk moves the count to the end of the chunk.
LEMMA SyncsMove ==
    ASSUME Shape, NEW s \in Slaves, NEW n \in Nat
    PROVE  SyncsBefore(s, offset[s] + n) = SyncsBefore(s, offset[s]) + SyncsInChunk(s, n)
<1>1. IsFiniteSet(pdi[s].syncs) /\ pdi[s].syncs \subseteq Int
  BY SlaveFile
<1>2. offset[s] \in Int
  BY DEF Shape
<1> QED
  BY <1>1, <1>2, CountsAdd DEF SyncsBefore, SyncsInChunk

LEMMA SyncsNat ==
    ASSUME Shape, NEW s \in Slaves, NEW a, NEW n
    PROVE  SyncsBefore(s, a) \in Nat /\ SyncsInChunk(s, n) \in Nat
<1>1. IsFiniteSet(pdi[s].syncs)
  BY SlaveFile
<1>2. IsFiniteSet({b \in pdi[s].syncs : b < a})
      /\ IsFiniteSet({b \in pdi[s].syncs : b >= offset[s] /\ b < offset[s] + n})
  BY <1>1, FS_Subset
<1> QED
  BY <1>2, FS_CardinalityType DEF SyncsBefore, SyncsInChunk

\* Behind the last byte no sync point is left.
LEMMA SyncsAll ==
    ASSUME Shape, NEW s \in Slaves
    PROVE  SyncsBefore(s, SizeOf(s)) = Cardinality(pdi[s].syncs)
<1>1. pdi[s].syncs \subseteq 0 .. (SizeOf(s) - 1) /\ SizeOf(s) \in Nat
  BY SlaveFile
<1>2. {b \in pdi[s].syncs : b < SizeOf(s)} = pdi[s].syncs
  BY <1>1
<1> QED
  BY <1>2 DEF SyncsBefore

LEMMA SyncsBounded ==
    ASSUME Shape, NEW s \in Slaves, NEW a
    PROVE  SyncsBefore(s, a) <= MaxSyncs
<1>1. IsFiniteSet(pdi[s].syncs) /\ Cardinality(pdi[s].syncs) \in 0 .. MaxSyncs
  BY SlaveFile
<1>2. {b \in pdi[s].syncs : b < a} \subseteq pdi[s].syncs
  OBVIOUS
<1>3. Cardinality({b \in pdi[s].syncs : b < a}) <= Cardinality(pdi[s].syncs)
  BY <1>1, <1>2, FS_Subset
<1>4. MaxSyncs \in Nat /\ SyncsBefore(s, a) \in Nat
  BY SsitAssumption, SyncsNat
<1> QED
  BY <1>1, <1>3, <1>4 DEF SyncsBefore

-----------------------------------------------------------------------------
(* The cursor of one slave.                                                  *)

\* GetActualChunkSize returns nothing only at the end of the PDI.
LEMMA ChunkAtCursor ==
    ASSUME Shape, NEW s \in Slaves, CursorAt(s)
    PROVE  /\ ActualChunkSize(s) \in Nat
           /\ inPart[s] + ActualChunkSize(s) <= Part(s).size
           /\ offset[s] + ActualChunkSize(s) <= SizeOf(s)
           /\ ActualChunkSize(s) = 0 => offset[s] = SizeOf(s)
<1> DEFINE list == pdi[s].parts
<1>1. list \in PartitionList /\ Len(list) \in Nat \ {0}
  BY SlaveFile
<1>2. index[s] \in 1 .. Len(list) /\ Part(s) = list[index[s]]
  BY DEF CursorAt, Part
<1>3. Part(s).size \in Nat /\ Part(s).top \in Nat /\ Part(s).top < Part(s).size
  BY <1>2, SlaveFile
<1>4. inPart[s] \in Nat /\ inPart[s] <= Part(s).size
  BY DEF Shape, CursorAt
<1>5. ActualChunkSize(s) \in Nat /\ inPart[s] + ActualChunkSize(s) <= Part(s).size
  <2>1. CASE HasTop(s)
    <3>1. inPart[s] = 0
      BY <2>1 DEF CursorAt
    <3> QED BY <2>1, <3>1, <1>3 DEF ActualChunkSize
  <2>2. CASE ~HasTop(s)
    BY <2>2, <1>3, <1>4, SsitAssumption DEF ActualChunkSize, Left
  <2> QED BY <2>1, <2>2
<1>6. ASSUME ActualChunkSize(s) = 0 PROVE offset[s] = SizeOf(s)
  <2>1. inPart[s] = Part(s).size
    BY <1>6, <1>3, <1>4, SsitAssumption DEF ActualChunkSize, Left, HasTop
  <2>2. index[s] = Len(list)
    BY <2>1 DEF CursorAt
  <2>3. offset[s] = BytesOfFirst(list)[Len(list) - 1] + list[Len(list)].size
    BY <2>1, <2>2, <1>2 DEF CursorAt
  <2>4. Len(list) \in 0 .. Len(list) /\ Len(list) # 0
    BY <1>1
  <2>5. BytesOfFirst(list)[Len(list)] =
           BytesOfFirst(list)[Len(list) - 1] + list[Len(list)].size
    BY <1>1, <2>4, SumsStep
  <2> QED BY <2>3, <2>5 DEF SizeOf, Bytes
<1>7. offset[s] + ActualChunkSize(s) <= SizeOf(s)
  <2>1. PICK i \in 1 .. Len(list), size \in Nat :
           index[s] = i /\ Part(s).size = size /\ list[i].size = size
    BY <1>2, <1>3
  <2>2. i \in 0 .. Len(list) /\ i # 0 /\ i - 1 \in 0 .. Len(list)
    BY <1>1
  <2>3. PICK b \in Nat : BytesOfFirst(list)[i - 1] = b
    BY <1>1, <2>2, SumsNat
  <2>4. BytesOfFirst(list)[i] = b + size
    BY <1>1, <2>1, <2>2, <2>3, SumsStep
  <2>5. b + size <= SizeOf(s)
    BY <1>1, <2>2, <2>4, SumsGrow DEF SizeOf
  <2>6. offset[s] = b + inPart[s]
    BY <2>1, <2>3 DEF CursorAt
  <2>7. SizeOf(s) \in Nat
    BY SlaveFile
  <2> QED BY <1>4, <1>5, <2>1, <2>5, <2>6, <2>7
<1> QED
  BY <1>5, <1>6, <1>7

LEMMA CursorMoves ==
    ASSUME Shape, NEW s \in Slaves, CursorAt(s), UNCHANGED inputs,
           AdvanceInPartition(s),
           offset' = [offset EXCEPT ![s] = @ + ActualChunkSize(s)]
    PROVE  CursorAt(s)'
<1> DEFINE n == ActualChunkSize(s)
           next == ~HasTop(s) /\ Left(s) <= ChunkSize /\ index[s] < Len(pdi[s].parts)
<1>1. PICK list \in PartitionList, i \in Nat, k \in Nat :
         /\ i \in 1 .. Len(list)
         /\ pdi[s].parts = list /\ index[s] = i /\ inPart[s] = k
         /\ offset[s] = BytesOfFirst(list)[i - 1] + k
  <2>1. pdi[s].parts \in PartitionList
    BY SlaveFile
  <2> QED BY <2>1 DEF CursorAt, Shape
<1>2. /\ Len(list) \in Nat \ {0}
      /\ \A p \in 1 .. Len(list) :
            list[p].size \in Nat /\ list[p].top \in Nat /\ list[p].top < list[p].size
  BY <1>1, SlaveFile
<1>3. PICK size \in Nat, top \in Nat :
         Part(s) = list[i] /\ list[i].size = size /\ list[i].top = top /\ top < size
  BY <1>1, <1>2 DEF Part
<1>4. Left(s) = size - k /\ k <= size
  BY <1>1, <1>3 DEF Left, CursorAt
<1>5. /\ n \in Nat
      /\ k + n <= size
  BY <1>1, <1>3, ChunkAtCursor
<1>6. PICK b \in Nat : BytesOfFirst(list)[i - 1] = b /\ BytesOfFirst(list)[i] = b + size
  <2>1. i - 1 \in 0 .. Len(list) /\ i \in 0 .. Len(list) /\ i # 0
    BY <1>1, <1>2
  <2>2. BytesOfFirst(list)[i - 1] \in Nat
    BY <2>1, SumsNat
  <2>3. BytesOfFirst(list)[i] = BytesOfFirst(list)[i - 1] + list[i].size
    BY <2>1, SumsStep
  <2> QED BY <2>2, <2>3, <1>3
<1>7. pdi' = pdi
  BY DEF inputs
<1>8. offset'[s] = b + k + n
  BY <1>1, <1>6 DEF Shape
<1>9. topSent \in [Slaves -> SUBSET Nat] /\ index \in [Slaves -> Nat] /\ inPart \in [Slaves -> Nat]
  BY DEF Shape
<1>10. CASE next
  <2>1. index'[s] = i + 1 /\ inPart'[s] = 0
    BY <1>10, <1>1, <1>9 DEF AdvanceInPartition
  <2>2. n = size - k
    BY <1>10, <1>4 DEF ActualChunkSize
  <2>3. i + 1 \in 1 .. Len(list)
    BY <1>10, <1>1, <1>2
  <2>4. Part(s)' = list[i + 1] /\ pdi'[s].parts = list
    BY <2>1, <1>1, <1>7 DEF Part
  <2>5. list[i + 1].size \in Nat \ {0}
    BY <2>3, <1>2
  <2>6. offset'[s] = BytesOfFirst(list)[(i + 1) - 1] + 0
    BY <2>2, <1>6, <1>8, <1>4
  <2> QED BY <2>1, <2>3, <2>4, <2>5, <2>6 DEF CursorAt
<1>11. CASE ~next
  <2>1. index'[s] = i /\ inPart'[s] = k + n
    BY <1>11, <1>1, <1>9 DEF AdvanceInPartition
  <2>2. Part(s)' = list[i] /\ pdi'[s].parts = list
    BY <2>1, <1>1, <1>7 DEF Part
  <2>3. offset'[s] = BytesOfFirst(list)[i - 1] + (k + n)
    BY <1>6, <1>8, <1>5
  <2>4. ~ HasTop(s)'
    <3>1. CASE HasTop(s)
      <4>1. topSent'[s] = topSent[s] \cup {i}
        BY <3>1, <1>9, <1>1 DEF AdvanceInPartition
      <4> QED BY <4>1, <2>1 DEF HasTop
    <3>2. CASE ~HasTop(s)
      <4>1. topSent' = topSent
        BY <3>2 DEF AdvanceInPartition
      <4> QED BY <4>1, <3>2, <2>1, <2>2, <1>1, <1>3 DEF HasTop
    <3> QED BY <3>1, <3>2
  <2>5. k + n = size => i = Len(list)
    <3>1. CASE HasTop(s)
      <4>1. k = 0 /\ n = top
        BY <3>1, <1>1, <1>3 DEF CursorAt, ActualChunkSize
      <4> QED BY <4>1, <1>3
    <3>2. CASE ~HasTop(s) /\ Left(s) <= ChunkSize
      BY <3>2, <1>11, <1>1, <1>2
    <3>3. CASE ~HasTop(s) /\ ~(Left(s) <= ChunkSize)
      <4>1. n = ChunkSize /\ ChunkSize \in Nat
        BY <3>3, SsitAssumption DEF ActualChunkSize
      <4> QED BY <3>3, <4>1, <1>4
    <3> QED BY <3>1, <3>2, <3>3
  <2> QED BY <2>1, <2>2, <2>3, <2>4, <2>5, <1>1, <1>3, <1>5 DEF CursorAt
<1> QED
  BY <1>10, <1>11

\* The other cursors stay where they are.
LEMMA OthersStay ==
    ASSUME Shape, NEW s \in Slaves, CursorAt(s), AdvanceInPartition(s)
    PROVE  /\ index' \in [Slaves -> Nat]
           /\ inPart' \in [Slaves -> Nat]
           /\ topSent' \in [Slaves -> SUBSET Nat]
           /\ \A t \in Slaves \ {s} : /\ index'[t] = index[t]
                                      /\ inPart'[t] = inPart[t]
                                      /\ topSent'[t] = topSent[t]
<1>1. /\ topSent \in [Slaves -> SUBSET Nat]
      /\ index \in [Slaves -> Nat]
      /\ inPart \in [Slaves -> Nat]
  BY DEF Shape
<1>2. ActualChunkSize(s) \in Nat
  BY ChunkAtCursor
<1> QED
  BY <1>1, <1>2 DEF AdvanceInPartition

-----------------------------------------------------------------------------
(* The output.                                                               *)

\* What a chunk finds loaded depends on the chunks before it only.
LEMMA PrefixKept ==
    ASSUME out \in Seq(Chunk), NEW c \in Chunk, out' = Append(out, c), UNCHANGED inputs,
           NEW j \in 1 .. (Len(out) + 1)
    PROVE  /\ MasterBefore(j)' = MasterBefore(j)
           /\ \A s \in Slaves : SentBefore(s, j)' = SentBefore(s, j)
           /\ \A s \in Slaves, m \in Int : HasReached(s, m, j)' = HasReached(s, m, j)
           /\ \A s \in Slaves, a \in Int : SyncsBefore(s, a)' = SyncsBefore(s, a)
<1>1. \A i \in 1 .. (j - 1) : out'[i] = out[i]
  OBVIOUS
<1>2. MasterBefore(j)' = MasterBefore(j)
  BY <1>1 DEF MasterBefore
<1>3. ASSUME NEW s \in Slaves
      PROVE  SentBefore(s, j)' = SentBefore(s, j)
  <2>1. {k \in 1 .. (j - 1) : out'[k].slr = s} = {k \in 1 .. (j - 1) : out[k].slr = s}
    BY <1>1
  <2>2. {out'[i].from + out'[i].size : i \in {k \in 1 .. (j - 1) : out'[k].slr = s}}
          = {out[i].from + out[i].size : i \in {k \in 1 .. (j - 1) : out[k].slr = s}}
    BY <1>1, <2>1
  <2> QED BY <2>2 DEF SentBefore
<1>4. pdi' = pdi
  BY DEF inputs
<1>5. \A s \in Slaves, a \in Int : SyncsBefore(s, a)' = SyncsBefore(s, a)
  BY <1>4 DEF SyncsBefore
<1>6. \A s \in Slaves : SizeOf(s)' = SizeOf(s)
  BY <1>4 DEF SizeOf
<1>7. ASSUME NEW s \in Slaves, NEW m \in Int
      PROVE  HasReached(s, m, j)' = HasReached(s, m, j)
  <2>1. SyncsBefore(s, SentBefore(s, j))' = SyncsBefore(s, SentBefore(s, j))
    BY <1>3, <1>4 DEF SyncsBefore
  <2> QED BY <2>1, <1>3, <1>6 DEF HasReached
<1> QED
  BY <1>2, <1>3, <1>5, <1>7

LEMMA SentOffset ==
    ASSUME Shape, NEW s \in Slaves, SentIs(s)
    PROVE  SentBefore(s, Len(out) + 1) = offset[s]
<1> DEFINE E == {out[i].from + out[i].size :
                    i \in {k \in 1 .. (Len(out) + 1 - 1) : out[k].slr = s}} \cup {0}
<1>1. Len(out) \in Nat /\ DOMAIN out = 1 .. Len(out) /\ Len(out) + 1 - 1 = Len(out)
  BY DEF Shape
<1>2. \A i \in DOMAIN out : out[i].from \in Nat /\ out[i].size \in Nat
  <2>1. ASSUME NEW i \in DOMAIN out PROVE out[i] \in Chunk
    BY <1>1, ElementIn DEF Shape
  <2> QED BY <2>1 DEF Chunk
<1>3. E \in SUBSET Nat
  BY <1>1, <1>2
<1>4. offset[s] \in E
  BY <1>1 DEF SentIs
<1>5. offset[s] \in Nat
  BY DEF Shape
<1>6. \A e \in E : e <= offset[s]
  BY <1>1, <1>5 DEF SentIs
<1>7. Max(E) = offset[s]
  <2> HIDE DEF E
  <2> QED BY <1>3, <1>4, <1>6, MaxIs
<1> QED
  BY <1>7 DEF SentBefore

\* The parts of the master are counted one by one.
LEMMA MasterCounts ==
    ASSUME out \in Seq(Chunk), NEW c \in Chunk, out' = Append(out, c)
    PROVE  /\ MasterBefore(Len(out) + 1) \in Nat
           /\ MasterBefore(Len(out) + 1)' =
                MasterBefore(Len(out) + 1) + (IF c.slr = Master THEN 1 ELSE 0)
<1> DEFINE L == Len(out)
           Old == {i \in 1 .. L : out[i].slr = Master}
           New == {i \in 1 .. (L + 1) : out'[i].slr = Master}
<1>1. L \in Nat /\ Len(out') = L + 1 /\ L + 1 - 1 = L /\ L + 1 + 1 - 1 = L + 1
  OBVIOUS
<1>2. IsFiniteSet(Old)
  <2>1. IsFiniteSet(1 .. L)
    BY <1>1, FS_Interval
  <2> QED BY <2>1, FS_Subset
<1>3. Cardinality(Old) \in Nat
  BY <1>2, FS_CardinalityType
<1>4. MasterBefore(L + 1) = Cardinality(Old)
  BY <1>1 DEF MasterBefore
<1>5. MasterBefore(L + 1)' = Cardinality(New)
  BY <1>1 DEF MasterBefore
<1>6. \A i \in 1 .. L : out'[i] = out[i]
  OBVIOUS
<1>7. out'[L + 1] = c
  OBVIOUS
<1>8. CASE c.slr = Master
  <2>1. New = Old \cup {L + 1} /\ L + 1 \notin Old
    BY <1>1, <1>6, <1>7, <1>8
  <2>2. Cardinality(New) = Cardinality(Old) + 1
    BY <2>1, <1>2, FS_AddElement
  <2> QED BY <2>2, <1>3, <1>4, <1>5, <1>8
<1>9. CASE c.slr # Master
  <2>1. New = Old
    BY <1>1, <1>6, <1>7, <1>9
  <2>2. MasterBefore(L + 1)' = MasterBefore(L + 1)
    BY <2>1, <1>4, <1>5
  <2>3. MasterBefore(L + 1) \in Nat
    BY <1>3, <1>4
  <2>4. MasterBefore(L + 1) = MasterBefore(L + 1) + 0
    BY <2>3
  <2> QED BY <2>2, <2>3, <2>4, <1>9
<1> QED
  BY <1>8, <1>9

-----------------------------------------------------------------------------
(* The invariant.                                                            *)

BehindBarrier(j) ==
    out[j].slr # Master =>
        LET m == SyncsBefore(out[j].slr, out[j].from)
        IN  /\ \A s \in Slaves : HasReached(s, m, j)
            /\ MasterBefore(j) >= Min({m, master})

InPace(j) ==
    out[j].slr = Master => \A s \in Slaves : HasReached(s, out[j].from + 1, j)

LEMMA ChunkWise ==
    /\ BarrierKept <=> \A j \in DOMAIN out : BehindBarrier(j)
    /\ MasterInStep <=> \A j \in DOMAIN out : InPace(j)
  BY DEF BarrierKept, MasterInStep, BehindBarrier, InPace

\* A chunk that is in order stays in order when others follow.
LEMMA OldChunks ==
    ASSUME Shape, NEW c \in Chunk, out' = Append(out, c), UNCHANGED inputs,
           NEW j \in 1 .. Len(out), BehindBarrier(j), InPace(j)
    PROVE  BehindBarrier(j)' /\ InPace(j)'
<1>1. out \in Seq(Chunk) /\ Len(out) \in Nat
  BY DEF Shape
<1>2. j \in 1 .. (Len(out) + 1) /\ out'[j] = out[j] /\ out[j] \in Chunk
  BY <1>1, ElementIn
<1>3. PICK o \in 1 .. (NumSlaves + 1), f \in Nat : out[j].slr = o /\ out[j].from = f
  BY <1>2 DEF Chunk
<1>4. out'[j].slr = o /\ out'[j].from = f
  BY <1>2, <1>3
<1>5. master' = master
  BY DEF inputs
<1>6. BehindBarrier(j)'
  <2>1. CASE o = Master
    BY <2>1, <1>4 DEF BehindBarrier
  <2>2. CASE o # Master
    <3>1. o \in Slaves
      BY <2>2, SsitAssumption DEF Slaves, Master
    <3>2. PICK m \in Nat : SyncsBefore(o, f) = m
      BY <3>1, SyncsNat
    <3>3. /\ \A s \in Slaves : HasReached(s, m, j)
          /\ MasterBefore(j) >= Min({m, master})
      BY <1>3, <2>2, <3>2 DEF BehindBarrier
    <3>4. /\ MasterBefore(j)' = MasterBefore(j)
          /\ \A s \in Slaves : HasReached(s, m, j)' = HasReached(s, m, j)
          /\ SyncsBefore(o, f)' = m
      BY <1>1, <1>2, <3>1, <3>2, PrefixKept
    <3>5. \A s \in Slaves : HasReached(s, m, j)'
      BY <3>3, <3>4
    <3>6. MasterBefore(j)' >= Min({m, master'})
      BY <3>3, <3>4, <1>5
    <3>7. SyncsBefore(out[j].slr, out[j].from)' = m
      BY <3>4, <1>4 DEF SyncsBefore
    <3> QED BY <3>5, <3>6, <3>7 DEF BehindBarrier, HasReached
  <2> QED BY <2>1, <2>2
<1>7. InPace(j)'
  <2>1. SUFFICES ASSUME o = Master
                 PROVE  \A s \in Slaves : HasReached(s, f + 1, j)'
    BY <1>4 DEF InPace
  <2>2. \A s \in Slaves : HasReached(s, f + 1, j)
    BY <2>1, <1>3 DEF InPace
  <2>3. \A s \in Slaves : HasReached(s, f + 1, j)' = HasReached(s, f + 1, j)
    BY <1>1, <1>2, PrefixKept
  <2> QED BY <2>2, <2>3
<1> QED
  BY <1>6, <1>7

LEMMA SameOutput ==
    ASSUME UNCHANGED inputs, out' = out, BarrierKept, MasterInStep
    PROVE  /\ BarrierKept'
           /\ MasterInStep'
           /\ MasterBefore(Len(out) + 1)' = MasterBefore(Len(out) + 1)
<1>1. pdi' = pdi /\ master' = master
  BY DEF inputs
<1>2. \A j : MasterBefore(j)' = MasterBefore(j)
  BY DEF MasterBefore
<1>3. \A s, j : SentBefore(s, j)' = SentBefore(s, j)
  BY DEF SentBefore
<1>4. \A s, a : SyncsBefore(s, a)' = SyncsBefore(s, a)
  BY <1>1 DEF SyncsBefore
<1>5. \A s : SizeOf(s)' = SizeOf(s)
  BY <1>1 DEF SizeOf
<1>6. ASSUME NEW s, NEW m, NEW j
      PROVE  HasReached(s, m, j)' = HasReached(s, m, j)
  <2>1. SyncsBefore(s, SentBefore(s, j))' = SyncsBefore(s, SentBefore(s, j))
    BY <1>1, <1>3 DEF SyncsBefore
  <2> QED BY <2>1, <1>3, <1>5 DEF HasReached
<1>7. ASSUME NEW j \in DOMAIN out
      PROVE  BehindBarrier(j)' /\ InPace(j)'
  <2>1. BehindBarrier(j) /\ InPace(j)
    BY ChunkWise
  <2>2. PICK m : m = SyncsBefore(out[j].slr, out[j].from)
    OBVIOUS
  <2>3. SyncsBefore(out[j].slr, out[j].from)' = m
    BY <2>2, <1>1 DEF SyncsBefore
  <2>4. out[j].slr # Master => \A s \in Slaves : HasReached(s, m, j)'
    BY <2>1, <2>2, <1>6 DEF BehindBarrier
  <2>5. out[j].slr # Master => MasterBefore(j)' >= Min({m, master'})
    BY <2>1, <2>2, <1>1, <1>2 DEF BehindBarrier
  <2>6. BehindBarrier(j)'
    BY <2>3, <2>4, <2>5 DEF BehindBarrier, HasReached
  <2>7. InPace(j)'
    BY <2>1, <1>6 DEF InPace
  <2> QED BY <2>6, <2>7
<1>8. BarrierKept' /\ MasterInStep'
  BY <1>7 DEF BarrierKept, MasterInStep, BehindBarrier, InPace
<1>9. MasterBefore(Len(out) + 1)' = MasterBefore(Len(out) + 1)
  BY DEF MasterBefore
<1> QED
  BY <1>8, <1>9

\* What the turn of a slave does to the cursors and to the output.
Fed ==
    /\ index' \in [Slaves -> Nat]
    /\ inPart' \in [Slaves -> Nat]
    /\ topSent' \in [Slaves -> SUBSET Nat]
    /\ offset' \in [Slaves -> Nat]
    /\ syncs' \in [Slaves -> Nat]
    /\ eof' \in [Slaves -> BOOLEAN]
    /\ out' \in Seq(Chunk)
    /\ \A t \in Slaves : CursorAt(t)' /\ CursorCounts(t)' /\ SentIs(t)'
    /\ MasterBefore(Len(out) + 1)' = masterSent
    /\ BarrierKept'
    /\ MasterInStep'
    /\ \A t \in Slaves : syncs'[t] >= syncs[t] /\ (eof[t] => eof'[t])
    /\ SameSyncPoints /\ master # 0 => \A t \in Slaves : eof'[t] => masterSent >= master - 1

\* The chunk a slave sends is behind the barrier: its sync points are the common
\* ones, and the master has come as far as the slaves.
LEMMA SentInOrder ==
    ASSUME Inv, NEW s \in Slaves, SendChunk(s), UNCHANGED inputs
    PROVE  Fed
<1> DEFINE n == ActualChunkSize(s)
<1>0. PICK L \in Nat : L = Len(out)
  BY DEF Inv, Shape
<1>1. Shape /\ InStep /\ CursorAt(s) /\ CursorCounts(s) /\ SentIs(s)
  BY DEF Inv
<1>2. n \in Nat
  BY <1>1, ChunkAtCursor
<1>3. PICK c \in Chunk : /\ out' = Append(out, c)
                         /\ c = [slr |-> s, from |-> offset[s], size |-> n]
  <2>1. s \in 1 .. (NumSlaves + 1)
    BY SsitAssumption DEF Slaves
  <2>2. [slr |-> s, from |-> offset[s], size |-> n] \in Chunk
    BY <2>1, <1>1, <1>2 DEF Chunk, Shape
  <2> QED BY <2>2 DEF SendChunk
<1>4. /\ out \in Seq(Chunk) /\ DOMAIN out = 1 .. L /\ DOMAIN out' = 1 .. (L + 1)
      /\ out' \in Seq(Chunk) /\ Len(out') = L + 1 /\ out'[L + 1] = c
      /\ \A i \in 1 .. L : out'[i] = out[i]
  BY <1>0, <1>1, <1>3 DEF Shape
<1>5. /\ offset' = [offset EXCEPT ![s] = @ + n]
      /\ syncs' = [syncs EXCEPT ![s] = @ + SyncsInChunk(s, n)]
      /\ eof' = eof /\ AdvanceInPartition(s)
      /\ syncs[s] = common /\ last = current
  BY DEF SendChunk, Eligible
<1>6. pdi' = pdi /\ master' = master
  BY DEF inputs
<1>7. SyncsInChunk(s, n) \in Nat
  BY <1>1, SyncsNat
<1>8. /\ offset' \in [Slaves -> Nat]
      /\ syncs' \in [Slaves -> Nat]
      /\ offset'[s] = offset[s] + n
      /\ syncs'[s] = syncs[s] + SyncsInChunk(s, n)
      /\ \A t \in Slaves \ {s} : offset'[t] = offset[t] /\ syncs'[t] = syncs[t]
  BY <1>1, <1>2, <1>5, <1>7 DEF Shape
<1>9. /\ index' \in [Slaves -> Nat]
      /\ inPart' \in [Slaves -> Nat]
      /\ topSent' \in [Slaves -> SUBSET Nat]
      /\ \A t \in Slaves \ {s} : /\ index'[t] = index[t]
                                 /\ inPart'[t] = inPart[t]
                                 /\ topSent'[t] = topSent[t]
  BY <1>1, <1>5, OthersStay
<1>10. ASSUME NEW t \in Slaves
       PROVE  CursorAt(t)'
  <2>1. CASE t = s
    BY <2>1, <1>1, <1>5, CursorMoves
  <2>2. CASE t # s
    <3>1. CursorAt(t)
      BY DEF Inv
    <3>2. /\ index'[t] = index[t] /\ inPart'[t] = inPart[t]
          /\ topSent'[t] = topSent[t] /\ offset'[t] = offset[t]
      BY <2>2, <1>8, <1>9
    <3> QED BY <3>1, <3>2, <1>6 DEF CursorAt, Part, HasTop
  <2> QED BY <2>1, <2>2
<1>11. /\ offset[s] \in Nat /\ SizeOf(s) \in Nat
       /\ offset[s] + n <= SizeOf(s) /\ n # 0
  <2>1. SizeOf(s) \in Nat
    BY <1>1, SlaveFile
  <2> QED BY <2>1, <1>1, ChunkAtCursor DEF SendChunk, Shape
<1>12. ~eof[s]
  BY <1>1, <1>2, <1>11 DEF CursorCounts
<1>13. ASSUME NEW t \in Slaves
       PROVE  CursorCounts(t)'
  <2>1. CursorCounts(t)
    BY DEF Inv
  <2>2. SizeOf(t)' = SizeOf(t)
    BY <1>6 DEF SizeOf
  <2>3. CASE t = s
    <3>1. PICK o \in Nat : offset[s] = o
      BY <1>11
    <3>2. SyncsBefore(s, o + n) = syncs'[s]
      BY <1>1, <1>2, <1>8, <3>1, SyncsMove DEF CursorCounts
    <3>3. SyncsBefore(s, offset[s] + n) = SyncsBefore(s, offset[s])'
      BY <1>6, <1>8 DEF SyncsBefore
    <3> QED BY <3>1, <3>2, <3>3, <2>3, <1>5, <1>12 DEF CursorCounts
  <2>4. CASE t # s
    <3>1. offset'[t] = offset[t] /\ syncs'[t] = syncs[t] /\ eof'[t] = eof[t]
      BY <2>4, <1>5, <1>8
    <3>2. SyncsBefore(t, offset[t])' = SyncsBefore(t, offset[t])
      BY <3>1, <1>6 DEF SyncsBefore
    <3> QED BY <2>1, <2>2, <3>1, <3>2 DEF CursorCounts
  <2> QED BY <2>3, <2>4
<1>14. ASSUME NEW t \in Slaves
       PROVE  SentIs(t)'
  <2>1. SentIs(t)
    BY DEF Inv
  <2>2. DOMAIN out = 1 .. L /\ DOMAIN out' = 1 .. (L + 1)
    BY <1>0, <1>4
  <2>3. out'[L + 1].slr = s /\ out'[L + 1].from = offset[s] /\ out'[L + 1].size = n
    BY <1>3, <1>4
  <2>4. CASE t = s
    <3>1. ASSUME NEW i \in 1 .. (L + 1), out'[i].slr = s
          PROVE  out'[i].from + out'[i].size <= offset'[s]
      <4>1. CASE i = L + 1
        BY <4>1, <2>3, <1>2, <1>8, <1>11
      <4>2. CASE i # L + 1
        <5>1. i \in 1 .. L
          BY <4>2, <1>4
        <5>2. out[i] \in Chunk
          BY <5>1, <1>4, ElementIn
        <5>3. out[i].from \in Nat /\ out[i].size \in Nat
          BY <5>2 DEF Chunk
        <5>4. out[i].from + out[i].size <= offset[s]
          BY <5>1, <3>1, <2>1, <2>2, <2>4, <1>4 DEF SentIs
        <5>5. out'[i] = out[i]
          BY <5>1, <1>4
        <5>6. PICK f \in Nat, z \in Nat : out[i].from = f /\ out[i].size = z
          BY <5>3
        <5>7. f + z <= offset[s] + n
          BY <5>4, <5>6, <1>2, <1>11
        <5> QED BY <5>5, <5>6, <5>7, <1>8
      <4> QED BY <4>1, <4>2
    <3>2. L + 1 \in 1 .. (L + 1) /\ out'[L + 1].from + out'[L + 1].size = offset'[s]
      BY <2>3, <1>4, <1>8
    <3> QED BY <3>1, <3>2, <2>2, <2>3, <2>4 DEF SentIs
  <2>5. CASE t # s
    <3>1. offset'[t] = offset[t]
      BY <2>5, <1>8
    <3>2. \A i \in 1 .. (L + 1) : out'[i].slr = t => i \in 1 .. L
      BY <2>3, <2>5, <1>4
    <3>3. \A i \in 1 .. L : out'[i] = out[i] /\ i \in 1 .. (L + 1)
      BY <1>4
    <3> QED BY <3>1, <3>2, <3>3, <2>1, <2>2 DEF SentIs
  <2> QED BY <2>4, <2>5
<1>15. MasterBefore(Len(out) + 1)' = masterSent
  <2>1. c.slr # Master /\ masterSent \in Nat
    BY <1>1, <1>3, SsitAssumption DEF Slaves, Master, Shape
  <2>2. MasterBefore(Len(out) + 1) = masterSent
    BY DEF Inv
  <2>3. MasterBefore(Len(out) + 1)' = MasterBefore(Len(out) + 1) + 0
    BY <1>3, <1>4, <2>1, MasterCounts
  <2> QED BY <2>1, <2>2, <2>3
<1>16. BehindBarrier(L + 1)'
  <2>1. ASSUME NEW t \in Slaves
        PROVE  HasReached(t, common, L + 1)
    <3>1. CursorCounts(t) /\ SentIs(t)
      BY DEF Inv
    <3>2. SentBefore(t, L + 1) = offset[t]
      BY <1>0, <1>1, <3>1, SentOffset
    <3>3. eof[t] \/ syncs[t] >= common
      BY <1>1 DEF InStep, Shape
    <3> QED BY <3>1, <3>2, <3>3 DEF HasReached, CursorCounts
  <2>2. MasterBefore(L + 1) >= Min({common, master})
    <3>1. common \in Nat /\ master \in Nat /\ masterSent \in Nat /\ last \in Nat /\ current \in Nat
      BY <1>1, SsitAssumption DEF Shape
    <3>2. /\ Min({common, master}) \in {common, master}
          /\ \A y \in {common, master} : Min({common, master}) <= y
      BY <3>1, MinIs
    <3>3. MasterBefore(L + 1) = masterSent
      BY <1>0 DEF Inv
    <3>4. master # 0 => masterSent >= common
      BY <1>1, <1>5, <3>1 DEF InStep
    <3> QED BY <3>1, <3>2, <3>3, <3>4
  <2>3. L + 1 \in 1 .. (Len(out) + 1) /\ common \in Nat
    BY <1>0, <1>1 DEF Shape
  <2>4. /\ MasterBefore(L + 1)' = MasterBefore(L + 1)
        /\ \A t \in Slaves, m \in Int : HasReached(t, m, L + 1)' = HasReached(t, m, L + 1)
        /\ \A t \in Slaves, a \in Int : SyncsBefore(t, a)' = SyncsBefore(t, a)
    BY <2>3, <1>3, <1>4, PrefixKept
  <2>5. out'[L + 1].slr = s /\ out'[L + 1].from = offset[s]
    BY <1>3, <1>4
  <2>6. PICK o \in Nat : offset[s] = o
    BY <1>11
  <2>7. SyncsBefore(s, o)' = common
    <3>1. SyncsBefore(s, o) = common
      BY <2>6, <1>1, <1>5 DEF CursorCounts
    <3>2. SyncsBefore(s, o)' = SyncsBefore(s, o)
      BY <1>6 DEF SyncsBefore
    <3> QED BY <3>1, <3>2
  <2>8. SyncsBefore(out[L + 1].slr, out[L + 1].from)' = common
    BY <2>5, <2>6, <2>7 DEF SyncsBefore
  <2>9. PICK m \in Nat : common = m
    BY <2>3
  <2>10. \A t \in Slaves : HasReached(t, m, L + 1)'
    BY <2>1, <2>4, <2>9
  <2>11. MasterBefore(L + 1)' >= Min({m, master'})
    BY <2>2, <2>4, <2>9, <1>6
  <2> QED BY <2>8, <2>9, <2>10, <2>11 DEF BehindBarrier, HasReached
<1>17. BarrierKept' /\ MasterInStep'
  <2>1. ASSUME NEW j \in 1 .. L
        PROVE  BehindBarrier(j)' /\ InPace(j)'
    <3>1. j \in DOMAIN out
      BY <1>4
    <3>2. BehindBarrier(j) /\ InPace(j)
      BY <3>1, ChunkWise DEF Inv
    <3> QED BY <3>2, <1>0, <1>1, <1>3, OldChunks
  <2>2. InPace(L + 1)'
    <3>1. out'[L + 1].slr # Master
      BY <1>3, <1>4, SsitAssumption DEF Slaves, Master
    <3> QED BY <3>1 DEF InPace
  <2>3. \A j \in DOMAIN out' : j \in 1 .. L \/ j = L + 1
    BY <1>4
  <2>4. \A j \in DOMAIN out' : BehindBarrier(j)' /\ InPace(j)'
    BY <2>1, <2>2, <2>3, <1>16
  <2> QED BY <2>4 DEF BarrierKept, MasterInStep, BehindBarrier, InPace
<1>18. \A t \in Slaves : syncs'[t] >= syncs[t] /\ (eof[t] => eof'[t])
  <2>1. syncs \in [Slaves -> Nat]
    BY <1>1 DEF Shape
  <2> QED BY <2>1, <1>5, <1>7, <1>8
<1>19. SameSyncPoints /\ master # 0 => \A t \in Slaves : eof'[t] => masterSent >= master - 1
  BY <1>5 DEF Inv, EndInStep
<1> QED
  BY <1>1, <1>4, <1>5, <1>8, <1>9, <1>10, <1>13, <1>14, <1>15, <1>17, <1>18, <1>19 DEF Fed, Shape

\* A slave that has nothing left is marked as ended: every one of its sync points
\* is behind it, and the master is at its last part.
LEMMA EndInOrder ==
    ASSUME Inv, NEW s \in Slaves, ReachEnd(s), UNCHANGED inputs
    PROVE  Fed
<1>1. Shape /\ InStep /\ CursorAt(s) /\ CursorCounts(s)
  BY DEF Inv
<1>2. /\ offset' = offset /\ syncs' = syncs /\ out' = out
      /\ eof' = [eof EXCEPT ![s] = TRUE]
      /\ AdvanceInPartition(s) /\ ActualChunkSize(s) = 0
      /\ syncs[s] = common /\ last = current
  BY DEF ReachEnd, Eligible
<1>3. pdi' = pdi /\ master' = master
  BY DEF inputs
<1>4. offset[s] = SizeOf(s)
  BY <1>1, <1>2, ChunkAtCursor
<1>5. /\ index' \in [Slaves -> Nat]
      /\ inPart' \in [Slaves -> Nat]
      /\ topSent' \in [Slaves -> SUBSET Nat]
      /\ \A t \in Slaves \ {s} : /\ index'[t] = index[t]
                                 /\ inPart'[t] = inPart[t]
                                 /\ topSent'[t] = topSent[t]
  BY <1>1, <1>2, OthersStay
<1>6. ASSUME NEW t \in Slaves
      PROVE  CursorAt(t)'
  <2>1. CASE t = s
    <3>1. offset' = [offset EXCEPT ![s] = @ + ActualChunkSize(s)]
      BY <1>1, <1>2 DEF Shape
    <3> QED BY <3>1, <2>1, <1>1, <1>2, CursorMoves
  <2>2. CASE t # s
    <3>1. CursorAt(t)
      BY DEF Inv
    <3>2. /\ index'[t] = index[t] /\ inPart'[t] = inPart[t]
          /\ topSent'[t] = topSent[t] /\ offset'[t] = offset[t]
      BY <2>2, <1>2, <1>5
    <3> QED BY <3>1, <3>2, <1>3 DEF CursorAt, Part, HasTop
  <2> QED BY <2>1, <2>2
<1>7. eof' \in [Slaves -> BOOLEAN] /\ \A t \in Slaves : eof'[t] <=> eof[t] \/ t = s
  BY <1>1, <1>2 DEF Shape
<1>8. ASSUME NEW t \in Slaves
      PROVE  CursorCounts(t)' /\ SentIs(t)'
  <2>1. CursorCounts(t) /\ SentIs(t)
    BY DEF Inv
  <2>2. eof'[t] => offset[t] = SizeOf(t)
    BY <2>1, <1>4, <1>7 DEF CursorCounts
  <2>3. SizeOf(t)' = SizeOf(t) /\ SyncsBefore(t, offset[t])' = SyncsBefore(t, offset[t])
    BY <1>2, <1>3 DEF SizeOf, SyncsBefore
  <2> QED BY <2>1, <2>2, <2>3, <1>2 DEF CursorCounts, SentIs
<1>9. MasterBefore(Len(out) + 1)' = masterSent
  BY <1>2 DEF Inv, MasterBefore
<1>10. BarrierKept' /\ MasterInStep'
  BY <1>2, SameOutput DEF Inv
<1>11. \A t \in Slaves : syncs'[t] >= syncs[t] /\ (eof[t] => eof'[t])
  BY <1>1, <1>2, <1>7 DEF Shape
<1>12. ASSUME SameSyncPoints, master # 0
       PROVE  masterSent >= master - 1
  <2>1. syncs[s] = master - 1
    BY <1>1, <1>4, <1>12, SyncsAll DEF CursorCounts, SameSyncPoints
  <2>2. masterSent = current /\ common <= current
    BY <1>1, <1>2, <1>12 DEF InStep
  <2> QED BY <2>1, <2>2, <1>1, <1>2, SsitAssumption DEF Shape
<1> QED
  BY <1>1, <1>2, <1>5, <1>6, <1>7, <1>8, <1>9, <1>10, <1>11, <1>12 DEF Fed, Shape

LEMMA WaitInOrder ==
    ASSUME Inv, NEW s \in Slaves, Wait(s), UNCHANGED inputs
    PROVE  Fed
<1>1. /\ index' = index /\ inPart' = inPart /\ topSent' = topSent /\ offset' = offset
      /\ syncs' = syncs /\ eof' = eof /\ out' = out /\ pdi' = pdi /\ master' = master
  BY DEF Wait, cursors, inputs
<1>2. BarrierKept' /\ MasterInStep' /\ MasterBefore(Len(out) + 1)' = masterSent
  BY <1>1, SameOutput DEF Inv
<1>3. \A t \in Slaves : CursorAt(t)' /\ CursorCounts(t)' /\ SentIs(t)'
  BY <1>1 DEF Inv, CursorAt, CursorCounts, SentIs, Part, HasTop, SyncsBefore, SizeOf
<1>4. \A t \in Slaves : syncs[t] \in Nat
  BY DEF Inv, Shape
<1>5. SameSyncPoints /\ master # 0 => \A t \in Slaves : eof[t] => masterSent >= master - 1
  BY DEF Inv, EndInStep
<1>6. \A t \in Slaves : syncs'[t] >= syncs[t] /\ (eof[t] => eof'[t])
  BY <1>1, <1>4
<1> QED
  BY <1>1, <1>2, <1>3, <1>5, <1>6 DEF Fed, Inv, Shape

LEMMA FileBounds ==
    /\ NumSlaves \in Nat \ {0}
    /\ MaxSyncs \in Nat
    /\ AllEnded \in Nat
    /\ \A s \in Slaves : s \in 1 .. NumSlaves /\ s # Master
    /\ Shape => master \in Nat /\ master < AllEnded
  BY SsitAssumption DEF AllEnded, Slaves, Master, Shape

LEMMA SlaveStep ==
    ASSUME Inv, NEW s \in Slaves, SlaveTurn(s)
    PROVE  Inv'
<1>1. Shape /\ InStep
  BY DEF Inv
<1>2. /\ turn = s
      /\ SendChunk(s) \/ ReachEnd(s) \/ Wait(s)
      /\ current' = CurrentSyncPoint
      /\ last' = IF master = 0 /\ last # current' THEN last + 1 ELSE last
      /\ PassTurn
      /\ UNCHANGED <<inputs, masterSent, common, status>>
      /\ pdi' = pdi /\ master' = master
  BY DEF SlaveTurn, inputs
<1>3. Fed
  BY <1>2, SentInOrder, EndInOrder, WaitInOrder
<1>4. /\ NumSlaves \in Nat \ {0} /\ s \in 1 .. NumSlaves
      /\ AllEnded \in Nat /\ master \in Nat
  BY <1>1, FileBounds
<1>5. /\ common \in Nat /\ current \in Nat /\ last \in Nat /\ masterSent \in Nat
      /\ syncs \in [Slaves -> Nat] /\ eof \in [Slaves -> BOOLEAN]
  BY <1>1 DEF Shape
<1>6. /\ syncs' \in [Slaves -> Nat] /\ eof' \in [Slaves -> BOOLEAN]
      /\ \A t \in Slaves : syncs'[t] >= syncs[t] /\ (eof[t] => eof'[t])
  BY <1>3 DEF Fed
<1>7. /\ current' \in Nat
      /\ current <= current'
      /\ current' <= AllEnded
      /\ \A t \in Slaves : eof'[t] \/ syncs'[t] >= current'
  <2> DEFINE S == {syncs'[t] : t \in {u \in Slaves : ~eof'[u]}} \cup {AllEnded}
  <2>1. S \in SUBSET Nat /\ AllEnded \in S
    BY <1>4, <1>6
  <2>2. current' = Min(S)
    BY <1>2 DEF CurrentSyncPoint
  <2>3. \A y \in S : current <= y
    <3>1. current <= AllEnded
      BY <1>1 DEF InStep
    <3>2. ASSUME NEW t \in Slaves, ~eof'[t]
          PROVE  current <= syncs'[t]
      <4>1. syncs[t] >= current
        BY <1>1, <1>6, <3>2 DEF InStep
      <4> QED BY <4>1, <1>5, <1>6
    <3> QED BY <3>1, <3>2
  <2>4. \A t \in Slaves : ~eof'[t] => syncs'[t] \in S
    OBVIOUS
  <2> HIDE DEF S
  <2>5. Min(S) \in S /\ \A y \in S : Min(S) <= y
    BY <2>1, MinIs
  <2>6. ASSUME NEW t \in Slaves PROVE eof'[t] \/ syncs'[t] >= current'
    BY <2>1, <2>2, <2>4, <2>5, <1>6
  <2> QED BY <2>1, <2>2, <2>3, <2>5, <2>6
<1>8. last' \in Nat /\ last' <= current'
  BY <1>1, <1>2, <1>5, <1>7 DEF InStep
<1>9. /\ turn' \in 0 .. (NumSlaves + 1)
      /\ master # 0 => turn' # 0
  BY <1>2, <1>4 DEF PassTurn
<1>10. status' = "running"
  BY <1>1, <1>2, <1>4 DEF Inv, EndsRightly, Shape
<1>11. Shape'
  BY <1>1, <1>2, <1>3, <1>5, <1>7, <1>8, <1>9, <1>10 DEF Shape, Fed
<1>12. InStep'
  <2>1. master' # 0 => last' = masterSent'
    BY <1>1, <1>2 DEF InStep
  <2>2. common' <= current'
    BY <1>1, <1>2, <1>5, <1>7 DEF InStep
  <2>3. masterSent' <= master'
    BY <1>1, <1>2 DEF InStep
  <2>4. AllEnded' = AllEnded
    BY DEF AllEnded
  <2> QED BY <2>1, <2>2, <2>3, <2>4, <1>7, <1>8 DEF InStep
<1>13. EndInStep'
  <2>1. SameSyncPoints' = SameSyncPoints
    BY <1>2 DEF SameSyncPoints
  <2> QED BY <2>1, <1>2, <1>3, <1>9 DEF Fed, EndInStep
<1>14. EndsRightly'
  BY <1>10 DEF EndsRightly
<1>15. MasterBefore(Len(out) + 1)' = masterSent'
  BY <1>2, <1>3 DEF Fed
<1> QED
  BY <1>3, <1>11, <1>12, <1>13, <1>14, <1>15 DEF Fed, Inv

\* The part the master sends ends at a sync point that every slave has reached.
LEMMA MasterStep ==
    ASSUME Inv, MasterTurn
    PROVE  Inv'
<1>0. PICK L \in Nat : L = Len(out)
  BY DEF Inv, Shape
<1>1. Shape /\ InStep /\ out \in Seq(Chunk) /\ MasterBefore(L + 1) = masterSent
  BY <1>0 DEF Inv, Shape
<1>2. /\ turn = Master /\ PassTurn
      /\ index' = index /\ inPart' = inPart /\ topSent' = topSent /\ offset' = offset
      /\ syncs' = syncs /\ eof' = eof /\ common' = common /\ current' = current
      /\ pdi' = pdi /\ master' = master /\ status' = status
      /\ UNCHANGED inputs
  BY DEF MasterTurn, cursors, inputs
<1>3. NumSlaves \in Nat \ {0} /\ AllEnded \in Nat /\ master \in Nat /\ master < AllEnded
  BY <1>1, FileBounds
<1>4. /\ common \in Nat /\ current \in Nat /\ last \in Nat /\ masterSent \in Nat
      /\ syncs \in [Slaves -> Nat] /\ eof \in [Slaves -> BOOLEAN]
  BY <1>1 DEF Shape
<1>5. turn' = 0
  BY <1>2, <1>3 DEF PassTurn, Master
<1>6. status' = "running"
  BY <1>1, <1>2, <1>3 DEF Inv, EndsRightly, Master, Shape
<1>7. \A t \in Slaves : CursorAt(t)' /\ CursorCounts(t)'
  BY <1>2 DEF Inv, CursorAt, CursorCounts, Part, HasTop, SyncsBefore, SizeOf
<1>8. SameSyncPoints' = SameSyncPoints
  BY <1>2 DEF SameSyncPoints
<1>9. EndsRightly'
  BY <1>6 DEF EndsRightly
<1>10. SameSyncPoints /\ master # 0 /\ current = AllEnded => masterSent >= master - 1
  <2>1. SUFFICES ASSUME SameSyncPoints, master # 0, current = AllEnded
                 PROVE  masterSent >= master - 1
    OBVIOUS
  <2>2. 1 \in Slaves
    BY <1>3 DEF Slaves
  <2>3. CursorCounts(1)
    BY <2>2 DEF Inv
  <2>4. syncs[1] <= MaxSyncs
    BY <1>1, <2>2, <2>3, SyncsBounded DEF CursorCounts
  <2>5. MaxSyncs \in Nat /\ MaxSyncs < AllEnded
    BY SsitAssumption DEF AllEnded
  <2>6. eof[1]
    BY <1>1, <1>4, <2>1, <2>2, <2>4, <2>5 DEF InStep
  <2> QED BY <2>1, <2>2, <2>6 DEF Inv, EndInStep
<1>11. CASE MasterDue /\ masterSent < master
  <2>1. PICK c \in Chunk : /\ out' = Append(out, c)
                           /\ c = [slr |-> Master, from |-> masterSent, size |-> 1]
    <3>1. [slr |-> Master, from |-> masterSent, size |-> 1] \in Chunk
      BY <1>3, <1>4 DEF Chunk, Master
    <3> QED BY <3>1, <1>11 DEF MasterTurn
  <2>2. masterSent' = masterSent + 1 /\ last' = last + 1
    BY <1>11 DEF MasterTurn
  <2>3. /\ Len(out) = L /\ DOMAIN out = 1 .. L /\ DOMAIN out' = 1 .. (L + 1)
        /\ out' \in Seq(Chunk) /\ Len(out') = L + 1 /\ out'[L + 1] = c
        /\ \A i \in 1 .. L : out'[i] = out[i]
    BY <1>0, <1>1, <2>1
  <2>4. masterSent < current /\ last = masterSent
    BY <1>1, <1>3, <1>4, <1>11 DEF InStep, MasterDue
  <2>5. Shape'
    BY <1>1, <1>2, <1>3, <1>4, <1>5, <2>2, <2>3 DEF Shape
  <2>6. InStep'
    <3>1. AllEnded' = AllEnded
      BY DEF AllEnded
    <3>2. last' <= current' /\ masterSent' <= master' /\ last' = masterSent'
      BY <1>2, <1>3, <1>4, <1>11, <2>2, <2>4
    <3> QED BY <3>1, <3>2, <1>1, <1>2 DEF InStep
  <2>7. ASSUME NEW t \in Slaves
        PROVE  SentIs(t)'
    <3>1. SentIs(t)
      BY DEF Inv
    <3>2. out'[L + 1].slr # t
      BY <2>1, <2>3, FileBounds
    <3>3. \A i \in 1 .. (L + 1) : out'[i].slr = t => i \in 1 .. L
      BY <3>2, <2>3
    <3>4. \A i \in 1 .. L : out'[i] = out[i] /\ i \in 1 .. (L + 1)
      BY <2>3
    <3> QED BY <3>1, <3>3, <3>4, <2>3, <1>2 DEF SentIs
  <2>8. MasterBefore(Len(out) + 1)' = masterSent'
    <3>1. MasterBefore(Len(out) + 1)' = MasterBefore(Len(out) + 1) + 1
      BY <1>1, <2>1, MasterCounts
    <3> QED BY <3>1, <1>0, <1>1, <2>2
  <2>9. EndInStep'
    <3>1. ASSUME SameSyncPoints, master # 0
          PROVE  /\ \A t \in Slaves : eof[t] => masterSent + 1 >= master - 1
                 /\ current = AllEnded => masterSent + 1 = master
      <4>1. \A t \in Slaves : eof[t] => masterSent >= master - 1
        BY <3>1 DEF Inv, EndInStep
      <4> QED BY <4>1, <3>1, <1>3, <1>4, <1>10, <1>11
    <3>2. AllEnded' = AllEnded
      BY DEF AllEnded
    <3> QED BY <3>1, <3>2, <1>2, <1>8, <2>2 DEF EndInStep
  <2>10. InPace(L + 1)'
    <3>1. ASSUME NEW t \in Slaves
          PROVE  HasReached(t, masterSent + 1, L + 1)
      <4>1. CursorCounts(t) /\ SentIs(t)
        BY DEF Inv
      <4>2. SentBefore(t, L + 1) = offset[t]
        BY <1>0, <1>1, <4>1, SentOffset
      <4>3. eof[t] \/ syncs[t] >= masterSent + 1
        BY <1>1, <1>4, <2>4 DEF InStep
      <4> QED BY <4>1, <4>2, <4>3 DEF HasReached, CursorCounts
    <3>2. PICK m \in Nat : masterSent = m
      BY <1>4
    <3>3. L + 1 \in 1 .. (Len(out) + 1) /\ m + 1 \in Int
      BY <2>3
    <3>4. \A t \in Slaves : HasReached(t, m + 1, L + 1)' = HasReached(t, m + 1, L + 1)
      BY <1>1, <1>2, <2>1, <3>3, PrefixKept
    <3>5. \A t \in Slaves : HasReached(t, m + 1, L + 1)'
      BY <3>1, <3>2, <3>4
    <3>6. out'[L + 1].from = m
      BY <2>1, <2>3, <3>2
    <3> QED BY <3>5, <3>6 DEF InPace
  <2>11. BehindBarrier(L + 1)'
    BY <2>1, <2>3 DEF BehindBarrier
  <2>12. BarrierKept' /\ MasterInStep'
    <3>1. ASSUME NEW j \in 1 .. L
          PROVE  BehindBarrier(j)' /\ InPace(j)'
      <4>1. j \in DOMAIN out
        BY <2>3
      <4>2. BehindBarrier(j) /\ InPace(j)
        BY <4>1, ChunkWise DEF Inv
      <4> QED BY <4>2, <1>0, <1>1, <1>2, <2>1, OldChunks
    <3>2. \A j \in DOMAIN out' : j \in 1 .. L \/ j = L + 1
      BY <2>3
    <3>3. \A j \in DOMAIN out' : BehindBarrier(j)' /\ InPace(j)'
      BY <3>1, <3>2, <2>10, <2>11
    <3> QED BY <3>3 DEF BarrierKept, MasterInStep, BehindBarrier, InPace
  <2> QED BY <2>5, <2>6, <2>7, <2>8, <2>9, <2>12, <1>7, <1>9 DEF Inv
<1>12. CASE ~(MasterDue /\ masterSent < master)
  <2>1. out' = out /\ masterSent' = masterSent /\ last' = last
    BY <1>12 DEF MasterTurn
  <2>2. Shape'
    BY <1>1, <1>2, <1>3, <1>5, <2>1 DEF Shape
  <2>3. AllEnded' = AllEnded
    BY DEF AllEnded
  <2>4. InStep'
    BY <1>1, <1>2, <2>1, <2>3 DEF InStep
  <2>5. \A t \in Slaves : SentIs(t)'
    BY <1>2, <2>1 DEF Inv, SentIs
  <2>6. BarrierKept' /\ MasterInStep' /\ MasterBefore(Len(out) + 1)' = masterSent'
    BY <1>0, <1>1, <1>2, <2>1, SameOutput DEF Inv
  <2>7. EndInStep'
    <3>1. ASSUME SameSyncPoints, master # 0, current = AllEnded
          PROVE  masterSent = master
      <4>1. last = masterSent /\ masterSent <= master
        BY <1>1, <3>1 DEF InStep
      <4>2. last # current
        BY <4>1, <3>1, <1>3, <1>4
      <4> QED BY <4>1, <4>2, <1>3, <1>4, <1>12 DEF MasterDue
    <3>2. SameSyncPoints /\ master # 0 => \A t \in Slaves : eof[t] => masterSent >= master - 1
      BY DEF Inv, EndInStep
    <3> QED BY <3>1, <3>2, <1>2, <1>8, <2>1, <2>3 DEF EndInStep
  <2> QED BY <2>2, <2>4, <2>5, <2>6, <2>7, <1>7, <1>9 DEF Inv
<1> QED
  BY <1>11, <1>12

LEMMA RoundStep ==
    ASSUME Inv, EndRound
    PROVE  Inv'
<1>1. Shape /\ InStep
  BY DEF Inv
<1>2. /\ turn = 0 /\ status = "running" /\ common' = current
      /\ index' = index /\ inPart' = inPart /\ topSent' = topSent /\ offset' = offset
      /\ syncs' = syncs /\ eof' = eof /\ current' = current /\ last' = last
      /\ pdi' = pdi /\ master' = master /\ masterSent' = masterSent /\ out' = out
      /\ UNCHANGED inputs
  BY DEF EndRound, cursors, inputs
<1>3. \/ turn' = 0 /\ status' = "done" /\ (current = AllEnded \/ ~BytesLeft)
      \/ turn' = 1 /\ status' = "running"
  BY <1>2 DEF EndRound
<1>4. NumSlaves \in Nat \ {0}
  BY FileBounds
<1>5. Shape'
  BY <1>1, <1>2, <1>3, <1>4 DEF Shape
<1>6. \A t \in Slaves : CursorAt(t)' /\ CursorCounts(t)' /\ SentIs(t)'
  BY <1>2 DEF Inv, CursorAt, CursorCounts, SentIs, Part, HasTop, SyncsBefore, SizeOf
<1>7. AllEnded' = AllEnded
  BY DEF AllEnded
<1>8. InStep'
  <2>1. common' <= current'
    BY <1>1, <1>2 DEF Shape
  <2> QED BY <2>1, <1>1, <1>2, <1>7 DEF InStep
<1>9. BarrierKept' /\ MasterInStep' /\ MasterBefore(Len(out) + 1)' = masterSent'
  BY <1>2, SameOutput DEF Inv
<1>10. EndInStep'
  <2>1. SameSyncPoints' = SameSyncPoints
    BY <1>2 DEF SameSyncPoints
  <2>2. EndInStep
    BY DEF Inv
  <2> QED BY <2>1, <2>2, <1>2, <1>3, <1>7 DEF EndInStep
<1>11. EndsRightly'
  <2>1. BytesLeft' = BytesLeft
    BY <1>2 DEF BytesLeft, SizeOf
  <2> QED BY <2>1, <1>2, <1>3, <1>7 DEF EndsRightly
<1> QED
  BY <1>5, <1>6, <1>8, <1>9, <1>10, <1>11 DEF Inv

LEMMA StutterStep ==
    ASSUME Inv, UNCHANGED vars
    PROVE  Inv'
<1>1. /\ turn' = turn /\ common' = common /\ status' = status
      /\ index' = index /\ inPart' = inPart /\ topSent' = topSent /\ offset' = offset
      /\ syncs' = syncs /\ eof' = eof /\ current' = current /\ last' = last
      /\ pdi' = pdi /\ master' = master /\ masterSent' = masterSent /\ out' = out
      /\ UNCHANGED inputs
  BY DEF vars, cursors, inputs
<1>2. Shape'
  BY <1>1 DEF Inv, Shape
<1>3. \A t \in Slaves : CursorAt(t)' /\ CursorCounts(t)' /\ SentIs(t)'
  BY <1>1 DEF Inv, CursorAt, CursorCounts, SentIs, Part, HasTop, SyncsBefore, SizeOf
<1>4. AllEnded' = AllEnded
  BY DEF AllEnded
<1>5. InStep'
  BY <1>1, <1>4 DEF Inv, InStep
<1>6. BarrierKept' /\ MasterInStep' /\ MasterBefore(Len(out) + 1)' = masterSent'
  BY <1>1, SameOutput DEF Inv
<1>7. EndInStep'
  <2>1. SameSyncPoints' = SameSyncPoints
    BY <1>1 DEF SameSyncPoints
  <2> QED BY <2>1, <1>1, <1>4 DEF Inv, EndInStep
<1>8. EndsRightly'
  <2>1. BytesLeft' = BytesLeft
    BY <1>1 DEF BytesLeft, SizeOf
  <2> QED BY <2>1, <1>1, <1>4 DEF Inv, EndsRightly
<1> QED
  BY <1>2, <1>3, <1>5, <1>6, <1>7, <1>8 DEF Inv

LEMMA InitInv ==
    ASSUME Init
    PROVE  Inv
<1>1. NumSlaves \in Nat \ {0} /\ MaxSyncs \in Nat /\ AllEnded \in Nat
  BY FileBounds
<1>2. Shape
  BY <1>1 DEF Init, Shape
<1>3. ASSUME NEW s \in Slaves
      PROVE  CursorAt(s) /\ CursorCounts(s) /\ SentIs(s)
  <2>1. /\ index[s] = 1 /\ inPart[s] = 0 /\ offset[s] = 0 /\ syncs[s] = 0
        /\ eof[s] = FALSE /\ out = <<>>
    BY DEF Init
  <2>2. /\ pdi[s].parts \in PartitionList /\ Len(pdi[s].parts) \in Nat \ {0}
        /\ \A p \in 1 .. Len(pdi[s].parts) :
              /\ pdi[s].parts[p].size \in Nat
              /\ pdi[s].parts[p].top \in Nat
              /\ pdi[s].parts[p].top < pdi[s].parts[p].size
        /\ pdi[s].syncs \subseteq 0 .. (SizeOf(s) - 1) /\ SizeOf(s) \in Nat
    BY <1>2, SlaveFile
  <2>3. BytesOfFirst(pdi[s].parts)[1 - 1] = 0
    <3>1. 1 - 1 \in 0 .. Len(pdi[s].parts) /\ 1 - 1 = 0
      BY <2>2
    <3> QED BY <3>1, <2>2, SumsStep
  <2>4. CursorAt(s)
    BY <2>1, <2>2, <2>3 DEF CursorAt, Part
  <2>5. SyncsBefore(s, 0) = 0
    <3>1. {b \in pdi[s].syncs : b < 0} = {}
      BY <2>2
    <3> QED BY <3>1, FS_EmptySet DEF SyncsBefore
  <2> QED BY <2>1, <2>4, <2>5 DEF CursorCounts, SentIs
<1>4. InStep
  BY <1>1, <1>2 DEF Init, InStep, Shape
<1>5. MasterBefore(Len(out) + 1) = masterSent
  <2>1. out = <<>> /\ Len(out) + 1 - 1 = 0 /\ masterSent = 0
    BY DEF Init
  <2>2. {i \in 1 .. (Len(out) + 1 - 1) : out[i].slr = Master} = {}
    BY <2>1
  <2> QED BY <2>1, <2>2, FS_EmptySet DEF MasterBefore
<1>6. EndInStep /\ EndsRightly /\ BarrierKept /\ MasterInStep
  BY DEF Init, EndInStep, EndsRightly, BarrierKept, MasterInStep
<1> QED
  BY <1>2, <1>3, <1>4, <1>5, <1>6 DEF Inv

LEMMA SsitInvariant == Spec => []Inv
<1>1. Init => Inv
  BY InitInv
<1>2. Inv /\ [Next]_vars => Inv'
  <2>1. ASSUME Inv, Next PROVE Inv'
    BY <2>1, SlaveStep, MasterStep, RoundStep DEF Next
  <2> QED BY <2>1, StutterStep
<1> QED
  BY <1>1, <1>2, PTL DEF Spec

-----------------------------------------------------------------------------
(* The theorems.                                                             *)

\* No slave SLR is fed past one of its sync points before every slave has reached
\* that sync point or its end, and before the master's commands up to it are in
\* the configuration partition, whether the sync points match or not.
THEOREM BarrierHolds == Spec => []BarrierKept
<1>1. Inv => BarrierKept
  BY DEF Inv
<1> QED
  BY <1>1, SsitInvariant, PTL

\* A part of the master's CDO comes when every slave has reached the sync point
\* the part ends at, or its end.
THEOREM MasterFollows == Spec => []MasterInStep
<1>1. Inv => MasterInStep
  BY DEF Inv
<1> QED
  BY <1>1, SsitInvariant, PTL

\* With as many sync points in every slave as in the master the loop stops with
\* every byte of the slaves and every part of the master sent.
THEOREM AllSent == Spec => []EverythingSent
<1>1. ASSUME Inv PROVE EverythingSent
  <2>1. Shape /\ InStep /\ EndInStep /\ EndsRightly
    BY <1>1 DEF Inv
  <2>2. SUFFICES ASSUME status = "done", SameSyncPoints
                 PROVE  /\ \A s \in Slaves : SentBefore(s, Len(out) + 1) = SizeOf(s)
                        /\ MasterBefore(Len(out) + 1) = master
    BY DEF EverythingSent
  <2>3. turn = 0 /\ (current = AllEnded \/ ~BytesLeft)
    BY <2>1, <2>2 DEF EndsRightly
  <2>4. /\ MaxSyncs \in Nat /\ AllEnded \in Nat /\ MaxSyncs < AllEnded
        /\ master \in Nat /\ masterSent \in Nat /\ masterSent <= master
    BY <2>1, FileBounds, SsitAssumption DEF AllEnded, InStep, Shape
  <2>5. ASSUME NEW s \in Slaves
        PROVE  offset[s] = SizeOf(s)
    <3>1. CursorAt(s) /\ CursorCounts(s)
      BY <1>1 DEF Inv
    <3>2. offset[s] \in Nat /\ SizeOf(s) \in Nat /\ offset[s] <= SizeOf(s)
      <4>1. offset[s] \in Nat /\ SizeOf(s) \in Nat
        BY <2>1, SlaveFile DEF Shape
      <4>2. PICK n \in Nat : n = ActualChunkSize(s) /\ offset[s] + n <= SizeOf(s)
        BY <2>1, <3>1, ChunkAtCursor
      <4> QED BY <4>1, <4>2
    <3>3. CASE current = AllEnded
      <4>1. syncs[s] \in Nat /\ syncs[s] <= MaxSyncs
        BY <2>1, <3>1, SyncsBounded DEF CursorCounts, Shape
      <4>2. eof[s]
        BY <2>1, <2>4, <3>3, <4>1 DEF InStep
      <4> QED BY <4>2, <3>1 DEF CursorCounts
    <3>4. CASE ~BytesLeft
      BY <3>2, <3>4 DEF BytesLeft
    <3> QED BY <2>3, <3>3, <3>4
  <2>6. \A s \in Slaves : SentBefore(s, Len(out) + 1) = SizeOf(s)
    BY <1>1, <2>1, <2>5, SentOffset DEF Inv
  <2>7. masterSent = master
    <3>1. CASE current = AllEnded
      BY <2>1, <2>2, <2>3, <2>4, <3>1 DEF EndInStep
    <3>2. CASE ~BytesLeft
      BY <2>4, <3>2 DEF BytesLeft
    <3> QED BY <2>3, <3>1, <3>2
  <2> QED BY <1>1, <2>6, <2>7 DEF Inv
<1> QED
  BY <1>1, SsitInvariant, PTL
=============================================================================
